-------------------------- MODULE MCCompilePublish --------------------------
(***************************************************************************)
(* CompilePublish with a publish and a manual request.  The attempts that  *)
(* overlap, and the retry that meets them, are those of the publish.       *)
(***************************************************************************)
EXTENDS CompilePublish

CONSTANTS p1, m1, s1, s2, c1

MCServes == [h \in Handlers |-> IF h = s1 THEN {p1, m1} ELSE {p1}]
Everything == [h \in Handlers |-> Requests]
=============================================================================
