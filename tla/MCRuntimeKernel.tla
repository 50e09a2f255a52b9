-------------------------- MODULE MCRuntimeKernel --------------------------
(***************************************************************************)
(* RuntimeKernel on a graph with one checkpoint that a run may visit again *)
(* and again: an instruction, its evaluation and a terminal node.          *)
(***************************************************************************)
EXTENDS RuntimeKernel

MCNodes == {"i1", "e1", "terminal"}
MCKind ==
  [n \in MCNodes |->
     CASE n = "i1" -> "instruct" [] n = "e1" -> "evaluate" [] n = "terminal" -> "success"]
MCResume == [n \in MCNodes |-> IF n = "i1" THEN "e1" ELSE None]
MCMoves ==
  {<<"e1", "proceed", "i1">>, <<"e1", "complete", "terminal">>, <<"e1", "abort", "terminal">>}
=============================================================================
