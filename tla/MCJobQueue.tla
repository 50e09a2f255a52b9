----------------------------- MODULE MCJobQueue -----------------------------
(***************************************************************************)
(* JobQueue on a small instance.  Every slot belongs to a pool that serves *)
(* every job.                                                              *)
(***************************************************************************)
EXTENDS JobQueue

MCServes == [w \in Workers |-> Jobs]
=============================================================================
