------------------------- MODULE MCArchivePipeline -------------------------
(***************************************************************************)
(* One archive of two batches, and slots for the jobs that can meet on it. *)
(* Every method is retried once.                                           *)
(***************************************************************************)
EXTENDS ArchivePipeline, TLC

MCRetries == [q \in Queued |-> 1]

JobSymmetry == Permutations(Job)
=============================================================================
