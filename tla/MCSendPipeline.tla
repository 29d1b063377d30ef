--------------------------- MODULE MCSendPipeline ---------------------------
(* SendPipeline for TLC: its workers are interchangeable. *)
EXTENDS SendPipeline, TLC

WorkerSymmetry == Permutations(Worker)

=============================================================================
