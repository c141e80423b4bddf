-------------------------- MODULE MCDurableWorker --------------------------
(* Instances of DurableWorker for TLC. *)
EXTENDS DurableWorker
=============================================================================
