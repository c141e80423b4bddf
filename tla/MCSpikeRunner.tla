--------------------------- MODULE MCSpikeRunner ---------------------------
(* Instance of SpikeRunner for TLC. *)
EXTENDS SpikeRunner
=============================================================================
