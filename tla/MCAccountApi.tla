---------------------------- MODULE MCAccountApi ----------------------------
(* Instances of AccountApi for TLC. *)
EXTENDS AccountApi, TLC

Symmetry == Permutations(Requests) \cup Permutations(Emails)
=============================================================================
