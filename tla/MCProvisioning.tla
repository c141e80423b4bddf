--------------------------- MODULE MCProvisioning ---------------------------
(* Instances of Provisioning for TLC. *)
EXTENDS Provisioning, TLC

\* Calls, addresses, subjects and the rows a run may create are interchangeable.
Symmetry == Permutations(Calls) \cup Permutations(Emails)
              \cup Permutations(Subjects) \cup Permutations(UserIds \ LegacyIds)
=============================================================================
