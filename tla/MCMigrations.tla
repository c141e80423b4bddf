--------------------------- MODULE MCMigrations ---------------------------
(* Instances of Migrations for TLC. *)
EXTENDS Migrations, TLC

Symmetry ==
    Permutations(Ids) \cup Permutations(Emails) \cup Permutations(Subjects)
        \cup Permutations(Calls)
=============================================================================
