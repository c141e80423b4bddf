-------------------------- MODULE MCTenantContext --------------------------
(* Instances of TenantContext for TLC. *)
EXTENDS TenantContext, TLC
CONSTANT u1, u2

Symmetry == Permutations(Conns) \cup Permutations(Tenants) \cup Permutations(Names)
Depths == (u1 :> 3) @@ (u2 :> 1)
=============================================================================
