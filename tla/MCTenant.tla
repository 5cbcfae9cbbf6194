------------------------------ MODULE MCTenant ------------------------------
(* Tenant with two calls in flight and as many jobs as the bounds can ask for. *)
EXTENDS TenantRefinement, TLC

Symmetry == Permutations(Task) \cup Permutations(Job)
=============================================================================
