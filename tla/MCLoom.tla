------------------------------- MODULE MCLoom -------------------------------
(* Loom on the dependency graphs over three steps.  Every graph that is       *)
(* refused is among them; those that are accepted come numbered in the order  *)
(* of their dependencies, since another numbering only swaps the order in     *)
(* which steps that are ready together are dispatched.                        *)
EXTENDS Loom, TLC

Numbered == Kahn(depends_on) = Step => \A s \in Step : \A d \in depends_on[s] : d < s

MCInit == Init /\ Numbered

MCSpec == MCInit /\ [][Next]_vars

\* The first step may be retried once.
MCRetries == [s \in Step |-> IF s = 1 THEN 1 ELSE 0]

Symmetry == Permutations(Task)
=============================================================================
