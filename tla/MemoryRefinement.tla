-------------------------- MODULE MemoryRefinement --------------------------
(***************************************************************************)
(* The memories table implements VersionChains: parent_memory_id, the row  *)
(* itself where root_memory_id IS NULL, and is_latest.                     *)
(***************************************************************************)
EXTENDS Memory

Parents == [m \in Id |-> mem[m].parent]

Roots == [m \in Id |-> RootOf(m)]

Heads == {m \in Id : mem[m].is_latest}

Chains == INSTANCE VersionChains WITH parent <- Parents, root <- Roots, heads <- Heads

\* Whatever requests read before they write, and whatever they edit in between, a version is
\* added only after the newest one of its chain, which it replaces as the newest: two edits
\* of one memory never fork its history, and no step rewrites or reopens it.
ImplementsVersionChains == Chains!Spec
=============================================================================
