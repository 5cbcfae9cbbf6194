--------------------------- MODULE VersionChains ----------------------------
(***************************************************************************)
(* What the memory store promises about versions, without requests, flags, *)
(* reviews or vectors: history is only ever added to, and a memory that    *)
(* has been edited already is edited nowhere but in its newest version.    *)
(***************************************************************************)
EXTENDS Naturals, Sequences

VARIABLES
    parent,     \* of each version the one it was made from; 0: of none
    root,       \* the first version of its chain
    heads       \* the newest version of each chain

vars == <<parent, root, heads>>

New == Len(parent) + 1

Init == parent = <<>> /\ root = <<>> /\ heads = {}

Start ==
    /\ parent' = Append(parent, 0)
    /\ root' = Append(root, New)
    /\ heads' = heads \cup {New}

Extend(m) ==
    /\ m \in heads
    /\ parent' = Append(parent, m)
    /\ root' = Append(root, root[m])
    /\ heads' = (heads \ {m}) \cup {New}

Next == Start \/ \E m \in heads : Extend(m)

Spec == Init /\ [][Next]_vars
=============================================================================
