------------------------------ MODULE Handoffs ------------------------------
(***************************************************************************)
(* Session handoffs of kleos-lib (handoffs/mod.rs) of one user and project:*)
(* stored with a check for duplicates, collected by a background pass that *)
(* every store spawns, by gc and by delete.                                *)
(*                                                                         *)
(* The writer pool has one connection, which a task takes and keeps over   *)
(* several closures; a semaphore bounds the collections at work.           *)
(***************************************************************************)
EXTENDS Integers, Sequences, FiniteSets

CONSTANTS
    NoTaskHolds,    \* nobody has the writer
    Storer,         \* calls of store_with_atoms in flight
    Collector,      \* spawned collections; bound
    Permits,        \* of gc_sem
    Hash,           \* content hashes
    Threshold,      \* collect above this many rows (500)
    Cap,            \* rows per project that are kept (50)
    KeepMechanical, KeepManual,     \* retention in days (7 and 90)
    MaxHandoffs,    \* bound: rows ever inserted
    MaxDay          \* bound: last day

ASSUME HandoffsAssumption ==
    /\ Permits \in Nat \ {0} /\ Threshold \in Nat /\ Cap \in Nat
    /\ KeepMechanical \in Nat /\ KeepManual \in Nat /\ MaxHandoffs \in Nat /\ MaxDay \in Nat
    /\ NoTaskHolds \notin Storer \cup Collector /\ Storer \cap Collector = {}
    /\ Hash # {}

VARIABLES
    handoff,        \* handoffs; an id is a position
    storer,         \* where each store is
    collector,      \* where each collection is
    writer,         \* who has the connection of the writer pool
    day,            \* the time
    overlapped      \* history: hashes two stores checked before either inserted

handoffsVars == <<handoff, storer, collector, writer, day, overlapped>>

HandoffType == {"mechanical", "manual"}

NoStorer == [pc |-> "idle", type |-> "manual", hash |-> CHOOSE h \in Hash : TRUE]

\* Rows, tasks and the writer keep their types.
HandoffsTypeOK ==
    /\ handoff \in Seq([type : HandoffType, hash : Hash, at : 0..MaxDay, gone : BOOLEAN])
    /\ storer \in [Storer -> [pc : {"idle", "acquire", "insert", "acquire_again", "atoms"},
                              type : HandoffType, hash : Hash]]
    /\ collector \in [Collector -> {"idle", "permit", "acquire", "count", "collect"}]
    /\ writer \in Storer \cup Collector \cup {NoTaskHolds}
    /\ day \in 0..MaxDay /\ overlapped \subseteq Hash

HandoffsInit ==
    /\ handoff = <<>>
    /\ storer = [s \in Storer |-> NoStorer]
    /\ collector = [c \in Collector |-> "idle"]
    /\ writer = NoTaskHolds /\ day = 0 /\ overlapped = {}
-----------------------------------------------------------------------------
(* Storing. *)

Stored == {h \in 1..Len(handoff) : ~handoff[h].gone}

\* Mutant: a mechanical handoff is looked for among the others.
DuplicateOfManual(hash) == \E h \in Stored : handoff[h].type = "manual" /\ handoff[h].hash = hash

Duplicate(hash) == \E h \in Stored : handoff[h].type = "mechanical" /\ handoff[h].hash = hash

Inserting(s, hash) ==
    /\ storer[s].pc \in {"acquire", "insert"}
    /\ storer[s].type = "mechanical" /\ storer[s].hash = hash

\* A mechanical handoff is looked up on a reader connection first.
store_handoff(s, type, hash) ==
    /\ storer[s].pc = "idle" /\ Len(handoff) < MaxHandoffs
    /\ type = "mechanical" => ~Duplicate(hash)
    /\ storer' = [storer EXCEPT ![s] = [pc |-> "acquire", type |-> type, hash |-> hash]]
    /\ overlapped' = IF type = "mechanical" /\ \E t \in Storer : Inserting(t, hash)
                     THEN overlapped \cup {hash} ELSE overlapped
    /\ UNCHANGED <<handoff, collector, writer, day>>

get_writer(s) ==
    /\ storer[s].pc \in {"acquire", "acquire_again"} /\ writer = NoTaskHolds
    /\ writer' = s
    /\ storer' = [storer EXCEPT ![s].pc = IF @ = "acquire" THEN "insert" ELSE "atoms"]
    /\ UNCHANGED <<handoff, collector, day, overlapped>>

\* The INSERT, the spawn, and the return, which gives the writer back.
insert_handoff(s, c) ==
    /\ storer[s].pc = "insert" /\ Len(handoff) < MaxHandoffs
    /\ collector[c] = "idle"
    /\ handoff' = Append(handoff, [type |-> storer[s].type, hash |-> storer[s].hash,
                                   at |-> day, gone |-> FALSE])
    /\ collector' = [collector EXCEPT ![c] = "permit"]
    /\ storer' = [storer EXCEPT ![s] = IF @.type = "mechanical" THEN NoStorer
                                       ELSE [@ EXCEPT !.pc = "acquire_again"]]
    /\ writer' = NoTaskHolds
    /\ UNCHANGED <<day, overlapped>>

\* One transaction on the atoms of the handoff; its failure is only logged.
store_atoms(s) ==
    /\ storer[s].pc = "atoms"
    /\ storer' = [storer EXCEPT ![s] = NoStorer]
    /\ writer' = NoTaskHolds
    /\ UNCHANGED <<handoff, collector, day, overlapped>>
-----------------------------------------------------------------------------
(* Collecting. *)

Aged(h) ==
    day - handoff[h].at > IF handoff[h].type = "mechanical" THEN KeepMechanical ELSE KeepManual

\* The newest n of S; rows of one moment are taken in any order.
Newest(S, n) ==
    {K \in SUBSET S : /\ Cardinality(K) = IF Cardinality(S) < n THEN Cardinality(S) ELSE n
                      /\ \A k \in K, h \in S \ K : handoff[k].at >= handoff[h].at}

Keep(K) == handoff' = [h \in 1..Len(handoff) |-> [handoff[h] EXCEPT !.gone = @ \/ h \notin K]]

gc_permit(c) ==
    /\ collector[c] = "permit"
    /\ Cardinality({d \in Collector : collector[d] \in {"acquire", "count", "collect"}}) < Permits
    /\ collector' = [collector EXCEPT ![c] = "acquire"]
    /\ UNCHANGED <<handoff, storer, writer, day, overlapped>>

gc_writer(c) ==
    /\ collector[c] = "acquire" /\ writer = NoTaskHolds
    /\ writer' = c
    /\ collector' = [collector EXCEPT ![c] = "count"]
    /\ UNCHANGED <<handoff, storer, day, overlapped>>

\* Mutant: the collection takes a connection of its own while the task holds one.
CollectOnAnother == "acquire"

\* The collection reuses the connection.
CollectOnSame == "collect"

\* Permit and connection go back together when the task ends.
gc_count(c) ==
    /\ collector[c] = "count"
    /\ IF Cardinality(Stored) > Threshold
       THEN collector' = [collector EXCEPT ![c] = CollectOnSame] /\ UNCHANGED writer
       ELSE collector' = [collector EXCEPT ![c] = "idle"] /\ writer' = NoTaskHolds
    /\ UNCHANGED <<handoff, storer, day, overlapped>>

run_tiered_gc(c) ==
    /\ collector[c] = "collect"
    /\ \E K \in Newest({h \in Stored : ~Aged(h)}, Cap) : Keep(K)
    /\ collector' = [collector EXCEPT ![c] = "idle"]
    /\ writer' = NoTaskHolds
    /\ UNCHANGED <<storer, day, overlapped>>

\* gc: by age and count, or the newest n.
gc_tiered ==
    /\ writer = NoTaskHolds
    /\ \E K \in Newest({h \in Stored : ~Aged(h)}, Cap) : K # Stored /\ Keep(K)
    /\ UNCHANGED <<storer, collector, writer, day, overlapped>>

gc_keep(n) ==
    /\ writer = NoTaskHolds
    /\ \E K \in Newest(Stored, n) : K # Stored /\ Keep(K)
    /\ UNCHANGED <<storer, collector, writer, day, overlapped>>

delete_handoff(h) ==
    /\ writer = NoTaskHolds /\ h \in Stored
    /\ Keep(Stored \ {h})
    /\ UNCHANGED <<storer, collector, writer, day, overlapped>>

NextDay ==
    /\ day < MaxDay /\ day' = day + 1
    /\ UNCHANGED <<handoff, storer, collector, writer, overlapped>>

HandoffsNext ==
    \/ \E s \in Storer, t \in HandoffType, x \in Hash : store_handoff(s, t, x)
    \/ \E s \in Storer : get_writer(s)
    \/ \E s \in Storer, c \in Collector : insert_handoff(s, c)
    \/ \E s \in Storer : store_atoms(s)
    \/ \E c \in Collector : gc_permit(c)
    \/ \E c \in Collector : gc_writer(c)
    \/ \E c \in Collector : gc_count(c)
    \/ \E c \in Collector : run_tiered_gc(c)
    \/ gc_tiered
    \/ \E n \in 0..Cap : gc_keep(n)
    \/ \E h \in Stored : delete_handoff(h)
    \/ NextDay

HandoffsSpec == HandoffsInit /\ [][HandoffsNext]_handoffsVars
-----------------------------------------------------------------------------
(* Properties. *)

\* Whoever has the one writer connection never waits for it: a store has given it back
\* before it stores atoms, and the collection it spawned does all its work on one.
WriterNotSelfBlocked ==
    /\ \A s \in Storer : storer[s].pc \in {"acquire", "acquire_again"} => writer # s
    /\ \A c \in Collector : collector[c] \in {"permit", "acquire"} => writer # c

Mechanical == {h \in Stored : handoff[h].type = "mechanical"}

\* A project keeps one copy of a mechanical handoff, unless two stores of the same content
\* both looked for it before either had inserted it.
OneMechanicalCopy ==
    \A g, h \in Mechanical :
        g # h /\ handoff[g].hash = handoff[h].hash => handoff[g].hash \in overlapped
=============================================================================
