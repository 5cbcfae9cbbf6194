-------------------------------- MODULE Axon --------------------------------
(***************************************************************************)
(* The Axon event bus of kleos-lib (services/axon): events published to    *)
(* channels, read by agents through one stored cursor per agent, channel   *)
(* and user, and pruned when they are older than the channel keeps them.   *)
(*                                                                         *)
(* A poll reads the cursor, reads the events after it, stores the new      *)
(* cursor and, once it has read that back, answers.  Each is a closure of  *)
(* its own, and several polls of one agent may be in flight.               *)
(* Webhook fan-out is best effort and left out.                            *)
(***************************************************************************)
EXTENDS Integers, Sequences, FiniteSets, FiniteSetsExt

CONSTANTS
    Stream,         \* a channel as one user sees it
    Reader,         \* agents
    Poll,           \* polls in flight
    Limit,          \* events per poll
    MaxEvents       \* bound: events ever published

ASSUME AxonAssumption ==
    /\ Stream # {} /\ Reader # {}
    /\ Limit \in Nat \ {0} /\ MaxEvents \in Nat

VARIABLES
    log,            \* axon_events; ids are AUTOINCREMENT, so positions
    last_event_id,  \* axon_cursors
    poll,           \* where each poll is
    given,          \* history: ids in the answers to each agent
    twice,          \* history: ids in two answers to an agent
    lost,           \* history: ids that were to be in an answer that was cut off
    shared          \* history: cursors two polls have used at once

axonVars == <<log, last_event_id, poll, given, twice, lost, shared>>

EventId == 1..Len(log)

NoPoll == [pc |-> "idle", agent |-> CHOOSE a \in Reader : TRUE,
           stream |-> CHOOSE s \in Stream : TRUE, last |-> 0, events |-> {}]

\* The table, the cursors and the polls keep their types.
AxonTypeOK ==
    /\ log \in Seq([stream : Stream, pruned : BOOLEAN]) /\ Len(log) <= MaxEvents
    /\ last_event_id \in [Reader \X Stream -> 0..MaxEvents]
    /\ poll \in [Poll -> [pc : {"idle", "read", "advance", "answer"}, agent : Reader,
                          stream : Stream, last : 0..MaxEvents, events : SUBSET (1..MaxEvents)]]
    /\ \A h \in {given, twice, lost} : h \in [Reader \X Stream -> SUBSET EventId]
    /\ shared \subseteq Reader \X Stream

AxonInit ==
    /\ log = <<>>
    /\ last_event_id = [k \in Reader \X Stream |-> 0]
    /\ poll = [p \in Poll |-> NoPoll]
    /\ given = [k \in Reader \X Stream |-> {}] /\ twice = given /\ lost = given
    /\ shared = {}
-----------------------------------------------------------------------------
publish_event(s) ==
    /\ Len(log) < MaxEvents
    /\ log' = Append(log, [stream |-> s, pruned |-> FALSE])
    /\ UNCHANGED <<last_event_id, poll, given, twice, lost, shared>>

\* Every event of a channel that was published up to some moment.
prune_expired_events(s, upto) ==
    /\ upto \in EventId /\ log[upto].stream = s /\ ~log[upto].pruned
    /\ log' = [e \in EventId |->
                 IF log[e].stream = s /\ e <= upto THEN [log[e] EXCEPT !.pruned = TRUE] ELSE log[e]]
    /\ UNCHANGED <<last_event_id, poll, given, twice, lost, shared>>

Key(p) == <<poll[p].agent, poll[p].stream>>

\* An absent row reads as 0.
get_cursor(p, a, s) ==
    /\ poll[p].pc = "idle"
    /\ poll' = [poll EXCEPT ![p] = [pc |-> "read", agent |-> a, stream |-> s,
                                    last |-> last_event_id[<<a, s>>], events |-> {}]]
    /\ shared' = IF \E q \in Poll : poll[q].pc # "idle" /\ Key(q) = <<a, s>>
                 THEN shared \cup {<<a, s>>} ELSE shared
    /\ UNCHANGED <<log, last_event_id, given, twice, lost>>

\* Mutant: the last event is read again.
AfterInclusive(p) ==
    {e \in EventId : log[e].stream = poll[p].stream /\ ~log[e].pruned /\ e >= poll[p].last}

\* WHERE channel, user_id and id > last.
After(p) ==
    {e \in EventId : log[e].stream = poll[p].stream /\ ~log[e].pruned /\ e > poll[p].last}

\* ORDER BY id ASC LIMIT.
FirstOf(S) == {e \in S : Cardinality({d \in S : d < e}) < Limit}

\* With nothing to read the cursor stays and the answer is empty.
consume(p) ==
    /\ poll[p].pc = "read"
    /\ poll' = [poll EXCEPT ![p] = IF After(p) = {} THEN NoPoll
                                   ELSE [pc |-> "advance", agent |-> @.agent, stream |-> @.stream,
                                         last |-> 0, events |-> FirstOf(After(p))]]
    /\ UNCHANGED <<log, last_event_id, given, twice, lost, shared>>

\* Mutant: the cursor goes to the newest event there is.
NewCursorNewest(p) == Len(log)

NewCursor(p) == Max(poll[p].events)

\* Unconditional: a slower poll can move the cursor back.
upsert_cursor(p) ==
    /\ poll[p].pc = "advance"
    /\ last_event_id' = [last_event_id EXCEPT ![Key(p)] = NewCursor(p)]
    /\ poll' = [poll EXCEPT ![p].pc = "answer"]
    /\ UNCHANGED <<log, given, twice, lost, shared>>

\* The answer is built after the cursor was read once more.
poll_answers(p) ==
    /\ poll[p].pc = "answer"
    /\ given' = [given EXCEPT ![Key(p)] = @ \cup poll[p].events]
    /\ twice' = [twice EXCEPT ![Key(p)] = @ \cup (given[Key(p)] \cap poll[p].events)]
    /\ poll' = [poll EXCEPT ![p] = NoPoll]
    /\ UNCHANGED <<log, last_event_id, lost, shared>>

\* The client goes away, a closure fails or the server stops.  Once the cursor has moved, the
\* events of the answer are not offered again.
poll_lost(p) ==
    /\ poll[p].pc # "idle"
    /\ lost' = [lost EXCEPT ![Key(p)] = IF poll[p].pc = "answer" THEN @ \cup poll[p].events ELSE @]
    /\ poll' = [poll EXCEPT ![p] = NoPoll]
    /\ UNCHANGED <<log, last_event_id, given, twice, shared>>

AxonNext ==
    \/ \E s \in Stream : publish_event(s)
    \/ \E s \in Stream, e \in EventId : prune_expired_events(s, e)
    \/ \E p \in Poll, a \in Reader, s \in Stream : get_cursor(p, a, s)
    \/ \E p \in Poll : consume(p)
    \/ \E p \in Poll : upsert_cursor(p)
    \/ \E p \in Poll : poll_answers(p)
    \/ \E p \in Poll : poll_lost(p)

AxonSpec == AxonInit /\ [][AxonNext]_axonVars
-----------------------------------------------------------------------------
(* Properties. *)

\* What became of the events a cursor has passed: they were in an answer, are in one that is
\* about to be sent, or went with one that was cut off.
Accounted(k) ==
    given[k] \cup lost[k] \cup UNION {poll[p].events : p \in {q \in Poll : poll[q].pc = "answer" /\ Key(q) = k}}

\* An agent's cursor passes no event of its channel that was not read for an answer to the
\* agent: what it passed is accounted for or was pruned, also when polls of the agent overlap,
\* are cut off before the cursor has moved, or set it back.
NothingSkipped ==
    \A k \in Reader \X Stream : \A e \in 1..last_event_id[k] :
        log[e].stream = k[2] /\ ~log[e].pruned => e \in Accounted(k)

\* An agent that polls one request at a time is given no event twice, whatever was cut
\* off, pruned or published in between.  A poll the agent gave up on, but whose cursor write
\* is still to run, is in flight until that write is made.
OnceIfAlone == \A k \in Reader \X Stream : k \notin shared => twice[k] = {}
=============================================================================
