------------------------------ MODULE Sidecar ------------------------------
(***************************************************************************)
(* The observation buffer of kleos-sidecar (session.rs, routes.rs and the  *)
(* background tasks of main.rs): observations of agent sessions wait in    *)
(* memory and are flushed to the Kleos server in batches.                  *)
(*                                                                         *)
(* A flush takes its batch out of the queue under the lock, sends it       *)
(* without the lock, and puts back what was not confirmed.  Flushes are    *)
(* spawned by observe, run by a timer, by /end and at shutdown, and        *)
(* overlap freely.  Counters that are only reported are left out.          *)
(***************************************************************************)
EXTENDS Integers, Sequences, SequencesExt

CONSTANTS
    Session, DefaultSession,    \* session ids; one is always there
    Flush, NoFlush,             \* flushes in flight
    BatchSize,                  \* batch_size
    RetainEvery,                \* retain_every_n
    OverlapTurns,               \* overlap_turns
    MaxPending,                 \* max_pending_per_session
    MaxObservations             \* bound: observations ever accepted

ASSUME SidecarAssumption ==
    /\ DefaultSession \in Session /\ NoFlush \notin Flush
    /\ BatchSize \in Nat /\ RetainEvery \in Nat \ {0} /\ OverlapTurns \in Nat
    /\ MaxPending \in Nat /\ MaxObservations \in Nat

VARIABLES
    session,        \* SessionManager.sessions
    flush,          \* where each flush is
    timer,          \* the flush the timer awaits
    phase,          \* of the process
    owner,          \* history: whose the n-th accepted observation is
    confirmed,      \* history: observations the server confirmed
    forfeited       \* history: sessions that were started again with a queue, that expired during
                    \* a flush, or whose /end was dropped by its client

sidecarVars == <<session, flush, timer, phase, owner, confirmed, forfeited>>

Observation == 1..Len(owner)

NewSession == [state |-> "active", turns |-> 0, pending |-> <<>>]
NoSession == [NewSession EXCEPT !.state = "none"]
NoBatch == [pc |-> "idle", session |-> DefaultSession, batch |-> <<>>, ok |-> {}, ends |-> FALSE]

\* Sessions, queues and flushes keep their types.
SidecarTypeOK ==
    /\ session \in [Session -> [state : {"none", "active", "ended"}, turns : Nat,
                                pending : Seq(1..MaxObservations)]]
    /\ session[DefaultSession].state # "none"
    /\ flush \in [Flush -> [pc : {"idle", "drain", "send", "finalize", "end"}, session : Session,
                            batch : Seq(1..MaxObservations), ok : SUBSET (1..MaxObservations),
                            ends : BOOLEAN]]
    /\ timer \in Flush \cup {NoFlush}
    /\ phase \in {"serving", "stopping", "down"}
    /\ owner \in Seq(Session) /\ Len(owner) <= MaxObservations
    /\ confirmed \subseteq Observation /\ forfeited \subseteq Session

SidecarInit ==
    /\ session = [s \in Session |-> IF s = DefaultSession THEN NewSession ELSE NoSession]
    /\ flush = [f \in Flush |-> NoBatch] /\ timer = NoFlush
    /\ phase = "serving"
    /\ owner = <<>> /\ confirmed = {} /\ forfeited = {}
-----------------------------------------------------------------------------
(* Sessions and observations. *)

\* The names of flushes mean nothing: a new one takes the first that is free.
FreeFlush(f) ==
    /\ phase # "down" /\ flush[f].pc = "idle"
    /\ f = CHOOSE g \in Flush : flush[g].pc = "idle"

\* A session that has ended is replaced.
start_session(s) ==
    /\ phase # "down" /\ session[s].state # "active"
    /\ session' = [session EXCEPT ![s] = NewSession]
    /\ forfeited' = IF session[s].pending = <<>> THEN forfeited ELSE forfeited \cup {s}
    /\ UNCHANGED <<flush, timer, phase, owner, confirmed>>

GetOrCreate(s) == IF session[s].state = "none" THEN NewSession ELSE session[s]

\* A role that is not retained still creates the session.
observe_filtered(s) ==
    /\ phase # "down"
    /\ session' = [session EXCEPT ![s] = GetOrCreate(s)]
    /\ UNCHANGED <<flush, timer, phase, owner, confirmed, forfeited>>

\* The newest OverlapTurns observations stay.
Drained(pending) ==
    SubSeq(pending, 1, IF Len(pending) <= OverlapTurns THEN 0 ELSE Len(pending) - OverlapTurns)

DrainDue(turns, count) == turns % RetainEvery = 0 \/ count >= BatchSize

\* An ended session (410) and a full queue (503) refuse.
observe(s, f) ==
    LET old   == GetOrCreate(s)
        all   == Append(old.pending, Len(owner) + 1)
        batch == IF DrainDue(old.turns + 1, Len(all)) THEN Drained(all) ELSE <<>>
    IN  /\ FreeFlush(f) /\ Len(owner) < MaxObservations
        /\ old.state = "active" /\ Len(old.pending) < MaxPending
        /\ owner' = Append(owner, s)
        /\ session' = [session EXCEPT ![s] = [old EXCEPT !.turns = @ + 1,
                          !.pending = SubSeq(all, Len(batch) + 1, Len(all))]]
        /\ flush' = IF batch = <<>> THEN flush
                    ELSE [flush EXCEPT ![f] = [NoBatch EXCEPT !.pc = "send", !.session = s,
                                                              !.batch = batch]]
        /\ UNCHANGED <<timer, phase, confirmed, forfeited>>

\* idle_ttl (hours) outlasts the flushes that observe and the timer start, which follow the last
\* activity; /end and the shutdown may drain a session that has been idle for long.
expire_idle(s) ==
    /\ phase # "down" /\ s # DefaultSession /\ session[s].state # "none"
    /\ session[s].pending = <<>>
    /\ \A f \in Flush : flush[f].pc # "idle" /\ flush[f].session = s =>
                            flush[f].ends \/ phase = "stopping"
    /\ session' = [session EXCEPT ![s] = NoSession]
    /\ forfeited' = IF \E f \in Flush : flush[f].session = s /\ flush[f].batch # <<>>
                    THEN forfeited \cup {s} ELSE forfeited
    /\ UNCHANGED <<flush, timer, phase, owner, confirmed>>
-----------------------------------------------------------------------------
(* Flushes. *)

\* drain_pending: the whole queue.
Taken(s) == [session EXCEPT ![s].pending = <<>>]

\* Sessions are picked from a list, and drained later.
Starts(f, s) ==
    /\ FreeFlush(f)
    /\ flush' = [flush EXCEPT ![f] = [NoBatch EXCEPT !.pc = "drain", !.session = s]]

\* Candidates are sessions that have not ended; one is flushed after the other.
time_flush(f, s) ==
    /\ timer = NoFlush /\ session[s].state = "active" /\ session[s].pending # <<>>
    /\ Starts(f, s)
    /\ timer' = f
    /\ UNCHANGED <<session, phase, owner, confirmed, forfeited>>

\* Where a flush goes when it is over.
Over(f) ==
    /\ flush' = [flush EXCEPT ![f] = IF @.ends THEN [@ EXCEPT !.pc = "end", !.batch = <<>>, !.ok = {}]
                                     ELSE NoBatch]
    /\ timer' = IF timer = f THEN NoFlush ELSE timer

flush_pending(f) ==
    LET s == flush[f].session
    IN  /\ flush[f].pc = "drain"
        /\ IF session[s].pending = <<>> THEN Over(f)
           ELSE /\ flush' = [flush EXCEPT ![f].pc = "send", ![f].batch = session[s].pending]
                /\ UNCHANGED timer
        /\ session' = Taken(s)
        /\ UNCHANGED <<phase, owner, confirmed, forfeited>>

\* /end drains the session as it comes in and marks it when its flush is over.
end_session(f, s) ==
    /\ FreeFlush(f)
    /\ flush' = [flush EXCEPT ![f] = [NoBatch EXCEPT
                    !.pc = IF session[s].pending = <<>> THEN "end" ELSE "send",
                    !.session = s, !.batch = session[s].pending, !.ends = TRUE]]
    /\ session' = Taken(s)
    /\ UNCHANGED <<timer, phase, owner, confirmed, forfeited>>

\* Mutant: what the answer says nothing about counts as stored.
ConfirmedUnlessFalse(batch, flags) ==
    {batch[i] : i \in {j \in DOMAIN batch : j \in DOMAIN flags => flags[j]}}

\* partition_by_flags: a truncated answer confirms what it names.
ConfirmedBy(batch, flags) == {batch[i] : i \in {j \in DOMAIN flags : flags[j]}}

\* After the retries: the flags of the answer, of /store one by one, or none.
flush_observations(f, flags) ==
    /\ flush[f].pc = "send" /\ Len(flags) <= Len(flush[f].batch)
    /\ flush' = [flush EXCEPT ![f].pc = "finalize", ![f].ok = ConfirmedBy(flush[f].batch, flags)]
    /\ confirmed' = confirmed \cup {flush[f].batch[i] : i \in {j \in DOMAIN flags : flags[j]}}
    /\ UNCHANGED <<session, timer, phase, owner, forfeited>>

\* The loop of partition_by_flags pushes what was not confirmed, in order.
Unconfirmed(batch, ok) ==
    LET failed[i \in 0..Len(batch)] ==
            IF i = 0 THEN <<>>
            ELSE IF batch[i] \in ok THEN failed[i - 1] ELSE Append(failed[i - 1], batch[i])
    IN  failed[Len(batch)]

\* requeue: ahead of what has arrived since.  A session that is gone gets nothing.
finalize_flush(f) ==
    LET s == flush[f].session
    IN  /\ flush[f].pc = "finalize"
        /\ session' = IF session[s].state = "none" THEN session
                      ELSE [session EXCEPT ![s].pending = Unconfirmed(flush[f].batch, flush[f].ok) \o @]
        /\ Over(f)
        /\ UNCHANGED <<phase, owner, confirmed, forfeited>>

\* NotFound and AlreadyEnded change nothing.
EndMarked(f) ==
    LET s == flush[f].session
    IN  /\ flush[f].pc = "end"
        /\ session' = IF session[s].state = "active" THEN [session EXCEPT ![s].state = "ended"]
                      ELSE session
        /\ flush' = [flush EXCEPT ![f] = NoBatch]
        /\ UNCHANGED <<timer, phase, owner, confirmed, forfeited>>

\* The client of /end goes away, and the handler with the batch it holds.
end_dropped(f) ==
    /\ flush[f].ends
    /\ flush' = [flush EXCEPT ![f] = NoBatch]
    /\ forfeited' = IF flush[f].batch = <<>> THEN forfeited ELSE forfeited \cup {flush[f].session}
    /\ UNCHANGED <<session, timer, phase, owner, confirmed>>
-----------------------------------------------------------------------------
(* Shutdown. *)

\* Requests are served until the flushes are over or their ten seconds are.
shutdown_signal ==
    /\ phase = "serving" /\ phase' = "stopping"
    /\ UNCHANGED <<session, flush, timer, owner, confirmed, forfeited>>

\* Ended sessions too.
flush_all_sessions(f, s) ==
    /\ phase = "stopping" /\ session[s].pending # <<>>
    /\ Starts(f, s)
    /\ UNCHANGED <<session, timer, phase, owner, confirmed, forfeited>>

\* After the shutdown, or without one.
exit ==
    /\ phase # "down" /\ phase' = "down"
    /\ session' = [s \in Session |-> IF s = DefaultSession THEN NewSession ELSE NoSession]
    /\ flush' = [f \in Flush |-> NoBatch] /\ timer' = NoFlush
    /\ UNCHANGED <<owner, confirmed, forfeited>>

SidecarNext ==
    \/ \E s \in Session : start_session(s)
    \/ \E s \in Session : observe_filtered(s)
    \/ \E s \in Session, f \in Flush : observe(s, f)
    \/ \E s \in Session : expire_idle(s)
    \/ \E f \in Flush, s \in Session : time_flush(f, s)
    \/ \E f \in Flush, s \in Session : end_session(f, s)
    \/ \E f \in Flush : flush_pending(f)
    \/ \E f \in Flush, flags \in BoundedSeq(BOOLEAN, MaxObservations) : flush_observations(f, flags)
    \/ \E f \in Flush : finalize_flush(f)
    \/ \E f \in Flush : EndMarked(f)
    \/ \E f \in Flush : end_dropped(f)
    \/ shutdown_signal
    \/ \E f \in Flush, s \in Session : flush_all_sessions(f, s)
    \/ exit

SidecarSpec == SidecarInit /\ [][SidecarNext]_sidecarVars
-----------------------------------------------------------------------------
(* Properties. *)

Queued(o) == \E s \in Session : o \in Range(session[s].pending)

InFlight(o) == \E f \in Flush : o \in Range(flush[f].batch)

\* While the process is up an accepted observation is confirmed by the server, queued, or in
\* the batch of a flush: failed, truncated and overlapping flushes, /end and the expiry of
\* sessions drop none.  Left out are sessions started again while observations were queued in
\* the ended one, those that expired while /end or the shutdown held a batch, and those whose
\* /end was dropped while it held one.
NoObservationLost ==
    phase # "down" =>
        \A o \in Observation :
            o \in confirmed \/ Queued(o) \/ InFlight(o) \/ owner[o] \in forfeited
=============================================================================
