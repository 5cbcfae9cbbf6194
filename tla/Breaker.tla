------------------------------ MODULE Breaker -------------------------------
(***************************************************************************)
(* ServiceGuard of kleos-lib (resilience/mod.rs): the circuit breaker      *)
(* (circuit_breaker.rs) inside the retry loop, shared by concurrent calls. *)
(*                                                                         *)
(* A call holds the breaker's lock only to ask for a permit and to record  *)
(* the outcome; in between the operation runs and the breaker may have     *)
(* opened, probed and closed several times.  Any call can be dropped at    *)
(* any await (a client that went away, a panic): only the destructor of    *)
(* its probe slot then runs.                                               *)
(***************************************************************************)
EXTENDS Integers, FiniteSets

CONSTANTS
    Call,                   \* concurrent callers
    failure_threshold,
    reset_timeout,          \* in clock ticks
    half_open_max_calls,
    max_attempts            \* of the retry policy

ASSUME BreakerAssumption ==
    /\ IsFiniteSet(Call)
    /\ failure_threshold \in Nat \ {0} /\ reset_timeout \in Nat
    /\ half_open_max_calls \in Nat \ {0} /\ max_attempts \in Nat \ {0}

VARIABLES
    state,          \* the breaker
    call,           \* each caller's place in ServiceGuard::call
    healthy         \* whether operations succeed and callers wait from now on

breakerVars == <<state, call, healthy>>

Closed(n) == [kind |-> "closed", n |-> n]
Open(left) == [kind |-> "open", n |-> left]         \* ticks left of the cooldown
HalfOpen(n) == [kind |-> "half_open", n |-> n]

NotCalling == [pc |-> "idle", attempt |-> 0, probe |-> FALSE]

\* The breaker is in one of its three states and no counter exceeds its limit.
BreakerTypeOK ==
    /\ state \in {Closed(n) : n \in 0..(failure_threshold - 1)}
                   \cup {Open(n) : n \in 0..reset_timeout}
                   \cup {HalfOpen(n) : n \in 0..half_open_max_calls}
    /\ call \in [Call -> [pc : {"idle", "permit", "op", "decide", "sleep"},
                          attempt : 0..max_attempts, probe : BOOLEAN]]
    /\ healthy \in BOOLEAN

BreakerInit ==
    /\ state = Closed(0)
    /\ call = [c \in Call |-> NotCalling]
    /\ healthy = FALSE
-----------------------------------------------------------------------------
Goto(c, pc) == [call EXCEPT ![c].pc = pc]

\* Mutant: reject at once while the breaker reads Open.
StartUnlessOpen(c) ==
    /\ call[c].pc = "idle"
    /\ state.kind # "open"
    /\ call' = Goto(c, "permit")
    /\ UNCHANGED <<state, healthy>>

Start(c) ==
    /\ call[c].pc = "idle"
    /\ call' = Goto(c, "permit")
    /\ UNCHANGED <<state, healthy>>

\* Phase 1, under the write lock: the operation may run, as a probe or not.
Admit(c, probe) ==
    call' = [call EXCEPT ![c] = [pc |-> "op", attempt |-> @.attempt + 1, probe |-> probe]]

PermitClosed(c) ==
    /\ call[c].pc = "permit" /\ state.kind = "closed"
    /\ Admit(c, FALSE)
    /\ UNCHANGED <<state, healthy>>

\* The first call after the cooldown is the first probe.
PermitFirstProbe(c) ==
    /\ call[c].pc = "permit" /\ state = Open(0)
    /\ state' = HalfOpen(1)
    /\ Admit(c, TRUE)
    /\ UNCHANGED healthy

\* Mutant: the bound on probes compared with <=.
SlotFreeOffByOne == state.n <= half_open_max_calls

SlotFree == state.n < half_open_max_calls

PermitProbe(c) ==
    /\ call[c].pc = "permit" /\ state.kind = "half_open" /\ SlotFree
    /\ state' = HalfOpen(state.n + 1)
    /\ Admit(c, TRUE)
    /\ UNCHANGED healthy

\* Err("circuit open")
Reject(c) ==
    /\ call[c].pc = "permit"
    /\ \/ state.kind = "open" /\ state.n > 0
       \/ state.kind = "half_open" /\ ~SlotFree
    /\ call' = [call EXCEPT ![c].pc = "decide", ![c].attempt = @ + 1]
    /\ UNCHANGED <<state, healthy>>

\* Mutant: a success always closes the breaker.
SuccessCloses == Closed(0)

\* Phase 3: a success that comes after the breaker tripped does not close it.
Success == IF state.kind = "open" THEN state ELSE Closed(0)

OpOk(c) ==
    /\ call[c].pc = "op"
    /\ state' = Success
    /\ call' = [call EXCEPT ![c] = NotCalling]
    /\ UNCHANGED healthy

Failure ==
    CASE state.kind = "half_open" -> Open(reset_timeout)
      [] state.kind = "closed" -> IF state.n + 1 >= failure_threshold THEN Open(reset_timeout)
                                  ELSE Closed(state.n + 1)
      [] state.kind = "open" -> state

OpErr(c) ==
    /\ call[c].pc = "op"
    /\ ~healthy
    /\ state' = Failure
    /\ call' = [call EXCEPT ![c].pc = "decide", ![c].probe = FALSE]
    /\ UNCHANGED healthy

\* The error may be of a kind that is not retried; otherwise the loop goes on while
\* attempts are left and the breaker, read again, is not open.
Decide(c) ==
    /\ call[c].pc = "decide"
    /\ call' = [call EXCEPT ![c] = NotCalling]  \* the call is dead-lettered
    /\ UNCHANGED <<state, healthy>>

DecideRetry(c) ==
    /\ call[c].pc = "decide"
    /\ call[c].attempt < max_attempts /\ state.kind # "open"
    /\ call' = Goto(c, "sleep")
    /\ UNCHANGED <<state, healthy>>

WakeUp(c) ==
    /\ call[c].pc = "sleep"
    /\ call' = Goto(c, "permit")
    /\ UNCHANGED <<state, healthy>>

\* Mutant: no destructor.
DropNothing(c) == state

\* Drop of InFlightGuard: saturating_sub, whichever round of probes is in progress.
DropGuard(c) ==
    IF call[c].pc = "op" /\ call[c].probe /\ state.kind = "half_open" /\ state.n > 0
    THEN HalfOpen(state.n - 1)
    ELSE state

Cancel(c) ==
    /\ call[c].pc # "idle"
    /\ ~healthy
    /\ state' = DropGuard(c)
    /\ call' = [call EXCEPT ![c] = NotCalling]
    /\ UNCHANGED healthy

BreakerTick ==
    /\ state.kind = "open" /\ state.n > 0
    /\ state' = Open(state.n - 1)
    /\ UNCHANGED <<call, healthy>>

\* The guarded service recovers.
ServiceRecovers ==
    /\ healthy' = TRUE
    /\ UNCHANGED <<state, call>>

CallStep(c) ==
    \/ Start(c) \/ PermitClosed(c) \/ PermitFirstProbe(c) \/ PermitProbe(c) \/ Reject(c)
    \/ OpOk(c) \/ Decide(c) \/ DecideRetry(c) \/ WakeUp(c)

BreakerNext ==
    \/ \E c \in Call : CallStep(c) \/ OpErr(c) \/ Cancel(c)
    \/ BreakerTick
    \/ ServiceRecovers

BreakerSpec == BreakerInit /\ [][BreakerNext]_breakerVars
-----------------------------------------------------------------------------
(* Properties. *)

Probes == {c \in Call : call[c].pc = "op" /\ call[c].probe}

\* A half-open breaker counts no probe that is not running: a dropped call gives its
\* slot back, so the breaker never rejects everybody while nobody probes.
SlotsNotLeaked ==
    state.kind = "half_open" => state.n <= Cardinality(Probes)

\* During the cooldown nothing runs and nothing ends it: no call is admitted, and
\* neither a late success nor a dropped probe of an earlier round closes the breaker.
CooldownRespected ==
    [][state.kind = "open" /\ state.n > 0 =>
         /\ state'.kind = "open" /\ state'.n >= state.n - 1
         /\ \A c \in Call : call'[c].pc = "op" => call[c].pc = "op"]_breakerVars

\* Once the service answers again and calls keep coming, the breaker closes: it is
\* stuck neither in Open nor in HalfOpen, whatever calls of earlier rounds did.
RecoversWithService == healthy ~> state.kind = "closed"
=============================================================================
