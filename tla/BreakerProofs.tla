--------------------------- MODULE BreakerProofs ----------------------------
(***************************************************************************)
(* Proofs about the circuit breaker, for any number of concurrent calls    *)
(* and any thresholds.                                                     *)
(***************************************************************************)
EXTENDS Breaker, FiniteSetTheorems, TLAPS

CallRow == [pc : {"idle", "permit", "op", "decide", "sleep"},
            attempt : 0..max_attempts, probe : BOOLEAN]

\* A caller that has yet to ask for a permit has an attempt left: the retry loop's bound.
AttemptLeft ==
    \A c \in Call : call[c].pc \in {"idle", "permit", "sleep"} => call[c].attempt < max_attempts

BreakerInv == BreakerTypeOK /\ AttemptLeft

\* The breaker's states, as kinds with the bounds of their counters.
StateOK(s) ==
    \/ \E n \in 0..(failure_threshold - 1) : s = Closed(n)
    \/ \E n \in 0..reset_timeout : s = Open(n)
    \/ \E n \in 0..half_open_max_calls : s = HalfOpen(n)

\* They are the states of the type invariant.
LEMMA StateKinds ==
    ASSUME NEW s
    PROVE  s \in {Closed(n) : n \in 0..(failure_threshold - 1)}
                   \cup {Open(n) : n \in 0..reset_timeout}
                   \cup {HalfOpen(n) : n \in 0..half_open_max_calls}
           <=> StateOK(s)
  BY DEF StateOK

\* What the kind of the current state says about its counter.
LEMMA StateOf ==
    ASSUME BreakerTypeOK
    PROVE  /\ state.kind \in {"closed", "open", "half_open"} /\ state.n \in Nat
           /\ state.kind = "closed" => state = Closed(state.n) /\ state.n \in 0..(failure_threshold - 1)
           /\ state.kind = "open" => state = Open(state.n) /\ state.n \in 0..reset_timeout
           /\ state.kind = "half_open" => state = HalfOpen(state.n) /\ state.n \in 0..half_open_max_calls
<1>1. StateOK(state)
  BY StateKinds DEF BreakerTypeOK
<1>2. QED
  BY <1>1, BreakerAssumption DEF StateOK, Closed, Open, HalfOpen

\* One step keeps the types and the bound on attempts.
LEMMA BreakerInvStep ==
    ASSUME BreakerInv, [BreakerNext]_breakerVars
    PROVE  BreakerInv'
<1> USE BreakerAssumption
<1>0. /\ BreakerTypeOK /\ AttemptLeft /\ StateOK(state)
      /\ call \in [Call -> CallRow] /\ healthy \in BOOLEAN
  BY StateKinds DEF BreakerInv, BreakerTypeOK, CallRow
<1>A. ASSUME StateOK(state'), NEW c \in Call, NEW r \in CallRow, call' = [call EXCEPT ![c] = r],
             r.pc \in {"idle", "permit", "sleep"} => r.attempt < max_attempts, healthy' \in BOOLEAN
      PROVE  BreakerInv'
  <2>1. BreakerTypeOK'
    BY <1>0, <1>A, StateKinds DEF BreakerTypeOK, CallRow
  <2>2. AttemptLeft'
    BY <1>0, <1>A DEF AttemptLeft
  <2>3. QED
    BY <2>1, <2>2 DEF BreakerInv
<1>B. StateOK(Closed(0)) /\ StateOK(HalfOpen(1)) /\ StateOK(Open(reset_timeout))
  BY DEF StateOK
<1>D. healthy' \in BOOLEAN
  BY <1>0, Zenon DEF BreakerNext, breakerVars, CallStep, Start, PermitClosed, PermitFirstProbe, PermitProbe, Reject,
                     OpOk, OpErr, Decide, DecideRetry, WakeUp, Cancel, BreakerTick, ServiceRecovers
<1>C. NotCalling \in CallRow /\ NotCalling.attempt < max_attempts
  BY DEF NotCalling, CallRow
<1>1. ASSUME NEW c \in Call, CallStep(c) \/ OpErr(c) \/ Cancel(c) PROVE BreakerInv'
  <2>0. call[c] \in CallRow
    BY <1>0
  <2>1. CASE Start(c) \/ WakeUp(c)
    <3>1. [call[c] EXCEPT !.pc = "permit"] \in CallRow
      BY <2>0 DEF CallRow
    <3>2. QED
      BY <1>0, <1>A, <1>D, <2>0, <2>1, <3>1 DEF Start, WakeUp, Goto, AttemptLeft, CallRow
  <2>2. CASE PermitClosed(c) \/ PermitFirstProbe(c) \/ PermitProbe(c)
    <3>0. call[c].pc = "permit" /\ call[c].attempt < max_attempts
      BY <1>0, <2>2 DEF AttemptLeft, PermitClosed, PermitFirstProbe, PermitProbe
    <3>1. PICK p \in BOOLEAN : Admit(c, p)
      BY <2>2 DEF PermitClosed, PermitFirstProbe, PermitProbe
    <3> DEFINE r == [pc |-> "op", attempt |-> call[c].attempt + 1, probe |-> p]
    <3>2. r \in CallRow /\ r.pc = "op"
      BY <2>0, <3>0 DEF CallRow
    <3>3. call' = [call EXCEPT ![c] = r]
      BY <3>1 DEF Admit
    <3>4. StateOK(state')
      <4>1. CASE PermitClosed(c)
        BY <1>0, <4>1 DEF PermitClosed
      <4>2. CASE PermitFirstProbe(c)
        BY <1>B, <4>2 DEF PermitFirstProbe
      <4>3. CASE PermitProbe(c)
        BY <1>0, <4>3, StateOf DEF PermitProbe, SlotFree, StateOK
      <4>4. QED
        BY <2>2, <4>1, <4>2, <4>3
    <3> HIDE DEF r
    <3>5. QED
      BY <1>A, <1>D, <3>2, <3>3, <3>4
  <2>3. CASE Reject(c)
    <3> DEFINE r == [call[c] EXCEPT !.pc = "decide", !.attempt = @ + 1]
    <3>1. call[c].attempt + 1 \in 0..max_attempts
      BY <1>0, <2>0, <2>3 DEF AttemptLeft, Reject, CallRow
    <3>2. r \in CallRow /\ r.pc = "decide"
      BY <2>0, <3>1 DEF CallRow
    <3>3. call' = [call EXCEPT ![c] = r] /\ UNCHANGED <<state, healthy>>
      BY <1>0, <2>3 DEF Reject
    <3>4. StateOK(state')
      BY <1>0, <3>3
    <3> HIDE DEF r
    <3>5. QED
      BY <1>A, <1>D, <3>2, <3>3, <3>4
  <2>4. CASE OpOk(c)
    <3>1. StateOK(state')
      BY <1>0, <1>B, <2>4 DEF OpOk, Success
    <3>2. QED
      BY <1>A, <1>C, <1>D, <2>4, <3>1 DEF OpOk
  <2>5. CASE OpErr(c)
    <3> DEFINE r == [call[c] EXCEPT !.pc = "decide", !.probe = FALSE]
    <3>1. r \in CallRow /\ r.pc = "decide"
      BY <2>0 DEF CallRow
    <3>2. call' = [call EXCEPT ![c] = r] /\ UNCHANGED healthy /\ state' = Failure
      BY <1>0, <2>5 DEF OpErr
    <3>3. StateOK(Failure)
      <4>1. CASE state.kind = "closed"
        <5>1. Failure = IF state.n + 1 >= failure_threshold THEN Open(reset_timeout) ELSE Closed(state.n + 1)
          BY <4>1 DEF Failure
        <5>2. QED
          BY <1>0, <1>B, <4>1, <5>1, StateOf DEF StateOK
      <4>2. CASE state.kind = "open"
        BY <1>0, <4>2 DEF Failure
      <4>3. CASE state.kind = "half_open"
        BY <1>B, <4>3 DEF Failure
      <4>4. QED
        BY <1>0, <4>1, <4>2, <4>3, StateOf
    <3> HIDE DEF r
    <3>4. QED
      BY <1>A, <1>D, <3>1, <3>2, <3>3
  <2>6. CASE Decide(c)
    <3>1. StateOK(state')
      BY <1>0, <2>6 DEF Decide
    <3>2. QED
      BY <1>A, <1>C, <1>D, <2>6, <3>1 DEF Decide
  <2>7. CASE DecideRetry(c)
    <3>1. [call[c] EXCEPT !.pc = "sleep"] \in CallRow
      BY <2>0 DEF CallRow
    <3>2. QED
      BY <1>0, <1>A, <1>D, <2>0, <2>7, <3>1 DEF DecideRetry, Goto, CallRow
  <2>8. CASE Cancel(c)
    <3>1. StateOK(DropGuard(c))
      BY <1>0, StateOf DEF DropGuard, StateOK
    <3>2. QED
      BY <1>A, <1>C, <1>D, <2>8, <3>1 DEF Cancel
  <2>9. QED
    BY <1>1, <2>1, <2>2, <2>3, <2>4, <2>5, <2>6, <2>7, <2>8 DEF CallStep
<1>2. CASE BreakerTick
  <2>1. state' = Open(state.n - 1) /\ state.n - 1 \in 0..reset_timeout
    BY <1>0, <1>2, StateOf DEF BreakerTick
  <2>2. StateOK(state')
    BY <2>1 DEF StateOK
  <2>3. QED
    BY <1>0, <1>2, <2>2, StateKinds DEF BreakerTick, BreakerInv, BreakerTypeOK, AttemptLeft, StateOK
<1>3. CASE ServiceRecovers \/ UNCHANGED breakerVars
  BY <1>0, <1>3 DEF ServiceRecovers, breakerVars, BreakerInv, BreakerTypeOK, AttemptLeft
<1>4. QED
  BY <1>1, <1>2, <1>3 DEF BreakerNext

\* The invariant holds: types, and an attempt left for whoever has yet to ask.
THEOREM BreakerInvariant == BreakerSpec => []BreakerInv
<1>1. BreakerInit => BreakerInv
  <2>1. StateOK(Closed(0))
    BY BreakerAssumption DEF StateOK
  <2>2. NotCalling \in CallRow /\ NotCalling.attempt < max_attempts
    BY BreakerAssumption DEF NotCalling, CallRow
  <2>3. BreakerInit => BreakerTypeOK
    BY <2>1, <2>2, StateKinds DEF BreakerInit, BreakerTypeOK, CallRow
  <2>4. BreakerInit => AttemptLeft
    BY <2>2 DEF BreakerInit, AttemptLeft
  <2>5. QED
    BY <2>3, <2>4 DEF BreakerInv
<1>2. BreakerInv /\ [BreakerNext]_breakerVars => BreakerInv'
  BY BreakerInvStep
<1>3. QED
  BY <1>1, <1>2, PTL DEF BreakerSpec

\* The breaker is in one of its three states and no counter exceeds its limit.
THEOREM TypeCorrect == BreakerSpec => []BreakerTypeOK
<1>1. BreakerInv => BreakerTypeOK
  BY DEF BreakerInv
<1>2. QED
  BY <1>1, BreakerInvariant, PTL

\* A half-open breaker counts no probe that is not running.
THEOREM NoSlotLeaks == BreakerSpec => []SlotsNotLeaked
<1>1. BreakerInit => SlotsNotLeaked
  BY DEF BreakerInit, SlotsNotLeaked, Closed
<1>2. BreakerInv /\ SlotsNotLeaked /\ [BreakerNext]_breakerVars => SlotsNotLeaked'
  <2> SUFFICES ASSUME BreakerInv, SlotsNotLeaked, [BreakerNext]_breakerVars PROVE SlotsNotLeaked'
    OBVIOUS
  <2>0. /\ BreakerTypeOK /\ call \in [Call -> CallRow]
        /\ IsFiniteSet(Probes) /\ Cardinality(Probes) \in Nat /\ Probes \in SUBSET Call
    <3>1. Probes \in SUBSET Call
      BY DEF Probes
    <3>2. QED
      BY <3>1, FS_Subset, FS_CardinalityType, BreakerAssumption DEF BreakerInv, BreakerTypeOK, CallRow
  <2>A. state.n \in Nat /\ (state.kind = "half_open" => state = HalfOpen(state.n))
    BY <2>0, StateOf
  \* A step that changes neither the probes that run nor their count.
  <2>B. ASSUME Probes' = Probes, state'.kind = "half_open" => state' = state PROVE SlotsNotLeaked'
    BY <2>B DEF SlotsNotLeaked
  \* A step after which the breaker is not half-open.
  <2>C. ASSUME state'.kind # "half_open" PROVE SlotsNotLeaked'
    BY <2>C DEF SlotsNotLeaked
  <2>1. ASSUME NEW c \in Call, CallStep(c) \/ OpErr(c) \/ Cancel(c) PROVE SlotsNotLeaked'
    <3>1. CASE Start(c) \/ WakeUp(c) \/ Reject(c) \/ Decide(c) \/ DecideRetry(c)
      <4>1. UNCHANGED state
        BY <3>1 DEF Start, WakeUp, Reject, Decide, DecideRetry
      <4>2. Probes' = Probes
        BY <2>0, <3>1 DEF Start, WakeUp, Reject, Decide, DecideRetry, Goto, Probes, NotCalling, CallRow
      <4>3. QED
        BY <2>B, <4>1, <4>2
    <3>2. CASE PermitClosed(c)
      BY <2>C, <3>2 DEF PermitClosed
    <3>3. CASE PermitFirstProbe(c) \/ PermitProbe(c)
      <4>1. c \notin Probes
        BY <3>3 DEF PermitFirstProbe, PermitProbe, Probes
      <4>2. Probes' = Probes \cup {c}
        BY <2>0, <3>3 DEF PermitFirstProbe, PermitProbe, Admit, Probes
      <4>3. Cardinality(Probes') = Cardinality(Probes) + 1
        BY <2>0, <4>1, <4>2, FS_AddElement
      <4>4. CASE PermitFirstProbe(c)
        BY <2>0, <4>3, <4>4 DEF PermitFirstProbe, HalfOpen, SlotsNotLeaked
      <4>5. CASE PermitProbe(c)
        BY <2>0, <2>A, <4>3, <4>5 DEF PermitProbe, HalfOpen, SlotsNotLeaked
      <4>6. QED
        BY <3>3, <4>4, <4>5
    <3>4. CASE OpOk(c)
      BY <2>C, <3>4 DEF OpOk, Success, Closed
    <3>5. CASE OpErr(c)
      <4>1. state.kind \in {"closed", "open", "half_open"}
        BY <2>0, StateOf
      <4>2. Failure.kind # "half_open"
        BY <4>1 DEF Failure, Open, Closed
      <4>3. QED
        BY <2>C, <3>5, <4>2 DEF OpErr
    <3>6. CASE Cancel(c)
      <4>1. Probes' = Probes \ {c}
        BY <2>0, <3>6 DEF Cancel, NotCalling, Probes
      <4>2. CASE c \in Probes
        <5>1. Cardinality(Probes') = Cardinality(Probes) - 1
          BY <2>0, <4>1, <4>2, FS_RemoveElement
        <5>2. Cardinality(Probes') \in Nat
          <6>1. Probes' \in SUBSET Probes
            BY <4>1
          <6>2. QED
            BY <2>0, <6>1, FS_Subset, FS_CardinalityType
        <5>3. CASE state.kind = "half_open" /\ state.n > 0
          BY <2>0, <2>A, <3>6, <4>2, <5>1, <5>3 DEF Cancel, DropGuard, Probes, HalfOpen, SlotsNotLeaked
        <5>4. CASE ~(state.kind = "half_open" /\ state.n > 0)
          BY <2>A, <3>6, <5>2, <5>4 DEF Cancel, DropGuard, SlotsNotLeaked
        <5>5. QED
          BY <5>3, <5>4
      <4>3. CASE c \notin Probes
        <5>1. Probes' = Probes /\ state' = state
          BY <3>6, <4>1, <4>3 DEF Cancel, DropGuard, Probes
        <5>2. QED
          BY <2>B, <5>1
      <4>4. QED
        BY <4>2, <4>3
    <3>7. QED
      BY <2>1, <3>1, <3>2, <3>3, <3>4, <3>5, <3>6 DEF CallStep
  <2>2. CASE BreakerTick
    BY <2>C, <2>2 DEF BreakerTick, Open
  <2>3. CASE ServiceRecovers \/ UNCHANGED breakerVars
    BY <2>3, <2>B DEF ServiceRecovers, breakerVars, Probes
  <2>4. QED
    BY <2>1, <2>2, <2>3 DEF BreakerNext
<1>3. QED
  BY <1>1, <1>2, BreakerInvariant, PTL DEF BreakerSpec

\* During the cooldown nothing is admitted and nothing ends it but the time.
THEOREM CooldownIsRespected == BreakerSpec => CooldownRespected
<1> DEFINE Kept == state.kind = "open" /\ state.n > 0 =>
                     /\ state'.kind = "open" /\ state'.n >= state.n - 1
                     /\ \A c \in Call : call'[c].pc = "op" => call[c].pc = "op"
<1>1. BreakerInv /\ [BreakerNext]_breakerVars => [Kept]_breakerVars
  <2> SUFFICES ASSUME BreakerInv, BreakerNext, state.kind = "open", state.n > 0
               PROVE  Kept
    BY DEF breakerVars
  <2>0. state = Open(state.n) /\ state.n \in Nat /\ call \in [Call -> CallRow]
    BY StateOf DEF BreakerInv, BreakerTypeOK, CallRow
  <2>1. ASSUME NEW c \in Call, CallStep(c) \/ OpErr(c) \/ Cancel(c) PROVE Kept
    <3>1. CASE Start(c) \/ WakeUp(c) \/ Reject(c) \/ Decide(c) \/ DecideRetry(c)
      BY <2>0, <3>1 DEF Start, WakeUp, Reject, Decide, DecideRetry, Goto, NotCalling, CallRow
    <3>2. CASE PermitClosed(c) \/ PermitFirstProbe(c) \/ PermitProbe(c)
      BY <2>0, <3>2 DEF PermitClosed, PermitFirstProbe, PermitProbe, Open
    <3>3. CASE OpOk(c)
      BY <2>0, <3>3 DEF OpOk, Success, NotCalling
    <3>4. CASE OpErr(c)
      <4>1. Failure = state
        BY DEF Failure
      <4>2. QED
        BY <2>0, <3>4, <4>1 DEF OpErr, CallRow
    <3>5. CASE Cancel(c)
      BY <2>0, <3>5 DEF Cancel, DropGuard, NotCalling
    <3>6. QED
      BY <2>1, <3>1, <3>2, <3>3, <3>4, <3>5 DEF CallStep
  <2>2. CASE BreakerTick
    BY <2>0, <2>2 DEF BreakerTick, Open
  <2>3. CASE ServiceRecovers
    BY <2>0, <2>3 DEF ServiceRecovers
  <2>4. QED
    BY <2>1, <2>2, <2>3 DEF BreakerNext
<1>2. QED
  BY <1>1, BreakerInvariant, PTL DEF BreakerSpec, CooldownRespected
=============================================================================
