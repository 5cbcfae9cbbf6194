--------------------------- MODULE ServicesProofs ---------------------------
(***************************************************************************)
(* Proofs about the small services: approvals, the event bus, the rate     *)
(* limits and the handoffs; and that the composition follows each service. *)
(***************************************************************************)
EXTENDS MCServices, MemoryProofs, ChiasmProofs, SidecarProofs

(* Approvals.  A reported decision can only be overwritten by a decide that   *)
(* read the row before: one that is still to write.                           *)

Writing(d, a) == decider[d].pc = "write" /\ decider[d].id = a

\* Unless it is contested, an approval has at most one call about to write it, and
\* none once a decision was reported.
ApprovalsInv ==
    \A a \in Approval \ contested :
        /\ told[a] # {} => told[a] = {approval[a].status}
        /\ \A d \in Decider : Writing(d, a) => told[a] = {}
        /\ \A d, e \in Decider : Writing(d, a) /\ Writing(e, a) => d = e

\* A call of decide that is not in flight writes nothing.
LEMMA NoDeciderIdle ==
    /\ NoDecider \in [pc : {"idle", "write"}, id : Approval,
                      status : Decision \cup {"pending", "expired"}]
    /\ NoDecider.pc = "idle"
  BY ApprovalsAssumption DEF NoDecider

\* Rows and calls of decide keep their types.
THEOREM ApprovalsTypeCorrect == ApprovalsSpec => []ApprovalsTypeOK
<1> USE ApprovalsAssumption
<1>1. ApprovalsInit => ApprovalsTypeOK
  BY NoDeciderIdle DEF ApprovalsInit, ApprovalsTypeOK, NoApproval
<1>2. ApprovalsTypeOK /\ [ApprovalsNext]_approvalsVars => ApprovalsTypeOK'
  <2> SUFFICES ASSUME ApprovalsTypeOK, [ApprovalsNext]_approvalsVars PROVE ApprovalsTypeOK'
    OBVIOUS
  <2> USE DEF ApprovalsTypeOK
  <2>1. ASSUME NEW a \in Approval, create_approval(a) PROVE ApprovalsTypeOK'
    BY <2>1 DEF create_approval
  <2>2. ASSUME NEW d \in Decider, NEW a \in Approval, NEW s \in Decision, decide(d, a, s)
        PROVE  ApprovalsTypeOK'
    BY <2>2 DEF decide, Decision
  <2>3. ASSUME NEW d \in Decider, decide_write(d) PROVE ApprovalsTypeOK'
    BY <2>3, NoDeciderIdle DEF decide_write
  <2>4. ASSUME NEW d \in Decider, decide_lost(d) PROVE ApprovalsTypeOK'
    BY <2>4, NoDeciderIdle DEF decide_lost
  <2>5. CASE expire_stale
    BY <2>5 DEF expire_stale
  <2>6. CASE ApprovalsTick
    BY <2>6 DEF ApprovalsTick
  <2>7. CASE UNCHANGED approvalsVars
    BY <2>7 DEF approvalsVars
  <2>8. QED
    BY <2>1, <2>2, <2>3, <2>4, <2>5, <2>6, <2>7 DEF ApprovalsNext
<1>3. QED
  BY <1>1, <1>2, PTL DEF ApprovalsSpec

\* A decision that decide reported is changed neither by expire_stale nor by a later
\* decide, unless two calls were between their read and their write at once.
THEOREM ReportedDecisionStands == ApprovalsSpec => []DecisionStands
<1>1. ApprovalsInit => ApprovalsInv
  BY NoDeciderIdle DEF ApprovalsInit, ApprovalsInv, Writing
<1>2. ApprovalsTypeOK /\ ApprovalsInv /\ [ApprovalsNext]_approvalsVars => ApprovalsInv'
  <2> SUFFICES ASSUME ApprovalsTypeOK, ApprovalsInv, [ApprovalsNext]_approvalsVars
               PROVE  ApprovalsInv'
    OBVIOUS
  <2> USE DEF ApprovalsTypeOK, ApprovalsInv, Writing
  <2>1. ASSUME NEW a \in Approval, create_approval(a) PROVE ApprovalsInv'
    BY <2>1 DEF create_approval, Decision
  <2>2. ASSUME NEW d \in Decider, NEW a \in Approval, NEW s \in Decision, decide(d, a, s)
        PROVE  ApprovalsInv'
    BY <2>2 DEF decide, Decision, StillOpen, DecidedElsewhere
  <2>3. ASSUME NEW d \in Decider, decide_write(d) PROVE ApprovalsInv'
    BY <2>3, NoDeciderIdle DEF decide_write, Decision
  <2>4. ASSUME NEW d \in Decider, decide_lost(d) PROVE ApprovalsInv'
    BY <2>4, NoDeciderIdle DEF decide_lost
  <2>5. CASE expire_stale
    BY <2>5 DEF expire_stale, IsOverdue, Decision
  <2>6. CASE ApprovalsTick
    BY <2>6 DEF ApprovalsTick
  <2>7. CASE UNCHANGED approvalsVars
    BY <2>7 DEF approvalsVars
  <2>8. QED
    BY <2>1, <2>2, <2>3, <2>4, <2>5, <2>6, <2>7 DEF ApprovalsNext
<1>3. ApprovalsInv => DecisionStands
  BY DEF ApprovalsInv, DecisionStands
<1>4. QED
  BY <1>1, <1>2, <1>3, ApprovalsTypeCorrect, PTL DEF ApprovalsSpec
-----------------------------------------------------------------------------
(* The event bus.                                                             *)

\* A nonempty set of naturals has a least element.
LEMMA LeastNatural ==
    ASSUME NEW S \in SUBSET Nat, S # {}
    PROVE  \E m \in S : \A x \in S : m <= x
<1>1. PICK m \in S : \A y \in S : ~(<<y, m>> \in OpToRel(<, Nat))
  <2>1. S \subseteq Nat
    OBVIOUS
  <2>2. QED
    BY <2>1, WFMin, NatLessThanWellFounded, Zenon
<1>2. \A y \in S : ~(y < m)
  BY <1>1 DEF OpToRel
<1>3. QED
  BY <1>2

\* Max is what its name says for a nonempty set of ids.
LEMMA MaxOfIds ==
    ASSUME NEW n \in Nat, NEW S \in SUBSET (1..n), S # {}
    PROVE  Max(S) \in S /\ \A x \in S : x <= Max(S)
<1> DEFINE T == {n - x : x \in S}
<1>1. T \in SUBSET Nat /\ T # {}
  <2>1. \A x \in S : n - x \in Nat
    OBVIOUS
  <2>2. PICK x \in S : TRUE
    OBVIOUS
  <2>3. QED
    BY <2>1, <2>2
<1> HIDE DEF T
<1>2. PICK t \in T : \A u \in T : t <= u
  BY <1>1, LeastNatural
<1> USE DEF T
<1>3. PICK m \in S : t = n - m
  BY <1>2
<1>4. \A x \in S : m >= x
  <2>1. \A x \in S : n - x \in T
    OBVIOUS
  <2>2. QED
    BY <1>2, <1>3, <2>1
<1>5. \E x \in S : \A y \in S : x >= y
  BY <1>4
<1>6. QED
  BY <1>5 DEF Max

\* The first Limit ids of a set are all there is before each of them, and not none.
LEMMA FirstOfIds ==
    ASSUME NEW n \in Nat, NEW S \in SUBSET (1..n), S # {}
    PROVE  /\ FirstOf(S) # {} /\ FirstOf(S) \subseteq S
           /\ \A e \in FirstOf(S) : \A d \in S : d < e => d \in FirstOf(S)
<1> DEFINE Earlier(e) == {d \in S : d < e}
<1>1. \A e \in S : IsFiniteSet(Earlier(e)) /\ Cardinality(Earlier(e)) \in Nat
  <2>1. IsFiniteSet(1..n)
    BY FS_Interval
  <2>2. IsFiniteSet(S)
    BY <2>1, FS_Subset
  <2>3. \A e \in S : Earlier(e) \in SUBSET S
    OBVIOUS
  <2> HIDE DEF Earlier
  <2>4. QED
    BY <2>2, <2>3, FS_Subset, FS_CardinalityType
<1>2. FirstOf(S) = {e \in S : Cardinality(Earlier(e)) < Limit}
  BY DEF FirstOf
<1>3. PICK m \in S : \A x \in S : m <= x
  <2>1. S \in SUBSET Nat
    OBVIOUS
  <2>2. QED
    BY <2>1, LeastNatural
<1>4. m \in FirstOf(S)
  <2>1. Earlier(m) = {}
    <3>1. \A d \in S : d \in Nat /\ m \in Nat /\ ~(d < m)
      BY <1>3
    <3>2. QED
      BY <3>1
  <2>2. Cardinality(Earlier(m)) = 0
    BY <2>1, FS_EmptySet
  <2> HIDE DEF Earlier
  <2>3. QED
    BY <1>2, <2>2, AxonAssumption
<1>5. ASSUME NEW e \in FirstOf(S), NEW d \in S, d < e PROVE d \in FirstOf(S)
  <2>1. e \in S /\ Cardinality(Earlier(e)) < Limit
    BY <1>2
  <2>2. Earlier(d) \in SUBSET Earlier(e)
    <3>1. \A x \in S : x \in Nat
      OBVIOUS
    <3>2. \A x \in S : x < d => x < e
      BY <1>5, <2>1, <3>1
    <3>3. QED
      BY <3>2
  <2> HIDE DEF Earlier
  <2>3. Cardinality(Earlier(d)) <= Cardinality(Earlier(e))
    BY <1>1, <2>1, <2>2, FS_Subset
  <2>4. QED
    BY <1>1, <1>2, <2>1, <2>3, AxonAssumption
<1>6. QED
  BY <1>2, <1>4, <1>5

Keys == Reader \X Stream

\* Of the first n events those of k's channel that are still there are accounted for or in S.
Seen(k, n, S) ==
    \A e \in 1..n : log[e].stream = k[2] /\ ~log[e].pruned => e \in Accounted(k) \cup S

\* What a poll knows between its closures: the cursor it read had skipped nothing, and
\* neither do the events it is about to move the cursor past.
PollOK(p) ==
    /\ poll[p].pc = "read" => poll[p].last <= Len(log) /\ Seen(Key(p), poll[p].last, {})
    /\ poll[p].pc = "advance" =>
          /\ poll[p].events # {} /\ poll[p].events \subseteq EventId
          /\ Seen(Key(p), Max(poll[p].events), poll[p].events)
    /\ poll[p].pc = "answer" => poll[p].events \subseteq EventId

AxonInv ==
    /\ AxonTypeOK
    /\ \A k \in Keys : last_event_id[k] <= Len(log) /\ Seen(k, last_event_id[k], {})
    /\ \A p \in Poll : PollOK(p)

PollRow == [pc : {"idle", "read", "advance", "answer"}, agent : Reader, stream : Stream,
            last : 0..MaxEvents, events : SUBSET (1..MaxEvents)]

\* A poll that is not in flight.
LEMMA NoPollIdle == NoPoll \in PollRow /\ NoPoll.pc = "idle"
  BY AxonAssumption DEF NoPoll, PollRow

\* The table and what is accounted for only grow: no event changes its channel or comes back.
AxonGrows ==
    /\ Len(log) <= Len(log')
    /\ \A e \in EventId : log'[e].stream = log[e].stream /\ (log[e].pruned => log'[e].pruned)
    /\ \A k \in Keys : Accounted(k) \subseteq Accounted(k)'

\* An event is accounted for by an answer that was sent, one that was cut off or one to come.
AnswerComing(k, e) == \E p \in Poll : poll[p].pc = "answer" /\ Key(p) = k /\ e \in poll[p].events

LEMMA AccountedSteps ==
    ASSUME AxonTypeOK
    PROVE  \A k \in Keys :
             /\ \A e : e \in Accounted(k) <=> e \in given[k] \/ e \in lost[k] \/ AnswerComing(k, e)
             /\ \A e : e \in Accounted(k)' <=> e \in given'[k] \/ e \in lost'[k] \/ AnswerComing(k, e)'
  BY DEF Accounted, AnswerComing, Key

\* What was seen stays seen.
LEMMA SeenStable ==
    ASSUME AxonTypeOK, AxonGrows, NEW k \in Keys, NEW n \in 0..Len(log), NEW S, Seen(k, n, S)
    PROVE  Seen(k, n, S)'
<1>1. \A e \in 1..n : e \in EventId
  BY DEF AxonTypeOK, EventId
<1>2. QED
  BY <1>1 DEF AxonGrows, Seen

\* Every step lets the table and what is accounted for grow.
LEMMA AxonStepGrows ==
    ASSUME AxonTypeOK, [AxonNext]_axonVars
    PROVE  AxonGrows
<1>0. /\ Len(log) \in Nat /\ poll \in [Poll -> PollRow]
      /\ given \in [Keys -> SUBSET EventId] /\ lost \in [Keys -> SUBSET EventId]
  BY DEF AxonTypeOK, PollRow, Keys
\* A step that keeps the table.
<1>T. ASSUME UNCHANGED log, \A k \in Keys : Accounted(k) \subseteq Accounted(k)' PROVE AxonGrows
  BY <1>0, <1>T DEF AxonGrows
\* A step that sends no answer and gives none up.
<1>A. ASSUME UNCHANGED <<given, lost>>,
             \A q \in Poll : poll[q].pc = "answer" => poll'[q] = poll[q]
      PROVE  \A k \in Keys : Accounted(k) \subseteq Accounted(k)'
  <2>1. \A k \in Keys : \A e : AnswerComing(k, e) => AnswerComing(k, e)'
    BY <1>A DEF AnswerComing, Key
  <2>2. QED
    BY <1>A, <2>1, AccountedSteps
<1>1. ASSUME NEW s \in Stream, publish_event(s) PROVE AxonGrows
  <2>1. Len(log) <= Len(log') /\ \A e \in EventId : log'[e] = log[e]
    BY <1>1 DEF publish_event, AxonTypeOK, EventId
  <2>2. UNCHANGED <<poll, given, lost>>
    BY <1>1 DEF publish_event
  <2>3. QED
    BY <1>A, <2>1, <2>2 DEF AxonGrows
<1>2. ASSUME NEW s \in Stream, NEW u \in EventId, prune_expired_events(s, u) PROVE AxonGrows
  <2> DEFINE f == [e \in 1..Len(log) |->
                    IF log[e].stream = s /\ e <= u THEN [log[e] EXCEPT !.pruned = TRUE] ELSE log[e]]
  <2>1. log' = f /\ UNCHANGED <<poll, given, lost>>
    BY <1>2 DEF prune_expired_events, EventId
  <2>2. Len(f) = Len(log) /\ Len(log) \in Nat
    BY DEF AxonTypeOK
  <2>3. \A e \in EventId : f[e].stream = log[e].stream /\ (log[e].pruned => f[e].pruned)
    BY DEF AxonTypeOK, EventId
  <2> HIDE DEF f
  <2>4. QED
    BY <1>A, <2>1, <2>2, <2>3 DEF AxonGrows
<1>3. ASSUME NEW p \in Poll, NEW a \in Reader, NEW s \in Stream, get_cursor(p, a, s) PROVE AxonGrows
  BY <1>0, <1>3, <1>A, <1>T DEF get_cursor
<1>4. ASSUME NEW p \in Poll, consume(p) PROVE AxonGrows
  BY <1>0, <1>4, <1>A, <1>T DEF consume
<1>5. ASSUME NEW p \in Poll, upsert_cursor(p) PROVE AxonGrows
  BY <1>0, <1>5, <1>A, <1>T DEF upsert_cursor
\* A step that ends a poll whose events are answered or given up.
<1>B. ASSUME NEW p \in Poll, UNCHANGED log, poll' = [poll EXCEPT ![p] = NoPoll],
             \A k \in Keys : given[k] \cup lost[k] \subseteq given'[k] \cup lost'[k],
             poll[p].pc = "answer" => poll[p].events \subseteq given'[Key(p)] \cup lost'[Key(p)]
      PROVE  AxonGrows
  <2>1. \A q \in Poll : q # p => poll'[q] = poll[q]
    BY <1>0, <1>B
  <2>2. ASSUME NEW k \in Keys, NEW e, AnswerComing(k, e)
        PROVE  AnswerComing(k, e)' \/ e \in given'[k] \cup lost'[k]
    <3>1. PICK q \in Poll : poll[q].pc = "answer" /\ Key(q) = k /\ e \in poll[q].events
      BY <2>2 DEF AnswerComing
    <3>2. CASE q = p
      BY <1>B, <3>1, <3>2
    <3>3. CASE q # p
      BY <2>1, <3>1, <3>3 DEF AnswerComing, Key
    <3>4. QED
      BY <3>2, <3>3
  <2>3. \A k \in Keys : Accounted(k) \subseteq Accounted(k)'
    BY <1>B, <2>2, AccountedSteps
  <2>4. QED
    BY <1>B, <1>T, <2>3
<1>6. ASSUME NEW p \in Poll, poll_answers(p) PROVE AxonGrows
  <2>1. Key(p) \in Keys
    BY <1>0 DEF Key, Keys, PollRow
  <2>2. /\ given' = [given EXCEPT ![Key(p)] = @ \cup poll[p].events]
        /\ UNCHANGED <<log, lost>> /\ poll' = [poll EXCEPT ![p] = NoPoll]
    BY <1>6 DEF poll_answers
  <2>3. given'[Key(p)] = given[Key(p)] \cup poll[p].events /\ \A k \in Keys : given[k] \subseteq given'[k]
    BY <1>0, <2>1, <2>2
  <2>4. QED
    BY <1>B, <2>2, <2>3
<1>7. ASSUME NEW p \in Poll, poll_lost(p) PROVE AxonGrows
  <2>1. Key(p) \in Keys
    BY <1>0 DEF Key, Keys, PollRow
  <2>2. /\ lost' = [lost EXCEPT ![Key(p)] = IF poll[p].pc = "answer" THEN @ \cup poll[p].events ELSE @]
        /\ UNCHANGED <<log, given>> /\ poll' = [poll EXCEPT ![p] = NoPoll]
    BY <1>7 DEF poll_lost
  <2>3. /\ poll[p].pc = "answer" => poll[p].events \subseteq lost'[Key(p)]
        /\ \A k \in Keys : lost[k] \subseteq lost'[k]
    BY <1>0, <2>1, <2>2
  <2>4. QED
    BY <1>B, <2>2, <2>3
<1>8. CASE UNCHANGED axonVars
  BY <1>8, <1>A, <1>T DEF axonVars
<1>9. QED
  BY <1>1, <1>2, <1>3, <1>4, <1>5, <1>6, <1>7, <1>8 DEF AxonNext

\* The events a poll reads leave no gap after the cursor it has read.
LEMMA AfterIds ==
    ASSUME AxonTypeOK, NEW p \in Poll, After(p) # {}
    PROVE  LET new == FirstOf(After(p)) IN
           /\ new # {} /\ new \subseteq EventId
           /\ \A e \in new : e > poll[p].last
           /\ \A e \in new, d \in After(p) : d < e => d \in new
<1>1. Len(log) \in Nat /\ After(p) \in SUBSET (1..Len(log))
  BY DEF AxonTypeOK, After, EventId
<1>2. \A e \in After(p) : e > poll[p].last
  BY DEF After
<1>3. QED
  BY <1>1, <1>2, FirstOfIds DEF EventId

\* One step of the bus keeps the invariant.
LEMMA AxonInvStep ==
    ASSUME AxonInv, [AxonNext]_axonVars
    PROVE  AxonInv'
<1> USE AxonAssumption
<1>0. AxonTypeOK /\ AxonGrows /\ Len(log) \in Nat /\ poll \in [Poll -> PollRow]
  BY AxonStepGrows DEF AxonInv, AxonTypeOK, PollRow
\* A step that leaves the cursors alone.
<1>A. ASSUME AxonTypeOK', UNCHANGED last_event_id, \A p \in Poll : PollOK(p)'
      PROVE  AxonInv'
  <2>1. ASSUME NEW k \in Keys PROVE (last_event_id[k] <= Len(log) /\ Seen(k, last_event_id[k], {}))'
    <3>1. last_event_id[k] \in 0..Len(log) /\ Seen(k, last_event_id[k], {})
      BY <1>0, <2>1 DEF AxonInv, AxonTypeOK, Keys
    <3>2. Seen(k, last_event_id[k], {})'
      BY <1>0, <1>A, <3>1, SeenStable DEF Seen
    <3>3. QED
      BY <1>0, <1>A, <3>1, <3>2 DEF AxonGrows, AxonTypeOK
  <2>2. QED
    BY <1>A, <2>1 DEF AxonInv
\* A poll that is not touched keeps what it knows.
<1>B. ASSUME NEW p \in Poll, poll'[p] = poll[p] PROVE PollOK(p)'
  <2>1. poll[p] \in PollRow /\ PollOK(p) /\ Key(p) \in Keys /\ Key(p)' = Key(p)
    BY <1>0, <1>B DEF AxonInv, PollRow, Key, Keys
  <2>2. CASE poll[p].pc = "read"
    <3>1. poll[p].last \in 0..Len(log) /\ Seen(Key(p), poll[p].last, {})
      BY <1>0, <2>1, <2>2 DEF PollOK, PollRow
    <3>2. Seen(Key(p), poll[p].last, {})'
      BY <1>0, <1>B, <2>1, <3>1, SeenStable DEF Seen
    <3>3. poll'[p].last <= Len(log')
      BY <1>0, <1>B, <3>1 DEF AxonGrows
    <3>4. QED
      BY <1>B, <2>2, <3>2, <3>3 DEF PollOK
  <2>3. CASE poll[p].pc = "advance"
    <3> DEFINE ev == poll[p].events
    <3>1. ev # {} /\ ev \in SUBSET (1..Len(log)) /\ Seen(Key(p), Max(ev), ev)
      BY <2>1, <2>3 DEF PollOK, EventId
    <3>2. Max(ev) \in 0..Len(log)
      BY <1>0, <3>1, MaxOfIds
    <3> HIDE DEF ev
    <3>3. (\A e \in 1..Max(ev) : log'[e].stream = Key(p)[2] /\ ~log'[e].pruned => e \in Accounted(Key(p))' \cup ev)
      BY <1>0, <2>1, <3>1, <3>2, SeenStable DEF Seen
    <3>4. ev \subseteq EventId'
      BY <1>0, <3>1 DEF AxonGrows, EventId
    <3> USE DEF ev
    <3>5. QED
      BY <1>B, <2>1, <2>3, <3>1, <3>3, <3>4 DEF PollOK, Seen
  <2>4. CASE poll[p].pc = "answer"
    <3>1. poll'[p].events \subseteq EventId'
      BY <1>0, <1>B, <2>1, <2>4 DEF PollOK, EventId, AxonGrows
    <3>2. QED
      BY <1>B, <2>4, <3>1 DEF PollOK
  <2>5. QED
    BY <1>B, <2>1, <2>2, <2>3, <2>4 DEF PollOK
<1>1. ASSUME NEW s \in Stream, publish_event(s) PROVE AxonInv'
  <2>1. log' \in Seq([stream : Stream, pruned : BOOLEAN]) /\ Len(log') = Len(log) + 1
    BY <1>0, <1>1 DEF publish_event, AxonTypeOK
  <2>2. AxonTypeOK'
    BY <1>0, <1>1, <2>1 DEF publish_event, AxonTypeOK, EventId
  <2>3. QED
    BY <1>1, <1>A, <1>B, <2>2 DEF publish_event
<1>2. ASSUME NEW s \in Stream, NEW u \in EventId, prune_expired_events(s, u) PROVE AxonInv'
  <2> DEFINE f == [e \in 1..Len(log) |->
                    IF log[e].stream = s /\ e <= u THEN [log[e] EXCEPT !.pruned = TRUE] ELSE log[e]]
  <2>1. log' = f /\ UNCHANGED <<last_event_id, poll, given, twice, lost, shared>>
    BY <1>2 DEF prune_expired_events, EventId
  <2>2. f \in Seq([stream : Stream, pruned : BOOLEAN]) /\ Len(f) = Len(log)
    <3> DEFINE Row == [stream : Stream, pruned : BOOLEAN]
    <3>0. log \in Seq(Row)
      BY <1>0 DEF AxonTypeOK
    <3>1. \A e \in 1..Len(log) : log[e] \in Row
      <4> HIDE DEF Row
      <4>1. QED
        BY <3>0
    <3>2. \A e \in 1..Len(log) : [log[e] EXCEPT !.pruned = TRUE] \in Row
      BY <3>1
    <3>3. f \in [1..Len(log) -> Row]
      <4> HIDE DEF Row
      <4>1. QED
        BY <3>1, <3>2
    <3> HIDE DEF f, Row
    <3>4. f \in Seq(Row) /\ Len(f) = Len(log)
      BY <1>0, <3>3
    <3>5. QED
      BY <3>4 DEF Row
  <2> HIDE DEF f
  <2>3. AxonTypeOK'
    BY <1>0, <2>1, <2>2 DEF AxonTypeOK, EventId
  <2>4. QED
    BY <1>A, <1>B, <2>1, <2>3
<1>3. ASSUME NEW p \in Poll, NEW a \in Reader, NEW s \in Stream, get_cursor(p, a, s) PROVE AxonInv'
  <2> DEFINE r == [pc |-> "read", agent |-> a, stream |-> s, last |-> last_event_id[<<a, s>>], events |-> {}]
  <2>1. /\ poll' = [poll EXCEPT ![p] = r] /\ UNCHANGED <<log, last_event_id, given, twice, lost>>
        /\ shared' \subseteq Reader \X Stream
    BY <1>0, <1>3 DEF get_cursor, AxonTypeOK
  <2>2. <<a, s>> \in Keys /\ r \in PollRow
    BY <1>0 DEF Keys, PollRow, AxonTypeOK
  <2>3. AxonTypeOK'
    BY <1>0, <2>1, <2>2 DEF AxonTypeOK, PollRow, EventId
  <2>4. PollOK(p)'
    <3>1. last_event_id[<<a, s>>] <= Len(log) /\ Seen(<<a, s>>, last_event_id[<<a, s>>], {})
      BY <2>2 DEF AxonInv
    <3>2. poll'[p] = r /\ Key(p)' = <<a, s>>
      BY <1>0, <2>1 DEF Key
    <3>3. last_event_id[<<a, s>>] \in 0..Len(log)
      BY <1>0, <2>2, <3>1 DEF AxonTypeOK, Keys
    <3>4. Seen(<<a, s>>, last_event_id[<<a, s>>], {})'
      BY <1>0, <2>1, <2>2, <3>1, <3>3, SeenStable DEF Seen
    <3>5. QED
      BY <2>1, <3>1, <3>2, <3>4 DEF PollOK, Seen
  <2>5. \A q \in Poll : PollOK(q)'
    <3>1. ASSUME NEW q \in Poll, q # p PROVE poll'[q] = poll[q]
      BY <1>0, <2>1, <3>1
    <3>2. QED
      BY <1>B, <2>4, <3>1
  <2>6. QED
    BY <1>A, <2>1, <2>3, <2>5
\* A step that ends a poll.
<1>C. ASSUME NEW p \in Poll, poll' = [poll EXCEPT ![p] = NoPoll],
             UNCHANGED <<log, last_event_id, shared>>, given' \in [Keys -> SUBSET EventId],
             twice' \in [Keys -> SUBSET EventId], lost' \in [Keys -> SUBSET EventId]
      PROVE  AxonInv'
  <2>0. poll' \in [Poll -> PollRow]
    BY <1>0, <1>C, NoPollIdle
  <2>1. AxonTypeOK'
    BY <1>0, <1>C, <2>0 DEF AxonTypeOK, PollRow, EventId, Keys
  <2>2. \A q \in Poll : PollOK(q)'
    <3>1. ASSUME NEW q \in Poll, q # p PROVE poll'[q] = poll[q]
      BY <1>0, <1>C, <3>1
    <3>2. poll'[p].pc = "idle"
      BY <1>0, <1>C, NoPollIdle
    <3>3. PollOK(p)'
      BY <3>2 DEF PollOK
    <3>4. QED
      BY <1>B, <3>1, <3>3
  <2>3. QED
    BY <1>A, <1>C, <2>1, <2>2
<1>4. ASSUME NEW p \in Poll, consume(p) PROVE AxonInv'
  <2>1. CASE After(p) = {}
    BY <1>0, <1>4, <1>C, <2>1 DEF consume, AxonTypeOK, Keys
  <2>2. CASE After(p) # {}
    <3> DEFINE new == FirstOf(After(p))
               r == [pc |-> "advance", agent |-> poll[p].agent, stream |-> poll[p].stream,
                     last |-> 0, events |-> new]
    <3>1. /\ poll[p].pc = "read" /\ poll' = [poll EXCEPT ![p] = r]
          /\ UNCHANGED <<log, last_event_id, given, twice, lost, shared>>
      BY <1>0, <1>4, <2>2 DEF consume
    <3>2. /\ new # {} /\ new \in SUBSET (1..Len(log))
          /\ \A e \in new, d \in After(p) : d < e => d \in new
      BY <1>0, <2>2, AfterIds DEF EventId
    <3>3. Max(new) \in new /\ Max(new) \in 1..Len(log)
      BY <1>0, <3>2, MaxOfIds
    <3>4. Key(p) \in Keys /\ poll[p] \in PollRow
      BY <1>0 DEF Key, Keys, PollRow
    <3>5. Seen(Key(p), Max(new), new)
      <4>1. poll[p].last \in 0..Len(log) /\ Seen(Key(p), poll[p].last, {})
        BY <1>0, <3>1, <3>4 DEF AxonInv, PollOK, PollRow
      <4> HIDE DEF new
      <4>2. SUFFICES ASSUME NEW e \in 1..Max(new), log[e].stream = Key(p)[2], ~log[e].pruned,
                            e > poll[p].last
                     PROVE  e \in new
        BY <3>3, <4>1 DEF Seen
      <4>3. e \in After(p)
        BY <1>0, <3>3, <3>4, <4>2 DEF After, EventId, Key
      <4>4. QED
        BY <1>0, <3>2, <3>3, <4>3
    <3> HIDE DEF new
    <3>6. r \in PollRow
      BY <1>0, <3>2, <3>4 DEF PollRow, AxonTypeOK
    <3>7. AxonTypeOK'
      BY <1>0, <3>1, <3>6 DEF AxonTypeOK, PollRow, EventId
    <3>8. PollOK(p)'
      <4>1. poll'[p] = r /\ Key(p)' = Key(p)
        BY <1>0, <3>1 DEF Key
      <4>2. PICK k \in Keys : k = Key(p)
        BY <3>4
      <4>3. PICK n \in 1..Len(log), S \in SUBSET (1..Len(log)) : n = Max(new) /\ S = new
        BY <3>2, <3>3
      <4>4. Seen(k, n, S)'
        BY <1>0, <3>5, <4>2, <4>3, SeenStable
      <4>5. \A e \in 1..n : log'[e].stream = k[2] /\ ~log'[e].pruned => e \in Accounted(k)' \cup S
        BY <4>4 DEF Seen
      <4>6. QED
        BY <3>1, <3>2, <4>1, <4>2, <4>3, <4>5 DEF PollOK, Seen, EventId
    <3>9. \A q \in Poll : PollOK(q)'
      <4>1. ASSUME NEW q \in Poll, q # p PROVE poll'[q] = poll[q]
        BY <1>0, <3>1, <4>1
      <4>2. QED
        BY <1>B, <3>8, <4>1
    <3>10. QED
      BY <1>A, <3>1, <3>7, <3>9
  <2>3. QED
    BY <2>1, <2>2
<1>5. ASSUME NEW p \in Poll, upsert_cursor(p) PROVE AxonInv'
  <2>0. PICK k \in Keys, ev \in SUBSET (1..MaxEvents) : k = Key(p) /\ ev = poll[p].events
    BY <1>0 DEF Key, Keys, PollRow
  <2>1. /\ last_event_id' = [last_event_id EXCEPT ![k] = Max(ev)]
        /\ poll' = [poll EXCEPT ![p].pc = "answer"]
        /\ UNCHANGED <<log, given, twice, lost, shared>>
        /\ poll[p].pc = "advance"
    BY <1>5, <2>0 DEF upsert_cursor, NewCursor
  <2>2. ev # {} /\ ev \in SUBSET (1..Len(log)) /\ Seen(k, Max(ev), ev)
    BY <2>0, <2>1 DEF AxonInv, PollOK, EventId
  <2>3. Max(ev) \in 1..Len(log)
    BY <1>0, <2>2, MaxOfIds
  <2>4. poll'[p] = [poll[p] EXCEPT !.pc = "answer"] /\ \A q \in Poll : q # p => poll'[q] = poll[q]
    BY <1>0, <2>1
  <2>5. poll'[p].pc = "answer" /\ poll'[p].events = ev /\ Key(p)' = k /\ poll'[p] \in PollRow
    BY <1>0, <2>0, <2>4 DEF PollRow, Key
  <2>6. last_event_id' \in [Keys -> 0..MaxEvents] /\ poll' \in [Poll -> PollRow]
    <3>1. last_event_id' \in [Keys -> 0..MaxEvents]
      BY <1>0, <2>1, <2>3 DEF AxonTypeOK, Keys
    <3>2. poll' \in [Poll -> PollRow]
      BY <1>0, <2>1, <2>5
    <3>3. QED
      BY <3>1, <3>2
  <2>7. AxonTypeOK'
    BY <1>0, <2>1, <2>6 DEF AxonTypeOK, PollRow, EventId, Keys
  \* What the poll has read is in the answer to come.
  <2>8. ev \subseteq Accounted(k)'
    <3>1. \A e \in ev : AnswerComing(k, e)'
      BY <2>5 DEF AnswerComing
    <3>2. QED
      BY <1>0, <3>1, AccountedSteps
  <2>9. ASSUME NEW j \in Keys PROVE (last_event_id[j] <= Len(log) /\ Seen(j, last_event_id[j], {}))'
    <3>1. CASE j = k
      <4>1. last_event_id'[k] = Max(ev)
        BY <1>0, <2>1 DEF AxonTypeOK, Keys
      <4>2. Accounted(k) \subseteq Accounted(k)'
        BY <1>0 DEF AxonGrows
      <4>3. QED
        BY <1>0, <2>1, <2>2, <2>3, <2>8, <3>1, <4>1, <4>2 DEF Seen
    <3>2. CASE j # k
      <4>1. last_event_id'[j] = last_event_id[j]
        BY <1>0, <2>1, <2>9, <3>2 DEF AxonTypeOK, Keys
      <4>2. Accounted(j) \subseteq Accounted(j)'
        BY <1>0, <2>9 DEF AxonGrows
      <4>3. QED
        BY <2>1, <2>9, <4>1, <4>2 DEF Seen, AxonInv
    <3>3. QED
      BY <3>1, <3>2
  <2>10. \A q \in Poll : PollOK(q)'
    <3>1. PollOK(p)'
      BY <2>1, <2>2, <2>5 DEF PollOK, EventId
    <3>2. QED
      BY <1>B, <2>4, <3>1
  <2>11. QED
    BY <2>7, <2>9, <2>10 DEF AxonInv
<1>6. ASSUME NEW p \in Poll, poll_answers(p) PROVE AxonInv'
  <2>1. Key(p) \in Keys /\ poll[p].events \subseteq EventId
    BY <1>0, <1>6 DEF Key, Keys, PollRow, poll_answers, AxonInv, PollOK
  <2>2. \A h \in {given, twice, lost} : h \in [Keys -> SUBSET EventId]
    BY <1>0 DEF AxonTypeOK, Keys
  <2>3. given' \in [Keys -> SUBSET EventId] /\ twice' \in [Keys -> SUBSET EventId]
    BY <1>6, <2>1, <2>2 DEF poll_answers
  <2>4. QED
    BY <1>6, <1>C, <2>2, <2>3 DEF poll_answers
<1>7. ASSUME NEW p \in Poll, poll_lost(p) PROVE AxonInv'
  <2>1. Key(p) \in Keys /\ (poll[p].pc = "answer" => poll[p].events \subseteq EventId)
    BY <1>0, <1>7 DEF Key, Keys, PollRow, AxonInv, PollOK
  <2>2. \A h \in {given, twice, lost} : h \in [Keys -> SUBSET EventId]
    BY <1>0 DEF AxonTypeOK, Keys
  <2>3. lost' \in [Keys -> SUBSET EventId]
    BY <1>7, <2>1, <2>2 DEF poll_lost
  <2>4. QED
    BY <1>7, <1>C, <2>2, <2>3 DEF poll_lost
<1>8. CASE UNCHANGED axonVars
  BY <1>0, <1>8, <1>A, <1>B DEF axonVars, AxonTypeOK, EventId
<1>9. QED
  BY <1>1, <1>2, <1>3, <1>4, <1>5, <1>6, <1>7, <1>8 DEF AxonNext

\* The invariant holds.
THEOREM AxonInvariant == AxonSpec => []AxonInv
<1>1. AxonInit => AxonInv
  <2> SUFFICES ASSUME AxonInit PROVE AxonInv
    OBVIOUS
  <2>1. AxonTypeOK
    BY AxonAssumption, NoPollIdle DEF AxonInit, AxonTypeOK, EventId, PollRow
  <2>2. QED
    BY <2>1, NoPollIdle DEF AxonInit, AxonInv, PollOK, Seen, Keys
<1>2. AxonInv /\ [AxonNext]_axonVars => AxonInv'
  BY AxonInvStep
<1>3. QED
  BY <1>1, <1>2, PTL DEF AxonSpec

\* An agent's cursor passes no event of its channel that was not read for an answer to it.
THEOREM AxonSkipsNothing == AxonSpec => [](AxonTypeOK /\ NothingSkipped)
<1>1. AxonInv => AxonTypeOK /\ NothingSkipped
  BY DEF AxonInv, NothingSkipped, Seen, Keys
<1>2. QED
  BY <1>1, AxonInvariant, PTL

\* A cursor two polls never used at once: nothing was given twice, what was given is at or
\* before it, and the one poll that may be in flight has its value, only later events, or
\* events it has just passed that were not given before.
Alone(k) ==
    /\ twice[k] = {}
    /\ \A e \in given[k] : e <= last_event_id[k]
    /\ \A p \in Poll : poll[p].pc = "read" /\ Key(p) = k => poll[p].last = last_event_id[k]
    /\ \A p \in Poll : poll[p].pc = "advance" /\ Key(p) = k =>
                           \A e \in poll[p].events : e > last_event_id[k]
    /\ \A p \in Poll : poll[p].pc = "answer" /\ Key(p) = k =>
                           \A e \in poll[p].events : e <= last_event_id[k] /\ e \notin given[k]
    /\ \A p, q \in Poll : /\ poll[p].pc # "idle" /\ Key(p) = k
                           /\ poll[q].pc # "idle" /\ Key(q) = k => p = q

AloneInv == \A k \in Keys \ shared : Alone(k)

\* One step of the bus keeps it.
LEMMA AloneStep ==
    ASSUME AxonInv, AxonInv', AloneInv, [AxonNext]_axonVars
    PROVE  AloneInv'
<1>0. /\ AxonTypeOK /\ Len(log) \in Nat /\ poll \in [Poll -> PollRow]
      /\ given \in [Keys -> SUBSET EventId] /\ twice \in [Keys -> SUBSET EventId]
      /\ last_event_id \in [Keys -> 0..MaxEvents]
  BY DEF AxonInv, AxonTypeOK, PollRow, Keys
<1>A. ASSUME NEW p \in Poll, NEW r, poll' = [poll EXCEPT ![p] = r], r.pc = "idle",
             UNCHANGED <<last_event_id, given, twice, shared>>
      PROVE  AloneInv'
  <2>1. \A q \in Poll : q # p => poll'[q] = poll[q]
    BY <1>0, <1>A
  <2>2. poll'[p].pc = "idle"
    BY <1>0, <1>A
  <2>3. QED
    BY <1>A, <2>1, <2>2 DEF AloneInv, Alone, Key
<1>1. ASSUME UNCHANGED <<poll, last_event_id, given, twice, shared>> PROVE AloneInv'
  BY <1>1 DEF AloneInv, Alone, Key
<1>2. ASSUME NEW p \in Poll, NEW a \in Reader, NEW s \in Stream, get_cursor(p, a, s) PROVE AloneInv'
  <2> DEFINE r == [pc |-> "read", agent |-> a, stream |-> s, last |-> last_event_id[<<a, s>>], events |-> {}]
  <2>1. /\ poll' = [poll EXCEPT ![p] = r] /\ UNCHANGED <<log, last_event_id, given, twice>>
        /\ shared' = IF \E q \in Poll : poll[q].pc # "idle" /\ Key(q) = <<a, s>>
                     THEN shared \cup {<<a, s>>} ELSE shared
    BY <1>2 DEF get_cursor
  <2>2. \A q \in Poll : q # p => poll'[q] = poll[q] /\ Key(q)' = Key(q)
    BY <1>0, <2>1 DEF Key
  <2>3. poll'[p] = r /\ Key(p)' = <<a, s>>
    BY <1>0, <2>1 DEF Key
  <2>4. SUFFICES ASSUME NEW k \in Keys, k \notin shared' PROVE Alone(k)'
    BY DEF AloneInv
  <2>5. k \notin shared /\ Alone(k)
    BY <2>1, <2>4 DEF AloneInv
  <2>6. k = <<a, s>> => \A q \in Poll : poll[q].pc = "idle" \/ Key(q) # k
    BY <2>1, <2>4
  <2>7. QED
    BY <2>1, <2>2, <2>3, <2>5, <2>6 DEF Alone
<1>3. ASSUME NEW p \in Poll, consume(p) PROVE AloneInv'
  <2>1. CASE After(p) = {}
    BY <1>0, <1>3, <1>A, <2>1, NoPollIdle DEF consume
  <2>2. CASE After(p) # {}
    <3> DEFINE new == FirstOf(After(p))
               r == [pc |-> "advance", agent |-> poll[p].agent, stream |-> poll[p].stream,
                     last |-> 0, events |-> new]
    <3>1. /\ poll[p].pc = "read" /\ poll' = [poll EXCEPT ![p] = r]
          /\ UNCHANGED <<log, last_event_id, given, twice, shared>>
      BY <1>0, <1>3, <2>2 DEF consume
    <3>2. \A e \in new : e > poll[p].last
      BY <1>0, <2>2, AfterIds
    <3> HIDE DEF new
    <3>3. \A q \in Poll : q # p => poll'[q] = poll[q] /\ Key(q)' = Key(q)
      BY <1>0, <3>1 DEF Key
    <3>4. poll'[p] = r /\ Key(p)' = Key(p)
      BY <1>0, <3>1 DEF Key
    <3>5. SUFFICES ASSUME NEW k \in Keys \ shared, Alone(k) PROVE Alone(k)'
      BY <3>1 DEF AloneInv
    <3>6. QED
      BY <3>1, <3>2, <3>3, <3>4, <3>5 DEF Alone
  <2>3. QED
    BY <2>1, <2>2
<1>4. ASSUME NEW p \in Poll, upsert_cursor(p) PROVE AloneInv'
  <2>0. PICK k \in Keys, ev \in SUBSET (1..MaxEvents) : k = Key(p) /\ ev = poll[p].events
    BY <1>0 DEF Key, Keys, PollRow
  <2>1. /\ last_event_id' = [last_event_id EXCEPT ![k] = Max(ev)]
        /\ poll' = [poll EXCEPT ![p].pc = "answer"]
        /\ UNCHANGED <<log, given, twice, shared>>
        /\ poll[p].pc = "advance"
    BY <1>4, <2>0 DEF upsert_cursor, NewCursor
  <2>2. ev # {} /\ ev \in SUBSET (1..Len(log))
    BY <1>0, <2>0, <2>1 DEF AxonInv, PollOK, EventId
  <2>3. Max(ev) \in ev /\ \A e \in ev : e \in Nat /\ e <= Max(ev)
    <3>1. Max(ev) \in ev /\ \A e \in ev : e <= Max(ev)
      BY <1>0, <2>2, MaxOfIds
    <3>2. \A e \in ev : e \in Nat
      BY <1>0, <2>2
    <3>3. QED
      BY <3>1, <3>2
  <2>4. \A q \in Poll : q # p => poll'[q] = poll[q] /\ Key(q)' = Key(q)
    BY <1>0, <2>1 DEF Key
  <2>5. poll'[p].pc = "answer" /\ poll'[p].events = ev /\ Key(p)' = k
    BY <1>0, <2>0, <2>1 DEF Key, PollRow
  <2>6. SUFFICES ASSUME NEW j \in Keys \ shared, Alone(j) PROVE Alone(j)'
    BY <2>1 DEF AloneInv
  <2>7. CASE j = k
    <3>1. last_event_id'[j] = Max(ev) /\ last_event_id[j] \in Nat
      BY <1>0, <2>1, <2>7
    <3>2. \A e \in ev : e > last_event_id[j]
      BY <2>0, <2>1, <2>6, <2>7 DEF Alone
    <3>3. \A e \in given[j] : e \in Nat /\ e <= last_event_id[j]
      BY <1>0, <2>6 DEF Alone, EventId
    <3>4. /\ \A e \in given[j] : e <= Max(ev)
          /\ \A e \in ev : e \notin given[j]
      <4>1. PICK l \in Nat : l = last_event_id[j]
        BY <3>1
      <4>2. PICK m \in Nat : m = Max(ev) /\ m > l
        BY <2>3, <3>2, <4>1
      <4>3. \A e \in given[j] : e \in Nat /\ e <= l
        BY <3>3, <4>1
      <4>4. \A e \in ev : e \in Nat /\ e > l
        BY <2>3, <3>2, <4>1
      <4>5. \A e \in given[j] : e <= m
        BY <4>2, <4>3
      <4>6. \A e \in ev : e \notin given[j]
        BY <4>3, <4>4
      <4>7. QED
        BY <4>2, <4>5, <4>6
    <3>5. \A q \in Poll : q # p => poll'[q].pc = "idle" \/ Key(q)' # j
      BY <2>0, <2>1, <2>4, <2>6, <2>7 DEF Alone
    <3>6. QED
      BY <2>1, <2>3, <2>5, <2>6, <3>1, <3>4, <3>5 DEF Alone
  <2>8. CASE j # k
    <3>1. last_event_id'[j] = last_event_id[j]
      BY <1>0, <2>1, <2>8
    <3>2. QED
      BY <2>1, <2>4, <2>5, <2>6, <2>8, <3>1 DEF Alone
  <2>9. QED
    BY <2>7, <2>8
<1>5. ASSUME NEW p \in Poll, poll_answers(p) PROVE AloneInv'
  <2>0. PICK k \in Keys, ev \in SUBSET (1..MaxEvents) : k = Key(p) /\ ev = poll[p].events
    BY <1>0 DEF Key, Keys, PollRow
  <2>1. /\ given' = [given EXCEPT ![k] = @ \cup ev]
        /\ twice' = [twice EXCEPT ![k] = @ \cup (given[k] \cap ev)]
        /\ poll' = [poll EXCEPT ![p] = NoPoll]
        /\ UNCHANGED <<last_event_id, shared>>
        /\ poll[p].pc = "answer"
    BY <1>5, <2>0 DEF poll_answers
  <2>2. \A q \in Poll : q # p => poll'[q] = poll[q] /\ Key(q)' = Key(q)
    BY <1>0, <2>1 DEF Key
  <2>3. poll'[p].pc = "idle"
    BY <1>0, <2>1, NoPollIdle
  <2>4. SUFFICES ASSUME NEW j \in Keys \ shared, Alone(j) PROVE Alone(j)'
    BY <2>1 DEF AloneInv
  <2>5. CASE j = k
    <3>1. given'[j] = given[j] \cup ev /\ twice'[j] = twice[j] \cup (given[j] \cap ev)
      BY <1>0, <2>1, <2>5
    <3>2. \A e \in ev : e <= last_event_id[j] /\ e \notin given[j]
      BY <2>0, <2>1, <2>4, <2>5 DEF Alone
    <3>3. \A q \in Poll : poll'[q].pc = "idle" \/ Key(q)' # j
      BY <2>0, <2>1, <2>2, <2>3, <2>4, <2>5 DEF Alone
    <3>4. QED
      BY <2>1, <2>4, <3>1, <3>2, <3>3 DEF Alone
  <2>6. CASE j # k
    <3>1. given'[j] = given[j] /\ twice'[j] = twice[j]
      BY <1>0, <2>1, <2>6
    <3>2. QED
      BY <2>1, <2>2, <2>3, <2>4, <3>1 DEF Alone
  <2>7. QED
    BY <2>5, <2>6
<1>6. ASSUME NEW p \in Poll, poll_lost(p) PROVE AloneInv'
  BY <1>6, <1>A, NoPollIdle DEF poll_lost
<1>7. ASSUME NEW s \in Stream, publish_event(s) PROVE AloneInv'
  BY <1>1, <1>7 DEF publish_event
<1>8. ASSUME NEW s \in Stream, NEW u \in EventId, prune_expired_events(s, u) PROVE AloneInv'
  BY <1>1, <1>8 DEF prune_expired_events
<1>9. CASE UNCHANGED axonVars
  BY <1>1, <1>9 DEF axonVars
<1>10. QED
  BY <1>2, <1>3, <1>4, <1>5, <1>6, <1>7, <1>8, <1>9 DEF AxonNext

\* An agent that polls one request at a time is given no event twice.
THEOREM AxonOnceIfAlone == AxonSpec => []OnceIfAlone
<1>1. AxonInit => AloneInv
  BY NoPollIdle DEF AxonInit, AloneInv, Alone, Keys
<1>2. AxonInv /\ AxonInv' /\ AloneInv /\ [AxonNext]_axonVars => AloneInv'
  BY AloneStep
<1>3. AloneInv => OnceIfAlone
  BY DEF AloneInv, Alone, OnceIfAlone, Keys
<1>4. QED
  BY <1>1, <1>2, <1>3, AxonInvariant, PTL DEF AxonSpec
-----------------------------------------------------------------------------
(* Handoffs.                                                                  *)

HandoffRow == [type : HandoffType, hash : Hash, at : 0..MaxDay, gone : BOOLEAN]

StorerRow == [pc : {"idle", "acquire", "insert", "acquire_again", "atoms"},
              type : HandoffType, hash : Hash]

\* The writer connection is with exactly the task that is at work on it.
HandoffsInv ==
    /\ HandoffsTypeOK
    /\ \A s \in Storer : storer[s].pc \in {"insert", "atoms"} <=> writer = s
    /\ \A c \in Collector : collector[c] \in {"count", "collect"} <=> writer = c

\* A content two stores never looked for at once: one store at most is about to insert it,
\* only if there is no copy, and there is one copy at most.
Single(x) ==
    /\ \A s, t \in Storer : Inserting(s, x) /\ Inserting(t, x) => s = t
    /\ \A s \in Storer : Inserting(s, x) => ~Duplicate(x)
    /\ \A g, h \in Mechanical : handoff[g].hash = x /\ handoff[h].hash = x => g = h

CopiesInv == \A x \in Hash \ overlapped : Single(x)

\* A store that is not in flight.
LEMMA NoStorerIdle == NoStorer \in StorerRow /\ NoStorer.pc = "idle"
  BY HandoffsAssumption DEF NoStorer, StorerRow, HandoffType

\* A collection only marks rows as gone.
LEMMA KeepMarks ==
    ASSUME handoff \in Seq(HandoffRow), NEW K, Keep(K)
    PROVE  /\ handoff' \in Seq(HandoffRow) /\ Len(handoff') = Len(handoff)
           /\ \A h \in 1..Len(handoff) : /\ handoff'[h].type = handoff[h].type
                                         /\ handoff'[h].hash = handoff[h].hash
                                         /\ handoff[h].gone => handoff'[h].gone
<1> DEFINE f == [h \in 1..Len(handoff) |-> [handoff[h] EXCEPT !.gone = @ \/ h \notin K]]
<1>1. handoff' = f
  BY DEF Keep
<1>2. \A h \in 1..Len(handoff) : handoff[h] \in HandoffRow
  OBVIOUS
<1>3. \A h \in 1..Len(handoff) : /\ f[h] \in HandoffRow
                                 /\ f[h].type = handoff[h].type /\ f[h].hash = handoff[h].hash
                                 /\ handoff[h].gone => f[h].gone
  BY <1>2 DEF HandoffRow
<1>4. f \in [1..Len(handoff) -> HandoffRow]
  BY <1>3
<1> HIDE DEF f
<1>5. f \in Seq(HandoffRow) /\ Len(f) = Len(handoff)
  BY <1>4
<1>6. QED
  BY <1>1, <1>3, <1>5

\* One step keeps the types and the writer with the task at work.
LEMMA HandoffsInvStep ==
    ASSUME HandoffsInv, [HandoffsNext]_handoffsVars
    PROVE  HandoffsInv'
<1> USE HandoffsAssumption
<1>0. /\ handoff \in Seq(HandoffRow) /\ storer \in [Storer -> StorerRow]
      /\ collector \in [Collector -> {"idle", "permit", "acquire", "count", "collect"}]
      /\ writer \in Storer \cup Collector \cup {NoTaskHolds} /\ day \in 0..MaxDay /\ overlapped \subseteq Hash
  BY DEF HandoffsInv, HandoffsTypeOK, HandoffRow, StorerRow
<1>K. ASSUME NEW K, Keep(K), UNCHANGED <<storer, collector, writer, day, overlapped>> PROVE HandoffsInv'
  BY <1>0, <1>K, KeepMarks DEF HandoffsInv, HandoffsTypeOK, HandoffRow
<1>1. ASSUME NEW s \in Storer, NEW t \in HandoffType, NEW x \in Hash, store_handoff(s, t, x)
      PROVE  HandoffsInv'
  BY <1>0, <1>1 DEF store_handoff, HandoffsInv, HandoffsTypeOK, StorerRow
<1>2. ASSUME NEW s \in Storer, get_writer(s) PROVE HandoffsInv'
  BY <1>0, <1>2 DEF get_writer, HandoffsInv, HandoffsTypeOK, StorerRow
<1>3. ASSUME NEW s \in Storer, NEW c \in Collector, insert_handoff(s, c) PROVE HandoffsInv'
  <2> DEFINE r == [type |-> storer[s].type, hash |-> storer[s].hash, at |-> day, gone |-> FALSE]
  <2>1. handoff' = Append(handoff, r) /\ r \in HandoffRow
    BY <1>0, <1>3 DEF insert_handoff, HandoffRow, StorerRow
  <2> HIDE DEF r
  <2>2. handoff' \in Seq(HandoffRow)
    BY <1>0, <2>1
  <2>3. storer' \in [Storer -> StorerRow] /\ storer'[s].pc \in {"idle", "acquire_again"}
    BY <1>0, <1>3, NoStorerIdle DEF insert_handoff, StorerRow
  <2>4. \A t \in Storer : t # s => storer'[t] = storer[t]
    BY <1>0, <1>3 DEF insert_handoff
  <2>5. QED
    BY <1>0, <1>3, <2>2, <2>3, <2>4 DEF insert_handoff, HandoffsInv, HandoffsTypeOK, HandoffRow, StorerRow
<1>4. ASSUME NEW s \in Storer, store_atoms(s) PROVE HandoffsInv'
  BY <1>0, <1>4, NoStorerIdle DEF store_atoms, HandoffsInv, HandoffsTypeOK, StorerRow
<1>5. ASSUME NEW c \in Collector, gc_permit(c) PROVE HandoffsInv'
  BY <1>0, <1>5 DEF gc_permit, HandoffsInv, HandoffsTypeOK
<1>6. ASSUME NEW c \in Collector, gc_writer(c) PROVE HandoffsInv'
  BY <1>0, <1>6 DEF gc_writer, HandoffsInv, HandoffsTypeOK
<1>7. ASSUME NEW c \in Collector, gc_count(c) PROVE HandoffsInv'
  BY <1>0, <1>7 DEF gc_count, CollectOnSame, HandoffsInv, HandoffsTypeOK
<1>8. ASSUME NEW c \in Collector, run_tiered_gc(c) PROVE HandoffsInv'
  <2>1. PICK K : Keep(K)
    BY <1>8 DEF run_tiered_gc
  <2>2. handoff' \in Seq(HandoffRow)
    BY <1>0, <2>1, KeepMarks
  <2>3. /\ collector[c] = "collect" /\ collector' = [collector EXCEPT ![c] = "idle"]
        /\ writer' = NoTaskHolds /\ UNCHANGED <<storer, day, overlapped>>
    BY <1>8 DEF run_tiered_gc
  <2>4. QED
    BY <1>0, <2>2, <2>3 DEF HandoffsInv, HandoffsTypeOK, HandoffRow
<1>9. CASE gc_tiered
  BY <1>9, <1>K DEF gc_tiered
<1>10. ASSUME NEW n \in 0..Cap, gc_keep(n) PROVE HandoffsInv'
  BY <1>10, <1>K DEF gc_keep
<1>11. ASSUME NEW h \in Stored, delete_handoff(h) PROVE HandoffsInv'
  BY <1>11, <1>K DEF delete_handoff
<1>12. CASE NextDay
  BY <1>0, <1>12 DEF NextDay, HandoffsInv, HandoffsTypeOK
<1>13. CASE UNCHANGED handoffsVars
  BY <1>13 DEF handoffsVars, HandoffsInv, HandoffsTypeOK
<1>14. QED
  BY <1>1, <1>2, <1>3, <1>4, <1>5, <1>6, <1>7, <1>8, <1>9, <1>10, <1>11, <1>12, <1>13 DEF HandoffsNext

\* The types and the writer's place hold.
THEOREM HandoffsInvariant == HandoffsSpec => []HandoffsInv
<1>1. HandoffsInit => HandoffsInv
  BY HandoffsAssumption, NoStorerIdle DEF HandoffsInit, HandoffsInv, HandoffsTypeOK, StorerRow
<1>2. HandoffsInv /\ [HandoffsNext]_handoffsVars => HandoffsInv'
  BY HandoffsInvStep
<1>3. QED
  BY <1>1, <1>2, PTL DEF HandoffsSpec

\* Whoever has the one writer connection never waits for it.
THEOREM HandoffsWriterNotSelfBlocked == HandoffsSpec => [](HandoffsTypeOK /\ WriterNotSelfBlocked)
<1>1. HandoffsInv => HandoffsTypeOK /\ WriterNotSelfBlocked
  BY DEF HandoffsInv, WriterNotSelfBlocked
<1>2. QED
  BY <1>1, HandoffsInvariant, PTL

\* One step keeps single copies single.
LEMMA CopiesStep ==
    ASSUME HandoffsInv, CopiesInv, [HandoffsNext]_handoffsVars
    PROVE  CopiesInv'
<1>0. handoff \in Seq(HandoffRow) /\ storer \in [Storer -> StorerRow] /\ overlapped \subseteq overlapped'
  <2>1. overlapped \subseteq overlapped'
    BY DEF HandoffsNext, handoffsVars, store_handoff, get_writer, insert_handoff, store_atoms, gc_permit,
           gc_writer, gc_count, run_tiered_gc, gc_tiered, gc_keep, delete_handoff, NextDay
  <2>2. QED
    BY <2>1 DEF HandoffsInv, HandoffsTypeOK, HandoffRow, StorerRow
\* Rows are at most marked, and no store gets closer to inserting.
<1>A. ASSUME Len(handoff') = Len(handoff),
             \A h \in 1..Len(handoff) : /\ handoff'[h].type = handoff[h].type
                                        /\ handoff'[h].hash = handoff[h].hash
                                        /\ handoff[h].gone => handoff'[h].gone,
             \A s \in Storer, x \in Hash : Inserting(s, x)' => Inserting(s, x)
      PROVE  CopiesInv'
  <2>1. Stored' \subseteq Stored /\ Mechanical' \subseteq Mechanical
    BY <1>A DEF Stored, Mechanical
  <2>2. \A x \in Hash : Duplicate(x)' => Duplicate(x)
    BY <1>A, <2>1 DEF Duplicate, Stored
  <2>3. \A h \in Mechanical' : handoff'[h].hash = handoff[h].hash
    BY <1>A DEF Mechanical, Stored
  <2>4. QED
    BY <1>0, <1>A, <2>1, <2>2, <2>3 DEF CopiesInv, Single
<1>B. ASSUME UNCHANGED <<handoff, storer>> PROVE CopiesInv'
  BY <1>A, <1>B DEF Inserting
<1>K. ASSUME NEW K, Keep(K), UNCHANGED storer PROVE CopiesInv'
  BY <1>0, <1>A, <1>K, KeepMarks DEF Inserting
<1>1. ASSUME NEW s \in Storer, NEW t \in HandoffType, NEW x \in Hash, store_handoff(s, t, x)
      PROVE  CopiesInv'
  BY <1>0, <1>1 DEF store_handoff, CopiesInv, Single, Inserting, Duplicate, Mechanical, Stored, StorerRow
<1>2. ASSUME NEW s \in Storer, get_writer(s) PROVE CopiesInv'
  BY <1>0, <1>2, <1>A DEF get_writer, Inserting, StorerRow
<1>3. ASSUME NEW s \in Storer, NEW c \in Collector, insert_handoff(s, c) PROVE CopiesInv'
  <2> DEFINE r == [type |-> storer[s].type, hash |-> storer[s].hash, at |-> day, gone |-> FALSE]
             n == Len(handoff) + 1
  <2>1. /\ handoff' = Append(handoff, r) /\ storer[s].pc = "insert" /\ UNCHANGED overlapped
        /\ storer'[s].pc \notin {"acquire", "insert"}
        /\ \A t \in Storer : t # s => storer'[t] = storer[t]
    BY <1>0, <1>3, NoStorerIdle DEF insert_handoff, StorerRow
  <2>2. /\ Len(handoff') = n /\ handoff'[n] = r /\ n \notin 1..Len(handoff)
        /\ \A h \in 1..n : h # n => h \in 1..Len(handoff) /\ handoff'[h] = handoff[h]
    BY <1>0, <2>1
  <2>3. Stored' \subseteq Stored \cup {n} /\ Mechanical' \subseteq Mechanical \cup {n}
    BY <2>2 DEF Stored, Mechanical
  <2>4. n \in Mechanical' => Inserting(s, handoff'[n].hash)
    BY <2>1, <2>2 DEF Mechanical, Stored, Inserting
  <2>5. \A t \in Storer, x \in Hash : Inserting(t, x)' => t # s /\ Inserting(t, x)
    BY <2>1 DEF Inserting
  <2>6. \A h \in Mechanical : handoff'[h] = handoff[h] /\ h # n
    BY <1>0, <2>2 DEF Mechanical, Stored
  <2>7. SUFFICES ASSUME NEW x \in Hash \ overlapped, Single(x) PROVE Single(x)'
    BY <2>1 DEF CopiesInv
  <2>8. Inserting(s, x) \/ n \notin Mechanical' \/ handoff'[n].hash # x
    BY <2>4
  <2>9. ASSUME NEW g \in Mechanical, NEW h \in Mechanical', handoff[g].hash = x, handoff'[h].hash = x
        PROVE  g = h
    <3>1. CASE h = n
      <4>1. Inserting(s, x)
        BY <2>4, <2>9, <3>1
      <4>2. Duplicate(x)
        BY <2>9 DEF Duplicate, Mechanical
      <4>3. QED
        BY <2>7, <4>1, <4>2 DEF Single
    <3>2. CASE h # n
      BY <2>3, <2>6, <2>7, <2>9, <3>2 DEF Single
    <3>3. QED
      BY <3>1, <3>2
  <2>10. \A g, h \in Mechanical' : handoff'[g].hash = x /\ handoff'[h].hash = x => g = h
    BY <2>3, <2>6, <2>9
  <2>11. ASSUME NEW t \in Storer, Inserting(t, x)' PROVE ~Duplicate(x)'
    <3>1. t # s /\ Inserting(t, x) /\ ~Duplicate(x) /\ ~Inserting(s, x)
      BY <2>5, <2>7, <2>11 DEF Single
    <3>2. \A h \in Mechanical' : h = n => handoff'[h].hash # x
      BY <2>8, <3>1
    <3>3. \A h \in Mechanical : handoff[h].hash # x
      BY <3>1 DEF Duplicate, Mechanical
    <3>4. \A h \in Mechanical' : handoff'[h].hash # x
      BY <2>3, <2>6, <3>2, <3>3
    <3>5. QED
      BY <3>4 DEF Duplicate, Mechanical
  <2>12. QED
    BY <2>5, <2>7, <2>10, <2>11 DEF Single
<1>4. ASSUME NEW s \in Storer, store_atoms(s) PROVE CopiesInv'
  BY <1>0, <1>4, <1>A, NoStorerIdle DEF store_atoms, Inserting, StorerRow
<1>5. ASSUME NEW c \in Collector, gc_permit(c) \/ gc_writer(c) \/ gc_count(c) PROVE CopiesInv'
  BY <1>5, <1>B DEF gc_permit, gc_writer, gc_count
<1>6. ASSUME NEW c \in Collector, run_tiered_gc(c) PROVE CopiesInv'
  BY <1>6, <1>K DEF run_tiered_gc
<1>7. CASE gc_tiered
  BY <1>7, <1>K DEF gc_tiered
<1>8. ASSUME NEW n \in 0..Cap, gc_keep(n) PROVE CopiesInv'
  BY <1>8, <1>K DEF gc_keep
<1>9. ASSUME NEW h \in Stored, delete_handoff(h) PROVE CopiesInv'
  BY <1>9, <1>K DEF delete_handoff
<1>10. CASE NextDay \/ UNCHANGED handoffsVars
  BY <1>10, <1>B DEF NextDay, handoffsVars
<1>11. QED
  BY <1>1, <1>2, <1>3, <1>4, <1>5, <1>6, <1>7, <1>8, <1>9, <1>10 DEF HandoffsNext

\* A project keeps one copy of a mechanical handoff, unless two stores of the same content
\* both looked for it before either had inserted it.
THEOREM HandoffsOneCopy == HandoffsSpec => []OneMechanicalCopy
<1>1. HandoffsInit => CopiesInv
  BY NoStorerIdle DEF HandoffsInit, CopiesInv, Single, Inserting, Mechanical, Stored
<1>2. HandoffsInv /\ CopiesInv /\ [HandoffsNext]_handoffsVars => CopiesInv'
  BY CopiesStep
<1>3. HandoffsInv /\ CopiesInv => OneMechanicalCopy
  <2> SUFFICES ASSUME HandoffsInv, CopiesInv, NEW g \in Mechanical, NEW h \in Mechanical, g # h,
                      handoff[g].hash = handoff[h].hash
               PROVE  handoff[g].hash \in overlapped
    BY DEF OneMechanicalCopy
  <2>1. handoff \in Seq(HandoffRow)
    BY DEF HandoffsInv, HandoffsTypeOK, HandoffRow
  <2>2. handoff[g] \in HandoffRow
    BY <2>1 DEF Mechanical, Stored
  <2>3. handoff[g].hash \in Hash
    BY <2>2 DEF HandoffRow
  <2>4. QED
    BY <2>3 DEF CopiesInv, Single
<1>4. QED
  BY <1>1, <1>2, <1>3, HandoffsInvariant, PTL DEF HandoffsSpec
-----------------------------------------------------------------------------
(* Rate limits.  Histories are added up by the recursive function Before. *)

Ends == MaxSecond + 1

History == [Seconds -> Nat]

\* The sum before a tick adds the tick before it.
LEMMA BeforeAdds ==
    ASSUME NEW h \in History
    PROVE  /\ Before(h) \in [0..Ends -> Nat] /\ Before(h)[0] = 0
           /\ \A n \in Seconds : Before(h)[n + 1] = Before(h)[n] + h[n]
<1> DEFINE Step(k, i) == IF i = 0 THEN 0 ELSE k[i - 1] + h[i - 1]
           Loop(k, m) == k \in [0..m -> Nat] /\ \A i \in 0..m : k[i] = Step(k, i)
           Good == {m \in 0..Ends : \E k : Loop(k, m)}
<1>0. Ends \in Nat /\ MaxSecond \in Nat /\ \A i \in 1..Ends : i - 1 \in Seconds /\ h[i - 1] \in Nat
  BY RateLimitAssumption DEF Ends, Seconds, History
\* The sums can be taken to the end.
<1>1. \E k : Loop(k, Ends)
  <2>1. 0 \in Good
    <3> DEFINE l == [i \in 0..0 |-> 0]
    <3>1. Loop(l, 0)
      OBVIOUS
    <3>2. 0 \in 0..Ends
      BY <1>0
    <3> HIDE DEF l
    <3>3. QED
      BY <3>1, <3>2
  <2>2. ASSUME NEW m \in 0..Ends, m \in Good, m < Ends PROVE m + 1 \in Good
    <3>1. PICK k : Loop(k, m)
      BY <2>2
    <3>2. k \in [0..m -> Nat] /\ \A i \in 0..m : k[i] = Step(k, i)
      BY <3>1
    <3>3. m \in 0..m /\ m + 1 \in 1..Ends /\ (m + 1) - 1 = m /\ h[m] \in Nat /\ k[m] \in Nat
      <4>1. m + 1 \in 1..Ends /\ (m + 1) - 1 = m /\ m \in 0..m
        BY <1>0, <2>2
      <4>2. QED
        BY <1>0, <3>2, <4>1
    <3> DEFINE v == k[m] + h[m]
               l == [i \in 0..(m + 1) |-> IF i = m + 1 THEN v ELSE k[i]]
    <3>4. v \in Nat
      BY <3>3
    <3>5. \A i \in 0..(m + 1) : i = m + 1 \/ i \in 0..m
      OBVIOUS
    <3>6. l \in [0..(m + 1) -> Nat]
      BY <3>2, <3>4, <3>5
    <3>7. ASSUME NEW i \in 0..(m + 1) PROVE l[i] = Step(l, i)
      <4>1. CASE i = m + 1
        <5>1. i # 0 /\ i - 1 = m /\ m \in 0..(m + 1) /\ m # m + 1
          BY <4>1
        <5>2. l[m] = k[m] /\ l[i] = v
          BY <4>1, <5>1
        <5>3. QED
          BY <4>1, <5>1, <5>2
      <4>2. CASE i \in 0..m /\ i # 0
        <5>1. i # m + 1 /\ i - 1 \in 0..(m + 1) /\ i - 1 # m + 1
          BY <4>2
        <5>2. l[i] = k[i] /\ l[i - 1] = k[i - 1]
          BY <5>1
        <5>3. k[i] = k[i - 1] + h[i - 1]
          BY <3>2, <4>2
        <5>4. QED
          BY <4>2, <5>2, <5>3
      <4>3. CASE i = 0
        <5>1. 0 \in 0..m /\ 0 # m + 1
          OBVIOUS
        <5>2. l[0] = k[0] /\ k[0] = 0
          BY <3>2, <5>1
        <5>3. QED
          BY <4>3, <5>2
      <4>4. QED
        BY <3>5, <4>1, <4>2, <4>3
    <3>8. Loop(l, m + 1)
      BY <3>6, <3>7
    <3>9. m + 1 \in 0..Ends
      BY <3>3
    <3> HIDE DEF l
    <3>10. QED
      BY <3>8, <3>9
  <2> HIDE DEF Good
  <2>3. Ends \in Good
    BY <1>0, <2>1, <2>2, UpTo
  <2>4. QED
    BY <2>3 DEF Good
\* So the recursive function is defined by its equation.
<1> DEFINE sum == CHOOSE k : k = [i \in 0..Ends |-> Step(k, i)]
<1>2. Before(h) = sum
  BY DEF Before, Ends
<1>3. sum = [i \in 0..Ends |-> Step(sum, i)]
  <2>1. PICK k : Loop(k, Ends)
    BY <1>1
  <2>2. k = [i \in 0..Ends |-> Step(k, i)]
    BY <2>1
  <2>3. QED
    BY <2>2
<1> HIDE DEF sum
<1>4. \A i \in 0..Ends : sum[i] = Step(sum, i)
  BY <1>3
<1>5. sum[0] = 0
  BY <1>0, <1>4
<1>6. \A n \in Seconds : sum[n + 1] = sum[n] + h[n]
  <2> SUFFICES ASSUME NEW n \in Seconds PROVE sum[n + 1] = sum[n] + h[n]
    OBVIOUS
  <2>1. n + 1 \in 0..Ends /\ n + 1 # 0 /\ (n + 1) - 1 = n
    BY <1>0 DEF Seconds, Ends
  <2>2. QED
    BY <1>4, <2>1
<1> DEFINE Typed == {n \in 0..Ends : sum[n] \in Nat}
<1>7. ASSUME NEW n \in 0..Ends PROVE sum[n] \in Nat
  <2>1. 0 \in Typed
    BY <1>0, <1>5
  <2>2. ASSUME NEW m \in 0..n, m \in Typed, m < n PROVE m + 1 \in Typed
    <3>1. m \in Seconds /\ m + 1 \in 0..Ends /\ h[m] \in Nat
      BY <1>0, <2>2 DEF Seconds, Ends, History
    <3>2. QED
      BY <1>6, <2>2, <3>1
  <2> HIDE DEF Typed
  <2>3. n \in Typed
    BY <1>0, <2>1, <2>2, UpTo
  <2>4. QED
    BY <2>3 DEF Typed
<1>8. sum \in [0..Ends -> Nat]
  BY <1>3, <1>7
<1>9. QED
  BY <1>2, <1>5, <1>6, <1>8

\* The sums grow.
LEMMA BeforeGrows ==
    ASSUME NEW h \in History, NEW m \in 0..Ends, NEW n \in 0..Ends, m <= n
    PROVE  Before(h)[m] <= Before(h)[n]
<1> DEFINE T == Before(h)
           Grown == {k \in 0..Ends : m <= k => T[m] <= T[k]}
<1>1. /\ T \in [0..Ends -> Nat] /\ \A k \in Seconds : T[k + 1] = T[k] + h[k]
      /\ Ends \in Nat
  BY BeforeAdds, RateLimitAssumption DEF Ends
<1> HIDE DEF T
<1>2. 0 \in Grown
  BY <1>1
<1>3. ASSUME NEW k \in 0..n, k \in Grown, k < n PROVE k + 1 \in Grown
  <2>1. k \in Seconds /\ k + 1 \in 0..Ends /\ h[k] \in Nat /\ k \in 0..Ends
    BY <1>1, <1>3, RateLimitAssumption DEF Seconds, Ends, History
  <2>2. T[k] \in Nat /\ T[k + 1] = T[k] + h[k] /\ T[m] \in Nat
    BY <1>1, <2>1
  <2>3. CASE m <= k
    BY <1>3, <2>1, <2>2, <2>3
  <2>4. CASE m = k + 1
    BY <2>1, <2>2, <2>4
  <2>5. QED
    BY <2>1, <2>3, <2>4
<1> HIDE DEF Grown
<1>4. n \in Grown
  BY <1>1, <1>2, <1>3, UpTo
<1>5. QED
  BY <1>4 DEF Grown, T

\* What is added at a tick is added to the sums behind it.
LEMMA BeforeBumped ==
    ASSUME NEW h \in History, NEW s \in Seconds, NEW c \in Nat, NEW n \in 0..Ends
    PROVE  /\ [h EXCEPT ![s] = @ + c] \in History
           /\ Before([h EXCEPT ![s] = @ + c])[n] = Before(h)[n] + IF n > s THEN c ELSE 0
<1>1. PICK g : g = [h EXCEPT ![s] = @ + c]
  OBVIOUS
<1>2. g \in History /\ \A k \in Seconds : g[k] = IF k = s THEN h[k] + c ELSE h[k]
  BY <1>1 DEF History
<1> DEFINE T == Before(h)
           U == Before(g)
           Bumped == {k \in 0..Ends : U[k] = T[k] + IF k > s THEN c ELSE 0}
<1>3. /\ T \in [0..Ends -> Nat] /\ \A k \in Seconds : T[k + 1] = T[k] + h[k]
      /\ U \in [0..Ends -> Nat] /\ \A k \in Seconds : U[k + 1] = U[k] + g[k]
      /\ T[0] = 0 /\ U[0] = 0 /\ Ends \in Nat
  BY <1>2, BeforeAdds, RateLimitAssumption DEF Ends
<1> HIDE DEF T, U
<1>4. 0 \in Bumped
  <2>1. s \in Nat /\ ~(0 > s)
    BY DEF Seconds
  <2>2. QED
    BY <1>3, <2>1
<1>5. ASSUME NEW k \in 0..n, k \in Bumped, k < n PROVE k + 1 \in Bumped
  <2>1. k \in Seconds /\ k + 1 \in 0..Ends /\ h[k] \in Nat /\ k \in 0..Ends
    BY <1>3, <1>5, RateLimitAssumption DEF Seconds, Ends, History
  <2>2. /\ T[k] \in Nat /\ T[k + 1] = T[k] + h[k] /\ U[k + 1] = U[k] + g[k]
        /\ U[k] = T[k] + IF k > s THEN c ELSE 0
    BY <1>3, <1>5, <2>1
  <2>3. g[k] = IF k = s THEN h[k] + c ELSE h[k]
    BY <1>2, <2>1
  <2>4. s \in Nat /\ k \in Nat
    BY <2>1 DEF Seconds
  <2>5. U[k + 1] = T[k + 1] + IF k + 1 > s THEN c ELSE 0
    BY <2>1, <2>2, <2>3, <2>4
  <2>6. QED
    BY <2>1, <2>5
<1> HIDE DEF Bumped
<1>6. n \in Bumped
  BY <1>3, <1>4, <1>5, UpTo
<1>7. QED
  BY <1>1, <1>2, <1>6 DEF Bumped, T, U

LEMMA BeforeNothing ==
    ASSUME NEW n \in 0..Ends
    PROVE  [t \in Seconds |-> 0] \in History /\ Before([t \in Seconds |-> 0])[n] = 0
<1>1. PICK h : h = [t \in Seconds |-> 0]
  OBVIOUS
<1>2. h \in History /\ \A k \in Seconds : h[k] = 0
  BY <1>1 DEF History
<1> DEFINE T == Before(h)
           Empty == {k \in 0..Ends : T[k] = 0}
<1>3. T[0] = 0 /\ (\A k \in Seconds : T[k + 1] = T[k] + h[k]) /\ Ends \in Nat
  BY <1>2, BeforeAdds, RateLimitAssumption DEF Ends
<1> HIDE DEF T
<1>4. 0 \in Empty
  BY <1>3
<1>5. ASSUME NEW k \in 0..n, k \in Empty, k < n PROVE k + 1 \in Empty
  <2>1. k \in Seconds /\ k + 1 \in 0..Ends
    BY <1>3, <1>5, RateLimitAssumption DEF Seconds, Ends
  <2>2. QED
    BY <1>2, <1>3, <1>5, <2>1
<1> HIDE DEF Empty
<1>6. n \in Empty
  BY <1>3, <1>4, <1>5, UpTo
<1>7. QED
  BY <1>1, <1>2, <1>6 DEF Empty, T

\* Popping the expired times leaves a suffix, and what is dropped is over a window old.
LEMMA LiveTimesIsSuffix ==
    ASSUME NEW times \in Seq(Seconds), second \in Seconds
    PROVE  \E k \in 0..Len(times) :
             /\ LiveTimes(times) \in Seq(Seconds) /\ Len(LiveTimes(times)) = Len(times) - k
             /\ \A i \in 1..(Len(times) - k) : LiveTimes(times)[i] = times[i + k]
             /\ \A i \in 1..k : times[i] + Window < second
<1> DEFINE n == Len(times)
           S == {i \in 1..n : second - times[i] <= Window} \cup {n + 1}
<1>1. n \in Nat /\ S \subseteq Nat /\ S \subseteq 1..(n + 1) /\ n + 1 \in S
  OBVIOUS
<1>2. PICK m \in S : \A y \in S : m <= y
  <2> HIDE DEF S
  <2>1. S \subseteq Nat /\ S # {}
    BY <1>1
  <2>2. PICK m \in S : \A y \in S : ~(<<y, m>> \in OpToRel(<, Nat))
    BY <2>1, WFMin, NatLessThanWellFounded, Zenon
  <2>3. \A y \in S : ~(y < m)
    BY <2>1, <2>2 DEF OpToRel
  <2>4. ASSUME NEW y \in S PROVE m <= y
    <3>1. y \in Nat /\ m \in Nat /\ ~(y < m)
      BY <2>1, <2>2, <2>3
    <3>2. QED
      BY <3>1
  <2>5. QED
    BY <2>2, <2>4
<1>3. Min(S) \in S /\ \A y \in S : Min(S) <= y
  <2> HIDE DEF S
  <2>1. QED
    BY <1>2 DEF Min
<1>4. PICK f : f = Min(S)
  OBVIOUS
<1>5. f \in 1..(n + 1) /\ \A y \in S : f <= y
  BY <1>1, <1>3, <1>4
<1>6. LiveTimes(times) = SubSeq(times, f, n)
  BY <1>4 DEF LiveTimes
<1>7. \A i \in 1..(f - 1) : i \in 1..n /\ ~(f <= i)
  BY <1>1, <1>5
<1>8. \A i \in 1..(f - 1) : ~(second - times[i] <= Window)
  BY <1>5, <1>7
<1>9. \A i \in 1..(f - 1) : times[i] + Window < second
  <2> TAKE i \in 1..(f - 1)
  <2>1. times[i] \in Nat /\ second \in Nat /\ Window \in Nat
    BY <1>7, RateLimitAssumption DEF Seconds
  <2>2. QED
    BY <1>8, <2>1
<1>10. f - 1 \in 0..n /\ n - (f - 1) = n - f + 1
  BY <1>1, <1>5
<1>11. /\ SubSeq(times, f, n) \in Seq(Seconds) /\ Len(SubSeq(times, f, n)) = n - (f - 1)
       /\ \A i \in 1..(n - (f - 1)) : SubSeq(times, f, n)[i] = times[i + (f - 1)]
  BY <1>1, <1>5
<1>12. QED
  BY <1>6, <1>9, <1>10, <1>11

(* The sliding window.  Of the requests admitted since any tick of the last window, every *)
(* one is still in the key's window, at its end.                                          *)

Since(h, t) == Before(h)[Ends] - Before(h)[t]

Recorded(times, h, now) ==
    /\ Before(h)[now + 1] = Before(h)[Ends]
    /\ Len(times) <= MaxRate
    /\ \A t \in Seconds : t + Window >= now =>
           /\ Since(h, t) <= Len(times)
           /\ \A i \in 1..Len(times) : i > Len(times) - Since(h, t) => times[i] >= t

SlidingInv ==
    /\ RateLimitTypeOK
    /\ \A b \in Bucket : Recorded(windows[b], admitted[b], second)
    /\ SlidingWindowHolds

\* Popping expired times forgets none of the last window.
LEMMA PoppedRecorded ==
    ASSUME NEW times \in Seq(Seconds), NEW h \in History, second \in Seconds,
           Recorded(times, h, second)
    PROVE  /\ LiveTimes(times) \in Seq(Seconds)
           /\ Recorded(LiveTimes(times), h, second)
<1>1. PICK l : l = LiveTimes(times)
  OBVIOUS
<1>2. PICK k \in 0..Len(times) :
        /\ l \in Seq(Seconds) /\ Len(l) = Len(times) - k
        /\ \A i \in 1..(Len(times) - k) : l[i] = times[i + k]
        /\ \A i \in 1..k : times[i] + Window < second
  BY <1>1, LiveTimesIsSuffix
<1>3. Len(times) \in Nat /\ Len(times) <= MaxRate /\ MaxRate \in Nat /\ Window \in Nat
  BY RateLimitAssumption DEF Recorded
<1>4. ASSUME NEW t \in Seconds, t + Window >= second
      PROVE  /\ Since(h, t) <= Len(l)
             /\ \A i \in 1..Len(l) : i > Len(l) - Since(h, t) => l[i] >= t
  <2>1. Before(h) \in [0..Ends -> Nat] /\ t \in 0..Ends /\ Ends \in 0..Ends /\ t \in Nat /\ second \in Nat
    BY BeforeAdds, RateLimitAssumption DEF Seconds, Ends
  <2>2. Since(h, t) \in Int
    BY <2>1 DEF Since
  <2> DEFINE D == Since(h, t)
  <2>3. D <= Len(times) /\ \A i \in 1..Len(times) : i > Len(times) - D => times[i] >= t
    BY <1>4 DEF Recorded
  <2> HIDE DEF D
  <2>4. D \in Int
    BY <2>2 DEF D
  <2>5. k <= Len(times) - D
    <3>1. CASE k = 0
      BY <1>3, <2>3, <2>4, <3>1
    <3>2. CASE k # 0
      <4>1. k \in 1..k /\ k \in 1..Len(times)
        BY <1>3, <3>2
      <4>2. times[k] + Window < second /\ times[k] \in Nat
        <5>1. times[k] \in Seconds /\ times[k] + Window < second
          BY <1>2, <4>1
        <5>2. QED
          BY <5>1 DEF Seconds
      <4>3. ~(times[k] >= t)
        BY <1>3, <1>4, <2>1, <4>2
      <4>4. ~(k > Len(times) - D)
        BY <2>3, <4>1, <4>3
      <4>5. QED
        BY <1>3, <2>4, <4>1, <4>4
    <3>3. QED
      BY <3>1, <3>2
  <2>6. D <= Len(l)
    BY <1>2, <1>3, <2>4, <2>5
  <2>7. ASSUME NEW i \in 1..Len(l), i > Len(l) - D PROVE l[i] >= t
    <3>1. i \in 1..(Len(times) - k) /\ i + k \in 1..Len(times) /\ i + k > Len(times) - D
      BY <1>2, <1>3, <2>4, <2>7
    <3>2. QED
      BY <1>2, <2>3, <3>1
  <2>8. QED
    BY <2>6, <2>7 DEF D
<1>5. Len(l) <= MaxRate
  BY <1>2, <1>3
<1>6. QED
  BY <1>1, <1>2, <1>4, <1>5 DEF Recorded

\* Admitting a request records it.
LEMMA AdmittedRecorded ==
    ASSUME NEW times \in Seq(Seconds), NEW h \in History, NEW now \in Seconds,
           Recorded(times, h, now), Len(times) < MaxRate
    PROVE  Recorded(Append(times, now), [h EXCEPT ![now] = @ + 1], now)
<1>1. PICK l : l = Append(times, now)
  OBVIOUS
<1>2. PICK g : g = [h EXCEPT ![now] = @ + 1]
  OBVIOUS
<1>3. /\ Len(l) = Len(times) + 1 /\ l[Len(times) + 1] = now /\ Len(times) \in Nat
      /\ \A i \in 1..Len(times) : l[i] = times[i]
  BY <1>1
<1>4. g \in History /\ \A n \in 0..Ends : Before(g)[n] = Before(h)[n] + IF n > now THEN 1 ELSE 0
  <2>1. 1 \in Nat
    OBVIOUS
  <2>2. 0 \in 0..Ends
    BY RateLimitAssumption DEF Ends
  <2>3. QED
    BY <1>2, <2>1, <2>2, BeforeBumped
<1>5. Ends \in Nat /\ Ends > now /\ now + 1 \in 0..Ends /\ now \in Nat /\ MaxRate \in Nat /\ Window \in Nat
      /\ Ends \in 0..Ends
  BY RateLimitAssumption DEF Ends, Seconds
<1>6. Before(h) \in [0..Ends -> Nat]
  BY BeforeAdds
<1>7. Before(h)[now + 1] = Before(h)[Ends]
  BY DEF Recorded
<1>8. Before(g)[now + 1] = Before(g)[Ends] /\ Before(g)[Ends] = Before(h)[Ends] + 1
  BY <1>4, <1>5, <1>6, <1>7
<1>9. ASSUME NEW t \in Seconds, t + Window >= now
      PROVE  /\ Since(g, t) <= Len(l)
             /\ \A i \in 1..Len(l) : i > Len(l) - Since(g, t) => l[i] >= t
  <2>1. t \in 0..Ends /\ t \in Nat
    BY <1>5, RateLimitAssumption DEF Seconds, Ends
  <2>2. Before(h)[t] \in Nat /\ Before(h)[Ends] \in Nat
    BY <1>5, <1>6, <2>1
  <2>3. CASE t > now
    <3>1. Before(h)[now + 1] <= Before(h)[t] /\ Before(h)[t] <= Before(h)[Ends]
      <4>1. now + 1 <= t /\ t <= Ends
        BY <1>5, <2>1, <2>3
      <4>2. QED
        BY <1>5, <2>1, <4>1, BeforeGrows
    <3>2. Before(g)[t] = Before(h)[t] + 1
      BY <1>4, <2>1, <2>3
    <3>3. Since(g, t) = 0
      BY <1>7, <1>8, <2>2, <3>1, <3>2 DEF Since
    <3>4. QED
      BY <1>3, <3>3
  <2>4. CASE ~(t > now)
    <3>1. Before(g)[t] = Before(h)[t] + 0
      BY <1>4, <2>1, <2>4
    <3>2. Since(g, t) = Since(h, t) + 1 /\ Since(h, t) \in Int
      BY <1>8, <2>2, <3>1 DEF Since
    <3>3. /\ Since(h, t) <= Len(times)
          /\ \A i \in 1..Len(times) : i > Len(times) - Since(h, t) => times[i] >= t
      BY <1>9 DEF Recorded
    <3>4. Since(g, t) <= Len(l)
      BY <1>3, <3>2, <3>3
    <3>5. ASSUME NEW i \in 1..Len(l), i > Len(l) - Since(g, t) PROVE l[i] >= t
      <4>1. CASE i = Len(times) + 1
        BY <1>3, <1>5, <2>1, <2>4, <4>1
      <4>2. CASE i # Len(times) + 1
        <5>1. i \in 1..Len(times) /\ i > Len(times) - Since(h, t)
          BY <1>3, <3>2, <3>5, <4>2
        <5>2. QED
          BY <1>3, <3>3, <5>1
      <4>3. QED
        BY <4>1, <4>2
    <3>6. QED
      BY <3>4, <3>5
  <2>5. QED
    BY <2>3, <2>4
<1>10. Len(l) <= MaxRate
  BY <1>3, <1>5
<1>11. QED
  BY <1>1, <1>2, <1>8, <1>9, <1>10 DEF Recorded

\* A span that has not ended holds no more than what is recorded.
LEMMA RecordedBounds ==
    ASSUME NEW times \in Seq(Seconds), NEW h \in History, NEW now \in Seconds,
           Recorded(times, h, now), NEW t \in Seconds, t + Window <= MaxSecond, t + Window >= now
    PROVE  During(h, t, t + Window) <= MaxRate
<1>1. t \in 0..Ends /\ t + Window + 1 \in 0..Ends /\ Ends \in 0..Ends /\ MaxRate \in Nat
  BY RateLimitAssumption DEF Seconds, Ends
<1>2. Before(h) \in [0..Ends -> Nat]
  BY BeforeAdds
<1>3. Before(h)[t + Window + 1] <= Before(h)[Ends]
  BY <1>1, BeforeGrows
<1>4. Since(h, t) <= Len(times) /\ Len(times) <= MaxRate /\ Len(times) \in Nat
  BY DEF Recorded
<1>5. Before(h)[t] \in Nat /\ Before(h)[t + Window + 1] \in Nat /\ Before(h)[Ends] \in Nat
  BY <1>1, <1>2
<1>6. Before(h)[Ends] - Before(h)[t] <= MaxRate
  <2>1. Before(h)[Ends] - Before(h)[t] <= Len(times)
    BY <1>4 DEF Since
  <2>2. QED
    BY <1>1, <1>4, <1>5, <2>1
<1>7. Before(h)[t + Window + 1] - Before(h)[t] <= MaxRate
  BY <1>1, <1>3, <1>5, <1>6
<1>8. QED
  BY <1>7 DEF During

\* What was admitted now changes no span that has ended.
LEMMA EndedSpans ==
    ASSUME NEW h \in History, NEW now \in Seconds, NEW c \in Nat,
           NEW t \in Seconds, t + Window <= MaxSecond, ~(t + Window >= now)
    PROVE  During([h EXCEPT ![now] = @ + c], t, t + Window) = During(h, t, t + Window)
<1>1. /\ t \in 0..Ends /\ t + Window + 1 \in 0..Ends /\ ~(t > now) /\ ~(t + Window + 1 > now)
  BY RateLimitAssumption DEF Seconds, Ends
<1>2. PICK g : g = [h EXCEPT ![now] = @ + c]
  OBVIOUS
<1>3. \A n \in 0..Ends : Before(g)[n] = Before(h)[n] + IF n > now THEN c ELSE 0
  BY <1>2, BeforeBumped
<1>4. Before(h) \in [0..Ends -> Nat]
  BY BeforeAdds
<1>5. Before(g)[t] = Before(h)[t] + 0 /\ Before(g)[t + Window + 1] = Before(h)[t + Window + 1] + 0
  BY <1>1, <1>3
<1>6. Before(g)[t] = Before(h)[t] /\ Before(g)[t + Window + 1] = Before(h)[t + Window + 1]
  BY <1>1, <1>4, <1>5
<1>7. QED
  BY <1>2, <1>6 DEF During

\* What a step of the limiter in memory does to a key: nothing, popping, or admitting.
Popped(b) ==
    /\ windows'[b] \in {windows[b], LiveTimes(windows[b])}
    /\ admitted'[b] = admitted[b]

Appended(b) ==
    /\ Len(LiveTimes(windows[b])) < MaxRate
    /\ windows'[b] = Append(LiveTimes(windows[b]), second)
    /\ admitted'[b] = [admitted[b] EXCEPT ![second] = @ + 1]

LEMMA CheckKeyDoes ==
    ASSUME RateLimitTypeOK, NEW b \in Bucket, check_key(b)
    PROVE  /\ windows' \in [Bucket -> Seq(Seconds)] /\ admitted' \in [Bucket -> History]
           /\ \A d \in Bucket : Popped(d) \/ Appended(d)
<1>1. /\ windows \in [Bucket -> Seq(Seconds)] /\ admitted \in [Bucket -> History]
      /\ second \in Seconds
  BY DEF RateLimitTypeOK, History
<1> DEFINE times == LiveTimes(windows[b])
           ok == has_room_for_key(b) /\ Len(times) < MaxRate
<1>2. /\ windows' = IF ~has_room_for_key(b) THEN Pruned(b)
                    ELSE [Pruned(b) EXCEPT ![b] = IF ok THEN Append(times, second) ELSE times]
      /\ admitted' = IF ok THEN [admitted EXCEPT ![b][second] = @ + 1] ELSE admitted
  BY DEF check_key
<1>3. \A d \in Bucket : LiveTimes(windows[d]) \in Seq(Seconds)
  <2> TAKE d \in Bucket
  <2>1. windows[d] \in Seq(Seconds)
    BY <1>1
  <2>2. QED
    BY <1>1, <2>1, LiveTimesIsSuffix
<1>4. PICK P : P = Pruned(b)
  OBVIOUS
<1>5. P \in [Bucket -> Seq(Seconds)] /\ \A d \in Bucket : P[d] \in {windows[d], LiveTimes(windows[d])}
  BY <1>1, <1>3, <1>4 DEF Pruned
<1>6. PICK l : l = LiveTimes(windows[b])
  OBVIOUS
<1>7. PICK room : room = has_room_for_key(b)
  OBVIOUS
<1>8. /\ windows' = IF ~room THEN P
                    ELSE [P EXCEPT ![b] = IF room /\ Len(l) < MaxRate THEN Append(l, second) ELSE l]
      /\ admitted' = IF room /\ Len(l) < MaxRate THEN [admitted EXCEPT ![b][second] = @ + 1] ELSE admitted
  BY <1>2, <1>4, <1>6, <1>7
<1>9. l \in Seq(Seconds) /\ Append(l, second) \in Seq(Seconds)
  BY <1>1, <1>3, <1>6
<1>10. \A x \in Nat : x + 1 \in Nat
  OBVIOUS
<1>11. [admitted[b] EXCEPT ![second] = @ + 1] \in History
  BY <1>1, <1>10 DEF History
<1>12. CASE room /\ Len(l) < MaxRate
  <2>1. windows' = [P EXCEPT ![b] = Append(l, second)]
    BY <1>8, <1>12
  <2>2. admitted' = [admitted EXCEPT ![b] = [admitted[b] EXCEPT ![second] = @ + 1]]
    <3>1. admitted' = [admitted EXCEPT ![b][second] = @ + 1]
      BY <1>8, <1>12
    <3>2. QED
      BY <1>1, <3>1
  <2>3. windows' \in [Bucket -> Seq(Seconds)]
    BY <1>5, <1>9, <2>1
  <2>4. admitted' \in [Bucket -> History]
    BY <1>1, <1>11, <2>2
  <2>5. Appended(b)
    <3>1. windows'[b] = Append(l, second)
      BY <1>5, <2>1
    <3>2. admitted'[b] = [admitted[b] EXCEPT ![second] = @ + 1]
      BY <1>1, <2>2
    <3>3. QED
      BY <1>6, <1>12, <3>1, <3>2 DEF Appended
  <2>6. ASSUME NEW d \in Bucket, d # b PROVE Popped(d)
    <3>1. windows'[d] = P[d] /\ admitted'[d] = admitted[d]
      BY <1>1, <1>5, <2>1, <2>2, <2>6
    <3>2. QED
      BY <1>5, <3>1 DEF Popped
  <2>7. QED
    BY <2>3, <2>4, <2>5, <2>6
<1>13. CASE ~(room /\ Len(l) < MaxRate)
  <2>1. admitted' = admitted /\ windows' = IF ~room THEN P ELSE [P EXCEPT ![b] = l]
    BY <1>8, <1>13
  <2>2. windows' \in [Bucket -> Seq(Seconds)]
    BY <1>5, <1>9, <2>1
  <2>3. ASSUME NEW d \in Bucket PROVE Popped(d)
    <3>1. windows'[d] = P[d] \/ (d = b /\ windows'[d] = l)
      BY <1>5, <2>1
    <3>2. windows'[d] \in {windows[d], LiveTimes(windows[d])}
      BY <1>5, <1>6, <3>1
    <3>3. QED
      BY <2>1, <3>2 DEF Popped
  <2>4. QED
    BY <1>1, <2>1, <2>2, <2>3
<1>14. QED
  BY <1>12, <1>13

LEMMA PruneDoes ==
    ASSUME RateLimitTypeOK, prune
    PROVE  windows' \in [Bucket -> Seq(Seconds)] /\ \A d \in Bucket : Popped(d)
<1>1. windows \in [Bucket -> Seq(Seconds)] /\ second \in Seconds
  BY DEF RateLimitTypeOK
<1>2. \A d \in Bucket : LiveTimes(windows[d]) \in Seq(Seconds)
  <2> TAKE d \in Bucket
  <2>1. windows[d] \in Seq(Seconds)
    BY <1>1
  <2>2. QED
    BY <1>1, <2>1, LiveTimesIsSuffix
<1>3. windows' = [b \in Bucket |-> LiveTimes(windows[b])] /\ admitted' = admitted
  BY DEF prune
<1>4. QED
  BY <1>2, <1>3 DEF Popped

\* What a request does to its row and to what was spent.
LEMMA IncrementDoes ==
    ASSUME RateLimitTypeOK, NEW a \in Account, NEW cost \in Cost, check_and_increment_by(a, cost)
    PROVE  \E new \in [count : Nat, start : Seconds] :
             /\ new = IF row[a].count = 0 \/ Expired(a) THEN [count |-> cost, start |-> second]
                      ELSE [row[a] EXCEPT !.count = @ + cost]
             /\ row' = [row EXCEPT ![a] = new]
             /\ spent' = IF new.count <= MaxRate
                         THEN [spent EXCEPT ![a] = [spent[a] EXCEPT ![second] = @ + cost]] ELSE spent
             /\ [spent[a] EXCEPT ![second] = @ + cost] \in History
<1>1. /\ row \in [Account -> [count : Nat, start : Seconds]] /\ second \in Seconds
      /\ spent \in [Account -> History] /\ cost \in Nat
  BY RateLimitAssumption DEF RateLimitTypeOK, History
<1>2. PICK new : /\ new = IF row[a].count = 0 \/ Expired(a) THEN [count |-> cost, start |-> second]
                          ELSE [row[a] EXCEPT !.count = @ + cost]
                 /\ row' = [row EXCEPT ![a] = new]
                 /\ spent' = IF new.count <= MaxRate THEN [spent EXCEPT ![a][second] = @ + cost] ELSE spent
  BY DEF check_and_increment_by
<1>3. \A x \in Nat : x + cost \in Nat
  BY <1>1
<1>4. new \in [count : Nat, start : Seconds]
  <2>1. [count |-> cost, start |-> second] \in [count : Nat, start : Seconds]
    BY <1>1
  <2>2. PICK r \in [count : Nat, start : Seconds] : r = row[a]
    BY <1>1
  <2>3. [r EXCEPT !.count = @ + cost] \in [count : Nat, start : Seconds]
    BY <1>3, <2>2
  <2>4. QED
    BY <1>2, <2>1, <2>2, <2>3
<1>5. [spent[a] EXCEPT ![second] = @ + cost] \in History
  BY <1>1, <1>3 DEF History
<1>6. [spent EXCEPT ![a][second] = @ + cost] = [spent EXCEPT ![a] = [spent[a] EXCEPT ![second] = @ + cost]]
  BY <1>1
<1>7. QED
  BY <1>2, <1>4, <1>5, <1>6

LEMMA RateLimitTypeStep ==
    ASSUME RateLimitTypeOK, [RateLimitNext]_rateLimitVars PROVE RateLimitTypeOK'
<1> USE DEF RateLimitTypeOK
<1>1. ASSUME NEW b \in Bucket, check_key(b) PROVE RateLimitTypeOK'
  <2>1. windows' \in [Bucket -> Seq(Seconds)] /\ admitted' \in [Bucket -> History]
    BY <1>1, CheckKeyDoes
  <2>2. UNCHANGED <<row, second, spent>>
    BY <1>1 DEF check_key
  <2>3. QED
    BY <2>1, <2>2 DEF History
<1>2. CASE prune
  <2>1. windows' \in [Bucket -> Seq(Seconds)]
    BY <1>2, PruneDoes
  <2>2. QED
    BY <1>2, <2>1 DEF prune
<1>3. ASSUME NEW a \in Account, NEW c \in Cost, check_and_increment_by(a, c) PROVE RateLimitTypeOK'
  <2>1. PICK new \in [count : Nat, start : Seconds] :
           /\ row' = [row EXCEPT ![a] = new]
           /\ spent' = IF new.count <= MaxRate
                       THEN [spent EXCEPT ![a] = [spent[a] EXCEPT ![second] = @ + c]] ELSE spent
           /\ [spent[a] EXCEPT ![second] = @ + c] \in History
    BY <1>3, IncrementDoes
  <2>2. UNCHANGED <<windows, second, admitted>>
    BY <1>3 DEF check_and_increment_by
  <2>3. row' \in [Account -> [count : Nat, start : Seconds]]
    BY <2>1
  <2>4. spent' \in [Account -> [Seconds -> Nat]]
    <3>1. PICK g \in History : g = [spent[a] EXCEPT ![second] = @ + c]
      BY <2>1
    <3>2. spent' = spent \/ spent' = [spent EXCEPT ![a] = g]
      BY <2>1, <3>1
    <3>3. QED
      BY <3>1, <3>2 DEF History
  <2>5. QED
    BY <2>2, <2>3, <2>4
<1>4. CASE cleanup_expired_rows
  <2>1. NoCount \in [count : Nat, start : Seconds]
    BY RateLimitAssumption DEF NoCount, Seconds
  <2>2. row' \in [Account -> [count : Nat, start : Seconds]]
    BY <1>4, <2>1 DEF cleanup_expired_rows
  <2>3. QED
    BY <1>4, <2>2 DEF cleanup_expired_rows
<1>5. CASE RateLimitTick
  <2>1. second + 1 \in Seconds
    BY <1>5, RateLimitAssumption DEF RateLimitTick, Seconds
  <2>2. QED
    BY <1>5, <2>1 DEF RateLimitTick
<1>6. CASE UNCHANGED rateLimitVars
  BY <1>6 DEF rateLimitVars
<1>7. QED
  BY <1>1, <1>2, <1>3, <1>4, <1>5, <1>6 DEF RateLimitNext

LEMMA RateLimitTypeInit == RateLimitInit => RateLimitTypeOK
<1>1. 0 \in Seconds /\ NoCount \in [count : Nat, start : Seconds]
  BY RateLimitAssumption DEF Seconds, NoCount
<1>2. <<>> \in Seq(Seconds) /\ [t \in Seconds |-> 0] \in [Seconds -> Nat]
  OBVIOUS
<1>3. QED
  BY <1>1, <1>2 DEF RateLimitInit, RateLimitTypeOK

\* Windows, rows and histories keep their types: every time recorded is a time that was.
THEOREM RateLimitTypeCorrect == RateLimitSpec => []RateLimitTypeOK
  BY RateLimitTypeInit, RateLimitTypeStep, PTL DEF RateLimitSpec

\* A step that pops or admits keeps the record of a key and the bound on its spans.
LEMMA KeyStep ==
    ASSUME RateLimitTypeOK, NEW b \in Bucket, Recorded(windows[b], admitted[b], second),
           \A t \in Seconds : t + Window <= MaxSecond => During(admitted[b], t, t + Window) <= MaxRate,
           Popped(b) \/ Appended(b)
    PROVE  /\ Recorded(windows'[b], admitted'[b], second)
           /\ \A t \in Seconds : t + Window <= MaxSecond => During(admitted'[b], t, t + Window) <= MaxRate
<1>1. windows[b] \in Seq(Seconds) /\ admitted[b] \in History /\ second \in Seconds
  BY DEF RateLimitTypeOK, History
<1>2. LiveTimes(windows[b]) \in Seq(Seconds) /\ Recorded(LiveTimes(windows[b]), admitted[b], second)
  BY <1>1, PoppedRecorded
<1>3. CASE Popped(b)
  <2>1. admitted'[b] = admitted[b] /\ (windows'[b] = windows[b] \/ windows'[b] = LiveTimes(windows[b]))
    BY <1>3 DEF Popped
  <2>2. QED
    BY <1>2, <2>1
<1>4. CASE Appended(b)
  <2>1. PICK l : l = LiveTimes(windows[b])
    OBVIOUS
  <2>2. PICK h \in History : h = admitted[b]
    BY <1>1
  <2>3. /\ Len(l) < MaxRate /\ windows'[b] = Append(l, second)
        /\ admitted'[b] = [h EXCEPT ![second] = @ + 1]
    BY <1>4, <2>1, <2>2 DEF Appended
  <2>4. Recorded(Append(l, second), [h EXCEPT ![second] = @ + 1], second)
    BY <1>1, <1>2, <2>1, <2>2, <2>3, AdmittedRecorded
  <2>5. ASSUME NEW t \in Seconds, t + Window <= MaxSecond
        PROVE  During([h EXCEPT ![second] = @ + 1], t, t + Window) <= MaxRate
    <3>1. CASE t + Window >= second
      <4>1. 1 \in Nat /\ 0 \in 0..Ends
        BY RateLimitAssumption DEF Ends
      <4>2. [h EXCEPT ![second] = @ + 1] \in History
        BY <1>1, <4>1, BeforeBumped
      <4>3. Append(l, second) \in Seq(Seconds)
        BY <1>1, <1>2, <2>1
      <4>4. PICK g \in History : g = [h EXCEPT ![second] = @ + 1]
        BY <4>2
      <4>5. QED
        BY <1>1, <2>4, <2>5, <3>1, <4>3, <4>4, RecordedBounds
    <3>2. CASE ~(t + Window >= second)
      <4>1. 1 \in Nat
        OBVIOUS
      <4>2. During([h EXCEPT ![second] = @ + 1], t, t + Window) = During(h, t, t + Window)
        BY <1>1, <2>5, <3>2, <4>1, EndedSpans
      <4>3. QED
        BY <2>2, <2>5, <4>2
    <3>3. QED
      BY <3>1, <3>2
  <2>6. QED
    BY <2>3, <2>4, <2>5
<1>5. QED
  BY <1>3, <1>4

\* Time alone leaves the records.
LEMMA RecordedLater ==
    ASSUME NEW times \in Seq(Seconds), NEW h \in History, NEW now \in Seconds, now < MaxSecond,
           Recorded(times, h, now)
    PROVE  Recorded(times, h, now + 1)
<1>1. now + 1 \in 0..Ends /\ now + 2 \in 0..Ends /\ Ends \in 0..Ends /\ now + 1 <= now + 2
      /\ now + 2 <= Ends /\ (now + 1) + 1 = now + 2
  BY RateLimitAssumption DEF Seconds, Ends
<1>2. Before(h) \in [0..Ends -> Nat]
  BY BeforeAdds
<1>3. Before(h)[now + 1] <= Before(h)[now + 2] /\ Before(h)[now + 2] <= Before(h)[Ends]
  BY <1>1, BeforeGrows
<1>4. Before(h)[now + 1] = Before(h)[Ends]
  BY DEF Recorded
<1>5. Before(h)[(now + 1) + 1] = Before(h)[Ends]
  <2>1. Before(h)[now + 2] \in Nat /\ Before(h)[Ends] \in Nat
    BY <1>1, <1>2
  <2>2. Before(h)[now + 2] = Before(h)[Ends]
    BY <1>3, <1>4, <2>1
  <2>3. QED
    BY <1>1, <2>2
<1>6. \A t \in Seconds : t + Window >= now + 1 => t + Window >= now
  BY RateLimitAssumption DEF Seconds
<1>7. QED
  BY <1>5, <1>6 DEF Recorded

LEMMA SlidingInit == RateLimitInit => SlidingInv
<1> SUFFICES ASSUME RateLimitInit PROVE SlidingInv
  OBVIOUS
<1>1. PICK h : h = [t \in Seconds |-> 0]
  OBVIOUS
<1>2. \A n \in 0..Ends : Before(h)[n] = 0
  BY <1>1, BeforeNothing
<1>3. 0 + 1 \in 0..Ends /\ Ends \in 0..Ends /\ Seconds \subseteq 0..Ends /\ MaxRate \in Nat /\ 0 \in Seconds
      /\ \A t \in Seconds : t + Window <= MaxSecond => (t + Window) + 1 \in 0..Ends
  BY RateLimitAssumption DEF Seconds, Ends
<1>4. \A t \in Seconds : Since(h, t) = 0
  BY <1>2, <1>3 DEF Since
<1>5. Recorded(<<>>, h, 0)
  BY <1>2, <1>3, <1>4 DEF Recorded
<1>6. \A t \in Seconds : t + Window <= MaxSecond => During(h, t, t + Window) <= MaxRate
  BY <1>2, <1>3 DEF During
<1>7. \A b \in Bucket : windows[b] = <<>> /\ admitted[b] = h
  BY <1>1 DEF RateLimitInit
<1>8. second = 0
  BY DEF RateLimitInit
<1>9. QED
  BY <1>5, <1>6, <1>7, <1>8, RateLimitTypeInit DEF SlidingInv, SlidingWindowHolds

LEMMA SlidingStep == ASSUME SlidingInv, [RateLimitNext]_rateLimitVars PROVE SlidingInv'
<1>1. RateLimitTypeOK /\ RateLimitTypeOK'
  BY RateLimitTypeStep DEF SlidingInv
<1>2. ASSUME \A b \in Bucket : Popped(b) \/ Appended(b), second' = second PROVE SlidingInv'
  <2>1. ASSUME NEW b \in Bucket
        PROVE  /\ Recorded(windows'[b], admitted'[b], second)
               /\ \A t \in Seconds : t + Window <= MaxSecond => During(admitted'[b], t, t + Window) <= MaxRate
    BY <1>1, <1>2, KeyStep DEF SlidingInv, SlidingWindowHolds
  <2>2. \A b \in Bucket : Recorded(windows'[b], admitted'[b], second')
    BY <1>2, <2>1
  <2>3. SlidingWindowHolds'
    BY <2>1 DEF SlidingWindowHolds
  <2>4. QED
    BY <1>1, <2>2, <2>3 DEF SlidingInv
<1>3. ASSUME UNCHANGED <<windows, admitted, second>> PROVE SlidingInv'
  <2>1. \A b \in Bucket : Popped(b)
    BY <1>3 DEF Popped
  <2>2. QED
    BY <1>2, <1>3, <2>1
<1>4. ASSUME NEW b \in Bucket, check_key(b) PROVE SlidingInv'
  BY <1>1, <1>2, <1>4, CheckKeyDoes DEF check_key
<1>5. CASE prune
  BY <1>1, <1>2, <1>5, PruneDoes DEF prune
<1>6. ASSUME NEW a \in Account, NEW c \in Cost, check_and_increment_by(a, c) PROVE SlidingInv'
  BY <1>3, <1>6 DEF check_and_increment_by
<1>7. CASE cleanup_expired_rows
  BY <1>3, <1>7 DEF cleanup_expired_rows
<1>8. CASE RateLimitTick
  <2>1. second < MaxSecond /\ second' = second + 1 /\ UNCHANGED <<windows, admitted>>
    BY <1>8 DEF RateLimitTick
  <2>2. second \in Seconds /\ \A b \in Bucket : windows[b] \in Seq(Seconds) /\ admitted[b] \in History
    BY <1>1 DEF RateLimitTypeOK, History
  <2>3. \A b \in Bucket : Recorded(windows[b], admitted[b], second + 1)
    BY <2>1, <2>2, RecordedLater DEF SlidingInv
  <2>4. \A b \in Bucket : Recorded(windows'[b], admitted'[b], second')
    BY <2>1, <2>3
  <2>5. SlidingWindowHolds'
    BY <2>1 DEF SlidingInv, SlidingWindowHolds
  <2>6. QED
    BY <1>1, <2>4, <2>5 DEF SlidingInv
<1>9. CASE UNCHANGED rateLimitVars
  BY <1>3, <1>9 DEF rateLimitVars
<1>10. QED
  BY <1>4, <1>5, <1>6, <1>7, <1>8, <1>9 DEF RateLimitNext

\* check_key admits at most requests_per_minute + burst requests of a key in any span of one
\* window, for every number of keys and every place where windows are pruned.
THEOREM SlidingWindowIsKept == RateLimitSpec => []SlidingWindowHolds
<1>1. SlidingInv => SlidingWindowHolds
  BY DEF SlidingInv
<1>2. QED
  BY <1>1, SlidingInit, SlidingStep, PTL DEF RateLimitSpec

(* The fixed window.  Since the start of its row's window an account spent no more than   *)
(* the row counts, and no more than the limit; the same holds of the window before it.    *)

Counted(r, h, now) ==
    /\ Before(h)[now + 1] = Before(h)[Ends]
    /\ r.count = 0 =>
           /\ Before(h)[now] = Before(h)[Ends]
           /\ \A t \in Seconds : t + Window >= now => Since(h, t) <= MaxRate
    /\ r.count # 0 =>
           /\ r.start <= now /\ Since(h, r.start) <= MaxRate /\ Since(h, r.start) <= r.count
           /\ \A n \in 0..Ends : n > r.start + Window => Before(h)[n] = Before(h)[Ends]
           /\ \A t \in Seconds : t < r.start /\ t + Window >= r.start =>
                  Before(h)[r.start] - Before(h)[t] <= MaxRate

SpansBounded(h) ==
    \A t \in Seconds : t + Window <= MaxSecond => During(h, t, t + Window) <= 2 * MaxRate

FixedInv ==
    /\ RateLimitTypeOK
    /\ \A a \in Account : Counted(row[a], spent[a], second) /\ SpansBounded(spent[a])

Rows == [count : Nat, start : Seconds]

\* A span that has not ended holds at most two limits.
LEMMA CountedBounds ==
    ASSUME NEW r \in Rows, NEW h \in History, NEW now \in Seconds, Counted(r, h, now),
           NEW t \in Seconds, t + Window <= MaxSecond, t + Window >= now
    PROVE  During(h, t, t + Window) <= 2 * MaxRate
<1>1. /\ t \in 0..Ends /\ t + Window + 1 \in 0..Ends /\ t + Window + 1 <= Ends /\ Ends \in 0..Ends
      /\ MaxRate \in Nat /\ t \in Nat /\ now \in Nat /\ Window \in Nat
  BY RateLimitAssumption DEF Seconds, Ends
<1>2. Before(h) \in [0..Ends -> Nat]
  BY BeforeAdds
<1>3. Before(h)[t + Window + 1] <= Before(h)[Ends]
  BY <1>1, BeforeGrows
<1>4. Before(h)[t] \in Nat /\ Before(h)[t + Window + 1] \in Nat /\ Before(h)[Ends] \in Nat
  BY <1>1, <1>2
<1>5. Since(h, t) <= 2 * MaxRate
  <2>1. CASE r.count = 0
    <3>1. Since(h, t) <= MaxRate /\ Since(h, t) \in Int
      BY <1>4, <2>1 DEF Counted, Since
    <3>2. QED
      BY <1>1, <3>1
  <2>2. CASE r.count # 0
    <3>1. PICK u \in Seconds : u = r.start
      BY DEF Rows
    <3>2. /\ u <= now /\ Since(h, u) <= MaxRate
          /\ t < u /\ t + Window >= u => Before(h)[u] - Before(h)[t] <= MaxRate
      BY <2>2, <3>1 DEF Counted
    <3>3. u \in Nat /\ u \in 0..Ends
      BY RateLimitAssumption DEF Seconds, Ends
    <3>4. Before(h)[u] \in Nat
      BY <1>2, <3>3
    <3>5. Before(h)[Ends] - Before(h)[u] <= MaxRate
      BY <3>2 DEF Since
    <3>6. CASE t < u
      <4>1. t + Window >= u
        BY <1>1, <3>2, <3>3
      <4>2. Before(h)[u] - Before(h)[t] <= MaxRate
        BY <3>2, <3>6, <4>1
      <4>3. Before(h)[Ends] - Before(h)[t] <= 2 * MaxRate
        BY <1>1, <1>4, <3>4, <3>5, <4>2
      <4>4. QED
        BY <4>3 DEF Since
    <3>7. CASE u <= t
      <4>1. Before(h)[u] <= Before(h)[t]
        BY <1>1, <3>3, <3>7, BeforeGrows
      <4>2. Before(h)[Ends] - Before(h)[t] <= 2 * MaxRate
        BY <1>1, <1>4, <3>4, <3>5, <4>1
      <4>3. QED
        BY <4>2 DEF Since
    <3>8. QED
      BY <1>1, <3>3, <3>6, <3>7
  <2>3. QED
    BY <2>1, <2>2
<1>6. Before(h)[Ends] - Before(h)[t] <= 2 * MaxRate
  BY <1>5 DEF Since
<1>7. Before(h)[t + Window + 1] - Before(h)[t] <= 2 * MaxRate
  BY <1>1, <1>3, <1>4, <1>6
<1>8. QED
  BY <1>7 DEF During

\* When a window is over, or was dropped, nothing was spent now and at most a limit since.
LEMMA WindowOver ==
    ASSUME NEW r \in Rows, NEW h \in History, NEW now \in Seconds, Counted(r, h, now),
           r.count = 0 \/ now - r.start > Window
    PROVE  /\ Before(h)[now] = Before(h)[Ends]
           /\ \A t \in Seconds : t + Window >= now => Since(h, t) <= MaxRate
<1>1. CASE r.count = 0
  BY <1>1 DEF Counted
<1>2. CASE r.count # 0
  <2>1. PICK u \in Seconds : u = r.start
    BY DEF Rows
  <2>2. /\ now \in 0..Ends /\ Ends \in 0..Ends /\ u \in 0..Ends /\ u \in Nat /\ now \in Nat
        /\ Window \in Nat /\ MaxRate \in Nat /\ now > u + Window
    <3>1. now - u > Window
      BY <1>2, <2>1
    <3>2. QED
      BY <3>1, RateLimitAssumption DEF Seconds, Ends
  <2>3. /\ Since(h, u) <= MaxRate
        /\ \A n \in 0..Ends : n > u + Window => Before(h)[n] = Before(h)[Ends]
    BY <1>2, <2>1 DEF Counted
  <2>4. Before(h)[now] = Before(h)[Ends]
    BY <2>2, <2>3
  <2>5. ASSUME NEW t \in Seconds, t + Window >= now PROVE Since(h, t) <= MaxRate
    <3>1. t \in 0..Ends /\ u <= t
      BY <2>2, <2>5, RateLimitAssumption DEF Seconds, Ends
    <3>2. Before(h)[u] <= Before(h)[t]
      BY <2>2, <3>1, BeforeGrows
    <3>3. Before(h)[u] \in Nat /\ Before(h)[t] \in Nat /\ Before(h)[Ends] \in Nat
      BY <2>2, <3>1, BeforeAdds
    <3>4. Before(h)[Ends] - Before(h)[u] <= MaxRate
      BY <2>3 DEF Since
    <3>5. Before(h)[Ends] - Before(h)[t] <= MaxRate
      BY <2>2, <3>2, <3>3, <3>4
    <3>6. QED
      BY <3>5 DEF Since
  <2>6. QED
    BY <2>4, <2>5
<1>3. QED
  BY <1>1, <1>2

\* A request that opens a window, and one that counts in the window that is open.
LEMMA OpensWindow ==
    ASSUME NEW h \in History, NEW now \in Seconds, NEW c \in Nat \ {0}, NEW g,
           Before(h)[now] = Before(h)[Ends],
           \A t \in Seconds : t + Window >= now => Since(h, t) <= MaxRate,
           Before(h)[now + 1] = Before(h)[Ends],
           g = IF c <= MaxRate THEN [h EXCEPT ![now] = @ + c] ELSE h
    PROVE  Counted([count |-> c, start |-> now], g, now)
<1>1. /\ now \in 0..Ends /\ now + 1 \in 0..Ends /\ Ends \in 0..Ends /\ now \in Nat /\ Ends > now
      /\ Window \in Nat /\ MaxRate \in Nat /\ c \in Nat
  BY RateLimitAssumption DEF Seconds, Ends
<1>2. PICK d \in Nat : /\ d = IF c <= MaxRate THEN c ELSE 0
                       /\ \A n \in 0..Ends : Before(g)[n] = Before(h)[n] + IF n > now THEN d ELSE 0
  <2>1. CASE c <= MaxRate
    <3>1. g = [h EXCEPT ![now] = @ + c]
      BY <2>1
    <3>2. \A n \in 0..Ends : Before(g)[n] = Before(h)[n] + IF n > now THEN c ELSE 0
      <4> TAKE n \in 0..Ends
      <4>1. c \in Nat
        OBVIOUS
      <4>2. Before([h EXCEPT ![now] = @ + c])[n] = Before(h)[n] + IF n > now THEN c ELSE 0
        BY <4>1, BeforeBumped
      <4>3. QED
        BY <3>1, <4>2
    <3>3. QED
      BY <1>1, <2>1, <3>2
  <2>2. CASE ~(c <= MaxRate)
    <3>1. \A n \in 0..Ends : Before(h)[n] \in Nat
      BY BeforeAdds
    <3>2. \A n \in 0..Ends : Before(g)[n] = Before(h)[n] + IF n > now THEN 0 ELSE 0
      BY <2>2, <3>1
    <3>3. QED
      BY <2>2, <3>2
  <2>3. QED
    BY <2>1, <2>2
<1>3. d <= MaxRate /\ d <= c
  BY <1>1, <1>2
<1>4. \A n \in 0..Ends : Before(h)[n] \in Nat
  BY BeforeAdds
<1>5. PICK all \in Nat : all = Before(h)[Ends]
  BY <1>1, <1>4
<1>6. Before(g)[Ends] = all + d /\ Before(g)[now + 1] = all + d /\ Before(g)[now] = all
  <2>1. ~(now > now) /\ now + 1 > now
    BY <1>1
  <2>2. Before(g)[now] = Before(h)[now] + 0
    BY <1>1, <1>2, <2>1
  <2>3. Before(g)[Ends] = Before(h)[Ends] + d
    BY <1>1, <1>2
  <2>4. Before(g)[now + 1] = Before(h)[now + 1] + d
    BY <1>1, <1>2, <2>1
  <2>5. QED
    BY <1>5, <2>2, <2>3, <2>4
<1>7. Since(g, now) = d
  BY <1>5, <1>6 DEF Since
<1>8. ASSUME NEW n \in 0..Ends, n > now + Window PROVE Before(g)[n] = Before(g)[Ends]
  <2>1. now + 1 <= n /\ n <= Ends /\ n > now
    BY <1>1, <1>8
  <2>2. Before(h)[now + 1] <= Before(h)[n] /\ Before(h)[n] <= Before(h)[Ends]
    BY <1>1, <2>1, BeforeGrows
  <2>3. Before(h)[n] = all
    BY <1>4, <1>5, <2>2
  <2>4. QED
    BY <1>2, <1>6, <2>1, <2>3
<1>9. ASSUME NEW t \in Seconds, t < now, t + Window >= now
      PROVE  Before(g)[now] - Before(g)[t] <= MaxRate
  <2>1. t \in 0..Ends /\ ~(t > now)
    BY <1>1, <1>9, RateLimitAssumption DEF Seconds, Ends
  <2>2. Before(g)[t] = Before(h)[t] + 0 /\ Before(h)[t] \in Nat
    BY <1>2, <1>4, <2>1
  <2>3. Before(g)[t] = Before(h)[t]
    BY <2>2
  <2>4. all - Before(h)[t] <= MaxRate
    BY <1>5, <1>9 DEF Since
  <2>5. QED
    BY <1>6, <2>3, <2>4
<1>10. PICK r : r = [count |-> c, start |-> now]
  OBVIOUS
<1>11. r.count # 0 /\ r.start = now /\ r.count = c
  BY <1>10
<1>12. Since(g, now) <= MaxRate /\ Since(g, now) <= c /\ now <= now
  BY <1>1, <1>3, <1>7
<1>13. Counted(r, g, now)
  BY <1>6, <1>8, <1>9, <1>11, <1>12 DEF Counted
<1>14. QED
  BY <1>10, <1>13

LEMMA CountsOn ==
    ASSUME NEW r \in Rows, NEW h \in History, NEW now \in Seconds, NEW c \in Nat \ {0}, NEW g,
           Counted(r, h, now), r.count # 0, ~(now - r.start > Window),
           g = IF r.count + c <= MaxRate THEN [h EXCEPT ![now] = @ + c] ELSE h
    PROVE  Counted([r EXCEPT !.count = @ + c], g, now)
<1>1. PICK u \in Seconds : u = r.start
  BY DEF Rows
<1>2. PICK k \in Nat : k = r.count
  BY DEF Rows
<1>3. /\ now \in 0..Ends /\ now + 1 \in 0..Ends /\ Ends \in 0..Ends /\ now \in Nat /\ Ends > now
      /\ Window \in Nat /\ MaxRate \in Nat /\ c \in Nat /\ u \in Nat /\ u \in 0..Ends
  BY RateLimitAssumption DEF Seconds, Ends
<1>4. /\ u <= now /\ Since(h, u) <= MaxRate /\ Since(h, u) <= k /\ now <= u + Window
      /\ \A n \in 0..Ends : n > u + Window => Before(h)[n] = Before(h)[Ends]
      /\ \A t \in Seconds : t < u /\ t + Window >= u => Before(h)[u] - Before(h)[t] <= MaxRate
      /\ Before(h)[now + 1] = Before(h)[Ends]
  <2>1. now <= u + Window
    BY <1>1, <1>3
  <2>2. QED
    BY <1>1, <1>2, <2>1 DEF Counted
<1>5. PICK d \in Nat : /\ d = IF k + c <= MaxRate THEN c ELSE 0
                       /\ \A n \in 0..Ends : Before(g)[n] = Before(h)[n] + IF n > now THEN d ELSE 0
  <2>1. CASE k + c <= MaxRate
    <3>1. g = [h EXCEPT ![now] = @ + c]
      BY <1>2, <2>1
    <3>2. \A n \in 0..Ends : Before(g)[n] = Before(h)[n] + IF n > now THEN c ELSE 0
      <4> TAKE n \in 0..Ends
      <4>1. c \in Nat
        OBVIOUS
      <4>2. Before([h EXCEPT ![now] = @ + c])[n] = Before(h)[n] + IF n > now THEN c ELSE 0
        BY <4>1, BeforeBumped
      <4>3. QED
        BY <3>1, <4>2
    <3>3. QED
      BY <1>3, <2>1, <3>2
  <2>2. CASE ~(k + c <= MaxRate)
    <3>1. \A n \in 0..Ends : Before(h)[n] \in Nat
      BY BeforeAdds
    <3>2. \A n \in 0..Ends : Before(g)[n] = Before(h)[n] + IF n > now THEN 0 ELSE 0
      BY <1>2, <2>2, <3>1
    <3>3. QED
      BY <2>2, <3>2
  <2>3. QED
    BY <2>1, <2>2
<1>6. \A n \in 0..Ends : Before(h)[n] \in Nat
  BY BeforeAdds
<1>7. /\ Before(g)[Ends] = Before(h)[Ends] + d /\ Before(g)[now + 1] = Before(h)[Ends] + d
      /\ Before(g)[u] = Before(h)[u]
  <2>1. Before(g)[u] = Before(h)[u] + 0 /\ Before(h)[u] \in Nat
    <3>1. ~(u > now)
      BY <1>3, <1>4
    <3>2. QED
      BY <1>3, <1>5, <1>6, <3>1
  <2>2. now + 1 > now
    BY <1>3
  <2>3. Before(g)[Ends] = Before(h)[Ends] + d
    BY <1>3, <1>5
  <2>4. Before(g)[now + 1] = Before(h)[now + 1] + d
    BY <1>3, <1>5, <2>2
  <2>5. QED
    BY <1>4, <2>1, <2>3, <2>4
<1>8. Since(g, u) = Since(h, u) + d /\ Since(h, u) \in Int
  <2>1. Before(h)[u] \in Nat /\ Before(h)[Ends] \in Nat
    BY <1>3, <1>6
  <2>2. QED
    BY <1>7, <2>1 DEF Since
<1>9. Since(g, u) <= MaxRate /\ Since(g, u) <= k + c
  <2>1. CASE k + c <= MaxRate
    BY <1>3, <1>4, <1>5, <1>8, <2>1
  <2>2. CASE ~(k + c <= MaxRate)
    BY <1>3, <1>4, <1>5, <1>8, <2>2
  <2>3. QED
    BY <2>1, <2>2
<1>10. ASSUME NEW n \in 0..Ends, n > u + Window PROVE Before(g)[n] = Before(g)[Ends]
  <2>1. n > now
    BY <1>3, <1>4, <1>10
  <2>2. QED
    BY <1>4, <1>5, <1>7, <1>10, <2>1
<1>11. ASSUME NEW t \in Seconds, t < u, t + Window >= u
       PROVE  Before(g)[u] - Before(g)[t] <= MaxRate
  <2>1. t \in 0..Ends /\ ~(t > now)
    BY <1>3, <1>4, <1>11, RateLimitAssumption DEF Seconds, Ends
  <2>2. Before(g)[t] = Before(h)[t] + 0 /\ Before(h)[t] \in Nat
    BY <1>5, <1>6, <2>1
  <2>3. Before(g)[t] = Before(h)[t]
    BY <2>2
  <2>4. QED
    BY <1>4, <1>7, <1>11, <2>3
<1>12. PICK q : q = [r EXCEPT !.count = @ + c]
  OBVIOUS
<1>13. q.count = k + c /\ q.start = u /\ q.count # 0
  BY <1>1, <1>2, <1>3, <1>12 DEF Rows
<1>14. Counted(q, g, now)
  BY <1>4, <1>7, <1>9, <1>10, <1>11, <1>13 DEF Counted
<1>15. QED
  BY <1>12, <1>14

\* A spending at this tick leaves the spans that have ended, and the others are bounded.
LEMMA SpansStay ==
    ASSUME NEW r \in Rows, NEW h \in History, NEW now \in Seconds, NEW c \in Nat, NEW g,
           SpansBounded(h), g = [h EXCEPT ![now] = @ + c] \/ g = h, Counted(r, g, now)
    PROVE  SpansBounded(g)
<1>1. g \in History
  <2>1. 0 \in 0..Ends
    BY RateLimitAssumption DEF Ends
  <2>2. QED
    BY <2>1, BeforeBumped
<1>2. ASSUME NEW t \in Seconds, t + Window <= MaxSecond
      PROVE  During(g, t, t + Window) <= 2 * MaxRate
  <2>1. CASE t + Window >= now
    BY <1>1, <1>2, <2>1, CountedBounds
  <2>2. CASE ~(t + Window >= now)
    <3>1. During(g, t, t + Window) = During(h, t, t + Window)
      BY <1>2, <2>2, EndedSpans
    <3>2. QED
      BY <1>2, <3>1 DEF SpansBounded
  <2>3. QED
    BY <2>1, <2>2
<1>3. QED
  BY <1>2 DEF SpansBounded

\* Time alone.
LEMMA CountedLater ==
    ASSUME NEW r \in Rows, NEW h \in History, NEW now \in Seconds, now < MaxSecond, Counted(r, h, now)
    PROVE  Counted(r, h, now + 1)
<1>1. now + 1 \in 0..Ends /\ now + 2 \in 0..Ends /\ Ends \in 0..Ends /\ now + 1 <= now + 2
      /\ now + 2 <= Ends /\ (now + 1) + 1 = now + 2
  BY RateLimitAssumption DEF Seconds, Ends
<1>2. Before(h) \in [0..Ends -> Nat]
  BY BeforeAdds
<1>3. Before(h)[now + 1] <= Before(h)[now + 2] /\ Before(h)[now + 2] <= Before(h)[Ends]
  BY <1>1, BeforeGrows
<1>4. Before(h)[now + 1] = Before(h)[Ends]
  BY DEF Counted
<1>5. Before(h)[(now + 1) + 1] = Before(h)[Ends]
  <2>1. Before(h)[now + 2] \in Nat /\ Before(h)[Ends] \in Nat
    BY <1>1, <1>2
  <2>2. Before(h)[now + 2] = Before(h)[Ends]
    BY <1>3, <1>4, <2>1
  <2>3. QED
    BY <1>1, <2>2
<1>6. \A t \in Seconds : t + Window >= now + 1 => t + Window >= now
  BY RateLimitAssumption DEF Seconds
<1>7. r.start <= now => r.start <= now + 1
  <2>1. r.start \in Nat /\ now \in Nat
    BY DEF Rows, Seconds
  <2>2. QED
    BY <2>1
<1>8. QED
  BY <1>4, <1>5, <1>6, <1>7 DEF Counted

LEMMA FixedInit == RateLimitInit => FixedInv
<1> SUFFICES ASSUME RateLimitInit PROVE FixedInv
  OBVIOUS
<1>1. PICK h : h = [t \in Seconds |-> 0]
  OBVIOUS
<1>2. \A n \in 0..Ends : Before(h)[n] = 0
  BY <1>1, BeforeNothing
<1>3. 0 + 1 \in 0..Ends /\ Ends \in 0..Ends /\ Seconds \subseteq 0..Ends /\ MaxRate \in Nat /\ 0 \in Seconds
      /\ \A t \in Seconds : t + Window <= MaxSecond => (t + Window) + 1 \in 0..Ends
  BY RateLimitAssumption DEF Seconds, Ends
<1>4. \A t \in Seconds : Since(h, t) <= MaxRate
  BY <1>2, <1>3 DEF Since
<1>5. Before(h)[0] = 0 /\ Before(h)[0 + 1] = 0 /\ Before(h)[Ends] = 0
  BY <1>2, <1>3
<1>6. NoCount.count = 0
  BY DEF NoCount
<1>7. Counted(NoCount, h, 0)
  BY <1>4, <1>5, <1>6 DEF Counted
<1>8. SpansBounded(h)
  <2>1. 0 - 0 <= 2 * MaxRate
    BY <1>3
  <2>2. QED
    BY <1>2, <1>3, <2>1 DEF During, SpansBounded
<1>9. \A a \in Account : row[a] = NoCount /\ spent[a] = h
  BY <1>1 DEF RateLimitInit
<1>10. second = 0
  BY DEF RateLimitInit
<1>11. QED
  BY <1>7, <1>8, <1>9, <1>10, RateLimitTypeInit DEF FixedInv

LEMMA FixedStep == ASSUME FixedInv, [RateLimitNext]_rateLimitVars PROVE FixedInv'
<1>1. RateLimitTypeOK /\ RateLimitTypeOK'
  BY RateLimitTypeStep DEF FixedInv
<1>2. /\ row \in [Account -> Rows] /\ spent \in [Account -> History] /\ second \in Seconds
  BY <1>1 DEF RateLimitTypeOK, Rows, History
<1>3. ASSUME UNCHANGED <<row, spent, second>> PROVE FixedInv'
  BY <1>1, <1>3 DEF FixedInv
<1>4. ASSUME NEW b \in Bucket, check_key(b) PROVE FixedInv'
  BY <1>3, <1>4 DEF check_key
<1>5. CASE prune
  BY <1>3, <1>5 DEF prune
<1>6. ASSUME NEW a \in Account, NEW c \in Cost, check_and_increment_by(a, c) PROVE FixedInv'
  <2>1. PICK new \in [count : Nat, start : Seconds] :
           /\ new = IF row[a].count = 0 \/ Expired(a) THEN [count |-> c, start |-> second]
                    ELSE [row[a] EXCEPT !.count = @ + c]
           /\ row' = [row EXCEPT ![a] = new]
           /\ spent' = IF new.count <= MaxRate
                       THEN [spent EXCEPT ![a] = [spent[a] EXCEPT ![second] = @ + c]] ELSE spent
           /\ [spent[a] EXCEPT ![second] = @ + c] \in History
    BY <1>1, <1>6, IncrementDoes
  <2>2. UNCHANGED second /\ c \in Nat \ {0} /\ c \in Nat
    BY <1>6, RateLimitAssumption DEF check_and_increment_by
  <2>3. PICK r \in Rows : r = row[a]
    BY <1>2
  <2>4. PICK h \in History : h = spent[a]
    BY <1>2
  <2>5. PICK g : g = IF new.count <= MaxRate THEN [h EXCEPT ![second] = @ + c] ELSE h
    OBVIOUS
  <2>6. new \in Rows
    BY DEF Rows
  <2>7. row'[a] = new /\ spent'[a] = g
    BY <1>2, <2>1, <2>4, <2>5
  <2>8. \A d \in Account : d # a => row'[d] = row[d] /\ spent'[d] = spent[d]
    BY <1>2, <2>1
  <2>9. Counted(r, h, second) /\ SpansBounded(h)
    BY <2>3, <2>4 DEF FixedInv
  <2>10. Counted(new, g, second)
    <3>1. CASE r.count = 0 \/ second - r.start > Window
      <4>1. new = [count |-> c, start |-> second]
        BY <2>1, <2>3, <3>1 DEF Expired
      <4>2. new.count = c
        BY <4>1
      <4>3. /\ Before(h)[second] = Before(h)[Ends]
            /\ \A t \in Seconds : t + Window >= second => Since(h, t) <= MaxRate
        BY <1>2, <2>9, <3>1, WindowOver
      <4>4. Before(h)[second + 1] = Before(h)[Ends]
        BY <2>9 DEF Counted
      <4>5. g = IF c <= MaxRate THEN [h EXCEPT ![second] = @ + c] ELSE h
        BY <2>5, <4>2
      <4>6. QED
        BY <1>2, <2>2, <4>1, <4>3, <4>4, <4>5, OpensWindow
    <3>2. CASE ~(r.count = 0 \/ second - r.start > Window)
      <4>1. new = [r EXCEPT !.count = @ + c]
        BY <2>1, <2>3, <3>2 DEF Expired
      <4>2. new.count = r.count + c
        BY <4>1 DEF Rows
      <4>3. g = IF r.count + c <= MaxRate THEN [h EXCEPT ![second] = @ + c] ELSE h
        BY <2>5, <4>2
      <4>4. QED
        BY <1>2, <2>2, <2>9, <3>2, <4>1, <4>3, CountsOn
    <3>3. QED
      BY <3>1, <3>2
  <2>11. g = [h EXCEPT ![second] = @ + c] \/ g = h
    BY <2>5
  <2>12. SpansBounded(g)
    BY <1>2, <2>2, <2>6, <2>9, <2>10, <2>11, SpansStay
  <2>13. ASSUME NEW d \in Account PROVE Counted(row'[d], spent'[d], second') /\ SpansBounded(spent'[d])
    <3>1. CASE d = a
      BY <2>2, <2>7, <2>10, <2>12, <3>1
    <3>2. CASE d # a
      BY <2>2, <2>8, <3>2 DEF FixedInv
    <3>3. QED
      BY <3>1, <3>2
  <2>14. QED
    BY <1>1, <2>13 DEF FixedInv
<1>7. CASE cleanup_expired_rows
  <2>1. /\ row' = [a \in Account |-> IF OutOfGrace(a) THEN NoCount ELSE row[a]]
        /\ UNCHANGED <<second, spent>>
    BY <1>7 DEF cleanup_expired_rows
  <2>2. ASSUME NEW a \in Account PROVE Counted(row'[a], spent'[a], second')
    <3>1. CASE ~OutOfGrace(a)
      BY <2>1, <3>1 DEF FixedInv
    <3>2. CASE OutOfGrace(a)
      <4>1. PICK r \in Rows : r = row[a]
        BY <1>2
      <4>2. PICK h \in History : h = spent[a]
        BY <1>2
      <4>3. second - r.start > Window
        <5>1. r.start \in Nat /\ second \in Nat
          BY <1>2 DEF Rows, Seconds
        <5>2. QED
          BY <3>2, <4>1, <5>1, RateLimitAssumption DEF OutOfGrace
      <4>4. Counted(r, h, second)
        BY <4>1, <4>2 DEF FixedInv
      <4>5. /\ Before(h)[second] = Before(h)[Ends]
            /\ \A t \in Seconds : t + Window >= second => Since(h, t) <= MaxRate
        BY <1>2, <4>3, <4>4, WindowOver
      <4>6. NoCount.count = 0
        BY DEF NoCount
      <4>7. Counted(NoCount, h, second)
        BY <4>4, <4>5, <4>6 DEF Counted
      <4>8. QED
        BY <2>1, <3>2, <4>2, <4>7
    <3>3. QED
      BY <3>1, <3>2
  <2>3. QED
    BY <1>1, <2>1, <2>2 DEF FixedInv
<1>8. CASE RateLimitTick
  <2>1. second < MaxSecond /\ second' = second + 1 /\ UNCHANGED <<row, spent>>
    BY <1>8 DEF RateLimitTick
  <2>2. \A a \in Account : row[a] \in Rows /\ spent[a] \in History
    BY <1>2
  <2>3. \A a \in Account : Counted(row[a], spent[a], second + 1)
    BY <1>2, <2>1, <2>2, CountedLater DEF FixedInv
  <2>4. QED
    BY <1>1, <2>1, <2>3 DEF FixedInv
<1>9. CASE UNCHANGED rateLimitVars
  BY <1>3, <1>9 DEF rateLimitVars
<1>10. QED
  BY <1>4, <1>5, <1>6, <1>7, <1>8, <1>9 DEF RateLimitNext

\* check_and_increment_by lets through at most twice the limit in any span of one window,
\* whatever the costs and whenever cleanup_expired_rows runs.
THEOREM FixedWindowIsKept == RateLimitSpec => []FixedWindowHolds
<1>1. FixedInv => FixedWindowHolds
  BY DEF FixedInv, SpansBounded, FixedWindowHolds
<1>2. QED
  BY <1>1, FixedInit, FixedStep, PTL DEF RateLimitSpec
-----------------------------------------------------------------------------
(* The services together.  A step of MCServices is a step of one service and leaves the   *)
(* variables of the others, so a behaviour of all of them is one of each.                 *)

LEMMA ServicesStep ==
    ASSUME [Next]_servicesVars
    PROVE  /\ [MemoryNext]_memoryVars
           /\ [ChiasmNext]_chiasmVars
           /\ [DependenciesNext]_dependenciesVars
           /\ [AxonNext]_axonVars
           /\ [ApprovalsNext]_approvalsVars
           /\ [RateLimitNext]_rateLimitVars
           /\ [HandoffsNext]_handoffsVars
           /\ [SidecarNext]_sidecarVars
<1> USE DEF Next, servicesVars
<1>1. [MemoryNext]_memoryVars
  OBVIOUS
<1>2. [ChiasmNext]_chiasmVars
  OBVIOUS
<1>3. [DependenciesNext]_dependenciesVars
  OBVIOUS
<1>4. [AxonNext]_axonVars
  OBVIOUS
<1>5. [ApprovalsNext]_approvalsVars
  OBVIOUS
<1>6. [RateLimitNext]_rateLimitVars
  OBVIOUS
<1>7. [HandoffsNext]_handoffsVars
  OBVIOUS
<1>8. [SidecarNext]_sidecarVars
  OBVIOUS
<1>9. QED
  BY <1>1, <1>2, <1>3, <1>4, <1>5, <1>6, <1>7, <1>8

\* Every behaviour of the services together is a behaviour of each one.
THEOREM ServicesImplement ==
    Spec => /\ MemorySpec /\ ChiasmSpec /\ DependenciesSpec /\ AxonSpec
            /\ ApprovalsSpec /\ RateLimitSpec /\ HandoffsSpec /\ SidecarSpec
<1>1. Init => /\ MemoryInit /\ ChiasmInit /\ DependenciesInit /\ AxonInit
              /\ ApprovalsInit /\ RateLimitInit /\ HandoffsInit /\ SidecarInit
  BY DEF Init
<1>2. QED
  BY <1>1, ServicesStep, PTL DEF Spec, MemorySpec, ChiasmSpec, DependenciesSpec, AxonSpec,
     ApprovalsSpec, RateLimitSpec, HandoffsSpec, SidecarSpec

\* Every table, cursor and request of every service keeps its type.
THEOREM ServicesTypeCorrect == Spec => []ServicesTypeOK
<1>1. MemoryTypeOK /\ ChiasmTypeOK /\ DependenciesTypeOK /\ (AxonTypeOK /\ NothingSkipped)
      /\ ApprovalsTypeOK /\ RateLimitTypeOK /\ (HandoffsTypeOK /\ WriterNotSelfBlocked) /\ SidecarTypeOK
      => ServicesTypeOK
  BY DEF ServicesTypeOK
<1>2. QED
  BY <1>1, ServicesImplement, MemoryTypeCorrect, ChiasmTypeCorrect, DependenciesTypeCorrect,
     AxonSkipsNothing, ApprovalsTypeCorrect, RateLimitTypeCorrect,
     HandoffsWriterNotSelfBlocked, SidecarTypeCorrect, PTL
=============================================================================
