---------------------------- MODULE SidecarProofs ---------------------------
(***************************************************************************)
(* Proofs about the observation buffer of the sidecar: no observation it   *)
(* accepted is lost while the process is up.                               *)
(***************************************************************************)
EXTENDS Sidecar, NaturalsInduction, WellFoundedInduction, SequenceTheorems, TLAPS

(* Sequences and their elements. *)

\* A set of naturals that holds 0, and the successor of what it holds below a bound.
LEMMA UpTo ==
    ASSUME NEW n \in Nat, NEW S, 0 \in S, \A m \in 0..n : m \in S /\ m < n => m + 1 \in S
    PROVE  n \in S
<1> DEFINE T == {m \in 0..n : m \notin S}
<1>1. T \in SUBSET Nat
  OBVIOUS
<1> HIDE DEF T
<1>2. SUFFICES ASSUME T # {} PROVE FALSE
  BY DEF T
<1>3. PICK m \in T : \A y \in T : ~(<<y, m>> \in OpToRel(<, Nat))
  <2>1. T \subseteq Nat
    BY <1>1
  <2>2. QED
    BY <1>2, <2>1, WFMin, NatLessThanWellFounded, Zenon
<1>4. \A y \in T : ~(y < m)
  BY <1>1, <1>3 DEF OpToRel
<1>5. m \in 1..n /\ m \notin S
  <2>1. m \in 0..n /\ m \notin S
    BY DEF T
  <2>2. m # 0
    BY <2>1
  <2>3. QED
    BY <2>1, <2>2
<1>6. m - 1 \in 0..n /\ m - 1 < n /\ m - 1 < m /\ (m - 1) + 1 = m
  BY <1>5
<1>7. m - 1 \in S
  BY <1>4, <1>6 DEF T
<1>8. QED
  BY <1>5, <1>6, <1>7

LEMMA RangeOfAppend ==
    ASSUME NEW X, NEW s \in Seq(X), NEW e \in X
    PROVE  Append(s, e) \in Seq(X) /\ Range(Append(s, e)) = Range(s) \cup {e}
<1>1. /\ Append(s, e) \in Seq(X) /\ Len(Append(s, e)) = Len(s) + 1 /\ Len(s) \in Nat
      /\ \A i \in 1..Len(s) : Append(s, e)[i] = s[i]
      /\ Append(s, e)[Len(s) + 1] = e
  OBVIOUS
<1>2. Range(s) = {s[i] : i \in 1..Len(s)}
  BY RangeEquality
<1>3. Range(Append(s, e)) = {Append(s, e)[i] : i \in 1..(Len(s) + 1)}
  BY <1>1, RangeEquality
<1>4. QED
  BY <1>1, <1>2, <1>3

\* A queue that is cut in two.
LEMMA RangeOfCut ==
    ASSUME NEW X, NEW s \in Seq(X), NEW k \in 0..Len(s)
    PROVE  /\ SubSeq(s, 1, k) \in Seq(X) /\ SubSeq(s, k + 1, Len(s)) \in Seq(X)
           /\ Len(SubSeq(s, 1, k)) = k
           /\ Range(SubSeq(s, 1, k)) \cup Range(SubSeq(s, k + 1, Len(s))) = Range(s)
<1>0. Len(s) \in Nat /\ \A i \in 1..Len(s) : s[i] \in X
  OBVIOUS
<1>1. /\ SubSeq(s, 1, k) \in Seq(X) /\ Len(SubSeq(s, 1, k)) = k
      /\ \A i \in 1..k : SubSeq(s, 1, k)[i] = s[i]
  BY <1>0
<1>2. /\ SubSeq(s, k + 1, Len(s)) \in Seq(X) /\ Len(SubSeq(s, k + 1, Len(s))) = Len(s) - k
      /\ \A i \in 1..(Len(s) - k) : SubSeq(s, k + 1, Len(s))[i] = s[k + i]
  BY <1>0
<1> DEFINE a == SubSeq(s, 1, k)
           b == SubSeq(s, k + 1, Len(s))
<1> HIDE DEF a, b
<1>3. Range(s) = {s[i] : i \in 1..Len(s)}
  BY RangeEquality
<1>4. Range(a) = {a[i] : i \in 1..k}
  BY <1>1, RangeEquality DEF a
<1>5. Range(b) = {b[i] : i \in 1..(Len(s) - k)}
  BY <1>2, RangeEquality DEF b
<1>6. \A i \in 1..Len(s) : i \in 1..k \/ (i - k \in 1..(Len(s) - k) /\ k + (i - k) = i)
  BY <1>0
<1>7. Range(s) \subseteq Range(a) \cup Range(b)
  <2>1. ASSUME NEW i \in 1..Len(s) PROVE s[i] \in Range(a) \cup Range(b)
    <3>1. CASE i \in 1..k
      BY <1>1, <1>4, <3>1 DEF a
    <3>2. CASE i - k \in 1..(Len(s) - k) /\ k + (i - k) = i
      <4>1. b[i - k] = s[i]
        BY <1>2, <3>2 DEF b
      <4>2. QED
        BY <1>5, <3>2, <4>1
    <3>3. QED
      BY <1>6, <3>1, <3>2
  <2>2. QED
    BY <1>3, <2>1
<1>8. Range(a) \cup Range(b) \subseteq Range(s)
  <2>1. \A i \in 1..k : i \in 1..Len(s)
    BY <1>0
  <2>2. \A i \in 1..(Len(s) - k) : k + i \in 1..Len(s)
    BY <1>0
  <2>3. \A i \in 1..k : a[i] = s[i]
    BY <1>1 DEF a
  <2>4. \A i \in 1..(Len(s) - k) : b[i] = s[k + i]
    BY <1>2 DEF b
  <2>5. QED
    BY <1>3, <1>4, <1>5, <2>1, <2>2, <2>3, <2>4
<1>9. Range(a) \cup Range(b) = Range(s)
  BY <1>7, <1>8
<1>10. QED
  BY <1>1, <1>2, <1>9 DEF a, b

\* The loop of partition_by_flags keeps exactly what was not confirmed.
LEMMA RangeOfUnconfirmed ==
    ASSUME NEW X, NEW s \in Seq(X), NEW ok
    PROVE  Unconfirmed(s, ok) \in Seq(X) /\ Range(Unconfirmed(s, ok)) = Range(s) \ ok
<1> DEFINE n == Len(s)
           Step(k, i) == IF i = 0 THEN <<>>
                         ELSE IF s[i] \in ok THEN k[i - 1] ELSE Append(k[i - 1], s[i])
           Loop(k, m) == k \in [0..m -> Seq(X)] /\ \A i \in 0..m : k[i] = Step(k, i)
           Good == {m \in 0..n : \E k : Loop(k, m)}
<1>0. n \in Nat /\ \A i \in 1..n : s[i] \in X
  OBVIOUS
\* The loop can be run to its end.
<1>1. \E k : Loop(k, n)
  <2>1. 0 \in Good
    <3> DEFINE l == [i \in 0..0 |-> <<>>]
    <3>1. Loop(l, 0)
      OBVIOUS
    <3>2. 0 \in 0..n
      BY <1>0
    <3> HIDE DEF l
    <3>3. QED
      BY <3>1, <3>2
  <2>2. ASSUME NEW m \in 0..n, m \in Good, m < n PROVE m + 1 \in Good
    <3>1. PICK k : Loop(k, m)
      BY <2>2
    <3>2. k \in [0..m -> Seq(X)] /\ \A i \in 0..m : k[i] = Step(k, i)
      BY <3>1
    <3>3. m \in 0..m /\ m + 1 \in 1..n /\ s[m + 1] \in X /\ k[m] \in Seq(X)
      <4>1. m \in 0..m /\ m + 1 \in 1..n
        BY <1>0, <2>2
      <4>2. QED
        BY <1>0, <3>2, <4>1, Zenon
    <3> DEFINE v == IF s[m + 1] \in ok THEN k[m] ELSE Append(k[m], s[m + 1])
               l == [i \in 0..(m + 1) |-> IF i = m + 1 THEN v ELSE k[i]]
    <3>4. v \in Seq(X)
      BY <3>3
    <3>5. \A i \in 0..(m + 1) : i = m + 1 \/ i \in 0..m
      OBVIOUS
    <3>6. l \in [0..(m + 1) -> Seq(X)]
      BY <3>2, <3>4, <3>5
    <3>7. ASSUME NEW i \in 0..(m + 1) PROVE l[i] = Step(l, i)
      <4>1. CASE i = m + 1
        <5>1. i # 0 /\ i - 1 = m /\ m \in 0..(m + 1) /\ m # m + 1
          BY <4>1
        <5>2. l[m] = k[m] /\ l[i] = v
          BY <4>1, <5>1
        <5>3. QED
          BY <4>1, <5>1, <5>2
      <4>2. CASE i \in 0..m /\ i # 0
        <5>1. i # m + 1 /\ i - 1 \in 0..(m + 1) /\ i - 1 # m + 1
          BY <4>2
        <5>2. l[i] = k[i] /\ l[i - 1] = k[i - 1]
          BY <5>1
        <5>3. k[i] = IF s[i] \in ok THEN k[i - 1] ELSE Append(k[i - 1], s[i])
          BY <3>2, <4>2
        <5>4. QED
          BY <4>2, <5>2, <5>3
      <4>3. CASE i = 0
        <5>1. 0 \in 0..m /\ 0 # m + 1
          OBVIOUS
        <5>2. l[0] = k[0] /\ k[0] = <<>>
          BY <3>2, <5>1
        <5>3. QED
          BY <4>3, <5>2
      <4>4. QED
        BY <3>5, <4>1, <4>2, <4>3
    <3>8. Loop(l, m + 1)
      BY <3>6, <3>7
    <3>9. m + 1 \in 0..n
      BY <3>3
    <3> HIDE DEF l
    <3>10. QED
      BY <3>8, <3>9
  <2> HIDE DEF Good
  <2>3. n \in Good
    BY <1>0, <2>1, <2>2, UpTo
  <2>4. QED
    BY <2>3 DEF Good
\* So the recursive function is defined by its equation.
<1> DEFINE failed == CHOOSE k : k = [i \in 0..n |-> Step(k, i)]
<1>2. Unconfirmed(s, ok) = failed[n]
  BY DEF Unconfirmed
<1>3. failed = [i \in 0..n |-> Step(failed, i)]
  <2>1. PICK k : Loop(k, n)
    BY <1>1
  <2>2. k = [i \in 0..n |-> Step(k, i)]
    BY <2>1
  <2>3. QED
    BY <2>2
<1> HIDE DEF failed
<1>4. \A i \in 0..n : failed[i] = Step(failed, i)
  BY <1>3
\* After i turns it holds what was not confirmed among the first i.
<1> DEFINE Kept == {m \in 0..n : /\ failed[m] \in Seq(X)
                                 /\ Range(failed[m]) = {s[i] : i \in 1..m} \ ok}
<1>5. n \in Kept
  <2>1. 0 \in Kept
    <3>1. failed[0] = <<>> /\ 0 \in 0..n
      BY <1>0, <1>4
    <3>2. Range(<<>>) = {}
      BY DEF Range
    <3>3. <<>> \in Seq(X) /\ 1..0 = {}
      OBVIOUS
    <3>4. QED
      BY <3>1, <3>2, <3>3
  <2>2. ASSUME NEW m \in 0..n, m \in Kept, m < n PROVE m + 1 \in Kept
    <3>1. failed[m] \in Seq(X) /\ Range(failed[m]) = {s[i] : i \in 1..m} \ ok
      BY <2>2
    <3>2. m + 1 \in 0..n /\ m + 1 \in 1..n /\ m + 1 # 0 /\ (m + 1) - 1 = m /\ s[m + 1] \in X
      BY <1>0, <2>2
    <3>3. failed[m + 1] = IF s[m + 1] \in ok THEN failed[m] ELSE Append(failed[m], s[m + 1])
      BY <1>4, <3>2
    <3>4. {s[i] : i \in 1..(m + 1)} = {s[i] : i \in 1..m} \cup {s[m + 1]}
      <4>1. 1..(m + 1) = 1..m \cup {m + 1}
        OBVIOUS
      <4>2. QED
        BY <4>1
    <3>5. CASE s[m + 1] \in ok
      BY <3>1, <3>2, <3>3, <3>4, <3>5
    <3>6. CASE s[m + 1] \notin ok
      <4>1. /\ Append(failed[m], s[m + 1]) \in Seq(X)
            /\ Range(Append(failed[m], s[m + 1])) = Range(failed[m]) \cup {s[m + 1]}
        BY <3>1, <3>2, RangeOfAppend
      <4>2. QED
        BY <3>1, <3>2, <3>3, <3>4, <3>6, <4>1
    <3>7. QED
      BY <3>5, <3>6
  <2> HIDE DEF Kept
  <2>3. QED
    BY <1>0, <2>1, <2>2, UpTo
<1>6. Range(s) = {s[i] : i \in 1..n}
  BY RangeEquality
<1>7. QED
  BY <1>2, <1>5, <1>6
-----------------------------------------------------------------------------
(* The invariant. *)

ObservationId == 1..MaxObservations

SessionRow == [state : {"none", "active", "ended"}, turns : Nat, pending : Seq(ObservationId)]

FlushRow == [pc : {"idle", "drain", "send", "finalize", "end"}, session : Session, batch : Seq(ObservationId),
             ok : SUBSET ObservationId, ends : BOOLEAN]

\* Queues and batches hold observations of their own session.
QueuedOwned ==
    \A s \in Session : \A o \in Range(session[s].pending) : o \in Observation /\ owner[o] = s

BatchOwned ==
    \A f \in Flush : \A o \in Range(flush[f].batch) : o \in Observation /\ owner[o] = flush[f].session

\* A flush holds a batch only while it sends it or puts the rest back, and takes for stored
\* only what the server confirmed.
BatchesInHand ==
    \A f \in Flush : /\ flush[f].pc \in {"idle", "drain", "end"} => flush[f].batch = <<>>
                     /\ flush[f].ok \subseteq confirmed

\* A session that is gone has no queue; where a flush still holds a batch of it, it was
\* forfeited as it expired.
GoneSessions ==
    \A s \in Session :
        session[s].state = "none" =>
            /\ session[s].pending = <<>>
            /\ \A f \in Flush : flush[f].session = s /\ flush[f].batch # <<>> => s \in forfeited

SidecarInv ==
    SidecarTypeOK /\ QueuedOwned /\ BatchOwned /\ BatchesInHand /\ GoneSessions /\ NoObservationLost

LEMMA EmptyRange == Range(<<>>) = {}
  BY DEF Range

LEMMA NoBatchIdle ==
    /\ NoBatch \in FlushRow /\ NoBatch.pc = "idle" /\ NoBatch.batch = <<>> /\ NoBatch.ok = {}
    /\ ~NoBatch.ends /\ NoBatch.session = DefaultSession
  BY SidecarAssumption DEF NoBatch, FlushRow

LEMMA NewSessions ==
    /\ NewSession \in SessionRow /\ NewSession.state = "active" /\ NewSession.pending = <<>>
    /\ NoSession \in SessionRow /\ NoSession.state = "none" /\ NoSession.pending = <<>>
<1>1. NewSession \in SessionRow /\ NewSession.state = "active" /\ NewSession.pending = <<>>
  <2>1. <<>> \in Seq(ObservationId)
    OBVIOUS
  <2>2. QED
    BY <2>1 DEF NewSession, SessionRow
<1>2. NoSession \in SessionRow /\ NoSession.state = "none" /\ NoSession.pending = <<>>
  BY <1>1 DEF NoSession, SessionRow
<1>3. QED
  BY <1>1, <1>2

LEMMA TypeParts ==
    SidecarTypeOK <=>
        /\ session \in [Session -> SessionRow] /\ session[DefaultSession].state # "none"
        /\ flush \in [Flush -> FlushRow]
        /\ timer \in Flush \cup {NoFlush} /\ phase \in {"serving", "stopping", "down"}
        /\ owner \in Seq(Session) /\ Len(owner) <= MaxObservations
        /\ confirmed \subseteq Observation /\ forfeited \subseteq Session
  BY DEF SidecarTypeOK, SessionRow, FlushRow, ObservationId

\* A step that moves observations between the queue of one session and the batch of one flush.
LEMMA OneMove ==
    ASSUME SidecarInv, NEW s \in Session, NEW r \in SessionRow, NEW f \in Flush, NEW q \in FlushRow,
           session' = [session EXCEPT ![s] = r], flush' = [flush EXCEPT ![f] = q],
           r.state = "none" <=> session[s].state = "none",
           timer' \in Flush \cup {NoFlush}, phase' = phase, owner' = owner,
           confirmed \subseteq confirmed', confirmed' \subseteq Observation,
           forfeited \subseteq forfeited', forfeited' \subseteq Session,
           \A o \in Range(r.pending) : o \in Observation /\ owner[o] = s,
           \A o \in Range(q.batch) : o \in Observation /\ owner[o] = q.session,
           \A o \in Range(session[s].pending) \cup Range(flush[f].batch) :
               \/ o \in confirmed' \/ o \in Range(r.pending) \/ o \in Range(q.batch)
               \/ owner[o] \in forfeited',
           q.pc \in {"idle", "drain", "end"} => q.batch = <<>>, q.ok \subseteq confirmed',
           r.state = "none" => r.pending = <<>>,
           q.batch # <<>> => q.session \in forfeited' \/ session[q.session].state # "none"
    PROVE  SidecarInv'
<1>0. /\ session \in [Session -> SessionRow] /\ session[DefaultSession].state # "none"
      /\ flush \in [Flush -> FlushRow] /\ phase \in {"serving", "stopping", "down"}
      /\ owner \in Seq(Session) /\ Len(owner) <= MaxObservations
  BY TypeParts DEF SidecarInv
<1>1. session'[s] = r /\ \A u \in Session \ {s} : session'[u] = session[u]
  BY <1>0
<1>2. flush'[f] = q /\ \A g \in Flush \ {f} : flush'[g] = flush[g]
  BY <1>0
<1>3. Observation' = Observation
  BY DEF Observation
<1>4. SidecarTypeOK'
  <2>1. session' \in [Session -> SessionRow] /\ flush' \in [Flush -> FlushRow]
    BY <1>0
  <2>2. session'[DefaultSession].state # "none"
    BY <1>0, <1>1, SidecarAssumption
  <2>3. confirmed' \subseteq Observation'
    BY <1>3
  <2>4. QED
    BY <1>0, <2>1, <2>2, <2>3 DEF SidecarTypeOK, SessionRow, FlushRow, ObservationId
<1>5. QueuedOwned'
  BY <1>1, <1>3 DEF QueuedOwned, SidecarInv
<1>6. BatchOwned'
  BY <1>2, <1>3 DEF BatchOwned, SidecarInv
<1>7. BatchesInHand'
  BY <1>2 DEF BatchesInHand, SidecarInv
<1>8. GoneSessions'
  BY <1>1, <1>2 DEF GoneSessions, SidecarInv
<1>9. NoObservationLost'
  <2> SUFFICES ASSUME phase # "down", NEW o \in Observation
               PROVE  o \in confirmed' \/ Queued(o)' \/ InFlight(o)' \/ owner[o] \in forfeited'
    BY <1>3 DEF NoObservationLost
  <2>1. o \in confirmed \/ Queued(o) \/ InFlight(o) \/ owner[o] \in forfeited
    BY DEF NoObservationLost, SidecarInv
  <2>A. o \in Range(r.pending) => Queued(o)'
    BY <1>1 DEF Queued
  <2>B. o \in Range(q.batch) => InFlight(o)'
    BY <1>2 DEF InFlight
  <2>2. CASE Queued(o)
    <3>1. PICK u \in Session : o \in Range(session[u].pending)
      BY <2>2 DEF Queued
    <3>2. CASE u = s
      BY <2>A, <2>B, <3>1, <3>2
    <3>3. CASE u # s
      BY <1>1, <3>1, <3>3 DEF Queued
    <3>4. QED
      BY <3>2, <3>3
  <2>3. CASE InFlight(o)
    <3>1. PICK g \in Flush : o \in Range(flush[g].batch)
      BY <2>3 DEF InFlight
    <3>2. CASE g = f
      BY <2>A, <2>B, <3>1, <3>2
    <3>3. CASE g # f
      BY <1>2, <3>1, <3>3 DEF InFlight
    <3>4. QED
      BY <3>2, <3>3
  <2>4. QED
    BY <2>1, <2>2, <2>3
<1>10. QED
  BY <1>4, <1>5, <1>6, <1>7, <1>8, <1>9 DEF SidecarInv

\* A step that puts a row with the same queue, or with none, in the place of a session.
LEMMA OneSession ==
    ASSUME SidecarInv, NEW s \in Session, NEW r \in SessionRow,
           session' = [session EXCEPT ![s] = r], UNCHANGED <<flush, timer, phase, owner, confirmed>>,
           s = DefaultSession => r.state # "none",
           forfeited \subseteq forfeited', forfeited' \subseteq Session,
           r.pending = session[s].pending \/ (r.pending = <<>> /\ s \in forfeited'),
           r.state = "none" => /\ r.pending = <<>>
                               /\ \A f \in Flush : flush[f].session = s /\ flush[f].batch # <<>>
                                                      => s \in forfeited'
    PROVE  SidecarInv'
<1>0. /\ session \in [Session -> SessionRow] /\ session[DefaultSession].state # "none"
      /\ flush \in [Flush -> FlushRow] /\ phase \in {"serving", "stopping", "down"}
      /\ timer \in Flush \cup {NoFlush}
      /\ owner \in Seq(Session) /\ Len(owner) <= MaxObservations /\ confirmed \subseteq Observation
  BY TypeParts DEF SidecarInv
<1>1. session'[s] = r /\ \A u \in Session \ {s} : session'[u] = session[u]
  BY <1>0
<1>3. Observation' = Observation
  BY DEF Observation
<1>4. SidecarTypeOK'
  <2>1. session' \in [Session -> SessionRow]
    BY <1>0
  <2>2. session'[DefaultSession].state # "none"
    BY <1>0, <1>1, SidecarAssumption
  <2>3. confirmed' \subseteq Observation'
    BY <1>0, <1>3
  <2>4. QED
    BY <1>0, <2>1, <2>2, <2>3 DEF SidecarTypeOK, SessionRow, FlushRow, ObservationId
<1>5. QueuedOwned'
  BY <1>1, <1>3, EmptyRange DEF QueuedOwned, SidecarInv
<1>6. BatchOwned' /\ BatchesInHand'
  BY <1>3 DEF BatchOwned, BatchesInHand, SidecarInv
<1>8. GoneSessions'
  BY <1>1 DEF GoneSessions, SidecarInv
<1>9. NoObservationLost'
  <2> SUFFICES ASSUME phase # "down", NEW o \in Observation
               PROVE  o \in confirmed \/ Queued(o)' \/ InFlight(o)' \/ owner[o] \in forfeited'
    BY <1>3 DEF NoObservationLost
  <2>1. o \in confirmed \/ Queued(o) \/ InFlight(o) \/ owner[o] \in forfeited
    BY DEF NoObservationLost, SidecarInv
  <2>2. CASE Queued(o)
    <3>1. PICK u \in Session : o \in Range(session[u].pending)
      BY <2>2 DEF Queued
    <3>2. owner[o] = u
      BY <3>1 DEF QueuedOwned, SidecarInv
    <3>3. CASE u = s /\ r.pending # session[s].pending
      BY <3>2, <3>3
    <3>4. CASE u # s \/ r.pending = session[s].pending
      BY <1>1, <3>1, <3>4 DEF Queued
    <3>5. QED
      BY <3>3, <3>4
  <2>3. CASE InFlight(o)
    BY <2>3 DEF InFlight
  <2>4. QED
    BY <2>1, <2>2, <2>3
<1>10. QED
  BY <1>4, <1>5, <1>6, <1>8, <1>9 DEF SidecarInv

\* An observation that is accepted is queued, and the oldest of a queue that is due leave it
\* in the batch of a flush.
LEMMA ObserveStep ==
    ASSUME SidecarInv, NEW s \in Session, NEW f \in Flush, observe(s, f)
    PROVE  SidecarInv'
<1> USE SidecarAssumption
<1>0. /\ session \in [Session -> SessionRow] /\ session[DefaultSession].state # "none"
      /\ flush \in [Flush -> FlushRow] /\ phase \in {"serving", "stopping", "down"}
      /\ timer \in Flush \cup {NoFlush}
      /\ owner \in Seq(Session) /\ Len(owner) <= MaxObservations /\ confirmed \subseteq Observation
      /\ forfeited \subseteq Session
  BY TypeParts DEF SidecarInv
<1> DEFINE n     == Len(owner) + 1
           old   == GetOrCreate(s)
           all   == Append(old.pending, n)
           batch == IF DrainDue(old.turns + 1, Len(all)) THEN Drained(all) ELSE <<>>
           rest  == SubSeq(all, Len(batch) + 1, Len(all))
           r     == [old EXCEPT !.turns = @ + 1, !.pending = rest]
           q     == [NoBatch EXCEPT !.pc = "send", !.session = s, !.batch = batch]
<1>1. /\ flush[f].pc = "idle" /\ Len(owner) < MaxObservations /\ old.state = "active"
      /\ owner' = Append(owner, s) /\ session' = [session EXCEPT ![s] = r]
      /\ flush' = IF batch = <<>> THEN flush ELSE [flush EXCEPT ![f] = q]
      /\ UNCHANGED <<timer, phase, confirmed, forfeited>>
  BY DEF observe, FreeFlush
<1>2. old \in SessionRow /\ old.pending = session[s].pending
  BY <1>0, NewSessions DEF GetOrCreate, GoneSessions, SidecarInv
<1>3. n \in ObservationId /\ Len(owner) \in Nat
  BY <1>0, <1>1 DEF ObservationId
<1>4. old.pending \in Seq(ObservationId) /\ old.turns \in Nat
  BY <1>2 DEF SessionRow
<1> HIDE DEF n, old
<1>5. all \in Seq(ObservationId) /\ Range(all) = Range(session[s].pending) \cup {n}
  BY <1>2, <1>3, <1>4, RangeOfAppend
<1> HIDE DEF all
<1>6. \E k \in 0..Len(all) : batch = SubSeq(all, 1, k)
  <2>1. Len(all) \in Nat
    BY <1>5
  <2>2. SubSeq(all, 1, 0) = <<>>
    BY <1>5
  <2>3. CASE DrainDue(old.turns + 1, Len(all)) /\ Len(all) > OverlapTurns
    <3>1. Len(all) - OverlapTurns \in 0..Len(all)
      BY <2>1, <2>3
    <3>2. batch = SubSeq(all, 1, Len(all) - OverlapTurns)
      BY <2>1, <2>3 DEF Drained
    <3>3. QED
      BY <3>1, <3>2
  <2>4. CASE ~(DrainDue(old.turns + 1, Len(all)) /\ Len(all) > OverlapTurns)
    <3>1. batch = SubSeq(all, 1, 0)
      BY <2>1, <2>2, <2>4 DEF Drained
    <3>2. 0 \in 0..Len(all)
      BY <2>1
    <3>3. QED
      BY <3>1, <3>2
  <2>5. QED
    BY <2>3, <2>4
<1>7. batch \in Seq(ObservationId) /\ rest \in Seq(ObservationId) /\ Range(batch) \cup Range(rest) = Range(all)
  <2>1. PICK k \in 0..Len(all) : batch = SubSeq(all, 1, k)
    BY <1>6
  <2>2. Len(batch) = k
    BY <1>5, <2>1, RangeOfCut
  <2>3. rest = SubSeq(all, k + 1, Len(all))
    BY <2>2
  <2> HIDE DEF batch, rest
  <2>4. QED
    BY <1>5, <2>1, <2>3, RangeOfCut
<1> HIDE DEF batch, rest
<1>8. r \in SessionRow /\ r.pending = rest /\ r.state = "active"
  <2>1. old.turns + 1 \in Nat
    BY <1>4
  <2>2. r = [old EXCEPT !.turns = old.turns + 1, !.pending = rest]
    OBVIOUS
  <2> HIDE DEF r
  <2>3. r.pending = rest /\ r.state = "active"
    BY <1>1, <1>2, <2>2 DEF SessionRow
  <2>4. QED
    BY <1>2, <1>7, <2>1, <2>2, <2>3 DEF SessionRow
<1>9. q \in FlushRow /\ q.pc = "send" /\ q.session = s /\ q.batch = batch /\ q.ok = {}
  BY <1>7, NoBatchIdle DEF FlushRow
<1> HIDE DEF r, q
<1>10. flush[f].batch = <<>>
  BY <1>1 DEF BatchesInHand, SidecarInv
<1>11. session'[s] = r /\ \A u \in Session \ {s} : session'[u] = session[u]
  BY <1>0, <1>1
<1>12. /\ \A g \in Flush \ {f} : flush'[g] = flush[g]
       /\ flush'[f] = flush[f] \/ flush'[f] = q
       /\ flush'[f].batch = batch /\ flush'[f].ok \subseteq confirmed
       /\ flush'[f].pc = "idle" => batch = <<>>
       /\ flush'[f].pc \in {"idle", "send"}
       /\ batch # <<>> => flush'[f].session = s
  <2>1. CASE batch = <<>>
    <3>1. flush' = flush
      BY <1>1, <2>1
    <3>2. flush[f].ok \subseteq confirmed
      BY DEF BatchesInHand, SidecarInv
    <3>3. QED
      BY <1>1, <1>10, <2>1, <3>1, <3>2
  <2>2. CASE batch # <<>>
    <3>1. flush' = [flush EXCEPT ![f] = q]
      BY <1>1, <2>2
    <3>2. flush'[f] = q
      BY <1>0, <3>1
    <3>3. \A g \in Flush \ {f} : flush'[g] = flush[g]
      BY <1>0, <3>1
    <3>4. QED
      BY <1>9, <2>2, <3>2, <3>3
  <2>3. QED
    BY <2>1, <2>2
<1>13. /\ owner' \in Seq(Session) /\ Len(owner') = n /\ n <= MaxObservations /\ owner'[n] = s
       /\ \A o \in Observation : owner'[o] = owner[o]
       /\ Observation' = Observation \cup {n}
  <2>1. owner' \in Seq(Session) /\ Len(owner') = n /\ owner'[n] = s
    BY <1>0, <1>1 DEF n
  <2>2. \A o \in 1..Len(owner) : owner'[o] = owner[o]
    BY <1>0, <1>1
  <2>3. n <= MaxObservations
    BY <1>3 DEF ObservationId
  <2>4. 1..n = 1..Len(owner) \cup {n}
    BY <1>3 DEF n
  <2>5. QED
    BY <2>1, <2>2, <2>3, <2>4 DEF Observation
<1>14. SidecarTypeOK'
  <2>1. session' \in [Session -> SessionRow]
    BY <1>0, <1>1, <1>8
  <2>2. session'[DefaultSession].state # "none"
    BY <1>0, <1>8, <1>11
  <2>3. flush' \in [Flush -> FlushRow]
    BY <1>0, <1>1, <1>9
  <2>4. confirmed' \subseteq Observation'
    BY <1>0, <1>1, <1>13
  <2>5. Len(owner') <= MaxObservations
    BY <1>13
  <2>6. QED
    BY <1>0, <1>1, <1>13, <2>1, <2>2, <2>3, <2>4, <2>5 DEF SidecarTypeOK, SessionRow, FlushRow, ObservationId
<1>15. \A o \in Range(batch) \cup Range(rest) : o \in Observation' /\ owner'[o] = s
  BY <1>5, <1>7, <1>13 DEF QueuedOwned, SidecarInv
<1>16. QueuedOwned'
  BY <1>8, <1>11, <1>13, <1>15 DEF QueuedOwned, SidecarInv
<1>17. BatchOwned'
  <2>1. ASSUME NEW o \in Range(batch) PROVE batch # <<>>
    BY <2>1, EmptyRange
  <2>2. \A o \in Range(flush'[f].batch) : o \in Observation' /\ owner'[o] = flush'[f].session
    BY <1>12, <1>15, <2>1
  <2>3. \A g \in Flush \ {f} : \A o \in Range(flush'[g].batch) :
            o \in Observation' /\ owner'[o] = flush'[g].session
    BY <1>12, <1>13 DEF BatchOwned, SidecarInv
  <2>4. QED
    BY <2>2, <2>3 DEF BatchOwned
<1>18. BatchesInHand'
  BY <1>1, <1>12 DEF BatchesInHand, SidecarInv
<1>19. GoneSessions'
  BY <1>1, <1>8, <1>11, <1>12 DEF GoneSessions, SidecarInv
<1>20. NoObservationLost'
  <2> SUFFICES ASSUME phase # "down", NEW o \in Observation'
               PROVE  o \in confirmed \/ Queued(o)' \/ InFlight(o)' \/ owner'[o] \in forfeited
    BY <1>1 DEF NoObservationLost
  <2>A. o \in Range(all) => Queued(o)' \/ InFlight(o)'
    BY <1>7, <1>8, <1>11, <1>12 DEF Queued, InFlight
  <2>1. CASE o = n
    BY <1>5, <2>1, <2>A
  <2>2. CASE o \in Observation
    <3>1. o \in confirmed \/ Queued(o) \/ InFlight(o) \/ owner[o] \in forfeited
      BY <2>2 DEF NoObservationLost, SidecarInv
    <3>2. CASE Queued(o)
      BY <1>5, <1>11, <2>A, <3>2 DEF Queued
    <3>3. CASE InFlight(o)
      <4>1. PICK g \in Flush : o \in Range(flush[g].batch)
        BY <3>3 DEF InFlight
      <4>2. g # f
        BY <1>10, <4>1, EmptyRange
      <4>3. QED
        BY <1>12, <4>1, <4>2 DEF InFlight
    <3>4. QED
      BY <1>13, <2>2, <3>1, <3>2, <3>3
  <2>3. QED
    BY <1>13, <2>1, <2>2
<1>21. QED
  BY <1>14, <1>16, <1>17, <1>18, <1>19, <1>20 DEF SidecarInv

LEMMA SidecarStep == SidecarInv /\ [SidecarNext]_sidecarVars => SidecarInv'
<1> USE SidecarAssumption
<1> SUFFICES ASSUME SidecarInv, [SidecarNext]_sidecarVars PROVE SidecarInv'
  OBVIOUS
<1>0. /\ session \in [Session -> SessionRow] /\ session[DefaultSession].state # "none"
      /\ flush \in [Flush -> FlushRow] /\ phase \in {"serving", "stopping", "down"}
      /\ timer \in Flush \cup {NoFlush}
      /\ owner \in Seq(Session) /\ Len(owner) <= MaxObservations /\ confirmed \subseteq Observation
      /\ forfeited \subseteq Session
  BY TypeParts DEF SidecarInv
<1>I. QueuedOwned /\ BatchOwned /\ BatchesInHand /\ GoneSessions
  BY DEF SidecarInv
\* A flush changes, and no session does.
<1>F. ASSUME NEW f \in Flush, NEW q \in FlushRow, flush' = [flush EXCEPT ![f] = q],
             UNCHANGED <<session, phase, owner>>, timer' \in Flush \cup {NoFlush},
             confirmed \subseteq confirmed', confirmed' \subseteq Observation,
             forfeited \subseteq forfeited', forfeited' \subseteq Session,
             (q.batch = flush[f].batch /\ q.session = flush[f].session) \/ q.batch = <<>>,
             \A o \in Range(flush[f].batch) :
                 o \in confirmed' \/ o \in Range(q.batch) \/ owner[o] \in forfeited',
             q.pc \in {"idle", "drain", "end"} => q.batch = <<>>, q.ok \subseteq confirmed'
      PROVE  SidecarInv'
  <2>0. PICK s \in Session : s = flush[f].session
    BY <1>0 DEF FlushRow
  <2> DEFINE r == session[s]
  <2>1. r \in SessionRow /\ session' = [session EXCEPT ![s] = r]
    BY <1>0, <1>F
  <2>2. \A o \in Range(r.pending) : o \in Observation /\ owner[o] = s
    BY <1>I DEF QueuedOwned
  <2>3. \A o \in Range(q.batch) : o \in Observation /\ owner[o] = q.session
    BY <1>F, <1>I, EmptyRange DEF BatchOwned
  <2>4. r.state = "none" => r.pending = <<>>
    BY <1>I DEF GoneSessions
  <2>5. q.batch # <<>> => q.session \in forfeited' \/ session[q.session].state # "none"
    BY <1>F, <1>I, <2>0 DEF GoneSessions
  <2>6. \A o \in Range(session[s].pending) \cup Range(flush[f].batch) :
            \/ o \in confirmed' \/ o \in Range(r.pending) \/ o \in Range(q.batch)
            \/ owner[o] \in forfeited'
    BY <1>F
  <2>7. r.state = "none" <=> session[s].state = "none"
    OBVIOUS
  <2> HIDE DEF r
  <2>8. QED
    BY <1>F, <2>1, <2>2, <2>3, <2>4, <2>5, <2>6, <2>7, OneMove
<1>1. ASSUME NEW s \in Session, start_session(s) PROVE SidecarInv'
  <2>1. /\ session' = [session EXCEPT ![s] = NewSession]
        /\ forfeited' = IF session[s].pending = <<>> THEN forfeited ELSE forfeited \cup {s}
        /\ UNCHANGED <<flush, timer, phase, owner, confirmed>>
    BY <1>1 DEF start_session
  <2>2. /\ forfeited \subseteq forfeited' /\ forfeited' \subseteq Session
        /\ NewSession.pending = session[s].pending \/ s \in forfeited'
    BY <1>0, <2>1, NewSessions
  <2>3. QED
    BY <2>1, <2>2, NewSessions, OneSession
<1>2. ASSUME NEW s \in Session, observe_filtered(s) PROVE SidecarInv'
  <2>1. GetOrCreate(s) \in SessionRow /\ GetOrCreate(s).pending = session[s].pending
        /\ GetOrCreate(s).state # "none"
    BY <1>0, <1>I, NewSessions DEF GetOrCreate, GoneSessions
  <2>2. session' = [session EXCEPT ![s] = GetOrCreate(s)] /\ forfeited' = forfeited
        /\ UNCHANGED <<flush, timer, phase, owner, confirmed>>
    BY <1>2 DEF observe_filtered
  <2>3. QED
    BY <1>0, <2>1, <2>2, OneSession
<1>3. ASSUME NEW s \in Session, NEW f \in Flush, observe(s, f) PROVE SidecarInv'
  BY <1>3, ObserveStep
<1>4. ASSUME NEW s \in Session, expire_idle(s) PROVE SidecarInv'
  <2>1. /\ session' = [session EXCEPT ![s] = NoSession] /\ s # DefaultSession
        /\ session[s].pending = <<>>
        /\ UNCHANGED <<flush, timer, phase, owner, confirmed>>
        /\ forfeited \subseteq forfeited' /\ forfeited' \subseteq Session
        /\ \A f \in Flush : flush[f].session = s /\ flush[f].batch # <<>> => s \in forfeited'
    BY <1>0, <1>4 DEF expire_idle
  <2>2. QED
    BY <2>1, NewSessions, OneSession
\* A flush that starts holds nothing, and takes the place of one that is over.
<1>S. ASSUME NEW f \in Flush, NEW s \in Session, Starts(f, s), timer' \in Flush \cup {NoFlush},
             UNCHANGED <<session, phase, owner, confirmed, forfeited>>
      PROVE  SidecarInv'
  <2> DEFINE q == [NoBatch EXCEPT !.pc = "drain", !.session = s]
  <2>1. q \in FlushRow /\ q.pc = "drain" /\ q.batch = <<>> /\ q.ok = {}
    BY NoBatchIdle DEF FlushRow
  <2>2. flush' = [flush EXCEPT ![f] = q] /\ flush[f].batch = <<>>
    BY <1>I, <1>S DEF Starts, FreeFlush, BatchesInHand
  <2> HIDE DEF q
  <2>3. \A o \in Range(flush[f].batch) :
            o \in confirmed' \/ o \in Range(q.batch) \/ owner[o] \in forfeited'
    BY <2>2, EmptyRange
  <2>4. confirmed \subseteq confirmed' /\ confirmed' \subseteq Observation
        /\ forfeited \subseteq forfeited' /\ forfeited' \subseteq Session /\ q.ok \subseteq confirmed'
    BY <1>0, <1>S, <2>1
  <2>5. QED
    BY <1>F, <1>S, <2>1, <2>2, <2>3, <2>4
<1>5. ASSUME NEW f \in Flush, NEW s \in Session, time_flush(f, s) \/ flush_all_sessions(f, s)
      PROVE  SidecarInv'
  BY <1>0, <1>5, <1>S DEF time_flush, flush_all_sessions
\* What a flush is when it is over.
<1>O. ASSUME NEW f \in Flush, Over(f)
      PROVE  /\ timer' \in Flush \cup {NoFlush}
             /\ \E q \in FlushRow : /\ flush' = [flush EXCEPT ![f] = q]
                                    /\ q.batch = <<>> /\ q.ok = {} /\ q.pc \in {"idle", "end"}
  <2> DEFINE q == IF flush[f].ends THEN [flush[f] EXCEPT !.pc = "end", !.batch = <<>>, !.ok = {}]
                  ELSE NoBatch
  <2>1. q \in FlushRow /\ q.batch = <<>> /\ q.ok = {} /\ q.pc \in {"idle", "end"}
    BY <1>0, NoBatchIdle DEF FlushRow
  <2>2. flush' = [flush EXCEPT ![f] = q]
    BY <1>0, <1>O DEF Over
  <2> HIDE DEF q
  <2>3. QED
    BY <1>0, <1>O, <2>1, <2>2 DEF Over
\* The whole queue of a session becomes a batch.
<1>T. ASSUME NEW f \in Flush, NEW q \in FlushRow, flush' = [flush EXCEPT ![f] = q],
             flush[f].batch = <<>>, session' = Taken(q.session), q.batch = session[q.session].pending,
             q.ok \subseteq confirmed, q.pc \in {"idle", "drain", "end"} => q.batch = <<>>,
             UNCHANGED <<timer, phase, owner, confirmed, forfeited>>
      PROVE  SidecarInv'
  <2>0. PICK s \in Session : s = q.session
    BY DEF FlushRow
  <2> DEFINE r == [session[s] EXCEPT !.pending = <<>>]
  <2>1. r \in SessionRow /\ r.pending = <<>> /\ r.state = session[s].state
    <3>1. session[s] \in SessionRow /\ <<>> \in Seq(ObservationId)
      BY <1>0
    <3>2. QED
      BY <3>1 DEF SessionRow
  <2>2. session' = [session EXCEPT ![s] = r]
    BY <1>0, <1>T, <2>0 DEF Taken
  <2> HIDE DEF r
  <2>3. \A o \in Range(r.pending) : o \in Observation /\ owner[o] = s
    BY <2>1, EmptyRange
  <2>4. \A o \in Range(q.batch) : o \in Observation /\ owner[o] = q.session
    BY <1>I, <1>T, <2>0 DEF QueuedOwned
  <2>5. \A o \in Range(session[s].pending) \cup Range(flush[f].batch) : o \in Range(q.batch)
    BY <1>T, <2>0, EmptyRange
  <2>6. q.batch # <<>> => session[q.session].state # "none"
    BY <1>I, <1>T, <2>0 DEF GoneSessions
  <2>7. r.state = "none" => r.pending = <<>>
    BY <2>1
  <2>8. r.state = "none" <=> session[s].state = "none"
    BY <2>1
  <2>9. /\ timer' \in Flush \cup {NoFlush} /\ phase' = phase /\ owner' = owner
        /\ confirmed \subseteq confirmed' /\ confirmed' \subseteq Observation
        /\ forfeited \subseteq forfeited' /\ forfeited' \subseteq Session /\ q.ok \subseteq confirmed'
    BY <1>0, <1>T
  <2>10. QED
    BY <1>T, <2>1, <2>2, <2>3, <2>4, <2>5, <2>6, <2>7, <2>8, <2>9, OneMove
<1>6. ASSUME NEW f \in Flush, NEW s \in Session, end_session(f, s) PROVE SidecarInv'
  <2> DEFINE q == [NoBatch EXCEPT !.pc = IF session[s].pending = <<>> THEN "end" ELSE "send",
                                  !.session = s, !.batch = session[s].pending, !.ends = TRUE]
  <2>0. session[s].pending \in Seq(ObservationId)
    BY <1>0 DEF SessionRow
  <2>1. /\ q \in FlushRow /\ q.session = s /\ q.batch = session[s].pending /\ q.ok = {}
        /\ q.pc \in {"idle", "drain", "end"} => q.batch = <<>>
    BY <2>0, NoBatchIdle DEF FlushRow
  <2>2. flush' = [flush EXCEPT ![f] = q] /\ flush[f].batch = <<>> /\ session' = Taken(s)
    BY <1>6, <1>I DEF end_session, FreeFlush, BatchesInHand
  <2> HIDE DEF q
  <2>3. QED
    BY <1>6, <1>T, <2>1, <2>2 DEF end_session
<1>7. ASSUME NEW f \in Flush, flush_pending(f) PROVE SidecarInv'
  <2>0. PICK s \in Session : s = flush[f].session
    BY <1>0 DEF FlushRow
  <2>1. flush[f].batch = <<>> /\ flush[f].pc = "drain" /\ flush[f].ok \subseteq confirmed
    BY <1>7, <1>I DEF flush_pending, BatchesInHand
  <2>2. CASE session[s].pending = <<>>
    <3>1. Over(f) /\ session' = Taken(s)
      BY <1>7, <2>0, <2>2 DEF flush_pending
    <3>2. session' = session
      BY <1>0, <2>2, <3>1 DEF Taken, SessionRow
    <3>3. PICK q \in FlushRow : /\ flush' = [flush EXCEPT ![f] = q]
                                /\ q.batch = <<>> /\ q.ok = {} /\ q.pc \in {"idle", "end"}
      BY <1>O, <3>1
    <3>4. timer' \in Flush \cup {NoFlush}
      BY <1>O, <3>1
    <3>5. \A o \in Range(flush[f].batch) : FALSE
      BY <2>1, EmptyRange
    <3>6. UNCHANGED <<phase, owner, confirmed, forfeited>>
      BY <1>7 DEF flush_pending
    <3>7. QED
      BY <1>0, <1>F, <3>2, <3>3, <3>4, <3>5, <3>6
  <2>3. CASE session[s].pending # <<>>
    <3> DEFINE q == [flush[f] EXCEPT !.pc = "send", !.batch = session[s].pending]
    <3>0. session[s].pending \in Seq(ObservationId)
      BY <1>0 DEF SessionRow
    <3>1. /\ q \in FlushRow /\ q.session = s /\ q.batch = session[s].pending /\ q.ok = flush[f].ok
          /\ q.pc = "send"
      BY <1>0, <2>0, <3>0 DEF FlushRow
    <3>2. flush' = [flush EXCEPT ![f] = q] /\ session' = Taken(s) /\ timer' = timer
      BY <1>0, <1>7, <2>0, <2>3 DEF flush_pending
    <3> HIDE DEF q
    <3>3. QED
      BY <1>7, <1>T, <2>1, <3>1, <3>2 DEF flush_pending
  <2>4. QED
    BY <2>2, <2>3
<1>8. ASSUME NEW f \in Flush, NEW flags \in BoundedSeq(BOOLEAN, MaxObservations),
             flush_observations(f, flags)
      PROVE  SidecarInv'
  <2> DEFINE ok == ConfirmedBy(flush[f].batch, flags)
             q  == [flush[f] EXCEPT !.pc = "finalize", !.ok = ok]
  <2>1. confirmed' = confirmed \cup ok
    BY <1>8 DEF flush_observations, ConfirmedBy
  <2>2. ok \subseteq Range(flush[f].batch)
    <3>1. PICK m \in 0..MaxObservations : flags \in [1..m -> BOOLEAN]
      BY DEF BoundedSeq, SeqOf
    <3>2. Len(flags) = m /\ DOMAIN flags = 1..m
      BY <3>1
    <3>3. flush[f].batch \in Seq(ObservationId)
      BY <1>0 DEF FlushRow
    <3>4. \A i \in DOMAIN flags : i \in 1..Len(flush[f].batch)
      BY <1>8, <3>2, <3>3 DEF flush_observations
    <3>5. Range(flush[f].batch) = {flush[f].batch[i] : i \in 1..Len(flush[f].batch)}
      BY <3>3, RangeEquality
    <3>6. QED
      BY <3>4, <3>5 DEF ConfirmedBy
  <2>3. Range(flush[f].batch) \subseteq ObservationId /\ Range(flush[f].batch) \subseteq Observation
    <3>1. flush[f].batch \in Seq(ObservationId)
      BY <1>0 DEF FlushRow
    <3>2. Range(flush[f].batch) \subseteq ObservationId
      BY <3>1, RangeOfSeq
    <3>3. QED
      BY <1>I, <3>2 DEF BatchOwned
  <2>4. ok \subseteq ObservationId
    BY <2>2, <2>3
  <2> HIDE DEF ok
  <2>5. q \in FlushRow /\ q.pc = "finalize" /\ q.batch = flush[f].batch /\ q.session = flush[f].session
        /\ q.ok = ok
    BY <1>0, <2>4 DEF FlushRow
  <2>6. flush' = [flush EXCEPT ![f] = q]
    BY <1>0, <1>8 DEF flush_observations, ok
  <2> HIDE DEF q
  <2>7. /\ confirmed \subseteq confirmed' /\ confirmed' \subseteq Observation /\ q.ok \subseteq confirmed'
        /\ UNCHANGED <<session, timer, phase, owner, forfeited>>
    BY <1>0, <1>8, <2>1, <2>2, <2>3, <2>5 DEF flush_observations
  <2>8. QED
    BY <1>0, <1>F, <2>5, <2>6, <2>7
<1>9. ASSUME NEW f \in Flush, finalize_flush(f) PROVE SidecarInv'
  <2>0. PICK s \in Session : s = flush[f].session
    BY <1>0 DEF FlushRow
  <2>1. Over(f) /\ UNCHANGED <<phase, owner, confirmed, forfeited>>
    BY <1>9 DEF finalize_flush
  <2>2. PICK q \in FlushRow : /\ flush' = [flush EXCEPT ![f] = q]
                              /\ q.batch = <<>> /\ q.ok = {} /\ q.pc \in {"idle", "end"}
    BY <1>O, <2>1
  <2>3. timer' \in Flush \cup {NoFlush}
    BY <1>O, <2>1
  <2>4. flush[f].batch \in Seq(ObservationId) /\ session[s].pending \in Seq(ObservationId)
    BY <1>0 DEF FlushRow, SessionRow
  <2> DEFINE failed == Unconfirmed(flush[f].batch, flush[f].ok)
  <2>5. failed \in Seq(ObservationId) /\ Range(failed) = Range(flush[f].batch) \ flush[f].ok
    BY <2>4, RangeOfUnconfirmed
  <2>6. flush[f].ok \subseteq confirmed
    BY <1>I DEF BatchesInHand
  <2>7. CASE session[s].state = "none"
    <3>1. session' = session
      BY <1>9, <2>0, <2>7 DEF finalize_flush
    <3>2. flush[f].batch # <<>> => s \in forfeited
      BY <1>I, <2>0, <2>7 DEF GoneSessions
    <3>3. \A o \in Range(flush[f].batch) : owner[o] \in forfeited
      BY <1>I, <2>0, <3>2, EmptyRange DEF BatchOwned
    <3>4. QED
      BY <1>0, <1>F, <2>1, <2>2, <2>3, <3>1, <3>3
  <2>8. CASE session[s].state # "none"
    <3> DEFINE r == [session[s] EXCEPT !.pending = failed \o @]
    <3>0. session' = [session EXCEPT ![s] = r]
      BY <1>0, <1>9, <2>0, <2>8 DEF finalize_flush
    <3> HIDE DEF failed
    <3>1. /\ failed \o session[s].pending \in Seq(ObservationId)
          /\ Range(failed \o session[s].pending) = Range(failed) \cup Range(session[s].pending)
      BY <2>4, <2>5, ConcatProperties, RangeConcatenation
    <3>2. r \in SessionRow /\ r.pending = failed \o session[s].pending /\ r.state = session[s].state
      BY <1>0, <3>1 DEF SessionRow
    <3> HIDE DEF r
    <3>3. \A o \in Range(r.pending) : o \in Observation /\ owner[o] = s
      BY <1>I, <2>0, <2>5, <3>1, <3>2 DEF QueuedOwned, BatchOwned
    <3>4. \A o \in Range(session[s].pending) \cup Range(flush[f].batch) :
              o \in confirmed' \/ o \in Range(r.pending)
      BY <2>1, <2>5, <2>6, <3>1, <3>2
    <3>5. \A o \in Range(q.batch) : o \in Observation /\ owner[o] = q.session
      BY <2>2, EmptyRange
    <3>6. confirmed \subseteq confirmed' /\ confirmed' \subseteq Observation /\ q.ok \subseteq confirmed'
          /\ forfeited \subseteq forfeited' /\ forfeited' \subseteq Session
      BY <1>0, <2>1, <2>2
    <3>7. QED
      BY <2>1, <2>2, <2>3, <2>8, <3>0, <3>2, <3>3, <3>4, <3>5, <3>6, OneMove
  <2>9. QED
    BY <2>7, <2>8
<1>10. ASSUME NEW f \in Flush, EndMarked(f) PROVE SidecarInv'
  <2>0. PICK s \in Session : s = flush[f].session
    BY <1>0 DEF FlushRow
  <2>1. flush[f].batch = <<>> /\ flush' = [flush EXCEPT ![f] = NoBatch]
        /\ UNCHANGED <<timer, phase, owner, confirmed, forfeited>>
    BY <1>10, <1>I DEF EndMarked, BatchesInHand
  <2> DEFINE r == IF session[s].state = "active" THEN [session[s] EXCEPT !.state = "ended"] ELSE session[s]
  <2>2. /\ r \in SessionRow /\ r.pending = session[s].pending
        /\ r.state = "none" <=> session[s].state = "none"
    BY <1>0 DEF SessionRow
  <2>3. session' = [session EXCEPT ![s] = r]
    BY <1>0, <1>10, <2>0 DEF EndMarked
  <2> HIDE DEF r
  <2>4. r.state = "none" => r.pending = <<>>
    BY <1>I, <2>2 DEF GoneSessions
  <2>5. \A o \in Range(r.pending) : o \in Observation /\ owner[o] = s
    BY <1>I, <2>2 DEF QueuedOwned
  <2>6. \A o \in Range(session[s].pending) \cup Range(flush[f].batch) : o \in Range(r.pending)
    BY <2>1, <2>2, EmptyRange
  <2>7. \A o \in Range(NoBatch.batch) : o \in Observation /\ owner[o] = NoBatch.session
    BY NoBatchIdle, EmptyRange
  <2>8. QED
    BY <1>0, <2>1, <2>2, <2>3, <2>4, <2>5, <2>6, <2>7, NoBatchIdle, OneMove
<1>11. ASSUME NEW f \in Flush, end_dropped(f) PROVE SidecarInv'
  <2>0. flush[f].session \in Session
    BY <1>0 DEF FlushRow
  <2>1. /\ flush' = [flush EXCEPT ![f] = NoBatch]
        /\ forfeited' = IF flush[f].batch = <<>> THEN forfeited ELSE forfeited \cup {flush[f].session}
        /\ UNCHANGED <<session, timer, phase, owner, confirmed>>
    BY <1>11 DEF end_dropped
  <2>2. forfeited \subseteq forfeited' /\ forfeited' \subseteq Session
    BY <1>0, <2>0, <2>1
  <2>3. \A o \in Range(flush[f].batch) : owner[o] \in forfeited'
    BY <1>I, <2>1, EmptyRange DEF BatchOwned
  <2>4. QED
    BY <1>0, <1>F, <2>1, <2>2, <2>3, NoBatchIdle
<1>12. CASE shutdown_signal \/ UNCHANGED sidecarVars
  <2>1. UNCHANGED <<session, flush, timer, owner, confirmed, forfeited>> /\ (phase' # "down" => phase # "down")
        /\ phase' \in {"serving", "stopping", "down"}
    BY <1>0, <1>12 DEF shutdown_signal, sidecarVars
  <2>2. SidecarTypeOK' /\ QueuedOwned' /\ BatchOwned' /\ BatchesInHand' /\ GoneSessions'
    BY <1>0, <1>I, <2>1
       DEF SidecarTypeOK, SessionRow, FlushRow, ObservationId, QueuedOwned, BatchOwned, BatchesInHand, GoneSessions,
           Observation
  <2>3. NoObservationLost'
    BY <2>1 DEF SidecarInv, NoObservationLost, Queued, InFlight, Observation
  <2>4. QED
    BY <2>2, <2>3 DEF SidecarInv
<1>13. CASE exit
  <2>1. /\ UNCHANGED <<owner, confirmed, forfeited>> /\ phase' = "down" /\ timer' = NoFlush
        /\ session' = [s \in Session |-> IF s = DefaultSession THEN NewSession ELSE NoSession]
        /\ flush' = [f \in Flush |-> NoBatch]
    BY <1>13 DEF exit
  <2>2. session' \in [Session -> SessionRow] /\ session'[DefaultSession].state # "none"
        /\ \A s \in Session : session'[s].pending = <<>>
    BY <2>1, NewSessions
  <2>3. flush' \in [Flush -> FlushRow] /\ \A f \in Flush : flush'[f].batch = <<>> /\ flush'[f].ok = {}
    BY <2>1, NoBatchIdle
  <2>4. SidecarTypeOK'
    BY <1>0, <2>1, <2>2, <2>3 DEF SidecarTypeOK, SessionRow, FlushRow, ObservationId, Observation
  <2>5. QueuedOwned' /\ BatchOwned' /\ BatchesInHand' /\ GoneSessions'
    BY <2>2, <2>3, EmptyRange DEF QueuedOwned, BatchOwned, BatchesInHand, GoneSessions
  <2>6. NoObservationLost'
    BY <2>1 DEF NoObservationLost
  <2>7. QED
    BY <2>4, <2>5, <2>6 DEF SidecarInv
<1>14. QED
  BY <1>1, <1>2, <1>3, <1>4, <1>5, <1>6, <1>7, <1>8, <1>9, <1>10, <1>11, <1>12, <1>13 DEF SidecarNext

LEMMA SidecarInitially == SidecarInit => SidecarInv
<1> USE SidecarAssumption
<1> SUFFICES ASSUME SidecarInit PROVE SidecarInv
  OBVIOUS
<1>1. session \in [Session -> SessionRow] /\ session[DefaultSession].state # "none"
      /\ \A s \in Session : session[s].pending = <<>>
  BY NewSessions DEF SidecarInit
<1>2. flush \in [Flush -> FlushRow] /\ \A f \in Flush : flush[f].batch = <<>> /\ flush[f].ok = {}
  BY NoBatchIdle DEF SidecarInit
<1>3. SidecarTypeOK
  BY <1>1, <1>2, TypeParts DEF SidecarInit
<1>4. QueuedOwned /\ BatchOwned /\ BatchesInHand /\ GoneSessions
  BY <1>1, <1>2, EmptyRange DEF QueuedOwned, BatchOwned, BatchesInHand, GoneSessions
<1>5. Observation = {}
  BY DEF SidecarInit, Observation
<1>6. NoObservationLost
  BY <1>5 DEF NoObservationLost
<1>7. QED
  BY <1>3, <1>4, <1>6 DEF SidecarInv

THEOREM SidecarInvariant == SidecarSpec => []SidecarInv
  BY SidecarInitially, SidecarStep, PTL DEF SidecarSpec

\* Sessions, queues, batches and flushes keep their types.
THEOREM SidecarTypeCorrect == SidecarSpec => []SidecarTypeOK
<1>1. SidecarInv => SidecarTypeOK
  BY DEF SidecarInv
<1>2. QED
  BY <1>1, SidecarInvariant, PTL

\* Every accepted observation is confirmed, queued or in a batch while the process is up, or of
\* a session that was forfeited, for any number of sessions and of flushes that overlap.
THEOREM ObservationsAreKept == SidecarSpec => []NoObservationLost
<1>1. SidecarInv => NoObservationLost
  BY DEF SidecarInv
<1>2. QED
  BY <1>1, SidecarInvariant, PTL
=============================================================================
