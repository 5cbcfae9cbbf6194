---------------------------- MODULE ChiasmProofs ----------------------------
(***************************************************************************)
(* Proofs about the Chiasm tasks, their sweep, and the dependency graph.   *)
(***************************************************************************)
EXTENDS Chiasm, Dependencies, TLAPS

TaskRow == [status : TaskStatus, assigned : BOOLEAN, beat : NoBeat..MaxClock, updated : 0..MaxClock]

\* A request and a sweep that are not in flight.
LEMMA NoCallIdle == NoCall \in [pc : {"idle", "refresh"}, task : Task] /\ NoCall.pc = "idle"
  BY ChiasmAssumption DEF NoCall

LEMMA NoSweepIdle ==
    /\ NoSweep \in [pc : {"idle", "mark", "release"}, todo : SUBSET Task, task : Task]
    /\ NoSweep.pc = "idle"
  BY ChiasmAssumption DEF NoSweep

\* A row keeps its type under the statements of the tracker.
LEMMA TaskUpdates ==
    ASSUME NEW r \in TaskRow, NEW s \in TaskStatus, NEW n \in 0..MaxClock, NEW b \in BOOLEAN
    PROVE  /\ NoTask \in TaskRow
           /\ [r EXCEPT !.status = s] \in TaskRow
           /\ [r EXCEPT !.updated = n] \in TaskRow
           /\ [r EXCEPT !.status = s, !.updated = n] \in TaskRow
           /\ [r EXCEPT !.beat = n, !.updated = n] \in TaskRow
           /\ [r EXCEPT !.status = s, !.assigned = b, !.updated = n] \in TaskRow
           /\ [r EXCEPT !.status = s, !.assigned = b, !.beat = n, !.updated = n] \in TaskRow
<1>1. n \in NoBeat..MaxClock
  BY ChiasmAssumption DEF NoBeat
<1>2. NoTask \in TaskRow
  BY ChiasmAssumption DEF TaskRow, NoTask, NoBeat, TaskStatus
<1>3. [r EXCEPT !.status = s] \in TaskRow
  BY DEF TaskRow
<1>4. [r EXCEPT !.updated = n] \in TaskRow
  BY DEF TaskRow
<1>5. [r EXCEPT !.status = s, !.updated = n] \in TaskRow
  BY DEF TaskRow
<1>6. [r EXCEPT !.beat = n, !.updated = n] \in TaskRow
  BY <1>1 DEF TaskRow
<1>7. [r EXCEPT !.status = s, !.assigned = b, !.updated = n] \in TaskRow
  BY DEF TaskRow
<1>8. [r EXCEPT !.status = s, !.assigned = b, !.beat = n, !.updated = n] \in TaskRow
  BY <1>1 DEF TaskRow
<1>9. QED
  BY <1>2, <1>3, <1>4, <1>5, <1>6, <1>7, <1>8

\* Rows, requests and the sweeper keep their types.
THEOREM ChiasmTypeCorrect == ChiasmSpec => []ChiasmTypeOK
<1> USE ChiasmAssumption
<1>1. ChiasmInit => ChiasmTypeOK
  BY NoCallIdle, NoSweepIdle DEF ChiasmInit, ChiasmTypeOK, NoTask, NoBeat, TaskStatus
<1>2. ChiasmTypeOK /\ [ChiasmNext]_chiasmVars => ChiasmTypeOK'
  <2> SUFFICES ASSUME ChiasmTypeOK, [ChiasmNext]_chiasmVars PROVE ChiasmTypeOK'
    OBVIOUS
  <2>0. /\ task \in [Task -> TaskRow] /\ clock \in 0..MaxClock /\ calls \in 0..MaxCalls
        /\ until \in [Task -> Nat] /\ handed \in [Task -> Nat]
    BY DEF ChiasmTypeOK, TaskRow
  <2>A. ASSUME task' \in [Task -> TaskRow], until' \in [Task -> Nat], handed' \in [Task -> Nat],
               excused' \subseteq Task, calls' \in 0..MaxCalls, clock' \in 0..MaxClock,
               call' \in [Agent -> [pc : {"idle", "refresh"}, task : Task]],
               sweep' \in [pc : {"idle", "mark", "release"}, todo : SUBSET Task, task : Task]
        PROVE  ChiasmTypeOK'
    BY <2>A DEF ChiasmTypeOK, TaskRow
  <2>B. Called => calls' \in 0..MaxCalls
    BY <2>0 DEF Called
  <2>C. /\ call \in [Agent -> [pc : {"idle", "refresh"}, task : Task]] /\ excused \subseteq Task
        /\ sweep \in [pc : {"idle", "mark", "release"}, todo : SUBSET Task, task : Task]
    BY DEF ChiasmTypeOK
  \* A row is set, claims and requests are as they were.
  <2>D. ASSUME NEW t \in Task, NEW r \in TaskRow, task' = [task EXCEPT ![t] = r], Called,
               UNCHANGED <<call, sweep, clock>>, until' \in [Task -> Nat],
               handed' \in [Task -> Nat], excused' \subseteq Task
        PROVE  ChiasmTypeOK'
    <3>1. task' \in [Task -> TaskRow]
      BY <2>0, <2>D
    <3>2. QED
      BY <2>0, <2>A, <2>B, <2>C, <2>D, <3>1
  <2>1. ASSUME NEW t \in Task, NEW s \in {"active", "queued"}, create_task(t, s) PROVE ChiasmTypeOK'
    <3>1. s \in TaskStatus
      BY DEF TaskStatus
    <3>2. [NoTask EXCEPT !.status = s, !.updated = clock] \in TaskRow
      BY <2>0, <3>1, TaskUpdates
    <3>3. QED
      BY <2>0, <2>1, <2>C, <2>D, <3>2 DEF create_task
  <2>2. ASSUME NEW t \in Task, enqueue_task(t) PROVE ChiasmTypeOK'
    <3>1. "queued" \in TaskStatus
      BY DEF TaskStatus
    <3>2. [NoTask EXCEPT !.status = "queued", !.assigned = FALSE, !.updated = clock] \in TaskRow
      BY <2>0, <3>1, TaskUpdates
    <3>3. QED
      BY <2>0, <2>2, <2>C, <2>D, <3>2 DEF enqueue_task
  <2>3. ASSUME NEW t \in Task, claim_next_task(t) PROVE ChiasmTypeOK'
    <3> DEFINE r == [task[t] EXCEPT !.status = "active", !.assigned = TRUE, !.beat = clock, !.updated = clock]
    <3>1. "active" \in TaskStatus /\ task[t] \in TaskRow
      BY <2>0 DEF TaskStatus
    <3>2. r \in TaskRow
      BY <2>0, <3>1, TaskUpdates
    <3>3. task' = [task EXCEPT ![t] = r]
      BY <2>0, <2>3, <3>1 DEF claim_next_task
    <3>4. handed' \in [Task -> Nat]
      BY <2>0, <2>3 DEF claim_next_task
    <3> HIDE DEF r
    <3>5. QED
      BY <2>0, <2>3, <2>C, <2>D, <3>2, <3>3, <3>4 DEF claim_next_task
  <2>4. ASSUME NEW t \in Task, NEW s \in {"active", "completed", "stale", "queued"}, update_task(t, s)
        PROVE  ChiasmTypeOK'
    <3> DEFINE r == [task[t] EXCEPT !.status = s, !.updated = clock]
    <3>1. s \in TaskStatus /\ task[t] \in TaskRow
      BY <2>0 DEF TaskStatus
    <3>2. r \in TaskRow
      BY <2>0, <3>1, TaskUpdates
    <3>3. task' = [task EXCEPT ![t] = r]
      BY <2>0, <2>4, <3>1 DEF update_task
    <3>4. excused' \subseteq Task
      BY <2>4, <2>C DEF update_task
    <3> HIDE DEF r
    <3>5. QED
      BY <2>0, <2>4, <2>C, <2>D, <3>2, <3>3, <3>4 DEF update_task
  <2>5. ASSUME NEW t \in Task, submit_output(t) PROVE ChiasmTypeOK'
    <3> DEFINE r == [task[t] EXCEPT !.updated = clock]
    <3>1. task[t] \in TaskRow
      BY <2>0
    <3>2. r \in TaskRow
      BY <2>0, <3>1, TaskUpdates DEF TaskStatus
    <3>3. task' = [task EXCEPT ![t] = r]
      BY <2>0, <2>5, <3>1 DEF submit_output
    <3> HIDE DEF r
    <3>4. QED
      BY <2>0, <2>5, <2>C, <2>D, <3>2, <3>3 DEF submit_output
  <2>6. ASSUME NEW t \in Task, delete_task(t) PROVE ChiasmTypeOK'
    <3> DEFINE r == [task[t] EXCEPT !.status = "deleted"]
    <3>1. task[t] \in TaskRow /\ "deleted" \in TaskStatus
      BY <2>0 DEF TaskStatus
    <3>2. r \in TaskRow
      BY <2>0, <3>1, TaskUpdates
    <3>3. task' = [task EXCEPT ![t] = r]
      BY <2>0, <2>6, <3>1 DEF delete_task
    <3>4. until' \in [Task -> Nat]
      BY <2>0, <2>6 DEF delete_task
    <3> HIDE DEF r
    <3>5. QED
      BY <2>0, <2>6, <2>C, <2>D, <3>2, <3>3, <3>4 DEF delete_task
  <2>7. ASSUME NEW t \in Task, create_claims(t) PROVE ChiasmTypeOK'
    <3>1. Later(until[t], clock + ClaimTtl) \in Nat
      BY <2>0 DEF Later
    <3>2. until' \in [Task -> Nat] /\ excused' \subseteq Task
      BY <2>0, <2>7, <2>C, <3>1 DEF create_claims
    <3>3. QED
      BY <2>0, <2>7, <2>A, <2>B, <2>C, <3>2 DEF create_claims
  <2>8. ASSUME NEW t \in Task, release_claims(t) PROVE ChiasmTypeOK'
    <3>1. until' \in [Task -> Nat]
      BY <2>0, <2>8 DEF release_claims
    <3>2. QED
      BY <2>0, <2>8, <2>A, <2>B, <2>C, <3>1 DEF release_claims
  <2>9. ASSUME NEW a \in Agent, NEW t \in Task, record_heartbeat(a, t) PROVE ChiasmTypeOK'
    <3> DEFINE r == [task[t] EXCEPT !.beat = clock, !.updated = clock]
    <3>1. task[t] \in TaskRow
      BY <2>0
    <3>2. r \in TaskRow
      BY <2>0, <3>1, TaskUpdates DEF TaskStatus
    <3>3. task' = [task EXCEPT ![t] = r]
      BY <2>0, <2>9, <3>1 DEF record_heartbeat
    <3>4. call' \in [Agent -> [pc : {"idle", "refresh"}, task : Task]]
      BY <2>9, <2>C, NoCallIdle DEF record_heartbeat
    <3> HIDE DEF r
    <3>5. task' \in [Task -> TaskRow]
      BY <2>0, <3>2, <3>3
    <3>6. QED
      BY <2>0, <2>9, <2>A, <2>B, <2>C, <3>4, <3>5 DEF record_heartbeat
  <2>10. ASSUME NEW a \in Agent, refresh_claims(a) PROVE ChiasmTypeOK'
    <3>1. call[a].task \in Task /\ until[call[a].task] \in Nat /\ Refreshed(call[a].task) \in Nat
      BY <2>0, <2>C DEF Refreshed
    <3>2. until' \in [Task -> Nat]
      BY <2>0, <2>10, <3>1 DEF refresh_claims
    <3>3. call' \in [Agent -> [pc : {"idle", "refresh"}, task : Task]]
      BY <2>10, <2>C, NoCallIdle DEF refresh_claims
    <3>4. QED
      BY <2>0, <2>10, <2>A, <2>C, <3>2, <3>3 DEF refresh_claims
  <2>11. CASE mark_stale_tasks
    <3>1. sweep' \in [pc : {"idle", "mark", "release"}, todo : SUBSET Task, task : Task]
      BY <2>11, NoSweepIdle DEF mark_stale_tasks
    <3>2. QED
      BY <2>0, <2>11, <2>A, <2>C, <3>1 DEF mark_stale_tasks
  <2>12. ASSUME NEW t \in Task, mark_stale(t) PROVE ChiasmTypeOK'
    <3> DEFINE r == [task[t] EXCEPT !.status = "stale", !.updated = clock]
    <3>1. task[t] \in TaskRow /\ "stale" \in TaskStatus
      BY <2>0 DEF TaskStatus
    <3>2. r \in TaskRow
      BY <2>0, <3>1, TaskUpdates
    <3>3. task' = [task EXCEPT ![t] = r] \/ task' = task
      BY <2>0, <2>12, <3>1 DEF mark_stale
    <3>4. sweep' \in [pc : {"idle", "mark", "release"}, todo : SUBSET Task, task : Task]
      <4>1. \/ sweep' = [sweep EXCEPT !.pc = "release", !.todo = @ \ {t}, !.task = t]
            \/ sweep' = [sweep EXCEPT !.todo = @ \ {t}]
        BY <2>12 DEF mark_stale
      <4>2. QED
        BY <2>C, <4>1
    <3>5. excused' \subseteq Task
      BY <2>12, <2>C DEF mark_stale
    <3> HIDE DEF r
    <3>6. task' \in [Task -> TaskRow]
      BY <2>0, <3>2, <3>3
    <3>7. QED
      BY <2>0, <2>12, <2>A, <2>C, <3>4, <3>5, <3>6 DEF mark_stale
  <2>13. CASE sweep_release \/ sweep_release_fails
    <3>1. sweep' \in [pc : {"idle", "mark", "release"}, todo : SUBSET Task, task : Task]
      BY <2>13, <2>C DEF sweep_release, sweep_release_fails
    <3>2. until' \in [Task -> Nat] /\ excused' \subseteq Task
      BY <2>0, <2>13, <2>C DEF sweep_release, sweep_release_fails
    <3>3. QED
      BY <2>0, <2>13, <2>A, <2>C, <3>1, <3>2 DEF sweep_release, sweep_release_fails
  <2>14. CASE sweep_done
    BY <2>0, <2>14, <2>A, <2>C, NoSweepIdle DEF sweep_done
  <2>15. CASE ChiasmTick \/ UNCHANGED chiasmVars
    BY <2>0, <2>15, <2>A, <2>C DEF ChiasmTick, chiasmVars
  <2>16. QED
    BY <2>1, <2>2, <2>3, <2>4, <2>5, <2>6, <2>7, <2>8, <2>9, <2>10, <2>11, <2>12, <2>13, <2>14, <2>15
       DEF ChiasmNext
<1>3. QED
  BY <1>1, <1>2, PTL DEF ChiasmSpec
-----------------------------------------------------------------------------
(* The queue. *)

\* A task that was handed out is assigned for good: no statement takes that back.
HandedOutIsAssigned ==
    \A t \in Task : /\ handed[t] <= 1
                    /\ handed[t] > 0 => task[t].assigned /\ task[t].status # "none"

\* claim_next_task hands every task out at most once, whatever statuses it goes through.
THEOREM TasksHandedOutOnce == ChiasmSpec => []HandedOutOnce
<1> USE ChiasmAssumption
<1>1. ChiasmInit => HandedOutIsAssigned
  <2>1. ASSUME ChiasmInit, NEW t \in Task PROVE handed[t] <= 1 /\ ~(handed[t] > 0)
    BY <2>1 DEF ChiasmInit
  <2>2. QED
    BY <2>1, Zenon DEF HandedOutIsAssigned
<1>2. ChiasmTypeOK /\ HandedOutIsAssigned /\ [ChiasmNext]_chiasmVars => HandedOutIsAssigned'
  <2> SUFFICES ASSUME ChiasmTypeOK, HandedOutIsAssigned, [ChiasmNext]_chiasmVars
               PROVE  HandedOutIsAssigned'
    OBVIOUS
  <2>0. /\ handed \in [Task -> Nat]
        /\ task \in [Task -> [status : TaskStatus, assigned : BOOLEAN,
                              beat : NoBeat..MaxClock, updated : 0..MaxClock]]
    BY DEF ChiasmTypeOK
  \* A step that keeps what is assigned, and removes no row, keeps the invariant.
  <2>A. ASSUME handed' = handed,
               \A t \in Task : task[t].status # "none" /\ task[t].assigned
                                 => task'[t].status # "none" /\ task'[t].assigned
        PROVE  HandedOutIsAssigned'
    BY <2>A DEF HandedOutIsAssigned
  <2>1. ASSUME NEW t \in Task, NEW s \in {"active", "queued"}, create_task(t, s)
        PROVE  HandedOutIsAssigned'
    BY <2>0, <2>1, <2>A DEF create_task
  <2>2. ASSUME NEW t \in Task, enqueue_task(t) PROVE HandedOutIsAssigned'
    BY <2>0, <2>2, <2>A DEF enqueue_task
  <2>3. ASSUME NEW t \in Task, claim_next_task(t) PROVE HandedOutIsAssigned'
    <3>1. handed[t] = 0 /\ ~task[t].assigned
      BY <2>0, <2>3 DEF claim_next_task, Available, HandedOutIsAssigned
    <3>2. task'[t].status = "active" /\ task'[t].assigned /\ handed'[t] = 1
      BY <2>0, <2>3, <3>1 DEF claim_next_task
    <3>3. \A u \in Task \ {t} : task'[u] = task[u] /\ handed'[u] = handed[u]
      BY <2>0, <2>3 DEF claim_next_task
    <3>4. QED
      BY <3>2, <3>3 DEF HandedOutIsAssigned
  <2>4. ASSUME NEW t \in Task, NEW s \in {"active", "completed", "stale", "queued"}, update_task(t, s)
        PROVE  HandedOutIsAssigned'
    BY <2>0, <2>4, <2>A DEF update_task
  <2>5. ASSUME NEW t \in Task, submit_output(t) PROVE HandedOutIsAssigned'
    BY <2>0, <2>5, <2>A DEF submit_output
  <2>6. ASSUME NEW t \in Task, delete_task(t) PROVE HandedOutIsAssigned'
    BY <2>0, <2>6, <2>A DEF delete_task
  <2>7. ASSUME NEW t \in Task, create_claims(t) \/ release_claims(t) PROVE HandedOutIsAssigned'
    BY <2>7, <2>A DEF create_claims, release_claims
  <2>8. ASSUME NEW a \in Agent, NEW t \in Task, record_heartbeat(a, t) PROVE HandedOutIsAssigned'
    BY <2>0, <2>8, <2>A DEF record_heartbeat
  <2>9. ASSUME NEW a \in Agent, refresh_claims(a) PROVE HandedOutIsAssigned'
    BY <2>9, <2>A DEF refresh_claims
  <2>10. ASSUME NEW t \in Task, mark_stale(t) PROVE HandedOutIsAssigned'
    BY <2>0, <2>10, <2>A DEF mark_stale
  <2>11. CASE \/ mark_stale_tasks \/ sweep_release \/ sweep_release_fails \/ sweep_done
              \/ ChiasmTick \/ UNCHANGED chiasmVars
    BY <2>11, <2>A DEF mark_stale_tasks, sweep_release, sweep_release_fails, sweep_done, ChiasmTick,
                       chiasmVars
  <2>12. QED
    BY <2>1, <2>2, <2>3, <2>4, <2>5, <2>6, <2>7, <2>8, <2>9, <2>10, <2>11 DEF ChiasmNext
<1>3. HandedOutIsAssigned => HandedOutOnce
  BY DEF HandedOutIsAssigned, HandedOutOnce
<1>4. QED
  BY <1>1, <1>2, <1>3, ChiasmTypeCorrect, PTL DEF ChiasmSpec
-----------------------------------------------------------------------------
(* The sweep. *)

\* A task the sweep made stale holds no path claim: a heartbeat that was recorded before,
\* and refreshes the claims after, does not bring them back.
THEOREM StaleTasksHoldNoClaims == ChiasmSpec => []StaleHoldsNoClaims
<1> USE ChiasmAssumption
<1>1. ChiasmInit => StaleHoldsNoClaims
  BY DEF ChiasmInit, StaleHoldsNoClaims
<1>2. ChiasmTypeOK /\ StaleHoldsNoClaims /\ [ChiasmNext]_chiasmVars => StaleHoldsNoClaims'
  <2> SUFFICES ASSUME ChiasmTypeOK, StaleHoldsNoClaims, [ChiasmNext]_chiasmVars
               PROVE  StaleHoldsNoClaims'
    OBVIOUS
  <2>0. /\ until \in [Task -> Nat] /\ clock \in 0..MaxClock
        /\ task \in [Task -> [status : TaskStatus, assigned : BOOLEAN,
                              beat : NoBeat..MaxClock, updated : 0..MaxClock]]
        /\ sweep \in [pc : {"idle", "mark", "release"}, todo : SUBSET Task, task : Task]
        /\ call \in [Agent -> [pc : {"idle", "refresh"}, task : Task]]
    BY DEF ChiasmTypeOK
  \* A step that makes no task stale, sets no claim of a stale task and leaves the sweep alone.
  <2>A. ASSUME sweep' = sweep, excused \subseteq excused',
               \A t \in Task : t \notin excused' /\ task'[t].status = "stale" => task[t].status = "stale",
               \A t \in Task : t \notin excused' /\ task[t].status = "stale" /\ until[t] = 0 => until'[t] = 0
        PROVE  StaleHoldsNoClaims'
    BY <2>A DEF StaleHoldsNoClaims
  <2>1. ASSUME NEW t \in Task, NEW s \in {"active", "queued"}, create_task(t, s)
        PROVE  StaleHoldsNoClaims'
    BY <2>0, <2>1, <2>A DEF create_task, NoTask
  <2>2. ASSUME NEW t \in Task, enqueue_task(t) PROVE StaleHoldsNoClaims'
    BY <2>0, <2>2, <2>A DEF enqueue_task, NoTask
  <2>3. ASSUME NEW t \in Task, claim_next_task(t) PROVE StaleHoldsNoClaims'
    BY <2>0, <2>3, <2>A DEF claim_next_task
  <2>4. ASSUME NEW t \in Task, NEW s \in {"active", "completed", "stale", "queued"}, update_task(t, s)
        PROVE  StaleHoldsNoClaims'
    <3>1. \A u \in Task : u \notin excused' /\ task'[u].status = "stale" => task[u].status = "stale"
      BY <2>0, <2>4 DEF update_task
    <3>2. QED
      BY <2>4, <2>A, <3>1 DEF update_task
  <2>5. ASSUME NEW t \in Task, submit_output(t) PROVE StaleHoldsNoClaims'
    BY <2>0, <2>5, <2>A DEF submit_output
  <2>6. ASSUME NEW t \in Task, delete_task(t) PROVE StaleHoldsNoClaims'
    BY <2>0, <2>6, <2>A DEF delete_task
  <2>7. ASSUME NEW t \in Task, create_claims(t) PROVE StaleHoldsNoClaims'
    BY <2>0, <2>7, <2>A DEF create_claims
  <2>8. ASSUME NEW t \in Task, release_claims(t) PROVE StaleHoldsNoClaims'
    BY <2>0, <2>8, <2>A DEF release_claims
  <2>9. ASSUME NEW a \in Agent, NEW t \in Task, record_heartbeat(a, t) PROVE StaleHoldsNoClaims'
    BY <2>0, <2>9, <2>A DEF record_heartbeat
  <2>10. ASSUME NEW a \in Agent, refresh_claims(a) PROVE StaleHoldsNoClaims'
    <3>1. \A u \in Task : until[u] = 0 => until'[u] = 0
      BY <2>0, <2>10 DEF refresh_claims, Refreshed
    <3>2. QED
      BY <2>10, <2>A, <3>1 DEF refresh_claims
  <2>11. CASE mark_stale_tasks
    BY <2>0, <2>11 DEF mark_stale_tasks, StaleHoldsNoClaims
  <2>12. ASSUME NEW t \in Task, mark_stale(t) PROVE StaleHoldsNoClaims'
    <3>1. CASE IsStale(t)
      <4>1. sweep'.pc = "release" /\ sweep'.task = t
        BY <2>0, <2>12, <3>1 DEF mark_stale
      <4>2. sweep.pc = "mark" /\ until' = until /\ excused' = excused \ {t}
        BY <2>12, <3>1 DEF mark_stale
      <4>3. \A u \in Task \ {t} : task'[u] = task[u]
        BY <2>0, <2>12, <3>1 DEF mark_stale
      <4>4. QED
        BY <4>1, <4>2, <4>3 DEF StaleHoldsNoClaims
    <3>2. CASE ~IsStale(t)
      <4>1. sweep'.pc = "mark" /\ sweep.pc = "mark" /\ UNCHANGED <<task, until, excused>>
        BY <2>0, <2>12, <3>2 DEF mark_stale
      <4>2. QED
        BY <4>1 DEF StaleHoldsNoClaims
    <3>3. QED
      BY <3>1, <3>2
  <2>13. CASE sweep_release
    BY <2>0, <2>13 DEF sweep_release, StaleHoldsNoClaims
  <2>14. CASE sweep_release_fails
    BY <2>0, <2>14 DEF sweep_release_fails, StaleHoldsNoClaims
  <2>15. CASE sweep_done
    BY <2>0, <2>15, NoSweepIdle DEF sweep_done, StaleHoldsNoClaims
  <2>16. CASE ChiasmTick \/ UNCHANGED chiasmVars
    BY <2>16 DEF ChiasmTick, chiasmVars, StaleHoldsNoClaims
  <2>17. QED
    BY <2>1, <2>2, <2>3, <2>4, <2>5, <2>6, <2>7, <2>8, <2>9, <2>10, <2>11, <2>12, <2>13, <2>14,
       <2>15, <2>16 DEF ChiasmNext
<1>3. QED
  BY <1>1, <1>2, ChiasmTypeCorrect, PTL DEF ChiasmSpec
-----------------------------------------------------------------------------
(* The dependency graph. *)

\* Reach is the least set that holds the node and is closed.
LEMMA ReachIsLeast ==
    ASSUME NEW E, E \subseteq Node \X Node, NEW d \in Node
    PROVE  /\ d \in ReachIn(E, d) /\ ReachIn(E, d) \subseteq Node
           /\ ClosedIn(E, ReachIn(E, d))
           /\ \A S \in SUBSET Node : d \in S /\ ClosedIn(E, S) => ReachIn(E, d) \subseteq S
<1>1. d \in ReachIn(E, d) /\ ReachIn(E, d) \subseteq Node
  BY DEF ReachIn
<1>2. ASSUME NEW e \in E, e[1] \in ReachIn(E, d) PROVE e[2] \in ReachIn(E, d)
  <2>1. e[2] \in Node
    OBVIOUS
  <2>2. ASSUME NEW S \in SUBSET Node, d \in S, ClosedIn(E, S) PROVE e[2] \in S
    BY <1>2, <2>2 DEF ReachIn, ClosedIn
  <2>3. QED
    BY <2>1, <2>2 DEF ReachIn
<1>3. \A S \in SUBSET Node : d \in S /\ ClosedIn(E, S) => ReachIn(E, d) \subseteq S
  BY DEF ReachIn
<1>4. QED
  BY <1>1, <1>2, <1>3 DEF ClosedIn

\* Fewer edges lead to fewer nodes.
LEMMA ReachShrinks ==
    ASSUME NEW E, E \subseteq Node \X Node, NEW F, F \subseteq E, NEW d \in Node
    PROVE  ReachIn(F, d) \subseteq ReachIn(E, d)
<1>1. ClosedIn(F, ReachIn(E, d)) /\ d \in ReachIn(E, d) /\ ReachIn(E, d) \in SUBSET Node
  BY ReachIsLeast DEF ClosedIn
<1>2. F \subseteq Node \X Node
  OBVIOUS
<1>3. QED
  BY <1>1, <1>2, ReachIsLeast

LEMMA FewerEdgesStayAcyclic ==
    ASSUME NEW E, E \subseteq Node \X Node, NEW F, F \subseteq E, AcyclicIn(E)
    PROVE  AcyclicIn(F)
<1>1. ASSUME NEW e \in F PROVE e[1] \notin ReachIn(F, e[2])
  <2>1. e \in E /\ e[2] \in Node
    OBVIOUS
  <2>2. ReachIn(F, e[2]) \subseteq ReachIn(E, e[2])
    BY <2>1, ReachShrinks
  <2>3. QED
    BY <2>1, <2>2 DEF AcyclicIn
<1>2. QED
  BY <1>1 DEF AcyclicIn

\* New edges from t change nothing for a node that does not lead to t.
LEMMA OutOfReach ==
    ASSUME NEW E, E \subseteq Node \X Node, NEW F, F \subseteq Node \X Node, NEW t,
           \A e \in F : e \in E \/ e[1] = t, NEW b \in Node, t \notin ReachIn(E, b)
    PROVE  ReachIn(F, b) \subseteq ReachIn(E, b)
<1>1. b \in ReachIn(E, b) /\ ReachIn(E, b) \in SUBSET Node /\ ClosedIn(E, ReachIn(E, b))
  BY ReachIsLeast
<1>2. ClosedIn(F, ReachIn(E, b))
  BY <1>1 DEF ClosedIn
<1>3. QED
  BY <1>1, <1>2, ReachIsLeast

\* Edges from one node to nodes that do not lead back to it close no cycle, also when
\* there are several: none of the new edges is on a path from a target.
LEMMA SafeInsertion ==
    ASSUME NEW E, E \subseteq Node \X Node, AcyclicIn(E), NEW t \in Node, NEW D \in SUBSET Node,
           \A d \in D : t \notin ReachIn(E, d)
    PROVE  AcyclicIn(E \cup {<<t, d>> : d \in D})
<1> DEFINE F == E \cup {<<t, d>> : d \in D}
<1>0. F \subseteq Node \X Node /\ \A e \in F : e \in E \/ (e[1] = t /\ e[2] \in D)
  OBVIOUS
<1> HIDE DEF F
<1>1. ASSUME NEW b \in Node, t \notin ReachIn(E, b) PROVE ReachIn(F, b) \subseteq ReachIn(E, b)
  BY <1>0, <1>1, OutOfReach
\* From any node they lead at most to what the targets lead to.
<1>2. ASSUME NEW b \in Node PROVE ReachIn(F, b) \subseteq ReachIn(E, b) \cup UNION {ReachIn(E, d) : d \in D}
  <2> DEFINE S == ReachIn(E, b) \cup UNION {ReachIn(E, d) : d \in D}
  <2>1. b \in ReachIn(E, b) /\ ReachIn(E, b) \in SUBSET Node /\ ClosedIn(E, ReachIn(E, b))
    BY ReachIsLeast
  <2>2. \A d \in D : d \in ReachIn(E, d) /\ ReachIn(E, d) \in SUBSET Node /\ ClosedIn(E, ReachIn(E, d))
    BY ReachIsLeast
  <2>3. S \in SUBSET Node /\ b \in S /\ \A d \in D : d \in S
    BY <2>1, <2>2
  <2>4. ASSUME NEW e \in F, e[1] \in S PROVE e[2] \in S
    <3>1. CASE e[1] = t /\ e[2] \in D
      BY <2>3, <3>1
    <3>2. CASE e \in E /\ e[1] \in ReachIn(E, b)
      BY <2>1, <3>2 DEF ClosedIn
    <3>3. CASE e \in E /\ \E d \in D : e[1] \in ReachIn(E, d)
      BY <2>2, <3>3 DEF ClosedIn
    <3>4. QED
      BY <1>0, <2>4, <3>1, <3>2, <3>3
  <2>5. ClosedIn(F, S)
    BY <2>4 DEF ClosedIn
  <2> HIDE DEF S
  <2>6. ReachIn(F, b) \subseteq S
    BY <1>0, <2>3, <2>5, ReachIsLeast
  <2>7. QED
    BY <2>6 DEF S
<1>3. ASSUME NEW e \in F PROVE e[1] \notin ReachIn(F, e[2])
  <2>0. e[1] \in Node /\ e[2] \in Node
    BY <1>0
  <2>1. CASE e[1] = t /\ e[2] \in D
    BY <1>1, <2>0, <2>1
  <2>2. CASE e \in E /\ t \notin ReachIn(E, e[2])
    BY <1>1, <2>0, <2>2 DEF AcyclicIn
  <2>3. CASE e \in E /\ t \in ReachIn(E, e[2])
    \* Were the edge's source behind a target, then so would be its end, and t.
    <3>1. ASSUME NEW d \in D, e[1] \in ReachIn(E, d) PROVE FALSE
      <4>1. e[2] \in ReachIn(E, d) /\ ReachIn(E, d) \in SUBSET Node /\ ClosedIn(E, ReachIn(E, d))
        BY <2>3, <3>1, ReachIsLeast DEF ClosedIn
      <4>2. ReachIn(E, e[2]) \subseteq ReachIn(E, d)
        BY <2>0, <4>1, ReachIsLeast
      <4>3. QED
        BY <2>3, <4>2
    <3>2. e[1] \notin ReachIn(E, e[2])
      BY <2>3 DEF AcyclicIn
    <3>3. QED
      BY <1>2, <2>0, <3>1, <3>2
  <2>4. QED
    BY <1>0, <2>1, <2>2, <2>3
<1>4. QED
  BY <1>3 DEF AcyclicIn, F
-----------------------------------------------------------------------------
AddRow == [pc : {"idle", "add", "search"}, task : Node, deps : SUBSET Node, checked : SUBSET Node,
           target : Node, queue : SUBSET Node, visited : SUBSET Node]

LEMMA NoAddIdle ==
    /\ NoAdd \in AddRow /\ NoAdd.pc = "idle" /\ NoAdd.checked = {} /\ AnyNode \in Node
  BY DependenciesAssumption DEF NoAdd, AnyNode, AddRow

\* What a request's record is after each of its steps.
Opening(t, deps) == [NoAdd EXCEPT !.pc = "add", !.task = t, !.deps = deps]
Seeking(q, d) == [q EXCEPT !.pc = "search", !.target = d, !.queue = {d}, !.visited = {}]
Turned(q, c) ==
    [q EXCEPT !.queue = (@ \ {c}) \cup IF c \in q.visited THEN {} ELSE Successors(c),
              !.visited = @ \cup {c}]
Found(q) == [q EXCEPT !.pc = "add", !.checked = @ \cup {q.target}, !.target = AnyNode, !.visited = {}]
Inserted(q, d) == IF q.deps = {d} THEN NoAdd ELSE [q EXCEPT !.deps = @ \ {d}]

LEMMA TurnOfSearch ==
    ASSUME NEW q \in AddRow, NEW d \in Node, edges \subseteq Node \X Node
    PROVE  /\ Turned(q, d) \in AddRow /\ Turned(q, d).pc = q.pc
           /\ Turned(q, d).task = q.task /\ Turned(q, d).checked = q.checked
           /\ Turned(q, d).target = q.target /\ Turned(q, d).visited = q.visited \cup {d}
           /\ Turned(q, d).queue
                = (q.queue \ {d}) \cup IF d \in q.visited THEN {} ELSE Successors(d)
<1>1. Successors(d) \subseteq Node
  BY DEF Successors
<1>2. QED
  BY <1>1 DEF Turned, AddRow

LEMMA RecordSteps ==
    ASSUME NEW q \in AddRow, NEW d \in Node, NEW deps \in SUBSET Node, edges \subseteq Node \X Node
    PROVE  /\ Opening(d, deps) \in AddRow /\ Opening(d, deps).pc = "add" /\ Opening(d, deps).checked = {}
           /\ Seeking(q, d) \in AddRow /\ Seeking(q, d).pc = "search"
           /\ Seeking(q, d).task = q.task /\ Seeking(q, d).checked = q.checked
           /\ Seeking(q, d).target = d /\ Seeking(q, d).queue = {d} /\ Seeking(q, d).visited = {}
           /\ Turned(q, d) \in AddRow /\ Turned(q, d).pc = q.pc
           /\ Turned(q, d).task = q.task /\ Turned(q, d).checked = q.checked
           /\ Turned(q, d).target = q.target /\ Turned(q, d).visited = q.visited \cup {d}
           /\ Turned(q, d).queue
                = (q.queue \ {d}) \cup IF d \in q.visited THEN {} ELSE Successors(d)
           /\ Found(q) \in AddRow /\ Found(q).pc = "add"
           /\ Found(q).task = q.task /\ Found(q).checked = q.checked \cup {q.target}
           /\ Inserted(q, d) \in AddRow
           /\ q.deps = {d} => Inserted(q, d) = NoAdd
           /\ q.deps # {d} => /\ Inserted(q, d).pc = q.pc /\ Inserted(q, d).task = q.task
                              /\ Inserted(q, d).checked = q.checked
<1>1. Opening(d, deps) \in AddRow /\ Opening(d, deps).pc = "add" /\ Opening(d, deps).checked = {}
  BY NoAddIdle DEF Opening, AddRow
<1>2. /\ Seeking(q, d) \in AddRow /\ Seeking(q, d).pc = "search"
      /\ Seeking(q, d).task = q.task /\ Seeking(q, d).checked = q.checked
      /\ Seeking(q, d).target = d /\ Seeking(q, d).queue = {d} /\ Seeking(q, d).visited = {}
  BY DEF Seeking, AddRow
<1>3. /\ Turned(q, d) \in AddRow /\ Turned(q, d).pc = q.pc
      /\ Turned(q, d).task = q.task /\ Turned(q, d).checked = q.checked
      /\ Turned(q, d).target = q.target /\ Turned(q, d).visited = q.visited \cup {d}
      /\ Turned(q, d).queue = (q.queue \ {d}) \cup IF d \in q.visited THEN {} ELSE Successors(d)
  BY TurnOfSearch
<1>4. /\ Found(q) \in AddRow /\ Found(q).pc = "add"
      /\ Found(q).task = q.task /\ Found(q).checked = q.checked \cup {q.target}
  BY NoAddIdle DEF Found, AddRow
<1>5. /\ Inserted(q, d) \in AddRow
      /\ q.deps = {d} => Inserted(q, d) = NoAdd
      /\ q.deps # {d} => /\ Inserted(q, d).pc = q.pc /\ Inserted(q, d).task = q.task
                         /\ Inserted(q, d).checked = q.checked
  BY NoAddIdle DEF Inserted, AddRow
<1>6. QED
  BY <1>1, <1>2, <1>3, <1>4, <1>5

\* What a request's step does to the requests: to its own record, and to no other.
LEMMA RequestSteps ==
    ASSUME adder \in [Adder -> AddRow], edges \subseteq Node \X Node, NEW a \in Adder
    PROVE  /\ \A t \in Node, deps \in SUBSET Node :
                  add_dependencies(a, t, deps) => adder' = [adder EXCEPT ![a] = Opening(t, deps)]
           /\ Refused(a) => adder' = [adder EXCEPT ![a] = NoAdd]
           /\ \A d \in Node : owns_target(a, d) /\ ~Refused(a)
                  => adder' = [adder EXCEPT ![a] = Seeking(adder[a], d)]
           /\ \A c \in Node : has_circular_dependency(a, c) /\ ~Refused(a)
                  => adder' = [adder EXCEPT ![a] = Turned(adder[a], c)]
           /\ SearchEnds(a) => adder' = [adder EXCEPT ![a] = Found(adder[a])]
           /\ \A d \in Node : insert_dependency(a, d) /\ ~Refused(a)
                  => adder' = [adder EXCEPT ![a] = Inserted(adder[a], d)]
<1>1. \A t \in Node, deps \in SUBSET Node :
          add_dependencies(a, t, deps) => adder' = [adder EXCEPT ![a] = Opening(t, deps)]
  BY DEF add_dependencies, Opening
<1>2. Refused(a) => adder' = [adder EXCEPT ![a] = NoAdd]
  BY DEF Refused
<1>3. \A d \in Node : owns_target(a, d) /\ ~Refused(a)
          => adder' = [adder EXCEPT ![a] = Seeking(adder[a], d)]
  BY DEF owns_target, Seeking, AddRow
<1>4. \A c \in Node : has_circular_dependency(a, c) /\ ~Refused(a)
          => adder' = [adder EXCEPT ![a] = Turned(adder[a], c)]
  BY DEF has_circular_dependency, Turned, AddRow
<1>5. SearchEnds(a) => adder' = [adder EXCEPT ![a] = Found(adder[a])]
  BY DEF SearchEnds, Found, AddRow
<1>6. \A d \in Node : insert_dependency(a, d) /\ ~Refused(a)
          => adder' = [adder EXCEPT ![a] = Inserted(adder[a], d)]
  BY DEF insert_dependency, Inserted
<1>7. QED
  BY <1>1, <1>2, <1>3, <1>4, <1>5, <1>6

\* The table and the requests keep their types, and the foreign keys hold.
THEOREM DependenciesTypeCorrect == DependenciesSpec => []DependenciesTypeOK
<1>1. DependenciesInit => DependenciesTypeOK
  BY NoAddIdle, DependenciesAssumption DEF DependenciesInit, DependenciesTypeOK, AddRow
<1>2. DependenciesTypeOK /\ [DependenciesNext]_dependenciesVars => DependenciesTypeOK'
  <2> SUFFICES ASSUME DependenciesTypeOK, [DependenciesNext]_dependenciesVars
               PROVE  DependenciesTypeOK'
    OBVIOUS
  <2>0. /\ exists \subseteq Node /\ edges \subseteq exists \X exists /\ adder \in [Adder -> AddRow]
        /\ overtaken \subseteq Adder /\ loose \subseteq edges /\ adds \in 0..MaxAdds
    BY DEF DependenciesTypeOK, AddRow
  <2>00. edges \subseteq Node \X Node
    BY <2>0
  <2>A. ASSUME exists' \subseteq Node, edges' \subseteq exists' \X exists',
               adder' \in [Adder -> AddRow], overtaken' \subseteq Adder, loose' \subseteq edges',
               adds' \in 0..MaxAdds
        PROVE  DependenciesTypeOK'
    BY <2>A DEF DependenciesTypeOK, AddRow
  \* A request's own record changes.
  <2>B. ASSUME NEW a \in Adder, NEW q \in AddRow, adder' = [adder EXCEPT ![a] = q]
        PROVE  adder' \in [Adder -> AddRow]
    BY <2>0, <2>B
  <2>R. ASSUME NEW a \in Adder, Refused(a), UNCHANGED <<exists, edges, adds, loose>>
        PROVE  DependenciesTypeOK'
    <3>1. adder' \in [Adder -> AddRow]
      BY <2>B, <2>R, NoAddIdle DEF Refused
    <3>2. QED
      BY <2>0, <2>A, <2>R, <3>1 DEF Refused
  <2>1. ASSUME NEW a \in Adder, NEW t \in Node, NEW deps \in SUBSET Node \ {{}},
               add_dependencies(a, t, deps)
        PROVE  DependenciesTypeOK'
    <3>1. adder' \in [Adder -> AddRow]
      BY <2>0, <2>00, <2>1, <2>B, RequestSteps, RecordSteps, NoAddIdle
    <3>2. adds' \in 0..MaxAdds
      BY <2>0, <2>1, DependenciesAssumption DEF add_dependencies
    <3>3. QED
      BY <2>0, <2>1, <2>A, <3>1, <3>2 DEF add_dependencies
  <2>2. ASSUME NEW a \in Adder, NEW d \in Node, owns_target(a, d) PROVE DependenciesTypeOK'
    <3>0. UNCHANGED <<exists, edges, adds, loose>>
      BY <2>2 DEF owns_target
    <3>1. CASE Refused(a)
      BY <2>R, <3>0, <3>1
    <3>2. CASE ~Refused(a)
      <4>1. adder' = [adder EXCEPT ![a] = Seeking(adder[a], d)]
        BY <2>0, <2>00, <2>2, <3>2, RequestSteps
      <4>2. Seeking(adder[a], d) \in AddRow
        BY <2>0, <2>00, RecordSteps
      <4>3. overtaken' = overtaken
        BY <2>2, <3>2 DEF owns_target
      <4>4. QED
        BY <2>0, <2>A, <2>B, <3>0, <4>1, <4>2, <4>3
    <3>3. QED
      BY <3>1, <3>2
  <2>3. ASSUME NEW a \in Adder, NEW c \in Node, has_circular_dependency(a, c)
        PROVE  DependenciesTypeOK'
    <3>0. UNCHANGED <<exists, edges, adds, loose>>
      BY <2>3 DEF has_circular_dependency
    <3>1. CASE Refused(a)
      BY <2>R, <3>0, <3>1
    <3>2. CASE ~Refused(a)
      <4>1. adder' = [adder EXCEPT ![a] = Turned(adder[a], c)]
        BY <2>0, <2>00, <2>3, <3>2, RequestSteps
      <4>2. Turned(adder[a], c) \in AddRow
        BY <2>0, <2>00, RecordSteps
      <4>3. overtaken' = overtaken
        BY <2>3, <3>2 DEF has_circular_dependency
      <4>4. QED
        BY <2>0, <2>A, <2>B, <3>0, <4>1, <4>2, <4>3
    <3>3. QED
      BY <3>1, <3>2
  <2>4. ASSUME NEW a \in Adder, SearchEnds(a) PROVE DependenciesTypeOK'
    <3>1. adder' = [adder EXCEPT ![a] = Found(adder[a])]
      BY <2>0, <2>00, <2>4, RequestSteps
    <3>2. Found(adder[a]) \in AddRow
      BY <2>0, <2>00, NoAddIdle, RecordSteps
    <3>3. QED
      BY <2>0, <2>4, <2>A, <2>B, <3>1, <3>2 DEF SearchEnds
  <2>5. ASSUME NEW a \in Adder, NEW d \in Node, insert_dependency(a, d) PROVE DependenciesTypeOK'
    <3>0. UNCHANGED <<exists, adds>>
      BY <2>5 DEF insert_dependency
    <3>1. CASE Insertable(adder[a].task, d)
      <4> DEFINE new == {<<adder[a].task, d>>} \ edges
      <4>1. adder' = [adder EXCEPT ![a] = Inserted(adder[a], d)]
        BY <2>5, <3>1 DEF insert_dependency, Inserted
      <4>2. Inserted(adder[a], d) \in AddRow
        BY <2>0, <2>00, RecordSteps
      <4>3. edges' = edges \cup new /\ loose' \in {loose, loose \cup new}
        BY <2>5, <3>1 DEF insert_dependency
      <4>4. overtaken' \subseteq Adder
        BY <2>0, <2>5, <3>1 DEF insert_dependency
      <4>5. edges' \subseteq exists \X exists /\ loose' \subseteq edges'
        BY <2>0, <3>1, <4>3 DEF Insertable
      <4>6. QED
        BY <2>0, <2>A, <2>B, <3>0, <4>1, <4>2, <4>4, <4>5
    <3>2. CASE ~Insertable(adder[a].task, d)
      BY <2>5, <2>R, <3>0, <3>2 DEF insert_dependency
    <3>3. QED
      BY <3>1, <3>2
  <2>6. ASSUME NEW e \in edges, remove_dependency(e) PROVE DependenciesTypeOK'
    BY <2>0, <2>6, <2>A DEF remove_dependency
  <2>7. ASSUME NEW t \in exists, cascade_delete(t) PROVE DependenciesTypeOK'
    <3>1. edges' \subseteq exists' \X exists' /\ loose' \subseteq edges'
      BY <2>0, <2>7 DEF cascade_delete
    <3>2. QED
      BY <2>0, <2>7, <2>A, <3>1 DEF cascade_delete
  <2>8. CASE UNCHANGED dependenciesVars
    BY <2>0, <2>8, <2>A DEF dependenciesVars
  <2>9. QED
    BY <2>1, <2>2, <2>3, <2>4, <2>5, <2>6, <2>7, <2>8 DEF DependenciesNext
<1>3. QED
  BY <1>1, <1>2, PTL DEF DependenciesSpec

\* What a request that was not overtaken knows of the edges: no target it has checked leads to
\* its task, and the search under way has its target, has not met the task, and has taken note
\* of where the tasks it visited lead to.
KnowsIn(E, q) ==
    /\ \A d \in q.checked : q.task \notin ReachIn(E, d)
    /\ q.pc = "search" =>
         /\ q.task \notin q.visited /\ q.target \in q.visited \cup q.queue
         /\ \A e \in E : e[1] \in q.visited => e[2] \in q.visited \cup q.queue

SearchInv == AcyclicIn(edges \ loose) /\ \A a \in Adder \ overtaken : KnowsIn(edges, adder[a])

LEMMA NothingToKnow == \A E, q : q.pc # "search" /\ q.checked = {} => KnowsIn(E, q)
  BY DEF KnowsIn

\* Fewer edges leave what a request knows true.
LEMMA KnowsLess ==
    ASSUME NEW E, E \subseteq Node \X Node, NEW F, F \subseteq E, NEW q \in AddRow, KnowsIn(E, q)
    PROVE  KnowsIn(F, q)
<1>1. ASSUME NEW d \in q.checked PROVE q.task \notin ReachIn(F, d)
  <2>1. d \in Node
    BY DEF AddRow
  <2>2. QED
    BY <2>1, ReachShrinks DEF KnowsIn
<1>2. QED
  BY <1>1 DEF KnowsIn

\* A search that has run dry has visited all there is, and the task was not there.
LEMMA SearchIsComplete ==
    ASSUME NEW E, E \subseteq Node \X Node, NEW q \in AddRow, KnowsIn(E, q),
           q.pc = "search", q.queue = {}
    PROVE  q.task \notin ReachIn(E, q.target)
<1>1. q.visited \in SUBSET Node /\ q.target \in Node /\ q.target \in q.visited /\ q.task \notin q.visited
  BY DEF KnowsIn, AddRow
<1>2. ClosedIn(E, q.visited)
  BY DEF KnowsIn, ClosedIn
<1>3. QED
  BY <1>1, <1>2, ReachIsLeast

\* Every cycle has an edge of an overtaken request, for any number of tasks, of requests and of
\* targets of a request, and whatever edges and tasks go away during a search.
THEOREM OnlyRacesCloseCycles == DependenciesSpec => []CyclesNeedARace
<1>1. DependenciesInit => SearchInv
  BY NoAddIdle, NothingToKnow DEF DependenciesInit, SearchInv, AcyclicIn
<1>2. DependenciesTypeOK /\ SearchInv /\ [DependenciesNext]_dependenciesVars => SearchInv'
  <2> SUFFICES ASSUME DependenciesTypeOK, SearchInv, [DependenciesNext]_dependenciesVars
               PROVE  SearchInv'
    OBVIOUS
  <2>0. /\ edges \subseteq Node \X Node /\ adder \in [Adder -> AddRow]
        /\ overtaken \subseteq Adder /\ loose \subseteq edges
    BY DEF DependenciesTypeOK, AddRow
  \* Edges go away, and nothing else changes.
  <2>A. ASSUME edges' \subseteq edges, edges' \ loose' \subseteq edges \ loose,
               UNCHANGED <<adder, overtaken>>
        PROVE  SearchInv'
    <3>1. edges \ loose \subseteq Node \X Node
      BY <2>0
    <3>2. AcyclicIn(edges' \ loose')
      BY <2>A, <3>1, FewerEdgesStayAcyclic DEF SearchInv
    <3>3. ASSUME NEW a \in Adder \ overtaken PROVE KnowsIn(edges', adder[a])
      BY <2>0, <2>A, KnowsLess DEF SearchInv
    <3>4. QED
      BY <2>A, <3>2, <3>3 DEF SearchInv
  \* A request changes, and the edges do not.
  <2>B. ASSUME NEW a \in Adder, NEW q, adder' = [adder EXCEPT ![a] = q],
               UNCHANGED <<edges, loose>>, overtaken \ {a} \subseteq overtaken',
               a \in overtaken' \/ KnowsIn(edges, q)
        PROVE  SearchInv'
    <3>1. \A b \in Adder : adder'[b] = IF b = a THEN q ELSE adder[b]
      BY <2>0, <2>B
    <3>2. ASSUME NEW b \in Adder \ overtaken' PROVE KnowsIn(edges, adder'[b])
      <4>1. CASE b = a
        BY <2>B, <3>1, <4>1
      <4>2. CASE b # a
        BY <2>B, <3>1, <4>2 DEF SearchInv
      <4>3. QED
        BY <4>1, <4>2
    <3>3. QED
      BY <2>B, <3>2 DEF SearchInv
  <2>R. ASSUME NEW a \in Adder, Refused(a), UNCHANGED <<edges, loose>> PROVE SearchInv'
    <3>1. KnowsIn(edges, NoAdd)
      BY NoAddIdle, NothingToKnow
    <3>2. QED
      BY <2>B, <2>R, <3>1 DEF Refused
  <2>1. ASSUME NEW a \in Adder, NEW t \in Node, NEW deps \in SUBSET Node \ {{}},
               add_dependencies(a, t, deps)
        PROVE  SearchInv'
    <3>1. adder' = [adder EXCEPT ![a] = Opening(t, deps)] /\ UNCHANGED <<edges, overtaken, loose>>
      BY <2>1 DEF add_dependencies, Opening
    <3>2. Opening(t, deps).pc = "add" /\ Opening(t, deps).checked = {}
      BY <2>0, NoAddIdle, RecordSteps
    <3>3. KnowsIn(edges, Opening(t, deps))
      BY <3>2, NothingToKnow
    <3>4. QED
      BY <2>B, <3>1, <3>3
  <2>2. ASSUME NEW a \in Adder, NEW d \in Node, owns_target(a, d) PROVE SearchInv'
    <3>0. UNCHANGED <<edges, loose>>
      BY <2>2 DEF owns_target
    <3>1. CASE Refused(a)
      BY <2>R, <3>0, <3>1
    <3>2. CASE ~Refused(a)
      <4>1. adder' = [adder EXCEPT ![a] = Seeking(adder[a], d)] /\ overtaken' = overtaken
        BY <2>0, <2>2, <3>2, RequestSteps DEF owns_target
      <4>2. ASSUME a \notin overtaken PROVE KnowsIn(edges, Seeking(adder[a], d))
        <5>1. KnowsIn(edges, adder[a])
          BY <4>2 DEF SearchInv
        <5>2. PICK q \in AddRow : q = adder[a]
          BY <2>0
        <5>3. /\ Seeking(q, d).task = q.task /\ Seeking(q, d).checked = q.checked
              /\ Seeking(q, d).target = d /\ Seeking(q, d).queue = {d} /\ Seeking(q, d).visited = {}
          BY DEF Seeking, AddRow
        <5>4. QED
          BY <5>1, <5>2, <5>3 DEF KnowsIn
      <4>3. QED
        BY <2>B, <3>0, <4>1, <4>2
    <3>3. QED
      BY <3>1, <3>2
  <2>3. ASSUME NEW a \in Adder, NEW c \in Node, has_circular_dependency(a, c) PROVE SearchInv'
    <3>0. UNCHANGED <<edges, loose>> /\ adder[a].pc = "search" /\ c \in adder[a].queue
      BY <2>3 DEF has_circular_dependency
    <3>1. CASE Refused(a)
      BY <2>R, <3>0, <3>1
    <3>2. CASE ~Refused(a)
      <4>1. /\ adder' = [adder EXCEPT ![a] = Turned(adder[a], c)] /\ overtaken' = overtaken
            /\ c # adder[a].task
        BY <2>0, <2>3, <3>2, RequestSteps DEF has_circular_dependency
      <4>2. ASSUME a \notin overtaken PROVE KnowsIn(edges, Turned(adder[a], c))
        <5> DEFINE q == adder[a]
                   r == Turned(q, c)
        <5>1. KnowsIn(edges, q) /\ q \in AddRow
          BY <2>0, <4>2 DEF SearchInv
        <5> HIDE DEF q
        <5>2. /\ r.task = q.task /\ r.checked = q.checked /\ r.target = q.target
              /\ r.visited = q.visited \cup {c}
              /\ r.queue = (q.queue \ {c}) \cup IF c \in q.visited THEN {} ELSE Successors(c)
          BY <2>0, <5>1, TurnOfSearch
        <5>3. r.visited \cup r.queue
                = q.visited \cup q.queue \cup IF c \in q.visited THEN {} ELSE Successors(c)
          BY <3>0, <5>2 DEF q
        <5> HIDE DEF r
        <5>4. ASSUME NEW e \in edges, e[1] \in r.visited PROVE e[2] \in r.visited \cup r.queue
          <6>1. CASE e[1] \in q.visited
            BY <3>0, <5>1, <5>3, <6>1 DEF KnowsIn, q
          <6>2. CASE e[1] \notin q.visited
            <7>1. e[1] = c /\ c \notin q.visited
              BY <5>2, <5>4, <6>2
            <7>2. e[2] \in Successors(c)
              BY <7>1 DEF Successors
            <7>3. QED
              BY <5>3, <7>1, <7>2
          <6>3. QED
            BY <6>1, <6>2
        <5>5. r.task \notin r.visited /\ r.target \in r.visited \cup r.queue
          BY <3>0, <4>1, <5>1, <5>2, <5>3 DEF KnowsIn, q
        <5>6. KnowsIn(edges, r)
          BY <5>1, <5>2, <5>4, <5>5 DEF KnowsIn
        <5>7. QED
          BY <5>6 DEF q, r
      <4>3. QED
        BY <2>B, <3>0, <4>1, <4>2
    <3>3. QED
      BY <3>1, <3>2
  <2>4. ASSUME NEW a \in Adder, SearchEnds(a) PROVE SearchInv'
    <3>1. /\ adder' = [adder EXCEPT ![a] = Found(adder[a])] /\ UNCHANGED <<edges, overtaken, loose>>
          /\ adder[a].pc = "search" /\ adder[a].queue = {}
      BY <2>0, <2>4, RequestSteps DEF SearchEnds
    <3>2. ASSUME a \notin overtaken PROVE KnowsIn(edges, Found(adder[a]))
      <4>1. KnowsIn(edges, adder[a])
        BY <3>2 DEF SearchInv
      <4>2. adder[a].task \notin ReachIn(edges, adder[a].target)
        BY <2>0, <3>1, <4>1, SearchIsComplete
      <4>3. /\ Found(adder[a]).pc = "add" /\ Found(adder[a]).task = adder[a].task
            /\ Found(adder[a]).checked = adder[a].checked \cup {adder[a].target}
        BY <2>0, NoAddIdle, RecordSteps
      <4>4. QED
        BY <4>1, <4>2, <4>3 DEF KnowsIn
    <3>3. QED
      BY <2>B, <3>1, <3>2
  <2>5. ASSUME NEW a \in Adder, NEW d \in Node, insert_dependency(a, d) PROVE SearchInv'
    <3> DEFINE t == adder[a].task
               new == {<<t, d>>} \ edges
    <3>0. /\ adder[a].pc = "add" /\ d \in adder[a].checked /\ t \in Node
          /\ \A x \in adder[a].checked : x \in Node
      BY <2>0, <2>5 DEF insert_dependency, AddRow
    <3>1. CASE ~Insertable(t, d)
      BY <2>5, <2>R, <3>1 DEF insert_dependency
    <3>2. CASE Insertable(t, d)
      <4>1. /\ edges' = edges \cup new
            /\ loose' = IF a \in overtaken THEN loose \cup new ELSE loose
            /\ overtaken' = (overtaken \cup IF new = {} THEN {} ELSE {b \in Adder \ {a} : Searched(b)})
                              \ IF adder[a].deps = {d} THEN {a} ELSE {}
        BY <2>5, <3>2 DEF insert_dependency
      <4>2. adder' = [adder EXCEPT ![a] = Inserted(adder[a], d)]
        BY <2>5, <3>2 DEF insert_dependency, Inserted
      <4>3. \A b \in Adder : adder'[b] = IF b = a THEN Inserted(adder[a], d) ELSE adder[b]
        BY <2>0, <4>2
      <4>4. edges \ loose \subseteq Node \X Node /\ edges' = edges \cup {<<t, x>> : x \in {d}}
        BY <2>0, <4>1
      <4>5. AcyclicIn(edges' \ loose')
        <5>1. CASE a \in overtaken
          <6>1. edges' \ loose' \subseteq edges \ loose
            BY <4>1, <5>1
          <6>2. QED
            BY <4>4, <6>1, FewerEdgesStayAcyclic DEF SearchInv
        <5>2. CASE a \notin overtaken
          <6>1. t \notin ReachIn(edges, d)
            BY <3>0, <5>2 DEF SearchInv, KnowsIn
          <6>2. \A x \in {d} : t \notin ReachIn(edges \ loose, x)
            <7>1. edges \ loose \subseteq edges
              OBVIOUS
            <7>2. ReachIn(edges \ loose, d) \subseteq ReachIn(edges, d)
              BY <2>0, <7>1, ReachShrinks
            <7>3. QED
              BY <6>1, <7>2
          <6>3. AcyclicIn((edges \ loose) \cup {<<t, x>> : x \in {d}})
            BY <3>0, <4>4, <6>2, SafeInsertion DEF SearchInv
          <6>4. /\ (edges \ loose) \cup {<<t, x>> : x \in {d}} \subseteq Node \X Node
                /\ edges' \ loose' \subseteq (edges \ loose) \cup {<<t, x>> : x \in {d}}
            BY <3>0, <4>1, <4>4, <5>2
          <6>5. QED
            BY <6>3, <6>4, FewerEdgesStayAcyclic
        <5>3. QED
          BY <5>1, <5>2
      <4>6. ASSUME NEW b \in Adder \ overtaken' PROVE KnowsIn(edges', adder'[b])
        <5>1. CASE b # a /\ new = {}
          <6>1. edges' = edges /\ b \notin overtaken
            BY <4>1, <5>1
          <6>2. QED
            BY <4>3, <5>1, <6>1 DEF SearchInv
        <5>2. CASE b # a /\ new # {}
          <6>1. ~Searched(b)
            BY <4>1, <5>2
          <6>2. QED
            BY <4>3, <5>2, <6>1, NothingToKnow DEF Searched
        <5>3. CASE b = a /\ adder[a].deps = {d}
          BY <4>3, <5>3, NoAddIdle, NothingToKnow DEF Inserted
        <5>4. CASE b = a /\ adder[a].deps # {d}
          <6>1. a \notin overtaken
            BY <4>1, <5>4
          <6>2. KnowsIn(edges, adder[a])
            BY <6>1 DEF SearchInv
          <6>3. /\ Inserted(adder[a], d).pc = adder[a].pc /\ Inserted(adder[a], d).task = t
                /\ Inserted(adder[a], d).checked = adder[a].checked
            <7>1. PICK q \in AddRow : q = adder[a]
              BY <2>0
            <7>2. q.deps # {d} => /\ Inserted(q, d).pc = q.pc /\ Inserted(q, d).task = q.task
                                  /\ Inserted(q, d).checked = q.checked
              BY DEF Inserted, AddRow
            <7>3. QED
              BY <3>0, <5>4, <7>1, <7>2
          <6>4. ASSUME NEW x \in adder[a].checked PROVE t \notin ReachIn(edges', x)
            <7>1. x \in Node /\ t \notin ReachIn(edges, x)
              BY <3>0, <6>2 DEF KnowsIn
            <7>2. edges' \subseteq Node \X Node /\ \A e \in edges' : e \in edges \/ e[1] = t
              BY <2>0, <3>0, <4>1
            <7>3. QED
              BY <2>0, <7>1, <7>2, OutOfReach
          <6>5. QED
            BY <3>0, <4>3, <5>4, <6>3, <6>4 DEF KnowsIn
        <5>5. QED
          BY <5>1, <5>2, <5>3, <5>4
      <4>7. QED
        BY <4>5, <4>6 DEF SearchInv
    <3>3. QED
      BY <3>1, <3>2
  <2>6. ASSUME NEW e \in edges, remove_dependency(e) PROVE SearchInv'
    BY <2>6, <2>A DEF remove_dependency
  <2>7. ASSUME NEW t \in exists, cascade_delete(t) PROVE SearchInv'
    BY <2>7, <2>A DEF cascade_delete
  <2>8. CASE UNCHANGED dependenciesVars
    BY <2>8, <2>A DEF dependenciesVars
  <2>9. QED
    BY <2>1, <2>2, <2>3, <2>4, <2>5, <2>6, <2>7, <2>8 DEF DependenciesNext
<1>3. SearchInv => CyclesNeedARace
  BY DEF SearchInv, CyclesNeedARace
<1>4. QED
  BY <1>1, <1>2, <1>3, DependenciesTypeCorrect, PTL DEF DependenciesSpec
=============================================================================
