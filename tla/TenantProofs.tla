---------------------------- MODULE TenantProofs ----------------------------
(***************************************************************************)
(* Proofs about the life of a tenant: what a tombstone means, that a       *)
(* deletion is driven on and is final, and that the tenant implements      *)
(* TenantLife and its teardown jobs LeaseQueue.                            *)
(***************************************************************************)
EXTENDS TenantRefinement, TLAPS

TaskRow == [pc : Pc, status : Status \cup {"none"}]

MaxTries == max_attempts + MaxCrashes + MaxFaults

JobRow == [status : {"none", "pending", "running", "completed", "failed"}, attempts : 0..MaxTries]

WorkerRow == [job : Job \cup {NoJob}, pc : {"idle", "remove", "rows", "tombstone", "ok", "err"}]

LEMMA NoCallIdle == NoCall \in TaskRow /\ NoCall.pc = "idle"
  BY DEF NoCall, TaskRow, Pc, Status

LEMMA NoWorkIdle == NoWork \in WorkerRow /\ NoWork.pc = "idle" /\ NoWork.job = NoJob
  BY DEF NoWork, WorkerRow

\* How a call moves on, and how it returns.
LEMMA Goes ==
    ASSUME task \in [Task -> TaskRow], NEW t \in Task, NEW pc \in Pc, Goto(t, pc)
    PROVE  /\ task' \in [Task -> TaskRow] /\ task'[t].pc = pc
           /\ \A u \in Task \ {t} : task'[u] = task[u]
  BY DEF Goto, TaskRow

LEMMA Returns ==
    ASSUME task \in [Task -> TaskRow], NEW t \in Task, Return(t)
    PROVE  /\ task' \in [Task -> TaskRow] /\ task'[t].pc = "idle"
           /\ \A u \in Task \ {t} : task'[u] = task[u]
  BY NoCallIdle DEF Return

LEMMA PcValues ==
    /\ "idle" \in Pc /\ "create" \in Pc /\ "insert" \in Pc /\ "get" \in Pc /\ "load" \in Pc
    /\ "wait" \in Pc /\ "cache" \in Pc /\ "mark" \in Pc /\ "evict" \in Pc /\ "log" \in Pc
    /\ "enqueue" \in Pc /\ "force" \in Pc /\ "skip_rows" \in Pc /\ "skip_tombstone" \in Pc
  BY DEF Pc

\* What a step of a call does to the calls: one of them goes on, or returns.
TaskMoves(t, pcs) ==
    /\ task' \in [Task -> TaskRow] /\ task'[t].pc \in pcs
    /\ \A u \in Task \ {t} : task'[u] = task[u]

LEMMA TaskSteps ==
    ASSUME task \in [Task -> TaskRow], row \in Status \cup {"none"}, NEW t \in Task
    PROVE  /\ GetRow(t) => TaskMoves(t, {"create", "load"}) /\ (row = "none" <=> task'[t].pc = "create")
           /\ create_tenant(t) => TaskMoves(t, {"insert"})
           /\ insert_or_get(t) => TaskMoves(t, {"get"})
           /\ GetInserted(t) => TaskMoves(t, {"idle", "load"})
           /\ get_or_load(t) => TaskMoves(t, {"idle", "wait"})
           /\ load_tenant(t) => TaskMoves(t, {"idle", "cache"})
           /\ \A opened \in BOOLEAN : CacheHandle(t, opened) => TaskMoves(t, {"idle"})
           /\ begin_deprovision(t) => TaskMoves(t, {"mark"})
           /\ mark_deleting(t) => TaskMoves(t, {"evict", "idle"})
           /\ evict(t) => TaskMoves(t, {"log"})
           /\ insert_deletion_log(t) => TaskMoves(t, {"enqueue"})
           /\ EnqueueTeardown(t) => TaskMoves(t, {"idle"})
           /\ CallEnds(t) => TaskMoves(t, {"idle"})
           /\ force_retry_deprovision(t) => TaskMoves(t, {"force"})
           /\ ForceStatus(t) => TaskMoves(t, {"enqueue"})
           /\ skip_shard_deprovision(t) => TaskMoves(t, {"idle", "skip_rows"})
           /\ SkipDeleteRows(t) => TaskMoves(t, {"skip_tombstone"})
           /\ SkipTombstone(t) => TaskMoves(t, {"idle"})
<1> USE PcValues
<1>1. GetRow(t) => TaskMoves(t, {"create", "load"}) /\ (row = "none" <=> task'[t].pc = "create")
  BY DEF GetRow, TaskMoves, TaskRow
<1>2. GetInserted(t) => TaskMoves(t, {"idle", "load"})
  BY NoCallIdle DEF GetInserted, TaskMoves, TaskRow
<1>3. create_tenant(t) => TaskMoves(t, {"insert"})
  BY Goes DEF create_tenant, TaskMoves
<1>4. insert_or_get(t) => TaskMoves(t, {"get"})
  BY Goes DEF insert_or_get, TaskMoves
<1>5. get_or_load(t) => TaskMoves(t, {"idle", "wait"})
  BY Goes, Returns DEF get_or_load, TaskMoves
<1>6. load_tenant(t) => TaskMoves(t, {"idle", "cache"})
  BY Goes, Returns DEF load_tenant, TaskMoves
<1>7. \A opened \in BOOLEAN : CacheHandle(t, opened) => TaskMoves(t, {"idle"})
  BY Returns DEF CacheHandle, TaskMoves
<1>8. begin_deprovision(t) => TaskMoves(t, {"mark"})
  BY Goes DEF begin_deprovision, TaskMoves
<1>9. mark_deleting(t) => TaskMoves(t, {"evict", "idle"})
  BY Goes, Returns DEF mark_deleting, TaskMoves
<1>10. evict(t) => TaskMoves(t, {"log"})
  BY Goes DEF evict, TaskMoves
<1>11. insert_deletion_log(t) => TaskMoves(t, {"enqueue"})
  BY Goes DEF insert_deletion_log, TaskMoves
<1>12. EnqueueTeardown(t) => TaskMoves(t, {"idle"})
  BY Returns DEF EnqueueTeardown, TaskMoves
<1>13. CallEnds(t) => TaskMoves(t, {"idle"})
  BY Returns DEF CallEnds, TaskMoves
<1>14. force_retry_deprovision(t) => TaskMoves(t, {"force"})
  BY Goes DEF force_retry_deprovision, TaskMoves
<1>15. ForceStatus(t) => TaskMoves(t, {"enqueue"})
  BY Goes DEF ForceStatus, TaskMoves
<1>16. skip_shard_deprovision(t) => TaskMoves(t, {"idle", "skip_rows"})
  BY Goes DEF skip_shard_deprovision, AdminCall, TaskMoves
<1>17. SkipDeleteRows(t) => TaskMoves(t, {"skip_tombstone"})
  BY Goes DEF SkipDeleteRows, TaskMoves
<1>18. SkipTombstone(t) => TaskMoves(t, {"idle"})
  BY Returns DEF SkipTombstone, TaskMoves
<1>19. QED
  BY <1>1, <1>2, <1>3, <1>4, <1>5, <1>6, <1>7, <1>8, <1>9, <1>10, <1>11, <1>12, <1>13, <1>14, <1>15,
     <1>16, <1>17, <1>18
-----------------------------------------------------------------------------
(* Types, and the attempts of a job. *)

\* The worker is idle or has a job that is running.
WorkerOwns ==
    worker = NoWork \/ (worker.job \in Job /\ worker.pc # "idle" /\ jobs[worker.job].status = "running")

\* Only a crash or a lost write gives a job more attempts than max_attempts.
Tries == max_attempts + crashes + faults

TriesBounded ==
    \A j \in Job :
        /\ jobs[j].status = "none" => jobs[j].attempts = 0
        /\ jobs[j].attempts <= Tries
        /\ jobs[j].status = "pending" \/ (jobs[j].status = "running" /\ worker.job # j)
             => jobs[j].attempts < Tries

TenantInv == TypeOK /\ WorkerOwns /\ TriesBounded

\* Everything but the queue is typed.
RestTyped ==
    /\ row \in Status \cup {"none"} /\ log \in BOOLEAN /\ skipped \in BOOLEAN /\ held \in BOOLEAN
    /\ users \in BOOLEAN /\ resident \in BOOLEAN /\ up \in BOOLEAN /\ cut \in BOOLEAN
    /\ shard \in {"absent", "data", "removed", "recreated"}
    /\ gate \in Task \cup {NoTask}
    /\ task \in [Task -> TaskRow]
    /\ admins \in 0..MaxAdmin /\ crashes \in 0..MaxCrashes /\ faults \in 0..MaxFaults

LEMMA TypedParts == TypeOK <=> RestTyped /\ jobs \in [Job -> JobRow] /\ worker \in WorkerRow
  BY DEF TypeOK, RestTyped, TaskRow, JobRow, WorkerRow, MaxTries

\* The statements keep the domains of their columns.
LEMMA StatementTypes ==
    ASSUME row \in Status \cup {"none"}, shard \in {"absent", "data", "removed", "recreated"}
    PROVE  /\ create_dir \in {"absent", "data", "removed", "recreated"} \ {"absent"}
           /\ create_dir = "data" => shard \in {"absent", "data"}
           /\ Inserted \in Status /\ (row # "none" => Inserted = row)
           /\ "deleting" \in Status /\ "tombstone" \in Status
  BY DEF create_dir, Inserted, Status

\* The queue of an operator's call that enqueues, or of the recovery.
LEMMA EnqueueStep ==
    ASSUME TenantInv, crashes' = crashes, faults' = faults, NEW j \in Job, Enqueued(j), RestTyped'
    PROVE  TenantInv'
<1> USE TenantAssumption
<1>0. jobs \in [Job -> JobRow] /\ worker \in WorkerRow /\ RestTyped
  BY TypedParts DEF TenantInv
<1>00. jobs[j].attempts = 0 /\ jobs[j].status = "none" /\ worker' = worker
  BY DEF Enqueued, TenantInv, TriesBounded
<1>1. jobs' \in [Job -> JobRow]
  BY <1>0 DEF Enqueued, JobRow
<1>2. \A i \in Job : jobs'[i] = IF i = j THEN [jobs[j] EXCEPT !.status = "pending"] ELSE jobs[i]
  BY <1>0 DEF Enqueued
<1>3. jobs'[j].status = "pending" /\ jobs'[j].attempts = 0
  BY <1>0, <1>00, <1>2 DEF JobRow
<1>4. WorkerOwns'
  BY <1>00, <1>2 DEF WorkerOwns, TenantInv, NoWork
<1>5. 0 < Tries /\ Tries' = Tries
  BY <1>0 DEF Tries, RestTyped
<1>6. TriesBounded'
  <2>0. Tries \in Nat
    BY <1>0 DEF Tries, RestTyped
  <2>1. \A i \in Job \ {j} : jobs'[i] = jobs[i]
    BY <1>2
  <2>2. QED
    BY <1>00, <1>3, <1>5, <2>0, <2>1 DEF TriesBounded, TenantInv
<1>7. TypeOK'
  BY <1>0, <1>00, <1>1, TypedParts DEF TypeOK, RestTyped, TaskRow, JobRow, WorkerRow, MaxTries
<1>8. QED
  BY <1>4, <1>6, <1>7 DEF TenantInv

\* A step that leaves the queue alone.
LEMMA QueueAlone ==
    ASSUME TenantInv, RestTyped', UNCHANGED <<jobs, worker>>, crashes <= crashes', faults <= faults'
    PROVE  TenantInv'
<1> USE TenantAssumption
<1>0. jobs \in [Job -> JobRow] /\ worker \in WorkerRow /\ RestTyped
  BY TypedParts DEF TenantInv
<1>1. TypeOK'
  BY <1>0 DEF TypeOK, RestTyped, TaskRow, JobRow, WorkerRow, MaxTries
<1>2. WorkerOwns'
  BY DEF WorkerOwns, TenantInv, NoWork
<1>3. Tries \in Nat /\ Tries' \in Nat /\ Tries <= Tries'
  <2>1. crashes \in Nat /\ faults \in Nat
    BY <1>0 DEF RestTyped
  <2>2. crashes' \in Nat /\ faults' \in Nat
    BY DEF RestTyped
  <2>3. Tries = max_attempts + crashes + faults /\ Tries' = max_attempts + crashes' + faults'
    BY DEF Tries
  <2>4. ASSUME NEW m \in Nat, NEW c \in Nat, NEW f \in Nat, NEW d \in Nat, NEW g \in Nat,
               c <= d, f <= g
        PROVE  m + c + f \in Nat /\ m + d + g \in Nat /\ m + c + f <= m + d + g
    BY <2>4
  <2>5. max_attempts \in Nat
    OBVIOUS
  <2>6. QED
    BY <2>1, <2>2, <2>3, <2>4, <2>5
<1>4. \A j \in Job : jobs[j].attempts \in Nat
  BY <1>0 DEF JobRow, MaxTries
<1>5. TriesBounded'
  BY <1>3, <1>4 DEF TriesBounded, TenantInv
<1>6. QED
  BY <1>1, <1>2, <1>5 DEF TenantInv

LEMMA TenantInitially == Init => TenantInv
<1> USE TenantAssumption
<1> SUFFICES ASSUME Init PROVE TenantInv
  OBVIOUS
<1>1. RestTyped
  <2>1. task \in [Task -> TaskRow]
    BY NoCallIdle DEF Init
  <2>2. /\ row \in Status \cup {"none"} /\ gate \in Task \cup {NoTask}
        /\ shard \in {"absent", "data", "removed", "recreated"}
    BY DEF Init
  <2>3. admins \in 0..MaxAdmin /\ crashes \in 0..MaxCrashes /\ faults \in 0..MaxFaults
    BY DEF Init
  <2>4. /\ log \in BOOLEAN /\ skipped \in BOOLEAN /\ held \in BOOLEAN
        /\ users \in BOOLEAN /\ resident \in BOOLEAN /\ up \in BOOLEAN /\ cut \in BOOLEAN
    BY Zenon DEF Init
  <2>5. QED
    BY <2>1, <2>2, <2>3, <2>4 DEF RestTyped
<1>2. jobs \in [Job -> JobRow] /\ worker \in WorkerRow
  BY NoWorkIdle DEF Init, JobRow, MaxTries
<1>3. TriesBounded
  BY DEF Init, TriesBounded, Tries
<1>4. QED
  BY <1>1, <1>2, <1>3, TypedParts DEF Init, TenantInv, WorkerOwns

LEMMA TenantStep == TenantInv /\ [Next]_vars => TenantInv'
<1> USE TenantAssumption
<1> SUFFICES ASSUME TenantInv, [Next]_vars PROVE TenantInv'
  OBVIOUS
<1>0. jobs \in [Job -> JobRow] /\ worker \in WorkerRow /\ RestTyped
  BY TypedParts DEF TenantInv
<1>R. /\ row \in Status \cup {"none"} /\ log \in BOOLEAN /\ skipped \in BOOLEAN /\ held \in BOOLEAN
      /\ users \in BOOLEAN /\ resident \in BOOLEAN /\ up \in BOOLEAN /\ cut \in BOOLEAN
      /\ shard \in {"absent", "data", "removed", "recreated"}
      /\ gate \in Task \cup {NoTask}
      /\ task \in [Task -> TaskRow]
      /\ admins \in 0..MaxAdmin /\ crashes \in 0..MaxCrashes /\ faults \in 0..MaxFaults
  BY <1>0 DEF RestTyped
<1>S. /\ create_dir \in {"absent", "data", "removed", "recreated"}
      /\ Inserted \in Status \cup {"none"}
      /\ "deleting" \in Status /\ "tombstone" \in Status
  BY <1>R, StatementTypes
<1>B. crashes <= crashes /\ faults <= faults /\ faults <= faults + 1 /\ crashes <= crashes + 1
  BY <1>R
<1>1. ASSUME NEW t \in Task,
             GetRow(t) \/ create_tenant(t) \/ insert_or_get(t) \/ GetInserted(t) \/ get_or_load(t)
      PROVE  TenantInv'
  <2>1. task' \in [Task -> TaskRow]
    BY <1>1, <1>R, TaskSteps DEF TaskMoves
  <2>2. RestTyped'
    BY <1>1, <1>R, <1>S, <2>1
       DEF RestTyped, GetRow, create_tenant, insert_or_get, GetInserted, get_or_load, registry, loader,
           queue, budgets
  <2>3. QED
    BY <1>1, <1>B, <2>2, QueueAlone
       DEF GetRow, create_tenant, insert_or_get, GetInserted, get_or_load, queue, budgets
<1>2. ASSUME NEW t \in Task, load_tenant(t) PROVE TenantInv'
  <2>1. task' \in [Task -> TaskRow]
    BY <1>2, <1>R, TaskSteps DEF TaskMoves
  <2>2. RestTyped'
    BY <1>2, <1>R, <1>S, <2>1 DEF RestTyped, load_tenant, registry, queue, budgets
  <2>3. QED
    BY <1>2, <1>B, <2>2, QueueAlone DEF load_tenant, queue, budgets
<1>3. ASSUME NEW t \in Task, NEW opened \in BOOLEAN, CacheHandle(t, opened) PROVE TenantInv'
  <2>1. task' \in [Task -> TaskRow]
    BY <1>3, <1>R, TaskSteps DEF TaskMoves
  <2>2. resident' \in BOOLEAN
    BY <1>3 DEF CacheHandle
  <2>3. RestTyped'
    BY <1>3, <1>R, <2>1, <2>2 DEF RestTyped, CacheHandle, registry, queue, budgets
  <2>4. QED
    BY <1>3, <1>B, <2>3, QueueAlone DEF CacheHandle, queue, budgets
<1>4. CASE evict_idle
  <2>1. RestTyped'
    BY <1>4, <1>R DEF RestTyped, evict_idle, registry, queue, budgets
  <2>2. QED
    BY <1>4, <1>B, <2>1, QueueAlone DEF evict_idle, queue, budgets
<1>5. ASSUME NEW t \in Task,
             \/ begin_deprovision(t) \/ force_retry_deprovision(t) \/ skip_shard_deprovision(t)
      PROVE  TenantInv'
  <2>1. task' \in [Task -> TaskRow]
    BY <1>5, <1>R, TaskSteps DEF TaskMoves
  <2>2. admins' \in 0..MaxAdmin
    BY <1>5, <1>R DEF begin_deprovision, force_retry_deprovision, skip_shard_deprovision, AdminCall
  <2>3. RestTyped'
    BY <1>5, <1>R, <2>1, <2>2
       DEF RestTyped, begin_deprovision, force_retry_deprovision, skip_shard_deprovision, AdminCall,
           registry, loader
  <2>4. QED
    BY <1>5, <1>B, <2>3, QueueAlone
       DEF begin_deprovision, force_retry_deprovision, skip_shard_deprovision, AdminCall, queue
<1>6. ASSUME NEW t \in Task,
             mark_deleting(t) \/ evict(t) \/ insert_deletion_log(t) \/ ForceStatus(t) \/ SkipDeleteRows(t)
      PROVE  TenantInv'
  <2>1. task' \in [Task -> TaskRow]
    BY <1>6, <1>R, TaskSteps DEF TaskMoves
  <2>2. RestTyped'
    <3>1. CASE mark_deleting(t) \/ ForceStatus(t)
      <4>1. row' \in {row, "deleting"}
        BY <3>1 DEF mark_deleting, ForceStatus
      <4>2. UNCHANGED <<log, skipped, held, shard, users, resident, gate, up, admins, crashes, faults, cut>>
        BY <3>1 DEF mark_deleting, ForceStatus, loader, budgets
      <4>3. QED
        BY <1>R, <1>S, <2>1, <4>1, <4>2 DEF RestTyped
    <3>2. CASE evict(t)
      BY <1>R, <2>1, <3>2 DEF RestTyped, evict, registry, budgets
    <3>3. CASE insert_deletion_log(t)
      BY <1>R, <2>1, <3>3 DEF RestTyped, insert_deletion_log, loader, budgets
    <3>4. CASE SkipDeleteRows(t)
      BY <1>R, <2>1, <3>4 DEF RestTyped, SkipDeleteRows, registry, loader, budgets
    <3>5. QED
      BY <1>6, <3>1, <3>2, <3>3, <3>4
  <2>3. QED
    BY <1>6, <1>B, <2>2, QueueAlone
       DEF mark_deleting, evict, insert_deletion_log, ForceStatus, SkipDeleteRows, queue, budgets
<1>7. ASSUME NEW t \in Task, CallEnds(t) PROVE TenantInv'
  <2>1. task' \in [Task -> TaskRow]
    BY <1>7, <1>R, TaskSteps DEF TaskMoves
  <2>2. cut' \in BOOLEAN
    BY <1>7, Zenon DEF CallEnds
  <2>3. RestTyped'
    BY <1>7, <1>R, <2>1, <2>2 DEF RestTyped, CallEnds, registry, loader
  <2>4. QED
    BY <1>7, <1>B, <2>3, QueueAlone DEF CallEnds, queue
<1>T. mark_tombstone => /\ row' \in Status \cup {"none"} /\ held' \in BOOLEAN /\ UNCHANGED <<log, skipped>>
  BY <1>R, <1>S DEF mark_tombstone
<1>8. ASSUME NEW t \in Task, SkipTombstone(t) PROVE TenantInv'
  <2>1. task' \in [Task -> TaskRow]
    BY <1>8, <1>R, TaskSteps DEF TaskMoves
  <2>2. RestTyped'
    BY <1>8, <1>R, <1>T, <2>1 DEF RestTyped, SkipTombstone, loader, budgets
  <2>3. QED
    BY <1>8, <1>B, <2>2, QueueAlone DEF SkipTombstone, queue, budgets
<1>9. ASSUME NEW t \in Task, EnqueueTeardown(t) PROVE TenantInv'
  <2>1. task' \in [Task -> TaskRow]
    BY <1>9, <1>R, TaskSteps DEF TaskMoves
  <2>2. RestTyped'
    BY <1>9, <1>R, <2>1 DEF RestTyped, EnqueueTeardown, registry, loader, budgets
  <2>3. QED
    BY <1>9, <2>2, EnqueueStep DEF EnqueueTeardown, budgets
<1>10. ASSUME NEW j \in Job, Claim(j) PROVE TenantInv'
  <2>1. RestTyped'
    BY <1>10, <1>R DEF RestTyped, Claim, registry, loader, budgets
  <2>2. Tries \in Nat /\ Tries' = Tries /\ Tries <= MaxTries /\ jobs[j].attempts < Tries
    BY <1>10, <1>R DEF Claim, Tries, MaxTries, budgets, TenantInv, TriesBounded
  <2>3. jobs[j].attempts \in Nat /\ jobs[j].attempts + 1 \in 0..MaxTries
    BY <1>0, <2>2 DEF JobRow, MaxTries
  <2>4. \A i \in Job : jobs'[i] = IF i = j THEN [status |-> "running", attempts |-> jobs[j].attempts + 1]
                                           ELSE jobs[i]
    BY <1>0, <1>10 DEF Claim
  <2>5. jobs' \in [Job -> JobRow]
    BY <1>0, <1>10, <2>3 DEF Claim, JobRow
  <2>6. worker' \in WorkerRow /\ worker'.job = j /\ worker'.pc = "remove"
    BY <1>10 DEF Claim, WorkerRow
  <2>7. WorkerOwns'
    BY <2>4, <2>6 DEF WorkerOwns
  <2>8. TriesBounded'
    <3>1. jobs'[j].status = "running" /\ jobs'[j].attempts <= Tries
      BY <2>2, <2>3, <2>4
    <3>2. worker.job = NoJob /\ NoJob \notin Job
      BY <1>10, NoWorkIdle DEF Claim
    <3>3. \A i \in Job \ {j} : jobs'[i] = jobs[i]
      BY <2>4
    <3>4. QED
      BY <2>2, <2>6, <3>1, <3>2, <3>3 DEF TriesBounded, TenantInv
  <2>9. TypeOK'
    BY <2>1, <2>5, <2>6 DEF TypeOK, RestTyped, TaskRow, JobRow, WorkerRow, MaxTries
  <2>10. QED
    BY <2>7, <2>8, <2>9 DEF TenantInv
\* A step of the job's handler.
<1>W. ASSUME NEW pc \in {"remove", "rows", "tombstone"}, NEW next \in {"rows", "tombstone", "ok", "err"},
             Working(pc, next), RestTyped'
      PROVE  TenantInv'
  <2>1. UNCHANGED <<jobs, crashes, faults>>
    BY <1>W DEF Working, budgets
  <2>2. worker' \in WorkerRow /\ worker'.job = worker.job /\ worker'.pc = next
    BY <1>0, <1>W DEF Working, WorkerRow
  <2>3. worker.job \in Job /\ jobs[worker.job].status = "running"
    BY <1>W, NoWorkIdle DEF TenantInv, WorkerOwns, Working
  <2>4. WorkerOwns'
    BY <2>1, <2>2, <2>3 DEF WorkerOwns
  <2>5. Tries' = Tries
    BY <2>1 DEF Tries
  <2>6. TriesBounded'
    BY <2>1, <2>2, <2>5 DEF TriesBounded, TenantInv
  <2>7. TypeOK'
    BY <1>0, <1>W, <2>1, <2>2 DEF TypeOK, RestTyped, TaskRow, JobRow, WorkerRow, MaxTries
  <2>8. QED
    BY <2>4, <2>6, <2>7 DEF TenantInv
<1>11. CASE RemoveShard
  <2>1. RestTyped'
    BY <1>11, <1>R DEF RestTyped, RemoveShard, Working, registry, loader, budgets
  <2>2. QED
    BY <1>11, <1>W, <2>1 DEF RemoveShard
<1>12. CASE delete_monolith_rows
  <2>1. RestTyped'
    BY <1>12, <1>R DEF RestTyped, delete_monolith_rows, Working, registry, loader, budgets
  <2>2. QED
    BY <1>12, <1>W, <2>1 DEF delete_monolith_rows
<1>13. CASE MarkTombstone
  <2>1. RestTyped'
    BY <1>13, <1>R, <1>T DEF RestTyped, MarkTombstone, Working, loader, budgets
  <2>2. QED
    BY <1>13, <1>W, <2>1 DEF MarkTombstone
<1>14. CASE TeardownFails
  <2>1. RestTyped'
    BY <1>14, <1>R DEF RestTyped, TeardownFails, Working, registry, loader, budgets
  <2>2. QED
    BY <1>14, <1>W, <2>1 DEF TeardownFails
<1>15. ASSUME NEW written \in BOOLEAN, FinalizeJob(written) PROVE TenantInv'
  <2>1. worker.job \in Job /\ jobs[worker.job].status = "running"
    BY <1>15, NoWorkIdle DEF TenantInv, WorkerOwns, FinalizeJob
  <2>2. PICK j \in Job : j = worker.job
    BY <2>1
  <2>3. worker' = NoWork /\ worker' \in WorkerRow /\ worker'.job = NoJob /\ NoJob \notin Job /\ WorkerOwns'
    BY <1>15, NoWorkIdle DEF FinalizeJob, WorkerOwns
  <2>4. CASE written
    <3>1. RestTyped'
      BY <1>15, <1>R, <2>4 DEF RestTyped, FinalizeJob, registry, loader
    <3>2. jobs' = [jobs EXCEPT ![j].status = Outcome(j)]
      BY <1>15, <2>2, <2>4 DEF FinalizeJob
    <3>3. /\ Outcome(j) \in {"pending", "completed", "failed"}
          /\ Outcome(j) = "pending" => jobs[j].attempts < max_attempts
      BY <1>0, <2>2 DEF Outcome, JobRow
    <3>4. jobs' \in [Job -> JobRow]
      BY <1>0, <3>2, <3>3 DEF JobRow
    <3>5. jobs'[j].status = Outcome(j) /\ jobs'[j].attempts = jobs[j].attempts
      BY <1>0, <3>2 DEF JobRow
    <3>6. \A i \in Job \ {j} : jobs'[i] = jobs[i]
      BY <1>0, <3>2
    <3>7. Tries \in Nat /\ Tries' = Tries /\ max_attempts <= Tries
      BY <1>R, <1>15, <2>4 DEF Tries, FinalizeJob
    <3>8. jobs[j].attempts \in Nat
      BY <1>0 DEF JobRow, MaxTries
    <3>9. TriesBounded'
      <4>1. ASSUME NEW i \in Job, i = j
            PROVE  /\ jobs'[i].status # "none" /\ jobs'[i].status # "running" /\ jobs'[i].attempts <= Tries
                   /\ jobs'[i].status = "pending" => jobs'[i].attempts < Tries
        BY <3>3, <3>5, <3>7, <3>8, <4>1 DEF TriesBounded, TenantInv
      <4>2. ASSUME NEW i \in Job, i # j
            PROVE  /\ jobs'[i].status = "none" => jobs'[i].attempts = 0
                   /\ jobs'[i].attempts <= Tries
                   /\ jobs'[i].status \in {"pending", "running"} => jobs'[i].attempts < Tries
        BY <2>2, <3>6, <4>2 DEF TriesBounded, TenantInv
      <4>3. QED
        BY <3>7, <4>1, <4>2 DEF TriesBounded
    <3>10. TypeOK'
      BY <2>3, <3>1, <3>4 DEF TypeOK, RestTyped, TaskRow, JobRow, WorkerRow, MaxTries
    <3>11. QED
      BY <2>3, <3>9, <3>10 DEF TenantInv
  <2>5. CASE ~written
    <3>0. faults' = faults + 1 /\ faults' \in 0..MaxFaults /\ UNCHANGED <<jobs, crashes>>
      BY <1>15, <1>R, <2>5 DEF FinalizeJob
    <3>1. RestTyped'
      BY <1>15, <1>R, <2>5, <3>0 DEF RestTyped, FinalizeJob, registry, loader
    <3>2. Tries \in Nat /\ Tries' = Tries + 1
      BY <1>R, <3>0 DEF Tries
    <3>3. \A i \in Job : jobs[i].attempts \in Nat
      BY <1>0 DEF JobRow, MaxTries
    <3>4. TriesBounded'
      BY <3>0, <3>2, <3>3 DEF TriesBounded, TenantInv
    <3>5. TypeOK'
      BY <1>0, <2>3, <3>0, <3>1 DEF TypeOK, RestTyped, TaskRow, JobRow, WorkerRow, MaxTries
    <3>6. QED
      BY <2>3, <3>4, <3>5 DEF TenantInv
  <2>6. QED
    BY <2>4, <2>5
<1>16. ASSUME NEW j \in Job, recover_stuck_jobs(j) PROVE TenantInv'
  <2>1. RestTyped'
    BY <1>16, <1>R DEF RestTyped, recover_stuck_jobs, registry, loader, budgets
  <2>2. jobs' \in [Job -> JobRow] /\ worker' = worker /\ Tries' = Tries
    BY <1>0, <1>16 DEF recover_stuck_jobs, JobRow, Tries, budgets
  <2>3. jobs'[j].status = "pending" /\ jobs'[j].attempts = jobs[j].attempts /\ jobs[j].attempts < Tries
    BY <1>0, <1>16 DEF recover_stuck_jobs, JobRow, TenantInv, TriesBounded
  <2>4. \A i \in Job \ {j} : jobs'[i] = jobs[i]
    BY <1>0, <1>16 DEF recover_stuck_jobs
  <2>5. WorkerOwns'
    BY <1>16, <2>2, <2>4 DEF WorkerOwns, recover_stuck_jobs, TenantInv, NoWork
  <2>6. TriesBounded'
    BY <2>2, <2>3, <2>4 DEF TriesBounded, TenantInv
  <2>7. TypeOK'
    BY <1>0, <2>1, <2>2 DEF TypeOK, RestTyped, TaskRow, JobRow, WorkerRow, MaxTries
  <2>8. QED
    BY <2>5, <2>6, <2>7 DEF TenantInv
<1>17. CASE Crash
  <2>0. /\ crashes' = crashes + 1 /\ crashes' \in 0..MaxCrashes /\ UNCHANGED <<jobs, faults>>
        /\ worker' = NoWork /\ worker' \in WorkerRow /\ WorkerOwns'
    BY <1>17, <1>R, NoWorkIdle DEF Crash, WorkerOwns
  <2>1. RestTyped'
    BY <1>17, <1>R, <2>0, NoCallIdle DEF RestTyped, Crash, registry
  <2>2. Tries \in Nat /\ Tries' = Tries + 1
    BY <1>R, <2>0 DEF Tries
  <2>3. \A i \in Job : jobs[i].attempts \in Nat
    BY <1>0 DEF JobRow, MaxTries
  <2>4. TriesBounded'
    BY <2>0, <2>2, <2>3 DEF TriesBounded, TenantInv
  <2>5. TypeOK'
    BY <1>0, <2>0, <2>1 DEF TypeOK, RestTyped, TaskRow, JobRow, WorkerRow, MaxTries
  <2>6. QED
    BY <2>0, <2>4, <2>5 DEF TenantInv
<1>18. CASE recover_orphans
  <2>1. RestTyped'
    BY <1>18, <1>R DEF RestTyped, recover_orphans, loader, budgets
  <2>2. CASE NeedsRecovery
    BY <1>18, <2>1, <2>2, EnqueueStep DEF recover_orphans, budgets
  <2>3. CASE ~NeedsRecovery
    BY <1>18, <1>B, <2>1, <2>3, QueueAlone DEF recover_orphans, queue, budgets
  <2>4. QED
    BY <2>2, <2>3
<1>19. CASE RecoverFault
  <2>1. faults' = faults + 1 /\ faults' \in 0..MaxFaults
    BY <1>19, <1>R DEF RecoverFault
  <2>2. RestTyped'
    BY <1>19, <1>R, <2>1 DEF RestTyped, RecoverFault, loader
  <2>3. QED
    BY <1>19, <1>B, <2>1, <2>2, QueueAlone DEF RecoverFault, queue
<1>20. CASE HoldElapses \/ purge_expired_tombstones
  <2>1. RestTyped'
    BY <1>20, <1>R DEF RestTyped, HoldElapses, purge_expired_tombstones, loader, budgets
  <2>2. QED
    BY <1>20, <1>B, <2>1, QueueAlone DEF HoldElapses, purge_expired_tombstones, queue, budgets
<1>21. CASE UNCHANGED vars
  <2>1. RestTyped'
    BY <1>21, <1>R DEF RestTyped, vars, registry, loader, budgets
  <2>2. QED
    BY <1>21, <1>B, <2>1, QueueAlone DEF vars, queue, budgets
<1>22. QED
  BY <1>1, <1>2, <1>3, <1>4, <1>5, <1>6, <1>7, <1>8, <1>9, <1>10, <1>11, <1>12, <1>13, <1>14, <1>15,
     <1>16, <1>17, <1>18, <1>19, <1>20, <1>21 DEF Next

THEOREM TenantInvariant == Spec => []TenantInv
  BY TenantInitially, TenantStep, PTL DEF Spec

\* Columns, calls, jobs and the worker keep their types; a job's attempts exceed max_attempts
\* by no more than the crashes and the lost writes there were.
THEOREM TypeCorrect == Spec => []TypeOK
<1>1. TenantInv => TypeOK
  BY DEF TenantInv
<1>2. QED
  BY <1>1, TenantInvariant, PTL
-----------------------------------------------------------------------------
(* What a tombstone means. *)

\* Before the first directory there is no row, and nothing a row brings about.
NothingBeforeShard ==
    shard = "absent" =>
        /\ row = "none" /\ ~log /\ worker.pc = "idle"
        /\ \A j \in Job : jobs[j].status = "none"
        /\ \A t \in Task : task[t].pc \in {"idle", "create"}

\* What the steps of a teardown leave behind them, for the job and for a skip.
ErasedSoFar ==
    /\ worker.pc \in {"rows", "tombstone", "ok"} => shard # "data"
    /\ worker.pc \in {"tombstone", "ok"} => ~users
    /\ \A t \in Task : /\ task[t].pc \in {"skip_rows", "skip_tombstone"} => skipped
                       /\ task[t].pc = "skip_tombstone" => ~users

ErasureInv == NothingBeforeShard /\ ErasedSoFar /\ TombstoneMeansErased

LEMMA ErasureStep == TenantInv /\ ErasureInv /\ [Next]_vars => ErasureInv'
<1> USE TenantAssumption
<1> SUFFICES ASSUME TenantInv, ErasureInv, [Next]_vars PROVE ErasureInv'
  OBVIOUS
<1>0. jobs \in [Job -> JobRow] /\ worker \in WorkerRow /\ RestTyped
  BY TypedParts DEF TenantInv
<1>R. /\ row \in Status \cup {"none"} /\ log \in BOOLEAN /\ skipped \in BOOLEAN /\ held \in BOOLEAN
      /\ users \in BOOLEAN
      /\ shard \in {"absent", "data", "removed", "recreated"}
      /\ task \in [Task -> TaskRow]
  BY <1>0 DEF RestTyped
<1>I. NothingBeforeShard /\ ErasedSoFar /\ TombstoneMeansErased
  BY DEF ErasureInv
<1>S. create_dir # "absent" /\ (create_dir = "data" => shard \in {"absent", "data"})
  BY <1>R, StatementTypes
\* A call that erases nothing: it may create a directory, a row or a log row, but not a tombstone.
<1>A. ASSUME NEW t \in Task, NEW pcs, TaskMoves(t, pcs), "skip_tombstone" \notin pcs,
             "skip_rows" \in pcs => skipped' \/ task'[t].pc # "skip_rows",
             shard' \in {shard, create_dir}, row' = "tombstone" => row = "tombstone",
             shard' = "absent" => row' = "none" /\ ~log' /\ task'[t].pc \in {"idle", "create"},
             skipped => skipped', users' = users, UNCHANGED <<jobs, worker>>
      PROVE  ErasureInv'
  <2>1. task'[t].pc \in pcs /\ \A u \in Task \ {t} : task'[u] = task[u]
    BY <1>A DEF TaskMoves
  <2>2. shard' = "absent" => shard = "absent"
    BY <1>A, <1>S
  <2>3. NothingBeforeShard'
    BY <1>A, <1>I, <2>1, <2>2 DEF NothingBeforeShard
  <2>4. shard' = "data" => shard \in {"absent", "data"}
    BY <1>A, <1>S
  <2>5. ErasedSoFar'
    BY <1>A, <1>I, <2>1, <2>4 DEF ErasedSoFar, NothingBeforeShard
  <2>6. TombstoneMeansErased'
    BY <1>A, <1>I, <2>4 DEF TombstoneMeansErased, NothingBeforeShard
  <2>7. QED
    BY <2>3, <2>5, <2>6 DEF ErasureInv
<1>B. ASSUME NEW t \in Task, task[t].pc \notin {"idle", "create"} PROVE shard # "absent"
  BY <1>B, <1>I DEF NothingBeforeShard
<1>1. ASSUME NEW t \in Task, GetRow(t) PROVE ErasureInv'
  <2>1. /\ TaskMoves(t, {"create", "load"}) /\ (row = "none" <=> task'[t].pc = "create")
        /\ UNCHANGED <<row, log, skipped, shard, users, jobs, worker>>
    BY <1>1, <1>R, TaskSteps DEF GetRow, registry, queue
  <2>2. QED
    BY <1>A, <1>I, <2>1 DEF NothingBeforeShard
<1>2. ASSUME NEW t \in Task, create_tenant(t) PROVE ErasureInv'
  <2>1. /\ TaskMoves(t, {"insert"}) /\ shard' = create_dir
        /\ UNCHANGED <<row, log, skipped, users, jobs, worker>>
    BY <1>2, <1>R, TaskSteps DEF create_tenant, registry, queue
  <2>2. QED
    BY <1>A, <1>S, <2>1
<1>3. ASSUME NEW t \in Task, insert_or_get(t) PROVE ErasureInv'
  <2>1. /\ TaskMoves(t, {"get"}) /\ shard # "absent" /\ row' = Inserted
        /\ UNCHANGED <<shard, log, skipped, users, jobs, worker>>
    BY <1>3, <1>B, <1>R, TaskSteps DEF insert_or_get, queue
  <2>2. row' = "tombstone" => row = "tombstone"
    BY <2>1 DEF Inserted
  <2>3. QED
    BY <1>A, <2>1, <2>2
<1>4. ASSUME NEW t \in Task, NEW opened \in BOOLEAN,
             GetInserted(t) \/ get_or_load(t) \/ CacheHandle(t, opened)
      PROVE  ErasureInv'
  <2>1. /\ TaskMoves(t, {"idle", "load", "wait"}) /\ shard # "absent"
        /\ UNCHANGED <<row, shard, log, skipped, users, jobs, worker>>
    BY <1>4, <1>B, <1>R, TaskSteps DEF TaskMoves, GetInserted, get_or_load, CacheHandle, registry, queue
  <2>2. QED
    BY <1>A, <2>1
<1>5. ASSUME NEW t \in Task, load_tenant(t) PROVE ErasureInv'
  <2>1. /\ TaskMoves(t, {"idle", "cache"}) /\ shard # "absent" /\ shard' \in {shard, create_dir}
        /\ UNCHANGED <<row, log, skipped, users, jobs, worker>>
    BY <1>5, <1>B, <1>R, TaskSteps DEF load_tenant, registry, queue
  <2>2. QED
    BY <1>A, <1>S, <2>1
<1>6. ASSUME NEW t \in Task, begin_deprovision(t) \/ force_retry_deprovision(t) PROVE ErasureInv'
  <2>1. /\ TaskMoves(t, {"mark", "force"}) /\ row # "none"
        /\ UNCHANGED <<row, shard, log, skipped, users, jobs, worker>>
    BY <1>6, <1>R, TaskSteps DEF TaskMoves, begin_deprovision, force_retry_deprovision, registry, queue
  <2>2. shard # "absent"
    BY <1>I, <2>1 DEF NothingBeforeShard
  <2>3. QED
    BY <1>A, <2>1, <2>2
<1>7. ASSUME NEW t \in Task, mark_deleting(t) \/ ForceStatus(t) PROVE ErasureInv'
  <2>1. /\ TaskMoves(t, {"evict", "idle", "enqueue"}) /\ shard # "absent"
        /\ row' = "tombstone" => row = "tombstone"
        /\ UNCHANGED <<shard, log, skipped, users, jobs, worker>>
    BY <1>7, <1>B, <1>R, TaskSteps DEF TaskMoves, mark_deleting, ForceStatus, queue
  <2>2. QED
    BY <1>A, <2>1
<1>8. ASSUME NEW t \in Task, evict(t) \/ insert_deletion_log(t) PROVE ErasureInv'
  <2>1. /\ TaskMoves(t, {"log", "enqueue"}) /\ shard # "absent"
        /\ UNCHANGED <<row, shard, skipped, users, jobs, worker>>
    BY <1>8, <1>B, <1>R, TaskSteps DEF TaskMoves, evict, insert_deletion_log, registry, queue
  <2>2. QED
    BY <1>A, <2>1
<1>C. ASSUME NEW t \in Task, CallEnds(t) PROVE ErasureInv'
  <2>1. TaskMoves(t, {"idle"}) /\ UNCHANGED <<row, log, skipped, shard, users, jobs, worker>>
    BY <1>C, <1>R, TaskSteps DEF CallEnds, registry, queue
  <2>2. task'[t].pc = "idle" /\ \A u \in Task \ {t} : task'[u] = task[u]
    BY <2>1 DEF TaskMoves
  <2>3. NothingBeforeShard' /\ ErasedSoFar' /\ TombstoneMeansErased'
    BY <1>I, <2>1, <2>2 DEF NothingBeforeShard, ErasedSoFar, TombstoneMeansErased
  <2>4. QED
    BY <2>3 DEF ErasureInv
<1>9. ASSUME NEW t \in Task, skip_shard_deprovision(t) PROVE ErasureInv'
  <2>1. /\ TaskMoves(t, {"idle", "skip_rows"}) /\ log /\ skipped'
        /\ UNCHANGED <<row, log, shard, users, jobs, worker>>
    BY <1>9, <1>R, TaskSteps DEF skip_shard_deprovision, queue
  <2>2. shard # "absent"
    BY <1>I, <2>1 DEF NothingBeforeShard
  <2>3. QED
    BY <1>A, <2>1, <2>2
<1>10. ASSUME NEW t \in Task, SkipDeleteRows(t) PROVE ErasureInv'
  <2>1. /\ TaskMoves(t, {"skip_tombstone"}) /\ shard # "absent" /\ skipped /\ ~users'
        /\ UNCHANGED <<row, log, skipped, shard, jobs, worker>>
    BY <1>10, <1>B, <1>I, <1>R, TaskSteps DEF SkipDeleteRows, registry, queue, ErasedSoFar
  <2>2. task'[t].pc = "skip_tombstone" /\ \A u \in Task \ {t} : task'[u] = task[u]
    BY <2>1 DEF TaskMoves
  <2>3. NothingBeforeShard' /\ ErasedSoFar' /\ TombstoneMeansErased'
    BY <1>I, <2>1, <2>2 DEF NothingBeforeShard, ErasedSoFar, TombstoneMeansErased
  <2>4. QED
    BY <2>3 DEF ErasureInv
<1>11. ASSUME NEW t \in Task, SkipTombstone(t) PROVE ErasureInv'
  <2>1. /\ TaskMoves(t, {"idle"}) /\ shard # "absent" /\ skipped /\ ~users
        /\ UNCHANGED <<users, log, skipped, shard, jobs, worker>>
    BY <1>11, <1>B, <1>I, <1>R, TaskSteps DEF SkipTombstone, mark_tombstone, queue, ErasedSoFar
  <2>2. task'[t].pc = "idle" /\ \A u \in Task \ {t} : task'[u] = task[u]
    BY <2>1 DEF TaskMoves
  <2>3. NothingBeforeShard' /\ ErasedSoFar' /\ TombstoneMeansErased'
    BY <1>I, <2>1, <2>2 DEF NothingBeforeShard, ErasedSoFar, TombstoneMeansErased
  <2>4. QED
    BY <2>3 DEF ErasureInv
<1>12. ASSUME NEW t \in Task, EnqueueTeardown(t) PROVE ErasureInv'
  <2>1. /\ TaskMoves(t, {"idle"}) /\ shard # "absent"
        /\ UNCHANGED <<row, log, skipped, users, shard, worker>>
    BY <1>12, <1>B, <1>R, TaskSteps DEF EnqueueTeardown, Enqueued, registry
  <2>2. task'[t].pc = "idle" /\ \A u \in Task \ {t} : task'[u] = task[u]
    BY <2>1 DEF TaskMoves
  <2>3. NothingBeforeShard' /\ ErasedSoFar' /\ TombstoneMeansErased'
    BY <1>I, <2>1, <2>2 DEF NothingBeforeShard, ErasedSoFar, TombstoneMeansErased
  <2>4. QED
    BY <2>3 DEF ErasureInv
\* Jobs and calls that are under way, and tombstones, know of a directory.
<1>J. ASSUME shard # "absent", UNCHANGED <<users, skipped, shard, task>>, row' = row,
             worker'.pc \in {"idle", "remove", "err"}
      PROVE  ErasureInv'
  <2>1. NothingBeforeShard' /\ ErasedSoFar' /\ TombstoneMeansErased'
    BY <1>I, <1>J DEF NothingBeforeShard, ErasedSoFar, TombstoneMeansErased
  <2>2. QED
    BY <2>1 DEF ErasureInv
<1>K. worker.pc # "idle" => shard # "absent"
  BY <1>I DEF NothingBeforeShard
<1>13. ASSUME NEW j \in Job, Claim(j) PROVE ErasureInv'
  <2>1. shard # "absent"
    BY <1>13, <1>I DEF Claim, NothingBeforeShard
  <2>2. QED
    BY <1>13, <1>J, <2>1 DEF Claim, registry
<1>14. CASE RemoveShard
  <2>1. shard' = "removed" /\ worker'.pc = "rows" /\ UNCHANGED <<row, log, skipped, users, task>>
    BY <1>0, <1>14, <1>K DEF RemoveShard, Working, WorkerRow, registry
  <2>2. NothingBeforeShard' /\ ErasedSoFar' /\ TombstoneMeansErased'
    BY <1>I, <2>1 DEF NothingBeforeShard, ErasedSoFar, TombstoneMeansErased
  <2>3. QED
    BY <2>2 DEF ErasureInv
<1>15. CASE delete_monolith_rows
  <2>1. /\ shard' = shard /\ shard # "absent" /\ shard # "data" /\ worker'.pc = "tombstone" /\ ~users'
        /\ UNCHANGED <<row, log, skipped, task>>
    BY <1>0, <1>15, <1>I, <1>K DEF delete_monolith_rows, Working, WorkerRow, registry, ErasedSoFar
  <2>2. NothingBeforeShard' /\ ErasedSoFar' /\ TombstoneMeansErased'
    BY <1>I, <2>1 DEF NothingBeforeShard, ErasedSoFar, TombstoneMeansErased
  <2>3. QED
    BY <2>2 DEF ErasureInv
<1>16. CASE MarkTombstone
  <2>1. /\ shard' = shard /\ shard # "absent" /\ shard # "data" /\ worker'.pc = "ok" /\ ~users
        /\ UNCHANGED <<log, skipped, task, users>>
    BY <1>0, <1>16, <1>I, <1>K DEF MarkTombstone, mark_tombstone, Working, WorkerRow, ErasedSoFar
  <2>2. NothingBeforeShard' /\ ErasedSoFar' /\ TombstoneMeansErased'
    BY <1>I, <2>1 DEF NothingBeforeShard, ErasedSoFar, TombstoneMeansErased
  <2>3. QED
    BY <2>2 DEF ErasureInv
<1>17. CASE TeardownFails
  BY <1>0, <1>17, <1>J, <1>K DEF TeardownFails, Working, WorkerRow, registry
<1>18. ASSUME NEW written \in BOOLEAN, FinalizeJob(written) PROVE ErasureInv'
  BY <1>18, <1>J, <1>K, NoWorkIdle DEF FinalizeJob, registry
<1>19. ASSUME NEW j \in Job, recover_stuck_jobs(j) PROVE ErasureInv'
  <2>1. shard # "absent" /\ UNCHANGED <<row, log, skipped, users, shard, task, worker>>
    BY <1>19, <1>I DEF recover_stuck_jobs, NothingBeforeShard, registry
  <2>2. NothingBeforeShard' /\ ErasedSoFar' /\ TombstoneMeansErased'
    BY <1>I, <2>1 DEF NothingBeforeShard, ErasedSoFar, TombstoneMeansErased
  <2>3. QED
    BY <2>2 DEF ErasureInv
<1>20. CASE Crash
  <2>1. /\ UNCHANGED <<row, log, skipped, users, shard, jobs>> /\ worker'.pc = "idle"
        /\ \A t \in Task : task'[t].pc = "idle"
    BY <1>20, NoCallIdle, NoWorkIdle DEF Crash, registry
  <2>2. NothingBeforeShard' /\ ErasedSoFar' /\ TombstoneMeansErased'
    BY <1>I, <2>1 DEF NothingBeforeShard, ErasedSoFar, TombstoneMeansErased
  <2>3. QED
    BY <2>2 DEF ErasureInv
<1>21. CASE recover_orphans \/ RecoverFault
  <2>0. UNCHANGED <<row, skipped, users, shard, task, worker>>
    BY <1>21 DEF recover_orphans, RecoverFault, Enqueued, queue
  <2>1. ErasedSoFar' /\ TombstoneMeansErased'
    BY <1>I, <2>0 DEF ErasedSoFar, TombstoneMeansErased
  <2>2. shard = "absent" => row = "none"
    BY <1>I DEF NothingBeforeShard
  <2>3. shard = "absent" => UNCHANGED <<log, jobs>>
    BY <1>21, <2>2 DEF recover_orphans, RecoverFault, NeedsRecovery, queue
  <2>4. NothingBeforeShard'
    BY <1>I, <2>0, <2>3 DEF NothingBeforeShard
  <2>5. QED
    BY <2>1, <2>4 DEF ErasureInv
<1>22. CASE evict_idle \/ HoldElapses \/ purge_expired_tombstones \/ UNCHANGED vars
  <2>1. /\ row' = row \/ row' = "none"
        /\ UNCHANGED <<log, skipped, users, shard, task, jobs, worker>>
    BY <1>22 DEF evict_idle, HoldElapses, purge_expired_tombstones, vars, registry, queue
  <2>2. NothingBeforeShard' /\ ErasedSoFar' /\ TombstoneMeansErased'
    BY <1>I, <2>1 DEF NothingBeforeShard, ErasedSoFar, TombstoneMeansErased
  <2>3. QED
    BY <2>2 DEF ErasureInv
<1>23. QED
  BY <1>1, <1>2, <1>3, <1>4, <1>5, <1>6, <1>7, <1>8, <1>9, <1>10, <1>11, <1>12, <1>13, <1>14, <1>15,
     <1>16, <1>17, <1>18, <1>19, <1>20, <1>21, <1>22, <1>C DEF Next

\* A tombstone means that the tenant's rows in the monolith are gone, and its shard unless an
\* operator skipped it, for any number of requests, operators, jobs, crashes and lost writes.
THEOREM TombstonesAreErased == Spec => []TombstoneMeansErased
<1>1. Init => ErasureInv
  BY NoCallIdle, NoWorkIdle
     DEF Init, ErasureInv, NothingBeforeShard, ErasedSoFar, TombstoneMeansErased
<1>2. ErasureInv => TombstoneMeansErased
  BY DEF ErasureInv
<1>3. QED
  BY <1>1, <1>2, ErasureStep, TenantInvariant, PTL DEF Spec
-----------------------------------------------------------------------------
(* A deletion goes on, and is final. *)

\* A job that counts: the one whose handler is done and that is about to be completed does not.
Drives(j) ==
    /\ jobs[j].status \in {"pending", "running", "failed"}
    /\ ~(worker.job = j /\ worker.pc = "ok")

DrivenOn ==
    up /\ ~cut /\ row = "deleting" => (\E t \in Task : Driving(t)) \/ (\E j \in Job : Drives(j))

LEMMA DrivenStep == TenantInv /\ DrivenOn /\ [Next]_vars => DrivenOn'
<1> USE TenantAssumption
<1> SUFFICES ASSUME TenantInv, DrivenOn, [Next]_vars, up', ~cut', row' = "deleting"
             PROVE  (\E t \in Task : Driving(t)') \/ (\E j \in Job : Drives(j)')
  BY DEF DrivenOn
<1>0. jobs \in [Job -> JobRow] /\ worker \in WorkerRow /\ RestTyped
  BY TypedParts DEF TenantInv
<1>R. /\ row \in Status \cup {"none"} /\ task \in [Task -> TaskRow] /\ cut \in BOOLEAN
  BY <1>0 DEF RestTyped
<1>W. worker = NoWork \/ (worker.job \in Job /\ jobs[worker.job].status = "running")
  BY DEF TenantInv, WorkerOwns
\* A call that was not driving goes on, or returns; a call that goes on drives on.
<1>A. ASSUME NEW t \in Task, NEW pcs, TaskMoves(t, pcs), ~Driving(t) \/ pcs \subseteq {"evict", "log", "enqueue"},
             up, ~cut, row = "deleting", UNCHANGED <<jobs, worker>>
      PROVE  (\E u \in Task : Driving(u)') \/ (\E j \in Job : Drives(j)')
  <2>1. task'[t].pc \in pcs /\ \A u \in Task \ {t} : task'[u] = task[u]
    BY <1>A DEF TaskMoves
  <2>2. ASSUME NEW u \in Task, Driving(u) PROVE Driving(u)'
    BY <1>A, <2>1, <2>2 DEF Driving
  <2>3. ASSUME NEW j \in Job, Drives(j) PROVE Drives(j)'
    BY <1>A, <2>3 DEF Drives
  <2>4. QED
    BY <1>A, <2>2, <2>3 DEF DrivenOn
\* A call that drives from now on.
<1>B. ASSUME NEW t \in Task, NEW pcs, TaskMoves(t, pcs), pcs \subseteq {"evict", "log", "enqueue"}
      PROVE  \E u \in Task : Driving(u)'
  BY <1>B DEF TaskMoves, Driving
\* A job that is enqueued drives.
<1>E. ASSUME NEW j \in Job, Enqueued(j) PROVE Drives(j)'
  <2>1. jobs'[j].status = "pending" /\ worker' = worker
    BY <1>0, <1>E DEF Enqueued, JobRow
  <2>2. worker.job # j
    BY <1>E, <1>W, NoWorkIdle DEF Enqueued
  <2>3. QED
    BY <2>1, <2>2 DEF Drives
\* Calls and jobs are as they were.
<1>U. ASSUME up, ~cut, row = "deleting", UNCHANGED <<task, jobs, worker>>
      PROVE  (\E u \in Task : Driving(u)') \/ (\E j \in Job : Drives(j)')
  BY <1>U DEF DrivenOn, Driving, Drives
\* The jobs that drive go on doing so.
<1>V. ASSUME up, ~cut, row = "deleting", task' = task, \A j \in Job : Drives(j) => Drives(j)'
      PROVE  (\E u \in Task : Driving(u)') \/ (\E j \in Job : Drives(j)')
  BY <1>V DEF DrivenOn, Driving
<1>1. ASSUME NEW t \in Task, GetRow(t) \/ create_tenant(t) \/ GetInserted(t) \/ get_or_load(t)
      PROVE  (\E u \in Task : Driving(u)') \/ (\E j \in Job : Drives(j)')
  <2>1. /\ \E pcs : TaskMoves(t, pcs)
        /\ ~Driving(t)
    BY <1>1, <1>R, TaskSteps DEF GetRow, create_tenant, GetInserted, get_or_load, Driving
  <2>2. UNCHANGED <<row, up, cut, jobs, worker>>
    BY <1>1 DEF GetRow, create_tenant, GetInserted, get_or_load, registry, queue, budgets
  <2>3. QED
    BY <1>A, <2>1, <2>2
<1>2. ASSUME NEW t \in Task, NEW opened \in BOOLEAN,
             load_tenant(t) \/ CacheHandle(t, opened) \/ SkipDeleteRows(t)
      PROVE  (\E u \in Task : Driving(u)') \/ (\E j \in Job : Drives(j)')
  <2>1. (\E pcs : TaskMoves(t, pcs)) /\ ~Driving(t)
    BY <1>2, <1>R, TaskSteps DEF load_tenant, CacheHandle, SkipDeleteRows, Driving
  <2>2. UNCHANGED <<row, up, cut, jobs, worker>>
    BY <1>2 DEF load_tenant, CacheHandle, SkipDeleteRows, registry, queue, budgets
  <2>3. QED
    BY <1>A, <2>1, <2>2
<1>3. ASSUME NEW t \in Task, insert_or_get(t)
      PROVE  (\E u \in Task : Driving(u)') \/ (\E j \in Job : Drives(j)')
  <2>1. TaskMoves(t, {"get"}) /\ ~Driving(t)
    BY <1>3, <1>R, TaskSteps DEF insert_or_get, Driving
  <2>2. row = "deleting" /\ UNCHANGED <<up, cut, jobs, worker>>
    BY <1>3 DEF insert_or_get, Inserted, queue, budgets
  <2>3. QED
    BY <1>A, <2>1, <2>2
<1>4. ASSUME NEW t \in Task,
             \/ begin_deprovision(t) \/ force_retry_deprovision(t) \/ skip_shard_deprovision(t)
      PROVE  (\E u \in Task : Driving(u)') \/ (\E j \in Job : Drives(j)')
  <2>1. (\E pcs : TaskMoves(t, pcs)) /\ ~Driving(t)
    BY <1>4, <1>R, TaskSteps
       DEF begin_deprovision, force_retry_deprovision, skip_shard_deprovision, AdminCall, Driving
  <2>2. UNCHANGED <<row, up, cut, jobs, worker>>
    BY <1>4
       DEF begin_deprovision, force_retry_deprovision, skip_shard_deprovision, AdminCall, registry, queue
  <2>3. QED
    BY <1>A, <2>1, <2>2
<1>5. ASSUME NEW t \in Task, mark_deleting(t)
      PROVE  (\E u \in Task : Driving(u)') \/ (\E j \in Job : Drives(j)')
  <2>1. CASE row \in {"active", "suspended"}
    <3>1. TaskMoves(t, {"evict"})
      BY <1>5, <1>R, <2>1, Goes, PcValues DEF mark_deleting, TaskMoves
    <3>2. QED
      BY <1>B, <3>1
  <2>2. CASE row \notin {"active", "suspended"}
    <3>1. TaskMoves(t, {"evict", "idle"}) /\ ~Driving(t) /\ UNCHANGED <<row, up, cut, jobs, worker>>
      BY <1>5, <1>R, <2>2, TaskSteps DEF mark_deleting, Driving, queue, budgets
    <3>2. QED
      BY <1>A, <3>1
  <2>3. QED
    BY <2>1, <2>2
<1>6. ASSUME NEW t \in Task, evict(t) \/ insert_deletion_log(t) \/ ForceStatus(t)
      PROVE  (\E u \in Task : Driving(u)') \/ (\E j \in Job : Drives(j)')
  <2>1. TaskMoves(t, {"log", "enqueue"})
    BY <1>6, <1>R, TaskSteps DEF TaskMoves
  <2>2. QED
    BY <1>B, <2>1
<1>7. ASSUME NEW t \in Task, EnqueueTeardown(t)
      PROVE  (\E u \in Task : Driving(u)') \/ (\E j \in Job : Drives(j)')
  BY <1>7, <1>E DEF EnqueueTeardown
\* A call that ends early was not driving, as nothing is cut.
<1>8. ASSUME NEW t \in Task, CallEnds(t)
      PROVE  (\E u \in Task : Driving(u)') \/ (\E j \in Job : Drives(j)')
  <2>1. TaskMoves(t, {"idle"}) /\ UNCHANGED <<row, up, jobs, worker>>
    BY <1>8, <1>R, TaskSteps DEF CallEnds, registry, queue
  <2>2. ~cut /\ ~Driving(t)
    BY <1>8, Zenon DEF CallEnds
  <2>3. QED
    BY <1>A, <2>1, <2>2
<1>9. ASSUME NEW t \in Task, SkipTombstone(t) PROVE FALSE
  BY <1>9 DEF SkipTombstone, mark_tombstone
<1>10. ASSUME NEW j \in Job, Claim(j)
       PROVE  (\E u \in Task : Driving(u)') \/ (\E i \in Job : Drives(i)')
  <2>1. jobs'[j].status = "running" /\ worker'.pc = "remove"
    BY <1>0, <1>10 DEF Claim
  <2>2. QED
    BY <2>1 DEF Drives
<1>11. CASE RemoveShard \/ delete_monolith_rows \/ TeardownFails
  <2>1. worker.pc \notin {"idle", "ok"} /\ worker'.job = worker.job /\ worker'.pc # "ok" /\ jobs' = jobs
    BY <1>0, <1>11 DEF RemoveShard, delete_monolith_rows, TeardownFails, Working, WorkerRow
  <2>2. worker.job \in Job /\ jobs[worker.job].status = "running"
    BY <1>W, <2>1, NoWorkIdle
  <2>3. PICK j \in Job : j = worker.job
    BY <2>2
  <2>4. Drives(j)'
    BY <2>1, <2>2, <2>3 DEF Drives
  <2>5. QED
    BY <2>4
<1>12. CASE MarkTombstone
  BY <1>12 DEF MarkTombstone, mark_tombstone
<1>13. ASSUME NEW written \in BOOLEAN, FinalizeJob(written)
       PROVE  (\E u \in Task : Driving(u)') \/ (\E j \in Job : Drives(j)')
  <2>0. worker.pc \in {"ok", "err"} /\ worker' = NoWork /\ UNCHANGED <<row, up, cut, task>>
    BY <1>13 DEF FinalizeJob, registry
  <2>1. worker.job \in Job
    BY <1>W, <2>0, NoWorkIdle
  <2>2. PICK k \in Job : k = worker.job
    BY <2>1
  <2>3. worker'.pc = "idle"
    BY <2>0, NoWorkIdle
  <2>4. ASSUME NEW j \in Job, Drives(j) PROVE Drives(j)'
    <3>1. CASE ~written
      <4>1. jobs' = jobs
        BY <1>13, <3>1 DEF FinalizeJob
      <4>2. QED
        BY <2>3, <2>4, <4>1 DEF Drives
    <3>2. CASE written
      <4>1. jobs' = [jobs EXCEPT ![k].status = Outcome(k)]
        BY <1>13, <2>2, <3>2 DEF FinalizeJob
      <4>2. /\ worker.pc = "err" => jobs'[k].status \in {"pending", "failed"}
            /\ \A i \in Job \ {k} : jobs'[i] = jobs[i]
        BY <1>0, <4>1 DEF Outcome, JobRow
      <4>3. QED
        BY <2>0, <2>2, <2>3, <2>4, <4>2 DEF Drives
    <3>3. QED
      BY <3>1, <3>2
  <2>5. QED
    BY <1>V, <2>0, <2>4
<1>14. ASSUME NEW k \in Job, recover_stuck_jobs(k)
       PROVE  (\E u \in Task : Driving(u)') \/ (\E j \in Job : Drives(j)')
  <2>1. jobs'[k].status = "pending" /\ worker' = worker /\ worker.job # k
    BY <1>0, <1>14 DEF recover_stuck_jobs, JobRow
  <2>2. Drives(k)'
    BY <2>1 DEF Drives
  <2>3. QED
    BY <2>2
<1>15. CASE Crash \/ RecoverFault
  BY <1>15, <1>R DEF Crash, RecoverFault
<1>16. CASE recover_orphans
  <2>1. row' = row
    BY <1>16 DEF recover_orphans
  <2>2. QED
    BY <1>16, <1>E, <2>1 DEF recover_orphans, NeedsRecovery
<1>17. CASE evict_idle \/ HoldElapses \/ purge_expired_tombstones \/ UNCHANGED vars
  <2>1. row' = row \/ row' = "none"
    BY <1>17 DEF evict_idle, HoldElapses, purge_expired_tombstones, vars, registry
  <2>2. UNCHANGED <<up, cut, task, jobs, worker>>
    BY <1>17 DEF evict_idle, HoldElapses, purge_expired_tombstones, vars, queue, budgets
  <2>3. QED
    BY <1>U, <2>1, <2>2
<1>18. QED
  BY <1>1, <1>2, <1>3, <1>4, <1>5, <1>6, <1>7, <1>8, <1>9, <1>10, <1>11, <1>12, <1>13, <1>14, <1>15,
     <1>16, <1>17 DEF Next

\* A tenant in 'deleting' is driven on by a call or a job, however many operators and jobs there
\* are: no crash between two of their steps strands it and no lost write of the worker does, only
\* a call that ends early, or a recovery that fails, until the next boot.
THEOREM DeletionIsDriven == Spec => []DeletingIsDriven
<1>1. Init => DrivenOn
  BY DEF Init, DrivenOn
<1>2. DrivenOn => DeletingIsDriven
  BY DEF DrivenOn, DeletingIsDriven, Drives, Active
<1>3. QED
  BY <1>1, <1>2, DrivenStep, TenantInvariant, PTL DEF Spec

\* The steps that write the row's status.
LEMMA RowWriters ==
    ASSUME [Next]_vars
    PROVE  \/ row' = row
           \/ \E t \in Task : mark_deleting(t) \/ ForceStatus(t) \/ insert_or_get(t) \/ SkipTombstone(t)
           \/ MarkTombstone
           \/ purge_expired_tombstones
<1>1. ASSUME NEW t \in Task,
             \/ GetRow(t) \/ create_tenant(t) \/ GetInserted(t) \/ get_or_load(t) \/ load_tenant(t)
             \/ (\E opened \in BOOLEAN : CacheHandle(t, opened)) \/ begin_deprovision(t) \/ evict(t)
             \/ insert_deletion_log(t) \/ EnqueueTeardown(t) \/ CallEnds(t)
             \/ force_retry_deprovision(t) \/ skip_shard_deprovision(t) \/ SkipDeleteRows(t)
      PROVE  row' = row
  BY <1>1
     DEF GetRow, create_tenant, GetInserted, get_or_load, load_tenant, CacheHandle, begin_deprovision,
         evict, insert_deletion_log, EnqueueTeardown, CallEnds, force_retry_deprovision,
         skip_shard_deprovision, SkipDeleteRows, registry
<1>2. ASSUME NEW j \in Job, Claim(j) \/ recover_stuck_jobs(j) PROVE row' = row
  BY <1>2 DEF Claim, recover_stuck_jobs, registry
<1>3. ASSUME \/ \E written \in BOOLEAN : FinalizeJob(written)
             \/ evict_idle \/ RemoveShard \/ delete_monolith_rows \/ TeardownFails
             \/ Crash \/ recover_orphans \/ RecoverFault \/ HoldElapses
      PROVE  row' = row
  BY <1>3
     DEF FinalizeJob, evict_idle, RemoveShard, delete_monolith_rows, TeardownFails, Crash,
         recover_orphans, RecoverFault, HoldElapses, registry
<1>4. CASE UNCHANGED vars
  BY <1>4 DEF vars, registry
<1>5. QED
  BY <1>1, <1>2, <1>3, <1>4 DEF Next

\* The statuses of a tenant that is on its way out.
Left == {"deleting", "tombstone", "stuck"}

\* Only the purge takes a tenant out of them.
LEMMA LeftStays ==
    ASSUME [Next]_vars, row \in Left
    PROVE  \/ row' \in Left /\ (row # "stuck" => row' \in {"deleting", "tombstone"})
           \/ purge_expired_tombstones /\ row = "tombstone" /\ held /\ row' = "none"
<1>1. ASSUME NEW t \in Task, mark_deleting(t) \/ ForceStatus(t) \/ insert_or_get(t) \/ SkipTombstone(t)
      PROVE  row' \in {row, "deleting", "tombstone"}
  BY <1>1 DEF mark_deleting, ForceStatus, insert_or_get, Inserted, SkipTombstone, mark_tombstone, Left
<1>2. CASE MarkTombstone
  BY <1>2 DEF MarkTombstone, mark_tombstone, Left
<1>3. CASE purge_expired_tombstones
  BY <1>3 DEF purge_expired_tombstones, Left
<1>4. QED
  BY <1>1, <1>2, <1>3, RowWriters DEF Left

\* A deletion is never reverted, and only the purge removes a tombstone.
THEOREM DeletionsAreFinal == Spec => DeletionIsFinal
<1> DEFINE Stays == (row \in {"deleting", "tombstone"}) =>
                       \/ row' \in {"deleting", "tombstone"}
                       \/ row = "tombstone" /\ held /\ row' = "none"
<1>1. [Next]_vars => [Stays]_vars
  <2> SUFFICES ASSUME [Next]_vars, row \in {"deleting", "tombstone"}
               PROVE  \/ row' \in {"deleting", "tombstone"}
                      \/ row = "tombstone" /\ held /\ row' = "none"
    OBVIOUS
  <2>1. QED
    BY LeftStays DEF Left
<1>2. QED
  BY <1>1, PTL DEF Spec, DeletionIsFinal
-----------------------------------------------------------------------------
(* The tenant implements TenantLife. *)

\* A call, a job or the worker is at a deletion.
AtWork ==
    \/ worker.pc # "idle"
    \/ \E j \in Job : Active(j)
    \/ \E t \in Task : task[t].pc \in {"evict", "log", "enqueue", "force", "skip_rows", "skip_tombstone"}

\* What a deletion leaves behind.
Touched == shard \in {"removed", "recreated"} \/ log \/ skipped \/ ~users

\* The tenant was purged, and no request that found no row is left to insert one.
Departed == row = "none" /\ ~users /\ \A t \in Task : task[t].pc \notin {"create", "insert"}

LifeInv == (AtWork => row \in Left) /\ (Touched => row \in Left \/ Departed)

LEMMA LifeInitially == Init => LifeInv
  BY NoCallIdle, NoWorkIdle DEF Init, LifeInv, AtWork, Touched, Active

LEMMA LifeStep == TenantInv /\ ErasureInv /\ LifeInv /\ [Next]_vars => LifeInv'
<1> SUFFICES ASSUME TenantInv, ErasureInv, LifeInv, [Next]_vars PROVE LifeInv'
  OBVIOUS
<1>0. jobs \in [Job -> JobRow] /\ worker \in WorkerRow /\ RestTyped
  BY TypedParts DEF TenantInv
<1>R. /\ row \in Status \cup {"none"} /\ task \in [Task -> TaskRow]
      /\ shard \in {"absent", "data", "removed", "recreated"}
  BY <1>0 DEF RestTyped
<1>1. CASE row \in Left
  <2>1. CASE row' \in Left
    BY <2>1 DEF LifeInv
  <2>2. CASE purge_expired_tombstones /\ row = "tombstone" /\ row' = "none"
    <3>1. Quiet /\ UNCHANGED <<users, task, jobs, worker>>
      BY <2>2 DEF purge_expired_tombstones, queue
    <3>2. ~users
      BY <2>2 DEF ErasureInv, TombstoneMeansErased
    <3>3. Departed'
      BY <2>2, <3>1, <3>2 DEF Departed, Quiet
    <3>4. ~AtWork'
      BY <3>1, NoWorkIdle DEF AtWork, Quiet, Active
    <3>5. QED
      BY <3>3, <3>4 DEF LifeInv
  <2>3. QED
    BY <1>1, <2>1, <2>2, LeftStays
\* As long as the tenant is not on its way out, nobody is at work on its deletion.
<1>2. CASE row \notin Left
  <2>0. ~AtWork /\ (Touched => Departed)
    BY <1>2 DEF LifeInv
  <2>J. worker.pc = "idle" /\ \A j \in Job : ~Active(j)
    BY <2>0 DEF AtWork
  \* A call of a request, which neither erases nor logs anything.
  <2>A. ASSUME NEW t \in Task, NEW pcs \in SUBSET {"idle", "create", "insert", "get", "load", "wait", "cache", "mark"},
               TaskMoves(t, pcs), row' = row, UNCHANGED <<log, users, jobs, worker>>,
               skipped' => skipped \/ log,
               shard' \in {"removed", "recreated"} => shard \in {"removed", "recreated"},
               task'[t].pc \in {"create", "insert"} => users
        PROVE  LifeInv'
    <3>1. task'[t].pc \in pcs /\ \A u \in Task \ {t} : task'[u] = task[u]
      BY <2>A DEF TaskMoves
    <3>2. ~AtWork'
      BY <2>0, <2>A, <3>1 DEF AtWork, Active
    <3>3. Touched' => Touched
      BY <2>A DEF Touched
    <3>4. Departed => Departed'
      BY <2>A, <3>1 DEF Departed
    <3>5. QED
      BY <2>0, <3>2, <3>3, <3>4 DEF LifeInv
  <2>1. ASSUME NEW t \in Task, NEW opened \in BOOLEAN,
               \/ GetRow(t) \/ GetInserted(t) \/ get_or_load(t) \/ CacheHandle(t, opened)
               \/ begin_deprovision(t)
        PROVE  LifeInv'
    <3>1. TaskMoves(t, {"idle", "create", "load", "wait", "mark"})
      BY <2>1, <1>R, TaskSteps DEF TaskMoves
    <3>2. UNCHANGED <<row, log, skipped, shard, users, jobs, worker>>
      BY <2>1 DEF GetRow, GetInserted, get_or_load, CacheHandle, begin_deprovision, registry, queue
    <3>3. task'[t].pc = "create" => users
      BY <2>1, <1>R, TaskSteps
         DEF TaskMoves, GetRow, GetInserted, get_or_load, CacheHandle, begin_deprovision
    <3>4. task'[t].pc # "insert"
      BY <3>1 DEF TaskMoves
    <3>5. QED
      BY <2>A, <3>1, <3>2, <3>3, <3>4
  <2>2. ASSUME NEW t \in Task, create_tenant(t) PROVE LifeInv'
    <3>1. TaskMoves(t, {"insert"}) /\ shard' = create_dir
      BY <2>2, <1>R, TaskSteps DEF create_tenant
    <3>2. UNCHANGED <<row, log, skipped, users, jobs, worker>>
      BY <2>2 DEF create_tenant, registry, queue
    <3>3. users /\ shard \notin {"removed", "recreated"}
      BY <2>0, <2>2 DEF create_tenant, Touched, Departed
    <3>4. shard' \notin {"removed", "recreated"}
      BY <1>R, <3>1, <3>3 DEF create_dir
    <3>5. QED
      BY <2>A, <3>1, <3>2, <3>3, <3>4
  <2>3. ASSUME NEW t \in Task, load_tenant(t) PROVE LifeInv'
    <3>1. TaskMoves(t, {"idle", "cache"}) /\ shard' \in {shard, create_dir}
      BY <2>3, <1>R, TaskSteps DEF load_tenant
    <3>2. UNCHANGED <<row, log, skipped, users, jobs, worker>>
      BY <2>3 DEF load_tenant, registry, queue
    <3>3. shard' \in {"removed", "recreated"} => shard \in {"removed", "recreated"}
      BY <1>R, <3>1 DEF create_dir
    <3>4. task'[t].pc \notin {"create", "insert"}
      BY <3>1 DEF TaskMoves
    <3>5. QED
      BY <2>A, <3>1, <3>2, <3>3, <3>4
  \* A row is inserted for a tenant that was never deleted.
  <2>4. ASSUME NEW t \in Task, insert_or_get(t) PROVE LifeInv'
    <3>1. TaskMoves(t, {"get"}) /\ UNCHANGED <<log, skipped, shard, users, jobs, worker>>
      BY <2>4, <1>R, TaskSteps DEF insert_or_get, queue
    <3>2. ~Touched
      BY <2>0, <2>4 DEF insert_or_get, Departed
    <3>3. ~Touched'
      BY <3>1, <3>2 DEF Touched
    <3>4. ~AtWork'
      BY <2>0, <3>1 DEF AtWork, Active, TaskMoves
    <3>5. QED
      BY <3>3, <3>4 DEF LifeInv
  <2>5. ASSUME NEW t \in Task, mark_deleting(t) PROVE LifeInv'
    <3>1. CASE row \in {"active", "suspended"}
      BY <2>5, <3>1 DEF mark_deleting, Left, LifeInv
    <3>2. CASE row \notin {"active", "suspended"}
      <4>1. TaskMoves(t, {"idle"}) /\ UNCHANGED <<row, log, skipped, shard, users, jobs, worker>>
        BY <2>5, <3>2, <1>R, Returns DEF mark_deleting, TaskMoves, queue
      <4>2. task'[t].pc \notin {"create", "insert"}
        BY <4>1 DEF TaskMoves
      <4>3. QED
        BY <2>A, <4>1, <4>2
    <3>3. QED
      BY <3>1, <3>2
  <2>6. ASSUME NEW t \in Task, CallEnds(t) PROVE LifeInv'
    <3>1. TaskMoves(t, {"idle"}) /\ UNCHANGED <<row, log, skipped, shard, users, jobs, worker>>
      BY <2>6, <1>R, TaskSteps DEF CallEnds, registry, queue
    <3>2. task'[t].pc \notin {"create", "insert"}
      BY <3>1 DEF TaskMoves
    <3>3. QED
      BY <2>A, <3>1, <3>2
  <2>7. ASSUME NEW t \in Task, force_retry_deprovision(t) PROVE LifeInv'
    BY <2>0, <2>7 DEF force_retry_deprovision, Touched, Departed
  <2>8. ASSUME NEW t \in Task, skip_shard_deprovision(t) PROVE LifeInv'
    <3>1. log /\ row = "none" /\ UNCHANGED <<row, log, shard, users, task, jobs, worker>>
      BY <2>0, <2>8 DEF skip_shard_deprovision, Touched, Departed, queue
    <3>2. Departed' /\ ~AtWork'
      BY <2>0, <3>1 DEF Departed, AtWork, Active, Touched
    <3>3. QED
      BY <3>2 DEF LifeInv
  <2>9. ASSUME NEW t \in Task,
               \/ evict(t) \/ insert_deletion_log(t) \/ EnqueueTeardown(t) \/ ForceStatus(t)
               \/ SkipDeleteRows(t) \/ SkipTombstone(t)
        PROVE  FALSE
    BY <2>0, <2>9
       DEF AtWork, evict, insert_deletion_log, EnqueueTeardown, ForceStatus, SkipDeleteRows, SkipTombstone
  <2>10. ASSUME NEW j \in Job, Claim(j) \/ recover_stuck_jobs(j) PROVE FALSE
    BY <2>J, <2>10 DEF Claim, recover_stuck_jobs, Active
  <2>11. ASSUME \/ RemoveShard \/ delete_monolith_rows \/ MarkTombstone \/ TeardownFails
                \/ \E written \in BOOLEAN : FinalizeJob(written)
         PROVE  FALSE
    BY <2>J, <2>11
       DEF RemoveShard, delete_monolith_rows, MarkTombstone, TeardownFails, FinalizeJob, Working
  <2>12. CASE Crash
    <3>1. /\ UNCHANGED <<row, log, skipped, shard, users, jobs>> /\ worker'.pc = "idle"
          /\ \A t \in Task : task'[t].pc = "idle"
      BY <2>12, NoCallIdle, NoWorkIdle DEF Crash, registry
    <3>2. ~AtWork' /\ (Touched' => Touched) /\ (Departed => Departed')
      BY <2>J, <3>1 DEF AtWork, Active, Touched, Departed
    <3>3. QED
      BY <2>0, <3>2 DEF LifeInv
  <2>13. CASE recover_orphans \/ RecoverFault
    <3>0. row # "deleting"
      BY <1>2 DEF Left
    <3>1. UNCHANGED <<row, log, skipped, shard, users, task, jobs, worker>>
      BY <2>13, <3>0 DEF recover_orphans, RecoverFault, NeedsRecovery, queue
    <3>2. ~AtWork' /\ (Touched' => Touched) /\ (Departed => Departed')
      BY <2>0, <3>1 DEF AtWork, Active, Touched, Departed
    <3>3. QED
      BY <2>0, <3>2 DEF LifeInv
  <2>14. CASE evict_idle \/ HoldElapses \/ purge_expired_tombstones \/ UNCHANGED vars
    <3>1. UNCHANGED <<row, log, skipped, shard, users, task, jobs, worker>>
      BY <1>2, <2>14
         DEF evict_idle, HoldElapses, purge_expired_tombstones, vars, registry, queue, Left
    <3>2. ~AtWork' /\ (Touched' => Touched) /\ (Departed => Departed')
      BY <2>0, <3>1 DEF AtWork, Active, Touched, Departed
    <3>3. QED
      BY <2>0, <3>2 DEF LifeInv
  <2>15. QED
    BY <2>1, <2>2, <2>3, <2>4, <2>5, <2>6, <2>7, <2>8, <2>9, <2>10, <2>11, <2>12, <2>13, <2>14 DEF Next
<1>3. QED
  BY <1>1, <1>2

\* Only a tenant that is on its way out has anybody at work on its deletion, and whatever a
\* deletion touched is a tenant's that is on its way out or has been purged.
THEOREM LifeInvariant == Spec => [](TenantInv /\ ErasureInv /\ LifeInv)
<1>1. Init => ErasureInv
  BY NoCallIdle, NoWorkIdle
     DEF Init, ErasureInv, NothingBeforeShard, ErasedSoFar, TombstoneMeansErased
<1>2. QED
  BY <1>1, TenantInitially, TenantStep, ErasureStep, LifeInitially, LifeStep, PTL DEF Spec

\* The mapping of the status, in this state and in the next.
LEMMA LifeValues ==
    /\ row = "none" => LifeOf = "absent"
    /\ row \in {"active", "suspended"} => LifeOf = "live"
    /\ row = "tombstone" => LifeOf = "buried"
    /\ row \in {"deleting", "stuck"} => LifeOf = "leaving"
    /\ row' = "none" => LifeOf' = "absent"
    /\ row' \in {"active", "suspended"} => LifeOf' = "live"
    /\ row' = "tombstone" => LifeOf' = "buried"
    /\ row' \in {"deleting", "stuck"} => LifeOf' = "leaving"
    /\ row' = row => LifeOf' = LifeOf
  BY DEF LifeOf

\* Every step is a step of TenantLife or changes nothing it can see.
LEMMA LifeRefines ==
    ASSUME TenantInv, ErasureInv, LifeInv, [Next]_vars
    PROVE  [Life!Next]_(Life!vars)
<1>0. jobs \in [Job -> JobRow] /\ worker \in WorkerRow /\ RestTyped
  BY TypedParts DEF TenantInv
<1>R. /\ row \in Status \cup {"none"} /\ task \in [Task -> TaskRow]
      /\ shard \in {"absent", "data", "removed", "recreated"}
      /\ users \in BOOLEAN /\ skipped \in BOOLEAN /\ held \in BOOLEAN
  BY <1>0 DEF RestTyped
<1>I. NothingBeforeShard /\ ErasedSoFar /\ TombstoneMeansErased
  BY DEF ErasureInv
<1>L. (AtWork => row \in Left) /\ (Touched => row \in Left \/ Departed)
  BY DEF LifeInv
<1>V. row \in Left => LifeOf \in {"leaving", "buried"}
  BY LifeValues DEF Left
<1>U. ASSUME UNCHANGED <<row, users, skipped, held>>, shard' = "data" <=> shard = "data"
      PROVE  [Life!Next]_(Life!vars)
  <2>1. LifeOf' = LifeOf /\ (shard' = "data") = (shard = "data")
    BY <1>U, LifeValues
  <2>2. QED
    BY <1>U, <2>1 DEF Life!vars
<1>1. ASSUME NEW t \in Task, NEW opened \in BOOLEAN,
             \/ GetRow(t) \/ GetInserted(t) \/ get_or_load(t) \/ CacheHandle(t, opened)
             \/ begin_deprovision(t) \/ evict(t) \/ insert_deletion_log(t) \/ EnqueueTeardown(t)
             \/ CallEnds(t) \/ force_retry_deprovision(t)
      PROVE  [Life!Next]_(Life!vars)
  <2>1. UNCHANGED <<row, users, skipped, held, shard>>
    BY <1>1
       DEF GetRow, GetInserted, get_or_load, CacheHandle, begin_deprovision, evict, insert_deletion_log,
           EnqueueTeardown, CallEnds, force_retry_deprovision, registry
  <2>2. QED
    BY <1>U, <2>1
<1>2. ASSUME NEW t \in Task, create_tenant(t) PROVE [Life!Next]_(Life!vars)
  <2>0. shard' = create_dir /\ UNCHANGED <<row, users, skipped, held>>
    BY <1>2 DEF create_tenant, registry
  <2>1. CASE shard = "absent"
    <3>1. row = "none" /\ users
      BY <1>2, <1>I, <1>L, <2>1 DEF NothingBeforeShard, create_tenant, Touched, Departed, Left
    <3>2. shard' = "data"
      BY <2>0, <2>1 DEF create_dir
    <3>3. LifeOf = "absent" /\ LifeOf' = LifeOf /\ (shard' = "data") = TRUE
      BY <2>0, <3>1, <3>2, LifeValues
    <3>4. Life!Furnish
      BY <2>0, <3>1, <3>3 DEF Life!Furnish
    <3>5. QED
      BY <3>4 DEF Life!Next
  <2>2. CASE shard # "absent"
    <3>1. shard' = "data" <=> shard = "data"
      BY <1>R, <2>0, <2>2 DEF create_dir
    <3>2. QED
      BY <1>U, <2>0, <3>1
  <2>3. QED
    BY <2>1, <2>2
<1>3. ASSUME NEW t \in Task, insert_or_get(t) PROVE [Life!Next]_(Life!vars)
  <2>0. row' = Inserted /\ UNCHANGED <<users, skipped, held, shard>>
    BY <1>3 DEF insert_or_get
  <2>1. CASE row = "none"
    <3>1. shard # "absent" /\ ~Touched
      BY <1>3, <1>I, <1>L, <2>1 DEF insert_or_get, NothingBeforeShard, Departed, Left
    <3>2. shard = "data" /\ users
      BY <1>R, <3>1 DEF Touched
    <3>3. LifeOf = "absent" /\ LifeOf' = "live" /\ (shard' = "data") = (shard = "data")
      BY <2>0, <2>1, LifeValues DEF Inserted
    <3>4. Life!Admit
      BY <2>0, <3>2, <3>3 DEF Life!Admit
    <3>5. QED
      BY <3>4 DEF Life!Next
  <2>2. CASE row # "none"
    BY <1>U, <2>0, <2>2 DEF Inserted
  <2>3. QED
    BY <2>1, <2>2
<1>4. ASSUME NEW t \in Task, load_tenant(t) PROVE [Life!Next]_(Life!vars)
  <2>1. shard' \in {shard, create_dir} /\ UNCHANGED <<row, users, skipped, held>>
    BY <1>4 DEF load_tenant, registry
  <2>2. shard # "absent"
    BY <1>4, <1>I DEF load_tenant, NothingBeforeShard
  <2>3. shard' = "data" <=> shard = "data"
    BY <1>R, <2>1, <2>2 DEF create_dir
  <2>4. QED
    BY <1>U, <2>1, <2>3
<1>5. ASSUME NEW t \in Task, mark_deleting(t) PROVE [Life!Next]_(Life!vars)
  <2>0. UNCHANGED <<users, skipped, held, shard>>
    BY <1>5 DEF mark_deleting
  <2>1. CASE row \in {"active", "suspended"}
    <3>1. LifeOf = "live" /\ LifeOf' = "leaving" /\ (shard' = "data") = (shard = "data")
      BY <1>5, <2>0, <2>1, LifeValues DEF mark_deleting
    <3>2. Life!Leave
      BY <2>0, <3>1 DEF Life!Leave
    <3>3. QED
      BY <3>2 DEF Life!Next
  <2>2. CASE row \notin {"active", "suspended"}
    BY <1>5, <1>U, <2>0, <2>2 DEF mark_deleting
  <2>3. QED
    BY <2>1, <2>2
<1>6. ASSUME NEW t \in Task, ForceStatus(t) PROVE [Life!Next]_(Life!vars)
  <2>0. UNCHANGED <<users, skipped, held, shard>> /\ row \in Left /\ row' = "deleting"
    BY <1>6, <1>L DEF ForceStatus, AtWork, Left
  <2>1. LifeOf' = "leaving" /\ (shard' = "data") = (shard = "data")
    BY <2>0, LifeValues
  <2>2. CASE row = "tombstone"
    <3>1. Life!Reopen
      BY <2>0, <2>1, <2>2, LifeValues DEF Life!Reopen
    <3>2. QED
      BY <3>1 DEF Life!Next
  <2>3. CASE row # "tombstone"
    <3>1. LifeOf = "leaving"
      BY <2>0, <2>3, LifeValues DEF Left
    <3>2. QED
      BY <2>0, <2>1, <3>1 DEF Life!vars
  <2>4. QED
    BY <2>2, <2>3
<1>7. ASSUME NEW t \in Task, skip_shard_deprovision(t) PROVE [Life!Next]_(Life!vars)
  <2>0. log /\ skipped' = TRUE /\ UNCHANGED <<row, users, held, shard>>
    BY <1>7 DEF skip_shard_deprovision
  <2>1. LifeOf # "live" /\ (LifeOf = "absent" => ~users)
    <3>1. CASE row \in Left
      BY <1>V, <3>1
    <3>2. CASE row \notin Left
      BY <1>L, <2>0, <3>2, LifeValues DEF Touched, Departed
    <3>3. QED
      BY <3>1, <3>2
  <2>2. LifeOf' = LifeOf /\ (shard' = "data") = (shard = "data")
    BY <2>0, LifeValues
  <2>3. Life!Waive
    BY <2>0, <2>1, <2>2 DEF Life!Waive
  <2>4. QED
    BY <2>3 DEF Life!Next
\* The rows are deleted, by the job or by a skip.
<1>E. ASSUME row \in Left, users' = FALSE, UNCHANGED <<row, skipped, held, shard>>
      PROVE  [Life!Next]_(Life!vars)
  <2>1. LifeOf' = LifeOf /\ (shard' = "data") = (shard = "data")
    BY <1>E, LifeValues
  <2>2. Life!EraseRows
    BY <1>E, <1>V, <2>1 DEF Life!EraseRows
  <2>3. QED
    BY <2>2 DEF Life!Next
\* mark_tombstone, by the job or by a skip, when what it stands for is done.
<1>B. ASSUME mark_tombstone, ~users, shard = "data" => skipped, UNCHANGED <<shard, users>>
      PROVE  [Life!Next]_(Life!vars)
  <2>1. CASE row = "deleting"
    <3>1. /\ LifeOf = "leaving" /\ LifeOf' = "buried" /\ held' = FALSE /\ UNCHANGED skipped
          /\ (shard' = "data") = (shard = "data")
      BY <1>B, <2>1, LifeValues DEF mark_tombstone
    <3>2. Life!Bury
      BY <1>B, <3>1 DEF Life!Bury
    <3>3. QED
      BY <3>2 DEF Life!Next
  <2>2. CASE row # "deleting"
    <3>1. UNCHANGED <<row, skipped>> /\ held' = (held /\ TRUE)
      BY <1>B, <2>2 DEF mark_tombstone
    <3>2. held' = held
      BY <1>R, <3>1
    <3>3. QED
      BY <1>B, <1>U, <3>1, <3>2
  <2>3. QED
    BY <2>1, <2>2
<1>8. ASSUME NEW t \in Task, SkipDeleteRows(t) PROVE [Life!Next]_(Life!vars)
  <2>1. row \in Left
    BY <1>8, <1>L DEF SkipDeleteRows, AtWork
  <2>2. QED
    BY <1>8, <1>E, <2>1 DEF SkipDeleteRows, registry
<1>9. ASSUME NEW t \in Task, SkipTombstone(t) PROVE [Life!Next]_(Life!vars)
  <2>1. ~users /\ skipped
    BY <1>9, <1>I DEF SkipTombstone, ErasedSoFar
  <2>2. QED
    BY <1>9, <1>B, <2>1 DEF SkipTombstone
<1>10. CASE RemoveShard
  <2>0. row \in Left /\ shard # "absent"
    BY <1>10, <1>I, <1>L DEF RemoveShard, Working, AtWork, NothingBeforeShard
  <2>1. shard' = "removed" /\ UNCHANGED <<row, users, skipped, held>>
    BY <1>10, <2>0 DEF RemoveShard, registry
  <2>2. LifeOf' = LifeOf /\ (shard' = "data") = FALSE
    BY <2>1, LifeValues
  <2>3. Life!EraseFiles
    BY <1>V, <2>0, <2>1, <2>2 DEF Life!EraseFiles
  <2>4. QED
    BY <2>3 DEF Life!Next
<1>11. CASE delete_monolith_rows
  <2>1. row \in Left
    BY <1>11, <1>L DEF delete_monolith_rows, Working, AtWork
  <2>2. QED
    BY <1>11, <1>E, <2>1 DEF delete_monolith_rows, registry
<1>12. CASE MarkTombstone
  <2>1. ~users /\ shard # "data"
    BY <1>12, <1>I DEF MarkTombstone, Working, ErasedSoFar
  <2>2. QED
    BY <1>12, <1>B, <2>1 DEF MarkTombstone
<1>13. CASE HoldElapses
  <2>1. LifeOf = "buried" /\ held' = TRUE /\ UNCHANGED <<row, users, skipped, shard>>
    BY <1>13, LifeValues DEF HoldElapses
  <2>2. LifeOf' = LifeOf /\ (shard' = "data") = (shard = "data")
    BY <2>1, LifeValues
  <2>3. Life!Expire
    BY <2>1, <2>2 DEF Life!Expire
  <2>4. QED
    BY <2>3 DEF Life!Next
<1>14. CASE purge_expired_tombstones
  <2>0. UNCHANGED <<users, skipped, held, shard>>
    BY <1>14 DEF purge_expired_tombstones
  <2>1. CASE row = "tombstone" /\ held
    <3>1. LifeOf = "buried" /\ LifeOf' = "absent" /\ (shard' = "data") = (shard = "data")
      BY <1>14, <2>0, <2>1, LifeValues DEF purge_expired_tombstones
    <3>2. Life!Purge
      BY <2>0, <2>1, <3>1 DEF Life!Purge
    <3>3. QED
      BY <3>2 DEF Life!Next
  <2>2. CASE ~(row = "tombstone" /\ held)
    BY <1>14, <1>U, <2>0, <2>2 DEF purge_expired_tombstones
  <2>3. QED
    BY <2>1, <2>2
<1>15. ASSUME NEW j \in Job, Claim(j) \/ recover_stuck_jobs(j) PROVE [Life!Next]_(Life!vars)
  BY <1>15, <1>U DEF Claim, recover_stuck_jobs, registry
<1>16. ASSUME \/ \E written \in BOOLEAN : FinalizeJob(written)
              \/ TeardownFails \/ evict_idle \/ Crash \/ recover_orphans \/ RecoverFault \/ UNCHANGED vars
       PROVE  [Life!Next]_(Life!vars)
  <2>1. UNCHANGED <<row, users, skipped, held, shard>>
    BY <1>16
       DEF FinalizeJob, TeardownFails, evict_idle, Crash, recover_orphans, RecoverFault, vars, registry
  <2>2. QED
    BY <1>U, <2>1
<1>17. QED
  BY <1>1, <1>2, <1>3, <1>4, <1>5, <1>6, <1>7, <1>8, <1>9, <1>10, <1>11, <1>12, <1>13, <1>14, <1>15,
     <1>16 DEF Next

\* The tenant implements TenantLife, for any number of requests, operators, jobs, crashes and lost
\* writes: its data is erased only while it is being deleted, it is buried only when erased, and a
\* tenant that was marked for deletion never becomes active again.
THEOREM RefinesTenantLife == Spec => ImplementsTenantLife
<1>1. Init => Life!Init
  <2> SUFFICES ASSUME Init PROVE Life!Init
    OBVIOUS
  <2>1. LifeOf = "absent" /\ (shard = "data") = FALSE
    BY LifeValues DEF Init
  <2>2. QED
    BY <2>1 DEF Init, Life!Init
<1>2. TenantInv /\ ErasureInv /\ LifeInv /\ [Next]_vars => [Life!Next]_(Life!vars)
  BY LifeRefines
<1>3. QED
  BY <1>1, <1>2, LifeInvariant, PTL DEF Spec, ImplementsTenantLife, Life!Spec
-----------------------------------------------------------------------------
(* The teardown jobs implement LeaseQueue. *)

LEMMA TeardownMapping ==
    /\ TeardownState = [j \in Job |-> StateOf(jobs[j].status)]
    /\ TeardownHolders = [j \in Job |-> IF worker.job = j THEN {"worker"} ELSE {}]
    /\ TeardownState' = [j \in Job |-> StateOf(jobs'[j].status)]
    /\ TeardownHolders' = [j \in Job |-> IF worker'.job = j THEN {"worker"} ELSE {}]
  BY DEF TeardownState, TeardownHolders

LEMMA StateValues ==
    /\ StateOf("none") = "none" /\ StateOf("pending") = "queued" /\ StateOf("running") = "held"
    /\ StateOf("completed") = "done" /\ StateOf("failed") = "dead"
  BY DEF StateOf

\* Every step is a step of LeaseQueue or changes nothing it can see.
LEMMA TeardownRefines ==
    ASSUME TenantInv, [Next]_vars
    PROVE  [Queue!Next]_(Queue!vars)
<1> USE TenantAssumption
<1>0. jobs \in [Job -> JobRow] /\ worker \in WorkerRow
  BY TypedParts DEF TenantInv
<1>W. worker = NoWork \/ (worker.job \in Job /\ worker.pc # "idle" /\ jobs[worker.job].status = "running")
  BY DEF TenantInv, WorkerOwns
<1>N. NoWork.job = NoJob /\ NoWork.pc = "idle" /\ NoJob \notin Job
  BY NoWorkIdle
<1>U. ASSUME jobs' = jobs, worker'.job = worker.job PROVE [Queue!Next]_(Queue!vars)
  <2>1. TeardownState' = TeardownState /\ TeardownHolders' = TeardownHolders
    BY <1>U, TeardownMapping
  <2>2. QED
    BY <2>1 DEF Queue!vars
<1>1. ASSUME NEW j \in Job, Enqueued(j) PROVE [Queue!Next]_(Queue!vars)
  <2>1. jobs'[j].status = "pending" /\ jobs[j].status = "none" /\ worker' = worker
    BY <1>0, <1>1 DEF Enqueued, JobRow
  <2>2. \A k \in Job \ {j} : jobs'[k] = jobs[k]
    BY <1>0, <1>1 DEF Enqueued
  <2>3. TeardownState' = [TeardownState EXCEPT ![j] = "queued"] /\ TeardownState[j] = "none"
    BY <2>1, <2>2, TeardownMapping, StateValues
  <2>4. TeardownHolders' = TeardownHolders
    BY <2>1, TeardownMapping
  <2>5. Queue!Enqueue(j)
    BY <2>3, <2>4 DEF Queue!Enqueue
  <2>6. QED
    BY <2>5 DEF Queue!Next
<1>2. ASSUME NEW j \in Job, Claim(j) PROVE [Queue!Next]_(Queue!vars)
  <2>1. /\ jobs'[j].status = "running" /\ jobs[j].status = "pending"
        /\ worker.job = NoJob /\ worker'.job = j
    BY <1>0, <1>2, <1>N DEF Claim
  <2>2. \A k \in Job \ {j} : jobs'[k] = jobs[k]
    BY <1>0, <1>2 DEF Claim
  <2>3. TeardownState' = [TeardownState EXCEPT ![j] = "held"] /\ TeardownState[j] = "queued"
    BY <2>1, <2>2, TeardownMapping, StateValues
  <2>4. TeardownHolders' = [TeardownHolders EXCEPT ![j] = {"worker"}]
    BY <1>N, <2>1, TeardownMapping
  <2>5. Queue!Take(j, "worker")
    BY <2>3, <2>4 DEF Queue!Take
  <2>6. QED
    BY <2>5 DEF Queue!Next
<1>3. CASE RemoveShard \/ delete_monolith_rows \/ MarkTombstone \/ TeardownFails
  <2>1. jobs' = jobs /\ worker'.job = worker.job
    BY <1>0, <1>3 DEF RemoveShard, delete_monolith_rows, MarkTombstone, TeardownFails, Working, WorkerRow
  <2>2. QED
    BY <1>U, <2>1
\* The worker is gone, and its job stays as it is.
<1>V. ASSUME jobs' = jobs, worker' = NoWork PROVE [Queue!Next]_(Queue!vars)
  <2>1. TeardownState' = TeardownState /\ TeardownHolders' = [k \in Job |-> TeardownHolders[k] \ {"worker"}]
    BY <1>N, <1>V, TeardownMapping
  <2>2. Queue!Vanish({"worker"})
    BY <2>1 DEF Queue!Vanish
  <2>3. QED
    BY <2>2 DEF Queue!Next
<1>4. ASSUME NEW written \in BOOLEAN, FinalizeJob(written) PROVE [Queue!Next]_(Queue!vars)
  <2>1. worker.job \in Job /\ jobs[worker.job].status = "running" /\ worker' = NoWork
    BY <1>4, <1>N, <1>W DEF FinalizeJob
  <2>2. PICK j \in Job : j = worker.job
    BY <2>1
  <2>3. CASE written
    <3>1. jobs' = [jobs EXCEPT ![j].status = Outcome(j)]
      BY <1>4, <2>2, <2>3 DEF FinalizeJob
    <3>2. jobs'[j].status \in {"completed", "failed", "pending"}
      BY <1>0, <3>1 DEF Outcome, JobRow
    <3>3. \A k \in Job \ {j} : jobs'[k] = jobs[k]
      BY <1>0, <3>1
    <3>4. PICK o \in {"done", "dead", "queued"} : StateOf(jobs'[j].status) = o
      BY <3>2, StateValues
    <3>5. TeardownState' = [TeardownState EXCEPT ![j] = o] /\ TeardownState[j] = "held"
      BY <2>1, <2>2, <3>3, <3>4, TeardownMapping, StateValues
    <3>6. TeardownHolders' = [TeardownHolders EXCEPT ![j] = {}] /\ "worker" \in TeardownHolders[j]
      BY <1>N, <2>1, <2>2, TeardownMapping
    <3>7. Queue!Finish(j, "worker", o)
      BY <3>5, <3>6 DEF Queue!Finish
    <3>8. QED
      BY <3>7 DEF Queue!Next
  <2>4. CASE ~written
    BY <1>4, <1>V, <2>1, <2>4 DEF FinalizeJob
  <2>5. QED
    BY <2>3, <2>4
<1>5. ASSUME NEW j \in Job, recover_stuck_jobs(j) PROVE [Queue!Next]_(Queue!vars)
  <2>1. /\ jobs'[j].status = "pending" /\ jobs[j].status = "running" /\ worker' = worker
        /\ worker.job # j
    BY <1>0, <1>5 DEF recover_stuck_jobs, JobRow
  <2>2. \A k \in Job \ {j} : jobs'[k] = jobs[k]
    BY <1>0, <1>5 DEF recover_stuck_jobs
  <2>3. /\ TeardownState' = [k \in Job |-> IF k \in {j} THEN "queued" ELSE TeardownState[k]]
        /\ TeardownState[j] = "held"
    BY <2>1, <2>2, TeardownMapping, StateValues
  <2>4. TeardownHolders' = [k \in Job |-> IF k \in {j} THEN {} ELSE TeardownHolders[k]]
    BY <2>1, TeardownMapping
  <2>5. Queue!Recover({j})
    BY <2>3, <2>4 DEF Queue!Recover
  <2>6. {j} \in SUBSET Job
    OBVIOUS
  <2>7. QED
    BY <2>5, <2>6 DEF Queue!Next
<1>6. CASE Crash
  BY <1>6, <1>V DEF Crash
<1>7. ASSUME NEW t \in Task, EnqueueTeardown(t) PROVE [Queue!Next]_(Queue!vars)
  BY <1>1, <1>7 DEF EnqueueTeardown
<1>8. CASE recover_orphans
  <2>1. (\E j \in Job : Enqueued(j)) \/ UNCHANGED <<jobs, worker>>
    BY <1>8 DEF recover_orphans, queue
  <2>2. QED
    BY <1>1, <1>U, <2>1
<1>9. ASSUME NEW t \in Task,
             \/ GetRow(t) \/ create_tenant(t) \/ insert_or_get(t) \/ GetInserted(t) \/ get_or_load(t)
             \/ load_tenant(t) \/ \E opened \in BOOLEAN : CacheHandle(t, opened)
      PROVE  [Queue!Next]_(Queue!vars)
  <2>1. UNCHANGED <<jobs, worker>>
    BY <1>9
       DEF GetRow, create_tenant, insert_or_get, GetInserted, get_or_load, load_tenant, CacheHandle, queue
  <2>2. QED
    BY <1>U, <2>1
<1>10. ASSUME NEW t \in Task,
              \/ begin_deprovision(t) \/ mark_deleting(t) \/ evict(t) \/ insert_deletion_log(t)
              \/ CallEnds(t) \/ force_retry_deprovision(t) \/ ForceStatus(t)
              \/ skip_shard_deprovision(t) \/ SkipDeleteRows(t) \/ SkipTombstone(t)
       PROVE  [Queue!Next]_(Queue!vars)
  <2>1. UNCHANGED <<jobs, worker>>
    BY <1>10
       DEF begin_deprovision, mark_deleting, evict, insert_deletion_log, CallEnds,
           force_retry_deprovision, ForceStatus, skip_shard_deprovision, SkipDeleteRows, SkipTombstone, queue
  <2>2. QED
    BY <1>U, <2>1
<1>11. CASE evict_idle \/ RecoverFault \/ HoldElapses \/ purge_expired_tombstones \/ UNCHANGED vars
  <2>1. UNCHANGED <<jobs, worker>>
    BY <1>11 DEF evict_idle, RecoverFault, HoldElapses, purge_expired_tombstones, vars, queue
  <2>2. QED
    BY <1>U, <2>1
<1>12. QED
  BY <1>2, <1>3, <1>4, <1>5, <1>6, <1>7, <1>8, <1>9, <1>10, <1>11 DEF Next

\* The teardown uses its jobs only as LeaseQueue allows, which is what the queue itself implements:
\* a job is in one pair of hands, and one that was left behind is taken back and not lost.
THEOREM RefinesLeaseQueue == Spec => TeardownIsLeased
<1>1. Init => Queue!Init
  <2> SUFFICES ASSUME Init PROVE Queue!Init
    OBVIOUS
  <2>1. (\A j \in Job : jobs[j].status = "none") /\ worker.job = NoJob /\ NoJob \notin Job
    BY NoWorkIdle, TenantAssumption DEF Init
  <2>2. TeardownState = [j \in Job |-> "none"] /\ TeardownHolders = [j \in Job |-> {}]
    BY <2>1, TeardownMapping, StateValues
  <2>3. QED
    BY <2>2 DEF Queue!Init
<1>2. TenantInv /\ [Next]_vars => [Queue!Next]_(Queue!vars)
  BY TeardownRefines
<1>3. QED
  BY <1>1, <1>2, TenantInvariant, PTL DEF Spec, TeardownIsLeased, Queue!Spec
=============================================================================
