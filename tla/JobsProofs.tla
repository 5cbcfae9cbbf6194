----------------------------- MODULE JobsProofs -----------------------------
(***************************************************************************)
(* Proofs about Jobs, for every set of rows, workers and types and every   *)
(* value of the timing constants.                                          *)
(***************************************************************************)
EXTENDS JobsRefinement, TLAPS

(* The inductive invariant.  A worker is stale when its job is no longer      *)
(* running under the claim the worker made.                                   *)

\* What the stack of a worker says about the row it was read from.
StackInv ==
    now >= 1 /\ \A w \in Worker : Holding(w) =>
        /\ jobs[work[w].job].status # "none"
        /\ work[w].claim <= claims[work[w].job]
        /\ work[w].token >= 1 /\ work[w].token <= now

\* No two workers hold one claim.
ClaimsDiffer ==
    \A v, w \in Worker :
        Holding(v) /\ Holding(w) /\ work[v].job = work[w].job
            /\ work[v].claim = work[w].claim => v = w

Current(w) ==
    /\ jobs[work[w].job].status = "running"
    /\ work[w].claim = claims[work[w].job]

\* A worker that is not stale holds the stored token and the stored attempt
\* count; the token of a stale worker is in the past, so no later claim stores it.
LeaseInv ==
    \A w \in Worker : Holding(w) =>
        IF Current(w)
        THEN /\ jobs[work[w].job].claimed_at = work[w].token
             /\ jobs[work[w].job].attempts = work[w].attempts
        ELSE work[w].token < now /\ jobs[work[w].job].claimed_at # work[w].token

\* The finalizer a worker is about to run is the one its attempt calls for.
FinalInv ==
    \A w \in Worker : Holding(w) =>
        /\ work[w].final = "retry" => work[w].attempts < jobs[work[w].job].max_attempts
        /\ work[w].final = "fail" =>
              \/ jobs[work[w].job].poison
              \/ work[w].attempts >= jobs[work[w].job].max_attempts
        /\ work[w].final = "complete" => work[w].job \in succeeded

\* A handler runs only under a current lease and within its time.
RunningInv ==
    \A w \in Worker : work[w].phase \in {"claimed", "running"} =>
        /\ Current(w)
        /\ now <= work[w].token + Timeout[jobs[work[w].job].type] + Slack

\* A pending row has an attempt left, or a lease that recovery took back.
AttemptsInv ==
    \A j \in Job : jobs[j].status # "none" =>
        /\ jobs[j].max_attempts >= 1
        /\ jobs[j].status = "pending" => jobs[j].attempts < jobs[j].max_attempts + lost[j]
        /\ jobs[j].attempts <= jobs[j].max_attempts + lost[j]

IInv ==
    /\ StackInv /\ ClaimsDiffer /\ LeaseInv /\ FinalInv /\ RunningInv /\ AttemptsInv
    /\ FailedOnlyWhenExhausted /\ CompletedMeansSucceeded
-----------------------------------------------------------------------------
(* How the EXCEPTs of the actions type.                                       *)

\* A worker's stack value keeps its type under the updates process_next_job makes to it.
LEMMA WorkUpdates ==
    \A k \in Work :
        /\ [k EXCEPT !.phase = "running"] \in Work
        /\ \A f \in Final : [k EXCEPT !.phase = "finalizing", !.final = f] \in Work
  BY DEF Work, Phase, Final

\* A row keeps its type under the UPDATEs of the claim, the finalizers and recovery.
LEMMA RowUpdates ==
    ASSUME NEW r \in Row, NEW t \in Nat, NEW s \in Status, NEW n \in Nat
    PROVE  /\ [r EXCEPT !.status = s] \in Row
           /\ [r EXCEPT !.status = s, !.completed_at = t] \in Row
           /\ [r EXCEPT !.status = s, !.claimed_at = t] \in Row
           /\ [r EXCEPT !.status = s, !.claimed_at = t, !.attempts = n] \in Row
           /\ [r EXCEPT !.status = s, !.next_retry_at = n, !.claimed_at = t] \in Row
           /\ [r EXCEPT !.status = s, !.attempts = n, !.next_retry_at = t] \in Row
  BY DEF Row

\* An idle worker is well typed.
LEMMA IdleIsWork == Idle \in Work
  BY DEF Idle, Work, Phase, Final, Null

(* Every column, stack value and history variable keeps its type.            *)
THEOREM TypeCorrect == Spec => []TypeOK
<1> USE JobsAssumption
<1>1. Init => TypeOK
  <2>1. NoRow \in Row
    BY DEF NoRow, Row, Status, Null
  <2>3. QED
    BY <2>1, IdleIsWork DEF Init, TypeOK, Idle
<1>2. TypeOK /\ [Next]_vars => TypeOK'
  <2> SUFFICES ASSUME TypeOK, [Next]_vars PROVE TypeOK'
    OBVIOUS
  <2> USE DEF TypeOK
  <2>1. ASSUME NEW j \in Job, NEW t \in JobType, NEW p \in BOOLEAN, NEW m \in MaxAttempts,
               enqueue_job(j, t, p, m)
        PROVE  TypeOK'
    BY <2>1 DEF enqueue_job, Row, Status, Null
  <2>2. ASSUME NEW t \in JobType, register_job_handler(t) PROVE TypeOK'
    BY <2>2 DEF register_job_handler
  <2>3. ASSUME NEW w \in Worker, NEW j \in Job, claim_next_job(w, j) PROVE TypeOK'
    BY <2>3 DEF claim_next_job, Row, Status, Work, Phase, Final
  <2>4. ASSUME NEW w \in Worker, NEW f \in Final \ {"none"}, Holding(w),
               work' = [work EXCEPT ![w].phase = "finalizing", ![w].final = f],
               succeeded' \in {succeeded, succeeded \cup {work[w].job}},
               UNCHANGED <<jobs, handlers, now, faults, manual, claims, lost>>
        PROVE  TypeOK'
    <3>1. work' = [work EXCEPT ![w] = [work[w] EXCEPT !.phase = "finalizing", !.final = f]]
      BY <2>4 DEF Work
    <3>2. work' \in [Worker -> Work]
      BY <3>1, WorkUpdates
    <3>3. \A v \in Worker :
             /\ work'[v].phase # "idle" => work'[v].job \in Job
             /\ work'[v].phase = "finalizing" => work'[v].final # "none"
      BY <2>4 DEF Work, Holding
    <3>4. succeeded' \in SUBSET Job
      BY <2>4 DEF Holding
    <3>5. UNCHANGED <<jobs, handlers, now, faults, manual, claims, lost>>
      BY <2>4
    <3>6. QED
      BY <3>2, <3>3, <3>4, <3>5 DEF Work
  <2>5. ASSUME NEW w \in Worker, StartHandler(w) PROVE TypeOK'
    BY <2>5 DEF StartHandler, Work, Phase
  <2>6. ASSUME NEW w \in Worker, work' = [work EXCEPT ![w] = Idle],
               jobs' \in [Job -> Row], faults' \in Nat,
               UNCHANGED <<handlers, now, manual, claims, lost, succeeded>>
        PROVE  TypeOK'
    BY <2>6, IdleIsWork DEF Idle
  <2>7. ASSUME NEW w \in Worker, Finalize(w) PROVE TypeOK'
    <3> DEFINE j == work[w].job
    <3>1. j \in Job /\ jobs[j] \in Row /\ work[w].attempts \in Nat
      BY <2>7 DEF Finalize, Work
    <3>2. complete_job(w) \in [Job -> Row]
      BY <3>1, RowUpdates DEF complete_job, Status
    <3>3. fail_job(w) \in [Job -> Row]
      BY <3>1, RowUpdates DEF fail_job, Status
    <3>4. now + retry_delay(work[w].attempts) \in Nat
      BY <3>1 DEF retry_delay
    <3>5. retry_job(w) \in [Job -> Row]
      BY <3>1, <3>4, RowUpdates DEF retry_job, Status, Null
    <3>6. jobs' \in [Job -> Row]
      BY <2>7, <3>2, <3>3, <3>5 DEF Finalize, Work, Final
    <3>7. QED
      BY <2>6, <2>7, <3>6 DEF Finalize
  <2>8. ASSUME NEW w \in Worker, FinalizeError(w) PROVE TypeOK'
    <3>1. faults' \in Nat /\ jobs' \in [Job -> Row]
      BY <2>8 DEF FinalizeError
    <3>2. QED
      BY <2>6, <2>8, <3>1 DEF FinalizeError
  <2>9. ASSUME NEW w \in Worker, recover_stuck_jobs(w) PROVE TypeOK'
    <3>1. \A j \in Job : [jobs[j] EXCEPT !.status = "pending", !.claimed_at = Null] \in Row
      BY RowUpdates DEF Status, Null
    <3>2. jobs' \in [Job -> Row]
      BY <2>9, <3>1 DEF recover_stuck_jobs
    <3>3. lost' \in [Job -> Nat]
      <4>1. lost' = [j \in Job |-> IF Stuck(j) THEN lost[j] + 1 ELSE lost[j]]
        BY <2>9 DEF recover_stuck_jobs
      <4>2. \A j \in Job : (IF Stuck(j) THEN lost[j] + 1 ELSE lost[j]) \in Nat
        OBVIOUS
      <4>3. QED
        BY <4>1, <4>2
    <3>4. QED
      BY <2>9, <3>2, <3>3 DEF recover_stuck_jobs
  <2>10. ASSUME NEW j \in Job, retry_failed_job(j) PROVE TypeOK'
    <3>1. jobs' \in [Job -> Row]
      BY <2>10, RowUpdates DEF retry_failed_job, Status, Null
    <3>2. QED
      BY <2>10, <3>1 DEF retry_failed_job
  <2>11. ASSUME NEW st \in Status, NEW age \in Nat, DeleteOlder(st, age),
                UNCHANGED <<work, handlers, now, faults, manual, claims, lost, succeeded>>
         PROVE  TypeOK'
    BY <2>11, RowUpdates DEF DeleteOlder, Status
  <2>12. CASE Crash
    BY <2>12, IdleIsWork DEF Crash, Idle
  <2>13. CASE Tick
    BY <2>13 DEF Tick
  <2>14. CASE UNCHANGED vars
    BY <2>14 DEF vars
  <2>15. ASSUME NEW w \in Worker,
                MissingHandler(w) \/ PoisonPayload(w) \/ HandlerReturnsOk(w) \/ HandlerFails(w)
         PROVE  TypeOK'
    <3>1. GiveUpOrRetry(w) \in Final \ {"none"} /\ "fail" \in Final \ {"none"}
          /\ "complete" \in Final \ {"none"}
      BY DEF GiveUpOrRetry, Final
    <3>2. CASE MissingHandler(w)
      BY <2>4, <3>1, <3>2 DEF MissingHandler, Holding
    <3>3. CASE PoisonPayload(w)
      BY <2>4, <3>1, <3>3 DEF PoisonPayload, Holding
    <3>4. CASE HandlerReturnsOk(w)
      BY <2>4, <3>1, <3>4 DEF HandlerReturnsOk, Holding
    <3>5. CASE HandlerFails(w)
      BY <2>4, <3>1, <3>5 DEF HandlerFails, Holding
    <3>6. QED
      BY <2>15, <3>2, <3>3, <3>4, <3>5
  <2>16. CASE \/ cleanup_completed_jobs
              \/ \E age \in 0..CleanupAge : cleanup_jobs(age) \/ purge_failed_jobs(age)
    BY <2>11, <2>16 DEF cleanup_completed_jobs, cleanup_jobs, purge_failed_jobs, Status
  <2> HIDE DEF TypeOK
  <2>17. CASE Next
    BY <2>1, <2>2, <2>3, <2>5, <2>7, <2>8, <2>9, <2>10, <2>12, <2>13, <2>15, <2>16, <2>17, Zenon
       DEF Next
  <2>18. QED
    BY <2>14, <2>17
<1>3. QED
  BY <1>1, <1>2, PTL DEF Spec
-----------------------------------------------------------------------------
(* One lemma per group of actions: each preserves the inductive invariant.    *)

\* An empty table and idle workers satisfy the invariant.
LEMMA InitIInv == Init => IInv
<1> SUFFICES ASSUME Init PROVE IInv
  OBVIOUS
<1>1. \A w \in Worker : work[w].phase = "idle"
  BY DEF Init, Idle
<1>2. \A j \in Job : jobs[j].status = "none"
  BY DEF Init, NoRow
<1>3. StackInv /\ ClaimsDiffer /\ LeaseInv /\ FinalInv /\ RunningInv
  BY <1>1 DEF Init, StackInv, ClaimsDiffer, LeaseInv, FinalInv, RunningInv, Holding
<1>4. AttemptsInv /\ FailedOnlyWhenExhausted /\ CompletedMeansSucceeded
  BY <1>2 DEF AttemptsInv, FailedOnlyWhenExhausted, CompletedMeansSucceeded
<1>5. QED
  BY <1>3, <1>4 DEF IInv

\* enqueue_job takes an id nobody holds.
LEMMA EnqueueIInv ==
    ASSUME TypeOK, IInv, NEW j \in Job, NEW t \in JobType, NEW p \in BOOLEAN,
           NEW m \in MaxAttempts, enqueue_job(j, t, p, m)
    PROVE  IInv'
<1> USE JobsAssumption DEF enqueue_job, IInv
<1>1. \A w \in Worker : Holding(w) => work[w].job # j
  BY DEF StackInv
<1>2. \A k \in Job : k # j => jobs'[k] = jobs[k]
  BY DEF TypeOK
<1>3. /\ jobs'[j].status = "pending" /\ jobs'[j].attempts = 0
      /\ jobs'[j].max_attempts = m /\ m >= 1
  BY DEF TypeOK
<1>4. \A w \in Worker : Holding(w) => jobs'[work[w].job] = jobs[work[w].job]
  BY <1>1, <1>2 DEF TypeOK, Holding
<1>5. StackInv' /\ ClaimsDiffer' /\ FinalInv'
  BY <1>4 DEF StackInv, ClaimsDiffer, FinalInv, Holding
<1>6. LeaseInv' /\ RunningInv'
  BY <1>4 DEF LeaseInv, RunningInv, Holding, Current
<1>7. AttemptsInv'
  BY <1>2, <1>3 DEF AttemptsInv, TypeOK
<1>8. FailedOnlyWhenExhausted' /\ CompletedMeansSucceeded'
  BY <1>2, <1>3 DEF FailedOnlyWhenExhausted, CompletedMeansSucceeded
<1>9. QED
  BY <1>5, <1>6, <1>7, <1>8

\* A claim makes every other holder of the job stale: their tokens are in the past.
LEMMA ClaimIInv ==
    ASSUME TypeOK, IInv, NEW w \in Worker, NEW j \in Job, claim_next_job(w, j)
    PROVE  IInv'
<1> USE JobsAssumption DEF claim_next_job, IInv
<1>1. \A k \in Job : k # j => jobs'[k] = jobs[k] /\ claims'[k] = claims[k]
  BY DEF TypeOK
<1>2. /\ jobs[j].status = "pending" /\ jobs'[j].status = "running"
      /\ jobs'[j].claimed_at = now /\ jobs'[j].attempts = jobs[j].attempts + 1
      /\ jobs'[j].max_attempts = jobs[j].max_attempts /\ jobs'[j].poison = jobs[j].poison
      /\ jobs'[j].type = jobs[j].type /\ claims'[j] = claims[j] + 1
  BY DEF TypeOK, Row, Claimable
<1>3. /\ work'[w].phase = "claimed" /\ work'[w].job = j /\ work'[w].token = now
      /\ work'[w].attempts = jobs[j].attempts + 1 /\ work'[w].final = "none"
      /\ work'[w].claim = claims[j] + 1
      /\ \A v \in Worker : v # w => work'[v] = work[v]
  BY DEF TypeOK
<1>4. \A v \in Worker : Holding(v) /\ work[v].job = j =>
          ~Current(v) /\ work[v].token < now /\ work[v].claim <= claims[j]
                /\ work[v].phase = "finalizing"
  BY <1>2 DEF LeaseInv, StackInv, RunningInv, Current, TypeOK, Work, Phase, Holding
<1>5. StackInv'
  BY <1>1, <1>2, <1>3 DEF StackInv, Holding, TypeOK, Work
<1>6. ClaimsDiffer'
  BY <1>3, <1>4 DEF ClaimsDiffer, Holding, TypeOK, Work
<1>7. LeaseInv'
  BY <1>1, <1>2, <1>3, <1>4 DEF LeaseInv, Holding, Current, TypeOK, Work
<1>8. FinalInv'
  BY <1>1, <1>2, <1>3 DEF FinalInv, Holding, TypeOK, Work
<1>9. RunningInv'
  BY <1>1, <1>2, <1>3, <1>4 DEF RunningInv, Holding, Current, TypeOK, Work, Row
<1>10. AttemptsInv'
  BY <1>1, <1>2 DEF AttemptsInv, TypeOK, Row
<1>11. FailedOnlyWhenExhausted' /\ CompletedMeansSucceeded'
  BY <1>1, <1>2 DEF FailedOnlyWhenExhausted, CompletedMeansSucceeded
<1>12. QED
  BY <1>5, <1>6, <1>7, <1>8, <1>9, <1>10, <1>11

\* The steps of a worker that touch only its own stack.
LEMMA StackStepIInv ==
    ASSUME TypeOK, IInv, NEW w \in Worker,
           \/ MissingHandler(w) \/ PoisonPayload(w) \/ StartHandler(w)
           \/ HandlerReturnsOk(w) \/ HandlerFails(w)
    PROVE  IInv'
<1> USE JobsAssumption DEF IInv
<1>0. UNCHANGED <<jobs, now, claims, lost>> /\ succeeded \subseteq succeeded'
  BY DEF MissingHandler, PoisonPayload, StartHandler, HandlerReturnsOk, HandlerFails
<1>1. \A v \in Worker : v # w => work'[v] = work[v]
  BY DEF MissingHandler, PoisonPayload, StartHandler, HandlerReturnsOk, HandlerFails, TypeOK
<1>2. /\ work[w].phase \in {"claimed", "running"}
      /\ work'[w].phase \in {"finalizing", "running"}
      /\ work'[w].job = work[w].job /\ work'[w].token = work[w].token
      /\ work'[w].attempts = work[w].attempts /\ work'[w].claim = work[w].claim
  BY DEF MissingHandler, PoisonPayload, StartHandler, HandlerReturnsOk, HandlerFails,
         TypeOK, Work
<1>3. StackInv' /\ ClaimsDiffer'
  BY <1>0, <1>1, <1>2 DEF StackInv, ClaimsDiffer, Holding, TypeOK, Work
<1>4. LeaseInv'
  BY <1>0, <1>1, <1>2 DEF LeaseInv, Current, Holding, TypeOK, Work
<1>5. /\ work'[w].final = "retry" => work[w].attempts < jobs[work[w].job].max_attempts
      /\ work'[w].final = "fail" =>
            \/ jobs[work[w].job].poison
            \/ work[w].attempts >= jobs[work[w].job].max_attempts
      /\ work'[w].final = "complete" => work[w].job \in succeeded'
  <2>1. Holding(w) /\ work[w].job \in Job
    BY <1>2 DEF Holding, TypeOK
  <2>2. work[w].attempts \in Nat /\ jobs[work[w].job].max_attempts \in Nat
    BY <2>1 DEF TypeOK, Work, Row
  <2>3. \/ work'[w].final = GiveUpOrRetry(w)
        \/ work'[w].final = "fail" /\ jobs[work[w].job].poison
        \/ work'[w].final = "complete" /\ work[w].job \in succeeded'
        \/ work'[w].final = work[w].final
    BY DEF MissingHandler, PoisonPayload, StartHandler, HandlerReturnsOk, HandlerFails,
           TypeOK, Work
  <2>4. QED
    BY <1>0, <2>1, <2>2, <2>3 DEF FinalInv, GiveUpOrRetry
<1>6. FinalInv'
  BY <1>0, <1>1, <1>2, <1>5 DEF FinalInv, Holding
<1>7. RunningInv'
  BY <1>0, <1>1, <1>2 DEF RunningInv, Current, TypeOK, Work
<1>8. AttemptsInv' /\ FailedOnlyWhenExhausted' /\ CompletedMeansSucceeded'
  BY <1>0 DEF AttemptsInv, FailedOnlyWhenExhausted, CompletedMeansSucceeded
<1>9. QED
  BY <1>3, <1>4, <1>6, <1>7, <1>8

\* A worker that drops its claim without touching the table.
LEMMA DropIInv ==
    ASSUME TypeOK, IInv, \A w \in Worker : work'[w] = work[w] \/ work'[w].phase = "idle",
           UNCHANGED <<jobs, now, claims, lost, succeeded>>
    PROVE  IInv'
<1> USE DEF IInv
<1>1. StackInv' /\ ClaimsDiffer' /\ LeaseInv' /\ FinalInv' /\ RunningInv'
  BY DEF StackInv, ClaimsDiffer, LeaseInv, FinalInv, RunningInv, Holding, Current
<1>2. AttemptsInv' /\ FailedOnlyWhenExhausted' /\ CompletedMeansSucceeded'
  BY DEF AttemptsInv, FailedOnlyWhenExhausted, CompletedMeansSucceeded
<1>3. QED
  BY <1>1, <1>2

\* A finalizer whose lease is gone drops the claim; one that holds it is the
\* newest claim's, so no other worker of the job is current.
LEMMA FinalizeIInv ==
    ASSUME TypeOK, IInv, NEW w \in Worker, Finalize(w)
    PROVE  IInv'
<1> USE JobsAssumption DEF IInv
<1> DEFINE j == work[w].job
<1>0. /\ Holding(w) /\ j \in Job /\ jobs[j] \in Row
      /\ work[w].final \in {"complete", "fail", "retry"}
      /\ UNCHANGED <<now, claims, lost, succeeded>>
  BY DEF Finalize, Holding, TypeOK, Work, Final
<1>1. /\ work'[w].phase = "idle"
      /\ \A v \in Worker : v # w => work'[v] = work[v]
  BY DEF Finalize, Idle, TypeOK
<1>2. CASE ~HoldsLease(w)
  <2>1. UNCHANGED jobs
    BY <1>2 DEF Finalize
  <2>2. QED
    BY <1>0, <1>1, <2>1, DropIInv
<1>3. CASE HoldsLease(w)
  <2>1. Current(w)
    BY <1>0, <1>3 DEF LeaseInv, HoldsLease
  <2>2. \A v \in Worker : v # w /\ Holding(v) /\ work[v].job = j =>
            ~Current(v) /\ work[v].phase \notin {"claimed", "running"}
    BY <1>0, <2>1 DEF ClaimsDiffer, Current, RunningInv
  <2>3. /\ \A k \in Job : k # j => jobs'[k] = jobs[k]
        /\ jobs'[j].max_attempts = jobs[j].max_attempts
        /\ jobs'[j].attempts = jobs[j].attempts /\ jobs'[j].poison = jobs[j].poison
        /\ jobs'[j].type = jobs[j].type
        /\ jobs'[j].claimed_at \in {jobs[j].claimed_at, Null}
    BY <1>0, <1>3 DEF Finalize, complete_job, fail_job, retry_job, TypeOK, Row
  <2>4. \/ work[w].final = "complete" /\ jobs'[j].status = "completed"
        \/ work[w].final = "fail" /\ jobs'[j].status = "failed"
        \/ work[w].final = "retry" /\ jobs'[j].status = "pending"
    BY <1>0, <1>3 DEF Finalize, complete_job, fail_job, retry_job, TypeOK, Row
  <2>5. StackInv'
    BY <1>0, <1>1, <2>3, <2>4 DEF StackInv, Holding, TypeOK
  <2>6. ClaimsDiffer'
    BY <1>1 DEF ClaimsDiffer, Holding
  <2>7. LeaseInv'
    <3>1. ASSUME NEW v \in Worker, v # w, Holding(v), work[v].job = j
          PROVE  /\ work[v].token < now /\ jobs[j].claimed_at # work[v].token
                 /\ work[v].token # Null
      BY <2>2, <3>1 DEF LeaseInv, StackInv, Null, TypeOK, Work
    <3>2. QED
      BY <1>0, <1>1, <2>3, <2>4, <3>1 DEF LeaseInv, Holding, Current, TypeOK
  <2>8. FinalInv'
    BY <1>0, <1>1, <2>3 DEF FinalInv, Holding, TypeOK
  <2>9. RunningInv'
    <3>1. \A v \in Worker : v # w /\ work[v].phase \in {"claimed", "running"} =>
              work[v].job # j /\ work[v].job \in Job
      BY <2>2 DEF TypeOK, Holding
    <3>2. QED
      BY <1>0, <1>1, <2>3, <3>1 DEF RunningInv, Current
  <2>10. /\ work[w].final = "retry" => jobs[j].attempts < jobs[j].max_attempts
         /\ work[w].final = "fail" =>
               jobs[j].poison \/ jobs[j].attempts >= jobs[j].max_attempts
         /\ work[w].final = "complete" => j \in succeeded
    BY <1>0, <2>1 DEF FinalInv, LeaseInv
  <2>11. AttemptsInv'
    BY <1>0, <2>1, <2>3, <2>4, <2>10 DEF AttemptsInv, Current, TypeOK, Row
  <2>12. FailedOnlyWhenExhausted' /\ CompletedMeansSucceeded'
    BY <1>0, <2>3, <2>4, <2>10 DEF FailedOnlyWhenExhausted, CompletedMeansSucceeded
  <2>13. QED
    BY <2>5, <2>6, <2>7, <2>8, <2>9, <2>11, <2>12
<1>4. QED
  BY <1>2, <1>3

\* A lease that recovery takes back has outlived its handler's time.
LEMMA RecoverIInv ==
    ASSUME TypeOK, IInv, NEW w \in Worker, recover_stuck_jobs(w)
    PROVE  IInv'
<1> USE JobsAssumption DEF IInv
<1>0. UNCHANGED <<work, now, claims, succeeded>>
  BY DEF recover_stuck_jobs
<1>1. \A j \in Job : ~Stuck(j) => jobs'[j] = jobs[j] /\ lost'[j] = lost[j]
  BY DEF recover_stuck_jobs
<1>2. \A j \in Job : Stuck(j) =>
          /\ jobs[j].status = "running" /\ jobs'[j].status = "pending"
          /\ jobs'[j].claimed_at = Null /\ lost'[j] = lost[j] + 1
          /\ jobs'[j].attempts = jobs[j].attempts /\ jobs'[j].poison = jobs[j].poison
          /\ jobs'[j].max_attempts = jobs[j].max_attempts /\ jobs'[j].type = jobs[j].type
  <2> SUFFICES ASSUME NEW j \in Job, Stuck(j)
               PROVE  /\ jobs[j].status = "running" /\ jobs'[j].status = "pending"
                      /\ jobs'[j].claimed_at = Null /\ lost'[j] = lost[j] + 1
                      /\ jobs'[j].attempts = jobs[j].attempts /\ jobs'[j].poison = jobs[j].poison
                      /\ jobs'[j].max_attempts = jobs[j].max_attempts /\ jobs'[j].type = jobs[j].type
    OBVIOUS
  <2>1. jobs[j] \in Row
    BY DEF TypeOK
  <2>2. jobs'[j] = [jobs[j] EXCEPT !.status = "pending", !.claimed_at = Null] /\ lost'[j] = lost[j] + 1
    BY DEF recover_stuck_jobs
  <2>3. jobs[j].status = "running"
    BY DEF Stuck
  <2>4. QED
    BY <2>1, <2>2, <2>3 DEF Row
<1>3. \A v \in Worker : Holding(v) /\ Stuck(work[v].job) =>
          work[v].token < now /\ work[v].phase \notin {"claimed", "running"}
  <2> SUFFICES ASSUME NEW v \in Worker, Holding(v), Stuck(work[v].job)
               PROVE  work[v].token < now /\ work[v].phase \notin {"claimed", "running"}
    OBVIOUS
  <2> DEFINE j == work[v].job
  <2>1. /\ j \in Job /\ work[v].token \in Nat /\ now \in Nat /\ jobs[j].claimed_at \in Nat
        /\ Timeout[jobs[j].type] \in Nat
    BY DEF TypeOK, Work, Row, Holding
  <2>2. now - jobs[j].claimed_at > Timeout[jobs[j].type] + Grace
    BY DEF Stuck
  <2>3. CASE ~Current(v)
    BY <2>3 DEF LeaseInv, RunningInv
  <2>4. CASE Current(v)
    <3>1. jobs[j].claimed_at = work[v].token
      BY <2>4 DEF LeaseInv
    <3>2. ~(now <= work[v].token + Timeout[jobs[j].type] + Slack) /\ work[v].token < now
      BY <2>1, <2>2, <3>1
    <3>3. QED
      BY <3>2 DEF RunningInv
  <2>5. QED
    BY <2>3, <2>4
<1>4. \A v \in Worker : Holding(v) => work[v].job \in Job
  BY DEF TypeOK, Holding
<1>5. StackInv' /\ ClaimsDiffer' /\ FinalInv'
  BY <1>0, <1>1, <1>2, <1>4 DEF StackInv, ClaimsDiffer, FinalInv, Holding
<1>6. LeaseInv'
  <2> SUFFICES ASSUME NEW v \in Worker, Holding(v)
               PROVE  IF Current(v)'
                      THEN /\ jobs'[work[v].job].claimed_at = work[v].token
                           /\ jobs'[work[v].job].attempts = work[v].attempts
                      ELSE /\ work[v].token < now
                           /\ jobs'[work[v].job].claimed_at # work[v].token
    BY <1>0 DEF LeaseInv, Holding
  <2>1. CASE Stuck(work[v].job)
    <3>1. work[v].token # Null
      BY DEF StackInv, Null, TypeOK, Work
    <3>2. QED
      BY <1>0, <1>2, <1>3, <1>4, <2>1, <3>1 DEF Current
  <2>2. CASE ~Stuck(work[v].job)
    BY <1>0, <1>1, <1>4, <2>2 DEF Current, LeaseInv
  <2>3. QED
    BY <2>1, <2>2
<1>7. RunningInv'
  BY <1>0, <1>1, <1>3, <1>4 DEF RunningInv, Current, Holding
<1>8. AttemptsInv'
  BY <1>1, <1>2 DEF AttemptsInv, TypeOK, Row
<1>9. FailedOnlyWhenExhausted' /\ CompletedMeansSucceeded'
  BY <1>0, <1>1, <1>2 DEF FailedOnlyWhenExhausted, CompletedMeansSucceeded
<1>10. QED
  BY <1>5, <1>6, <1>7, <1>8, <1>9

\* The operators' statements touch only rows that have ended, which nobody holds
\* a current lease of.
LEMMA RetryFailedIInv ==
    ASSUME TypeOK, IInv, NEW j \in Job, retry_failed_job(j)
    PROVE  IInv'
<1> USE JobsAssumption DEF IInv
<1>0. UNCHANGED <<work, now, claims, succeeded>>
  BY DEF retry_failed_job
<1>1. \A k \in Job : k # j => jobs'[k] = jobs[k] /\ lost'[k] = lost[k]
  BY DEF retry_failed_job, TypeOK
<1>2. /\ jobs[j].status = "failed" /\ jobs'[j].status = "pending"
      /\ jobs'[j].claimed_at = jobs[j].claimed_at /\ lost'[j] = 0
      /\ jobs'[j].attempts = 0 /\ jobs'[j].poison = jobs[j].poison
      /\ jobs'[j].max_attempts = jobs[j].max_attempts /\ jobs'[j].type = jobs[j].type
  BY DEF retry_failed_job, TypeOK, Row
<1>3. \A v \in Worker : Holding(v) => work[v].job \in Job
  BY DEF TypeOK, Holding
<1>4. StackInv' /\ ClaimsDiffer' /\ FinalInv'
  BY <1>0, <1>1, <1>2, <1>3 DEF StackInv, ClaimsDiffer, FinalInv, Holding
<1>5. LeaseInv' /\ RunningInv'
  BY <1>0, <1>1, <1>2, <1>3 DEF LeaseInv, RunningInv, Holding, Current
<1>6. AttemptsInv'
  BY <1>1, <1>2 DEF AttemptsInv, TypeOK, Row
<1>7. FailedOnlyWhenExhausted' /\ CompletedMeansSucceeded'
  BY <1>0, <1>1, <1>2 DEF FailedOnlyWhenExhausted, CompletedMeansSucceeded
<1>8. QED
  BY <1>4, <1>5, <1>6, <1>7

\* Deleting ended rows disturbs no current lease.
LEMMA DeleteIInv ==
    ASSUME TypeOK, IInv, NEW st \in {"completed", "failed"}, NEW age \in Nat,
           DeleteOlder(st, age), UNCHANGED <<work, now, claims, lost, succeeded>>
    PROVE  IInv'
<1> USE JobsAssumption DEF IInv
<1>1. \A j \in Job :
        \/ jobs'[j] = jobs[j]
        \/ /\ jobs[j].status \in {"completed", "failed"} /\ jobs'[j].status = "deleted"
           /\ jobs'[j].claimed_at = jobs[j].claimed_at
           /\ jobs'[j].attempts = jobs[j].attempts /\ jobs'[j].poison = jobs[j].poison
           /\ jobs'[j].max_attempts = jobs[j].max_attempts /\ jobs'[j].type = jobs[j].type
  BY DEF DeleteOlder, TypeOK, Row
<1>2. \A v \in Worker : Holding(v) => work[v].job \in Job
  BY DEF TypeOK, Holding
<1>3. StackInv' /\ ClaimsDiffer' /\ FinalInv'
  BY <1>1, <1>2 DEF StackInv, ClaimsDiffer, FinalInv, Holding
<1>4. LeaseInv' /\ RunningInv'
  BY <1>1, <1>2 DEF LeaseInv, RunningInv, Holding, Current
<1>5. AttemptsInv'
  BY <1>1 DEF AttemptsInv
<1>6. FailedOnlyWhenExhausted' /\ CompletedMeansSucceeded'
  BY <1>1 DEF FailedOnlyWhenExhausted, CompletedMeansSucceeded
<1>7. QED
  BY <1>3, <1>4, <1>5, <1>6

\* Time passes no handler's deadline.
LEMMA TickIInv ==
    ASSUME TypeOK, IInv, Tick
    PROVE  IInv'
<1> USE JobsAssumption DEF IInv, Tick
<1>1. StackInv' /\ ClaimsDiffer' /\ FinalInv' /\ LeaseInv'
  BY DEF StackInv, ClaimsDiffer, FinalInv, LeaseInv, Holding, Current, TypeOK, Work
<1>2. RunningInv'
  <2> SUFFICES ASSUME NEW w \in Worker, work[w].phase \in {"claimed", "running"}
               PROVE  /\ Current(w)
                      /\ now + 1 <= work[w].token + Timeout[jobs[work[w].job].type] + Slack
    BY DEF RunningInv, Current
  <2>1. /\ work[w].token \in Nat /\ Timeout[jobs[work[w].job].type] \in Nat /\ now \in Nat
    BY DEF TypeOK, Work, Row
  <2>2. QED
    BY <2>1 DEF RunningInv, InTime
<1>3. AttemptsInv' /\ FailedOnlyWhenExhausted' /\ CompletedMeansSucceeded'
  BY DEF AttemptsInv, FailedOnlyWhenExhausted, CompletedMeansSucceeded
<1>4. QED
  BY <1>1, <1>2, <1>3

\* IInv is inductive.
THEOREM InductiveInvariant == Spec => []IInv
<1>1. TypeOK /\ IInv /\ [Next]_vars => IInv'
  <2> SUFFICES ASSUME TypeOK, IInv, [Next]_vars PROVE IInv'
    OBVIOUS
  <2>1. ASSUME NEW t \in JobType, register_job_handler(t) PROVE IInv'
    BY <2>1, DropIInv DEF register_job_handler
  <2>2. ASSUME NEW w \in Worker, FinalizeError(w) PROVE IInv'
    BY <2>2, DropIInv DEF FinalizeError, Idle, TypeOK
  <2>3. CASE Crash
    BY <2>3, DropIInv DEF Crash, Idle
  <2>4. CASE UNCHANGED vars
    BY <2>4, DropIInv DEF vars
  <2>5. CASE \/ cleanup_completed_jobs
             \/ \E age \in 0..CleanupAge : cleanup_jobs(age)
             \/ \E age \in 0..CleanupAge : purge_failed_jobs(age)
    BY <2>5, DeleteIInv, JobsAssumption
       DEF cleanup_completed_jobs, cleanup_jobs, purge_failed_jobs
  <2>6. QED
    BY <2>1, <2>2, <2>3, <2>4, <2>5, EnqueueIInv, ClaimIInv, StackStepIInv, FinalizeIInv,
       RecoverIInv, RetryFailedIInv, TickIInv DEF Next
<1>2. QED
  BY <1>1, InitIInv, TypeCorrect, PTL DEF Spec

\* Only the newest claim of a job can finalize it (the JOB-2 gate of complete_job,
\* fail_job and retry_job), although tokens are whole seconds.
THEOREM LeaseSafety == Spec => []LeaseIsLatestClaim
<1>1. IInv => LeaseIsLatestClaim
  BY DEF IInv, LeaseInv, LeaseIsLatestClaim, HoldsLease, Current
<1>2. QED
  BY <1>1, InductiveInvariant, PTL

\* recover_stuck_jobs never lets two workers run the handler of one job, provided
\* the scheduling slack stays within the grace margin.
THEOREM ExecutionExclusive == Spec => []NoDoubleExecution
<1>1. TypeOK /\ IInv => NoDoubleExecution
  BY DEF IInv, RunningInv, ClaimsDiffer, NoDoubleExecution, Current, Holding
<1>2. QED
  BY <1>1, InductiveInvariant, TypeCorrect, PTL

\* Attempts beyond max_attempts are exactly the leases recovery took back.
THEOREM AttemptsAreBounded == Spec => []AttemptsBounded
<1>1. IInv => AttemptsBounded
  BY DEF IInv, AttemptsInv, AttemptsBounded
<1>2. QED
  BY <1>1, InductiveInvariant, PTL

\* No job is given up with attempts left, and none is completed without a
\* successful run of its handler.
THEOREM OutcomesAreHonest == Spec => [](FailedOnlyWhenExhausted /\ CompletedMeansSucceeded)
<1>1. IInv => FailedOnlyWhenExhausted /\ CompletedMeansSucceeded
  BY DEF IInv
<1>2. QED
  BY <1>1, InductiveInvariant, PTL

\* A completed row stays completed until it is deleted.
THEOREM CompletedStays == Spec => CompletedIsFinal
<1> DEFINE Keeps == \A j \in Job : jobs[j].status = "completed" =>
                        jobs'[j].status \in {"completed", "deleted"}
<1>1. TypeOK /\ [Next]_vars => Keeps \/ UNCHANGED vars
  <2> SUFFICES ASSUME TypeOK, Next PROVE Keeps
    OBVIOUS
  <2>1. ASSUME NEW j \in Job, NEW t \in JobType, NEW p \in BOOLEAN, NEW m \in MaxAttempts,
               enqueue_job(j, t, p, m)
        PROVE  Keeps
    BY <2>1 DEF enqueue_job, TypeOK
  <2>2. ASSUME NEW w \in Worker, NEW j \in Job, claim_next_job(w, j) PROVE Keeps
    BY <2>2 DEF claim_next_job, Claimable, TypeOK
  <2>3. ASSUME NEW w \in Worker, Finalize(w) PROVE Keeps
    <3>1. work[w].job \in Job
      BY <2>3 DEF Finalize, TypeOK
    <3>2. work[w].final \in {"complete", "fail", "retry"}
      BY <2>3 DEF Finalize, TypeOK, Work, Final
    <3>3. QED
      BY <2>3, <3>1, <3>2 DEF Finalize, HoldsLease, complete_job, fail_job, retry_job, TypeOK
  <2>4. ASSUME NEW w \in Worker, recover_stuck_jobs(w) PROVE Keeps
    BY <2>4 DEF recover_stuck_jobs, Stuck, TypeOK
  <2>5. ASSUME NEW j \in Job, retry_failed_job(j) PROVE Keeps
    BY <2>5 DEF retry_failed_job, TypeOK
  <2>6. ASSUME NEW st, NEW age, DeleteOlder(st, age) PROVE Keeps
    BY <2>6 DEF DeleteOlder, TypeOK, Row
  <2>7. ASSUME UNCHANGED jobs PROVE Keeps
    BY <2>7
  <2>8. QED
    BY <2>1, <2>2, <2>3, <2>4, <2>5, <2>6, <2>7
       DEF Next, register_job_handler, MissingHandler, PoisonPayload, StartHandler,
           HandlerReturnsOk, HandlerFails, FinalizeError, cleanup_completed_jobs,
           cleanup_jobs, purge_failed_jobs, Crash, Tick
<1>2. QED
  BY <1>1, TypeCorrect, PTL DEF Spec, CompletedIsFinal

-----------------------------------------------------------------------------
(* Owners and the refinement.  A job's owners are the workers whose finalizer *)
(* would pass the lease gate.                                                 *)

OwnersOf(j) == {w \in Worker : Holding(w) /\ work[w].job = j /\ HoldsLease(w)}

\* Only a running row has owners.
LEMMA OwnersRun ==
    ASSUME NEW j, jobs[j].status # "running"
    PROVE  OwnersOf(j) = {}
  BY DEF OwnersOf, HoldsLease

\* A step that leaves the rows, the phases of holding workers, their jobs and their tokens
\* alone changes no owner.
LEMMA OwnersKept ==
    ASSUME NEW j, NEW w \in Worker, jobs'[j] = jobs[j],
           \A v \in Worker : v # w => work'[v] = work[v],
           \/ ~Holding(w) /\ ~Holding(w)'
           \/ /\ Holding(w) /\ Holding(w)'
              /\ work'[w].job = work[w].job /\ work'[w].token = work[w].token
           \/ w \notin OwnersOf(j) /\ (~Holding(w)' \/ work'[w].job # j)
    PROVE  OwnersOf(j)' = OwnersOf(j)
  BY DEF OwnersOf, Holding, HoldsLease

\* enqueue_job makes and unmakes no owner: nobody holds an id that has no row yet.
LEMMA EnqueueOwners ==
    ASSUME TypeOK, IInv, NEW j \in Job, NEW t \in JobType, NEW p \in BOOLEAN,
           NEW m \in MaxAttempts, enqueue_job(j, t, p, m)
    PROVE  /\ jobs[j].status = "none" /\ jobs'[j].status = "pending"
           /\ \A k \in Job : k # j => jobs'[k] = jobs[k]
           /\ \A k \in Job : OwnersOf(k)' = OwnersOf(k)
<1>1. /\ jobs[j].status = "none" /\ jobs'[j].status = "pending" /\ UNCHANGED work
      /\ \A k \in Job : k # j => jobs'[k] = jobs[k]
  BY DEF enqueue_job, TypeOK
<1>2. OwnersOf(j) = {} /\ OwnersOf(j)' = {}
  BY <1>1 DEF OwnersOf, HoldsLease
<1>3. \A k \in Job : k # j => OwnersOf(k)' = OwnersOf(k)
  BY <1>1 DEF OwnersOf, Holding, HoldsLease
<1>4. QED
  BY <1>1, <1>2, <1>3

\* After a claim the claiming worker is the one owner: the token of every other worker that
\* still has the job on its stack is in the past.
LEMMA ClaimOwners ==
    ASSUME TypeOK, IInv, NEW w \in Worker, NEW j \in Job, claim_next_job(w, j)
    PROVE  /\ jobs[j].status = "pending" /\ jobs'[j].status = "running"
           /\ \A k \in Job : k # j => jobs'[k] = jobs[k]
           /\ \A k \in Job : k # j => OwnersOf(k)' = OwnersOf(k)
           /\ OwnersOf(j)' = {w}
<1>1. /\ jobs[j].status = "pending" /\ jobs'[j].status = "running" /\ jobs'[j].claimed_at = now
      /\ \A k \in Job : k # j => jobs'[k] = jobs[k]
      /\ work[w].phase = "idle" /\ work'[w].phase = "claimed"
      /\ work'[w].job = j /\ work'[w].token = now
      /\ \A v \in Worker : v # w => work'[v] = work[v]
  BY DEF claim_next_job, Claimable, TypeOK, Row
<1>2. \A k \in Job : k # j => OwnersOf(k)' = OwnersOf(k)
  BY <1>1, OwnersKept DEF OwnersOf, Holding
<1>3. ASSUME NEW v \in Worker, v # w, v \in OwnersOf(j)' PROVE FALSE
  <2>1. Holding(v) /\ work[v].job = j /\ work[v].token = now
    BY <1>1, <1>3 DEF OwnersOf, Holding, HoldsLease
  <2>2. work[v].token < now
    BY <1>1, <2>1 DEF IInv, LeaseInv, Current
  <2>3. QED
    BY <2>1, <2>2 DEF TypeOK
<1>4. w \in OwnersOf(j)'
  BY <1>1 DEF OwnersOf, Holding, HoldsLease
<1>5. QED
  BY <1>1, <1>2, <1>3, <1>4 DEF OwnersOf

\* The steps of a worker between its claim and its finalizer change no owner.
LEMMA StackOwners ==
    ASSUME TypeOK, NEW w \in Worker,
           \/ MissingHandler(w) \/ PoisonPayload(w) \/ StartHandler(w)
           \/ HandlerReturnsOk(w) \/ HandlerFails(w)
    PROVE  UNCHANGED jobs /\ \A k \in Job : OwnersOf(k)' = OwnersOf(k)
<1>1. UNCHANGED jobs /\ \A v \in Worker : v # w => work'[v] = work[v]
  BY DEF MissingHandler, PoisonPayload, StartHandler, HandlerReturnsOk, HandlerFails, TypeOK
<1>2. /\ Holding(w) /\ Holding(w)'
      /\ work'[w].job = work[w].job /\ work'[w].token = work[w].token
  BY DEF MissingHandler, PoisonPayload, StartHandler, HandlerReturnsOk, HandlerFails,
         TypeOK, Work, Holding
<1>3. QED
  BY <1>1, <1>2, OwnersKept

\* A finalizer that holds its lease ends the ownership of its job; another one is no owner.
LEMMA FinalizeOwners ==
    ASSUME TypeOK, NEW w \in Worker, Finalize(w), NEW j, j = work[w].job
    PROVE  /\ j \in Job /\ \A k \in Job : k # j => jobs'[k] = jobs[k] /\ OwnersOf(k)' = OwnersOf(k)
           /\ IF HoldsLease(w)
              THEN /\ w \in OwnersOf(j) /\ OwnersOf(j)' = {}
                   /\ jobs[j].status = "running" /\ jobs'[j].status \in {"completed", "failed", "pending"}
              ELSE jobs'[j] = jobs[j] /\ OwnersOf(j)' = OwnersOf(j)
<1>0. /\ Holding(w) /\ j \in Job /\ jobs[j] \in Row
      /\ work[w].final \in {"complete", "fail", "retry"}
  BY DEF Finalize, Holding, TypeOK, Work, Final
<1>1. ~Holding(w)' /\ \A v \in Worker : v # w => work'[v] = work[v]
  BY DEF Finalize, Idle, TypeOK, Holding
<1>2. \A k \in Job : k # j => jobs'[k] = jobs[k]
  BY <1>0 DEF Finalize, complete_job, fail_job, retry_job, TypeOK
<1>3. \A k \in Job : k # j => OwnersOf(k)' = OwnersOf(k)
  <2>1. \A k \in Job : k # j => w \notin OwnersOf(k)
    BY DEF OwnersOf
  <2>2. QED
    BY <1>1, <1>2, <2>1, OwnersKept
<1>4. CASE HoldsLease(w)
  <2>1. jobs[j].status = "running" /\ w \in OwnersOf(j)
    BY <1>0, <1>4 DEF HoldsLease, OwnersOf
  <2>2. jobs'[j].status \in {"completed", "failed", "pending"}
    BY <1>0, <1>4 DEF Finalize, complete_job, fail_job, retry_job, TypeOK, Row
  <2>3. OwnersOf(j)' = {}
    BY <2>2 DEF OwnersOf, HoldsLease
  <2>4. QED
    BY <1>0, <1>2, <1>3, <1>4, <2>1, <2>2, <2>3
<1>5. CASE ~HoldsLease(w)
  <2>1. jobs'[j] = jobs[j]
    BY <1>5 DEF Finalize
  <2>2. w \notin OwnersOf(j)
    BY <1>5 DEF OwnersOf
  <2>3. OwnersOf(j)' = OwnersOf(j)
    BY <1>0, <1>1, <2>1, <2>2, OwnersKept
  <2>4. QED
    BY <1>0, <1>2, <1>3, <1>5, <2>1, <2>3
<1>6. QED
  BY <1>4, <1>5

\* Recovery takes the job from whoever owns it.
LEMMA RecoverOwners ==
    ASSUME TypeOK, NEW w \in Worker, recover_stuck_jobs(w)
    PROVE  \A k \in Job :
             IF Stuck(k) THEN /\ jobs[k].status = "running" /\ jobs'[k].status = "pending"
                              /\ OwnersOf(k)' = {}
             ELSE jobs'[k] = jobs[k] /\ OwnersOf(k)' = OwnersOf(k)
<1>1. \A k \in Job : IF Stuck(k) THEN jobs[k].status = "running" /\ jobs'[k].status = "pending"
                      ELSE jobs'[k] = jobs[k]
  BY DEF recover_stuck_jobs, Stuck, TypeOK, Row
<1>2. UNCHANGED work
  BY DEF recover_stuck_jobs
<1>3. QED
  BY <1>1, <1>2 DEF OwnersOf, Holding, HoldsLease

\* The operators' statements touch rows that nobody owns.
LEMMA RetryFailedOwners ==
    ASSUME TypeOK, NEW j \in Job, retry_failed_job(j)
    PROVE  /\ jobs[j].status = "failed" /\ jobs'[j].status = "pending"
           /\ \A k \in Job : k # j => jobs'[k] = jobs[k]
           /\ \A k \in Job : OwnersOf(k)' = OwnersOf(k)
<1>1. /\ jobs[j].status = "failed" /\ jobs'[j].status = "pending" /\ UNCHANGED work
      /\ \A k \in Job : k # j => jobs'[k] = jobs[k]
  BY DEF retry_failed_job, TypeOK, Row
<1>2. QED
  BY <1>1 DEF OwnersOf, Holding, HoldsLease

\* So does the cleanup.
LEMMA DeleteOwners ==
    ASSUME TypeOK, NEW st \in {"completed", "failed"}, NEW age, DeleteOlder(st, age), UNCHANGED work
    PROVE  \A k \in Job :
             /\ IF jobs[k].status = st /\ jobs[k].completed_at < now - age
                THEN jobs'[k].status = "deleted" ELSE jobs'[k] = jobs[k]
             /\ OwnersOf(k)' = OwnersOf(k)
<1>1. \A k \in Job : IF jobs[k].status = st /\ jobs[k].completed_at < now - age
                      THEN jobs'[k].status = "deleted" ELSE jobs'[k] = jobs[k]
  BY DEF DeleteOlder, TypeOK, Row
<1>2. \A k \in Job : OwnersOf(k)' = OwnersOf(k)
  BY <1>1 DEF OwnersOf, Holding, HoldsLease
<1>3. QED
  BY <1>1, <1>2

\* Only a crash or a failed finalizer write leaves a row 'running' that no worker will
\* finalize.
THEOREM RunningIsOwned == Spec => []RunningHasOwner
<1> DEFINE Owned == faults = 0 => \A j \in Job : jobs[j].status = "running" => OwnersOf(j) # {}
<1>1. Init => Owned
  BY DEF Init, NoRow
<1>2. TypeOK /\ IInv /\ Owned /\ [Next]_vars => Owned'
  <2> SUFFICES ASSUME TypeOK, IInv, Owned, [Next]_vars PROVE Owned'
    OBVIOUS
  <2>A. ASSUME UNCHANGED <<faults, jobs>>, \A k \in Job : OwnersOf(k)' = OwnersOf(k) PROVE Owned'
    BY <2>A
  <2>1. ASSUME NEW j \in Job, NEW t \in JobType, NEW p \in BOOLEAN, NEW m \in MaxAttempts,
               enqueue_job(j, t, p, m)
        PROVE  Owned'
    <3>1. faults' = faults
      BY <2>1 DEF enqueue_job
    <3>2. QED
      BY <2>1, <3>1, EnqueueOwners
  <2>2. ASSUME NEW w \in Worker, NEW j \in Job, claim_next_job(w, j) PROVE Owned'
    <3>1. faults' = faults
      BY <2>2 DEF claim_next_job
    <3>2. QED
      BY <2>2, <3>1, ClaimOwners
  <2>3. ASSUME NEW w \in Worker,
               \/ MissingHandler(w) \/ PoisonPayload(w) \/ StartHandler(w)
               \/ HandlerReturnsOk(w) \/ HandlerFails(w)
        PROVE  Owned'
    <3>1. faults' = faults
      BY <2>3 DEF MissingHandler, PoisonPayload, StartHandler, HandlerReturnsOk, HandlerFails
    <3>2. QED
      BY <2>3, <2>A, <3>1, StackOwners
  <2>4. ASSUME NEW w \in Worker, Finalize(w) PROVE Owned'
    <3>1. faults' = faults
      BY <2>4 DEF Finalize
    <3>2. PICK j : j = work[w].job
      OBVIOUS
    <3>3. /\ j \in Job /\ \A k \in Job : k # j => jobs'[k] = jobs[k] /\ OwnersOf(k)' = OwnersOf(k)
          /\ \/ jobs'[j].status # "running"
             \/ jobs'[j] = jobs[j] /\ OwnersOf(j)' = OwnersOf(j)
      BY <2>4, <3>2, FinalizeOwners
    <3>4. QED
      BY <3>1, <3>3
  <2>5. ASSUME NEW w \in Worker, recover_stuck_jobs(w) PROVE Owned'
    <3>1. faults' = faults
      BY <2>5 DEF recover_stuck_jobs
    <3>2. QED
      BY <2>5, <3>1, RecoverOwners
  <2>6. ASSUME NEW j \in Job, retry_failed_job(j) PROVE Owned'
    <3>1. faults' = faults
      BY <2>6 DEF retry_failed_job
    <3>2. QED
      BY <2>6, <3>1, RetryFailedOwners
  <2>7. ASSUME NEW st \in {"completed", "failed"}, NEW age, DeleteOlder(st, age),
               UNCHANGED <<work, faults>>
        PROVE  Owned'
    BY <2>7, DeleteOwners
  <2>8. ASSUME faults' = faults + 1 PROVE Owned'
    BY <2>8 DEF TypeOK
  <2>9. ASSUME UNCHANGED <<faults, jobs, work>> PROVE Owned'
    BY <2>9 DEF OwnersOf, Holding, HoldsLease
  <2> HIDE DEF Owned
  <2>10. CASE Next
    BY <2>1, <2>2, <2>3, <2>4, <2>5, <2>6, <2>7, <2>8, <2>9, <2>10
       DEF Next, register_job_handler, FinalizeError, Crash, Tick,
           cleanup_completed_jobs, cleanup_jobs, purge_failed_jobs
  <2>11. QED
    BY <2>9, <2>10 DEF vars
<1>3. Owned => RunningHasOwner
  BY DEF RunningHasOwner, OwnersOf
<1>4. QED
  BY <1>1, <1>2, <1>3, InductiveInvariant, TypeCorrect, PTL DEF Spec

\* The refinement mapping, row by row.
LEMMA Mapping ==
    /\ QueueState = [j \in Job |-> StateOf(jobs[j].status)]
    /\ Holders = [j \in Job |-> OwnersOf(j)]
    /\ QueueState' = [j \in Job |-> StateOf(jobs'[j].status)]
    /\ Holders' = [j \in Job |-> OwnersOf(j)']
  BY DEF QueueState, Holders, OwnersOf

\* Where a row is in the life of a job of LeaseQueue.
LEMMA StateValues ==
    /\ StateOf("none") = "none" /\ StateOf("pending") = "queued" /\ StateOf("running") = "held"
    /\ StateOf("completed") = "done" /\ StateOf("failed") = "dead" /\ StateOf("deleted") = "gone"
  BY DEF StateOf

\* Every step is a step of LeaseQueue or changes nothing it can see.
LEMMA StepRefines ==
    ASSUME TypeOK, IInv, Next
    PROVE  [Queue!Next]_(Queue!vars)
<1>A. ASSUME \A k \in Job : jobs'[k].status = jobs[k].status /\ OwnersOf(k)' = OwnersOf(k)
      PROVE  [Queue!Next]_(Queue!vars)
  <2>1. QueueState' = QueueState /\ Holders' = Holders
    BY <1>A, Mapping
  <2>2. QED
    BY <2>1 DEF Queue!vars
<1>1. ASSUME NEW j \in Job, NEW t \in JobType, NEW p \in BOOLEAN, NEW m \in MaxAttempts,
             enqueue_job(j, t, p, m)
      PROVE  Queue!Next
  <2>1. QueueState' = [QueueState EXCEPT ![j] = "queued"] /\ QueueState[j] = "none"
    BY <1>1, EnqueueOwners, Mapping, StateValues
  <2>2. Holders' = Holders
    BY <1>1, EnqueueOwners, Mapping
  <2>3. QED
    BY <2>1, <2>2 DEF Queue!Next, Queue!Enqueue
<1>2. ASSUME NEW w \in Worker, NEW j \in Job, claim_next_job(w, j) PROVE Queue!Next
  <2>1. QueueState' = [QueueState EXCEPT ![j] = "held"] /\ QueueState[j] = "queued"
    BY <1>2, ClaimOwners, Mapping, StateValues
  <2>2. Holders' = [Holders EXCEPT ![j] = {w}]
    BY <1>2, ClaimOwners, Mapping
  <2>3. QED
    BY <2>1, <2>2 DEF Queue!Next, Queue!Take
<1>3. ASSUME NEW w \in Worker, Finalize(w) PROVE [Queue!Next]_(Queue!vars)
  <2>0. PICK j : j = work[w].job
    OBVIOUS
  <2>1. j \in Job /\ \A k \in Job : k # j => jobs'[k] = jobs[k] /\ OwnersOf(k)' = OwnersOf(k)
    BY <1>3, <2>0, FinalizeOwners
  <2>2. CASE HoldsLease(w)
    <3>1. /\ w \in OwnersOf(j) /\ OwnersOf(j)' = {} /\ jobs[j].status = "running"
          /\ jobs'[j].status \in {"completed", "failed", "pending"}
      BY <1>3, <2>0, <2>2, FinalizeOwners
    <3>2. PICK o \in {"done", "dead", "queued"} : StateOf(jobs'[j].status) = o
      BY <3>1, StateValues
    <3>3. /\ QueueState' = [QueueState EXCEPT ![j] = o] /\ QueueState[j] = "held"
      BY <2>1, <3>1, <3>2, Mapping, StateValues
    <3>4. Holders' = [Holders EXCEPT ![j] = {}] /\ w \in Holders[j]
      BY <2>1, <3>1, Mapping
    <3>5. QED
      BY <2>1, <3>3, <3>4 DEF Queue!Next, Queue!Finish
  <2>3. CASE ~HoldsLease(w)
    <3>1. jobs'[j] = jobs[j] /\ OwnersOf(j)' = OwnersOf(j)
      BY <1>3, <2>0, <2>3, FinalizeOwners
    <3>2. QED
      BY <1>A, <2>1, <3>1
  <2>4. QED
    BY <2>2, <2>3
<1>4. ASSUME NEW W \in SUBSET Worker, UNCHANGED jobs,
             \A v \in W : work'[v] = Idle, \A v \in Worker \ W : work'[v] = work[v]
      PROVE  Queue!Next
  <2>1. \A k \in Job : OwnersOf(k)' = OwnersOf(k) \ W
    BY <1>4 DEF OwnersOf, Holding, HoldsLease, Idle
  <2>2. QueueState' = QueueState /\ Holders' = [k \in Job |-> Holders[k] \ W]
    BY <1>4, <2>1, Mapping
  <2>3. QED
    BY <2>2 DEF Queue!Next, Queue!Vanish
<1>5. ASSUME NEW w \in Worker, recover_stuck_jobs(w) PROVE Queue!Next
  <2> DEFINE S == {k \in Job : Stuck(k)}
  <2>1. /\ QueueState' = [k \in Job |-> IF k \in S THEN "queued" ELSE QueueState[k]]
        /\ \A k \in S : QueueState[k] = "held"
    BY <1>5, RecoverOwners, Mapping, StateValues
  <2>2. Holders' = [k \in Job |-> IF k \in S THEN {} ELSE Holders[k]]
    BY <1>5, RecoverOwners, Mapping
  <2> HIDE DEF S
  <2>3. S \in SUBSET Job
    BY DEF S
  <2>4. QED
    BY <2>1, <2>2, <2>3 DEF Queue!Next, Queue!Recover
<1>6. ASSUME NEW j \in Job, retry_failed_job(j) PROVE Queue!Next
  <2>1. QueueState' = [QueueState EXCEPT ![j] = "queued"] /\ QueueState[j] = "dead"
    BY <1>6, RetryFailedOwners, Mapping, StateValues
  <2>2. Holders' = Holders
    BY <1>6, RetryFailedOwners, Mapping
  <2>3. QED
    BY <2>1, <2>2 DEF Queue!Next, Queue!Revive
<1>7. ASSUME NEW st \in {"completed", "failed"}, NEW age, DeleteOlder(st, age), UNCHANGED work
      PROVE  Queue!Next
  <2> DEFINE S == {k \in Job : jobs[k].status = st /\ jobs[k].completed_at < now - age}
  <2>1. /\ QueueState' = [k \in Job |-> IF k \in S THEN "gone" ELSE QueueState[k]]
        /\ \A k \in S : QueueState[k] \in {"done", "dead"}
    BY <1>7, DeleteOwners, Mapping, StateValues
  <2>2. Holders' = Holders
    BY <1>7, DeleteOwners, Mapping
  <2> HIDE DEF S
  <2>3. S \in SUBSET Job
    BY DEF S
  <2>4. QED
    BY <2>1, <2>2, <2>3 DEF Queue!Next, Queue!Remove
<1>8. ASSUME NEW w \in Worker, FinalizeError(w) PROVE Queue!Next
  <2>1. work'[w] = Idle /\ UNCHANGED jobs /\ \A v \in Worker \ {w} : work'[v] = work[v]
    BY <1>8 DEF FinalizeError, TypeOK
  <2>2. {w} \in SUBSET Worker /\ \A v \in {w} : work'[v] = Idle
    BY <2>1
  <2>3. QED
    BY <1>4, <2>1, <2>2
<1>9. CASE Crash
  <2>1. UNCHANGED jobs /\ \A v \in Worker : work'[v] = Idle
    BY <1>9 DEF Crash
  <2>2. Worker \in SUBSET Worker /\ \A v \in Worker \ Worker : work'[v] = work[v]
    OBVIOUS
  <2>3. QED
    BY <1>4, <2>1, <2>2
<1>10. ASSUME NEW w \in Worker,
              \/ MissingHandler(w) \/ PoisonPayload(w) \/ StartHandler(w)
              \/ HandlerReturnsOk(w) \/ HandlerFails(w)
       PROVE  [Queue!Next]_(Queue!vars)
  BY <1>10, <1>A, StackOwners
<1>11. ASSUME UNCHANGED <<jobs, work>> PROVE [Queue!Next]_(Queue!vars)
  BY <1>11, <1>A DEF OwnersOf, Holding, HoldsLease
<1>12. QED
  BY <1>1, <1>2, <1>3, <1>5, <1>6, <1>7, <1>8, <1>9, <1>10, <1>11
     DEF Next, register_job_handler, Tick, cleanup_completed_jobs, cleanup_jobs, purge_failed_jobs

\* The table and its workers implement LeaseQueue: a job has at most one holder whose outcome
\* counts, and a worker that lost its lease never gets to end the job.
THEOREM RefinesLeaseQueue == Spec => ImplementsLeaseQueue
<1>1. Init => Queue!Init
  <2> SUFFICES ASSUME Init PROVE Queue!Init
    OBVIOUS
  <2>1. \A j \in Job : jobs[j].status = "none" /\ OwnersOf(j) = {}
    BY DEF Init, NoRow, OwnersOf, HoldsLease
  <2>2. QueueState = [j \in Job |-> "none"] /\ Holders = [j \in Job |-> {}]
    BY <2>1, Mapping, StateValues
  <2>3. QED
    BY <2>2 DEF Queue!Init
<1>2. TypeOK /\ IInv /\ [Next]_vars => [Queue!Next]_(Queue!vars)
  <2>1. UNCHANGED vars => UNCHANGED Queue!vars
    BY DEF vars, Queue!vars, QueueState, Holders, Holding, HoldsLease
  <2>2. QED
    BY <2>1, StepRefines
<1>3. QED
  BY <1>1, <1>2, InductiveInvariant, TypeCorrect, PTL DEF Spec, ImplementsLeaseQueue, Queue!Spec
=============================================================================
