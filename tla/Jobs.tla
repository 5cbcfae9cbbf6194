-------------------------------- MODULE Jobs --------------------------------
(***************************************************************************)
(* The durable job queue of kleos-lib (jobs/mod.rs) and the worker loop of *)
(* kleos-server (background.rs) that drains it.                            *)
(*                                                                         *)
(* The jobs table is one row per job.  A claim stamps the row with the     *)
(* wall clock in whole seconds (claimed_at); that stamp is the lease token *)
(* the worker hands to every finalizer.  Workers share one writer          *)
(* connection, so each closure passed to db.write is one atomic step;      *)
(* everything a worker does between two closures is a separate step.       *)
(***************************************************************************)
EXTENDS Integers

CONSTANTS
    Job,            \* row ids; AUTOINCREMENT, so an id is used once
    NoJob,          \* what an idle worker holds
    Worker,         \* worker tasks
    JobType,        \* values of the type column
    Timeout,        \* job_timeout_for: seconds a handler of a type may run
    Grace,          \* GRACE_SECS of recover_stuck_jobs
    Slack,          \* scheduling delay of a claimed or running job beyond its timeout
    RetryUnit,      \* the 10 of the retry delay 10 * attempts^2
    CleanupAge,     \* age in seconds a row is kept after it ended
    MaxAttempts,    \* the values of max_attempts callers enqueue with
    MaxNow,         \* bound: last second of the clock
    MaxFaults,      \* bound: process crashes and failed finalizer writes
    MaxManual       \* bound: operator retries of failed jobs

ASSUME JobsAssumption ==
    /\ NoJob \notin Job
    /\ JobType # {}
    /\ Timeout \in [JobType -> Nat]
    /\ Grace \in Nat /\ Slack \in Nat /\ Slack <= Grace
    /\ RetryUnit \in Nat \ {0} /\ CleanupAge \in Nat
    /\ MaxAttempts \subseteq Nat \ {0}
    /\ MaxNow \in Nat /\ MaxFaults \in Nat /\ MaxManual \in Nat

VARIABLES
    jobs,           \* the jobs table
    work,           \* what each worker task holds of the job it claimed
    handlers,       \* the process-wide handler registry
    now,            \* datetime('now'), whole seconds
    faults, manual, \* how much of the two bounds is spent
    claims,         \* history: how often each job has been claimed
    lost,           \* history: leases recovery took back since attempts was last 0
    succeeded       \* history: jobs some handler run of which returned Ok

vars == <<jobs, work, handlers, now, faults, manual, claims, lost, succeeded>>

Null == 0           \* SQL NULL in a time column; the clock starts at 1

Status == {"none", "pending", "running", "completed", "failed", "deleted"}

Row == [status : Status, type : JobType, poison : BOOLEAN, attempts : Nat,
        max_attempts : Nat, created_at : Nat, claimed_at : Nat,
        completed_at : Nat, next_retry_at : Nat]

Phase == {"idle", "claimed", "running", "finalizing"}

Final == {"none", "complete", "fail", "retry"}

\* The Job value process_next_job keeps on its stack; claim is history.
Work == [phase : Phase, job : Job \cup {NoJob}, token : Nat, attempts : Nat,
         final : Final, claim : Nat]

Idle == [phase |-> "idle", job |-> NoJob, token |-> Null, attempts |-> 0,
         final |-> "none", claim |-> 0]

\* An id no row has been inserted with; only the status matters.
NoRow == [status |-> "none", type |-> CHOOSE t \in JobType : TRUE, poison |-> FALSE,
          attempts |-> 0, max_attempts |-> 0, created_at |-> Null, claimed_at |-> Null,
          completed_at |-> Null, next_retry_at |-> Null]

\* Every column, stack value and history variable keeps its type.
TypeOK ==
    /\ jobs \in [Job -> Row]
    /\ work \in [Worker -> Work]
    /\ \A w \in Worker :
         /\ work[w].phase # "idle" => work[w].job \in Job
         /\ work[w].phase = "finalizing" => work[w].final # "none"
    /\ handlers \in SUBSET JobType
    /\ now \in Nat /\ faults \in Nat /\ manual \in Nat
    /\ claims \in [Job -> Nat]
    /\ lost \in [Job -> Nat]
    /\ succeeded \in SUBSET Job

Init ==
    /\ jobs = [j \in Job |-> NoRow]
    /\ work = [w \in Worker |-> Idle]
    /\ handlers = {}
    /\ now = 1 /\ faults = 0 /\ manual = 0
    /\ claims = [j \in Job |-> 0]
    /\ lost = [j \in Job |-> 0]
    /\ succeeded = {}
-----------------------------------------------------------------------------
(* Producers. *)

\* poison: the payload column does not hold JSON.
enqueue_job(j, t, p, m) ==
    /\ jobs[j].status = "none"
    /\ jobs' = [jobs EXCEPT ![j] =
                  [status |-> "pending", type |-> t, poison |-> p, attempts |-> 0,
                   max_attempts |-> m, created_at |-> now, claimed_at |-> Null,
                   completed_at |-> Null, next_retry_at |-> Null]]
    /\ UNCHANGED <<work, handlers, now, faults, manual, claims, lost, succeeded>>

register_job_handler(t) ==
    /\ handlers' = handlers \cup {t}
    /\ UNCHANGED <<jobs, work, now, faults, manual, claims, lost, succeeded>>
-----------------------------------------------------------------------------
(* Workers. *)

Claimable(j) ==
    /\ jobs[j].status = "pending"
    /\ jobs[j].next_retry_at <= now

\* Rows created in one second have no order among them.
Oldest(j) == \A k \in Job : Claimable(k) => jobs[j].created_at <= jobs[k].created_at

\* Mutant: the token is a second clock reading, taken a second later.
claim_two_clock_reads(w, j) ==
    /\ work[w].phase = "idle"
    /\ Claimable(j) /\ Oldest(j)
    /\ jobs' = [jobs EXCEPT ![j].status = "running", ![j].claimed_at = now,
                            ![j].attempts = @ + 1]
    /\ claims' = [claims EXCEPT ![j] = @ + 1]
    /\ work' = [work EXCEPT ![w] =
                  [phase |-> "claimed", job |-> j, token |-> now + 1,
                   attempts |-> jobs[j].attempts + 1, final |-> "none",
                   claim |-> claims[j] + 1]]
    /\ UNCHANGED <<handlers, now, faults, manual, lost, succeeded>>

claim_next_job(w, j) ==
    /\ work[w].phase = "idle"
    /\ Claimable(j) /\ Oldest(j)
    /\ jobs' = [jobs EXCEPT ![j].status = "running", ![j].claimed_at = now,
                            ![j].attempts = @ + 1]
    /\ claims' = [claims EXCEPT ![j] = @ + 1]
    /\ work' = [work EXCEPT ![w] =
                  [phase |-> "claimed", job |-> j, token |-> now,
                   attempts |-> jobs[j].attempts + 1, final |-> "none",
                   claim |-> claims[j] + 1]]
    /\ UNCHANGED <<handlers, now, faults, manual, lost, succeeded>>

\* Mutants: the attempts check off by one, either way.
RetryOnceMore(w) ==
    IF work[w].attempts > jobs[work[w].job].max_attempts THEN "fail" ELSE "retry"

GiveUpEarly(w) ==
    IF work[w].attempts + 1 >= jobs[work[w].job].max_attempts THEN "fail" ELSE "retry"

\* The finalizer process_next_job calls for a handler that did not return Ok.
GiveUpOrRetry(w) ==
    IF work[w].attempts >= jobs[work[w].job].max_attempts THEN "fail" ELSE "retry"

HasHandler(w) == jobs[work[w].job].type \in handlers

\* Handlers can be missing during startup or a rolling deploy: retried like errors.
MissingHandler(w) ==
    /\ work[w].phase = "claimed"
    /\ ~HasHandler(w)
    /\ work' = [work EXCEPT ![w].phase = "finalizing", ![w].final = GiveUpOrRetry(w)]
    /\ UNCHANGED <<jobs, handlers, now, faults, manual, claims, lost, succeeded>>

\* A payload that does not parse never will: failed whatever attempts are left.
PoisonPayload(w) ==
    /\ work[w].phase = "claimed"
    /\ HasHandler(w) /\ jobs[work[w].job].poison
    /\ work' = [work EXCEPT ![w].phase = "finalizing", ![w].final = "fail"]
    /\ UNCHANGED <<jobs, handlers, now, faults, manual, claims, lost, succeeded>>

StartHandler(w) ==
    /\ work[w].phase = "claimed"
    /\ HasHandler(w) /\ ~jobs[work[w].job].poison
    /\ work' = [work EXCEPT ![w].phase = "running"]
    /\ UNCHANGED <<jobs, handlers, now, faults, manual, claims, lost, succeeded>>

HandlerReturnsOk(w) ==
    /\ work[w].phase = "running"
    /\ work' = [work EXCEPT ![w].phase = "finalizing", ![w].final = "complete"]
    /\ succeeded' = succeeded \cup {work[w].job}
    /\ UNCHANGED <<jobs, handlers, now, faults, manual, claims, lost>>

\* Mutant: an error is logged and the job completed.
HandlerErrorSwallowed(w) ==
    /\ work[w].phase = "running"
    /\ work' = [work EXCEPT ![w].phase = "finalizing", ![w].final = "complete"]
    /\ UNCHANGED <<jobs, handlers, now, faults, manual, claims, lost, succeeded>>

\* Err, a caught panic and an elapsed timeout are handled alike.
HandlerFails(w) ==
    /\ work[w].phase = "running"
    /\ work' = [work EXCEPT ![w].phase = "finalizing", ![w].final = GiveUpOrRetry(w)]
    /\ UNCHANGED <<jobs, handlers, now, faults, manual, claims, lost, succeeded>>

\* Mutants: the finalizers without the lease gate, and with its status half only.
NoLeaseGate(w) == TRUE

StatusGateOnly(w) == jobs[work[w].job].status = "running"

\* WHERE id = ? AND status = 'running' AND claimed_at = ?
HoldsLease(w) ==
    /\ jobs[work[w].job].status = "running"
    /\ jobs[work[w].job].claimed_at = work[w].token

retry_delay(n) == RetryUnit * n * n

\* The three UPDATEs.
complete_job(w) ==
    [jobs EXCEPT ![work[w].job].status = "completed", ![work[w].job].completed_at = now]

\* Mutant: a status the other queries do not know.
fail_job_unknown_status(w) ==
    [jobs EXCEPT ![work[w].job].status = "error", ![work[w].job].completed_at = now]

fail_job(w) ==
    [jobs EXCEPT ![work[w].job].status = "failed", ![work[w].job].completed_at = now]

retry_job(w) ==
    [jobs EXCEPT ![work[w].job].status = "pending",
                 ![work[w].job].next_retry_at = now + retry_delay(work[w].attempts),
                 ![work[w].job].claimed_at = Null]

\* The finalizer: one UPDATE, which affects no row when the lease is gone.
Finalize(w) ==
    /\ work[w].phase = "finalizing"
    /\ jobs' = IF ~HoldsLease(w) THEN jobs
               ELSE CASE work[w].final = "complete" -> complete_job(w)
                      [] work[w].final = "fail" -> fail_job(w)
                      [] work[w].final = "retry" -> retry_job(w)
    /\ work' = [work EXCEPT ![w] = Idle]
    /\ UNCHANGED <<handlers, now, faults, manual, claims, lost, succeeded>>

\* The finalizer's write returns Err: process_next_job propagates it and the
\* loop moves on, the row still 'running'.
FinalizeError(w) ==
    /\ work[w].phase = "finalizing"
    /\ faults < MaxFaults
    /\ faults' = faults + 1
    /\ work' = [work EXCEPT ![w] = Idle]
    /\ UNCHANGED <<jobs, handlers, now, manual, claims, lost, succeeded>>

\* Mutants: one lease for every type; no recovery of a job with spent attempts.
StuckBlanketLease(j) ==
    /\ jobs[j].status = "running" /\ jobs[j].claimed_at # Null
    /\ now - jobs[j].claimed_at > Grace

StuckIfAttemptsLeft(j) ==
    /\ jobs[j].status = "running" /\ jobs[j].claimed_at # Null
    /\ jobs[j].attempts < jobs[j].max_attempts
    /\ now - jobs[j].claimed_at > Timeout[jobs[j].type] + Grace

Stuck(j) ==
    /\ jobs[j].status = "running" /\ jobs[j].claimed_at # Null
    /\ now - jobs[j].claimed_at > Timeout[jobs[j].type] + Grace

\* Called from the worker loop, so by a worker between two jobs.
recover_stuck_jobs(w) ==
    /\ work[w].phase = "idle"
    /\ jobs' = [j \in Job |->
                  IF Stuck(j) THEN [jobs[j] EXCEPT !.status = "pending", !.claimed_at = Null]
                  ELSE jobs[j]]
    /\ lost' = [j \in Job |-> IF Stuck(j) THEN lost[j] + 1 ELSE lost[j]]
    /\ UNCHANGED <<work, handlers, now, faults, manual, claims, succeeded>>
-----------------------------------------------------------------------------
(* Operators and housekeeping. *)

retry_failed_job(j) ==
    /\ jobs[j].status = "failed"
    /\ manual < MaxManual
    /\ manual' = manual + 1
    /\ jobs' = [jobs EXCEPT ![j].status = "pending", ![j].attempts = 0,
                            ![j].next_retry_at = Null]
    /\ lost' = [lost EXCEPT ![j] = 0]
    /\ UNCHANGED <<work, handlers, now, faults, claims, succeeded>>

\* DELETE of every row with the status that ended more than age seconds ago.
DeleteOlder(status, age) ==
    jobs' = [j \in Job |->
               IF jobs[j].status = status /\ jobs[j].completed_at < now - age
               THEN [jobs[j] EXCEPT !.status = "deleted"] ELSE jobs[j]]

cleanup_completed_jobs ==
    /\ DeleteOlder("completed", CleanupAge)
    /\ UNCHANGED <<work, handlers, now, faults, manual, claims, lost, succeeded>>

\* older_than_days is the operator's choice, clamped at zero.
cleanup_jobs(age) ==
    /\ DeleteOlder("completed", age)
    /\ UNCHANGED <<work, handlers, now, faults, manual, claims, lost, succeeded>>

purge_failed_jobs(age) ==
    /\ DeleteOlder("failed", age)
    /\ UNCHANGED <<work, handlers, now, faults, manual, claims, lost, succeeded>>

\* The process dies: every worker task and the registry go, the table stays.
Crash ==
    /\ faults < MaxFaults
    /\ faults' = faults + 1
    /\ work' = [w \in Worker |-> Idle]
    /\ handlers' = {}
    /\ UNCHANGED <<jobs, now, manual, claims, lost, succeeded>>

\* tokio::time::timeout ends a handler: time does not pass a claimed or running
\* job's timeout by more than the scheduling slack.  A finalizer may be delayed
\* for as long as the writer connection keeps it waiting.
InTime(w) ==
    work[w].phase \in {"claimed", "running"} =>
        now < work[w].token + Timeout[jobs[work[w].job].type] + Slack

Tick ==
    /\ now < MaxNow
    /\ \A w \in Worker : InTime(w)
    /\ now' = now + 1
    /\ UNCHANGED <<jobs, work, handlers, faults, manual, claims, lost, succeeded>>

Next ==
    \/ \E j \in Job, t \in JobType, p \in BOOLEAN, m \in MaxAttempts : enqueue_job(j, t, p, m)
    \/ \E t \in JobType : register_job_handler(t)
    \/ \E w \in Worker, j \in Job : claim_next_job(w, j)
    \/ \E w \in Worker : MissingHandler(w)
    \/ \E w \in Worker : PoisonPayload(w)
    \/ \E w \in Worker : StartHandler(w)
    \/ \E w \in Worker : HandlerReturnsOk(w)
    \/ \E w \in Worker : HandlerFails(w)
    \/ \E w \in Worker : Finalize(w)
    \/ \E w \in Worker : FinalizeError(w)
    \/ \E w \in Worker : recover_stuck_jobs(w)
    \/ \E j \in Job : retry_failed_job(j)
    \/ cleanup_completed_jobs
    \/ \E age \in 0..CleanupAge : cleanup_jobs(age)
    \/ \E age \in 0..CleanupAge : purge_failed_jobs(age)
    \/ Crash
    \/ Tick

Spec == Init /\ [][Next]_vars
-----------------------------------------------------------------------------
(* Safety. *)

Holding(w) == work[w].phase # "idle"

\* A finalizer that would take effect belongs to the newest claim of its job: a
\* worker whose job was requeued and claimed again never passes the WHERE clause
\* of complete_job, fail_job or retry_job, although the token is only a second.
LeaseIsLatestClaim ==
    \A w \in Worker : Holding(w) /\ HoldsLease(w) => work[w].claim = claims[work[w].job]

\* recover_stuck_jobs never requeues a job whose handler still runs: no two
\* workers are inside the handler of one job.
NoDoubleExecution ==
    \A v, w \in Worker :
        /\ work[v].phase = "running" /\ work[w].phase = "running"
        /\ work[v].job = work[w].job
        => v = w

\* A job is started more often than max_attempts only when recovery took back the
\* lease of an attempt that never reached a finalizer (process_next_job holds the
\* only attempts check).
AttemptsBounded ==
    \A j \in Job : jobs[j].status \notin {"none", "deleted"} =>
        jobs[j].attempts <= jobs[j].max_attempts + lost[j]

\* A job is given up only when its payload is poison or its attempts are spent.
FailedOnlyWhenExhausted ==
    \A j \in Job : jobs[j].status = "failed" =>
        jobs[j].poison \/ jobs[j].attempts >= jobs[j].max_attempts

\* A row reads 'completed' only if a run of its handler returned Ok.
CompletedMeansSucceeded ==
    \A j \in Job : jobs[j].status = "completed" => j \in succeeded

\* Only a crash or a failed finalizer write leaves a row 'running' that no worker
\* will finalize: the token a worker holds is the one its claim stored.
RunningHasOwner ==
    faults = 0 => \A j \in Job : jobs[j].status = "running" =>
        \E w \in Worker : Holding(w) /\ work[w].job = j /\ HoldsLease(w)

\* A completed row is never reopened or failed, whatever stale workers do.
CompletedIsFinal ==
    [][\A j \in Job : jobs[j].status = "completed" =>
            jobs'[j].status \in {"completed", "deleted"}]_vars
-----------------------------------------------------------------------------
(* Liveness.  The worker loop polls without end and tokio's timer ends every  *)
(* handler, so each step of a worker is weakly fair; producers, operators and *)
(* crashes are not.  Time passes only while a job waits for its retry time or *)
(* for its lease to run out and no worker has something to do: the bounded    *)
(* clock then outlasts the retries that a bounded number of faults can cause. *)

Active(j) == jobs[j].status \in {"pending", "running"}

\* Nothing can be done before the next second.
Waiting ==
    /\ \E j \in Job : Active(j)
    /\ \A w \in Worker : ~Holding(w)
    /\ \A j \in Job : ~Claimable(j) /\ ~Stuck(j)

UrgentNext == Next /\ (now' # now => Waiting)

WorkerFairness ==
    /\ WF_vars(\E w \in Worker, j \in Job : claim_next_job(w, j))
    /\ WF_vars(\E w \in Worker : recover_stuck_jobs(w))
    /\ WF_vars(Waiting /\ Tick)
    /\ \A w \in Worker :
         /\ WF_vars(MissingHandler(w) \/ PoisonPayload(w) \/ StartHandler(w))
         /\ WF_vars(HandlerReturnsOk(w) \/ HandlerFails(w))
         /\ WF_vars(Finalize(w))

\* Every enqueued job is eventually completed or failed: no crash, lost finalizer
\* write, missing handler or retry leaves it in the queue forever.
EventuallySettled ==
    \A j \in Job : Active(j) ~> jobs[j].status \in {"completed", "failed"}
=============================================================================
