------------------------------- MODULE Tenant -------------------------------
(***************************************************************************)
(* One tenant of kleos-lib (tenant/): created and loaded by requests,      *)
(* deprovisioned by operators, torn down by a job, recovered at boot.      *)
(*                                                                         *)
(* Its traces are in four stores without a common transaction: the         *)
(* registry database, the monolith database (where the jobs are too), the  *)
(* shard directory and the loader's cache of handles.  A request or an     *)
(* admin call is cut wherever it awaits or touches another store.          *)
(***************************************************************************)
EXTENDS Integers

CONSTANTS
    Task, NoTask,       \* requests and admin calls in flight
    Job, NoJob,         \* ids of teardown jobs
    max_attempts,       \* of a teardown job (5)
    MaxAdmin,           \* bound: admin calls
    MaxCrashes,         \* bound: crashes
    MaxFaults           \* bound: failed writes of the worker and of boot recovery

ASSUME TenantAssumption ==
    /\ NoTask \notin Task /\ NoJob \notin Job
    /\ max_attempts \in Nat \ {0}
    /\ MaxAdmin \in Nat /\ MaxCrashes \in Nat /\ MaxFaults \in Nat

VARIABLES
    row,                \* tenants.status; "none": no row
    log, skipped,       \* deletions_log: there is a row, and its shard_skipped
    shard,              \* the directory
    users,              \* the user has rows in the monolith
    resident, gate,     \* a handle is cached; who holds the load guard
    task,               \* where each call is, and the status it read
    jobs, worker,       \* the teardown jobs and the worker of the queue
    up,                 \* boot recovery is over
    held,               \* KLEOS_TOMBSTONE_HOLD_DAYS have passed since deleted_at
    admins, crashes, faults,    \* how much of the bounds is spent
    cut                 \* history: since the last recovery, a teardown that was owed was not enqueued

registry == <<row, log, skipped, held>>
loader == <<resident, gate>>
queue == <<jobs, worker>>
budgets == <<admins, crashes, faults, cut>>
vars == <<registry, shard, users, loader, task, queue, up, budgets>>

Status == {"active", "suspended", "deleting", "tombstone", "stuck"}

Pc == {"idle", "create", "insert", "get", "load", "wait", "cache", "mark", "evict", "log",
       "enqueue", "force", "skip_rows", "skip_tombstone"}

NoCall == [pc |-> "idle", status |-> "none"]
NoWork == [job |-> NoJob, pc |-> "idle"]

\* Columns, calls, jobs and the worker keep their types.
TypeOK ==
    /\ row \in Status \cup {"none"} /\ {log, skipped, held, users, resident, up, cut} \subseteq BOOLEAN
    /\ shard \in {"absent", "data", "removed", "recreated"}
    /\ gate \in Task \cup {NoTask}
    /\ task \in [Task -> [pc : Pc, status : Status \cup {"none"}]]
    /\ jobs \in [Job -> [status : {"none", "pending", "running", "completed", "failed"},
                         attempts : 0..(max_attempts + MaxCrashes + MaxFaults)]]
    /\ worker \in [job : Job \cup {NoJob}, pc : {"idle", "remove", "rows", "tombstone", "ok", "err"}]
    /\ admins \in 0..MaxAdmin /\ crashes \in 0..MaxCrashes /\ faults \in 0..MaxFaults

\* The user is provisioned and has not sent a request yet.
Init ==
    /\ row = "none" /\ log = FALSE /\ skipped = FALSE /\ held = FALSE
    /\ shard = "absent" /\ users = TRUE
    /\ resident = FALSE /\ gate = NoTask
    /\ task = [t \in Task |-> NoCall]
    /\ jobs = [j \in Job |-> [status |-> "none", attempts |-> 0]] /\ worker = NoWork
    /\ up = TRUE
    /\ admins = 0 /\ crashes = 0 /\ faults = 0 /\ cut = FALSE
-----------------------------------------------------------------------------
(* Requests. *)

Goto(t, pc) == task' = [task EXCEPT ![t].pc = pc]
Return(t) == task' = [task EXCEPT ![t] = NoCall]

\* A directory made after the teardown removed the tenant's is a new one.
create_dir == CASE shard = "absent" -> "data" [] shard = "removed" -> "recreated" [] OTHER -> shard

\* A request is authenticated by rows of the monolith before it gets here.
GetRow(t) ==
    /\ up /\ users /\ task[t].pc = "idle"
    /\ task' = [task EXCEPT ![t] = [pc |-> IF row = "none" THEN "create" ELSE "load", status |-> row]]
    /\ UNCHANGED <<registry, shard, users, loader, queue, up, budgets>>

create_tenant(t) ==
    /\ task[t].pc = "create"
    /\ shard' = create_dir
    /\ Goto(t, "insert")
    /\ UNCHANGED <<registry, users, loader, queue, up, budgets>>

\* Mutant: INSERT OR REPLACE.
InsertedReplacing == "active"

\* INSERT OR IGNORE.
Inserted == IF row = "none" THEN "active" ELSE row

insert_or_get(t) ==
    /\ task[t].pc = "insert"
    /\ row' = Inserted
    /\ Goto(t, "get")
    /\ UNCHANGED <<log, skipped, held, shard, users, loader, queue, up, budgets>>

GetInserted(t) ==
    /\ task[t].pc = "get"
    /\ task' = [task EXCEPT ![t] = IF row = "none" THEN NoCall ELSE [pc |-> "load", status |-> row]]
    /\ UNCHANGED <<registry, shard, users, loader, queue, up, budgets>>

\* The fast path does not look at the status.
get_or_load(t) ==
    /\ task[t].pc = "load"
    /\ IF resident THEN Return(t) ELSE Goto(t, "wait")
    /\ UNCHANGED <<registry, shard, users, loader, queue, up, budgets>>

\* With the load guard: the status is the one that was read before it was awaited.
load_tenant(t) ==
    /\ task[t].pc = "wait" /\ gate = NoTask
    /\ IF resident \/ task[t].status # "active"
       THEN Return(t) /\ UNCHANGED <<shard, gate>>
       ELSE gate' = t /\ shard' = create_dir /\ Goto(t, "cache")
    /\ UNCHANGED <<registry, users, resident, queue, up, budgets>>

\* The indices and the pools are opened, or one of them cannot be, or the request is dropped.
CacheHandle(t, opened) ==
    /\ task[t].pc = "cache"
    /\ resident' = (resident \/ opened)
    /\ gate' = NoTask
    /\ Return(t)
    /\ UNCHANGED <<registry, shard, users, queue, up, budgets>>

\* Who is still going to enqueue a teardown.
Driving(t) == task[t].pc \in {"evict", "log", "enqueue"}

\* A request or an admin call ends early: a store fails and the error goes to the caller, or the
\* handler is dropped at an await because its client has gone or its time is up.
CallEnds(t) ==
    /\ task[t].pc \notin {"idle", "cache"}
    /\ cut' = (cut \/ Driving(t))
    /\ Return(t)
    /\ UNCHANGED <<registry, shard, users, loader, queue, up, admins, crashes, faults>>

evict_idle ==
    /\ resident /\ resident' = FALSE
    /\ UNCHANGED <<registry, shard, users, gate, task, queue, up, budgets>>
-----------------------------------------------------------------------------
(* Operators. *)

AdminCall(t) ==
    /\ up /\ task[t].pc = "idle"
    /\ admins < MaxAdmin /\ admins' = admins + 1
    /\ UNCHANGED <<crashes, faults, cut>>

Enqueued(j) ==
    /\ jobs[j].status = "none"
    /\ jobs' = [jobs EXCEPT ![j].status = "pending"]
    /\ UNCHANGED worker

begin_deprovision(t) ==
    /\ AdminCall(t) /\ row # "none"
    /\ Goto(t, "mark")
    /\ UNCHANGED <<registry, shard, users, loader, queue, up>>

\* Conflict unless the row is active or suspended.
mark_deleting(t) ==
    /\ task[t].pc = "mark"
    /\ IF row \in {"active", "suspended"} THEN row' = "deleting" /\ Goto(t, "evict")
       ELSE UNCHANGED row /\ Return(t)
    /\ UNCHANGED <<log, skipped, held, shard, users, loader, queue, up, budgets>>

evict(t) ==
    /\ task[t].pc = "evict"
    /\ resident' = FALSE
    /\ Goto(t, "log")
    /\ UNCHANGED <<registry, shard, users, gate, queue, up, budgets>>

insert_deletion_log(t) ==
    /\ task[t].pc = "log"
    /\ log' = TRUE
    /\ Goto(t, "enqueue")
    /\ UNCHANGED <<row, skipped, held, shard, users, loader, queue, up, budgets>>

EnqueueTeardown(t) ==
    /\ task[t].pc = "enqueue"
    /\ \E j \in Job : Enqueued(j)
    /\ Return(t)
    /\ UNCHANGED <<registry, shard, users, loader, up, budgets>>

\* Whatever the status of the row is.
force_retry_deprovision(t) ==
    /\ AdminCall(t) /\ log /\ row # "none"
    /\ Goto(t, "force")
    /\ UNCHANGED <<registry, shard, users, loader, queue, up>>

ForceStatus(t) ==
    /\ task[t].pc = "force"
    /\ row' = IF row = "none" THEN row ELSE "deleting"
    /\ Goto(t, "enqueue")
    /\ UNCHANGED <<log, skipped, held, shard, users, loader, queue, up, budgets>>

skip_shard_deprovision(t) ==
    /\ AdminCall(t) /\ log
    /\ skipped' = TRUE
    /\ IF row # "none" THEN Goto(t, "skip_rows") ELSE UNCHANGED task
    /\ UNCHANGED <<row, log, held, shard, users, loader, queue, up>>

SkipDeleteRows(t) ==
    /\ task[t].pc = "skip_rows"
    /\ users' = FALSE
    /\ Goto(t, "skip_tombstone")
    /\ UNCHANGED <<registry, shard, loader, queue, up, budgets>>

\* WHERE status = 'deleting'; deleted_at is now.
mark_tombstone ==
    /\ row' = IF row = "deleting" THEN "tombstone" ELSE row
    /\ held' = (held /\ row # "deleting")
    /\ UNCHANGED <<log, skipped>>

SkipTombstone(t) ==
    /\ task[t].pc = "skip_tombstone"
    /\ mark_tombstone
    /\ Return(t)
    /\ UNCHANGED <<shard, users, loader, queue, up, budgets>>
-----------------------------------------------------------------------------
(* The teardown job. *)

Claim(j) ==
    /\ up /\ worker = NoWork /\ jobs[j].status = "pending"
    /\ jobs' = [jobs EXCEPT ![j] = [status |-> "running", attempts |-> @.attempts + 1]]
    /\ worker' = [job |-> j, pc |-> "remove"]
    /\ UNCHANGED <<registry, shard, users, loader, task, up, budgets>>

Working(pc, next) ==
    /\ worker.pc = pc /\ worker' = [worker EXCEPT !.pc = next]
    /\ UNCHANGED <<loader, task, jobs, up, budgets>>

\* A directory that is not there counts as removed.
RemoveShard ==
    /\ Working("remove", "rows")
    /\ shard' = IF shard = "absent" THEN shard ELSE "removed"
    /\ UNCHANGED <<registry, users>>

delete_monolith_rows ==
    /\ Working("rows", "tombstone")
    /\ users' = FALSE
    /\ UNCHANGED <<registry, shard>>

MarkTombstone ==
    /\ Working("tombstone", "ok")
    /\ mark_tombstone
    /\ UNCHANGED <<shard, users>>

\* Mutant: an error is logged and the next step is taken.
TeardownGoesOn ==
    /\ \/ Working("remove", "rows")
       \/ Working("rows", "tombstone")
       \/ Working("tombstone", "ok")
    /\ UNCHANGED <<registry, shard, users>>

\* Any step can return an error or be cut off by the timeout.
TeardownFails ==
    /\ \E pc \in {"remove", "rows", "tombstone"} : Working(pc, "err")
    /\ UNCHANGED <<registry, shard, users>>

\* Mutant: an exhausted job gets a status of its own.
OutcomeUnknown(j) ==
    IF worker.pc = "ok" THEN "completed"
    ELSE IF jobs[j].attempts >= max_attempts THEN "stuck" ELSE "pending"

\* complete_job, fail_job or retry_job.
Outcome(j) ==
    IF worker.pc = "ok" THEN "completed"
    ELSE IF jobs[j].attempts >= max_attempts THEN "failed" ELSE "pending"

\* When the write fails the job stays 'running'.
FinalizeJob(written) ==
    /\ worker.pc \in {"ok", "err"}
    /\ IF written
       THEN /\ jobs' = [jobs EXCEPT ![worker.job].status = Outcome(worker.job)]
            /\ UNCHANGED faults
       ELSE /\ faults < MaxFaults /\ faults' = faults + 1
            /\ UNCHANGED jobs
    /\ worker' = NoWork
    /\ UNCHANGED <<registry, shard, users, loader, task, up, admins, crashes, cut>>

\* Mutant: a lease that an attempt can outlast.
recover_running_jobs(j) ==
    /\ up /\ jobs[j].status = "running"
    /\ jobs' = [jobs EXCEPT ![j].status = "pending"]
    /\ UNCHANGED <<registry, shard, users, loader, task, worker, up, budgets>>

\* Its lease outlasts every attempt, so that a job that is worked on is left alone.
recover_stuck_jobs(j) ==
    /\ up /\ jobs[j].status = "running" /\ worker.job # j
    /\ jobs' = [jobs EXCEPT ![j].status = "pending"]
    /\ UNCHANGED <<registry, shard, users, loader, task, worker, up, budgets>>
-----------------------------------------------------------------------------
(* Crash, boot and purge. *)

Active(j) == jobs[j].status \in {"pending", "running"}

Crash ==
    /\ crashes < MaxCrashes /\ crashes' = crashes + 1
    /\ up' = FALSE
    /\ resident' = FALSE /\ gate' = NoTask
    /\ task' = [t \in Task |-> NoCall] /\ worker' = NoWork
    /\ UNCHANGED <<registry, shard, users, jobs, admins, faults, cut>>

\* Mutant: only a deletion that was logged is taken up again.
NeedsRecoveryLogged == row = "deleting" /\ log

NeedsRecovery == row = "deleting"

\* A missing log row is made up for; an active job of the tenant is not looked for.
recover_orphans ==
    /\ ~up /\ up' = TRUE
    /\ IF NeedsRecovery THEN log' = TRUE /\ \E j \in Job : Enqueued(j)
       ELSE UNCHANGED <<log, queue>>
    /\ cut' = FALSE
    /\ UNCHANGED <<row, skipped, held, shard, users, loader, task, admins, crashes, faults>>

\* The boot goes on when a write of recovery fails, the log row's or the job's.
RecoverFault ==
    /\ ~up /\ up' = TRUE
    /\ NeedsRecovery
    /\ log' \in {log, TRUE}
    /\ faults < MaxFaults /\ faults' = faults + 1
    /\ cut' = TRUE
    /\ UNCHANGED <<row, skipped, held, shard, users, loader, task, queue, admins, crashes>>

Quiet == up /\ worker = NoWork /\ (\A t \in Task : task[t].pc = "idle") /\ \A j \in Job : ~Active(j)

HoldElapses ==
    /\ Quiet /\ row = "tombstone" /\ ~held /\ held' = TRUE
    /\ UNCHANGED <<row, log, skipped, shard, users, loader, task, queue, up, budgets>>

\* Once a day; the hold lasts for days and calls and jobs do not.
purge_expired_tombstones ==
    /\ Quiet
    /\ row' = IF row = "tombstone" /\ held THEN "none" ELSE row
    /\ UNCHANGED <<log, skipped, held, shard, users, loader, task, queue, up, budgets>>
-----------------------------------------------------------------------------
Next ==
    \/ \E t \in Task : GetRow(t)
    \/ \E t \in Task : create_tenant(t)
    \/ \E t \in Task : insert_or_get(t)
    \/ \E t \in Task : GetInserted(t)
    \/ \E t \in Task : get_or_load(t)
    \/ \E t \in Task : load_tenant(t)
    \/ \E t \in Task, opened \in BOOLEAN : CacheHandle(t, opened)
    \/ evict_idle
    \/ \E t \in Task : begin_deprovision(t)
    \/ \E t \in Task : mark_deleting(t)
    \/ \E t \in Task : evict(t)
    \/ \E t \in Task : insert_deletion_log(t)
    \/ \E t \in Task : EnqueueTeardown(t)
    \/ \E t \in Task : CallEnds(t)
    \/ \E t \in Task : force_retry_deprovision(t)
    \/ \E t \in Task : ForceStatus(t)
    \/ \E t \in Task : skip_shard_deprovision(t)
    \/ \E t \in Task : SkipDeleteRows(t)
    \/ \E t \in Task : SkipTombstone(t)
    \/ \E j \in Job : Claim(j)
    \/ RemoveShard
    \/ delete_monolith_rows
    \/ MarkTombstone
    \/ TeardownFails
    \/ \E written \in BOOLEAN : FinalizeJob(written)
    \/ \E j \in Job : recover_stuck_jobs(j)
    \/ Crash
    \/ recover_orphans
    \/ RecoverFault
    \/ HoldElapses
    \/ purge_expired_tombstones

Spec == Init /\ [][Next]_vars
-----------------------------------------------------------------------------
(* Properties. *)

\* A tombstone means that the tenant's data is gone: the rows of the monolith, and the shard
\* unless an operator skipped it, whatever failed, was repeated or ran twice on the way.
TombstoneMeansErased == row = "tombstone" => ~users /\ (shard # "data" \/ skipped)

\* A tenant in 'deleting' has a teardown job, until its attempts are spent, or a call that is
\* about to enqueue one: neither a crash between any two steps nor a failed write of the worker
\* strands a deletion.  Only a call that ends between mark_deleting and its enqueue does, and
\* then until the next boot, whose recovery takes the deletion up again.
DeletingIsDriven ==
    up /\ ~cut /\ row = "deleting" =>
        \/ \E t \in Task : Driving(t)
        \/ \E j \in Job : Active(j) \/ jobs[j].status = "failed"

\* A deletion is never reverted: a request that found no row, or read it earlier, does not make
\* the tenant active again, and only the purge removes a tombstone.
DeletionIsFinal ==
    [][(row \in {"deleting", "tombstone"}) =>
           \/ row' \in {"deleting", "tombstone"}
           \/ row = "tombstone" /\ held /\ row' = "none"]_vars

\* What the comment in load_tenant says the status checks are for: a tombstoned tenant is not
\* served from a handle that was loaded all the same.
TombstoneNotResident == row = "tombstone" => ~resident
=============================================================================
