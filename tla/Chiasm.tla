------------------------------- MODULE Chiasm -------------------------------
(***************************************************************************)
(* The Chiasm task tracker of kleos-lib (services/chiasm): tasks and the   *)
(* work queue, heartbeats and the sweep for stale tasks, and path claims.  *)
(* Dependencies have a module of their own.                                *)
(*                                                                         *)
(* A heartbeat and a sweep consist of several closures; everything else is *)
(* one.  The claims of a task are merged: what counts is the latest expiry *)
(* of those not released.                                                  *)
(***************************************************************************)
EXTENDS Integers

CONSTANTS
    Task,           \* task ids
    Agent,          \* agents, one request of each in flight
    Overdue,        \* heartbeat_interval * grace_multiplier, in ticks
    Idle,           \* no_heartbeat_idle_secs
    ClaimTtl,       \* ttl_seconds of create_claims
    Refresh,        \* the 600 seconds of record_heartbeat
    MaxClock,       \* bound: last tick
    MaxCalls        \* bound: requests ever made

ASSUME ChiasmAssumption ==
    /\ Task # {}
    /\ Overdue \in Nat /\ Idle \in Nat /\ ClaimTtl \in Nat /\ Refresh \in Nat
    /\ MaxClock \in Nat /\ MaxCalls \in Nat

VARIABLES
    task,           \* chiasm_tasks
    until,          \* latest expires_at of a task's claims with released = 0, else 0
    call,           \* where each agent's request is
    sweep,          \* where the sweeper is
    clock, calls,   \* the time, and how much of MaxCalls is spent
    handed,         \* history: how often claim_next_task handed out each task
    excused         \* history: stale tasks that were claimed for, or made stale, outside
                    \* a sweep, or whose claims the sweep failed to release

chiasmVars == <<task, until, call, sweep, clock, calls, handed, excused>>

NoBeat == -1        \* last_heartbeat IS NULL

TaskStatus == {"none", "deleted", "active", "paused", "blocked", "completed",
               "blocked_on_human", "stale", "queued"}

NoTask == [status |-> "none", assigned |-> TRUE, beat |-> NoBeat, updated |-> 0]

NoCall == [pc |-> "idle", task |-> CHOOSE t \in Task : TRUE]

NoSweep == [pc |-> "idle", todo |-> {}, task |-> CHOOSE t \in Task : TRUE]

\* Rows, requests and the sweeper keep their types.
ChiasmTypeOK ==
    /\ task \in [Task -> [status : TaskStatus, assigned : BOOLEAN,
                          beat : NoBeat..MaxClock, updated : 0..MaxClock]]
    /\ until \in [Task -> Nat]
    /\ call \in [Agent -> [pc : {"idle", "refresh"}, task : Task]]
    /\ sweep \in [pc : {"idle", "mark", "release"}, todo : SUBSET Task, task : Task]
    /\ clock \in 0..MaxClock /\ calls \in 0..MaxCalls
    /\ handed \in [Task -> Nat]
    /\ excused \subseteq Task

ChiasmInit ==
    /\ task = [t \in Task |-> NoTask] /\ until = [t \in Task |-> 0]
    /\ call = [a \in Agent |-> NoCall] /\ sweep = NoSweep
    /\ clock = 0 /\ calls = 0
    /\ handed = [t \in Task |-> 0] /\ excused = {}
-----------------------------------------------------------------------------
(* Tasks and the queue. *)

Called == calls < MaxCalls /\ calls' = calls + 1

Exists(t) == task[t].status \notin {"none", "deleted"}

\* assigned is 1 by default: only enqueue_task stores 0.
create_task(t, s) ==
    /\ Called /\ task[t].status = "none"
    /\ task' = [task EXCEPT ![t] = [NoTask EXCEPT !.status = s, !.updated = clock]]
    /\ UNCHANGED <<until, call, sweep, clock, handed, excused>>

enqueue_task(t) ==
    /\ Called /\ task[t].status = "none"
    /\ task' = [task EXCEPT ![t] = [NoTask EXCEPT !.status = "queued", !.assigned = FALSE,
                                                  !.updated = clock]]
    /\ UNCHANGED <<until, call, sweep, clock, handed, excused>>

\* Mutant: every queued task is handed out.
QueuedOnly(t) == task[t].status = "queued"

Available(t) == task[t].status = "queued" /\ ~task[t].assigned

\* The oldest row; rows of one second have no order among them.  Time of creation is
\* not kept here: any available task may be the oldest.
claim_next_task(t) ==
    /\ Called /\ Available(t)
    /\ task' = [task EXCEPT ![t].status = "active", ![t].assigned = TRUE,
                            ![t].beat = clock, ![t].updated = clock]
    /\ handed' = [handed EXCEPT ![t] = @ + 1]
    /\ UNCHANGED <<until, call, sweep, clock, excused>>

\* Any valid status from any other; submit_feedback is the case "active".
update_task(t, s) ==
    /\ Called /\ Exists(t)
    /\ task' = [task EXCEPT ![t].status = s, ![t].updated = clock]
    /\ excused' = IF s = "stale" /\ task[t].status # "stale" THEN excused \cup {t} ELSE excused
    /\ UNCHANGED <<until, call, sweep, clock, handed>>

submit_output(t) ==
    /\ Called /\ Exists(t)
    /\ task' = [task EXCEPT ![t].updated = clock]
    /\ UNCHANGED <<until, call, sweep, clock, handed, excused>>

\* ON DELETE CASCADE takes the claims.
delete_task(t) ==
    /\ Called /\ Exists(t)
    /\ task' = [task EXCEPT ![t].status = "deleted"]
    /\ until' = [until EXCEPT ![t] = 0]
    /\ UNCHANGED <<call, sweep, clock, handed, excused>>
-----------------------------------------------------------------------------
(* Path claims and heartbeats. *)

Later(a, b) == IF a < b THEN b ELSE a

\* No look at the status of the task or at the claims of others.
create_claims(t) ==
    /\ Called /\ Exists(t)
    /\ until' = [until EXCEPT ![t] = Later(@, clock + ClaimTtl)]
    /\ excused' = IF task[t].status = "stale" THEN excused \cup {t} ELSE excused
    /\ UNCHANGED <<task, call, sweep, clock, handed>>

release_claims(t) ==
    /\ Called /\ Exists(t)
    /\ until' = [until EXCEPT ![t] = 0]
    /\ UNCHANGED <<task, call, sweep, clock, handed, excused>>

record_heartbeat(a, t) ==
    /\ Called /\ call[a].pc = "idle" /\ Exists(t)
    /\ task' = [task EXCEPT ![t].beat = clock, ![t].updated = clock]
    /\ call' = [call EXCEPT ![a] = [NoCall EXCEPT !.pc = "refresh", !.task = t]]
    /\ UNCHANGED <<until, sweep, clock, handed, excused>>

\* Mutant: released claims are refreshed too.
RefreshedAll(t) == clock + Refresh

\* Claims that have expired but were not released come back.
Refreshed(t) == IF until[t] = 0 THEN 0 ELSE clock + Refresh

refresh_claims(a) ==
    /\ call[a].pc = "refresh"
    /\ until' = [until EXCEPT ![call[a].task] =
                   IF Exists(call[a].task) THEN Refreshed(call[a].task) ELSE @]
    /\ call' = [call EXCEPT ![a] = NoCall]
    /\ UNCHANGED <<task, sweep, clock, calls, handed, excused>>
-----------------------------------------------------------------------------
(* The sweep. *)

IsStale(t) ==
    /\ task[t].status \in {"active", "paused"}
    /\ IF task[t].beat = NoBeat THEN clock - task[t].updated > Idle
       ELSE clock - task[t].beat > Overdue

mark_stale_tasks ==
    /\ sweep.pc = "idle" /\ \E t \in Task : IsStale(t)
    /\ sweep' = [NoSweep EXCEPT !.pc = "mark", !.todo = {t \in Task : IsStale(t)}]
    /\ UNCHANGED <<task, until, call, clock, calls, handed, excused>>

\* The UPDATE repeats the condition: the list is only where the sweep looks.
mark_stale(t) ==
    /\ sweep.pc = "mark" /\ t \in sweep.todo
    /\ IF IsStale(t)
       THEN /\ task' = [task EXCEPT ![t].status = "stale", ![t].updated = clock]
            /\ sweep' = [sweep EXCEPT !.pc = "release", !.todo = @ \ {t}, !.task = t]
            /\ excused' = excused \ {t}
       ELSE /\ sweep' = [sweep EXCEPT !.todo = @ \ {t}]
            /\ UNCHANGED <<task, excused>>
    /\ UNCHANGED <<until, call, clock, calls, handed>>

sweep_release ==
    /\ sweep.pc = "release"
    /\ until' = [until EXCEPT ![sweep.task] = 0]
    /\ excused' = excused \ {sweep.task}
    /\ sweep' = [sweep EXCEPT !.pc = "mark"]
    /\ UNCHANGED <<task, call, clock, calls, handed>>

\* The sweep ignores the error of release_claims and goes on.
sweep_release_fails ==
    /\ sweep.pc = "release"
    /\ excused' = excused \cup {sweep.task}
    /\ sweep' = [sweep EXCEPT !.pc = "mark"]
    /\ UNCHANGED <<task, until, call, clock, calls, handed>>

sweep_done ==
    /\ sweep.pc = "mark" /\ sweep.todo = {}
    /\ sweep' = NoSweep
    /\ UNCHANGED <<task, until, call, clock, calls, handed, excused>>
-----------------------------------------------------------------------------
ChiasmTick ==
    /\ clock < MaxClock /\ clock' = clock + 1
    /\ UNCHANGED <<task, until, call, sweep, calls, handed, excused>>

ChiasmNext ==
    \/ \E t \in Task, s \in {"active", "queued"} : create_task(t, s)
    \/ \E t \in Task : enqueue_task(t)
    \/ \E t \in Task : claim_next_task(t)
    \/ \E t \in Task, s \in {"active", "completed", "stale", "queued"} : update_task(t, s)
    \/ \E t \in Task : submit_output(t)
    \/ \E t \in Task : delete_task(t)
    \/ \E t \in Task : create_claims(t)
    \/ \E t \in Task : release_claims(t)
    \/ \E a \in Agent, t \in Task : record_heartbeat(a, t)
    \/ \E a \in Agent : refresh_claims(a)
    \/ mark_stale_tasks
    \/ \E t \in Task : mark_stale(t)
    \/ sweep_release
    \/ sweep_release_fails
    \/ sweep_done
    \/ ChiasmTick

ChiasmSpec == ChiasmInit /\ [][ChiasmNext]_chiasmVars
-----------------------------------------------------------------------------
(* Properties. *)

\* claim_next_task hands a task out at most once, whatever status updates put it back
\* into: a task that is 'queued' a second time is not given to a second agent.
HandedOutOnce == \A t \in Task : handed[t] <= 1

\* A task the sweep made stale keeps no path claim: a late heartbeat, whose refresh of the
\* claims is a write of its own, does not bring released claims back.
StaleHoldsNoClaims ==
    \A t \in Task \ excused :
        task[t].status = "stale" /\ ~(sweep.pc = "release" /\ sweep.task = t) => until[t] = 0
=============================================================================
