-------------------------------- MODULE Loom --------------------------------
(***************************************************************************)
(* One run of Loom, the DAG workflow engine of kleos-lib (services/loom.rs *)
(* with the routes of kleos-server and the boot recovery of main.rs).      *)
(*                                                                         *)
(* A task is one call in flight: a request handler or the boot recovery.   *)
(* Every db.read and db.write closure is one step, so a task may use what  *)
(* it read many steps ago.  advance_run executes automated steps inline,   *)
(* and complete_step and fail_step advance the run again from inside that  *)
(* execution: stack holds, innermost last, the ready steps which each      *)
(* interrupted advance_run has yet to dispatch.                            *)
(***************************************************************************)
EXTENDS Integers, FiniteSets, FiniteSetsExt, Sequences

CONSTANTS
    Step,           \* step ids, in the order of loom_steps.id
    Unknown,        \* a name in depends_on that no step of the workflow has
    max_retries,    \* of each step
    Task,
    MaxRequests,    \* bound: completions, failures and cancels posted
    MaxCrashes      \* bound: process crashes

ASSUME LoomAssumption ==
    /\ Step \subseteq Nat /\ IsFiniteSet(Step) /\ Step # {} /\ Unknown \notin Step
    /\ max_retries \in [Step -> Nat] /\ IsFiniteSet(Task) /\ Task # {}
    /\ MaxRequests \in Nat /\ MaxCrashes \in Nat

VARIABLES
    depends_on,     \* the dependency graph of the workflow
    auto,           \* its steps of type transform, webhook or llm
    run,            \* loom_runs.status
    status,         \* loom_steps.status
    retry_count,    \* loom_steps.retry_count
    task,
    server,         \* whether requests are served
    requests, crashes,
    everCompleted,  \* history: steps that have been completed at some time
    torn,           \* history: whether a crash or an error cut a create, a failure or a cancel short
    cut,            \* history: whether a call that had written was cut off since the last boot
    reported        \* history: automated steps a client reported on

vars == <<depends_on, auto, run, status, retry_count, task, server, requests, crashes,
          everCompleted, torn, cut, reported>>

workflow == <<depends_on, auto>>
history == <<everCompleted, torn, cut, reported>>

RunStatus == {"none", "pending", "running", "completed", "failed", "cancelled"}
StepStatus == {"none", "pending", "running", "completed", "failed", "skipped"}
Terminal == {"completed", "failed", "cancelled"}

Pc == {"idle", "insert_steps", "read_run", "mark_running", "get_steps", "finish",
       "dispatch", "execute", "complete_write", "fail_write", "cancel_write"}

NoStep == CHOOSE s \in Step : TRUE

Idle == [pc |-> "idle", step |-> NoStep, seen |-> 0, ready |-> {}, stack |-> <<>>]

\* Columns and call stacks keep their types.
TypeOK ==
    /\ depends_on \in [Step -> SUBSET (Step \cup {Unknown})] /\ auto \subseteq Step
    /\ run \in RunStatus /\ status \in [Step -> StepStatus] /\ retry_count \in [Step -> Nat]
    /\ \A t \in Task : /\ task[t].pc \in Pc /\ task[t].step \in Step /\ task[t].seen \in Nat
                       /\ task[t].ready \subseteq Step
                       /\ task[t].stack \in Seq(SUBSET Step)
    /\ server \in {"up", "booting", "down"} /\ torn \in BOOLEAN /\ cut \in BOOLEAN

Init ==
    /\ depends_on \in [Step -> SUBSET (Step \cup {Unknown})]
    /\ auto \in SUBSET Step
    /\ run = "none"
    /\ status = [s \in Step |-> "none"]
    /\ retry_count = [s \in Step |-> 0]
    /\ task = [t \in Task |-> Idle]
    /\ server = "up"
    /\ requests = 0 /\ crashes = 0
    /\ everCompleted = {} /\ torn = FALSE /\ cut = FALSE /\ reported = {}
-----------------------------------------------------------------------------
(* validate_step_graph: the steps Kahn's sweep has resolved after n rounds.   *)

Kahn(deps) ==
    LET resolved[n \in 0..Cardinality(Step)] ==
          IF n = 0 THEN {}
          ELSE resolved[n - 1] \cup {s \in Step : deps[s] \subseteq resolved[n - 1]}
    IN  resolved[Cardinality(Step)]

\* Mutant: no cycle check.
validate_names_only(deps) == \A s \in Step : deps[s] \subseteq Step

validate_step_graph(deps) ==
    /\ \A s \in Step : deps[s] \subseteq Step
    /\ Kahn(deps) = Step
-----------------------------------------------------------------------------
(* Calls and returns. *)

Goto(t, pc) == task' = [task EXCEPT ![t].pc = pc]

\* The call ends, with Ok or with an error that unwinds the whole stack.
End(t) ==
    /\ task' = [task EXCEPT ![t] = Idle]
    /\ server' = "up"

\* advance_run or fail_step returns Ok: the interrupted advance_run goes on.
Return(t) ==
    IF task[t].stack = <<>> THEN End(t)
    ELSE /\ task' = [task EXCEPT ![t].pc = "dispatch",
                                 ![t].ready = task[t].stack[Len(task[t].stack)],
                                 ![t].stack = SubSeq(@, 1, Len(@) - 1)]
         /\ UNCHANGED server

Serving(t) == server = "up" /\ task[t].pc = "idle"
-----------------------------------------------------------------------------
(* create_run: the run and its steps are inserted by two closures. *)

create_run(t) ==
    /\ Serving(t)
    /\ run = "none"
    /\ validate_step_graph(depends_on) /\ Step # {}
    /\ run' = "pending"
    /\ Goto(t, "insert_steps")
    /\ UNCHANGED <<workflow, status, retry_count, server, requests, crashes,
                   history>>

InsertSteps(t) ==
    /\ task[t].pc = "insert_steps"
    /\ status' = [s \in Step |-> "pending"]
    /\ Goto(t, "read_run")
    /\ UNCHANGED <<workflow, run, retry_count, server, requests, crashes,
                   history>>
-----------------------------------------------------------------------------
(* advance_run. *)

AdvanceReadRun(t) ==
    /\ task[t].pc = "read_run"
    /\ IF run \in Terminal THEN Return(t)
       ELSE /\ Goto(t, IF run = "pending" THEN "mark_running" ELSE "get_steps")
            /\ UNCHANGED server
    /\ UNCHANGED <<workflow, run, status, retry_count, requests, crashes,
                   history>>

\* UPDATE ... WHERE status = 'pending'
MarkRunning(t) ==
    /\ task[t].pc = "mark_running"
    /\ run' = IF run = "pending" THEN "running" ELSE run
    /\ Goto(t, "get_steps")
    /\ UNCHANGED <<workflow, status, retry_count, server, requests, crashes,
                   history>>

AllDone == \A s \in Step : status[s] \notin {"pending", "running"}

\* Mutant: a dependency counts once it is no longer pending.
DepsStarted(s) == \A d \in depends_on[s] : status[d] # "pending"

DepsMet(s) == \A d \in depends_on[s] : status[d] = "completed"

ReadySteps == {s \in Step : status[s] = "pending" /\ DepsMet(s)}

GetSteps(t) ==
    /\ task[t].pc = "get_steps"
    /\ task' = [task EXCEPT ![t].pc = IF AllDone THEN "finish" ELSE "dispatch",
                            ![t].ready = IF AllDone THEN {} ELSE ReadySteps]
    /\ UNCHANGED <<workflow, run, status, retry_count, server, requests, crashes,
                   history>>

\* UPDATE loom_runs SET status = 'completed' WHERE id = ?
FinishRun(t) ==
    /\ task[t].pc = "finish"
    /\ run' = "completed"
    /\ Return(t)
    /\ UNCHANGED <<workflow, status, retry_count, requests, crashes, history>>

DispatchDone(t) ==
    /\ task[t].pc = "dispatch"
    /\ task[t].ready = {}
    /\ Return(t)
    /\ UNCHANGED <<workflow, run, status, retry_count, requests, crashes,
                   history>>

\* UPDATE ... WHERE id = ? AND status = 'pending': a step somebody else took is skipped.
\* Mutant: the UPDATE without its status guard.
ClaimableAlways(s) == TRUE

Claimable(s) == status[s] = "pending"

Dispatch(t) ==
    /\ task[t].pc = "dispatch"
    /\ task[t].ready # {}
    /\ LET s == Min(task[t].ready)
           rest == task[t].ready \ {s}
       IN  IF Claimable(s)
           THEN /\ status' = [status EXCEPT ![s] = "running"]
                /\ task' = IF s \in auto
                           THEN [task EXCEPT ![t].pc = "execute", ![t].step = s,
                                             ![t].ready = {}, ![t].stack = Append(@, rest)]
                           ELSE [task EXCEPT ![t].ready = rest]
           ELSE /\ task' = [task EXCEPT ![t].ready = rest]
                /\ UNCHANGED status
    /\ UNCHANGED <<workflow, run, retry_count, server, requests, crashes,
                   history>>
-----------------------------------------------------------------------------
(* complete_step and fail_step: the status is read first and written later.   *)

\* get_step, and the check that the step is running.
ReadRunning(t, s, pc) ==
    /\ status[s] = "running"
    /\ task' = [task EXCEPT ![t].pc = pc, ![t].step = s, ![t].seen = retry_count[s]]
    /\ UNCHANGED server

\* An executor is done with its step; the outcome is the handler's.
ExecuteEnds(t) ==
    /\ task[t].pc = "execute"
    /\ \/ ReadRunning(t, task[t].step, "complete_write")
       \/ ReadRunning(t, task[t].step, "fail_write")
       \/ status[task[t].step] # "running" /\ End(t)
    /\ UNCHANGED <<workflow, run, status, retry_count, requests, crashes,
                   history>>

\* A client reports on a step, which the routes accept for a step of any type.
\* Reports on a step that is not running are refused and change nothing.
ExternalReport(t, s) ==
    /\ Serving(t)
    /\ requests < MaxRequests
    /\ requests' = requests + 1
    /\ \/ ReadRunning(t, s, "complete_write")
       \/ ReadRunning(t, s, "fail_write")
    /\ reported' = reported \cup ({s} \cap auto)
    /\ UNCHANGED <<workflow, run, status, retry_count, crashes, everCompleted, torn, cut>>

CompleteWrite(t) ==
    /\ task[t].pc = "complete_write"
    /\ status' = [status EXCEPT ![task[t].step] = "completed"]
    /\ everCompleted' = everCompleted \cup {task[t].step}
    /\ Goto(t, "read_run")
    /\ UNCHANGED <<workflow, run, retry_count, server, requests, crashes, torn, cut,
                   reported>>

\* Mutant: the retry count compared with <=.
RetryLeftOffByOne(t) == task[t].seen <= max_retries[task[t].step]

RetryLeft(t) == task[t].seen < max_retries[task[t].step]

FailRetry(t) ==
    /\ task[t].pc = "fail_write"
    /\ RetryLeft(t)
    /\ status' = [status EXCEPT ![task[t].step] = "pending"]
    /\ retry_count' = [retry_count EXCEPT ![task[t].step] = @ + 1]
    /\ Goto(t, "read_run")
    /\ UNCHANGED <<workflow, run, server, requests, crashes, history>>

FailExhausted(t) ==
    /\ task[t].pc = "fail_write"
    /\ ~RetryLeft(t)
    /\ status' = [status EXCEPT ![task[t].step] = "failed"]
    /\ run' = "failed"
    /\ Return(t)
    /\ UNCHANGED <<workflow, retry_count, requests, crashes, history>>
-----------------------------------------------------------------------------
(* cancel_run: read, then two unguarded UPDATEs in one closure. *)

cancel_run(t) ==
    /\ Serving(t)
    /\ run \notin Terminal \cup {"none"}
    /\ requests < MaxRequests
    /\ requests' = requests + 1
    /\ Goto(t, "cancel_write")
    /\ UNCHANGED <<workflow, run, status, retry_count, server, crashes,
                   history>>

\* Mutant: the status of a cancelled run written to its steps.
CancelWriteSteps(t) ==
    /\ task[t].pc = "cancel_write"
    /\ run' = "cancelled"
    /\ status' = [s \in Step |-> IF status[s] \in {"pending", "running"} THEN "cancelled"
                                 ELSE status[s]]
    /\ End(t)
    /\ UNCHANGED <<workflow, retry_count, requests, crashes, history>>

CancelWrite(t) ==
    /\ task[t].pc = "cancel_write"
    /\ run' = "cancelled"
    /\ status' = [s \in Step |-> IF status[s] \in {"pending", "running"} THEN "skipped"
                                 ELSE status[s]]
    /\ End(t)
    /\ UNCHANGED <<workflow, retry_count, requests, crashes, history>>
-----------------------------------------------------------------------------
(* Calls that are cut off, crashes, and recover_inflight_runs at the next     *)
(* boot, before requests are served.                                          *)

\* Each statement of a closure commits by itself: what a crash, or an error, can leave of
\* the one closure that is being executed.
HalfWritten(t) ==
    \/ /\ task[t].pc = "insert_steps"
       /\ \E n \in Step : status' = [s \in Step |-> IF s <= n THEN "pending" ELSE "none"]
       /\ UNCHANGED run
    \/ /\ task[t].pc = "fail_write" /\ ~RetryLeft(t)
       /\ status' = [status EXCEPT ![task[t].step] = "failed"]
       /\ UNCHANGED run
    \/ /\ task[t].pc = "cancel_write"
       /\ run' = "cancelled"
       /\ UNCHANGED status

\* A request that has not written anything yet.
Unwritten(t) ==
    task[t].stack = <<>> /\ task[t].pc \in {"complete_write", "fail_write", "cancel_write"}

\* A call ends early: its client goes or its time is up, which drops the handler at an
\* await (a closure it has handed over is executed all the same), or a query or add_log
\* fails, which unwinds the call.  advance_run writes nothing on its way out.
CutOff(t) ==
    /\ task[t].pc # "idle"
    /\ End(t)
    /\ \/ HalfWritten(t) /\ torn' = TRUE /\ cut' = TRUE
       \/ /\ UNCHANGED <<run, status>>
          /\ torn' = (torn \/ task[t].pc = "insert_steps")
          /\ cut' = (cut \/ ~Unwritten(t))
    /\ UNCHANGED <<workflow, retry_count, requests, crashes, everCompleted, reported>>

Inserting == \E t \in Task : task[t].pc = "insert_steps"

Crash ==
    /\ server # "down"
    /\ crashes < MaxCrashes
    /\ crashes' = crashes + 1
    /\ server' = "down"
    /\ task' = [t \in Task |-> Idle]
    /\ \/ (\E t \in Task : HalfWritten(t)) /\ torn' = TRUE
       \/ UNCHANGED <<run, status>> /\ torn' = (torn \/ Inserting)
    /\ UNCHANGED <<workflow, retry_count, requests, everCompleted, cut, reported>>

InFlight == run \in {"pending", "running"}

recover_inflight_runs(t) ==
    /\ server = "down"
    /\ status' = [s \in Step |-> IF InFlight /\ s \in auto /\ status[s] = "running"
                                 THEN "pending" ELSE status[s]]
    /\ IF InFlight
       THEN server' = "booting" /\ Goto(t, "read_run")
       ELSE server' = "up" /\ UNCHANGED task
    /\ cut' = FALSE
    /\ UNCHANGED <<workflow, run, retry_count, requests, crashes, everCompleted, torn,
                   reported>>

Next ==
    \/ Crash
    \/ \E t \in Task :
         \/ create_run(t) \/ InsertSteps(t)
         \/ AdvanceReadRun(t) \/ MarkRunning(t) \/ GetSteps(t) \/ FinishRun(t)
         \/ Dispatch(t) \/ DispatchDone(t) \/ ExecuteEnds(t)
         \/ \E s \in Step : ExternalReport(t, s)
         \/ CompleteWrite(t) \/ FailRetry(t) \/ FailExhausted(t)
         \/ cancel_run(t) \/ CancelWrite(t)
         \/ CutOff(t) \/ recover_inflight_runs(t)

Spec == Init /\ [][Next]_vars
-----------------------------------------------------------------------------
(* Properties. *)

DoubleExecution(s) ==
    \E t, u \in Task : /\ t # u /\ task[t].pc = "execute" /\ task[u].pc = "execute"
                       /\ task[t].step = s /\ task[u].step = s

\* No automated step is executed by two tasks at a time, unless a client reported on it:
\* the claim in advance_run is a compare-and-swap, and without such a report only the
\* step's own executor or a boot re-arms it.
NoDoubleExecution == \A s \in Step \ reported : ~DoubleExecution(s)

\* "so no step double-executes" (the comment on the claim in advance_run).
NoStepDoubleExecutes == \A s \in Step : ~DoubleExecution(s)

\* A step starts only after every step it depends on has been completed, also when
\* reports on the dependency race each other.
StartsAfterDeps ==
    \A s \in Step : status[s] \in {"running", "completed", "failed"} =>
        depends_on[s] \subseteq everCompleted

\* fail_step checks a count it read earlier.  An automated step that only its executor
\* reports on is retried at most max_retries times, over all boots; reports that race
\* can add one retry for each other call in flight, and no more.
RetriesBounded ==
    \A s \in Step : retry_count[s] <=
        max_retries[s] + (IF s \in auto \ reported THEN 0 ELSE Cardinality(Task) - 1)

Wedged ==
    /\ server = "up" /\ InFlight /\ \A t \in Task : task[t].pc = "idle"
    /\ ~\E s \in Step \ auto : status[s] = "running"

\* An unfinished run always has something that will move it: a call in flight, or a
\* step whose external completion is awaited.  No interleaving of advances, reports,
\* cancels and restarts, and no accepted dependency graph, strands a run, unless a
\* write of several statements was cut short, or a call was cut off after its first
\* write; and then the next boot moves the run on.
NoWedge == ~torn /\ ~cut => ~Wedged

\* "Resume workflow runs interrupted by a process restart": recover_inflight_runs
\* leaves no run behind that nothing will ever advance.
RestartResumesRuns == crashes > 0 /\ ~cut => ~Wedged

\* A late or duplicate failure cannot clobber an already-completed run (the test
\* beside fail_step says so).
LateFailureKeepsCompletedRun ==
    [][run = "completed" => run' # "failed"]_vars
=============================================================================
