------------------------------- MODULE MCLive -------------------------------
(* What must eventually happen: the job queue with two rows and one worker,   *)
(* and the circuit breaker with three callers.  They share nothing, so one    *)
(* behaviour follows one of them, chosen at the start, and the other rests:   *)
(* a queue without a row offers its workers nothing, and the callers of a     *)
(* breaker that was not chosen make no call.                                  *)
EXTENDS Jobs, Breaker

VARIABLE system     \* the one that moves

MCTimeout == [t \in JobType |-> 0]

liveVars == <<system, vars, breakerVars>>

LiveInit == Init /\ BreakerInit /\ system \in {"jobs", "breaker"}

LiveNext ==
    \/ system = "jobs" /\ UrgentNext /\ UNCHANGED <<system, breakerVars>>
    \/ system = "breaker" /\ BreakerNext /\ UNCHANGED <<system, vars>>

\* Callers of the breaker keep calling, every operation ends (it has a timeout) and the
\* cooldown passes.
BreakerFairness ==
    /\ \A c \in Call : WF_breakerVars(system = "breaker" /\ CallStep(c))
    /\ WF_breakerVars(system = "breaker" /\ BreakerTick)

LiveSpec == LiveInit /\ [][LiveNext]_liveVars /\ WorkerFairness /\ BreakerFairness
=============================================================================
