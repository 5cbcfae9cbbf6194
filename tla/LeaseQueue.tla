----------------------------- MODULE LeaseQueue -----------------------------
(***************************************************************************)
(* What the job queue promises to its users, without clocks, tokens,       *)
(* attempts or payloads: a job is held by at most one worker, only its     *)
(* holder ends it or hands it back, and a job whose holder is gone can be  *)
(* taken back into the queue.                                              *)
(***************************************************************************)
CONSTANTS Job, Worker

VARIABLES
    state,      \* where each job is in its life
    holders     \* the workers whose outcome for the job would count

vars == <<state, holders>>

Init ==
    /\ state = [j \in Job |-> "none"]
    /\ holders = [j \in Job |-> {}]

Enqueue(j) ==
    /\ state[j] = "none"
    /\ state' = [state EXCEPT ![j] = "queued"]
    /\ UNCHANGED holders

Take(j, w) ==
    /\ state[j] = "queued"
    /\ state' = [state EXCEPT ![j] = "held"]
    /\ holders' = [holders EXCEPT ![j] = {w}]

\* The holder reports the outcome: success, failure for good, or another try.
Finish(j, w, outcome) ==
    /\ state[j] = "held" /\ w \in holders[j]
    /\ state' = [state EXCEPT ![j] = outcome]
    /\ holders' = [holders EXCEPT ![j] = {}]

\* Workers vanish without a report; what they held stays held by nobody.
Vanish(W) ==
    /\ holders' = [j \in Job |-> holders[j] \ W]
    /\ UNCHANGED state

Recover(S) ==
    /\ \A j \in S : state[j] = "held"
    /\ state' = [j \in Job |-> IF j \in S THEN "queued" ELSE state[j]]
    /\ holders' = [j \in Job |-> IF j \in S THEN {} ELSE holders[j]]

Revive(j) ==
    /\ state[j] = "dead"
    /\ state' = [state EXCEPT ![j] = "queued"]
    /\ UNCHANGED holders

Remove(S) ==
    /\ \A j \in S : state[j] \in {"done", "dead"}
    /\ state' = [j \in Job |-> IF j \in S THEN "gone" ELSE state[j]]
    /\ UNCHANGED holders

Next ==
    \/ \E j \in Job : Enqueue(j) \/ Revive(j)
    \/ \E j \in Job, w \in Worker : Take(j, w)
    \/ \E j \in Job, w \in Worker, o \in {"done", "dead", "queued"} : Finish(j, w, o)
    \/ \E W \in SUBSET Worker : Vanish(W)
    \/ \E S \in SUBSET Job : Recover(S) \/ Remove(S)

Spec == Init /\ [][Next]_vars
=============================================================================
