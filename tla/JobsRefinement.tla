--------------------------- MODULE JobsRefinement ---------------------------
(***************************************************************************)
(* The jobs table and its workers implement LeaseQueue: the status column  *)
(* is the state, and a job's holders are the workers whose finalizer would *)
(* pass the lease gate of its UPDATE.                                      *)
(***************************************************************************)
EXTENDS Jobs

StateOf(status) ==
    CASE status = "none" -> "none"
      [] status = "pending" -> "queued"
      [] status = "running" -> "held"
      [] status = "completed" -> "done"
      [] status = "failed" -> "dead"
      [] status = "deleted" -> "gone"

QueueState == [j \in Job |-> StateOf(jobs[j].status)]

Holders == [j \in Job |-> {w \in Worker : Holding(w) /\ work[w].job = j /\ HoldsLease(w)}]

Queue == INSTANCE LeaseQueue WITH state <- QueueState, holders <- Holders

\* Every step of the workers, of recovery, of operators, of housekeeping and of a
\* crash is a step of LeaseQueue or changes nothing it can see: a worker that lost
\* its lease neither ends the job nor comes to hold it again, and a claim never
\* leaves a second worker able to finalize.
ImplementsLeaseQueue == Queue!Spec
=============================================================================
