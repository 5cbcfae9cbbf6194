-------------------------- MODULE TenantRefinement --------------------------
(***************************************************************************)
(* A tenant implements TenantLife, and its teardown jobs implement         *)
(* LeaseQueue, which is what Jobs implements, too: the queue that Tenant   *)
(* assumes is one that the job queue provides.                             *)
(***************************************************************************)
EXTENDS Tenant

LifeOf ==
    CASE row = "none" -> "absent"
      [] row \in {"active", "suspended"} -> "live"
      [] row = "tombstone" -> "buried"
      [] OTHER -> "leaving"

\* A directory that was recreated by a late loader holds nothing of the tenant's.
Life == INSTANCE TenantLife
    WITH life <- LifeOf, rows <- users, files <- (shard = "data"), waived <- skipped, expired <- held

StateOf(status) ==
    CASE status = "none" -> "none"
      [] status = "pending" -> "queued"
      [] status = "running" -> "held"
      [] status = "completed" -> "done"
      [] status = "failed" -> "dead"

TeardownState == [j \in Job |-> StateOf(jobs[j].status)]

TeardownHolders == [j \in Job |-> IF worker.job = j THEN {"worker"} ELSE {}]

Queue == INSTANCE LeaseQueue
    WITH Worker <- {"worker"}, state <- TeardownState, holders <- TeardownHolders

\* However requests, operators, the worker and crashes interleave, a tenant's data is erased
\* only while it is being deleted, it is buried only when erased, and once it was marked for
\* deletion it never becomes active again: not by a request that found no row or read it
\* earlier, not by a retry, and not after the purge, which waits for the hold of the last
\* burial.
ImplementsTenantLife == Life!Spec

\* The teardown uses its jobs as the queue allows: a job is in the hands of the worker alone,
\* only the worker ends it, and a job that a crash or a lost write left behind is taken back.
TeardownIsLeased == Queue!Spec
=============================================================================
