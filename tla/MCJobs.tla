------------------------------- MODULE MCJobs -------------------------------
(* Jobs with a short and a long job type: one row and two workers.           *)
EXTENDS JobsRefinement, TLC

MCTimeout == [t \in JobType |-> IF t = "long" THEN 2 ELSE 0]

Symmetry == Permutations(Worker)
=============================================================================
