----------------------------- MODULE MCServices -----------------------------
(* The services beside the job queue in one model.  They share no table, so   *)
(* one behaviour follows one of them, chosen at the start, and the others     *)
(* rest: the run visits the states of each and not those of their product.    *)
EXTENDS MemoryRefinement, Chiasm, Dependencies, Axon, Approvals, RateLimit, Handoffs, Sidecar, TLC

VARIABLE service    \* the one that moves

servicesVars == <<service, memoryVars, chiasmVars, dependenciesVars, axonVars, approvalsVars,
                  rateLimitVars, handoffsVars, sidecarVars>>

\* Every table, cursor and request of every service keeps its type.
ServicesTypeOK ==
    /\ MemoryTypeOK /\ ChiasmTypeOK /\ DependenciesTypeOK /\ AxonTypeOK
    /\ ApprovalsTypeOK /\ RateLimitTypeOK /\ HandoffsTypeOK /\ SidecarTypeOK

Init ==
    /\ MemoryInit /\ ChiasmInit /\ DependenciesInit /\ AxonInit
    /\ ApprovalsInit /\ RateLimitInit /\ HandoffsInit /\ SidecarInit
    /\ service \in {"memory", "chiasm", "dependencies", "axon", "approvals",
                    "ratelimit", "handoffs", "sidecar"}

Next ==
    \/ /\ service = "memory" /\ MemoryNext
       /\ UNCHANGED <<service, chiasmVars, dependenciesVars, axonVars, approvalsVars,
                      rateLimitVars, handoffsVars, sidecarVars>>
    \/ /\ service = "chiasm" /\ ChiasmNext
       /\ UNCHANGED <<service, memoryVars, dependenciesVars, axonVars, approvalsVars,
                      rateLimitVars, handoffsVars, sidecarVars>>
    \/ /\ service = "dependencies" /\ DependenciesNext
       /\ UNCHANGED <<service, memoryVars, chiasmVars, axonVars, approvalsVars,
                      rateLimitVars, handoffsVars, sidecarVars>>
    \/ /\ service = "axon" /\ AxonNext
       /\ UNCHANGED <<service, memoryVars, chiasmVars, dependenciesVars, approvalsVars,
                      rateLimitVars, handoffsVars, sidecarVars>>
    \/ /\ service = "approvals" /\ ApprovalsNext
       /\ UNCHANGED <<service, memoryVars, chiasmVars, dependenciesVars, axonVars,
                      rateLimitVars, handoffsVars, sidecarVars>>
    \/ /\ service = "ratelimit" /\ RateLimitNext
       /\ UNCHANGED <<service, memoryVars, chiasmVars, dependenciesVars, axonVars,
                      approvalsVars, handoffsVars, sidecarVars>>
    \/ /\ service = "handoffs" /\ HandoffsNext
       /\ UNCHANGED <<service, memoryVars, chiasmVars, dependenciesVars, axonVars,
                      approvalsVars, rateLimitVars, sidecarVars>>
    \/ /\ service = "sidecar" /\ SidecarNext
       /\ UNCHANGED <<service, memoryVars, chiasmVars, dependenciesVars, axonVars,
                      approvalsVars, rateLimitVars, handoffsVars>>

Spec == Init /\ [][Next]_servicesVars

\* The two requests of a kind are alike.  As one service moves, exchanging the two of every
\* kind at once reduces each service as much as exchanging those of its own kind.
Kinds == {Client, Adder, Poll, Decider, Storer, Collector}
Exchanged(S) == [x \in S |-> CHOOSE y \in S : y # x]
Symmetry == {[x \in UNION Kinds |-> IF swap THEN Exchanged(CHOOSE S \in Kinds : x \in S)[x] ELSE x]
               : swap \in BOOLEAN}
=============================================================================
