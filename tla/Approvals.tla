------------------------------ MODULE Approvals ------------------------------
(***************************************************************************)
(* Approval requests of kleos-lib (approvals/mod.rs): created for a window *)
(* of time, decided once or expired.                                       *)
(*                                                                         *)
(* decide reads the row, looks at its status and its expiry, and then      *)
(* writes by id alone: what it decides on may be stale.                    *)
(***************************************************************************)
EXTENDS Integers

CONSTANTS
    Approval,       \* approval ids
    Decider,        \* calls of decide in flight
    Lifetime,       \* window_secs
    MaxTime         \* bound: last tick

ASSUME ApprovalsAssumption == Approval # {} /\ Lifetime \in Nat /\ MaxTime \in Nat

VARIABLES
    approval,       \* approvals
    decider,        \* where each call of decide is
    time,           \* the time
    told,           \* history: decisions reported as made
    contested       \* history: ids two calls of decide worked on at once

approvalsVars == <<approval, decider, time, told, contested>>

Decision == {"approved", "denied"}

NoApproval == [status |-> "none", expires_at |-> 0]

NoDecider == [pc |-> "idle", id |-> CHOOSE a \in Approval : TRUE, status |-> "pending"]

\* Rows and calls keep their types.
ApprovalsTypeOK ==
    /\ approval \in [Approval -> [status : Decision \cup {"none", "pending", "expired"},
                                  expires_at : 0..(MaxTime + Lifetime)]]
    /\ decider \in [Decider -> [pc : {"idle", "write"}, id : Approval,
                                status : Decision \cup {"pending", "expired"}]]
    /\ time \in 0..MaxTime
    /\ told \in [Approval -> SUBSET Decision]
    /\ contested \subseteq Approval

ApprovalsInit ==
    /\ approval = [a \in Approval |-> NoApproval]
    /\ decider = [d \in Decider |-> NoDecider]
    /\ time = 0
    /\ told = [a \in Approval |-> {}]
    /\ contested = {}
-----------------------------------------------------------------------------
create_approval(a) ==
    /\ approval[a].status = "none"
    /\ approval' = [approval EXCEPT ![a] = [status |-> "pending", expires_at |-> time + Lifetime]]
    /\ UNCHANGED <<decider, time, told, contested>>

\* Mutant: the status that was read is not looked at.
StillOpenAlways(a) == approval[a].status # "none"

StillOpen(a) == approval[a].status = "pending"

DecidedElsewhere(d, a) == \E e \in Decider \ {d} : decider[e].pc = "write" /\ decider[e].id = a

\* get_approval and the checks on what it returned.
decide(d, a, decision) ==
    /\ decider[d].pc = "idle" /\ StillOpen(a)
    /\ decider' = [decider EXCEPT ![d] =
                     [pc |-> "write", id |-> a,
                      status |-> IF time > approval[a].expires_at THEN "expired" ELSE decision]]
    /\ contested' = IF DecidedElsewhere(d, a) THEN contested \cup {a} ELSE contested
    /\ UNCHANGED <<approval, time, told>>

\* WHERE id = ? AND user_id = ?.
decide_write(d) ==
    /\ decider[d].pc = "write"
    /\ approval' = [approval EXCEPT ![decider[d].id].status = decider[d].status]
    /\ told' = [told EXCEPT ![decider[d].id] = @ \cup ({decider[d].status} \cap Decision)]
    /\ decider' = [decider EXCEPT ![d] = NoDecider]
    /\ UNCHANGED <<time, contested>>

IsOverdue(a) == approval[a].status = "pending" /\ approval[a].expires_at < time

expire_stale ==
    /\ \E a \in Approval : IsOverdue(a)
    /\ approval' = [a \in Approval |->
                      IF IsOverdue(a) THEN [approval[a] EXCEPT !.status = "expired"] ELSE approval[a]]
    /\ UNCHANGED <<decider, time, told, contested>>

\* The caller goes away before the write.
decide_lost(d) ==
    /\ decider[d].pc = "write"
    /\ decider' = [decider EXCEPT ![d] = NoDecider]
    /\ UNCHANGED <<approval, time, told, contested>>

ApprovalsTick ==
    /\ time < MaxTime /\ time' = time + 1
    /\ UNCHANGED <<approval, decider, told, contested>>

ApprovalsNext ==
    \/ \E a \in Approval : create_approval(a)
    \/ \E d \in Decider, a \in Approval, s \in Decision : decide(d, a, s)
    \/ \E d \in Decider : decide_write(d)
    \/ \E d \in Decider : decide_lost(d)
    \/ expire_stale
    \/ ApprovalsTick

ApprovalsSpec == ApprovalsInit /\ [][ApprovalsNext]_approvalsVars
-----------------------------------------------------------------------------
(* Properties. *)

\* A decision that was reported stands: unless two calls of decide were between their read
\* and their write at once, an approval is decided once, and neither a later decide nor
\* expire_stale changes what the caller was told.
DecisionStands ==
    \A a \in Approval \ contested : told[a] # {} => told[a] = {approval[a].status}
=============================================================================
