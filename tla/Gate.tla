-------------------------------- MODULE Gate --------------------------------
(***************************************************************************)
(* The command gate: kleos-lib's gate/mod.rs and the handlers of           *)
(* kleos-server's routes/gate that hold a request until a responder        *)
(* decides or the wait times out.                                          *)
(*                                                                         *)
(* The row of the request is meant to be the one truth: the responder      *)
(* changes it and then wakes the waiting handler through a oneshot channel *)
(* kept in pending_approvals; a handler that was not woken asks the row.   *)
(***************************************************************************)
EXTENDS Integers, Sequences, FiniteSets

CONSTANTS
    MaxGates        \* bound: requests ever checked

VARIABLES
    gate,               \* gate_requests; an id is a position
    pending_approvals,  \* ids with a sender in the map
    outcome,            \* ids whose agent has stored a memory since
    responses,          \* decisions that are written and whose waiter is still to be woken
    decided,            \* history: ids a responder or a time-out has decided
    conflicts           \* history: ids a responder was told Conflict about while they waited

gateVars == <<gate, pending_approvals, outcome, responses, decided, conflicts>>

GateId == 1..Len(gate)

GateStatus == {"allowed", "blocked", "pending_secrets", "pending", "approved", "denied", "completed"}

\* wait: where the handler is; "let" and "refused" are its answers, "gone" a dropped one.
GateRow == [status : GateStatus,
            wait : {"register", "wait", "expired", "mark", "read", "let", "refused", "gone"}]

\* Rows, the map and the decisions under way keep their types.
GateTypeOK ==
    /\ gate \in Seq(GateRow) /\ Len(gate) <= MaxGates
    /\ pending_approvals \subseteq GateId
    /\ \A h \in {outcome, decided, conflicts} : h \subseteq GateId
    /\ responses \subseteq GateId \X BOOLEAN

GateInit ==
    /\ gate = <<>> /\ pending_approvals = {}
    /\ outcome = {} /\ responses = {} /\ decided = {} /\ conflicts = {}
-----------------------------------------------------------------------------
(* The check. *)

\* The row is inserted with the verdict of the static rules as its status.
store_gate_request(status, wait) ==
    /\ Len(gate) < MaxGates
    /\ gate' = Append(gate, [status |-> status, wait |-> wait])
    /\ UNCHANGED <<pending_approvals, outcome, responses, decided, conflicts>>

\* Read-only tools, covered or exempt files, tools that need no approval, skip_approval.
check_allowed == store_gate_request("allowed", "let")
check_blocked == store_gate_request("blocked", "refused")
check_secrets == store_gate_request("pending_secrets", "refused")

\* A command that passed the rules, of a tool in TOOLS_REQUIRING_APPROVAL.
check_needs_approval == store_gate_request("allowed", "register")

\* A refused command may have been allowed by the rules and blocked by a later check,
\* with a second row of its own.
check_blocked_later ==
    /\ Len(gate) + 1 < MaxGates
    /\ gate' = gate \o [i \in 1..2 |-> [status |-> IF i = 1 THEN "allowed" ELSE "blocked",
                                        wait |-> "refused"]]
    /\ UNCHANGED <<pending_approvals, outcome, responses, decided, conflicts>>

\* cleanup_expired_approvals, under the same lock, removes entries that have timed out; the
\* entry of a handler that is gone may be one.
register_approval(g) ==
    /\ gate[g].wait = "register"
    /\ gate' = [gate EXCEPT ![g].wait = "wait"]
    /\ \E old \in SUBSET {h \in pending_approvals : gate[h].wait = "gone"} :
           pending_approvals' = {h \in pending_approvals \ old : gate[h].wait # "expired"} \cup {g}
    /\ UNCHANGED <<outcome, responses, decided, conflicts>>

\* The client of the check goes away; the entry stays.
check_dropped(g) ==
    /\ gate[g].wait \in {"register", "wait", "expired", "mark", "read"}
    /\ gate' = [gate EXCEPT ![g].wait = "gone"]
    /\ UNCHANGED <<pending_approvals, outcome, responses, decided, conflicts>>

\* APPROVAL_TIMEOUT_SECS are over.
approval_timeout(g) ==
    /\ gate[g].wait = "wait"
    /\ gate' = [gate EXCEPT ![g].wait = "expired"]
    /\ UNCHANGED <<pending_approvals, outcome, responses, decided, conflicts>>

stop_waiting(g) ==
    /\ gate[g].wait = "expired"
    /\ pending_approvals' = pending_approvals \ {g}
    /\ gate' = [gate EXCEPT ![g].wait = "mark"]
    /\ UNCHANGED <<outcome, responses, decided, conflicts>>

mark_gate_timed_out(g) ==
    /\ gate[g].wait = "mark"
    /\ IF gate[g].status = "pending"
       THEN /\ gate' = [gate EXCEPT ![g].status = "denied", ![g].wait = "refused"]
            /\ decided' = decided \cup {g}
       ELSE /\ gate' = [gate EXCEPT ![g].wait = "read"]
            /\ UNCHANGED decided
    /\ UNCHANGED <<pending_approvals, outcome, responses, conflicts>>

read_gate_decision(g) ==
    /\ gate[g].wait = "read"
    /\ gate' = [gate EXCEPT ![g].wait = IF gate[g].status = "approved" THEN "let" ELSE "refused"]
    /\ UNCHANGED <<pending_approvals, outcome, responses, decided, conflicts>>

\* The write or the read fails, which refuses the command.
gate_query_fails(g) ==
    /\ gate[g].wait \in {"mark", "read"}
    /\ gate' = [gate EXCEPT ![g].wait = "refused"]
    /\ UNCHANGED <<pending_approvals, outcome, responses, decided, conflicts>>
-----------------------------------------------------------------------------
(* Responders and completion. *)

\* own: the key is bound to the agent that made the request.
respond_to_gate(g, approved, own) ==
    /\ ~(approved /\ own)                   \* Forbidden
    /\ IF gate[g].status = "pending"
       THEN /\ gate' = [gate EXCEPT ![g].status = IF approved THEN "approved" ELSE "denied"]
            /\ responses' = responses \cup {<<g, approved>>}
            /\ decided' = decided \cup {g}
            /\ UNCHANGED conflicts
       ELSE /\ conflicts' = IF gate[g].wait = "wait" THEN conflicts \cup {g} ELSE conflicts
            /\ UNCHANGED <<gate, responses, decided>>
    /\ UNCHANGED <<pending_approvals, outcome>>

\* The rest of respond_handler: the sender is taken from the map and wakes a handler that
\* still waits.
wake_waiter(g, approved) ==
    /\ <<g, approved>> \in responses
    /\ responses' = responses \ {<<g, approved>>}
    /\ pending_approvals' = pending_approvals \ {g}
    /\ gate' = IF g \in pending_approvals /\ gate[g].wait = "wait"
               THEN [gate EXCEPT ![g].wait = IF approved THEN "let" ELSE "refused"] ELSE gate
    /\ UNCHANGED <<outcome, decided, conflicts>>

store_outcome(g) ==
    /\ outcome' = outcome \cup {g}
    /\ UNCHANGED <<gate, pending_approvals, responses, decided, conflicts>>

\* complete_handler and complete_latest_gate look for a stored memory, which stays, and
\* then write whatever the status is by now.
complete_gate(g) ==
    /\ g \in outcome
    /\ gate' = [gate EXCEPT ![g].status = "completed"]
    /\ UNCHANGED <<pending_approvals, outcome, responses, decided, conflicts>>

GateNext ==
    \/ check_allowed
    \/ check_blocked
    \/ check_secrets
    \/ check_needs_approval
    \/ check_blocked_later
    \/ \E g \in GateId : register_approval(g)
    \/ \E g \in GateId : check_dropped(g)
    \/ \E g \in GateId : approval_timeout(g)
    \/ \E g \in GateId : stop_waiting(g)
    \/ \E g \in GateId : mark_gate_timed_out(g)
    \/ \E g \in GateId : read_gate_decision(g)
    \/ \E g \in GateId : gate_query_fails(g)
    \/ \E g \in GateId, a, o \in BOOLEAN : respond_to_gate(g, a, o)
    \/ \E g \in GateId, a \in BOOLEAN : wake_waiter(g, a)
    \/ \E g \in GateId : store_outcome(g)
    \/ \E g \in GateId : complete_gate(g)

GateSpec == GateInit /\ [][GateNext]_gateVars
-----------------------------------------------------------------------------
(* Properties. *)

\* What respond_to_gate promises: a responder whose gate is still being waited for is told
\* Conflict only if another responder or the time-out has decided it, or it was completed.
ConflictMeansDecided ==
    \A g \in conflicts : g \in decided \/ gate[g].status = "completed"
=============================================================================
