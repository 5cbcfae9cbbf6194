------------------------------- MODULE Memory -------------------------------
(***************************************************************************)
(* The memory store of kleos-lib (memory/mod.rs) with its review gate      *)
(* (inbox.rs), the vector index beside the SQLite table and the ledger of  *)
(* failed index writes that a sweeper and an admin route replay            *)
(* (memory/vector_sync.rs).                                                *)
(*                                                                         *)
(* An edit never changes a memory: it supersedes the row by a new version. *)
(* Reads, write closures and index calls of one request are separate steps *)
(* with other requests in between.  The index is written after the commit, *)
(* so a failed index write is put into the ledger instead.                 *)
(***************************************************************************)
EXTENDS Integers, Sequences, FiniteSets, SequencesExt

CONSTANTS
    Content,        \* what a memory says; equal contents have equal simhashes
    Client,         \* requests in flight
    Replayer,       \* runs of replay_vector_sync_pending
    Batch,          \* its LIMIT
    MaxRequests,    \* bound: requests ever made
    MaxMem,         \* bound: rows ever inserted
    MaxLedger,      \* bound: ledger rows ever inserted
    MaxFaults       \* bound: failed index calls, failed ledger writes, crashes

ASSUME MemoryAssumption ==
    /\ Content # {}
    /\ Batch \in Nat \ {0} /\ MaxRequests \in Nat /\ MaxMem \in Nat
    /\ MaxLedger \in Nat /\ MaxFaults \in Nat

VARIABLES
    mem,            \* the memories table; a row's id is its position
    index,          \* ids that have a row in the vector index
    ledger,         \* vector_sync_pending; done rows have been deleted
    req,            \* where each request is
    replay,         \* where each replay is
    requests, mfaults,      \* how much of MaxRequests and MaxFaults is spent
    reviewed,       \* history: ids approved in the inbox
    raced,          \* history: ids touched by overlapping requests, or by a lost step
    refused         \* history: ids whose replayed operation failed

memoryState == <<mem, index, ledger, req, replay, requests, mfaults, reviewed, refused>>
memoryVars == <<mem, index, ledger, req, replay, requests, mfaults, reviewed, raced, refused>>

Id == 1..Len(mem)
NoId == 0           \* parent_memory_id IS NULL

MemRow == [content : Content, parent : 0..MaxMem, root : 0..MaxMem, is_latest : BOOLEAN,
           is_forgotten : BOOLEAN, user_deleted : BOOLEAN,      \* forget_reason = 'user_deleted'
           is_archived : BOOLEAN, status : {"pending", "approved", "rejected"},
           via_update : BOOLEAN]                                \* history

LedgerRow == [mem : 1..MaxMem, op : {"insert", "delete"}, done : BOOLEAN]

\* old is the row update read; id the row the request is about; new the one it added.
Request == [pc : {"idle", "store_tx", "update_tx", "insert", "delete", "ledger", "reason"},
            id : 0..MaxMem, new : 0..MaxMem, op : {"insert", "delete"},
            reason : BOOLEAN, content : Content, old : MemRow]

NoRow == [content |-> CHOOSE c \in Content : TRUE, parent |-> NoId, root |-> NoId,
          is_latest |-> FALSE, is_forgotten |-> FALSE, user_deleted |-> FALSE,
          is_archived |-> FALSE, status |-> "approved", via_update |-> FALSE]

NoRequest == [pc |-> "idle", id |-> NoId, new |-> NoId, op |-> "insert", reason |-> FALSE,
              content |-> CHOOSE c \in Content : TRUE, old |-> NoRow]

NoReplay == [pc |-> "idle", todo |-> {}, clear |-> {}]

\* Columns, request stacks and the ledger keep their types.
MemoryTypeOK ==
    /\ mem \in Seq(MemRow) /\ Len(mem) <= MaxMem
    /\ index \subseteq Id
    /\ ledger \in Seq(LedgerRow)
    /\ req \in [Client -> Request]
    /\ \A r \in Replayer : /\ replay[r].pc \in {"idle", "run"}
                           /\ replay[r].todo \subseteq 1..Len(ledger)
                           /\ replay[r].clear \subseteq 1..Len(ledger)
    /\ requests \in 0..MaxRequests /\ mfaults \in 0..MaxFaults
    /\ reviewed \subseteq Id /\ raced \subseteq Id /\ refused \subseteq Id

MemoryInit ==
    /\ mem = <<>> /\ index = {} /\ ledger = <<>>
    /\ req = [c \in Client |-> NoRequest]
    /\ replay = [r \in Replayer |-> NoReplay]
    /\ requests = 0 /\ mfaults = 0 /\ reviewed = {} /\ raced = {} /\ refused = {}
-----------------------------------------------------------------------------
(* Storing and editing. *)

Arrives == requests < MaxRequests /\ requests' = requests + 1

Fault == mfaults < MaxFaults /\ mfaults' = mfaults + 1

\* The rows the duplicate scan looks at.
DedupSource(m) ==
    /\ ~mem[m].is_forgotten /\ mem[m].is_latest /\ ~mem[m].is_archived
    /\ mem[m].status # "rejected"

\* A store that names its parent skips the scan; a duplicate is returned as it is.
store(c, content, parent) ==
    /\ req[c].pc = "idle" /\ Arrives /\ Len(mem) < MaxMem
    /\ \/ parent \in Id
       \/ parent = NoId /\ \A m \in Id : DedupSource(m) => mem[m].content # content
    /\ req' = [req EXCEPT ![c].pc = "store_tx", ![c].content = content, ![c].id = parent]
    /\ UNCHANGED <<mem, index, ledger, replay, mfaults, reviewed, refused>>

RootOf(m) == IF mem[m].root = NoId THEN m ELSE mem[m].root

\* is_latest = 0 of the superseded row, then the INSERT.
Supersede(parent, row) ==
    Append([m \in Id |-> IF m = parent THEN [mem[m] EXCEPT !.is_latest = FALSE] ELSE mem[m]],
           row)

\* A store under a version that is no longer the latest is refused (Conflict).
MayStore(parent) == parent = NoId \/ mem[parent].is_latest

\* resolve_initial_status: the source and the importance of the request decide.
store_transactional(c, status) ==
    /\ req[c].pc = "store_tx" /\ Len(mem) < MaxMem
    /\ IF MayStore(req[c].id)
       THEN /\ mem' = Supersede(req[c].id,
                  [NoRow EXCEPT !.content = req[c].content, !.parent = req[c].id,
                                !.root = IF req[c].id = NoId THEN NoId ELSE RootOf(req[c].id),
                                !.is_latest = TRUE, !.status = status])
            /\ req' = [req EXCEPT ![c] = [NoRequest EXCEPT !.pc = "insert", !.new = Len(mem) + 1]]
       ELSE UNCHANGED mem /\ req' = [req EXCEPT ![c] = NoRequest]
    /\ UNCHANGED <<index, ledger, replay, requests, mfaults, reviewed, refused>>

update(c, m) ==
    /\ req[c].pc = "idle" /\ Arrives /\ Len(mem) < MaxMem
    /\ m \in Id /\ ~mem[m].is_forgotten
    /\ req' = [req EXCEPT ![c].pc = "update_tx", ![c].id = m, ![c].old = mem[m]]
    /\ UNCHANGED <<mem, index, ledger, replay, mfaults, reviewed, refused>>

\* Mutant: a status the client asks for is honoured.
NewVersionSelfApproved(c, content) ==
    [req[c].old EXCEPT !.content = content, !.parent = req[c].id, !.root = RootOf(req[c].id),
                       !.is_latest = TRUE, !.via_update = TRUE, !.status = "approved"]

\* Every column but the content comes from the row that was read; is_forgotten has
\* its default.
NewVersion(c, content) ==
    [req[c].old EXCEPT !.content = content, !.parent = req[c].id, !.root = RootOf(req[c].id),
                       !.is_latest = TRUE, !.via_update = TRUE]

\* Mutant: the affected-row count of the flip of is_latest is not looked at.
MayUpdateUnguarded(m) == TRUE

MayUpdate(m) == mem[m].is_latest

update_transactional(c, content) ==
    /\ req[c].pc = "update_tx" /\ Len(mem) < MaxMem
    /\ IF MayUpdate(req[c].id)
       THEN /\ mem' = Supersede(req[c].id, NewVersion(c, content))
            /\ req' = [req EXCEPT ![c] = [NoRequest EXCEPT !.pc = "insert", !.id = req[c].id,
                                                           !.new = Len(mem) + 1]]
       ELSE UNCHANGED mem /\ req' = [req EXCEPT ![c] = NoRequest]
    /\ UNCHANGED <<index, ledger, replay, requests, mfaults, reviewed, refused>>
-----------------------------------------------------------------------------
(* The index after the commit. *)

\* After the insert an update deletes the superseded version's vector.
index_insert(c) ==
    /\ req[c].pc = "insert"
    /\ index' = index \cup {req[c].new}
    /\ req' = [req EXCEPT ![c] = IF @.id = NoId THEN NoRequest ELSE [@ EXCEPT !.pc = "delete"]]
    /\ UNCHANGED <<mem, ledger, replay, requests, mfaults, reviewed, refused>>

AfterDelete(q) == IF q.reason THEN [q EXCEPT !.pc = "reason"] ELSE NoRequest

index_delete(c) ==
    /\ req[c].pc = "delete"
    /\ index' = index \ {req[c].id}
    /\ req' = [req EXCEPT ![c] = AfterDelete(@)]
    /\ UNCHANGED <<mem, ledger, replay, requests, mfaults, reviewed, refused>>

\* Mutant: a failed insert is only logged.
IndexErrorLogged(c) ==
    /\ req[c].pc \in {"insert", "delete"}
    /\ Fault
    /\ req' = [req EXCEPT ![c] = NoRequest]
    /\ UNCHANGED <<mem, index, ledger, replay, requests, reviewed, refused>>

\* A failed insert leaves the old version's vector where it is.
index_error(c) ==
    /\ req[c].pc \in {"insert", "delete"}
    /\ Fault
    /\ req' = [req EXCEPT ![c].op = req[c].pc, ![c].pc = "ledger"]
    /\ UNCHANGED <<mem, index, ledger, replay, requests, reviewed, refused>>

Target(q) == IF q.op = "insert" /\ q.new # NoId THEN q.new ELSE q.id

record_vector_sync_failure(c) ==
    /\ req[c].pc = "ledger" /\ Len(ledger) < MaxLedger
    /\ ledger' = Append(ledger, [mem |-> Target(req[c]), op |-> req[c].op, done |-> FALSE])
    /\ req' = [req EXCEPT ![c] = AfterDelete(@)]
    /\ UNCHANGED <<mem, index, replay, requests, mfaults, reviewed, refused>>

\* update_forget_reason and set_forget_reason: whatever the caller wrote.
update_forget_reason(c) ==
    /\ req[c].pc = "reason"
    /\ mem' = [mem EXCEPT ![req[c].id].user_deleted = FALSE]
    /\ req' = [req EXCEPT ![c] = NoRequest]
    /\ UNCHANGED <<index, ledger, replay, requests, mfaults, reviewed, refused>>
-----------------------------------------------------------------------------
(* Forgetting, archiving, reviewing. *)

Begin(c, m, pc, op, reason) ==
    req' = [req EXCEPT ![c] = [NoRequest EXCEPT !.pc = pc, !.id = m, !.op = op, !.reason = reason]]

delete(c, m) ==
    /\ req[c].pc = "idle" /\ Arrives /\ m \in Id /\ ~mem[m].is_forgotten
    /\ mem' = [mem EXCEPT ![m].is_forgotten = TRUE, ![m].user_deleted = TRUE]
    /\ Begin(c, m, "delete", "delete", FALSE)
    /\ UNCHANGED <<index, ledger, replay, mfaults, reviewed, refused>>

mark_forgotten(c, m, reason) ==
    /\ req[c].pc = "idle" /\ Arrives /\ m \in Id
    /\ mem' = [mem EXCEPT ![m].is_forgotten = TRUE]
    /\ Begin(c, m, "delete", "delete", reason)
    /\ UNCHANGED <<index, ledger, replay, mfaults, reviewed, refused>>

\* The vector went with the deletion: an insert is queued for the sweeper.
restore(c, m) ==
    /\ req[c].pc = "idle" /\ Arrives /\ m \in Id /\ mem[m].is_forgotten /\ mem[m].user_deleted
    /\ Len(ledger) < MaxLedger
    /\ mem' = [mem EXCEPT ![m].is_forgotten = FALSE, ![m].user_deleted = FALSE]
    /\ Begin(c, m, "ledger", "insert", FALSE)
    /\ UNCHANGED <<index, ledger, replay, mfaults, reviewed, refused>>

SetArchived(m, b) ==
    /\ Arrives
    /\ m \in Id
    /\ mem' = [mem EXCEPT ![m].is_archived = b]
    /\ UNCHANGED <<index, ledger, req, replay, mfaults, reviewed, refused>>

mark_archived(m) == SetArchived(m, TRUE)
mark_unarchived(m) == SetArchived(m, FALSE)

approve_memory(m) ==
    /\ Arrives
    /\ m \in Id /\ mem[m].status = "pending"
    /\ mem' = [mem EXCEPT ![m].status = "approved"]
    /\ reviewed' = reviewed \cup {m}
    /\ UNCHANGED <<index, ledger, req, replay, mfaults, refused>>

\* In place: no new version, and the embedding stays that of the old content.
edit_and_approve(m, content) ==
    /\ Arrives
    /\ m \in Id /\ mem[m].status = "pending"
    /\ mem' = [mem EXCEPT ![m].status = "approved", ![m].content = content]
    /\ reviewed' = reviewed \cup {m}
    /\ UNCHANGED <<index, ledger, req, replay, mfaults, refused>>

reject_memory(c, m, reason) ==
    /\ req[c].pc = "idle" /\ Arrives /\ m \in Id /\ mem[m].status = "pending"
    /\ mem' = [mem EXCEPT ![m].status = "rejected", ![m].is_archived = TRUE]
    /\ req' = IF reason THEN [req EXCEPT ![c] = [NoRequest EXCEPT !.pc = "reason", !.id = m]]
              ELSE req
    /\ UNCHANGED <<index, ledger, replay, mfaults, reviewed, refused>>
-----------------------------------------------------------------------------
(* Replaying the ledger. *)

Pending == {l \in 1..Len(ledger) : ~ledger[l].done}

\* ORDER BY id ASC LIMIT ?
Oldest == {l \in Pending : Cardinality({k \in Pending : k <= l}) <= Batch}

\* The oldest rows, in their order; embeddings never change once a row has one.
replay_vector_sync_pending(r) ==
    /\ replay[r].pc = "idle" /\ Pending # {}
    /\ replay' = [replay EXCEPT ![r] = [pc |-> "run", todo |-> Oldest, clear |-> {}]]
    /\ UNCHANGED <<mem, index, ledger, req, requests, mfaults, reviewed, refused>>

Replayed(l) ==
    IF ledger[l].op = "insert" THEN index \cup {ledger[l].mem} ELSE index \ {ledger[l].mem}

replay_row(r) ==
    /\ replay[r].pc = "run" /\ replay[r].todo # {}
    /\ LET l == Min(replay[r].todo)
       IN  /\ index' = Replayed(l)
           /\ replay' = [replay EXCEPT ![r].todo = @ \ {l}, ![r].clear = @ \cup {l}]
    /\ UNCHANGED <<mem, ledger, req, requests, mfaults, reviewed, refused>>

\* The row stays for the next replay, behind which later rows have been applied.
replay_row_fails(r) ==
    /\ replay[r].pc = "run" /\ replay[r].todo # {}
    /\ Fault
    /\ LET l == Min(replay[r].todo)
       IN  /\ refused' = refused \cup {ledger[l].mem}
           /\ replay' = [replay EXCEPT ![r].todo = @ \ {l}]
    /\ UNCHANGED <<mem, index, ledger, req, requests, reviewed>>

delete_pending_batch(r) ==
    /\ replay[r].pc = "run" /\ replay[r].todo = {}
    /\ ledger' = [l \in 1..Len(ledger) |->
                    IF l \in replay[r].clear THEN [ledger[l] EXCEPT !.done = TRUE] ELSE ledger[l]]
    /\ replay' = [replay EXCEPT ![r] = NoReplay]
    /\ UNCHANGED <<mem, index, req, requests, mfaults, reviewed, refused>>
-----------------------------------------------------------------------------
(* Lost steps. *)

TouchedBy(q) == IF q.pc = "idle" THEN {} ELSE {q.id, q.new} \ {NoId}

ReplayTouches(p) == {ledger[l].mem : l \in p.clear \cup p.todo}

\* record_vector_sync_failure only logs its own failure; a client that goes away
\* drops its request at any await.
request_lost(c) ==
    /\ req[c].pc \notin {"idle", "store_tx", "update_tx"}
    /\ Fault
    /\ raced' = raced \cup TouchedBy(req[c])
    /\ req' = [req EXCEPT ![c] = NoRequest]
    /\ UNCHANGED <<mem, index, ledger, replay, requests, reviewed, refused>>

MemoryCrash ==
    /\ Fault
    /\ raced' = raced \cup UNION {TouchedBy(req[c]) : c \in Client}
    /\ req' = [c \in Client |-> NoRequest]
    /\ replay' = [r \in Replayer |-> NoReplay]
    /\ UNCHANGED <<mem, index, ledger, requests, reviewed, refused>>

MemoryStep ==
    \/ \E c \in Client, x \in Content, m \in 0..Len(mem) : store(c, x, m)
    \/ \E c \in Client, s \in {"pending", "approved"} : store_transactional(c, s)
    \/ \E c \in Client, m \in Id : update(c, m)
    \/ \E c \in Client, x \in Content : update_transactional(c, x)
    \/ \E c \in Client : index_insert(c)
    \/ \E c \in Client : index_delete(c)
    \/ \E c \in Client : index_error(c)
    \/ \E c \in Client : record_vector_sync_failure(c)
    \/ \E c \in Client : update_forget_reason(c)
    \/ \E c \in Client, m \in Id : delete(c, m)
    \/ \E c \in Client, m \in Id, b \in BOOLEAN : mark_forgotten(c, m, b)
    \/ \E c \in Client, m \in Id : restore(c, m)
    \/ \E m \in Id : mark_archived(m)
    \/ \E m \in Id : mark_unarchived(m)
    \/ \E m \in Id : approve_memory(m)
    \/ \E m \in Id, x \in Content : edit_and_approve(m, x)
    \/ \E c \in Client, m \in Id, b \in BOOLEAN : reject_memory(c, m, b)
    \/ \E r \in Replayer : replay_vector_sync_pending(r)
    \/ \E r \in Replayer : replay_row(r)
    \/ \E r \in Replayer : replay_row_fails(r)
    \/ \E r \in Replayer : delete_pending_batch(r)

\* Rows that two requests, or a request and a replay, are in the middle of.
Overlap ==
    {m \in Id :
        \/ \E c, d \in Client : c # d /\ m \in TouchedBy(req[c]) \cap TouchedBy(req[d])
        \/ \E c \in Client, r \in Replayer : m \in TouchedBy(req[c]) \cap ReplayTouches(replay[r])
        \/ \E r, s \in Replayer : r # s /\ m \in ReplayTouches(replay[r]) \cap ReplayTouches(replay[s])}

MemoryNext ==
    \/ MemoryStep /\ raced' = raced \cup Overlap'
    \/ \E c \in Client : request_lost(c)
    \/ MemoryCrash

MemorySpec == MemoryInit /\ [][MemoryNext]_memoryVars
-----------------------------------------------------------------------------
(* Properties. *)

\* Concurrent updates and stores under a parent never fork a version chain: no row
\* has two successors and a chain has at most one row with is_latest = 1.
ChainIsLinear ==
    \A a, b \in Id : a # b =>
        /\ mem[a].parent = mem[b].parent => mem[a].parent = NoId
        /\ mem[a].is_latest /\ mem[b].is_latest => RootOf(a) # RootOf(b)

\* A memory that entered as 'pending' reads 'approved' only if the inbox approved it or
\* a version it was edited from: update, whatever it read and when it commits, approves nothing.
ApprovedWasReviewed ==
    \A m \in Id : mem[m].via_update /\ mem[m].status = "approved" =>
        \/ mem[mem[m].parent].status = "approved"
        \/ m \in reviewed

Live(m) == mem[m].is_latest /\ ~mem[m].is_forgotten

\* A request or a replay that is still going to put m's vector into the index.
InsertComing(m) ==
    \/ \E c \in Client : m \in TouchedBy(req[c])
    \/ \E l \in 1..Len(ledger) : ledger[l].mem = m /\ ledger[l].op = "insert" /\ ~ledger[l].done

\* A live memory is in the vector index or about to be: failed index writes, edits,
\* deletions, restores and replays of the ledger lose no vector, as long as the requests
\* on one memory do not overlap, none is cut off and no replayed operation fails.
NoVectorLost ==
    \A m \in Id \ (raced \cup refused) : Live(m) => m \in index \/ InsertComing(m)

\* What the comments on update promise: a new version starts in the archive and review
\* state its predecessor is in when it is superseded, and not from a deleted one.
UpdateCarriesLifecycle ==
    [][Len(mem') > Len(mem) /\ Last(mem').via_update =>
         LET old == mem[Last(mem').parent]
         IN  /\ ~old.is_forgotten
             /\ Last(mem').is_archived = old.is_archived
             /\ Last(mem').status = old.status]_memoryVars
=============================================================================
