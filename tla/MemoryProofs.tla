----------------------------- MODULE MemoryProofs ---------------------------
(***************************************************************************)
(* Proofs about the memory store: version chains do not fork and implement *)
(* VersionChains, nothing is approved but by the inbox, and no vector is   *)
(* lost.                                                                   *)
(***************************************************************************)
EXTENDS MemoryRefinement, FiniteSetTheorems, NaturalsInduction, WellFoundedInduction, TLAPS

Job == [pc : {"idle", "run"}, todo : SUBSET Nat, clear : SUBSET Nat]

(* The tables and the requests in flight. *)

\* What a request is about exists, and has what its next step needs.
Fits(q, n) ==
    /\ q.id <= n /\ q.new <= n
    /\ q.pc \in {"update_tx", "delete", "reason"} => q.id # NoId
    /\ q.pc = "insert" => q.new # NoId
    /\ q.pc = "ledger" => Target(q) # NoId
    /\ q.reason => q.id # NoId /\ q.pc \in {"delete", "ledger", "reason"}

RequestsFit == \A c \in Client : Fits(req[c], Len(mem))

\* So do the rows of the ledger and of a replay.
LedgerFits ==
    /\ \A l \in 1..Len(ledger) : ledger[l].mem <= Len(mem)
    /\ \A r \in Replayer : replay[r].todo \cup replay[r].clear \subseteq 1..Len(ledger)

TablesOK ==
    /\ mem \in Seq(MemRow) /\ Len(mem) <= MaxMem /\ ledger \in Seq(LedgerRow)
    /\ index \subseteq Id /\ reviewed \subseteq Id /\ raced \subseteq Id /\ refused \subseteq Id
    /\ req \in [Client -> Request] /\ replay \in [Replayer -> Job]
    /\ requests \in 0..MaxRequests /\ mfaults \in 0..MaxFaults
    /\ RequestsFit /\ LedgerFits

LEMMA SomeContent == (CHOOSE c \in Content : TRUE) \in Content
  BY MemoryAssumption

LEMMA NoRowIsRow == /\ NoRow \in MemRow /\ NoRow.parent = 0 /\ NoRow.root = 0
                    /\ NoRow.via_update = FALSE
<1>1. 0 \in 0..MaxMem
  BY MemoryAssumption
<1>2. QED
  BY <1>1, SomeContent DEF NoRow, MemRow, NoId

LEMMA NoRequestIsRequest ==
    /\ NoRequest \in Request /\ NoRequest.pc = "idle" /\ NoRequest.id = 0 /\ NoRequest.new = 0
    /\ NoRequest.op = "insert" /\ NoRequest.reason = FALSE
<1>1. 0 \in 0..MaxMem
  BY MemoryAssumption
<1>2. QED
  BY <1>1, SomeContent, NoRowIsRow DEF NoRequest, Request, NoId

LEMMA NoReplayIsJob == NoReplay \in Job /\ NoReplay.todo = {} /\ NoReplay.clear = {}
  BY DEF NoReplay, Job

\* One row of a table is replaced.
LEMMA RowReplaced ==
    ASSUME NEW X, NEW s \in Seq(X), NEW i \in 1..Len(s), NEW e \in X
    PROVE  /\ [s EXCEPT ![i] = e] \in Seq(X) /\ Len([s EXCEPT ![i] = e]) = Len(s)
           /\ \A j \in 1..Len(s) : [s EXCEPT ![i] = e][j] = IF j = i THEN e ELSE s[j]
  OBVIOUS

\* A new version is added, and its parent is no longer the latest.
LEMMA RowAdded ==
    ASSUME mem \in Seq(MemRow), NEW p \in 0..Len(mem), NEW row \in MemRow
    PROVE  /\ Supersede(p, row) \in Seq(MemRow) /\ Len(Supersede(p, row)) = Len(mem) + 1
           /\ Supersede(p, row)[Len(mem) + 1] = row
           /\ \A m \in Id : Supersede(p, row)[m] =
                  IF m = p THEN [mem[m] EXCEPT !.is_latest = FALSE] ELSE mem[m]
<1>1. PICK f : f = [m \in Id |-> IF m = p THEN [mem[m] EXCEPT !.is_latest = FALSE] ELSE mem[m]]
  OBVIOUS
<1>2. Supersede(p, row) = Append(f, row)
  BY <1>1 DEF Supersede
<1>3. \A m \in Id : mem[m] \in MemRow
  BY DEF Id
<1>4. \A m \in Id : [mem[m] EXCEPT !.is_latest = FALSE] \in MemRow
  BY <1>3 DEF MemRow
<1>5. f \in [1..Len(mem) -> MemRow] /\ Len(mem) \in Nat
  BY <1>1, <1>3, <1>4 DEF Id
<1>6. f \in Seq(MemRow) /\ Len(f) = Len(mem)
  BY <1>5
<1>7. /\ Append(f, row) \in Seq(MemRow) /\ Len(Append(f, row)) = Len(mem) + 1
      /\ Append(f, row)[Len(mem) + 1] = row
  BY <1>6
<1>8. \A m \in Id : Append(f, row)[m] = f[m]
  BY <1>6 DEF Id
<1>9. \A m \in Id : f[m] = IF m = p THEN [mem[m] EXCEPT !.is_latest = FALSE] ELSE mem[m]
  BY <1>1
<1>10. QED
  BY <1>2, <1>7, <1>8, <1>9

\* A step leaves the tables well-formed if what it changes is.
LEMMA TablesKept ==
    ASSUME TablesOK, mem' \in Seq(MemRow), Len(mem) <= Len(mem'), Len(mem') <= MaxMem,
           index' \subseteq 1..Len(mem'), reviewed' \subseteq 1..Len(mem'),
           raced' \subseteq 1..Len(mem'), refused' \subseteq 1..Len(mem'),
           ledger' \in Seq(LedgerRow), Len(ledger) <= Len(ledger'),
           \A l \in 1..Len(ledger') : ledger'[l].mem <= Len(mem'),
           req' \in [Client -> Request],
           \A c \in Client : req'[c] = req[c] \/ Fits(req'[c], Len(mem')),
           replay' \in [Replayer -> Job],
           \A r \in Replayer : \/ replay'[r] = replay[r]
                               \/ replay'[r].todo \cup replay'[r].clear \subseteq 1..Len(ledger'),
           requests' \in 0..MaxRequests, mfaults' \in 0..MaxFaults
    PROVE  TablesOK'
<1>1. Len(mem) \in Nat /\ Len(mem') \in Nat /\ Len(ledger) \in Nat /\ Len(ledger') \in Nat
  BY DEF TablesOK
<1>2. RequestsFit'
  <2> SUFFICES ASSUME NEW c \in Client PROVE Fits(req'[c], Len(mem'))
    BY DEF RequestsFit
  <2>1. CASE req'[c] = req[c]
    <3>1. PICK q \in Request : q = req[c] /\ Fits(q, Len(mem))
      BY DEF TablesOK, RequestsFit
    <3>2. q.id \in Nat /\ q.new \in Nat
      BY <3>1, MemoryAssumption DEF Request
    <3>3. Fits(q, Len(mem'))
      BY <1>1, <3>1, <3>2 DEF Fits
    <3>4. QED
      BY <2>1, <3>1, <3>3
  <2>2. QED
    BY <2>1
<1>3. LedgerFits'
  <2> SUFFICES ASSUME NEW r \in Replayer
               PROVE  replay'[r].todo \cup replay'[r].clear \subseteq 1..Len(ledger')
    BY DEF LedgerFits
  <2>1. CASE replay'[r] = replay[r]
    <3>1. replay[r].todo \cup replay[r].clear \subseteq 1..Len(ledger)
      BY DEF TablesOK, LedgerFits
    <3>2. 1..Len(ledger) \subseteq 1..Len(ledger')
      BY <1>1
    <3>3. QED
      BY <2>1, <3>1, <3>2
  <2>2. QED
    BY <2>1
<1>4. QED
  BY <1>2, <1>3 DEF TablesOK, Id
-----------------------------------------------------------------------------
(* What the steps do to the table of memories. *)

\* One row is edited: its place in its chain stays, and only the inbox decides on it.
Edit(m, row) ==
    /\ mem' = [mem EXCEPT ![m] = row]
    /\ row.parent = mem[m].parent /\ row.root = mem[m].root /\ row.is_latest = mem[m].is_latest
    /\ row.via_update = mem[m].via_update
    /\ \/ row.status = mem[m].status
       \/ mem[m].status = "pending" /\ row.status = "rejected"
       \/ mem[m].status = "pending" /\ m \in reviewed'

\* An edit after which the row is not alive unless it was before.
Burial(m, row) == Edit(m, row) /\ (mem[m].is_forgotten => row.is_forgotten)

LEMMA Burials ==
    ASSUME TablesOK,
           \/ \E c \in Client, m \in Id : delete(c, m)
           \/ \E c \in Client, m \in Id, b \in BOOLEAN : mark_forgotten(c, m, b)
           \/ \E m \in Id : mark_archived(m) \/ mark_unarchived(m) \/ approve_memory(m)
           \/ \E m \in Id, x \in Content : edit_and_approve(m, x)
           \/ \E c \in Client, m \in Id, b \in BOOLEAN : reject_memory(c, m, b)
           \/ \E c \in Client : update_forget_reason(c)
    PROVE  \E m \in Id, row \in MemRow : Burial(m, row)
<1>0. mem \in Seq(MemRow) /\ Id = 1..Len(mem)
  BY DEF TablesOK, Id
<1>1. ASSUME NEW m \in Id PROVE mem[m] \in MemRow
  BY <1>0
<1>2. CASE \E c \in Client, m \in Id : delete(c, m)
  <2>1. PICK c \in Client, m \in Id : delete(c, m)
    BY <1>2
  <2>2. PICK row : row = [mem[m] EXCEPT !.is_forgotten = TRUE, !.user_deleted = TRUE]
    OBVIOUS
  <2>3. row \in MemRow /\ mem' = [mem EXCEPT ![m] = row]
    BY <1>0, <1>1, <2>1, <2>2 DEF delete, MemRow
  <2>4. Burial(m, row)
    BY <1>1, <2>2, <2>3 DEF Burial, Edit, MemRow
  <2>5. QED
    BY <2>3, <2>4
<1>3. CASE \E c \in Client, m \in Id, b \in BOOLEAN : mark_forgotten(c, m, b)
  <2>1. PICK c \in Client, m \in Id, b \in BOOLEAN : mark_forgotten(c, m, b)
    BY <1>3
  <2>2. PICK row : row = [mem[m] EXCEPT !.is_forgotten = TRUE]
    OBVIOUS
  <2>3. row \in MemRow /\ mem' = [mem EXCEPT ![m] = row]
    BY <1>0, <1>1, <2>1, <2>2 DEF mark_forgotten, MemRow
  <2>4. Burial(m, row)
    BY <1>1, <2>2, <2>3 DEF Burial, Edit, MemRow
  <2>5. QED
    BY <2>3, <2>4
<1>4. CASE \E m \in Id : mark_archived(m) \/ mark_unarchived(m)
  <2>1. PICK m \in Id, b \in BOOLEAN : SetArchived(m, b)
    BY <1>4 DEF mark_archived, mark_unarchived
  <2>2. PICK row : row = [mem[m] EXCEPT !.is_archived = b]
    OBVIOUS
  <2>3. row \in MemRow /\ mem' = [mem EXCEPT ![m] = row]
    BY <1>0, <1>1, <2>1, <2>2 DEF SetArchived, MemRow
  <2>4. Burial(m, row)
    BY <1>1, <2>2, <2>3 DEF Burial, Edit, MemRow
  <2>5. QED
    BY <2>3, <2>4
<1>5. CASE \E m \in Id : approve_memory(m)
  <2>1. PICK m \in Id : approve_memory(m)
    BY <1>5
  <2>2. PICK row : row = [mem[m] EXCEPT !.status = "approved"]
    OBVIOUS
  <2>3. row \in MemRow /\ mem' = [mem EXCEPT ![m] = row]
    BY <1>0, <1>1, <2>1, <2>2 DEF approve_memory, MemRow
  <2>4. mem[m].status = "pending" /\ m \in reviewed'
    BY <2>1 DEF approve_memory
  <2>5. Burial(m, row)
    BY <1>1, <2>2, <2>3, <2>4 DEF Burial, Edit, MemRow
  <2>6. QED
    BY <2>3, <2>5
<1>6. CASE \E m \in Id, x \in Content : edit_and_approve(m, x)
  <2>1. PICK m \in Id, x \in Content : edit_and_approve(m, x)
    BY <1>6
  <2>2. PICK row : row = [mem[m] EXCEPT !.status = "approved", !.content = x]
    OBVIOUS
  <2>3. row \in MemRow /\ mem' = [mem EXCEPT ![m] = row]
    BY <1>0, <1>1, <2>1, <2>2 DEF edit_and_approve, MemRow
  <2>4. mem[m].status = "pending" /\ m \in reviewed'
    BY <2>1 DEF edit_and_approve
  <2>5. Burial(m, row)
    BY <1>1, <2>2, <2>3, <2>4 DEF Burial, Edit, MemRow
  <2>6. QED
    BY <2>3, <2>5
<1>7. CASE \E c \in Client, m \in Id, b \in BOOLEAN : reject_memory(c, m, b)
  <2>1. PICK c \in Client, m \in Id, b \in BOOLEAN : reject_memory(c, m, b)
    BY <1>7
  <2>2. PICK row : row = [mem[m] EXCEPT !.status = "rejected", !.is_archived = TRUE]
    OBVIOUS
  <2>3. row \in MemRow /\ mem' = [mem EXCEPT ![m] = row]
    <3>1. row \in MemRow
      BY <1>1, <2>2 DEF MemRow
    <3>2. mem' = [mem EXCEPT ![m].status = "rejected", ![m].is_archived = TRUE]
      BY <2>1 DEF reject_memory
    <3>3. mem' = [mem EXCEPT ![m] = row]
      BY <1>0, <1>1, <2>2, <3>2 DEF MemRow
    <3>4. QED
      BY <3>1, <3>3
  <2>4. mem[m].status = "pending"
    BY <2>1 DEF reject_memory
  <2>5. Burial(m, row)
    BY <1>1, <2>2, <2>3, <2>4 DEF Burial, Edit, MemRow
  <2>6. QED
    BY <2>3, <2>5
<1>8. CASE \E c \in Client : update_forget_reason(c)
  <2>1. PICK c \in Client : update_forget_reason(c)
    BY <1>8
  <2>2. PICK m \in Id : m = req[c].id
    <3>1. PICK q \in Request : q = req[c] /\ Fits(q, Len(mem)) /\ q.pc = "reason"
      BY <2>1 DEF TablesOK, RequestsFit, update_forget_reason
    <3>2. q.id \in Nat /\ q.id # 0 /\ q.id <= Len(mem) /\ Len(mem) \in Nat
      BY <1>0, <3>1, MemoryAssumption DEF Fits, Request, NoId
    <3>3. q.id \in Id
      BY <1>0, <3>2
    <3>4. QED
      BY <3>1, <3>3
  <2>3. PICK row : row = [mem[m] EXCEPT !.user_deleted = FALSE]
    OBVIOUS
  <2>4. row \in MemRow /\ mem' = [mem EXCEPT ![m] = row]
    <3>1. row \in MemRow
      BY <1>1, <2>3 DEF MemRow
    <3>2. mem' = [mem EXCEPT ![m].user_deleted = FALSE]
      BY <2>1, <2>2 DEF update_forget_reason
    <3>3. mem' = [mem EXCEPT ![m] = row]
      BY <1>0, <1>1, <2>3, <3>2 DEF MemRow
    <3>4. QED
      BY <3>1, <3>3
  <2>5. Burial(m, row)
    BY <1>1, <2>3, <2>4 DEF Burial, Edit, MemRow
  <2>6. QED
    BY <2>4, <2>5
<1>9. QED
  BY <1>2, <1>3, <1>4, <1>5, <1>6, <1>7, <1>8

LEMMA Restored ==
    ASSUME TablesOK, NEW c \in Client, NEW m \in Id, restore(c, m)
    PROVE  \E row \in MemRow : Edit(m, row)
<1>1. mem \in Seq(MemRow) /\ Id = 1..Len(mem) /\ mem[m] \in MemRow
  BY DEF TablesOK, Id
<1>2. PICK row : row = [mem[m] EXCEPT !.is_forgotten = FALSE, !.user_deleted = FALSE]
  OBVIOUS
<1>3. row \in MemRow /\ mem' = [mem EXCEPT ![m] = row]
  BY <1>1, <1>2 DEF restore, MemRow
<1>4. Edit(m, row)
  BY <1>1, <1>2, <1>3 DEF Edit, MemRow
<1>5. QED
  BY <1>3, <1>4

\* A version is added under the latest one of a chain, or starts a chain.
Addition(p, row) ==
    /\ mem' = Supersede(p, row) /\ Len(mem) < MaxMem
    /\ row.parent = p /\ row.is_latest
    /\ p = NoId => row.root = NoId
    /\ p # NoId => mem[p].is_latest /\ row.root = RootOf(p)

LEMMA StoreAdds ==
    ASSUME TablesOK, NEW c \in Client, NEW st \in {"pending", "approved"},
           store_transactional(c, st)
    PROVE  \/ mem' = mem /\ req' = [req EXCEPT ![c] = NoRequest]
           \/ /\ req' = [req EXCEPT ![c] = [NoRequest EXCEPT !.pc = "insert", !.new = Len(mem) + 1]]
              /\ \E p \in 0..Len(mem), row \in MemRow : Addition(p, row) /\ ~row.via_update
<1>0. /\ mem \in Seq(MemRow) /\ Id = 1..Len(mem) /\ Len(mem) \in Nat /\ Len(mem) <= MaxMem
      /\ \A m \in Id : mem[m] \in MemRow
  BY DEF TablesOK, Id
<1>1. PICK p \in 0..Len(mem) : p = req[c].id
  <2>1. PICK q \in Request : q = req[c] /\ Fits(q, Len(mem))
    BY DEF TablesOK, RequestsFit
  <2>2. q.id \in 0..Len(mem)
    BY <1>0, <2>1, MemoryAssumption DEF Fits, Request
  <2>3. QED
    BY <2>1, <2>2
<1>2. PICK x \in Content : x = req[c].content
  BY DEF TablesOK, Request
<1>3. CASE ~MayStore(p)
  BY <1>1, <1>3 DEF store_transactional
<1>4. CASE MayStore(p)
  <2>1. PICK root : root = IF p = NoId THEN NoId ELSE RootOf(p)
    OBVIOUS
  <2>2. root \in 0..MaxMem
    <3>1. CASE p = NoId
      BY <2>1, <3>1, MemoryAssumption DEF NoId
    <3>2. CASE p # NoId
      <4>1. p \in Id /\ mem[p].root \in 0..MaxMem /\ p \in 0..MaxMem
        BY <1>0, <3>2, MemoryAssumption DEF NoId, MemRow
      <4>2. QED
        BY <2>1, <3>2, <4>1 DEF RootOf
    <3>3. QED
      BY <3>1, <3>2
  <2>3. PICK row : row = [NoRow EXCEPT !.content = x, !.parent = p, !.root = root,
                                       !.is_latest = TRUE, !.status = st]
    OBVIOUS
  <2>4. row \in MemRow
    <3>1. p \in 0..MaxMem
      BY <1>0, MemoryAssumption
    <3>2. QED
      BY <2>2, <2>3, <3>1, NoRowIsRow DEF MemRow
  <2>5. /\ mem' = Supersede(p, row) /\ Len(mem) < MaxMem
        /\ req' = [req EXCEPT ![c] = [NoRequest EXCEPT !.pc = "insert", !.new = Len(mem) + 1]]
    BY <1>1, <1>2, <1>4, <2>1, <2>3 DEF store_transactional
  <2>6. row.parent = p /\ row.is_latest /\ row.root = root /\ ~row.via_update
    BY <2>3, NoRowIsRow DEF MemRow
  <2>7. Addition(p, row)
    BY <1>4, <2>1, <2>5, <2>6 DEF Addition, MayStore
  <2>8. QED
    BY <2>4, <2>5, <2>6, <2>7
<1>5. QED
  BY <1>3, <1>4

LEMMA UpdateAdds ==
    ASSUME TablesOK, NEW c \in Client, NEW x \in Content, update_transactional(c, x)
    PROVE  \/ mem' = mem /\ req' = [req EXCEPT ![c] = NoRequest]
           \/ /\ req' = [req EXCEPT ![c] = [NoRequest EXCEPT !.pc = "insert", !.id = req[c].id,
                                                             !.new = Len(mem) + 1]]
              /\ \E row \in MemRow : /\ Addition(req[c].id, row)
                                     /\ row.status = req[c].old.status
              /\ req[c].id \in Id
<1>0. /\ mem \in Seq(MemRow) /\ Id = 1..Len(mem) /\ Len(mem) \in Nat /\ Len(mem) <= MaxMem
      /\ \A m \in Id : mem[m] \in MemRow
  BY DEF TablesOK, Id
<1>1. PICK q \in Request : q = req[c] /\ Fits(q, Len(mem)) /\ q.pc = "update_tx"
  BY DEF TablesOK, RequestsFit, update_transactional
<1>2. q.id \in Id /\ q.id \in 0..MaxMem /\ q.old \in MemRow
  BY <1>0, <1>1, MemoryAssumption DEF Fits, Request, NoId
<1>3. CASE ~MayUpdate(q.id)
  BY <1>1, <1>3 DEF update_transactional
<1>4. CASE MayUpdate(q.id)
  <2>1. RootOf(q.id) \in 0..MaxMem
    BY <1>0, <1>2 DEF RootOf, MemRow
  <2>2. PICK row : row = [q.old EXCEPT !.content = x, !.parent = q.id, !.root = RootOf(q.id),
                                       !.is_latest = TRUE, !.via_update = TRUE]
    OBVIOUS
  <2>3. row \in MemRow
    BY <1>2, <2>1, <2>2 DEF MemRow
  <2>4. /\ mem' = Supersede(q.id, row) /\ Len(mem) < MaxMem
        /\ req' = [req EXCEPT ![c] = [NoRequest EXCEPT !.pc = "insert", !.id = q.id,
                                                       !.new = Len(mem) + 1]]
    BY <1>1, <1>4, <2>2 DEF update_transactional, NewVersion
  <2>5. /\ row.parent = q.id /\ row.is_latest /\ row.root = RootOf(q.id)
        /\ row.status = q.old.status
    BY <1>2, <2>2 DEF MemRow
  <2>6. Addition(q.id, row)
    <3>1. q.id # NoId
      BY <1>0, <1>2 DEF NoId
    <3>2. QED
      BY <1>4, <2>4, <2>5, <3>1 DEF Addition, MayUpdate
  <2>7. QED
    BY <1>1, <1>2, <2>3, <2>4, <2>5, <2>6
<1>5. QED
  BY <1>3, <1>4
-----------------------------------------------------------------------------
(* The tables stay well-formed. *)

LEMMA TablesInit == MemoryInit => TablesOK
<1> SUFFICES ASSUME MemoryInit PROVE TablesOK
  OBVIOUS
<1>1. mem \in Seq(MemRow) /\ Len(mem) = 0 /\ ledger \in Seq(LedgerRow) /\ Len(ledger) = 0
  <2>1. <<>> \in Seq(MemRow) /\ <<>> \in Seq(LedgerRow) /\ Len(<<>>) = 0
    OBVIOUS
  <2>2. QED
    BY <2>1 DEF MemoryInit
<1>2. req \in [Client -> Request] /\ \A c \in Client : req[c] = NoRequest
  BY NoRequestIsRequest DEF MemoryInit
<1>3. replay \in [Replayer -> Job] /\ \A r \in Replayer : replay[r] = NoReplay
  BY NoReplayIsJob DEF MemoryInit
<1>4. Fits(NoRequest, 0)
  BY NoRequestIsRequest DEF Fits
<1>5. RequestsFit /\ LedgerFits
  BY <1>1, <1>2, <1>3, <1>4, NoReplayIsJob DEF RequestsFit, LedgerFits
<1>6. requests \in 0..MaxRequests /\ mfaults \in 0..MaxFaults
  BY MemoryAssumption DEF MemoryInit
<1>7. QED
  BY <1>1, <1>2, <1>3, <1>5, <1>6, MemoryAssumption DEF TablesOK, MemoryInit

\* The spent bounds, and the races.
LEMMA Spent ==
    ASSUME TablesOK, NEW n \in Nat, n = Len(mem') PROVE
        /\ Arrives => requests' \in 0..MaxRequests
        /\ Fault => mfaults' \in 0..MaxFaults
        /\ UNCHANGED requests => requests' \in 0..MaxRequests
        /\ UNCHANGED mfaults => mfaults' \in 0..MaxFaults
        /\ (raced \subseteq 1..n /\ raced' = raced \cup Overlap') => raced' \subseteq 1..n
<1>1. requests \in 0..MaxRequests /\ mfaults \in 0..MaxFaults
  BY DEF TablesOK
<1>2. (raced \subseteq 1..n /\ raced' = raced \cup Overlap') => raced' \subseteq 1..n
  <2>1. Overlap' \subseteq 1..n
    BY DEF Overlap, Id
  <2>2. QED
    BY <2>1
<1>3. QED
  BY <1>1, <1>2, MemoryAssumption DEF Arrives, Fault

\* A step that changes memories and one request.
LEMMA RequestStep ==
    ASSUME TablesOK, NEW c \in Client, NEW q \in Request, Fits(q, Len(mem')),
           req' = [req EXCEPT ![c] = q], mem' \in Seq(MemRow),
           Len(mem) <= Len(mem'), Len(mem') <= MaxMem,
           index' \subseteq 1..Len(mem'), reviewed' \subseteq 1..Len(mem'),
           raced' \subseteq 1..Len(mem'), refused' = refused, ledger' = ledger, replay' = replay,
           requests' \in 0..MaxRequests, mfaults' \in 0..MaxFaults
    PROVE  TablesOK'
<1>1. Len(mem) \in Nat /\ Len(mem') \in Nat /\ refused \subseteq 1..Len(mem)
  BY DEF TablesOK, Id
<1>2. refused' \subseteq 1..Len(mem')
  BY <1>1
<1>3. /\ req' \in [Client -> Request]
      /\ \A d \in Client : req'[d] = req[d] \/ Fits(req'[d], Len(mem'))
  BY DEF TablesOK
<1>4. \A l \in 1..Len(ledger') : ledger'[l].mem <= Len(mem')
  <2>1. \A l \in 1..Len(ledger) : ledger[l].mem <= Len(mem) /\ ledger[l].mem \in Nat
    <3>1. \A l \in 1..Len(ledger) : ledger[l] \in LedgerRow
      BY DEF TablesOK
    <3>2. \A l \in 1..Len(ledger) : ledger[l].mem \in Nat
      BY <3>1, MemoryAssumption DEF LedgerRow
    <3>3. QED
      BY <3>2 DEF TablesOK, LedgerFits
  <2>2. QED
    BY <1>1, <2>1
<1>5. ledger' \in Seq(LedgerRow) /\ Len(ledger) <= Len(ledger') /\ replay' \in [Replayer -> Job]
  BY DEF TablesOK
<1>6. QED
  BY <1>2, <1>3, <1>4, <1>5, TablesKept

\* What a request that begins with its index work or its reason looks like.
Begun(pc, n, op, b) == [NoRequest EXCEPT !.pc = pc, !.id = n, !.op = op, !.reason = b]

LEMMA BegunFits ==
    ASSUME TablesOK, NEW n \in Id, NEW pc \in {"delete", "ledger", "reason"},
           NEW op \in {"insert", "delete"}, NEW b \in BOOLEAN
    PROVE  /\ Begun(pc, n, op, b) \in Request /\ Fits(Begun(pc, n, op, b), Len(mem))
           /\ Begun(pc, n, op, b).pc = pc /\ Begun(pc, n, op, b).id = n
           /\ Begun(pc, n, op, b).op = op /\ Begun(pc, n, op, b).new = NoId
<1>1. PICK q : q = Begun(pc, n, op, b)
  OBVIOUS
<1>2. n \in 0..MaxMem /\ n # 0 /\ n <= Len(mem) /\ Len(mem) \in Nat
  BY MemoryAssumption DEF TablesOK, Id
<1>3. q \in Request
  BY <1>1, <1>2, NoRequestIsRequest DEF Request, Begun
<1>4. q.id = n /\ q.new = 0 /\ q.pc = pc /\ q.op = op
  BY <1>1, NoRequestIsRequest DEF Request, Begun
<1>5. Fits(q, Len(mem))
  BY <1>2, <1>4 DEF Fits, Target, NoId
<1>6. QED
  BY <1>1, <1>3, <1>4, <1>5 DEF NoId

LEMMA TablesEdited ==
    ASSUME TablesOK, raced' = raced \cup Overlap',
           \/ \E c \in Client, m \in Id : delete(c, m) \/ restore(c, m)
           \/ \E c \in Client, m \in Id, b \in BOOLEAN : mark_forgotten(c, m, b)
           \/ \E m \in Id : mark_archived(m) \/ mark_unarchived(m) \/ approve_memory(m)
           \/ \E m \in Id, x \in Content : edit_and_approve(m, x)
           \/ \E c \in Client, m \in Id, b \in BOOLEAN : reject_memory(c, m, b)
           \/ \E c \in Client : update_forget_reason(c)
    PROVE  TablesOK'
<1>1. PICK m \in Id, row \in MemRow : Edit(m, row)
  BY Burials, Restored DEF Burial
<1>2. /\ mem \in Seq(MemRow) /\ Len(mem) \in Nat /\ Id = 1..Len(mem) /\ Len(mem) <= MaxMem
      /\ index \subseteq 1..Len(mem) /\ reviewed \subseteq 1..Len(mem) /\ raced \subseteq 1..Len(mem)
      /\ req \in [Client -> Request] /\ refused \subseteq 1..Len(mem)
      /\ \A c \in Client : Fits(req[c], Len(mem))
  BY DEF TablesOK, Id, RequestsFit
<1>3. mem' \in Seq(MemRow) /\ Len(mem') = Len(mem)
  BY <1>1, <1>2, RowReplaced DEF Edit
<1>4. ledger' = ledger /\ replay' = replay /\ index' = index /\ refused' = refused
  BY DEF delete, restore, mark_forgotten, mark_archived, mark_unarchived, SetArchived,
         approve_memory, edit_and_approve, reject_memory, update_forget_reason
<1>5. requests' \in 0..MaxRequests /\ mfaults' \in 0..MaxFaults /\ raced' \subseteq 1..Len(mem)
  <2>1. (Arrives \/ UNCHANGED requests) /\ UNCHANGED mfaults
    BY DEF delete, restore, mark_forgotten, mark_archived, mark_unarchived, SetArchived,
           approve_memory, edit_and_approve, reject_memory, update_forget_reason, Arrives
  <2>2. QED
    BY <1>2, <1>3, <2>1, Spent
<1>6. reviewed' \subseteq 1..Len(mem)
  BY <1>2 DEF delete, restore, mark_forgotten, mark_archived, mark_unarchived, SetArchived,
         approve_memory, edit_and_approve, reject_memory, update_forget_reason
<1>7. CASE req' = req
  <2>1. \A l \in 1..Len(ledger') : ledger'[l].mem <= Len(mem')
    BY <1>3, <1>4 DEF TablesOK, LedgerFits
  <2>2. ledger' \in Seq(LedgerRow) /\ Len(ledger) <= Len(ledger') /\ replay' \in [Replayer -> Job]
    BY <1>4 DEF TablesOK
  <2>3. req' \in [Client -> Request] /\ Len(mem) <= Len(mem') /\ Len(mem') <= MaxMem
    BY <1>2, <1>3, <1>7
  <2>4. QED
    BY <1>2, <1>3, <1>4, <1>5, <1>6, <1>7, <2>1, <2>2, <2>3, TablesKept
<1>8. CASE \E c \in Client : \E q \in Request : req' = [req EXCEPT ![c] = q] /\ Fits(q, Len(mem))
  <2>1. PICK c \in Client, q \in Request : req' = [req EXCEPT ![c] = q] /\ Fits(q, Len(mem))
    BY <1>8
  <2>2. /\ Fits(q, Len(mem')) /\ Len(mem) <= Len(mem') /\ Len(mem') <= MaxMem
        /\ index' \subseteq 1..Len(mem') /\ reviewed' \subseteq 1..Len(mem')
        /\ raced' \subseteq 1..Len(mem')
    BY <1>2, <1>3, <1>4, <1>5, <1>6, <2>1
  <2>3. QED
    BY <1>3, <1>4, <1>5, <2>1, <2>2, RequestStep
<1>10. CASE req' # req
  <2>1. CASE \E c \in Client : update_forget_reason(c)
    <3>1. Fits(NoRequest, Len(mem))
      BY <1>2, NoRequestIsRequest DEF Fits
    <3>2. QED
      BY <1>8, <2>1, <3>1, NoRequestIsRequest DEF update_forget_reason
  <2>2. CASE \E c \in Client, n \in Id, b \in BOOLEAN : reject_memory(c, n, b)
    <3>1. PICK c \in Client, n \in Id : req' = [req EXCEPT ![c] = [NoRequest EXCEPT !.pc = "reason", !.id = n]]
      BY <1>10, <2>2 DEF reject_memory
    <3>2. [NoRequest EXCEPT !.pc = "reason", !.id = n] =
              Begun("reason", n, "insert", FALSE)
      BY NoRequestIsRequest DEF Request, Begun
    <3>3. Begun("reason", n, "insert", FALSE) \in Request /\ Fits(Begun("reason", n, "insert", FALSE), Len(mem))
      BY BegunFits
    <3>4. \E q \in Request : req' = [req EXCEPT ![c] = q] /\ Fits(q, Len(mem))
      BY <3>1, <3>2, <3>3
    <3>5. QED
      BY <1>8, <3>4
  <2>3. CASE \E c \in Client, n \in Id : \E pc \in {"delete", "ledger"}, op \in {"insert", "delete"}, b \in BOOLEAN :
                 Begin(c, n, pc, op, b)
    <3>1. PICK c \in Client, n \in Id, pc \in {"delete", "ledger"}, op \in {"insert", "delete"},
               b \in BOOLEAN : Begin(c, n, pc, op, b)
      BY <2>3
    <3>2. req' = [req EXCEPT ![c] = Begun(pc, n, op, b)]
      BY <3>1 DEF Begin, Begun
    <3>3. Begun(pc, n, op, b) \in Request /\ Fits(Begun(pc, n, op, b), Len(mem))
      BY BegunFits
    <3>4. QED
      BY <1>8, <3>2, <3>3
  <2>4. QED
    BY <1>10, <2>1, <2>2, <2>3 DEF delete, restore, mark_forgotten, mark_archived, mark_unarchived,
       SetArchived, approve_memory, edit_and_approve
<1>11. QED
  BY <1>7, <1>10

\* Steps of a request that leave memories and ledger as they are.
LEMMA TablesRequest ==
    ASSUME TablesOK, raced' = raced \cup Overlap', NEW c \in Client,
           \/ \E x \in Content, m \in 0..Len(mem) : store(c, x, m)
           \/ \E m \in Id : update(c, m)
           \/ index_insert(c) \/ index_delete(c) \/ index_error(c)
    PROVE  TablesOK'
<1>0. /\ mem \in Seq(MemRow) /\ Len(mem) \in Nat /\ Id = 1..Len(mem) /\ Len(mem) <= MaxMem
      /\ index \subseteq 1..Len(mem) /\ reviewed \subseteq 1..Len(mem) /\ raced \subseteq 1..Len(mem)
      /\ req \in [Client -> Request] /\ \A m \in Id : mem[m] \in MemRow
  BY DEF TablesOK, Id
<1>1. PICK k \in Request : k = req[c] /\ Fits(k, Len(mem))
  BY DEF TablesOK, RequestsFit
<1>2. mem' = mem /\ ledger' = ledger /\ replay' = replay /\ refused' = refused /\ reviewed' = reviewed
  BY DEF store, update, index_insert, index_delete, index_error
<1>3. requests' \in 0..MaxRequests /\ mfaults' \in 0..MaxFaults /\ raced' \subseteq 1..Len(mem)
  <2>1. (Arrives \/ UNCHANGED requests) /\ (Fault \/ UNCHANGED mfaults)
    BY DEF store, update, index_insert, index_delete, index_error, Arrives, Fault
  <2>2. QED
    BY <1>0, <1>2, <2>1, Spent
<1>4. index' \subseteq 1..Len(mem)
  <2>1. CASE index_insert(c)
    <3>1. k.new \in 1..Len(mem)
      BY <1>0, <1>1, <2>1, MemoryAssumption DEF index_insert, Fits, Request, NoId
    <3>2. QED
      BY <1>0, <1>1, <2>1, <3>1 DEF index_insert
  <2>2. CASE ~index_insert(c)
    BY <1>0, <2>2 DEF store, update, index_delete, index_error
  <2>3. QED
    BY <2>1, <2>2
<1>5. ASSUME NEW q \in Request, req' = [req EXCEPT ![c] = q], Fits(q, Len(mem)) PROVE TablesOK'
  <2>1. /\ mem' \in Seq(MemRow) /\ Len(mem) <= Len(mem') /\ Len(mem') <= MaxMem
        /\ index' \subseteq 1..Len(mem') /\ reviewed' \subseteq 1..Len(mem')
        /\ raced' \subseteq 1..Len(mem') /\ Fits(q, Len(mem'))
    BY <1>0, <1>2, <1>3, <1>4, <1>5
  <2>2. QED
    BY <1>2, <1>3, <1>5, <2>1, RequestStep
<1>6. NoRequest \in Request /\ Fits(NoRequest, Len(mem))
  BY <1>0, NoRequestIsRequest DEF Fits
<1>7. CASE \E x \in Content, m \in 0..Len(mem) : store(c, x, m)
  <2>1. PICK x \in Content, m \in 0..Len(mem) : store(c, x, m)
    BY <1>7
  <2>2. PICK q : q = [k EXCEPT !.pc = "store_tx", !.content = x, !.id = m]
    OBVIOUS
  <2>3. m \in 0..MaxMem
    BY <1>0, MemoryAssumption
  <2>4. q \in Request /\ q.pc = "store_tx" /\ q.id = m /\ q.new = k.new /\ (q.reason <=> k.reason)
    BY <1>1, <2>2, <2>3 DEF Request
  <2>5. Fits(q, Len(mem))
    <3>1. k.pc = "idle"
      BY <1>1, <2>1 DEF store
    <3>2. QED
      BY <1>0, <1>1, <2>4, <3>1 DEF Fits
  <2>6. req' = [req EXCEPT ![c] = q]
    BY <1>0, <1>1, <2>1, <2>2 DEF store
  <2>7. QED
    BY <1>5, <2>4, <2>5, <2>6
<1>8. CASE \E m \in Id : update(c, m)
  <2>1. PICK m \in Id : update(c, m)
    BY <1>8
  <2>2. PICK q : q = [k EXCEPT !.pc = "update_tx", !.id = m, !.old = mem[m]]
    OBVIOUS
  <2>3. m \in 0..MaxMem /\ m # 0 /\ m <= Len(mem)
    BY <1>0, MemoryAssumption
  <2>4. q \in Request /\ q.pc = "update_tx" /\ q.id = m /\ q.new = k.new /\ (q.reason <=> k.reason)
    BY <1>0, <1>1, <2>2, <2>3 DEF Request
  <2>5. Fits(q, Len(mem))
    <3>1. k.pc = "idle"
      BY <1>1, <2>1 DEF update
    <3>2. QED
      BY <1>0, <1>1, <2>3, <2>4, <3>1 DEF Fits, NoId
  <2>6. req' = [req EXCEPT ![c] = q]
    BY <1>0, <1>1, <2>1, <2>2 DEF update
  <2>7. QED
    BY <1>5, <2>4, <2>5, <2>6
<1>9. CASE index_insert(c)
  <2>1. CASE k.id = NoId
    BY <1>1, <1>5, <1>6, <1>9, <2>1 DEF index_insert
  <2>2. CASE k.id # NoId
    <3>1. PICK q : q = [k EXCEPT !.pc = "delete"]
      OBVIOUS
    <3>2. q \in Request /\ q.pc = "delete" /\ q.id = k.id /\ q.new = k.new
      BY <1>1, <3>1 DEF Request
    <3>3. Fits(q, Len(mem)) /\ req' = [req EXCEPT ![c] = q]
      BY <1>1, <1>9, <2>2, <3>1, <3>2 DEF Fits, index_insert
    <3>4. QED
      BY <1>5, <3>2, <3>3
  <2>3. QED
    BY <2>1, <2>2
<1>10. CASE index_delete(c)
  <2>1. CASE ~k.reason
    BY <1>1, <1>5, <1>6, <1>10, <2>1 DEF index_delete, AfterDelete
  <2>2. CASE k.reason
    <3>1. PICK q : q = [k EXCEPT !.pc = "reason"]
      OBVIOUS
    <3>2. q \in Request /\ q.pc = "reason" /\ q.id = k.id /\ q.new = k.new /\ k.pc = "delete"
      BY <1>1, <1>10, <3>1 DEF Request, index_delete
    <3>3. Fits(q, Len(mem)) /\ req' = [req EXCEPT ![c] = q]
      BY <1>1, <1>10, <2>2, <3>1, <3>2 DEF Fits, index_delete, AfterDelete
    <3>4. QED
      BY <1>5, <3>2, <3>3
  <2>3. QED
    BY <2>1, <2>2
<1>11. CASE index_error(c)
  <2>1. PICK q : q = [k EXCEPT !.op = k.pc, !.pc = "ledger"]
    OBVIOUS
  <2>2. k.pc \in {"insert", "delete"}
    BY <1>1, <1>11 DEF index_error
  <2>3. /\ q \in Request /\ q.pc = "ledger" /\ q.id = k.id /\ q.new = k.new /\ q.op = k.pc
        /\ (q.reason <=> k.reason)
    BY <1>1, <2>1, <2>2 DEF Request
  <2>4. Fits(q, Len(mem))
    BY <1>1, <2>2, <2>3 DEF Fits, Target
  <2>5. req' = [req EXCEPT ![c] = q]
    BY <1>0, <1>1, <1>11, <2>1 DEF index_error
  <2>6. QED
    BY <1>5, <2>3, <2>4, <2>5
<1>12. QED
  BY <1>7, <1>8, <1>9, <1>10, <1>11

\* A version is stored.
LEMMA TablesAdded ==
    ASSUME TablesOK, raced' = raced \cup Overlap', NEW c \in Client,
           \/ \E st \in {"pending", "approved"} : store_transactional(c, st)
           \/ \E x \in Content : update_transactional(c, x)
    PROVE  TablesOK'
<1>0. /\ mem \in Seq(MemRow) /\ Len(mem) \in Nat /\ Id = 1..Len(mem) /\ Len(mem) <= MaxMem
      /\ index \subseteq 1..Len(mem) /\ reviewed \subseteq 1..Len(mem) /\ raced \subseteq 1..Len(mem)
      /\ req \in [Client -> Request]
  BY DEF TablesOK, Id
<1>1. /\ ledger' = ledger /\ replay' = replay /\ refused' = refused /\ reviewed' = reviewed
      /\ index' = index /\ UNCHANGED <<requests, mfaults>>
  BY DEF store_transactional, update_transactional
<1>2. /\ requests' \in 0..MaxRequests /\ mfaults' \in 0..MaxFaults
  BY <1>1 DEF TablesOK
<1>3. \/ mem' = mem /\ req' = [req EXCEPT ![c] = NoRequest]
      \/ /\ \E p \in 0..Len(mem), row \in MemRow : Addition(p, row)
         /\ \E m \in 0..Len(mem) : req' = [req EXCEPT ![c] = [NoRequest EXCEPT !.pc = "insert", !.id = m,
                                                               !.new = Len(mem) + 1]]
  <2>1. CASE \E st \in {"pending", "approved"} : store_transactional(c, st)
    <3>1. [NoRequest EXCEPT !.pc = "insert", !.new = Len(mem) + 1] =
              [NoRequest EXCEPT !.pc = "insert", !.id = 0, !.new = Len(mem) + 1]
      BY NoRequestIsRequest DEF Request
    <3>2. 0 \in 0..Len(mem)
      BY <1>0
    <3>3. QED
      BY <2>1, <3>1, <3>2, StoreAdds
  <2>2. CASE \E x \in Content : update_transactional(c, x)
    <3>1. Id \subseteq 0..Len(mem)
      BY <1>0
    <3>2. QED
      BY <2>2, <3>1, UpdateAdds
  <2>3. QED
    BY <2>1, <2>2
<1>4. CASE mem' = mem /\ req' = [req EXCEPT ![c] = NoRequest]
  <2>1. NoRequest \in Request /\ Fits(NoRequest, Len(mem'))
    BY <1>0, <1>4, NoRequestIsRequest DEF Fits
  <2>2. raced' \subseteq 1..Len(mem')
    BY <1>0, <1>4, Spent
  <2>3. /\ mem' \in Seq(MemRow) /\ Len(mem) <= Len(mem') /\ Len(mem') <= MaxMem
        /\ index' \subseteq 1..Len(mem') /\ reviewed' \subseteq 1..Len(mem')
    BY <1>0, <1>1, <1>4
  <2>4. QED
    BY <1>1, <1>2, <1>4, <2>1, <2>2, <2>3, RequestStep
<1>5. CASE ~(mem' = mem /\ req' = [req EXCEPT ![c] = NoRequest])
  <2>1. PICK p \in 0..Len(mem), row \in MemRow : Addition(p, row)
    BY <1>3, <1>5
  <2>2. PICK m \in 0..Len(mem) : req' = [req EXCEPT ![c] = [NoRequest EXCEPT !.pc = "insert", !.id = m,
                                                             !.new = Len(mem) + 1]]
    BY <1>3, <1>5
  <2>3. mem' \in Seq(MemRow) /\ Len(mem') = Len(mem) + 1 /\ Len(mem') <= MaxMem
    BY <1>0, <2>1, RowAdded, MemoryAssumption DEF Addition
  <2>4. PICK q : q = [NoRequest EXCEPT !.pc = "insert", !.id = m, !.new = Len(mem) + 1]
    OBVIOUS
  <2>5. m \in 0..MaxMem /\ Len(mem) + 1 \in 0..MaxMem /\ m <= Len(mem')
    BY <1>0, <2>3, MemoryAssumption
  <2>6. q \in Request /\ q.pc = "insert" /\ q.id = m /\ q.new = Len(mem) + 1 /\ ~q.reason
    BY <2>4, <2>5, NoRequestIsRequest DEF Request
  <2>7. Fits(q, Len(mem'))
    BY <1>0, <2>3, <2>5, <2>6 DEF Fits, NoId
  <2>8. raced' \subseteq 1..Len(mem') /\ index' \subseteq 1..Len(mem') /\ reviewed' \subseteq 1..Len(mem')
    <3>1. 1..Len(mem) \subseteq 1..Len(mem')
      BY <1>0, <2>3
    <3>2. Overlap' \subseteq 1..Len(mem')
      BY DEF Overlap, Id
    <3>3. QED
      BY <1>0, <1>1, <3>1, <3>2
  <2>9. Len(mem) <= Len(mem')
    BY <1>0, <2>3
  <2>10. req' = [req EXCEPT ![c] = q]
    BY <2>2, <2>4
  <2>11. QED
    BY <1>1, <1>2, <2>3, <2>6, <2>7, <2>8, <2>9, <2>10, RequestStep
<1>6. QED
  BY <1>4, <1>5

LEMMA LedgerRows ==
    ASSUME TablesOK
    PROVE  /\ Len(ledger) \in Nat /\ \A l \in 1..Len(ledger) : ledger[l] \in LedgerRow
           /\ \A l \in 1..Len(ledger) : ledger[l].mem \in Id
<1>1. Len(ledger) \in Nat /\ \A l \in 1..Len(ledger) : ledger[l] \in LedgerRow
  BY DEF TablesOK
<1>2. \A l \in 1..Len(ledger) : ledger[l].mem \in 1..MaxMem /\ ledger[l].mem <= Len(mem)
  BY <1>1 DEF LedgerRow, TablesOK, LedgerFits
<1>3. Len(mem) \in Nat
  BY DEF TablesOK
<1>4. QED
  BY <1>1, <1>2, <1>3, MemoryAssumption DEF Id

\* The row a replay takes next is the first of those it has left.
LEMMA NextRow ==
    ASSUME TablesOK, NEW r \in Replayer, replay[r].todo # {}
    PROVE  /\ Min(replay[r].todo) \in replay[r].todo /\ Min(replay[r].todo) \in 1..Len(ledger)
           /\ \A l \in replay[r].todo : Min(replay[r].todo) <= l
<1>1. PICK S \in SUBSET Nat : S = replay[r].todo
  BY DEF TablesOK, Job
<1>2. PICK m \in S : \A y \in S : ~(<<y, m>> \in OpToRel(<, Nat))
  <2>1. S \subseteq Nat /\ S # {}
    BY <1>1
  <2>2. QED
    BY <2>1, WFMin, NatLessThanWellFounded, Zenon
<1>3. \A y \in S : ~(y < m)
  BY <1>1, <1>2 DEF OpToRel
<1>4. \A y \in S : m <= y
  BY <1>1, <1>3
<1>5. Min(S) \in S /\ \A y \in S : Min(S) <= y
  <2>1. \E x \in S : \A y \in S : x <= y
    BY <1>4
  <2>2. QED
    BY <2>1 DEF Min
<1>6. S \subseteq 1..Len(ledger)
  BY <1>1 DEF TablesOK, LedgerFits
<1>7. QED
  BY <1>1, <1>5, <1>6

\* A failed index write is put into the ledger.
LEMMA TablesRecorded ==
    ASSUME TablesOK, raced' = raced \cup Overlap', NEW c \in Client, record_vector_sync_failure(c)
    PROVE  TablesOK'
<1>0. /\ mem \in Seq(MemRow) /\ Len(mem) \in Nat /\ Id = 1..Len(mem) /\ Len(mem) <= MaxMem
      /\ index \subseteq 1..Len(mem) /\ reviewed \subseteq 1..Len(mem) /\ raced \subseteq 1..Len(mem)
      /\ refused \subseteq 1..Len(mem) /\ req \in [Client -> Request] /\ ledger \in Seq(LedgerRow)
      /\ replay \in [Replayer -> Job]
  BY DEF TablesOK, Id
<1>1. PICK k \in Request : k = req[c] /\ Fits(k, Len(mem)) /\ k.pc = "ledger"
  BY DEF TablesOK, RequestsFit, record_vector_sync_failure
<1>2. /\ UNCHANGED <<mem, index, replay, requests, mfaults, reviewed, refused>>
      /\ ledger' = Append(ledger, [mem |-> Target(k), op |-> k.op, done |-> FALSE])
      /\ req' = [req EXCEPT ![c] = AfterDelete(k)]
  BY <1>1 DEF record_vector_sync_failure
<1>3. Target(k) \in 1..MaxMem /\ Target(k) <= Len(mem)
  <2>1. Target(k) \in {k.id, k.new} /\ Target(k) # 0
    BY <1>1 DEF Target, Fits, NoId
  <2>2. k.id \in 0..MaxMem /\ k.new \in 0..MaxMem /\ k.id <= Len(mem) /\ k.new <= Len(mem)
    BY <1>1 DEF Fits, Request
  <2>3. QED
    BY <2>1, <2>2, MemoryAssumption
<1>4. PICK e \in LedgerRow : e = [mem |-> Target(k), op |-> k.op, done |-> FALSE]
  BY <1>1, <1>3 DEF LedgerRow, Request
<1>5. /\ ledger' \in Seq(LedgerRow) /\ Len(ledger') = Len(ledger) + 1 /\ Len(ledger) \in Nat
      /\ ledger'[Len(ledger) + 1] = e /\ \A l \in 1..Len(ledger) : ledger'[l] = ledger[l]
  BY <1>0, <1>2, <1>4
<1>6. \A l \in 1..Len(ledger') : ledger'[l].mem <= Len(mem')
  <2>1. e.mem <= Len(mem)
    BY <1>3, <1>4
  <2>2. \A l \in 1..Len(ledger) : ledger[l].mem <= Len(mem)
    BY DEF TablesOK, LedgerFits
  <2>3. \A l \in 1..Len(ledger') : l \in 1..Len(ledger) \/ l = Len(ledger) + 1
    BY <1>5
  <2>4. QED
    BY <1>2, <1>5, <2>1, <2>2, <2>3
<1>7. AfterDelete(k) \in Request /\ Fits(AfterDelete(k), Len(mem))
  <2>1. CASE k.reason
    <3>1. PICK q : q = [k EXCEPT !.pc = "reason"]
      OBVIOUS
    <3>2. q \in Request /\ q.pc = "reason" /\ q.id = k.id /\ q.new = k.new
      BY <1>1, <3>1 DEF Request
    <3>3. k.id # NoId
      BY <1>1, <2>1 DEF Fits
    <3>4. Fits(q, Len(mem)) /\ q = AfterDelete(k)
      BY <1>1, <2>1, <3>1, <3>2, <3>3 DEF Fits, AfterDelete
    <3>5. QED
      BY <3>2, <3>4
  <2>2. CASE ~k.reason
    BY <1>0, <2>2, NoRequestIsRequest DEF Fits, AfterDelete
  <2>3. QED
    BY <2>1, <2>2
<1>8. \A d \in Client : req'[d] = req[d] \/ Fits(req'[d], Len(mem'))
  <2>1. \A d \in Client : req'[d] = req[d] \/ req'[d] = AfterDelete(k)
    BY <1>0, <1>2
  <2>2. QED
    BY <1>2, <1>7, <2>1
<1>9. /\ req' \in [Client -> Request] /\ replay' \in [Replayer -> Job]
      /\ mem' \in Seq(MemRow) /\ Len(mem) <= Len(mem') /\ Len(mem') <= MaxMem
      /\ index' \subseteq 1..Len(mem') /\ reviewed' \subseteq 1..Len(mem')
      /\ refused' \subseteq 1..Len(mem')
      /\ requests' \in 0..MaxRequests /\ mfaults' \in 0..MaxFaults
  BY <1>0, <1>2, <1>7 DEF TablesOK
<1>10. raced' \subseteq 1..Len(mem')
  BY <1>0, <1>2 DEF Overlap, Id
<1>11. \A r \in Replayer : replay'[r] = replay[r]
  BY <1>2
<1>12. Len(ledger) <= Len(ledger')
  BY <1>5
<1>13. QED
  BY <1>5, <1>6, <1>8, <1>9, <1>10, <1>11, <1>12, TablesKept

\* A replay moves.
LEMMA TablesReplay ==
    ASSUME TablesOK, raced' = raced \cup Overlap', NEW r \in Replayer,
           \/ replay_vector_sync_pending(r) \/ replay_row(r) \/ replay_row_fails(r)
           \/ delete_pending_batch(r)
    PROVE  TablesOK'
<1>0. /\ mem \in Seq(MemRow) /\ Len(mem) \in Nat /\ Id = 1..Len(mem) /\ Len(mem) <= MaxMem
      /\ index \subseteq 1..Len(mem) /\ reviewed \subseteq 1..Len(mem) /\ raced \subseteq 1..Len(mem)
      /\ refused \subseteq 1..Len(mem) /\ req \in [Client -> Request] /\ ledger \in Seq(LedgerRow)
      /\ replay \in [Replayer -> Job] /\ Len(ledger) \in Nat
  BY DEF TablesOK, Id
<1>1. mem' = mem /\ req' = req /\ reviewed' = reviewed /\ requests' = requests
  BY DEF replay_vector_sync_pending, replay_row, replay_row_fails, delete_pending_batch
<1>2. mfaults' \in 0..MaxFaults
  <2>1. Fault \/ UNCHANGED mfaults
    BY DEF replay_vector_sync_pending, replay_row, replay_row_fails, delete_pending_batch
  <2>2. QED
    BY <2>1, MemoryAssumption DEF TablesOK, Fault
<1>3. PICK j \in Job : j = replay[r] /\ j.todo \cup j.clear \subseteq 1..Len(ledger)
  BY <1>0 DEF TablesOK, LedgerFits
<1>4. \A l \in 1..Len(ledger) : ledger[l] \in LedgerRow /\ ledger[l].mem \in 1..Len(mem)
  BY <1>0, LedgerRows
<1>5. index' \subseteq 1..Len(mem) /\ refused' \subseteq 1..Len(mem)
  <2>1. CASE replay_row(r)
    <3>1. Min(replay[r].todo) \in 1..Len(ledger)
      BY <2>1, NextRow DEF replay_row
    <3>2. QED
      BY <1>0, <1>4, <2>1, <3>1 DEF replay_row, Replayed
  <2>2. CASE replay_row_fails(r)
    <3>1. Min(replay[r].todo) \in 1..Len(ledger)
      BY <2>2, NextRow DEF replay_row_fails
    <3>2. QED
      BY <1>0, <1>4, <2>2, <3>1 DEF replay_row_fails
  <2>3. CASE replay_vector_sync_pending(r) \/ delete_pending_batch(r)
    BY <1>0, <2>3 DEF replay_vector_sync_pending, delete_pending_batch
  <2>4. QED
    BY <2>1, <2>2, <2>3
<1>6. /\ ledger' \in Seq(LedgerRow) /\ Len(ledger') = Len(ledger)
      /\ \A l \in 1..Len(ledger) : ledger'[l].mem = ledger[l].mem
  <2>1. CASE delete_pending_batch(r)
    <3>1. \A l \in 1..Len(ledger) : /\ [ledger[l] EXCEPT !.done = TRUE] \in LedgerRow
                                    /\ [ledger[l] EXCEPT !.done = TRUE].mem = ledger[l].mem
      BY <1>4 DEF LedgerRow
    <3>2. ledger' = [l \in 1..Len(ledger) |-> IF l \in j.clear THEN [ledger[l] EXCEPT !.done = TRUE]
                                              ELSE ledger[l]]
      BY <1>3, <2>1 DEF delete_pending_batch
    <3>3. ledger' \in [1..Len(ledger) -> LedgerRow]
      BY <1>4, <3>1, <3>2
    <3>4. ledger' \in Seq(LedgerRow) /\ Len(ledger') = Len(ledger)
      <4>1. PICK k \in Nat : k = Len(ledger)
        BY <1>0
      <4>2. ledger' \in [1..k -> LedgerRow]
        BY <3>3, <4>1
      <4>3. QED
        BY <4>1, <4>2
    <3>5. QED
      BY <3>1, <3>2, <3>4
  <2>2. CASE ~delete_pending_batch(r)
    BY <1>0, <2>2 DEF replay_vector_sync_pending, replay_row, replay_row_fails
  <2>3. QED
    BY <2>1, <2>2
<1>7. PICK i \in Job : replay' = [replay EXCEPT ![r] = i] /\ i.todo \cup i.clear \subseteq 1..Len(ledger)
  <2>1. CASE replay_vector_sync_pending(r)
    <3>1. PICK i : i = [pc |-> "run", todo |-> Oldest, clear |-> {}]
      OBVIOUS
    <3>2. Oldest \subseteq 1..Len(ledger) /\ Oldest \subseteq Nat
      BY <1>0 DEF Oldest, Pending
    <3>3. i \in Job /\ i.todo \cup i.clear \subseteq 1..Len(ledger)
      BY <3>1, <3>2 DEF Job
    <3>4. QED
      BY <2>1, <3>1, <3>3 DEF replay_vector_sync_pending
  <2>2. CASE replay_row(r)
    <3>1. PICK l : l = Min(replay[r].todo)
      OBVIOUS
    <3>2. l \in 1..Len(ledger) /\ l \in Nat
      BY <1>0, <2>2, <3>1, NextRow DEF replay_row
    <3>3. PICK i : i = [j EXCEPT !.todo = j.todo \ {l}, !.clear = j.clear \cup {l}]
      OBVIOUS
    <3>4. i \in Job /\ i.todo = j.todo \ {l} /\ i.clear = j.clear \cup {l}
      BY <3>2, <3>3 DEF Job
    <3>5. replay' = [replay EXCEPT ![r] = i]
      BY <1>0, <1>3, <2>2, <3>1, <3>3 DEF replay_row
    <3>6. QED
      BY <1>3, <3>2, <3>4, <3>5
  <2>3. CASE replay_row_fails(r)
    <3>1. PICK l : l = Min(replay[r].todo)
      OBVIOUS
    <3>2. PICK i : i = [j EXCEPT !.todo = j.todo \ {l}]
      OBVIOUS
    <3>3. i \in Job /\ i.todo = j.todo \ {l} /\ i.clear = j.clear
      BY <3>2 DEF Job
    <3>4. replay' = [replay EXCEPT ![r] = i]
      BY <1>0, <1>3, <2>3, <3>1, <3>2 DEF replay_row_fails
    <3>5. QED
      BY <1>3, <3>3, <3>4
  <2>4. CASE delete_pending_batch(r)
    BY <2>4, NoReplayIsJob DEF delete_pending_batch
  <2>5. QED
    BY <2>1, <2>2, <2>3, <2>4
<1>8. /\ req' \in [Client -> Request] /\ replay' \in [Replayer -> Job]
      /\ mem' \in Seq(MemRow) /\ Len(mem) <= Len(mem') /\ Len(mem') <= MaxMem
      /\ index' \subseteq 1..Len(mem') /\ reviewed' \subseteq 1..Len(mem')
      /\ refused' \subseteq 1..Len(mem') /\ requests' \in 0..MaxRequests
      /\ Len(ledger) <= Len(ledger')
  BY <1>0, <1>1, <1>5, <1>6, <1>7 DEF TablesOK
<1>9. raced' \subseteq 1..Len(mem')
  BY <1>0, <1>1 DEF Overlap, Id
<1>10. \A s \in Replayer : \/ replay'[s] = replay[s]
                           \/ replay'[s].todo \cup replay'[s].clear \subseteq 1..Len(ledger')
  BY <1>0, <1>6, <1>7
<1>11. \A d \in Client : req'[d] = req[d]
  BY <1>1
<1>12. \A l \in 1..Len(ledger') : ledger'[l].mem <= Len(mem')
  <2>1. \A l \in 1..Len(ledger) : ledger[l].mem <= Len(mem)
    BY <1>0, <1>4
  <2>2. QED
    BY <1>1, <1>6, <2>1
<1>13. QED
  BY <1>2, <1>6, <1>8, <1>9, <1>10, <1>11, <1>12, TablesKept

\* What a request touches exists.
LEMMA TouchedExists ==
    ASSUME TablesOK, NEW c \in Client
    PROVE  TouchedBy(req[c]) \subseteq Id
<1>1. PICK q \in Request : q = req[c] /\ Fits(q, Len(mem))
  BY DEF TablesOK, RequestsFit
<1>2. Len(mem) \in Nat
  BY DEF TablesOK
<1>3. q.id \in 0..Len(mem) /\ q.new \in 0..Len(mem)
  BY <1>1, <1>2, MemoryAssumption DEF Fits, Request
<1>4. QED
  BY <1>1, <1>2, <1>3 DEF TouchedBy, Id, NoId

\* A request, or all of them and the replays, are cut off.
LEMMA TablesLost ==
    ASSUME TablesOK, MemoryCrash \/ \E c \in Client : request_lost(c)
    PROVE  TablesOK'
<1>0. /\ mem \in Seq(MemRow) /\ Len(mem) \in Nat /\ Id = 1..Len(mem) /\ Len(mem) <= MaxMem
      /\ index \subseteq 1..Len(mem) /\ reviewed \subseteq 1..Len(mem) /\ raced \subseteq 1..Len(mem)
      /\ refused \subseteq 1..Len(mem) /\ req \in [Client -> Request] /\ ledger \in Seq(LedgerRow)
      /\ replay \in [Replayer -> Job] /\ Len(ledger) \in Nat
      /\ \A l \in 1..Len(ledger) : ledger[l].mem <= Len(mem)
  BY DEF TablesOK, Id, LedgerFits
<1>1. UNCHANGED <<mem, index, ledger, requests, reviewed, refused>> /\ Fault
  BY DEF MemoryCrash, request_lost
<1>2. mfaults' \in 0..MaxFaults
  BY <1>1, MemoryAssumption DEF TablesOK, Fault
<1>3. raced' \subseteq 1..Len(mem)
  <2>1. \A c \in Client : TouchedBy(req[c]) \subseteq 1..Len(mem)
    BY <1>0, TouchedExists
  <2>2. CASE MemoryCrash
    BY <1>0, <2>1, <2>2 DEF MemoryCrash
  <2>3. CASE \E c \in Client : request_lost(c)
    BY <1>0, <2>1, <2>3 DEF request_lost
  <2>4. QED
    BY <2>2, <2>3
<1>4. /\ req' \in [Client -> Request]
      /\ \A c \in Client : req'[c] = req[c] \/ req'[c] = NoRequest
  BY <1>0, NoRequestIsRequest DEF MemoryCrash, request_lost
<1>5. Fits(NoRequest, Len(mem'))
  BY <1>0, <1>1, NoRequestIsRequest DEF Fits
<1>6. /\ replay' \in [Replayer -> Job]
      /\ \A r \in Replayer : replay'[r] = replay[r] \/ replay'[r] = NoReplay
  BY <1>0, NoReplayIsJob DEF MemoryCrash, request_lost
<1>7. NoReplay.todo \cup NoReplay.clear \subseteq 1..Len(ledger')
  BY NoReplayIsJob
<1>8. /\ mem' \in Seq(MemRow) /\ Len(mem) <= Len(mem') /\ Len(mem') <= MaxMem
      /\ index' \subseteq 1..Len(mem') /\ reviewed' \subseteq 1..Len(mem')
      /\ refused' \subseteq 1..Len(mem') /\ raced' \subseteq 1..Len(mem')
      /\ requests' \in 0..MaxRequests /\ ledger' \in Seq(LedgerRow)
      /\ Len(ledger) <= Len(ledger')
      /\ \A l \in 1..Len(ledger') : ledger'[l].mem <= Len(mem')
  BY <1>0, <1>1, <1>3 DEF TablesOK
<1>9. /\ \A c \in Client : req'[c] = req[c] \/ Fits(req'[c], Len(mem'))
      /\ \A r \in Replayer : \/ replay'[r] = replay[r]
                             \/ replay'[r].todo \cup replay'[r].clear \subseteq 1..Len(ledger')
  BY <1>4, <1>5, <1>6, <1>7
<1>10. QED
  BY <1>2, <1>4, <1>6, <1>8, <1>9, TablesKept

LEMMA TablesPreserved ==
    ASSUME TablesOK, [MemoryNext]_memoryVars PROVE TablesOK'
<1>1. CASE UNCHANGED memoryVars
  BY <1>1 DEF memoryVars, TablesOK, Id, RequestsFit, LedgerFits
<1>2. CASE MemoryCrash \/ \E c \in Client : request_lost(c)
  BY <1>2, TablesLost
<1>3. CASE MemoryStep /\ raced' = raced \cup Overlap'
  <2>1. CASE \E c \in Client : \/ \E x \in Content, m \in 0..Len(mem) : store(c, x, m)
                               \/ \E m \in Id : update(c, m)
                               \/ index_insert(c) \/ index_delete(c) \/ index_error(c)
    BY <1>3, <2>1, TablesRequest
  <2>2. CASE \E c \in Client : \/ \E st \in {"pending", "approved"} : store_transactional(c, st)
                               \/ \E x \in Content : update_transactional(c, x)
    BY <1>3, <2>2, TablesAdded
  <2>3. CASE \E c \in Client : record_vector_sync_failure(c)
    BY <1>3, <2>3, TablesRecorded
  <2>4. CASE \E r \in Replayer : \/ replay_vector_sync_pending(r) \/ replay_row(r)
                                 \/ replay_row_fails(r) \/ delete_pending_batch(r)
    BY <1>3, <2>4, TablesReplay
  <2>5. CASE \/ \E c \in Client, m \in Id : delete(c, m) \/ restore(c, m)
             \/ \E c \in Client, m \in Id, b \in BOOLEAN : mark_forgotten(c, m, b)
             \/ \E m \in Id : mark_archived(m) \/ mark_unarchived(m) \/ approve_memory(m)
             \/ \E m \in Id, x \in Content : edit_and_approve(m, x)
             \/ \E c \in Client, m \in Id, b \in BOOLEAN : reject_memory(c, m, b)
             \/ \E c \in Client : update_forget_reason(c)
    BY <1>3, <2>5, TablesEdited
  <2>6. QED
    BY <1>3, <2>1, <2>2, <2>3, <2>4, <2>5, Zenon DEF MemoryStep
<1>4. QED
  BY <1>1, <1>2, <1>3 DEF MemoryNext

\* The tables, the requests in flight and the replays are well-formed in every reachable
\* state: memory/mod.rs and memory/vector_sync.rs name no row that does not exist.
THEOREM MemoryTypeCorrect == MemorySpec => []MemoryTypeOK
<1>1. TablesOK /\ [MemoryNext]_memoryVars => TablesOK'
  BY TablesPreserved
<1>2. TablesOK => MemoryTypeOK
  <2> SUFFICES ASSUME TablesOK PROVE MemoryTypeOK
    OBVIOUS
  <2>1. \A r \in Replayer : /\ replay[r].pc \in {"idle", "run"}
                            /\ replay[r].todo \subseteq 1..Len(ledger)
                            /\ replay[r].clear \subseteq 1..Len(ledger)
    BY DEF TablesOK, LedgerFits, Job
  <2>2. QED
    BY <2>1 DEF TablesOK, MemoryTypeOK
<1>3. QED
  BY <1>1, <1>2, TablesInit, PTL DEF MemorySpec
-----------------------------------------------------------------------------
(* Version chains and their review. *)

\* A row refers to earlier rows, and a version made by an update has a parent.
RefersBack ==
    \A m \in Id : /\ mem[m].parent < m /\ mem[m].root < m
                  /\ mem[m].via_update => mem[m].parent # NoId

\* A row that has a successor is not the latest.
SupersededOnce == \A m, n \in Id : mem[m].parent = n => ~mem[n].is_latest

ChainInv == TablesOK /\ RefersBack /\ SupersededOnce /\ ChainIsLinear

\* What an update read is as approved as the row still is.
ReadStaysApproved ==
    \A c \in Client : req[c].pc = "update_tx" /\ req[c].old.status = "approved" =>
        mem[req[c].id].status = "approved"

\* A version made by an update, or by a store, which does not pass for one.
Versioned(p, row) ==
    /\ Addition(p, row)
    /\ row.via_update =>
          /\ p \in Id
          /\ \E c \in Client : /\ req[c].pc = "update_tx" /\ p = req[c].id
                               /\ row.status = req[c].old.status

\* All that happens to the table of memories.
LEMMA TableMoves ==
    ASSUME TablesOK, [MemoryNext]_memoryVars
    PROVE  \/ mem' = mem
           \/ \E m \in Id, row \in MemRow : Edit(m, row)
           \/ \E p \in 0..Len(mem), row \in MemRow : Versioned(p, row)
<1>1. CASE \E c \in Client, st \in {"pending", "approved"} : store_transactional(c, st)
  BY <1>1, StoreAdds DEF Versioned
<1>2. CASE \E c \in Client, x \in Content : update_transactional(c, x)
  <2>1. PICK c \in Client, x \in Content : update_transactional(c, x)
    BY <1>2
  <2>2. req[c].pc = "update_tx"
    BY <2>1 DEF update_transactional
  <2>3. Id \subseteq 0..Len(mem)
    BY DEF TablesOK, Id
  <2>4. QED
    <3>1. CASE mem' = mem
      BY <3>1
    <3>2. CASE mem' # mem
      <4>1. PICK row \in MemRow : Addition(req[c].id, row) /\ row.status = req[c].old.status
        BY <2>1, <3>2, UpdateAdds
      <4>2. req[c].id \in Id
        BY <2>1, <3>2, UpdateAdds
      <4>3. Versioned(req[c].id, row)
        BY <2>2, <4>1, <4>2 DEF Versioned
      <4>4. QED
        BY <2>3, <4>2, <4>3
    <3>3. QED
      BY <3>1, <3>2
<1>3. CASE \E c \in Client, m \in Id : restore(c, m)
  BY <1>3, Restored
<1>4. CASE \/ \E c \in Client, m \in Id : delete(c, m)
           \/ \E c \in Client, m \in Id, b \in BOOLEAN : mark_forgotten(c, m, b)
           \/ \E m \in Id : mark_archived(m) \/ mark_unarchived(m) \/ approve_memory(m)
           \/ \E m \in Id, x \in Content : edit_and_approve(m, x)
           \/ \E c \in Client, m \in Id, b \in BOOLEAN : reject_memory(c, m, b)
           \/ \E c \in Client : update_forget_reason(c)
  BY <1>4, Burials DEF Burial
<1>5. CASE \/ UNCHANGED memoryVars \/ MemoryCrash \/ \E c \in Client : request_lost(c)
  BY <1>5 DEF memoryVars, MemoryCrash, request_lost
<1>6. CASE \E c \in Client : \/ \E x \in Content, m \in 0..Len(mem) : store(c, x, m)
                             \/ \E m \in Id : update(c, m)
                             \/ index_insert(c) \/ index_delete(c) \/ index_error(c)
                             \/ record_vector_sync_failure(c)
  BY <1>6 DEF store, update, index_insert, index_delete, index_error, record_vector_sync_failure
<1>7. CASE \E r \in Replayer : \/ replay_vector_sync_pending(r) \/ replay_row(r)
                               \/ replay_row_fails(r) \/ delete_pending_batch(r)
  BY <1>7 DEF replay_vector_sync_pending, replay_row, replay_row_fails, delete_pending_batch
<1>8. QED
  BY <1>1, <1>2, <1>3, <1>4, <1>5, <1>6, <1>7, Zenon DEF MemoryNext, MemoryStep

\* What the table looks like after an edit, and after an addition.
LEMMA Edited ==
    ASSUME TablesOK, NEW m \in Id, NEW row \in MemRow, Edit(m, row)
    PROVE  /\ Id' = Id
           /\ \A n \in Id : /\ mem'[n].parent = mem[n].parent /\ mem'[n].root = mem[n].root
                            /\ mem'[n].is_latest = mem[n].is_latest
                            /\ mem'[n].via_update = mem[n].via_update
                            /\ n # m => mem'[n] = mem[n]
           /\ mem'[m] = row
<1>1. mem \in Seq(MemRow) /\ Id = 1..Len(mem)
  BY DEF TablesOK, Id
<1>2. /\ Len(mem') = Len(mem)
      /\ \A n \in Id : mem'[n] = IF n = m THEN row ELSE mem[n]
  BY <1>1, RowReplaced DEF Edit
<1>3. QED
  BY <1>1, <1>2 DEF Edit, Id

LEMMA Added ==
    ASSUME TablesOK, NEW p \in 0..Len(mem), NEW row \in MemRow, Addition(p, row)
    PROVE  /\ Len(mem) \in Nat /\ Len(mem') = Len(mem) + 1 /\ Id' = Id \cup {Len(mem) + 1}
           /\ mem'[Len(mem) + 1] = row
           /\ \A n \in Id : /\ mem'[n].parent = mem[n].parent /\ mem'[n].root = mem[n].root
                            /\ mem'[n].status = mem[n].status
                            /\ mem'[n].via_update = mem[n].via_update
                            /\ mem'[n].is_forgotten = mem[n].is_forgotten
                            /\ mem'[n].is_latest = (mem[n].is_latest /\ n # p)
<1>1. mem \in Seq(MemRow) /\ Id = 1..Len(mem) /\ Len(mem) \in Nat
  BY DEF TablesOK, Id
<1>2. /\ Len(mem') = Len(mem) + 1 /\ mem'[Len(mem) + 1] = row
      /\ \A n \in Id : mem'[n] = IF n = p THEN [mem[n] EXCEPT !.is_latest = FALSE] ELSE mem[n]
  <2>1. mem' = Supersede(p, row)
    BY DEF Addition
  <2>2. /\ Supersede(p, row) \in Seq(MemRow) /\ Len(Supersede(p, row)) = Len(mem) + 1
        /\ Supersede(p, row)[Len(mem) + 1] = row
        /\ \A m \in Id : Supersede(p, row)[m] =
               IF m = p THEN [mem[m] EXCEPT !.is_latest = FALSE] ELSE mem[m]
    <3>1. mem \in Seq(MemRow)
      BY <1>1
    <3>2. QED
      BY <3>1, RowAdded
  <2>3. QED
    BY <2>1, <2>2
<1>3. Id' = Id \cup {Len(mem) + 1}
  BY <1>1, <1>2 DEF Id
<1>4. ASSUME NEW n \in Id
      PROVE  /\ mem'[n].parent = mem[n].parent /\ mem'[n].root = mem[n].root
             /\ mem'[n].status = mem[n].status
             /\ mem'[n].via_update = mem[n].via_update
             /\ mem'[n].is_forgotten = mem[n].is_forgotten
             /\ mem'[n].is_latest = (mem[n].is_latest /\ n # p)
  <2>1. PICK e \in MemRow : e = mem[n]
    BY <1>1
  <2>2. CASE n = p
    BY <1>2, <2>1, <2>2 DEF MemRow
  <2>3. CASE n # p
    BY <1>2, <2>1, <2>3 DEF MemRow
  <2>4. QED
    BY <2>2, <2>3
<1>5. QED
  BY <1>1, <1>2, <1>3, <1>4

\* The chains depend on three columns.
LEMMA SameChains ==
    ASSUME RefersBack, SupersededOnce, ChainIsLinear, Id' = Id,
           \A n \in Id : /\ mem'[n].parent = mem[n].parent /\ mem'[n].root = mem[n].root
                         /\ mem'[n].is_latest = mem[n].is_latest
                         /\ mem'[n].via_update = mem[n].via_update
    PROVE  RefersBack' /\ SupersededOnce' /\ ChainIsLinear'
<1>1. RefersBack' /\ SupersededOnce'
  BY DEF RefersBack, SupersededOnce
<1>2. \A n \in Id : RootOf(n)' = RootOf(n)
  BY DEF RootOf
<1>3. QED
  BY <1>1, <1>2 DEF ChainIsLinear

LEMMA ChainGrows ==
    ASSUME ChainInv, NEW p \in 0..Len(mem), NEW row \in MemRow, Versioned(p, row)
    PROVE  RefersBack' /\ SupersededOnce' /\ ChainIsLinear'
<1>1. PICK new : new = Len(mem) + 1
  OBVIOUS
<1>2. /\ Len(mem) \in Nat /\ Id' = Id \cup {new} /\ mem'[new] = row /\ Id = 1..Len(mem)
      /\ \A n \in Id : /\ mem'[n].parent = mem[n].parent /\ mem'[n].root = mem[n].root
                       /\ mem'[n].via_update = mem[n].via_update
                       /\ mem'[n].is_latest = (mem[n].is_latest /\ n # p)
  BY <1>1, Added DEF Versioned, ChainInv, Id
<1>3. new \in Nat /\ new \notin Id /\ \A n \in Id : n \in Nat /\ n < new /\ n # NoId
  BY <1>1, <1>2 DEF NoId
<1>4. /\ row.parent = p /\ row.is_latest /\ (p = NoId => row.root = NoId)
      /\ p # NoId => p \in Id /\ mem[p].is_latest /\ row.root = RootOf(p)
      /\ row.via_update => p # NoId
  BY <1>2 DEF Versioned, Addition, NoId
<1>5. \A n \in Id : /\ mem[n] \in MemRow /\ mem[n].parent \in Nat /\ mem[n].root \in Nat
                    /\ mem[n].parent < n /\ mem[n].root < n
                    /\ mem[n].via_update => mem[n].parent # NoId
  <2>1. \A n \in Id : mem[n] \in MemRow
    BY <1>2 DEF ChainInv, TablesOK
  <2>2. QED
    BY <2>1, MemoryAssumption DEF MemRow, ChainInv, RefersBack
<1>6. p \in Nat /\ p < new
  BY <1>1, <1>2
<1>7. \A n \in Id : RootOf(n) \in Nat /\ RootOf(n) <= n /\ RootOf(n) # NoId
  BY <1>3, <1>5 DEF RootOf, NoId
<1>8. RefersBack'
  <2> SUFFICES ASSUME NEW m \in Id \cup {new}
               PROVE  /\ mem'[m].parent < m /\ mem'[m].root < m
                      /\ mem'[m].via_update => mem'[m].parent # NoId
    BY <1>2 DEF RefersBack
  <2>1. CASE m \in Id
    BY <1>2, <1>5, <2>1
  <2>2. CASE m = new
    <3>1. row.root < new
      BY <1>3, <1>4, <1>6, <1>7 DEF NoId
    <3>2. QED
      BY <1>2, <1>4, <1>6, <2>2, <3>1
  <2>3. QED
    BY <2>1, <2>2
<1>9. SupersededOnce'
  <2> SUFFICES ASSUME NEW m \in Id \cup {new}, NEW n \in Id \cup {new}, mem'[m].parent = n
               PROVE  ~mem'[n].is_latest
    BY <1>2 DEF SupersededOnce
  <2>1. n # new
    BY <1>2, <1>3, <1>4, <1>5, <1>6
  <2>2. CASE m = new
    BY <1>2, <1>4, <2>1, <2>2
  <2>3. CASE m \in Id
    BY <1>2, <2>1, <2>3 DEF ChainInv, SupersededOnce
  <2>4. QED
    BY <2>2, <2>3
<1>10. \A n \in Id : RootOf(n)' = RootOf(n)
  BY <1>2 DEF RootOf
<1>11. RootOf(new)' = IF p = NoId THEN new ELSE RootOf(p)
  BY <1>2, <1>4, <1>7 DEF RootOf
<1>12. ASSUME NEW b \in Id
       PROVE  /\ mem'[new].parent = mem'[b].parent => mem'[b].parent = NoId
              /\ mem'[b].is_latest => RootOf(new)' # RootOf(b)'
  <2>1. mem'[new].parent = mem'[b].parent => mem'[b].parent = NoId
    BY <1>2, <1>4 DEF ChainInv, SupersededOnce
  <2>2. ASSUME mem'[b].is_latest PROVE RootOf(new)' # RootOf(b)'
    <3>1. CASE p = NoId
      BY <1>3, <1>7, <1>10, <1>11, <3>1
    <3>2. CASE p # NoId
      <4>1. p \in Id /\ b # p /\ mem[b].is_latest /\ mem[p].is_latest
        BY <1>2, <1>4, <2>2, <3>2
      <4>2. RootOf(b) # RootOf(p)
        BY <4>1 DEF ChainInv, ChainIsLinear
      <4>3. QED
        BY <1>10, <1>11, <3>2, <4>2
    <3>3. QED
      BY <3>1, <3>2
  <2>3. QED
    BY <2>1, <2>2
<1>13. ChainIsLinear'
  <2> SUFFICES ASSUME NEW a \in Id \cup {new}, NEW b \in Id \cup {new}, a # b
               PROVE  /\ mem'[a].parent = mem'[b].parent => mem'[a].parent = NoId
                      /\ mem'[a].is_latest /\ mem'[b].is_latest => RootOf(a)' # RootOf(b)'
    BY <1>2 DEF ChainIsLinear
  <2>1. CASE a = new
    BY <1>12, <2>1
  <2>2. CASE b = new
    BY <1>12, <2>2
  <2>3. CASE a \in Id /\ b \in Id
    <3>1. /\ mem[a].parent = mem[b].parent => mem[a].parent = NoId
          /\ mem[a].is_latest /\ mem[b].is_latest => RootOf(a) # RootOf(b)
      BY <2>3 DEF ChainInv, ChainIsLinear
    <3>2. QED
      BY <1>2, <1>10, <2>3, <3>1
  <2>4. QED
    BY <2>1, <2>2, <2>3
<1>14. QED
  BY <1>8, <1>9, <1>13

THEOREM ChainInvariant == MemorySpec => []ChainInv
<1>1. MemoryInit => ChainInv
  <2> SUFFICES ASSUME MemoryInit PROVE ChainInv
    OBVIOUS
  <2>1. Id = {}
    BY DEF MemoryInit, Id
  <2>2. QED
    BY <2>1, TablesInit DEF ChainInv, RefersBack, SupersededOnce, ChainIsLinear
<1>2. ChainInv /\ [MemoryNext]_memoryVars => ChainInv'
  <2> SUFFICES ASSUME ChainInv, [MemoryNext]_memoryVars PROVE ChainInv'
    OBVIOUS
  <2>1. TablesOK /\ TablesOK' /\ RefersBack /\ SupersededOnce /\ ChainIsLinear
    BY TablesPreserved DEF ChainInv
  <2>2. CASE mem' = mem
    BY <2>1, <2>2, SameChains DEF ChainInv, Id
  <2>3. CASE \E m \in Id, row \in MemRow : Edit(m, row)
    <3>1. /\ Id' = Id
          /\ \A n \in Id : /\ mem'[n].parent = mem[n].parent /\ mem'[n].root = mem[n].root
                           /\ mem'[n].is_latest = mem[n].is_latest
                           /\ mem'[n].via_update = mem[n].via_update
      BY <2>1, <2>3, Edited
    <3>2. QED
      BY <2>1, <3>1, SameChains DEF ChainInv
  <2>4. CASE \E p \in 0..Len(mem), row \in MemRow : Versioned(p, row)
    BY <2>1, <2>4, ChainGrows DEF ChainInv
  <2>5. QED
    BY <2>1, <2>2, <2>3, <2>4, TableMoves
<1>3. QED
  BY <1>1, <1>2, PTL DEF MemorySpec

\* Concurrent updates of a memory and stores under it never fork its version chain: the
\* flip of is_latest, in the transaction that adds the row, lets one of them through.
THEOREM ChainsAreLinear == MemorySpec => []ChainIsLinear
<1>1. ChainInv => ChainIsLinear
  BY DEF ChainInv
<1>2. QED
  BY <1>1, ChainInvariant, PTL

\* A sequence that has one element more than another.
LEMMA OneMore ==
    ASSUME NEW X, NEW n \in Nat, NEW s \in [1..n -> X], NEW t \in [1..(n + 1) -> X],
           \A i \in 1..n : t[i] = s[i]
    PROVE  t = Append(s, t[n + 1])
<1>1. s \in Seq(X) /\ Len(s) = n
  OBVIOUS
<1>2. t \in Seq(X) /\ Len(t) = n + 1 /\ t[n + 1] \in X
  OBVIOUS
<1>3. PICK a : a = Append(s, t[n + 1])
  OBVIOUS
<1>4. a \in Seq(X) /\ Len(a) = n + 1 /\ a[n + 1] = t[n + 1] /\ \A i \in 1..n : a[i] = s[i]
  BY <1>1, <1>2, <1>3
<1>5. \A i \in 1..(n + 1) : a[i] = t[i]
  <2> SUFFICES ASSUME NEW i \in 1..(n + 1) PROVE a[i] = t[i]
    OBVIOUS
  <2>1. i \in 1..n \/ i = n + 1
    OBVIOUS
  <2>2. QED
    BY <1>4, <2>1
<1>6. a = t
  BY <1>2, <1>4, <1>5
<1>7. QED
  BY <1>3, <1>6

\* The chains of the table, in this state and in the next.
LEMMA ChainsOf ==
    ASSUME TablesOK, TablesOK'
    PROVE  /\ Len(mem) \in Nat /\ Id = 1..Len(mem)
           /\ Parents \in [1..Len(mem) -> Nat] /\ Roots \in [1..Len(mem) -> Nat]
           /\ \A m \in Id : Parents[m] = mem[m].parent /\ Roots[m] = RootOf(m)
           /\ Len(Parents) = Len(mem)
           /\ Len(mem') \in Nat /\ Id' = 1..Len(mem')
           /\ Parents' \in [1..Len(mem') -> Nat] /\ Roots' \in [1..Len(mem') -> Nat]
           /\ \A m \in Id' : Parents'[m] = mem'[m].parent /\ Roots'[m] = RootOf(m)'
<1>1. /\ Len(mem) \in Nat /\ Id = 1..Len(mem) /\ Len(mem') \in Nat /\ Id' = 1..Len(mem')
      /\ \A m \in Id : mem[m] \in MemRow
      /\ \A m \in Id' : mem'[m] \in MemRow
  BY DEF TablesOK, Id
<1>2. \A m \in Id : mem[m].parent \in Nat /\ RootOf(m) \in Nat
  BY <1>1, MemoryAssumption DEF MemRow, RootOf
<1>3. \A m \in Id' : mem'[m].parent \in Nat /\ RootOf(m)' \in Nat
  BY <1>1, MemoryAssumption DEF MemRow, RootOf
<1>4. Parents \in [1..Len(mem) -> Nat] /\ Roots \in [1..Len(mem) -> Nat]
  BY <1>1, <1>2 DEF Parents, Roots
<1>5. Parents' \in [1..Len(mem') -> Nat] /\ Roots' \in [1..Len(mem') -> Nat]
  BY <1>1, <1>3 DEF Parents, Roots
<1>6. Len(Parents) = Len(mem)
  BY <1>1, <1>4
<1>7. QED
  BY <1>1, <1>4, <1>5, <1>6 DEF Parents, Roots

\* Every step is a step of VersionChains or changes nothing it can see.
LEMMA ChainsRefine ==
    ASSUME ChainInv, ChainInv', [MemoryNext]_memoryVars
    PROVE  [Chains!Next]_(Chains!vars)
<1>0. TablesOK /\ TablesOK'
  BY DEF ChainInv
\* No row is added, and no column of the chains is written.
<1>1. ASSUME Id' = Id,
             \A n \in Id : /\ mem'[n].parent = mem[n].parent /\ mem'[n].root = mem[n].root
                           /\ mem'[n].is_latest = mem[n].is_latest
      PROVE  [Chains!Next]_(Chains!vars)
  <2>1. \A n \in Id : RootOf(n)' = RootOf(n)
    BY <1>1 DEF RootOf
  <2>2. Parents' = Parents /\ Roots' = Roots /\ Heads' = Heads
    BY <1>1, <2>1 DEF Parents, Roots, Heads
  <2>3. QED
    BY <2>2 DEF Chains!vars
<1>2. ASSUME NEW p \in 0..Len(mem), NEW row \in MemRow, Addition(p, row)
      PROVE  Chains!Next
  <2>1. PICK new : new = Len(mem) + 1
    OBVIOUS
  <2>2. /\ Len(mem) \in Nat /\ Len(mem') = new /\ Id' = Id \cup {new} /\ Id = 1..Len(mem)
        /\ mem'[new] = row
        /\ \A n \in Id : /\ mem'[n].parent = mem[n].parent /\ mem'[n].root = mem[n].root
                         /\ mem'[n].is_latest = (mem[n].is_latest /\ n # p)
    BY <1>0, <1>2, <2>1, Added DEF Id
  <2>3. new \in Nat /\ new \notin Id
    BY <2>1, <2>2
  <2>4. /\ row.parent = p /\ row.is_latest /\ (p = NoId => row.root = NoId)
        /\ p # NoId => p \in Id /\ mem[p].is_latest /\ row.root = RootOf(p)
    BY <1>2, <2>2 DEF Addition, NoId
  <2>5. \A n \in Id : RootOf(n)' = RootOf(n)
    BY <2>2 DEF RootOf
  <2>6. RootOf(new)' = IF p = NoId THEN new ELSE RootOf(p)
    <3>1. p # NoId => RootOf(p) # NoId
      BY <2>2, <2>4 DEF RootOf
    <3>2. QED
      BY <2>2, <2>4, <3>1 DEF RootOf
  <2>7. /\ Parents \in [1..Len(mem) -> Nat] /\ Roots \in [1..Len(mem) -> Nat]
        /\ Parents' \in [1..(Len(mem) + 1) -> Nat] /\ Roots' \in [1..(Len(mem) + 1) -> Nat]
        /\ Len(Parents) + 1 = new
    BY <1>0, <2>1, <2>2, ChainsOf
  <2>8. /\ \A n \in 1..Len(mem) : Parents'[n] = Parents[n] /\ Roots'[n] = Roots[n]
        /\ Parents'[new] = p /\ Roots'[new] = RootOf(new)'
    <3>1. /\ \A n \in Id : Parents[n] = mem[n].parent /\ Roots[n] = RootOf(n)
          /\ \A n \in Id' : Parents'[n] = mem'[n].parent /\ Roots'[n] = RootOf(n)'
      BY <1>0, ChainsOf
    <3>2. QED
      BY <2>2, <2>4, <2>5, <3>1
  <2>9. Parents' = Append(Parents, Parents'[Len(mem) + 1])
    BY <2>2, <2>7, <2>8, OneMore
  <2>10. Roots' = Append(Roots, Roots'[Len(mem) + 1])
    BY <2>2, <2>7, <2>8, OneMore
  <2>11. Parents' = Append(Parents, p) /\ Roots' = Append(Roots, RootOf(new)')
    BY <2>1, <2>8, <2>9, <2>10
  <2>12. Heads' = (Heads \ {p}) \cup {new}
    <3>1. Heads' = {n \in Id \cup {new} : mem'[n].is_latest}
      BY <2>2 DEF Heads
    <3>2. \A n \in Id : n \in Heads <=> mem[n].is_latest
      BY DEF Heads
    <3>3. Heads \subseteq Id
      BY DEF Heads
    <3>4. QED
      BY <2>2, <2>3, <2>4, <3>1, <3>2, <3>3
  <2>13. CASE p = NoId
    <3>1. NoId \notin Heads
      BY <2>2 DEF Heads, NoId
    <3>2. Heads' = Heads \cup {new}
      BY <2>12, <2>13, <3>1
    <3>3. Parents' = Append(Parents, 0) /\ Roots' = Append(Roots, new)
      BY <2>6, <2>11, <2>13 DEF NoId
    <3>4. Chains!Start
      BY <2>7, <3>2, <3>3 DEF Chains!Start, Chains!New
    <3>5. QED
      BY <3>4 DEF Chains!Next
  <2>14. CASE p # NoId
    <3>1. p \in Heads
      BY <2>4, <2>14 DEF Heads
    <3>2. Roots' = Append(Roots, Roots[p])
      <4>1. Roots[p] = RootOf(p)
        BY <1>0, <2>4, <2>14, ChainsOf
      <4>2. QED
        BY <2>6, <2>11, <2>14, <4>1
    <3>3. Chains!Extend(p)
      BY <2>7, <2>11, <2>12, <3>1, <3>2 DEF Chains!Extend, Chains!New
    <3>4. QED
      BY <3>1, <3>3 DEF Chains!Next
  <2>15. QED
    BY <2>13, <2>14
<1>3. CASE mem' = mem
  BY <1>1, <1>3 DEF Id
<1>4. CASE \E m \in Id, row \in MemRow : Edit(m, row)
  BY <1>0, <1>1, <1>4, Edited
<1>5. CASE \E p \in 0..Len(mem), row \in MemRow : Versioned(p, row)
  BY <1>2, <1>5 DEF Versioned
<1>6. QED
  BY <1>0, <1>3, <1>4, <1>5, TableMoves

\* The table implements VersionChains, for any number of clients and replays: history is only
\* added to, and only after the newest version of a chain.
THEOREM RefinesVersionChains == MemorySpec => ImplementsVersionChains
<1>1. MemoryInit => Chains!Init
  <2> SUFFICES ASSUME MemoryInit PROVE Chains!Init
    OBVIOUS
  <2>1. mem = <<>> /\ Id = {}
    BY DEF MemoryInit, Id
  <2>2. Parents = <<>> /\ Roots = <<>> /\ Heads = {}
    BY <2>1 DEF Parents, Roots, Heads
  <2>3. QED
    BY <2>2 DEF Chains!Init
<1>2. ChainInv /\ ChainInv' /\ [MemoryNext]_memoryVars => [Chains!Next]_(Chains!vars)
  BY ChainsRefine
<1>3. QED
  BY <1>1, <1>2, ChainInvariant, PTL DEF MemorySpec, ImplementsVersionChains, Chains!Spec

\* What an update in flight has read is left alone, or was read in this step.
LEMMA ReadsMove ==
    ASSUME TablesOK, [MemoryNext]_memoryVars, NEW d \in Client, req'[d].pc = "update_tx"
    PROVE  \/ req'[d] = req[d]
           \/ mem' = mem /\ req'[d].id \in Id /\ req'[d].old = mem[req'[d].id]
<1>0. /\ req \in [Client -> Request] /\ req[d] \in Request
      /\ \A c \in Client : req[c] \in Request
  BY DEF TablesOK
<1>1. CASE \/ \E c \in Client, x \in Content, m \in 0..Len(mem) : store(c, x, m)
           \/ \E c \in Client : index_error(c)
  <2>1. CASE \E c \in Client, x \in Content, m \in 0..Len(mem) : store(c, x, m)
    BY <1>0, <2>1 DEF store, Request
  <2>2. CASE \E c \in Client : index_error(c)
    <3>1. PICK c \in Client : index_error(c)
      BY <2>2
    <3>2. PICK q : q = [req[c] EXCEPT !.op = req[c].pc]
      OBVIOUS
    <3>3. req' = [req EXCEPT ![c] = [q EXCEPT !.pc = "ledger"]]
      BY <1>0, <3>1, <3>2 DEF index_error
    <3>4. [q EXCEPT !.pc = "ledger"].pc = "ledger"
      BY <1>0, <3>2 DEF Request
    <3>5. QED
      BY <1>0, <3>3, <3>4
  <2>3. QED
    BY <1>1, <2>1, <2>2
<1>2. CASE \E c \in Client, m \in Id : update(c, m)
  BY <1>0, <1>2 DEF update, Request
<1>3. CASE \/ \E c \in Client, st \in {"pending", "approved"} : store_transactional(c, st)
           \/ \E c \in Client, x \in Content : update_transactional(c, x)
  <2>2. CASE \E c \in Client, st \in {"pending", "approved"} : store_transactional(c, st)
    <3>1. \/ req'[d] \in {req[d], NoRequest}
          \/ req'[d] = [NoRequest EXCEPT !.pc = "insert", !.new = Len(mem) + 1]
      BY <1>0, <2>2 DEF store_transactional
    <3>2. QED
      BY <3>1, NoRequestIsRequest DEF Request
  <2>3. CASE \E c \in Client, x \in Content : update_transactional(c, x)
    <3>1. PICK c \in Client, x \in Content : update_transactional(c, x)
      BY <2>3
    <3>2. \/ req'[d] \in {req[d], NoRequest}
          \/ req'[d] = [NoRequest EXCEPT !.pc = "insert", !.id = req[c].id, !.new = Len(mem) + 1]
      BY <1>0, <3>1 DEF update_transactional
    <3>3. QED
      BY <3>2, NoRequestIsRequest DEF Request
  <2>4. QED
    BY <1>3, <2>2, <2>3
<1>4. CASE \E c \in Client : \/ index_insert(c) \/ index_delete(c)
                             \/ record_vector_sync_failure(c) \/ update_forget_reason(c)
                             \/ request_lost(c)
  <2>1. PICK c \in Client : \/ index_insert(c) \/ index_delete(c)
                            \/ record_vector_sync_failure(c) \/ update_forget_reason(c)
                            \/ request_lost(c)
    BY <1>4
  <2>2. \/ req' = [req EXCEPT ![c] = NoRequest]
        \/ req' = [req EXCEPT ![c] = [req[c] EXCEPT !.pc = "delete"]]
        \/ req' = [req EXCEPT ![c] = [req[c] EXCEPT !.pc = "reason"]]
    BY <2>1 DEF index_insert, index_delete, record_vector_sync_failure, update_forget_reason,
                request_lost, AfterDelete
  <2>3. QED
    BY <1>0, <2>2, NoRequestIsRequest DEF Request
<1>5. CASE \/ \E c \in Client, m \in Id : delete(c, m) \/ restore(c, m)
           \/ \E c \in Client, m \in Id, b \in BOOLEAN : mark_forgotten(c, m, b)
           \/ \E c \in Client, m \in Id, b \in BOOLEAN : reject_memory(c, m, b)
  <2>2. CASE \E c \in Client, m \in Id, b \in BOOLEAN : reject_memory(c, m, b)
    <3>1. PICK c \in Client, m \in Id, b \in BOOLEAN : reject_memory(c, m, b)
      BY <2>2
    <3>2. req'[d] = req[d] \/ req'[d] = [NoRequest EXCEPT !.pc = "reason", !.id = m]
      BY <1>0, <3>1 DEF reject_memory
    <3>3. QED
      BY <3>2, NoRequestIsRequest DEF Request
  <2>3. ASSUME NEW c \in Client, NEW n, NEW pc \in {"delete", "ledger"}, NEW op, NEW b,
               Begin(c, n, pc, op, b)
        PROVE  req'[d] = req[d] \/ req'[d].pc \in {"delete", "ledger"}
    <3>1. \/ req'[d] = req[d]
          \/ req'[d] = [NoRequest EXCEPT !.pc = pc, !.id = n, !.op = op, !.reason = b]
      BY <1>0, <2>3 DEF Begin
    <3>2. QED
      BY <3>1, NoRequestIsRequest DEF Request
  <2>4. QED
    BY <1>5, <2>2, <2>3 DEF delete, restore, mark_forgotten
<1>6. CASE \/ \E m \in Id : mark_archived(m) \/ mark_unarchived(m) \/ approve_memory(m)
           \/ \E m \in Id, x \in Content : edit_and_approve(m, x)
           \/ \E r \in Replayer : \/ replay_vector_sync_pending(r) \/ replay_row(r)
                                  \/ replay_row_fails(r) \/ delete_pending_batch(r)
           \/ UNCHANGED memoryVars
  BY <1>6 DEF mark_archived, mark_unarchived, SetArchived, approve_memory, edit_and_approve,
     replay_vector_sync_pending, replay_row, replay_row_fails, delete_pending_batch, memoryVars
<1>7. CASE MemoryCrash
  BY <1>7, NoRequestIsRequest DEF MemoryCrash
<1>8. QED
  BY <1>1, <1>2, <1>3, <1>4, <1>5, <1>6, <1>7, Zenon DEF MemoryNext, MemoryStep

ReviewInv == ChainInv /\ ReadStaysApproved /\ ApprovedWasReviewed

\* No step takes an approval back, and none gives one but an inbox decision.
LEMMA ApprovalStays ==
    ASSUME ChainInv, [MemoryNext]_memoryVars
    PROVE  /\ Id \subseteq Id' /\ reviewed \subseteq reviewed'
           /\ \A n \in Id : /\ mem'[n].parent = mem[n].parent
                            /\ mem'[n].via_update = mem[n].via_update
                            /\ mem[n].status = "approved" => mem'[n].status = "approved"
                            /\ mem'[n].status = "approved" =>
                                  mem[n].status = "approved" \/ n \in reviewed'
<1>0. TablesOK
  BY DEF ChainInv
<1>1. reviewed \subseteq reviewed'
  BY Zenon DEF MemoryNext, MemoryStep, memoryVars, store, store_transactional, update,
     update_transactional, index_insert, index_delete, index_error, record_vector_sync_failure,
     update_forget_reason, delete, mark_forgotten, restore, mark_archived, mark_unarchived,
     SetArchived, approve_memory, edit_and_approve, reject_memory, replay_vector_sync_pending,
     replay_row, replay_row_fails, delete_pending_batch, request_lost, MemoryCrash
<1>2. CASE mem' = mem
  BY <1>1, <1>2 DEF Id
<1>3. CASE \E m \in Id, row \in MemRow : Edit(m, row)
  <2>1. PICK m \in Id, row \in MemRow : Edit(m, row)
    BY <1>3
  <2>2. /\ Id' = Id /\ mem'[m] = row
        /\ \A n \in Id : /\ mem'[n].parent = mem[n].parent
                         /\ mem'[n].via_update = mem[n].via_update
                         /\ n # m => mem'[n] = mem[n]
    BY <1>0, <2>1, Edited
  <2>3. \/ row.status = mem[m].status
        \/ mem[m].status = "pending" /\ row.status = "rejected"
        \/ mem[m].status = "pending" /\ m \in reviewed'
    BY <2>1 DEF Edit
  <2>4. QED
    BY <1>1, <2>2, <2>3
<1>4. CASE \E p \in 0..Len(mem), row \in MemRow : Versioned(p, row)
  <2>1. PICK p \in 0..Len(mem), row \in MemRow : Addition(p, row)
    BY <1>4 DEF Versioned
  <2>2. /\ Id \subseteq Id'
        /\ \A n \in Id : /\ mem'[n].parent = mem[n].parent
                         /\ mem'[n].via_update = mem[n].via_update
                         /\ mem'[n].status = mem[n].status
    BY <1>0, <2>1, Added
  <2>3. QED
    BY <1>1, <2>2
<1>5. QED
  BY <1>0, <1>2, <1>3, <1>4, TableMoves

LEMMA ReviewPreserved ==
    ASSUME ReviewInv, ChainInv', [MemoryNext]_memoryVars
    PROVE  ReadStaysApproved' /\ ApprovedWasReviewed'
<1>0. TablesOK /\ ChainInv /\ Id = 1..Len(mem) /\ mem \in Seq(MemRow)
  BY DEF ReviewInv, ChainInv, TablesOK, Id
<1>1. /\ Id \subseteq Id' /\ reviewed \subseteq reviewed'
      /\ \A n \in Id : /\ mem'[n].parent = mem[n].parent
                       /\ mem'[n].via_update = mem[n].via_update
                       /\ mem[n].status = "approved" => mem'[n].status = "approved"
                       /\ mem'[n].status = "approved" =>
                             mem[n].status = "approved" \/ n \in reviewed'
  BY <1>0, ApprovalStays
<1>2. ASSUME NEW c \in Client, req[c].pc = "update_tx" PROVE req[c].id \in Id
  <2>1. PICK q \in Request : q = req[c] /\ Fits(q, Len(mem)) /\ q.pc = "update_tx"
    BY <1>0, <1>2 DEF TablesOK, RequestsFit
  <2>2. q.id \in Id
    BY <1>0, <2>1, MemoryAssumption DEF Fits, Request, NoId
  <2>3. QED
    BY <2>1, <2>2
<1>3. ReadStaysApproved'
  <2> SUFFICES ASSUME NEW c \in Client, req'[c].pc = "update_tx", req'[c].old.status = "approved"
               PROVE  mem'[req'[c].id].status = "approved"
    BY DEF ReadStaysApproved
  <2>1. CASE req'[c] = req[c]
    BY <1>1, <1>2, <2>1 DEF ReviewInv, ReadStaysApproved
  <2>2. CASE mem' = mem /\ req'[c].id \in Id /\ req'[c].old = mem[req'[c].id]
    BY <2>2
  <2>3. QED
    BY <1>0, <2>1, <2>2, ReadsMove
<1>4. ASSUME NEW m \in Id, mem'[m].via_update, mem'[m].status = "approved"
      PROVE  mem'[mem'[m].parent].status = "approved" \/ m \in reviewed'
  <2>1. mem[m].via_update /\ mem'[m].parent = mem[m].parent
    BY <1>1, <1>4
  <2>2. mem[m].parent \in Id
    <3>1. mem[m] \in MemRow /\ mem[m].parent < m /\ mem[m].parent # 0
      BY <1>0, <2>1 DEF ChainInv, RefersBack, NoId
    <3>2. mem[m].parent \in Nat /\ m \in Nat /\ m <= Len(mem) /\ Len(mem) \in Nat
      BY <1>0, <3>1, MemoryAssumption DEF MemRow
    <3>3. QED
      BY <1>0, <3>1, <3>2
  <2>3. QED
    BY <1>1, <1>4, <2>1, <2>2 DEF ReviewInv, ApprovedWasReviewed
<1>5. ASSUME NEW m \in Id' \ Id, mem'[m].via_update, mem'[m].status = "approved"
      PROVE  mem'[mem'[m].parent].status = "approved"
  <2>1. mem' # mem /\ ~\E n \in Id, row \in MemRow : Edit(n, row)
    BY <1>0, <1>5, Edited DEF Id
  <2>2. PICK p \in 0..Len(mem), row \in MemRow : Versioned(p, row)
    BY <1>0, <2>1, TableMoves
  <2>3. mem'[m] = row
    BY <1>0, <1>5, <2>2, Added DEF Versioned
  <2>4. PICK c \in Client : /\ p \in Id /\ req[c].pc = "update_tx" /\ p = req[c].id
                            /\ row.status = req[c].old.status
    BY <1>5, <2>2, <2>3 DEF Versioned
  <2>5. mem[p].status = "approved"
    BY <1>5, <2>3, <2>4 DEF ReviewInv, ReadStaysApproved
  <2>6. row.parent = p
    BY <2>2 DEF Versioned, Addition
  <2>7. QED
    BY <1>1, <2>3, <2>4, <2>5, <2>6
<1>6. ApprovedWasReviewed'
  BY <1>4, <1>5 DEF ApprovedWasReviewed
<1>7. QED
  BY <1>3, <1>6

THEOREM ReviewInvariant == MemorySpec => []ReviewInv
<1>1. MemoryInit => ReadStaysApproved /\ ApprovedWasReviewed
  <2> SUFFICES ASSUME MemoryInit PROVE ReadStaysApproved /\ ApprovedWasReviewed
    OBVIOUS
  <2>1. Id = {} /\ \A c \in Client : req[c].pc = "idle"
    BY NoRequestIsRequest DEF MemoryInit, Id
  <2>2. QED
    BY <2>1 DEF ReadStaysApproved, ApprovedWasReviewed
<1>2. /\ ReadStaysApproved /\ ApprovedWasReviewed /\ ChainInv /\ ChainInv'
      /\ [MemoryNext]_memoryVars
      => ReadStaysApproved' /\ ApprovedWasReviewed'
  BY ReviewPreserved DEF ReviewInv
<1>3. ReviewInv <=> ChainInv /\ ReadStaysApproved /\ ApprovedWasReviewed
  BY DEF ReviewInv
<1>4. QED
  BY <1>1, <1>2, <1>3, ChainInvariant, PTL DEF MemorySpec

\* A version made by an update reads 'approved' only if its parent does or the inbox
\* approved it, whatever the update read and whatever happened before it committed.
THEOREM ApprovedOnlyByReview == MemorySpec => []ApprovedWasReviewed
<1>1. ReviewInv => ApprovedWasReviewed
  BY DEF ReviewInv
<1>2. QED
  BY <1>1, ReviewInvariant, PTL
-----------------------------------------------------------------------------
(* Vectors. *)

Sound(m) == m \notin raced \cup refused

\* What requests and replays on one memory do together is counted as a race.
OverlapIsRaced == Overlap \subseteq raced

\* A request on its way to delete the vector of its row.
Deletes(q) == q.pc \in {"insert", "delete"} \/ (q.pc = "ledger" /\ q.op = "delete")

\* A request about to queue the insert of m, or on its way to insert it.
Queues(q, m) == q.pc = "ledger" /\ q.op = "insert" /\ Target(q) = m

Inserts(q, m) == Queues(q, m) \/ (q.pc = "insert" /\ q.new = m)

\* A request that does not touch the index.
Silent(q) == q.pc \in {"idle", "store_tx", "update_tx", "reason"}

\* A request deletes the vector of a dead memory only.
DeletesDead == \A c \in Client : Deletes(req[c]) /\ req[c].id \in Id \ raced => ~Live(req[c].id)

\* A queued insert of m.
QueuedInsert(l, m) == l \in Pending /\ ledger[l].mem = m /\ ledger[l].op = "insert"

\* The vector of m is there or comes, by a request or a row of the ledger not in S.
Comes(m, S) ==
    \/ m \in index
    \/ \E c \in Client : Inserts(req[c], m)
    \/ \E l \in Pending \ S : QueuedInsert(l, m)

VectorComes == \A m \in Id : Sound(m) /\ Live(m) => Comes(m, {})

\* The queued insert of m, or the request that will queue it, after the row l.
Followed(l, m) ==
    \/ \E c \in Client : Queues(req[c], m)
    \/ \E k \in Pending : k > l /\ QueuedInsert(k, m)

\* A queued delete of a live memory has the insert of its restore behind it.
InsertFollows ==
    \A l \in Pending : LET m == ledger[l].mem IN
        ledger[l].op = "delete" /\ Sound(m) /\ Live(m) => Followed(l, m)

TakenRows(r) == replay[r].clear \cup replay[r].todo

\* A replay takes the rows in their order and, but for refused ones, leaves none behind.
InOrder ==
    \A r \in Replayer :
        /\ \A k \in replay[r].clear, l \in replay[r].todo : k < l
        /\ \A k \in TakenRows(r), l \in Pending : l < k /\ ledger[l].mem \notin refused => l \in TakenRows(r)

\* A row that another replay has deleted in the meantime was raced for.
TakenPending == \A r \in Replayer : \A l \in TakenRows(r) : l \in Pending \/ ledger[l].mem \in raced

\* What a replay is going to delete from the ledger is no longer needed there.
ReplayedWell ==
    \A r \in Replayer : \A k \in replay[r].clear :
        Sound(ledger[k].mem) /\ Live(ledger[k].mem) => Comes(ledger[k].mem, replay[r].clear)

VectorInv ==
    /\ TablesOK /\ OverlapIsRaced /\ DeletesDead /\ VectorComes /\ InsertFollows
    /\ InOrder /\ TakenPending /\ ReplayedWell

\* A step that leaves the ledger alone keeps the vectors if it keeps, for each sound
\* memory, what puts or leaves its vector in the index.
LEMMA LedgerAlone ==
    ASSUME VectorInv, TablesOK', OverlapIsRaced', DeletesDead',
           ledger' = ledger, raced \subseteq raced', refused \subseteq refused', Id \subseteq Id',
           \A r \in Replayer : replay'[r] = replay[r] \/ replay'[r] = NoReplay,
           \A m \in Id : Sound(m)' /\ Live(m)' => Live(m) \/ \E c \in Client : Queues(req'[c], m),
           \A m \in Id : Sound(m)' /\ Live(m)' /\ m \in index => m \in index',
           \A m \in Id, c \in Client : Sound(m)' /\ Inserts(req[c], m) =>
               m \in index' \/ \E d \in Client : Inserts(req'[d], m),
           \A m \in Id, c \in Client : Sound(m)' /\ Queues(req[c], m) =>
               \E d \in Client : Queues(req'[d], m),
           \A m \in Id' \ Id : \E c \in Client : Inserts(req'[c], m)
    PROVE  VectorInv'
<1>0. Pending' = Pending
  BY DEF Pending
<1>1. \A m \in Id : Sound(m)' => Sound(m)
  BY DEF Sound
<1>2. \A l, m : QueuedInsert(l, m)' <=> QueuedInsert(l, m)
  BY <1>0 DEF QueuedInsert
<1>3. \A l \in 1..Len(ledger) : ledger[l].mem \in Id
  BY LedgerRows DEF VectorInv
<1>4. ASSUME NEW S, NEW m \in Id, Sound(m)', Live(m)', Sound(m) /\ Live(m) => Comes(m, S)
      PROVE  Comes(m, S)'
  <2>1. CASE Live(m)
    <3>1. Comes(m, S)
      BY <1>1, <1>4, <2>1
    <3>2. CASE m \in index
      BY <1>4, <3>2 DEF Comes
    <3>3. CASE \E c \in Client : Inserts(req[c], m)
      BY <1>4, <3>3 DEF Comes
    <3>4. CASE \E l \in Pending \ S : QueuedInsert(l, m)
      BY <1>0, <1>2, <3>4 DEF Comes
    <3>5. QED
      BY <3>1, <3>2, <3>3, <3>4 DEF Comes
  <2>2. CASE ~Live(m)
    BY <1>4, <2>2 DEF Comes, Inserts
  <2>3. QED
    BY <2>1, <2>2
<1>5. VectorComes'
  <2> SUFFICES ASSUME NEW m \in Id', Sound(m)', Live(m)' PROVE Comes(m, {})'
    BY DEF VectorComes
  <2>1. CASE m \in Id
    BY <1>4, <2>1 DEF VectorInv, VectorComes
  <2>2. CASE m \notin Id
    BY <2>2 DEF Comes
  <2>3. QED
    BY <2>1, <2>2
<1>6. InsertFollows'
  <2> SUFFICES ASSUME NEW l \in Pending, NEW m, m = ledger[l].mem, ledger[l].op = "delete",
                      Sound(m)', Live(m)'
               PROVE  Followed(l, m)'
    BY <1>0 DEF InsertFollows
  <2>1. m \in Id
    BY <1>3 DEF Pending
  <2>2. CASE Live(m)
    <3>1. Followed(l, m)
      BY <1>1, <2>1, <2>2 DEF VectorInv, InsertFollows
    <3>2. CASE \E c \in Client : Queues(req[c], m)
      BY <2>1, <3>2 DEF Followed
    <3>3. CASE \E k \in Pending : k > l /\ QueuedInsert(k, m)
      BY <1>0, <1>2, <3>3 DEF Followed
    <3>4. QED
      BY <3>1, <3>2, <3>3 DEF Followed
  <2>3. CASE ~Live(m)
    BY <2>1, <2>3 DEF Followed
  <2>4. QED
    BY <2>2, <2>3
<1>7. \A r \in Replayer : /\ replay'[r].clear \in {replay[r].clear, {}}
                          /\ replay'[r] # replay[r] => TakenRows(r)' = {}
                          /\ replay'[r] = replay[r] => TakenRows(r)' = TakenRows(r)
  BY NoReplayIsJob DEF TakenRows
<1>8. InOrder'
  <2> SUFFICES ASSUME NEW r \in Replayer
               PROVE  /\ \A k \in replay'[r].clear, l \in replay'[r].todo : k < l
                      /\ \A k \in TakenRows(r)', l \in Pending :
                            l < k /\ ledger[l].mem \notin refused' => l \in TakenRows(r)'
    BY <1>0 DEF InOrder
  <2>1. CASE replay'[r] = replay[r]
    BY <1>7, <2>1 DEF VectorInv, InOrder
  <2>2. CASE replay'[r] = NoReplay
    BY <2>2, NoReplayIsJob DEF TakenRows
  <2>3. QED
    BY <2>1, <2>2
<1>9. TakenPending'
  BY <1>0, <1>7 DEF VectorInv, TakenPending
<1>10. ReplayedWell'
  <2> SUFFICES ASSUME NEW r \in Replayer, NEW k \in replay'[r].clear, NEW m, m = ledger[k].mem,
                      Sound(m)', Live(m)', NEW S, S = replay'[r].clear
               PROVE  Comes(m, S)'
    BY DEF ReplayedWell, Sound, Live, Comes, QueuedInsert
  <2>1. S = replay[r].clear
    BY <1>7
  <2>2. k \in 1..Len(ledger) /\ m \in Id
    BY <1>3, <2>1 DEF VectorInv, TablesOK, LedgerFits
  <2>3. Sound(m) /\ Live(m) => Comes(m, S)
    BY <2>1 DEF VectorInv, ReplayedWell
  <2>4. QED
    BY <1>4, <2>2, <2>3
<1>11. QED
  BY <1>5, <1>6, <1>8, <1>9, <1>10 DEF VectorInv

\* A silent request neither inserts nor deletes.
LEMMA SilentDoesNothing ==
    ASSUME NEW q, Silent(q)
    PROVE  ~Deletes(q) /\ \A m : ~Queues(q, m) /\ ~Inserts(q, m)
  BY DEF Silent, Deletes, Queues, Inserts

LEMMA InsertTouches ==
    ASSUME NEW q, NEW m, m # NoId, Inserts(q, m)
    PROVE  m \in TouchedBy(q)
  BY DEF Inserts, Queues, Target, TouchedBy

\* A step after which no other memory is alive, and no other request on its way to the
\* index but one that deletes the vector of a dead memory.
LEMMA QuietStep ==
    ASSUME VectorInv, TablesOK', OverlapIsRaced', raced \subseteq raced', index' = index,
           ledger' = ledger, replay' = replay, refused' = refused, Id' = Id,
           \A m \in Id : Live(m)' => Live(m),
           \A c \in Client : \/ req'[c] = req[c]
                             \/ Silent(req[c]) /\ Silent(req'[c])
                             \/ /\ Silent(req[c]) /\ req'[c].pc = "delete"
                                /\ ~Live(req[c].id)'
    PROVE  VectorInv'
<1>1. DeletesDead'
  <2> SUFFICES ASSUME NEW c \in Client, Deletes(req'[c]), NEW i, i = req'[c].id, i \in Id \ raced'
               PROVE  ~Live(i)'
    BY DEF DeletesDead, Live
  <2>1. CASE req'[c] = req[c]
    BY <2>1 DEF VectorInv, DeletesDead
  <2>2. CASE ~Live(req[c].id)'
    BY <2>2 DEF Live
  <2>3. QED
    BY <2>1, <2>2, SilentDoesNothing
<1>2. \A m, c : c \in Client /\ Inserts(req[c], m) => req'[c] = req[c]
  BY SilentDoesNothing
<1>3. \A m, c : c \in Client /\ Queues(req[c], m) => req'[c] = req[c]
  BY SilentDoesNothing
<1>4. \A m \in Id, c \in Client : Inserts(req[c], m) => \E d \in Client : Inserts(req'[d], m)
  BY <1>2
<1>5. \A m \in Id, c \in Client : Queues(req[c], m) => \E d \in Client : Queues(req'[d], m)
  BY <1>3
<1>6. QED
  BY <1>1, <1>4, <1>5, LedgerAlone

\* An edit that does not bring a memory back to life.
LEMMA BuriedStaysDead ==
    ASSUME TablesOK, NEW m \in Id, NEW row \in MemRow, Burial(m, row)
    PROVE  Id' = Id /\ mem'[m] = row /\ \A n \in Id : Live(n)' => Live(n)
<1>1. /\ Id' = Id /\ mem'[m] = row
      /\ \A n \in Id : mem'[n].is_latest = mem[n].is_latest /\ (n # m => mem'[n] = mem[n])
  BY Edited DEF Burial
<1>2. mem[m].is_forgotten => row.is_forgotten
  BY DEF Burial
<1>3. QED
  BY <1>1, <1>2 DEF Live

\* Edits of a memory, all but restore.
LEMMA VectorsBuried ==
    ASSUME VectorInv, TablesOK', raced' = raced \cup Overlap',
           \/ \E c \in Client, m \in Id : delete(c, m)
           \/ \E c \in Client, m \in Id, b \in BOOLEAN : mark_forgotten(c, m, b)
           \/ \E m \in Id : mark_archived(m) \/ mark_unarchived(m) \/ approve_memory(m)
           \/ \E m \in Id, x \in Content : edit_and_approve(m, x)
           \/ \E c \in Client, m \in Id, b \in BOOLEAN : reject_memory(c, m, b)
           \/ \E c \in Client : update_forget_reason(c)
    PROVE  VectorInv'
<1>0. TablesOK /\ OverlapIsRaced' /\ raced \subseteq raced' /\ req \in [Client -> Request]
  BY DEF VectorInv, OverlapIsRaced, TablesOK
<1>1. Id' = Id /\ \A n \in Id : Live(n)' => Live(n)
  BY <1>0, Burials, BuriedStaysDead
<1>2. index' = index /\ ledger' = ledger /\ replay' = replay /\ refused' = refused
  BY DEF delete, mark_forgotten, mark_archived, mark_unarchived, SetArchived, approve_memory,
         edit_and_approve, reject_memory, update_forget_reason
<1>3. ASSUME NEW c \in Client, NEW m \in Id, NEW b, req[c].pc = "idle",
             Begin(c, m, "delete", "delete", b), mem'[m].is_forgotten, NEW d \in Client
      PROVE  \/ req'[d] = req[d]
             \/ Silent(req[d]) /\ req'[d].pc = "delete" /\ ~Live(req[d].id)'
  <2>1. CASE d = c
    <3>1. req'[d] = [NoRequest EXCEPT !.pc = "delete", !.id = m, !.op = "delete", !.reason = b]
      BY <1>0, <1>3, <2>1 DEF Begin
    <3>2. req'[d].pc = "delete" /\ req'[d].id = m
      BY <3>1, NoRequestIsRequest DEF Request
    <3>3. QED
      BY <1>3, <2>1, <3>2 DEF Silent, Live
  <2>2. CASE d # c
    BY <1>0, <1>3, <2>2 DEF Begin
  <2>3. QED
    BY <2>1, <2>2
<1>4. ASSUME NEW d \in Client
      PROVE  \/ req'[d] = req[d]
             \/ Silent(req[d]) /\ Silent(req'[d])
             \/ Silent(req[d]) /\ req'[d].pc = "delete" /\ ~Live(req[d].id)'
  <2>1. CASE \E c \in Client, m \in Id : delete(c, m)
    <3>1. PICK c \in Client, m \in Id : delete(c, m)
      BY <2>1
    <3>2. mem'[m].is_forgotten
      BY <1>0, <3>1 DEF delete, TablesOK, Id, MemRow
    <3>3. QED
      BY <1>3, <3>1, <3>2 DEF delete
  <2>2. CASE \E c \in Client, m \in Id, b \in BOOLEAN : mark_forgotten(c, m, b)
    <3>1. PICK c \in Client, m \in Id, b \in BOOLEAN : mark_forgotten(c, m, b)
      BY <2>2
    <3>2. mem'[m].is_forgotten
      BY <1>0, <3>1 DEF mark_forgotten, TablesOK, Id, MemRow
    <3>3. QED
      BY <1>3, <3>1, <3>2 DEF mark_forgotten
  <2>3. CASE \E c \in Client, m \in Id, b \in BOOLEAN : reject_memory(c, m, b)
    <3>1. PICK c \in Client, m \in Id, b \in BOOLEAN : reject_memory(c, m, b)
      BY <2>3
    <3>2. \/ req'[d] = req[d]
          \/ req[d].pc = "idle" /\ req'[d] = [NoRequest EXCEPT !.pc = "reason", !.id = m]
      BY <1>0, <3>1 DEF reject_memory
    <3>3. QED
      BY <3>2, NoRequestIsRequest DEF Request, Silent
  <2>4. CASE \E c \in Client : update_forget_reason(c)
    <3>1. req'[d] = req[d] \/ (req[d].pc = "reason" /\ req'[d] = NoRequest)
      BY <1>0, <2>4 DEF update_forget_reason
    <3>2. QED
      BY <3>1, NoRequestIsRequest DEF Silent
  <2>5. CASE \/ \E m \in Id : mark_archived(m) \/ mark_unarchived(m) \/ approve_memory(m)
             \/ \E m \in Id, x \in Content : edit_and_approve(m, x)
    BY <2>5 DEF mark_archived, mark_unarchived, SetArchived, approve_memory, edit_and_approve
  <2>6. QED
    BY <2>1, <2>2, <2>3, <2>4, <2>5
<1>5. QED
  BY <1>0, <1>1, <1>2, <1>4, QuietStep

\* Requests on their way to their transaction, and transactions that are refused.
LEMMA VectorsAwaited ==
    ASSUME VectorInv, TablesOK', raced' = raced \cup Overlap', NEW c \in Client,
           \/ \E x \in Content, m \in 0..Len(mem) : store(c, x, m)
           \/ \E m \in Id : update(c, m)
           \/ /\ \/ \E st \in {"pending", "approved"} : store_transactional(c, st)
                 \/ \E x \in Content : update_transactional(c, x)
              /\ mem' = mem /\ req' = [req EXCEPT ![c] = NoRequest]
    PROVE  VectorInv'
<1>0. /\ TablesOK /\ OverlapIsRaced' /\ raced \subseteq raced'
      /\ req \in [Client -> Request] /\ req[c] \in Request
  BY DEF VectorInv, OverlapIsRaced, TablesOK
<1>1. /\ mem' = mem /\ index' = index /\ ledger' = ledger /\ replay' = replay
      /\ refused' = refused
  BY DEF store, update, store_transactional, update_transactional
<1>2. Silent(req[c])
  BY DEF store, update, store_transactional, update_transactional, Silent
<1>3. Silent(req'[c]) /\ \A d \in Client : d # c => req'[d] = req[d]
  <2>1. CASE \E x \in Content, m \in 0..Len(mem) : store(c, x, m)
    <3>1. PICK x \in Content, m \in 0..Len(mem) : store(c, x, m)
      BY <2>1
    <3>2. req'[c].pc = "store_tx"
      BY <1>0, <3>1 DEF store, Request
    <3>3. QED
      BY <1>0, <3>1, <3>2 DEF store, Silent
  <2>2. CASE \E m \in Id : update(c, m)
    <3>1. PICK m \in Id : update(c, m)
      BY <2>2
    <3>2. req'[c].pc = "update_tx"
      BY <1>0, <3>1 DEF update, Request
    <3>3. QED
      BY <1>0, <3>1, <3>2 DEF update, Silent
  <2>3. CASE req' = [req EXCEPT ![c] = NoRequest]
    BY <1>0, <2>3, NoRequestIsRequest DEF Silent
  <2>4. QED
    BY <2>1, <2>2, <2>3
<1>4. Id' = Id /\ \A m \in Id : Live(m)' => Live(m)
  BY <1>1 DEF Id, Live
<1>5. QED
  BY <1>0, <1>1, <1>2, <1>3, <1>4, QuietStep

\* A version is stored; its vector is inserted next.
LEMMA VectorsAdded ==
    ASSUME VectorInv, TablesOK', raced' = raced \cup Overlap', NEW c \in Client,
           index' = index, ledger' = ledger, replay' = replay, refused' = refused,
           Silent(req[c]), NEW p \in 0..Len(mem), NEW row \in MemRow, Addition(p, row),
           NEW q \in Request, req' = [req EXCEPT ![c] = q],
           q.pc = "insert", q.new = Len(mem) + 1, q.id \in {NoId, p}
    PROVE  VectorInv'
<1>0. /\ TablesOK /\ OverlapIsRaced' /\ raced \subseteq raced' /\ req \in [Client -> Request]
      /\ Len(mem) \in Nat /\ Id = 1..Len(mem)
  BY DEF VectorInv, OverlapIsRaced, TablesOK, Id
<1>1. PICK new : new = Len(mem) + 1
  OBVIOUS
<1>2. /\ Id' = Id \cup {new}
      /\ \A n \in Id : /\ mem'[n].is_forgotten = mem[n].is_forgotten
                       /\ mem'[n].is_latest = (mem[n].is_latest /\ n # p)
  BY <1>0, <1>1, Added
<1>3. \A n \in Id : Live(n)' => Live(n)
  BY <1>2 DEF Live
<1>4. req'[c] = q /\ \A d \in Client : d # c => req'[d] = req[d]
  BY <1>0
<1>5. DeletesDead'
  <2> SUFFICES ASSUME NEW d \in Client, Deletes(req'[d]), NEW i, i = req'[d].id, i \in Id' \ raced'
               PROVE  ~Live(i)'
    BY DEF DeletesDead, Live
  <2>1. CASE d = c
    <3>1. i # NoId /\ i # new
      BY <1>0, <1>1, <1>2, <1>4, <2>1 DEF NoId
    <3>2. i = p /\ i \in Id
      BY <1>2, <1>4, <2>1, <3>1
    <3>3. QED
      BY <1>2, <3>2 DEF Live
  <2>2. CASE d # c
    <3>1. PICK k \in Request : k = req[d] /\ Fits(k, Len(mem)) /\ k.id = i
      BY <1>0, <1>4, <2>2 DEF TablesOK, RequestsFit
    <3>2. i \in Id
      BY <1>0, <1>1, <1>2, <3>1 DEF Fits
    <3>3. ~Live(i)
      BY <1>0, <1>4, <2>2, <3>2 DEF VectorInv, DeletesDead
    <3>4. QED
      BY <1>3, <3>2, <3>3
  <2>3. QED
    BY <2>1, <2>2
<1>6. \A m, d : d \in Client /\ (Inserts(req[d], m) \/ Queues(req[d], m)) => req'[d] = req[d]
  BY <1>4, SilentDoesNothing
<1>7. /\ \A m \in Id, d \in Client : Inserts(req[d], m) => \E e \in Client : Inserts(req'[e], m)
      /\ \A m \in Id, d \in Client : Queues(req[d], m) => \E e \in Client : Queues(req'[e], m)
  BY <1>6
<1>8. \A m \in Id' \ Id : \E d \in Client : Inserts(req'[d], m)
  <2>1. Inserts(q, new)
    BY <1>1 DEF Inserts
  <2>2. QED
    BY <1>2, <1>4, <2>1
<1>9. Id \subseteq Id' /\ \A r \in Replayer : replay'[r] = replay[r]
  BY <1>2
<1>10. QED
  BY <1>0, <1>3, <1>5, <1>7, <1>8, <1>9, LedgerAlone

\* The index is written, or the write fails.
LEMMA VectorsWritten ==
    ASSUME VectorInv, TablesOK', raced' = raced \cup Overlap', NEW c \in Client,
           index_insert(c) \/ index_delete(c) \/ index_error(c)
    PROVE  VectorInv'
<1>0. /\ TablesOK /\ OverlapIsRaced' /\ raced \subseteq raced' /\ req \in [Client -> Request]
  BY DEF VectorInv, OverlapIsRaced, TablesOK
<1>1. PICK k \in Request : k = req[c] /\ Fits(k, Len(mem)) /\ k.pc \in {"insert", "delete"}
  BY <1>0 DEF TablesOK, RequestsFit, index_insert, index_delete, index_error
<1>2. mem' = mem /\ ledger' = ledger /\ replay' = replay /\ refused' = refused
  BY DEF index_insert, index_delete, index_error
<1>3. Id' = Id /\ (\A m \in Id : Live(m)' <=> Live(m)) /\ \A d \in Client : d # c => req'[d] = req[d]
  BY <1>0, <1>2 DEF Id, Live, index_insert, index_delete, index_error
<1>4. PICK q : /\ q = req'[c]
               /\ Deletes(q) => q.id = k.id
               /\ ~index_insert(c) => \A m \in Id : Inserts(k, m) => Inserts(q, m)
  <2>1. CASE index_insert(c)
    <3>1. req'[c] = NoRequest \/ req'[c] = [k EXCEPT !.pc = "delete"]
      BY <1>0, <1>1, <2>1 DEF index_insert
    <3>2. Silent(NoRequest) /\ [k EXCEPT !.pc = "delete"].id = k.id
      BY NoRequestIsRequest DEF Silent, Request
    <3>3. QED
      BY <2>1, <3>1, <3>2, SilentDoesNothing
  <2>2. CASE index_delete(c)
    <3>1. req'[c] = NoRequest \/ req'[c] = [k EXCEPT !.pc = "reason"]
      BY <1>0, <1>1, <2>2 DEF index_delete, AfterDelete
    <3>2. Silent(NoRequest) /\ Silent([k EXCEPT !.pc = "reason"])
      BY NoRequestIsRequest DEF Silent, Request
    <3>3. k.pc = "delete"
      BY <1>1, <2>2 DEF index_delete
    <3>4. \A m \in Id : ~Inserts(k, m)
      BY <3>3 DEF Inserts, Queues
    <3>5. QED
      BY <3>1, <3>2, <3>4, SilentDoesNothing
  <2>3. CASE index_error(c)
    <3>1. PICK e : e = [k EXCEPT !.op = k.pc]
      OBVIOUS
    <3>2. req'[c] = [e EXCEPT !.pc = "ledger"]
      BY <1>0, <1>1, <2>3, <3>1 DEF index_error
    <3>3. e \in Request /\ e.id = k.id /\ e.new = k.new /\ e.op = k.pc
      BY <1>1, <3>1 DEF Request
    <3>4. PICK q : q = req'[c]
      OBVIOUS
    <3>5. q.pc = "ledger" /\ q.id = k.id /\ q.new = k.new /\ q.op = k.pc
      BY <3>2, <3>3, <3>4 DEF Request
    <3>6. \A m \in Id : Inserts(k, m) => Inserts(q, m)
      BY <1>1, <3>5 DEF Inserts, Queues, Target, Fits
    <3>7. QED
      BY <3>4, <3>5, <3>6
  <2>4. QED
    BY <2>1, <2>2, <2>3
<1>5. Deletes(k)
  BY <1>1 DEF Deletes
<1>6. DeletesDead'
  <2> SUFFICES ASSUME NEW d \in Client, Deletes(req'[d]), NEW i, i = req'[d].id, i \in Id \ raced'
               PROVE  ~Live(i)'
    BY <1>3 DEF DeletesDead, Live
  <2>1. Deletes(req[d]) /\ req[d].id = i
    BY <1>1, <1>3, <1>4, <1>5
  <2>2. QED
    BY <1>0, <1>3, <2>1 DEF VectorInv, DeletesDead
<1>7. \A m \in Id : Sound(m)' /\ Live(m)' /\ m \in index => m \in index'
  <2>1. CASE index_delete(c)
    <3>1. \A m \in Id : Sound(m)' /\ Live(m)' => m # k.id
      BY <1>0, <1>1, <1>3, <1>5 DEF VectorInv, DeletesDead, Sound
    <3>2. QED
      BY <1>1, <2>1, <3>1 DEF index_delete
  <2>2. CASE ~index_delete(c)
    BY <2>2 DEF index_insert, index_error
  <2>3. QED
    BY <2>1, <2>2
<1>8. \A m \in Id, d \in Client : Inserts(req[d], m) =>
          m \in index' \/ \E e \in Client : Inserts(req'[e], m)
  <2> SUFFICES ASSUME NEW m \in Id, NEW d \in Client, Inserts(req[d], m)
               PROVE  m \in index' \/ Inserts(req'[d], m)
    OBVIOUS
  <2>1. CASE d # c
    BY <1>3, <2>1
  <2>2. CASE d = c /\ index_insert(c)
    <3>1. k.pc = "insert"
      BY <1>1, <2>2 DEF index_insert
    <3>2. k.new = m
      BY <1>1, <2>2, <3>1 DEF Inserts, Queues
    <3>3. QED
      BY <1>1, <2>2, <3>2 DEF index_insert
  <2>3. CASE d = c /\ ~index_insert(c)
    BY <1>1, <1>4, <2>3
  <2>4. QED
    BY <2>1, <2>2, <2>3
<1>9. \A m \in Id, d \in Client : Queues(req[d], m) => \E e \in Client : Queues(req'[e], m)
  <2>1. \A m : ~Queues(k, m)
    BY <1>1 DEF Queues
  <2>2. QED
    BY <1>1, <1>3, <2>1
<1>10. /\ Id \subseteq Id' /\ Id' \ Id = {}
       /\ \A r \in Replayer : replay'[r] = replay[r]
  BY <1>2, <1>3
<1>11. QED
  BY <1>0, <1>2, <1>3, <1>6, <1>7, <1>8, <1>9, <1>10, LedgerAlone

\* restore brings a memory back and queues the insert of its vector.
LEMMA VectorsRestored ==
    ASSUME VectorInv, TablesOK', raced' = raced \cup Overlap', NEW c \in Client, NEW m \in Id,
           restore(c, m)
    PROVE  VectorInv'
<1>0. /\ TablesOK /\ OverlapIsRaced' /\ raced \subseteq raced' /\ req \in [Client -> Request]
      /\ Id = 1..Len(mem)
  BY DEF VectorInv, OverlapIsRaced, TablesOK, Id
<1>1. /\ Id' = Id /\ \A n \in Id : n # m => mem'[n] = mem[n]
  <2>1. PICK row \in MemRow : Edit(m, row)
    BY <1>0, Restored
  <2>2. QED
    BY <1>0, <2>1, Edited
<1>2. index' = index /\ ledger' = ledger /\ replay' = replay /\ refused' = refused
  BY DEF restore
<1>3. PICK q : q = req'[c] /\ q.pc = "ledger" /\ q.op = "insert" /\ q.id = m /\ q.new = NoId
  <2>1. req'[c] = Begun("ledger", m, "insert", FALSE)
    BY <1>0 DEF restore, Begin, Begun
  <2>2. PICK q : q = Begun("ledger", m, "insert", FALSE)
    OBVIOUS
  <2>3. q.pc = "ledger" /\ q.op = "insert" /\ q.id = m /\ q.new = NoId
    BY <2>2, NoRequestIsRequest DEF Begun, Request, NoId
  <2>4. QED
    BY <2>1, <2>2, <2>3
<1>4. Silent(req[c]) /\ \A d \in Client : d # c => req'[d] = req[d]
  BY <1>0 DEF restore, Begin, Silent
<1>5. Queues(q, m) /\ ~Deletes(q) /\ m \in TouchedBy(q)
  <2>1. m # NoId
    BY <1>0 DEF NoId
  <2>2. QED
    BY <1>3, <2>1 DEF Queues, Target, Deletes, TouchedBy
<1>6. DeletesDead'
  <2> SUFFICES ASSUME NEW d \in Client, Deletes(req'[d]), NEW i, i = req'[d].id, i \in Id \ raced'
               PROVE  ~Live(i)'
    BY <1>1 DEF DeletesDead, Live
  <2>1. d # c /\ req'[d] = req[d]
    BY <1>3, <1>4, <1>5
  <2>2. i # m
    <3>1. SUFFICES ASSUME i = m PROVE FALSE
      OBVIOUS
    <3>2. m \in TouchedBy(req'[d])
      BY <1>0, <3>1 DEF TouchedBy, Deletes, NoId
    <3>3. m \in TouchedBy(req'[c])
      BY <1>3, <1>5
    <3>4. m \in Overlap'
      BY <1>1, <2>1, <3>2, <3>3 DEF Overlap, TouchedBy
    <3>5. QED
      BY <1>0, <3>1, <3>4
  <2>3. ~Live(i)
    BY <1>0, <2>1 DEF VectorInv, DeletesDead
  <2>4. QED
    BY <1>1, <2>2, <2>3 DEF Live
<1>7. \A n \in Id : Live(n)' => Live(n) \/ \E d \in Client : Queues(req'[d], n)
  <2> SUFFICES ASSUME NEW n \in Id, Live(n)', ~Live(n) PROVE \E d \in Client : Queues(req'[d], n)
    OBVIOUS
  <2>1. n = m
    BY <1>1 DEF Live
  <2>2. QED
    BY <1>3, <1>5, <2>1
<1>8. \A n, d : d \in Client /\ (Inserts(req[d], n) \/ Queues(req[d], n)) => req'[d] = req[d]
  BY <1>4, SilentDoesNothing
<1>9. /\ \A n \in Id, d \in Client : Inserts(req[d], n) => \E e \in Client : Inserts(req'[e], n)
      /\ \A n \in Id, d \in Client : Queues(req[d], n) => \E e \in Client : Queues(req'[e], n)
  BY <1>8
<1>10. /\ Id \subseteq Id' /\ Id' \ Id = {}
       /\ \A r \in Replayer : replay'[r] = replay[r]
  BY <1>1, <1>2
<1>11. QED
  BY <1>0, <1>2, <1>6, <1>7, <1>9, <1>10, LedgerAlone

\* What a lost request was about counts as raced.
LEMMA VectorsLost ==
    ASSUME VectorInv, TablesOK', MemoryCrash \/ \E c \in Client : request_lost(c)
    PROVE  VectorInv'
<1>0. /\ TablesOK /\ req \in [Client -> Request] /\ Id = 1..Len(mem) /\ OverlapIsRaced
      /\ replay \in [Replayer -> Job]
  BY DEF VectorInv, TablesOK, Id
<1>1. /\ mem' = mem /\ index' = index /\ ledger' = ledger /\ refused' = refused
      /\ raced \subseteq raced'
  BY DEF MemoryCrash, request_lost
<1>2. \A d \in Client : req'[d] = req[d] \/ (req'[d] = NoRequest /\ TouchedBy(req[d]) \subseteq raced')
  BY <1>0 DEF MemoryCrash, request_lost
<1>3. \A r \in Replayer : replay'[r] = replay[r] \/ replay'[r] = NoReplay
  BY <1>0 DEF MemoryCrash, request_lost
<1>4. Id' = Id /\ \A m \in Id : Live(m)' <=> Live(m)
  BY <1>1 DEF Id, Live
<1>5. /\ TouchedBy(NoRequest) = {} /\ ReplayTouches(NoReplay)' = {} /\ Silent(NoRequest)
  BY NoRequestIsRequest, NoReplayIsJob DEF TouchedBy, ReplayTouches, Silent
<1>6. OverlapIsRaced'
  <2>1. \A d \in Client : TouchedBy(req'[d]) \subseteq TouchedBy(req[d])
    BY <1>2, <1>5
  <2>2. \A r \in Replayer : ReplayTouches(replay[r])' \subseteq ReplayTouches(replay[r])
    BY <1>1, <1>3, NoReplayIsJob DEF ReplayTouches
  <2>3. Overlap' \subseteq Overlap
    BY <1>4, <2>1, <2>2 DEF Overlap
  <2>4. QED
    BY <1>0, <1>1, <2>3 DEF OverlapIsRaced
<1>7. DeletesDead'
  <2> SUFFICES ASSUME NEW d \in Client, Deletes(req'[d]), NEW i, i = req'[d].id, i \in Id \ raced'
               PROVE  ~Live(i)'
    BY <1>4 DEF DeletesDead, Live
  <2>1. req'[d] = req[d]
    BY <1>2, <1>5, SilentDoesNothing
  <2>2. QED
    BY <1>1, <1>4, <2>1 DEF VectorInv, DeletesDead
<1>8. \A m \in Id, d \in Client : Sound(m)' /\ Inserts(req[d], m) => req'[d] = req[d]
  <2>1. \A m \in Id : m # NoId /\ (Sound(m)' => m \notin raced')
    BY <1>0 DEF NoId, Sound
  <2>2. QED
    BY <1>2, <2>1, InsertTouches
<1>9. \A q, m : Queues(q, m) => Inserts(q, m)
  BY DEF Inserts
<1>10. /\ \A m \in Id, d \in Client : Sound(m)' /\ Inserts(req[d], m) =>
             \E e \in Client : Inserts(req'[e], m)
       /\ \A m \in Id, d \in Client : Sound(m)' /\ Queues(req[d], m) =>
             \E e \in Client : Queues(req'[e], m)
  BY <1>8, <1>9
<1>11. Id \subseteq Id' /\ Id' \ Id = {}
  BY <1>4
<1>12. QED
  BY <1>0, <1>1, <1>3, <1>4, <1>6, <1>7, <1>10, <1>11, LedgerAlone
-----------------------------------------------------------------------------
(* The ledger and its replay. *)

\* The failed write of a request is queued.
LEMMA VectorsRecorded ==
    ASSUME VectorInv, TablesOK', raced' = raced \cup Overlap', NEW c \in Client,
           record_vector_sync_failure(c)
    PROVE  VectorInv'
<1>0. /\ TablesOK /\ OverlapIsRaced' /\ raced \subseteq raced' /\ req \in [Client -> Request]
      /\ ledger \in Seq(LedgerRow) /\ Len(ledger) \in Nat
  BY DEF VectorInv, OverlapIsRaced, TablesOK
<1>1. PICK k \in Request : k = req[c] /\ k.pc = "ledger" /\ Fits(k, Len(mem))
  BY <1>0 DEF record_vector_sync_failure, TablesOK, RequestsFit
<1>2. /\ mem' = mem /\ index' = index /\ replay' = replay /\ refused' = refused
  BY DEF record_vector_sync_failure
<1>3. Id' = Id /\ (\A m : Live(m)' <=> Live(m)) /\ \A d \in Client : d # c => req'[d] = req[d]
  BY <1>0, <1>2 DEF Id, Live, record_vector_sync_failure
<1>4. PICK new : new = Len(ledger) + 1
  OBVIOUS
<1>5. PICK e : e = [mem |-> Target(k), op |-> k.op, done |-> FALSE]
  OBVIOUS
<1>6. ledger' = Append(ledger, e) /\ e.mem = Target(k) /\ e.op = k.op /\ e.done = FALSE
  BY <1>1, <1>5 DEF record_vector_sync_failure
<1>7. /\ Len(ledger') = new /\ ledger'[new] = e /\ new \in Nat
      /\ \A l \in 1..Len(ledger) : ledger'[l] = ledger[l] /\ l < new
  BY <1>0, <1>4, <1>6
<1>8. Pending' = Pending \cup {new} /\ Pending \subseteq 1..Len(ledger) /\ new \notin 1..Len(ledger)
  BY <1>0, <1>4, <1>6, <1>7 DEF Pending
<1>9. Silent(req'[c])
  <2>1. req'[c] = NoRequest \/ req'[c] = [k EXCEPT !.pc = "reason"]
    BY <1>0, <1>1 DEF record_vector_sync_failure, AfterDelete
  <2>2. QED
    BY <2>1, NoRequestIsRequest DEF Silent, Request
<1>10. \A m : Sound(m)' => Sound(m)
  BY <1>0, <1>2 DEF Sound
<1>11. \A l \in Pending : \A m : QueuedInsert(l, m) => QueuedInsert(l, m)'
  BY <1>7, <1>8 DEF QueuedInsert
<1>12. \A m : Queues(k, m) => QueuedInsert(new, m)'
  BY <1>6, <1>7, <1>8 DEF QueuedInsert, Queues
<1>13. \A m : Inserts(k, m) => Queues(k, m)
  BY <1>1 DEF Inserts
<1>14. ASSUME NEW S \in SUBSET (1..Len(ledger)), NEW m, Comes(m, S) PROVE Comes(m, S)'
  <2>1. CASE m \in index
    BY <1>2, <2>1 DEF Comes
  <2>2. CASE \E d \in Client : Inserts(req[d], m)
    <3>1. CASE Inserts(req[c], m)
      <4>1. QueuedInsert(new, m)' /\ new \in Pending' \ S
        BY <1>1, <1>8, <1>12, <1>13, <3>1
      <4>2. QED
        BY <4>1 DEF Comes
    <3>2. CASE ~Inserts(req[c], m)
      BY <1>3, <2>2, <3>2 DEF Comes
    <3>3. QED
      BY <3>1, <3>2
  <2>3. CASE \E l \in Pending \ S : QueuedInsert(l, m)
    BY <1>8, <1>11, <2>3 DEF Comes
  <2>4. QED
    BY <1>14, <2>1, <2>2, <2>3 DEF Comes
<1>15. DeletesDead'
  <2> SUFFICES ASSUME NEW d \in Client, Deletes(req'[d]), NEW i, i = req'[d].id, i \in Id \ raced'
               PROVE  ~Live(i)'
    BY <1>3 DEF DeletesDead, Live
  <2>1. d # c
    BY <1>9, SilentDoesNothing
  <2>2. QED
    BY <1>0, <1>3, <2>1 DEF VectorInv, DeletesDead
<1>16. VectorComes'
  BY <1>3, <1>10, <1>14 DEF VectorInv, VectorComes
<1>17. InsertFollows'
  <2> SUFFICES ASSUME NEW l \in Pending', NEW m, m = ledger'[l].mem, ledger'[l].op = "delete",
                      Sound(m)', Live(m)'
               PROVE  Followed(l, m)'
    BY DEF InsertFollows, Sound, Live, Followed, QueuedInsert
  <2>1. CASE l \in Pending
    <3>1. m = ledger[l].mem /\ ledger[l].op = "delete"
      BY <1>7, <1>8, <2>1
    <3>2. Followed(l, m)
      BY <1>3, <1>10, <2>1, <3>1 DEF VectorInv, InsertFollows
    <3>3. CASE Queues(req[c], m)
      <4>1. QueuedInsert(new, m)' /\ new \in Pending' /\ new > l
        BY <1>1, <1>7, <1>8, <1>12, <2>1, <3>3
      <4>2. QED
        BY <4>1 DEF Followed
    <3>4. CASE \E d \in Client : d # c /\ Queues(req[d], m)
      BY <1>3, <3>4 DEF Followed
    <3>5. CASE \E j \in Pending : j > l /\ QueuedInsert(j, m)
      BY <1>8, <1>11, <3>5 DEF Followed
    <3>6. QED
      BY <3>2, <3>3, <3>4, <3>5 DEF Followed
  <2>2. CASE l = new
    <3>1. k.op = "delete" /\ m = k.id
      BY <1>6, <1>7, <2>2 DEF Target
    <3>2. Deletes(k)
      BY <1>1, <3>1 DEF Deletes
    <3>3. m \in Id
      <4>1. m \in Nat /\ m # 0 /\ m <= Len(mem) /\ Len(mem) \in Nat
        BY <1>0, <1>1, <3>1, MemoryAssumption DEF Fits, Target, Request, NoId, TablesOK
      <4>2. QED
        BY <4>1 DEF Id
    <3>4. m \notin raced
      BY <1>10 DEF Sound
    <3>5. ~Live(m)
      BY <1>1, <3>1, <3>2, <3>3, <3>4 DEF VectorInv, DeletesDead
    <3>6. QED
      BY <1>3, <3>5
  <2>3. QED
    BY <1>8, <2>1, <2>2
<1>18. \A r \in Replayer : TakenRows(r)' = TakenRows(r) /\ TakenRows(r) \subseteq 1..Len(ledger)
  BY <1>0, <1>2 DEF TakenRows, TablesOK, LedgerFits
<1>19. InOrder'
  <2> SUFFICES ASSUME NEW r \in Replayer
               PROVE  /\ \A j \in replay[r].clear, l \in replay[r].todo : j < l
                      /\ \A j \in TakenRows(r), l \in Pending' :
                            l < j /\ ledger'[l].mem \notin refused => l \in TakenRows(r)
    BY <1>2, <1>18 DEF InOrder
  <2>1. \A j \in TakenRows(r) : ~(new < j)
    BY <1>0, <1>4, <1>18
  <2>2. \A l \in Pending : ledger'[l] = ledger[l]
    BY <1>7, <1>8
  <2>3. QED
    BY <1>8, <2>1, <2>2 DEF VectorInv, InOrder
<1>20. TakenPending'
  BY <1>0, <1>7, <1>8, <1>18 DEF VectorInv, TakenPending
<1>21. ReplayedWell'
  <2> SUFFICES ASSUME NEW r \in Replayer, NEW j \in replay[r].clear, NEW m, m = ledger'[j].mem,
                      Sound(m)', Live(m)', NEW S, S = replay[r].clear
               PROVE  Comes(m, S)'
    BY <1>2 DEF ReplayedWell, Sound, Live, Comes, QueuedInsert
  <2>1. S \in SUBSET (1..Len(ledger)) /\ j \in 1..Len(ledger)
    BY <1>18 DEF TakenRows
  <2>2. m = ledger[j].mem
    BY <1>7, <2>1
  <2>3. Comes(m, S)
    BY <1>3, <1>10, <2>2 DEF VectorInv, ReplayedWell
  <2>4. QED
    BY <1>14, <2>1, <2>3
<1>22. QED
  BY <1>0, <1>15, <1>16, <1>17, <1>19, <1>20, <1>21 DEF VectorInv

\* The oldest rows are a beginning of the pending ones.
LEMMA OldestFirst ==
    ASSUME Len(ledger) \in Nat, NEW k \in Oldest, NEW l \in Pending, l < k
    PROVE  l \in Oldest
<1>1. Pending \subseteq 1..Len(ledger) /\ k \in Pending /\ Batch \in Nat
  BY MemoryAssumption DEF Pending, Oldest
<1>2. PICK A, B : A = {j \in Pending : j <= l} /\ B = {j \in Pending : j <= k}
  OBVIOUS
<1>3. A \subseteq B
  <2>1. \A j \in Pending : j \in Int
    BY <1>1
  <2>2. \A j \in Pending : j <= l => j <= k
    BY <1>1, <2>1
  <2>3. QED
    BY <1>2, <2>2
<1>4. IsFiniteSet(B)
  <2>1. IsFiniteSet(1..Len(ledger))
    BY FS_Interval
  <2>2. B \subseteq 1..Len(ledger)
    BY <1>1, <1>2
  <2>3. QED
    BY <2>1, <2>2, FS_Subset
<1>5. Cardinality(A) \in Nat /\ Cardinality(B) \in Nat /\ Cardinality(A) <= Cardinality(B)
  <2>1. IsFiniteSet(A) /\ Cardinality(A) <= Cardinality(B)
    BY <1>3, <1>4, FS_Subset
  <2>2. QED
    BY <1>4, <2>1, FS_CardinalityType
<1>6. Cardinality(B) <= Batch
  BY <1>2 DEF Oldest
<1>7. Cardinality(A) <= Batch
  BY <1>1, <1>5, <1>6
<1>8. QED
  BY <1>2, <1>7 DEF Oldest

\* A step of a replay that leaves the ledger alone.
LEMMA ReplayMoves ==
    ASSUME VectorInv, TablesOK', OverlapIsRaced', raced \subseteq raced', refused \subseteq refused',
           mem' = mem, req' = req, ledger' = ledger,
           NEW r \in Replayer, \A s \in Replayer : s # r => replay'[s] = replay[s],
           \A k \in replay'[r].clear, l \in replay'[r].todo : k < l,
           \A k \in TakenRows(r)' : k \in Pending \/ ledger[k].mem \in raced,
           \A k \in TakenRows(r)', l \in Pending : l < k /\ ledger[l].mem \notin refused' => l \in TakenRows(r)',
           VectorComes', ReplayedWell'
    PROVE  VectorInv'
<1>1. Id' = Id /\ Pending' = Pending /\ \A m : (Live(m)' <=> Live(m)) /\ (Sound(m)' => Sound(m))
  BY DEF Id, Pending, Live, Sound
<1>2. DeletesDead'
  BY <1>1 DEF VectorInv, DeletesDead, Live
<1>3. \A l, m : Followed(l, m)' <=> Followed(l, m)
  BY <1>1 DEF Followed, QueuedInsert
<1>4. InsertFollows'
  <2> SUFFICES ASSUME NEW l \in Pending, NEW m, m = ledger[l].mem, ledger[l].op = "delete",
                      Sound(m)', Live(m)
               PROVE  Followed(l, m)
    BY <1>1, <1>3 DEF InsertFollows, Sound, Live
  <2>1. QED
    BY <1>1 DEF VectorInv, InsertFollows
<1>5. \A s \in Replayer : s # r => TakenRows(s)' = TakenRows(s)
  BY DEF TakenRows
<1>6. InOrder'
  <2> SUFFICES ASSUME NEW s \in Replayer
               PROVE  /\ \A k \in replay'[s].clear, l \in replay'[s].todo : k < l
                      /\ \A k \in TakenRows(s)', l \in Pending :
                            l < k /\ ledger[l].mem \notin refused' => l \in TakenRows(s)'
    BY <1>1 DEF InOrder
  <2>1. CASE s = r
    BY <2>1
  <2>2. CASE s # r
    BY <1>5, <2>2 DEF VectorInv, InOrder
  <2>3. QED
    BY <2>1, <2>2
<1>7. TakenPending'
  <2> SUFFICES ASSUME NEW s \in Replayer, NEW l \in TakenRows(s)'
               PROVE  l \in Pending \/ ledger[l].mem \in raced
    BY <1>1 DEF TakenPending
  <2>1. CASE s = r
    BY <2>1
  <2>2. CASE s # r
    BY <1>5, <2>2 DEF VectorInv, TakenPending
  <2>3. QED
    BY <2>1, <2>2
<1>8. QED
  BY <1>2, <1>4, <1>6, <1>7 DEF VectorInv

\* What is there or comes, if the index is left alone too.
LEMMA ComingStays ==
    ASSUME req' = req, ledger' = ledger, index' = index
    PROVE  \A m, S : Comes(m, S)' <=> Comes(m, S)
<1>1. Pending' = Pending
  BY DEF Pending
<1>2. QED
  BY <1>1 DEF Comes, QueuedInsert

\* A replay begins, or the index refuses the next row.
LEMMA VectorsPassed ==
    ASSUME VectorInv, TablesOK', raced' = raced \cup Overlap', NEW r \in Replayer,
           replay_vector_sync_pending(r) \/ replay_row_fails(r)
    PROVE  VectorInv'
<1>0. /\ TablesOK /\ OverlapIsRaced' /\ raced \subseteq raced' /\ replay \in [Replayer -> Job]
      /\ Len(ledger) \in Nat
  BY DEF VectorInv, OverlapIsRaced, TablesOK
<1>1. /\ mem' = mem /\ req' = req /\ ledger' = ledger /\ index' = index
      /\ refused \subseteq refused' /\ \A s \in Replayer : s # r => replay'[s] = replay[s]
  BY <1>0 DEF replay_vector_sync_pending, replay_row_fails
<1>2. \A m, S : Comes(m, S)' <=> Comes(m, S)
  BY <1>1, ComingStays
<1>3. Id' = Id /\ \A m : (Live(m)' <=> Live(m)) /\ (Sound(m)' => Sound(m))
  BY <1>0, <1>1 DEF Id, Live, Sound
<1>4. VectorComes'
  BY <1>2, <1>3 DEF VectorInv, VectorComes
<1>5. PICK j \in Job : j = replay[r]
  BY <1>0
<1>6. CASE replay_vector_sync_pending(r)
  <2>1. replay'[r].todo = Oldest /\ replay'[r].clear = {}
    BY <1>0, <1>6 DEF replay_vector_sync_pending
  <2>2. TakenRows(r)' = Oldest
    BY <2>1 DEF TakenRows
  <2>3. Oldest \subseteq Pending
    BY DEF Oldest
  <2>4. ReplayedWell'
    <3> SUFFICES ASSUME NEW s \in Replayer, NEW k \in replay'[s].clear, NEW m, m = ledger[k].mem,
                        Sound(m)', Live(m)', NEW S, S = replay'[s].clear
                 PROVE  Comes(m, S)
      BY <1>1, <1>2 DEF ReplayedWell, Sound, Live, Comes, QueuedInsert
    <3>1. replay'[s] = replay[s]
      BY <1>1, <2>1
    <3>2. QED
      BY <1>3, <3>1 DEF VectorInv, ReplayedWell
  <2>5. \A k \in TakenRows(r)', l \in Pending : l < k => l \in TakenRows(r)'
    BY <1>0, <2>2, OldestFirst
  <2>6. QED
    BY <1>0, <1>1, <1>4, <2>1, <2>2, <2>3, <2>4, <2>5, ReplayMoves
<1>7. CASE replay_row_fails(r)
  <2>1. PICK i : i = Min(replay[r].todo)
    OBVIOUS
  <2>2. i \in j.todo
    BY <1>0, <1>5, <1>7, <2>1, NextRow DEF replay_row_fails
  <2>3. replay'[r].todo = j.todo \ {i} /\ replay'[r].clear = j.clear
    BY <1>0, <1>5, <1>7, <2>1 DEF replay_row_fails, Job
  <2>4. TakenRows(r)' \subseteq TakenRows(r) /\ TakenRows(r) \subseteq TakenRows(r)' \cup {i}
    BY <1>5, <2>3 DEF TakenRows
  <2>5. ledger[i].mem \in refused'
    BY <1>7, <2>1 DEF replay_row_fails
  <2>6. ReplayedWell'
    <3> SUFFICES ASSUME NEW s \in Replayer, NEW k \in replay'[s].clear, NEW m, m = ledger[k].mem,
                        Sound(m)', Live(m)', NEW S, S = replay'[s].clear
                 PROVE  Comes(m, S)
      BY <1>1, <1>2 DEF ReplayedWell, Sound, Live, Comes, QueuedInsert
    <3>1. replay'[s].clear = replay[s].clear
      BY <1>1, <1>5, <2>3
    <3>2. QED
      BY <1>3, <3>1 DEF VectorInv, ReplayedWell
  <2>7. \A k \in replay'[r].clear, l \in replay'[r].todo : k < l
    BY <1>5, <2>3 DEF VectorInv, InOrder
  <2>8. \A k \in TakenRows(r)' : k \in Pending \/ ledger[k].mem \in raced
    BY <2>4 DEF VectorInv, TakenPending
  <2>9. \A k \in TakenRows(r)', l \in Pending : l < k /\ ledger[l].mem \notin refused' => l \in TakenRows(r)'
    <3> SUFFICES ASSUME NEW k \in TakenRows(r)', NEW l \in Pending, l < k, ledger[l].mem \notin refused'
                 PROVE  l \in TakenRows(r)'
      OBVIOUS
    <3>1. k \in TakenRows(r) /\ ledger[l].mem \notin refused
      BY <1>1, <2>4
    <3>2. l \in TakenRows(r)
      BY <3>1 DEF VectorInv, InOrder
    <3>3. l # i
      BY <2>5
    <3>4. QED
      BY <2>4, <3>2, <3>3
  <2>10. QED
    BY <1>0, <1>1, <1>4, <2>6, <2>7, <2>8, <2>9, ReplayMoves
<1>8. QED
  BY <1>6, <1>7

\* A memory two replays have taken a row of is raced for.
LEMMA SharedIsRaced ==
    ASSUME VectorInv, NEW r \in Replayer, NEW s \in Replayer, r # s,
           NEW k \in TakenRows(r), NEW l \in TakenRows(s), ledger[k].mem = ledger[l].mem
    PROVE  ledger[k].mem \in raced
<1>1. k \in 1..Len(ledger)
  BY DEF VectorInv, TablesOK, LedgerFits, TakenRows
<1>2. ledger[k].mem \in Id
  BY <1>1, LedgerRows DEF VectorInv
<1>3. ledger[k].mem \in ReplayTouches(replay[r]) \cap ReplayTouches(replay[s])
  BY DEF ReplayTouches, TakenRows
<1>4. ledger[k].mem \in Overlap
  BY <1>2, <1>3 DEF Overlap
<1>5. QED
  BY <1>4 DEF VectorInv, OverlapIsRaced

\* A row of the ledger is applied to the index.
LEMMA VectorsReplayed ==
    ASSUME VectorInv, TablesOK', raced' = raced \cup Overlap', NEW r \in Replayer, replay_row(r)
    PROVE  VectorInv'
<1>0. /\ TablesOK /\ OverlapIsRaced' /\ raced \subseteq raced' /\ replay \in [Replayer -> Job]
      /\ Len(ledger) \in Nat
  BY DEF VectorInv, OverlapIsRaced, TablesOK
<1>1. /\ mem' = mem /\ req' = req /\ ledger' = ledger /\ refused' = refused
      /\ \A s \in Replayer : s # r => replay'[s] = replay[s]
  BY <1>0 DEF replay_row
<1>2. PICK j \in Job : j = replay[r]
  BY <1>0
<1>3. PICK i : i = Min(replay[r].todo)
  OBVIOUS
<1>4. i \in j.todo /\ i \in 1..Len(ledger) /\ \A l \in j.todo : i <= l
  BY <1>0, <1>2, <1>3, NextRow DEF replay_row
<1>5. /\ replay'[r].todo = j.todo \ {i} /\ replay'[r].clear = j.clear \cup {i}
      /\ index' = Replayed(i)
  BY <1>0, <1>2, <1>3 DEF replay_row, Job
<1>6. j.todo \cup j.clear \subseteq 1..Len(ledger)
  BY <1>0, <1>2 DEF TablesOK, LedgerFits
<1>7. PICK n : n = ledger[i].mem
  OBVIOUS
<1>8. Id' = Id /\ Pending' = Pending /\ \A m : (Live(m)' <=> Live(m)) /\ (Sound(m)' => Sound(m))
  BY <1>0, <1>1 DEF Id, Pending, Live, Sound
<1>9. \A l, m : QueuedInsert(l, m)' <=> QueuedInsert(l, m)
  BY <1>1, <1>8 DEF QueuedInsert
<1>10. \A m, S : m # n => (Comes(m, S)' <=> Comes(m, S))
  <2>1. \A m : m # n => (m \in index' <=> m \in index)
    BY <1>5, <1>7 DEF Replayed
  <2>2. QED
    BY <1>1, <1>8, <1>9, <2>1 DEF Comes
<1>11. TakenRows(r) = j.clear \cup j.todo /\ TakenRows(r)' = TakenRows(r) /\ i \in TakenRows(r)
  BY <1>2, <1>4, <1>5 DEF TakenRows
<1>12. \A k \in j.clear : k < i
  BY <1>2, <1>4 DEF VectorInv, InOrder
<1>13. ASSUME Sound(n), Live(n), NEW S \in {{}, j.clear \cup {i}} PROVE Comes(n, S)'
  <2>1. ledger[i].op \in {"insert", "delete"}
    BY <1>0, <1>4, LedgerRows DEF LedgerRow
  <2>2. CASE ledger[i].op = "insert"
    BY <1>5, <1>7, <2>2 DEF Replayed, Comes
  <2>3. CASE ledger[i].op = "delete"
    <3>1. i \in Pending
      BY <1>7, <1>11, <1>13 DEF VectorInv, TakenPending, Sound
    <3>2. Followed(i, n)
      BY <1>7, <1>13, <2>3, <3>1 DEF VectorInv, InsertFollows
    <3>3. CASE \E c \in Client : Queues(req[c], n)
      BY <1>1, <3>3 DEF Comes, Inserts
    <3>4. CASE \E k \in Pending : k > i /\ QueuedInsert(k, n)
      <4>1. PICK k \in Pending : k > i /\ QueuedInsert(k, n)
        BY <3>4
      <4>2. k \in Nat /\ i \in Nat /\ j.clear \subseteq Nat
        BY <1>0, <1>4, <1>6 DEF Pending
      <4>3. k # i /\ k \notin j.clear
        BY <1>12, <4>1, <4>2
      <4>4. k \in Pending' \ S /\ QueuedInsert(k, n)'
        BY <1>8, <1>9, <1>13, <4>1, <4>3
      <4>5. QED
        BY <4>4 DEF Comes
    <3>5. QED
      BY <3>2, <3>3, <3>4 DEF Followed
  <2>4. QED
    BY <2>1, <2>2, <2>3
<1>14. VectorComes'
  <2> SUFFICES ASSUME NEW m \in Id, Sound(m)', Live(m)' PROVE Comes(m, {})'
    BY <1>8 DEF VectorComes
  <2>1. CASE m = n
    BY <1>8, <1>13, <2>1
  <2>2. CASE m # n
    BY <1>8, <1>10, <2>2 DEF VectorInv, VectorComes
  <2>3. QED
    BY <2>1, <2>2
<1>15. ReplayedWell'
  <2> SUFFICES ASSUME NEW s \in Replayer, NEW k \in replay'[s].clear, NEW m, m = ledger[k].mem,
                      Sound(m)', Live(m)', NEW S, S = replay'[s].clear
               PROVE  Comes(m, S)'
    BY <1>1 DEF ReplayedWell, Sound, Live, Comes, QueuedInsert
  <2>1. CASE s = r /\ m = n
    BY <1>5, <1>8, <1>13, <2>1
  <2>2. CASE s = r /\ m # n
    <3>1. k \in j.clear /\ S = j.clear \cup {i}
      BY <1>5, <1>7, <2>2
    <3>2. Comes(m, j.clear)
      BY <1>2, <1>8, <2>2, <3>1 DEF VectorInv, ReplayedWell
    <3>3. \A l : QueuedInsert(l, m) => l # i
      BY <1>7, <2>2 DEF QueuedInsert
    <3>4. Comes(m, S)
      BY <3>1, <3>2, <3>3 DEF Comes
    <3>5. QED
      BY <1>10, <2>2, <3>4
  <2>3. CASE s # r
    <3>1. replay'[s] = replay[s] /\ k \in TakenRows(s)
      BY <1>1, <2>3 DEF TakenRows
    <3>2. m # n
      BY <1>7, <1>8, <1>11, <2>3, <3>1, SharedIsRaced DEF Sound
    <3>3. Comes(m, S)
      BY <1>8, <3>1 DEF VectorInv, ReplayedWell
    <3>4. QED
      BY <1>10, <3>2, <3>3
  <2>4. QED
    BY <2>1, <2>2, <2>3
<1>16. \A k \in replay'[r].clear, l \in replay'[r].todo : k < l
  <2> SUFFICES ASSUME NEW k \in j.clear \cup {i}, NEW l \in j.todo \ {i} PROVE k < l
    BY <1>5
  <2>1. k \in Nat /\ l \in Nat /\ i \in Nat
    BY <1>0, <1>4, <1>6
  <2>2. QED
    BY <1>4, <1>12, <2>1
<1>17. \A k \in TakenRows(r)' : k \in Pending \/ ledger[k].mem \in raced
  BY <1>11 DEF VectorInv, TakenPending
<1>18. \A k \in TakenRows(r)', l \in Pending : l < k /\ ledger[l].mem \notin refused' => l \in TakenRows(r)'
  BY <1>1, <1>11 DEF VectorInv, InOrder
<1>19. QED
  BY <1>0, <1>1, <1>14, <1>15, <1>16, <1>17, <1>18, ReplayMoves

\* The rows that have been replayed are deleted from the ledger.
LEMMA VectorsCleared ==
    ASSUME VectorInv, TablesOK', raced' = raced \cup Overlap', NEW r \in Replayer,
           delete_pending_batch(r)
    PROVE  VectorInv'
<1>0. /\ TablesOK /\ OverlapIsRaced' /\ raced \subseteq raced' /\ replay \in [Replayer -> Job]
      /\ Len(ledger) \in Nat /\ \A l \in 1..Len(ledger) : ledger[l] \in LedgerRow
  BY DEF VectorInv, OverlapIsRaced, TablesOK
<1>1. /\ mem' = mem /\ req' = req /\ index' = index /\ refused' = refused
      /\ replay'[r] = NoReplay /\ \A s \in Replayer : s # r => replay'[s] = replay[s]
  BY <1>0 DEF delete_pending_batch
<1>2. PICK D : D = replay[r].clear
  OBVIOUS
<1>3. D = TakenRows(r) /\ D \subseteq 1..Len(ledger)
  BY <1>0, <1>2 DEF TakenRows, delete_pending_batch, TablesOK, LedgerFits
<1>4. ledger' = [l \in 1..Len(ledger) |->
                    IF l \in D THEN [ledger[l] EXCEPT !.done = TRUE] ELSE ledger[l]]
  BY <1>2 DEF delete_pending_batch
<1>5. \A l \in 1..Len(ledger) : /\ ledger'[l].mem = ledger[l].mem /\ ledger'[l].op = ledger[l].op
                                /\ ledger'[l].done = (ledger[l].done \/ l \in D)
  <2> SUFFICES ASSUME NEW l \in 1..Len(ledger)
               PROVE  /\ ledger'[l].mem = ledger[l].mem /\ ledger'[l].op = ledger[l].op
                      /\ ledger'[l].done = (ledger[l].done \/ l \in D)
    OBVIOUS
  <2>1. PICK e \in LedgerRow : e = ledger[l]
    BY <1>0
  <2>2. ledger'[l] = IF l \in D THEN [e EXCEPT !.done = TRUE] ELSE e
    BY <1>4, <2>1
  <2>3. QED
    BY <2>1, <2>2 DEF LedgerRow
<1>6. Len(ledger') = Len(ledger)
  BY <1>0, <1>4
<1>7. Pending' = Pending \ D /\ Pending \subseteq 1..Len(ledger)
  BY <1>5, <1>6 DEF Pending
<1>8. Id' = Id /\ \A m : (Live(m)' <=> Live(m)) /\ (Sound(m)' => Sound(m))
  BY <1>0, <1>1 DEF Id, Live, Sound
<1>9. \A l, m : QueuedInsert(l, m)' <=> QueuedInsert(l, m) /\ l \notin D
  BY <1>5, <1>7 DEF QueuedInsert
<1>10. DeletesDead'
  BY <1>0, <1>1, <1>8 DEF VectorInv, DeletesDead, Live
<1>11. VectorComes'
  <2> SUFFICES ASSUME NEW m \in Id, Sound(m), Live(m) PROVE Comes(m, {})'
    BY <1>8 DEF VectorComes
  <2>1. Comes(m, {})
    BY DEF VectorInv, VectorComes
  <2>2. Comes(m, D)
    <3>1. CASE \E l \in Pending : l \in D /\ QueuedInsert(l, m)
      BY <1>2, <3>1 DEF QueuedInsert, VectorInv, ReplayedWell
    <3>2. CASE ~\E l \in Pending : l \in D /\ QueuedInsert(l, m)
      BY <2>1, <3>2 DEF Comes
    <3>3. QED
      BY <3>1, <3>2
  <2>3. QED
    BY <1>1, <1>7, <1>9, <2>2 DEF Comes
<1>12. InsertFollows'
  <2> SUFFICES ASSUME NEW l \in Pending \ D, NEW m, m = ledger'[l].mem, ledger'[l].op = "delete",
                      Sound(m)', Live(m)'
               PROVE  Followed(l, m)'
    BY <1>7 DEF InsertFollows, Sound, Live, Followed, QueuedInsert
  <2>1. m = ledger[l].mem /\ ledger[l].op = "delete" /\ Sound(m) /\ Live(m)
    BY <1>5, <1>7, <1>8
  <2>2. Followed(l, m)
    BY <2>1 DEF VectorInv, InsertFollows
  <2>3. CASE \E c \in Client : Queues(req[c], m)
    BY <1>1, <2>3 DEF Followed
  <2>4. CASE \E k \in Pending : k > l /\ QueuedInsert(k, m)
    <3>1. PICK k \in Pending : k > l /\ QueuedInsert(k, m)
      BY <2>4
    <3>2. k \in Nat /\ l \in Nat
      BY <1>0, <1>7
    <3>3. k \notin D
      <4>1. SUFFICES ASSUME k \in TakenRows(r) PROVE FALSE
        BY <1>3
      <4>2. l < k /\ ledger[l].mem \notin refused
        BY <2>1, <3>1, <3>2 DEF Sound
      <4>3. l \in TakenRows(r)
        BY <4>1, <4>2 DEF VectorInv, InOrder
      <4>4. QED
        BY <1>3, <4>3
    <3>4. QueuedInsert(k, m)' /\ k \in Pending'
      BY <1>7, <1>9, <3>1, <3>3
    <3>5. QED
      BY <3>1, <3>4 DEF Followed
  <2>5. QED
    BY <2>2, <2>3, <2>4 DEF Followed
<1>13. /\ TakenRows(r)' = {} /\ replay'[r].clear = {} /\ replay'[r].todo = {}
       /\ \A s \in Replayer : s # r => TakenRows(s)' = TakenRows(s) /\ TakenRows(s) \subseteq 1..Len(ledger)
  BY <1>0, <1>1, NoReplayIsJob DEF TakenRows, TablesOK, LedgerFits
<1>14. InOrder'
  <2> SUFFICES ASSUME NEW s \in Replayer
               PROVE  /\ \A k \in replay'[s].clear, l \in replay'[s].todo : k < l
                      /\ \A k \in TakenRows(s)', l \in Pending \ D :
                            l < k /\ ledger'[l].mem \notin refused => l \in TakenRows(s)'
    BY <1>1, <1>7 DEF InOrder
  <2>1. CASE s = r
    BY <1>13, <2>1
  <2>2. CASE s # r
    BY <1>1, <1>5, <1>7, <1>13, <2>2 DEF VectorInv, InOrder
  <2>3. QED
    BY <2>1, <2>2
<1>15. TakenPending'
  <2> SUFFICES ASSUME NEW s \in Replayer, NEW l \in TakenRows(s)', l \notin Pending'
               PROVE  ledger'[l].mem \in raced
    BY <1>0 DEF TakenPending
  <2>1. s # r /\ l \in TakenRows(s) /\ ledger'[l].mem = ledger[l].mem
    BY <1>5, <1>13
  <2>2. CASE l \in D
    BY <1>3, <2>1, <2>2, SharedIsRaced
  <2>3. CASE l \notin D
    BY <1>7, <2>1, <2>3 DEF VectorInv, TakenPending
  <2>4. QED
    BY <2>2, <2>3
<1>16. ReplayedWell'
  <2> SUFFICES ASSUME NEW s \in Replayer, NEW k \in replay'[s].clear, NEW m, m = ledger'[k].mem,
                      Sound(m)', Live(m)', NEW S, S = replay'[s].clear
               PROVE  Comes(m, S)'
    BY DEF ReplayedWell, Sound, Live, Comes, QueuedInsert
  <2>1. s # r /\ replay'[s] = replay[s] /\ k \in TakenRows(s)
    BY <1>1, <1>13 DEF TakenRows
  <2>2. m = ledger[k].mem /\ Sound(m) /\ Live(m)
    BY <1>5, <1>8, <1>13, <2>1
  <2>3. Comes(m, S)
    BY <2>1, <2>2 DEF VectorInv, ReplayedWell
  <2>4. \A l : QueuedInsert(l, m) => l \notin D
    <3> SUFFICES ASSUME NEW l, QueuedInsert(l, m), l \in TakenRows(r) PROVE FALSE
      BY <1>3
    <3>1. ledger[l].mem = ledger[k].mem
      BY <2>2 DEF QueuedInsert
    <3>2. ledger[l].mem \in raced
      BY <2>1, <3>1, SharedIsRaced
    <3>3. QED
      BY <2>2, <3>1, <3>2 DEF Sound
  <2>5. QED
    BY <1>1, <1>7, <1>9, <2>3, <2>4 DEF Comes
<1>17. QED
  BY <1>0, <1>10, <1>11, <1>12, <1>14, <1>15, <1>16 DEF VectorInv

THEOREM VectorInvariant == MemorySpec => []VectorInv
<1>1. MemoryInit => VectorInv
  <2> SUFFICES ASSUME MemoryInit PROVE VectorInv
    OBVIOUS
  <2>1. /\ Id = {} /\ Pending = {} /\ \A c \in Client : req[c] = NoRequest
        /\ \A r \in Replayer : replay[r] = NoReplay
    BY DEF MemoryInit, Id, Pending
  <2>2. Overlap = {} /\ \A r \in Replayer : TakenRows(r) = {} /\ replay[r].clear = {}
    BY <2>1, NoReplayIsJob DEF Overlap, TakenRows
  <2>3. QED
    BY <2>1, <2>2, TablesInit DEF VectorInv, OverlapIsRaced, DeletesDead, VectorComes, InsertFollows,
       InOrder, TakenPending, ReplayedWell
<1>2. VectorInv /\ [MemoryNext]_memoryVars => VectorInv'
  <2> SUFFICES ASSUME VectorInv, [MemoryNext]_memoryVars PROVE VectorInv'
    OBVIOUS
  <2>1. TablesOK /\ TablesOK'
    BY TablesPreserved DEF VectorInv
  <2>2. CASE UNCHANGED memoryVars
    <3>1. OverlapIsRaced'
      BY <2>2 DEF memoryVars, VectorInv, OverlapIsRaced, Overlap, Id, ReplayTouches
    <3>2. Id' = Id /\ \A m \in Id : Live(m)' => Live(m)
      BY <2>2 DEF memoryVars, Id, Live
    <3>3. QED
      BY <2>1, <2>2, <3>1, <3>2, QuietStep DEF memoryVars
  <2>3. CASE MemoryCrash \/ \E c \in Client : request_lost(c)
    BY <2>1, <2>3, VectorsLost
  <2>4. CASE MemoryStep /\ raced' = raced \cup Overlap'
    <3>1. CASE \E c \in Client : \/ \E x \in Content, m \in 0..Len(mem) : store(c, x, m)
                                 \/ \E m \in Id : update(c, m)
      BY <2>1, <2>4, <3>1, VectorsAwaited
    <3>2. CASE \E c \in Client, st \in {"pending", "approved"} : store_transactional(c, st)
      <4>1. PICK c \in Client, st \in {"pending", "approved"} : store_transactional(c, st)
        BY <3>2
      <4>2. CASE mem' = mem /\ req' = [req EXCEPT ![c] = NoRequest]
        BY <2>1, <2>4, <4>1, <4>2, VectorsAwaited
      <4>3. CASE ~(mem' = mem /\ req' = [req EXCEPT ![c] = NoRequest])
        <5>1. PICK q : q = [NoRequest EXCEPT !.pc = "insert", !.new = Len(mem) + 1]
          OBVIOUS
        <5>2. /\ req' = [req EXCEPT ![c] = q]
              /\ \E p \in 0..Len(mem), row \in MemRow : Addition(p, row)
          BY <2>1, <4>1, <4>3, <5>1, StoreAdds
        <5>3. PICK p \in 0..Len(mem), row \in MemRow : Addition(p, row)
          BY <5>2
        <5>4. Len(mem) + 1 \in 0..MaxMem
          BY <2>1, <5>3, MemoryAssumption DEF Addition, TablesOK
        <5>5. q \in Request /\ q.pc = "insert" /\ q.new = Len(mem) + 1 /\ q.id \in {NoId, p}
          BY <5>1, <5>4, NoRequestIsRequest DEF Request, NoId
        <5>6. /\ index' = index /\ ledger' = ledger /\ replay' = replay /\ refused' = refused
              /\ Silent(req[c])
          BY <4>1 DEF store_transactional, Silent
        <5>7. QED
          BY <2>1, <2>4, <5>2, <5>3, <5>5, <5>6, VectorsAdded
      <4>4. QED
        BY <4>2, <4>3
    <3>3. CASE \E c \in Client, x \in Content : update_transactional(c, x)
      <4>1. PICK c \in Client, x \in Content : update_transactional(c, x)
        BY <3>3
      <4>2. CASE mem' = mem /\ req' = [req EXCEPT ![c] = NoRequest]
        BY <2>1, <2>4, <4>1, <4>2, VectorsAwaited
      <4>3. CASE ~(mem' = mem /\ req' = [req EXCEPT ![c] = NoRequest])
        <5>1. PICK q, p : /\ q = [NoRequest EXCEPT !.pc = "insert", !.id = p, !.new = Len(mem) + 1]
                          /\ p = req[c].id
          OBVIOUS
        <5>2. /\ req' = [req EXCEPT ![c] = q] /\ p \in Id
              /\ \E row \in MemRow : Addition(p, row)
          BY <2>1, <4>1, <4>3, <5>1, UpdateAdds
        <5>3. PICK row \in MemRow : Addition(p, row)
          BY <5>2
        <5>4. Len(mem) + 1 \in 0..MaxMem /\ p \in 0..Len(mem) /\ p \in 0..MaxMem
          BY <2>1, <5>2, <5>3, MemoryAssumption DEF Addition, TablesOK, Id
        <5>5. q \in Request /\ q.pc = "insert" /\ q.new = Len(mem) + 1 /\ q.id \in {NoId, p}
          BY <5>1, <5>4, NoRequestIsRequest DEF Request
        <5>6. /\ index' = index /\ ledger' = ledger /\ replay' = replay /\ refused' = refused
              /\ Silent(req[c])
          BY <4>1 DEF update_transactional, Silent
        <5>7. QED
          BY <2>1, <2>4, <5>2, <5>3, <5>4, <5>5, <5>6, VectorsAdded
      <4>4. QED
        BY <4>2, <4>3
    <3>4. CASE \E c \in Client : index_insert(c) \/ index_delete(c) \/ index_error(c)
      BY <2>1, <2>4, <3>4, VectorsWritten
    <3>5. CASE \E c \in Client : record_vector_sync_failure(c)
      BY <2>1, <2>4, <3>5, VectorsRecorded
    <3>6. CASE \E c \in Client, m \in Id : restore(c, m)
      BY <2>1, <2>4, <3>6, VectorsRestored
    <3>7. CASE \/ \E c \in Client, m \in Id : delete(c, m)
               \/ \E c \in Client, m \in Id, b \in BOOLEAN : mark_forgotten(c, m, b)
               \/ \E m \in Id : mark_archived(m) \/ mark_unarchived(m) \/ approve_memory(m)
               \/ \E m \in Id, x \in Content : edit_and_approve(m, x)
               \/ \E c \in Client, m \in Id, b \in BOOLEAN : reject_memory(c, m, b)
               \/ \E c \in Client : update_forget_reason(c)
      BY <2>1, <2>4, <3>7, VectorsBuried
    <3>8. CASE \E r \in Replayer : replay_vector_sync_pending(r) \/ replay_row_fails(r)
      BY <2>1, <2>4, <3>8, VectorsPassed
    <3>9. CASE \E r \in Replayer : replay_row(r)
      BY <2>1, <2>4, <3>9, VectorsReplayed
    <3>10. CASE \E r \in Replayer : delete_pending_batch(r)
      BY <2>1, <2>4, <3>10, VectorsCleared
    <3>11. QED
      BY <2>4, <3>1, <3>2, <3>3, <3>4, <3>5, <3>6, <3>7, <3>8, <3>9, <3>10, Zenon DEF MemoryStep
  <2>5. QED
    BY <2>2, <2>3, <2>4 DEF MemoryNext
<1>3. QED
  BY <1>1, <1>2, PTL DEF MemorySpec

\* A live memory is in the vector index or about to be: failed index writes, edits,
\* deletions, restores and replays of the ledger lose no vector of a memory that no two
\* of them are on at once, however many requests and replays run beside each other.
THEOREM VectorsAreKept == MemorySpec => []NoVectorLost
<1>1. VectorInv => NoVectorLost
  <2> SUFFICES ASSUME VectorInv, NEW m \in Id \ (raced \cup refused), Live(m), m \notin index
               PROVE  InsertComing(m)
    BY DEF NoVectorLost
  <2>1. Comes(m, {})
    BY DEF VectorInv, VectorComes, Sound
  <2>2. CASE \E c \in Client : Inserts(req[c], m)
    <3>1. m # NoId
      BY DEF Id, NoId
    <3>2. QED
      BY <2>2, <3>1, InsertTouches DEF InsertComing
  <2>3. CASE \E l \in Pending : QueuedInsert(l, m)
    BY <2>3 DEF InsertComing, QueuedInsert, Pending
  <2>4. QED
    BY <2>1, <2>2, <2>3 DEF Comes
<1>2. QED
  BY <1>1, VectorInvariant, PTL
=============================================================================
