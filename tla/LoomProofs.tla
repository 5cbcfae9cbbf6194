----------------------------- MODULE LoomProofs -----------------------------
(***************************************************************************)
(* Proofs about a run of the workflow engine: the order of its steps, that *)
(* no step is executed twice at a time, the bound on its retries, and that *)
(* no run is stranded.                                                     *)
(***************************************************************************)
EXTENDS Loom, FiniteSetTheorems, NaturalsInduction, WellFoundedInduction, TLAPS

Row == [pc : Pc, step : Step, seen : Nat, ready : SUBSET Step, stack : Seq(SUBSET Step)]

\* A task between the moment it took up a step, or a report on it, and its write.
Reporting == {"execute", "complete_write", "fail_write"}

LEMMA IdleRow ==
    Idle \in Row /\ Idle.pc = "idle" /\ Idle.ready = {} /\ Idle.stack = <<>>
<1>1. NoStep \in Step
  BY LoomAssumption DEF NoStep
<1>2. <<>> \in Seq(SUBSET Step) /\ "idle" \in Pc
  BY DEF Pc
<1>3. QED
  BY <1>1, <1>2 DEF Idle, Row

LEMMA PcValues ==
    /\ "idle" \in Pc /\ "insert_steps" \in Pc /\ "read_run" \in Pc /\ "mark_running" \in Pc
    /\ "get_steps" \in Pc /\ "finish" \in Pc /\ "dispatch" \in Pc /\ "execute" \in Pc
    /\ "complete_write" \in Pc /\ "fail_write" \in Pc /\ "cancel_write" \in Pc
  BY DEF Pc

\* The step that is dispatched first is one of those that are ready.
LEMMA FirstReady == ASSUME NEW S \in SUBSET Step, S # {} PROVE Min(S) \in S
<1>1. S \subseteq Nat
  BY LoomAssumption
<1>2. PICK m \in S : \A y \in S : ~(<<y, m>> \in OpToRel(<, Nat))
  BY <1>1, WFMin, NatLessThanWellFounded, Zenon
<1>3. \A y \in S : ~(y < m)
  BY <1>1, <1>2 DEF OpToRel
<1>4. \A y \in S : m <= y
  BY <1>1, <1>3
<1>5. \E x \in S : \A y \in S : x <= y
  BY <1>4
<1>6. QED
  BY <1>5 DEF Min
-----------------------------------------------------------------------------
(* The order of the steps. *)

Met(s) == depends_on[s] \subseteq everCompleted

\* Everything a task is going to dispatch, or reports on, has its dependencies behind it.
RowMet(x) ==
    /\ \A s \in x.ready : Met(s)
    /\ \A i \in 1..Len(x.stack) : \A s \in x.stack[i] : Met(s)
    /\ x.pc \in Reporting => Met(x.step)

TasksMet == \A t \in Task : RowMet(task[t])

StepsMet ==
    \A s \in Step : /\ status[s] = "completed" => s \in everCompleted
                    /\ status[s] \in {"running", "completed", "failed"} => Met(s)

\* Nothing happens before the run is there, and its graph has been validated by then.
BeforeRun ==
    /\ run = "none" => (\A t \in Task : task[t].pc = "idle") /\ (\A s \in Step : status[s] = "none")
    /\ run # "none" => \A s \in Step : depends_on[s] \subseteq Step

\* While the steps are inserted nothing but a cancel can be under way.
WhileInserting ==
    \A t \in Task : task[t].pc = "insert_steps" =>
        /\ \A s \in Step : status[s] = "none"
        /\ \A u \in Task \ {t} : task[u].pc \in {"idle", "cancel_write"}

DownIsIdle == server = "down" => \A t \in Task : task[t].pc = "idle"

LoomInv ==
    /\ TypeOK /\ task \in [Task -> Row]
    /\ TasksMet /\ StepsMet /\ BeforeRun /\ WhileInserting /\ DownIsIdle

LEMMA SomeInserting == ~Inserting => \A u \in Task : task[u].pc # "insert_steps"
  BY DEF Inserting

LEMMA HistoryTypes ==
    ASSUME LoomInv, UNCHANGED <<torn, cut>> PROVE torn' \in BOOLEAN /\ cut' \in BOOLEAN
<1>1. torn \in BOOLEAN /\ cut \in BOOLEAN
  BY DEF LoomInv, TypeOK
<1>2. QED
  BY <1>1, Zenon

\* A step of one task, when the run is there and is not just being inserted.
LEMMA OneTask ==
    ASSUME LoomInv, NEW t \in Task, NEW x \in Row, task' = [task EXCEPT ![t] = x],
           UNCHANGED <<depends_on, auto>>, torn' \in BOOLEAN, cut' \in BOOLEAN,
           run # "none", run' \in RunStatus \ {"none"},
           server # "down", server' \in {"up", "booting"},
           status' \in [Step -> StepStatus], retry_count' \in [Step -> Nat],
           everCompleted \subseteq everCompleted',
           x.pc # "insert_steps",
           \A u \in Task \ {t} : task[u].pc = "insert_steps" =>
               x.pc \in {"idle", "cancel_write"} /\ \A s \in Step : status'[s] = "none",
           RowMet(x)',
           \A s \in Step : \/ status'[s] = status[s]
                           \/ /\ status'[s] = "completed" => s \in everCompleted'
                              /\ status'[s] \in {"running", "completed", "failed"} => Met(s)'
    PROVE  LoomInv'
<1>0. task \in [Task -> Row] /\ TypeOK
  BY DEF LoomInv
<1>1. task' \in [Task -> Row] /\ task'[t] = x /\ \A u \in Task \ {t} : task'[u] = task[u]
  BY <1>0
<1>2. TypeOK'
  <2>1. \A u \in Task : task'[u] \in Row
    BY <1>1
  <2>2. \A u \in Task : /\ task'[u].pc \in Pc /\ task'[u].step \in Step /\ task'[u].seen \in Nat
                        /\ task'[u].ready \subseteq Step /\ task'[u].stack \in Seq(SUBSET Step)
    BY <2>1 DEF Row
  <2>3. depends_on' \in [Step -> SUBSET (Step \cup {Unknown})] /\ auto' \subseteq Step
    BY <1>0 DEF TypeOK
  <2>4. QED
    BY <2>2, <2>3 DEF TypeOK
<1>3. \A s \in Step : Met(s) => Met(s)'
  BY DEF Met
<1>4. TasksMet'
  <2>1. ASSUME NEW u \in Task \ {t} PROVE RowMet(task[u])'
    <3>1. RowMet(task[u])
      BY DEF LoomInv, TasksMet
    <3>2. task[u] \in Row /\ task'[u] = task[u]
      BY <1>0, <1>1
    <3>3. /\ \A s \in task[u].ready : s \in Step
          /\ \A i \in 1..Len(task[u].stack) : \A s \in task[u].stack[i] : s \in Step
          /\ task[u].step \in Step
      BY <3>2 DEF Row
    <3>4. QED
      BY <1>3, <3>1, <3>2, <3>3 DEF RowMet
  <2>2. RowMet(task[t])'
    BY <1>1 DEF RowMet
  <2>3. QED
    BY <2>1, <2>2 DEF TasksMet
<1>5. StepsMet'
  BY <1>3 DEF StepsMet, LoomInv
<1>6. BeforeRun'
  BY DEF BeforeRun, LoomInv
<1>7. WhileInserting'
  <2> SUFFICES ASSUME NEW u \in Task, task'[u].pc = "insert_steps"
               PROVE  /\ \A s \in Step : status'[s] = "none"
                      /\ \A v \in Task \ {u} : task'[v].pc \in {"idle", "cancel_write"}
    BY DEF WhileInserting
  <2>1. u # t /\ task[u].pc = "insert_steps"
    BY <1>1
  <2>2. \A v \in Task \ {u} : task[v].pc \in {"idle", "cancel_write"}
    BY <2>1 DEF WhileInserting, LoomInv
  <2>3. QED
    BY <1>1, <2>1, <2>2
<1>8. DownIsIdle'
  BY DEF DownIsIdle
<1>9. QED
  BY <1>1, <1>2, <1>4, <1>5, <1>6, <1>7, <1>8 DEF LoomInv

\* What holds while a call is under way.
LEMMA UnderWay ==
    ASSUME LoomInv, NEW t \in Task, task[t].pc # "idle"
    PROVE  /\ run # "none" /\ server # "down" /\ task[t] \in Row /\ RowMet(task[t])
           /\ task[t].pc \notin {"insert_steps", "cancel_write"} => ~Inserting
           /\ run \in RunStatus /\ server \in {"up", "booting"}
<1>1. run # "none" /\ server # "down" /\ task[t] \in Row /\ RowMet(task[t])
  BY DEF LoomInv, BeforeRun, DownIsIdle, TasksMet
<1>2. task[t].pc \notin {"insert_steps", "cancel_write"} => ~Inserting
  BY DEF LoomInv, WhileInserting, Inserting
<1>3. run \in RunStatus /\ server \in {"up", "booting", "down"}
  BY DEF LoomInv, TypeOK
<1>4. QED
  BY <1>1, <1>2, <1>3

\* A call ends or returns to the advance_run it interrupted; a status that changes with
\* that becomes "failed" for a step whose dependencies are met.
LEMMA Returns ==
    ASSUME LoomInv, NEW t \in Task, task[t].pc \notin {"idle", "insert_steps", "cancel_write"},
           Return(t) \/ End(t), UNCHANGED <<depends_on, auto, torn, cut, retry_count, everCompleted>>,
           run' \in RunStatus \ {"none"}, status' \in [Step -> StepStatus],
           \A s \in Step : status'[s] = status[s] \/ (status'[s] = "failed" /\ Met(s))
    PROVE  LoomInv'
<1>1. /\ run # "none" /\ server # "down" /\ task[t] \in Row /\ RowMet(task[t]) /\ ~Inserting
      /\ server \in {"up", "booting"}
  BY UnderWay
<1>2. retry_count' \in [Step -> Nat]
  BY DEF LoomInv, TypeOK
<1>3. \A s \in Step : Met(s) => Met(s)'
  BY DEF Met
<1>4. \A s \in Step : \/ status'[s] = status[s]
                      \/ /\ status'[s] = "completed" => s \in everCompleted'
                         /\ status'[s] \in {"running", "completed", "failed"} => Met(s)'
  BY <1>3
<1>5. \E r \in Row : /\ task' = [task EXCEPT ![t] = r] /\ RowMet(r)' /\ r.pc # "insert_steps"
                     /\ server' \in {"up", "booting"}
  <2>1. CASE End(t)
    <3>1. task' = [task EXCEPT ![t] = Idle] /\ server' = "up"
      BY <2>1 DEF End
    <3>2. PICK r \in Row : r = Idle
      BY IdleRow
    <3>3. r.ready = {} /\ r.stack = <<>> /\ r.pc = "idle" /\ Len(r.stack) = 0
      BY <3>2, IdleRow
    <3>4. RowMet(r)'
      BY <3>3 DEF RowMet, Reporting
    <3>5. QED
      BY <3>1, <3>2, <3>3, <3>4
  <2>2. CASE ~End(t)
    <3>1. /\ task[t].stack # <<>> /\ server' = server
          /\ task' = [task EXCEPT ![t].pc = "dispatch",
                                  ![t].ready = task[t].stack[Len(task[t].stack)],
                                  ![t].stack = SubSeq(@, 1, Len(@) - 1)]
      BY <2>2 DEF Return
    <3>2. PICK k \in Seq(SUBSET Step) : k = task[t].stack
      BY <1>1 DEF Row
    <3>3. PICK n \in Nat : n = Len(k) /\ n > 0
      BY <3>1, <3>2
    <3>4. SubSeq(k, 1, n - 1) \in Seq(SUBSET Step) /\ Len(SubSeq(k, 1, n - 1)) = n - 1
      BY <3>2, <3>3
    <3>5. \A i \in 1..(n - 1) : SubSeq(k, 1, n - 1)[i] = k[i]
      BY <3>2, <3>3
    <3>6. k[n] \in SUBSET Step
      BY <3>2, <3>3
    <3>7. PICK r : r = [task[t] EXCEPT !.pc = "dispatch", !.ready = k[n],
                                       !.stack = SubSeq(k, 1, n - 1)]
      OBVIOUS
    <3>8. /\ r \in Row /\ r.pc = "dispatch" /\ r.ready = k[n] /\ r.stack = SubSeq(k, 1, n - 1)
      BY <1>1, <3>4, <3>6, <3>7, PcValues DEF Row
    <3>9. task' = [task EXCEPT ![t] = r]
      BY <1>1, <3>1, <3>2, <3>3, <3>7 DEF LoomInv
    <3>10. \A i \in 1..n : \A s \in k[i] : s \in Step /\ Met(s)
      <4>1. \A i \in 1..n : k[i] \in SUBSET Step
        BY <3>2, <3>3
      <4>2. QED
        BY <1>1, <3>2, <3>3, <4>1 DEF RowMet
    <3>11. /\ \A s \in r.ready : Met(s)'
           /\ \A i \in 1..Len(r.stack) : \A s \in r.stack[i] : Met(s)'
      BY <1>3, <3>3, <3>4, <3>5, <3>8, <3>10
    <3>12. RowMet(r)'
      BY <3>8, <3>11 DEF RowMet, Reporting
    <3>13. QED
      BY <1>1, <3>1, <3>8, <3>9, <3>12
  <2>3. QED
    BY <2>1, <2>2
<1>6. PICK r \in Row : /\ task' = [task EXCEPT ![t] = r] /\ RowMet(r)' /\ r.pc # "insert_steps"
                       /\ server' \in {"up", "booting"}
  BY <1>5
<1>7. torn' \in BOOLEAN /\ cut' \in BOOLEAN /\ \A u \in Task : task[u].pc # "insert_steps"
  BY <1>1, HistoryTypes, SomeInserting
<1>8. QED
  BY <1>1, <1>2, <1>4, <1>6, <1>7, OneTask, Zenon

\* A call goes on: what it holds then already had its dependencies behind it, and so had
\* a step whose status changes.
LEMMA Goes ==
    ASSUME LoomInv, NEW t \in Task, task[t].pc \notin {"idle", "insert_steps", "cancel_write"},
           NEW x \in Row, task' = [task EXCEPT ![t] = x], x.pc # "insert_steps", RowMet(x),
           UNCHANGED <<depends_on, auto, torn, cut, server>>,
           run' \in RunStatus \ {"none"}, status' \in [Step -> StepStatus],
           retry_count' \in [Step -> Nat], everCompleted \subseteq everCompleted',
           \A s \in Step : \/ status'[s] = status[s]
                           \/ status'[s] = "pending"
                           \/ /\ Met(s)
                              /\ status'[s] = "completed" => s \in everCompleted'
    PROVE  LoomInv'
<1>1. /\ run # "none" /\ server # "down" /\ ~Inserting /\ server' \in {"up", "booting"}
  BY UnderWay
<1>2. \A s \in Step : Met(s) => Met(s)'
  BY DEF Met
<1>3. \A s \in Step : \/ status'[s] = status[s]
                      \/ /\ status'[s] = "completed" => s \in everCompleted'
                         /\ status'[s] \in {"running", "completed", "failed"} => Met(s)'
  BY <1>2
<1>4. RowMet(x)'
  <2>1. /\ \A s \in x.ready : s \in Step
        /\ \A i \in 1..Len(x.stack) : \A s \in x.stack[i] : s \in Step
        /\ x.step \in Step
    BY DEF Row
  <2>2. QED
    BY <1>2, <2>1 DEF RowMet
<1>5. torn' \in BOOLEAN /\ cut' \in BOOLEAN /\ \A u \in Task : task[u].pc # "insert_steps"
  BY <1>1, HistoryTypes, SomeInserting
<1>6. QED
  BY <1>1, <1>3, <1>4, <1>5, OneTask, Zenon

\* The same, when only the program counter of the call changes.
LEMMA GoesTo ==
    ASSUME LoomInv, NEW t \in Task, task[t].pc \notin {"idle", "insert_steps", "cancel_write"},
           NEW p \in Pc \ Reporting, p # "insert_steps", Goto(t, p),
           UNCHANGED <<depends_on, auto, torn, cut, server>>,
           run' \in RunStatus \ {"none"}, status' \in [Step -> StepStatus],
           retry_count' \in [Step -> Nat], everCompleted \subseteq everCompleted',
           \A s \in Step : \/ status'[s] = status[s]
                           \/ status'[s] = "pending"
                           \/ /\ Met(s)
                              /\ status'[s] = "completed" => s \in everCompleted'
    PROVE  LoomInv'
<1>1. task[t] \in Row /\ RowMet(task[t])
  BY UnderWay
<1>2. PICK r : r = [task[t] EXCEPT !.pc = p]
  OBVIOUS
<1>3. r \in Row /\ r.pc = p /\ r.ready = task[t].ready /\ r.stack = task[t].stack
  BY <1>1, <1>2 DEF Row
<1>4. task' = [task EXCEPT ![t] = r]
  BY <1>1, <1>2 DEF Goto, LoomInv
<1>5. RowMet(r)
  BY <1>1, <1>3 DEF RowMet
<1>6. QED
  BY <1>3, <1>4, <1>5, Goes, Zenon
-----------------------------------------------------------------------------
(* The steps. *)

LEMMA LoomInit == Init => LoomInv
<1> SUFFICES ASSUME Init PROVE LoomInv
  OBVIOUS
<1>1. task \in [Task -> Row] /\ \A t \in Task : task[t] = Idle
  BY IdleRow DEF Init
<1>2. TypeOK
  <2>1. \A t \in Task : /\ task[t].pc \in Pc /\ task[t].step \in Step /\ task[t].seen \in Nat
                        /\ task[t].ready \subseteq Step /\ task[t].stack \in Seq(SUBSET Step)
    <3>1. \A t \in Task : task[t] \in Row
      BY <1>1
    <3>2. QED
      BY <3>1 DEF Row
  <2>2. torn \in BOOLEAN /\ cut \in BOOLEAN
    BY Zenon DEF Init
  <2>3. QED
    BY <2>1, <2>2 DEF Init, TypeOK, RunStatus, StepStatus
<1>3. TasksMet
  <2>1. \A t \in Task : task[t].pc = "idle" /\ task[t].ready = {} /\ Len(task[t].stack) = 0
    BY <1>1, IdleRow
  <2>2. QED
    BY <2>1 DEF TasksMet, RowMet, Reporting
<1>4. StepsMet /\ BeforeRun
  BY <1>1, IdleRow DEF Init, StepsMet, BeforeRun
<1>5. WhileInserting /\ DownIsIdle
  BY <1>1, IdleRow DEF Init, WhileInserting, DownIsIdle
<1>6. QED
  BY <1>1, <1>2, <1>3, <1>4, <1>5 DEF LoomInv

\* The steps of advance_run.
LEMMA AdvanceSteps ==
    ASSUME LoomInv, NEW t \in Task,
           \/ AdvanceReadRun(t) \/ MarkRunning(t) \/ GetSteps(t) \/ FinishRun(t) \/ DispatchDone(t)
    PROVE  LoomInv'
<1>0. /\ status \in [Step -> StepStatus] /\ retry_count \in [Step -> Nat] /\ run \in RunStatus
      /\ auto \subseteq Step
  BY DEF LoomInv, TypeOK
<1>1. task[t].pc \notin {"idle", "insert_steps", "cancel_write"}
  BY DEF AdvanceReadRun, MarkRunning, GetSteps, FinishRun, DispatchDone
<1>2. run \in RunStatus \ {"none"} /\ task[t] \in Row /\ RowMet(task[t])
  BY <1>1, UnderWay
<1>3. CASE AdvanceReadRun(t)
  <2>1. /\ UNCHANGED <<depends_on, auto, torn, cut, retry_count, everCompleted, status, run>>
        /\ run' \in RunStatus \ {"none"} /\ status' \in [Step -> StepStatus]
        /\ retry_count' \in [Step -> Nat]
    BY <1>0, <1>2, <1>3 DEF AdvanceReadRun, workflow, history
  <2>2. CASE Return(t)
    BY <1>1, <2>1, <2>2, Returns
  <2>3. CASE ~Return(t)
    <3>1. UNCHANGED server /\ \E p \in Pc \ Reporting : p # "insert_steps" /\ Goto(t, p)
      BY <1>3, <2>3, PcValues DEF AdvanceReadRun, Reporting
    <3>2. QED
      BY <1>1, <2>1, <3>1, GoesTo
  <2>4. QED
    BY <2>2, <2>3
<1>4. CASE MarkRunning(t)
  <2>1. /\ UNCHANGED <<depends_on, auto, torn, cut, server, retry_count, everCompleted, status>>
        /\ run' \in RunStatus \ {"none"} /\ status' \in [Step -> StepStatus]
        /\ retry_count' \in [Step -> Nat]
    BY <1>0, <1>2, <1>4 DEF MarkRunning, workflow, history, RunStatus
  <2>2. "get_steps" \in Pc \ Reporting /\ Goto(t, "get_steps")
    BY <1>4, PcValues DEF MarkRunning, Reporting
  <2>3. QED
    BY <1>1, <2>1, <2>2, GoesTo
<1>5. CASE GetSteps(t)
  <2>1. /\ UNCHANGED <<depends_on, auto, torn, cut, server, retry_count, everCompleted, status, run>>
        /\ run' \in RunStatus \ {"none"} /\ status' \in [Step -> StepStatus]
        /\ retry_count' \in [Step -> Nat]
    BY <1>0, <1>2, <1>5 DEF GetSteps, workflow, history
  <2>2. PICK r : r = [task[t] EXCEPT !.pc = IF AllDone THEN "finish" ELSE "dispatch",
                                     !.ready = IF AllDone THEN {} ELSE ReadySteps]
    OBVIOUS
  <2>3. ReadySteps \in SUBSET Step
    BY DEF ReadySteps
  <2>4. /\ r \in Row /\ r.pc \in {"finish", "dispatch"}
        /\ r.ready \subseteq ReadySteps /\ r.stack = task[t].stack
    BY <1>2, <2>2, <2>3, PcValues DEF Row
  <2>5. task' = [task EXCEPT ![t] = r]
    BY <1>2, <1>5, <2>2 DEF GetSteps, LoomInv
  <2>6. \A s \in ReadySteps : Met(s)
    <3> SUFFICES ASSUME NEW s \in ReadySteps, NEW d \in depends_on[s] PROVE d \in everCompleted
      BY DEF Met
    <3>1. s \in Step /\ status[d] = "completed"
      BY DEF ReadySteps, DepsMet
    <3>2. d \in Step
      BY <1>2, <3>1 DEF LoomInv, BeforeRun
    <3>3. QED
      BY <3>1, <3>2 DEF LoomInv, StepsMet
  <2>7. RowMet(r)
    BY <1>2, <2>4, <2>6 DEF RowMet, Reporting
  <2>8. QED
    BY <1>1, <2>1, <2>4, <2>5, <2>7, Goes
<1>6. CASE FinishRun(t)
  <2>1. /\ UNCHANGED <<depends_on, auto, torn, cut, retry_count, everCompleted, status>>
        /\ run' \in RunStatus \ {"none"} /\ status' \in [Step -> StepStatus] /\ Return(t)
    BY <1>0, <1>2, <1>6 DEF FinishRun, workflow, history, RunStatus
  <2>2. QED
    BY <1>1, <2>1, Returns
<1>7. CASE DispatchDone(t)
  <2>1. /\ UNCHANGED <<depends_on, auto, torn, cut, retry_count, everCompleted, status, run>>
        /\ run' \in RunStatus \ {"none"} /\ status' \in [Step -> StepStatus] /\ Return(t)
    BY <1>0, <1>2, <1>7 DEF DispatchDone, workflow, history
  <2>2. QED
    BY <1>1, <2>1, Returns
<1>8. QED
  BY <1>3, <1>4, <1>5, <1>6, <1>7

\* A step is dispatched: claimed, executed inline if it is automated, or skipped.
LEMMA DispatchStep == ASSUME LoomInv, NEW t \in Task, Dispatch(t) PROVE LoomInv'
<1>0. /\ status \in [Step -> StepStatus] /\ retry_count \in [Step -> Nat] /\ auto \subseteq Step
  BY DEF LoomInv, TypeOK
<1>1. task[t].pc = "dispatch" /\ task[t].pc \notin {"idle", "insert_steps", "cancel_write"}
  BY DEF Dispatch
<1>2. run \in RunStatus \ {"none"} /\ task[t] \in Row /\ RowMet(task[t])
  BY <1>1, UnderWay
<1>3. PICK s \in Step : s = Min(task[t].ready) /\ s \in task[t].ready
  <2>1. task[t].ready \in SUBSET Step /\ task[t].ready # {}
    BY <1>2 DEF Row, Dispatch
  <2>2. QED
    BY <2>1, FirstReady
<1>4. PICK rest \in SUBSET Step : rest = task[t].ready \ {s}
  BY <1>2 DEF Row
<1>5. Met(s) /\ \A v \in rest : Met(v)
  BY <1>2, <1>3, <1>4 DEF RowMet
<1>6. /\ UNCHANGED <<depends_on, auto, torn, cut, server, retry_count, everCompleted, run>>
      /\ run' \in RunStatus \ {"none"} /\ retry_count' \in [Step -> Nat]
  BY <1>0, <1>2 DEF Dispatch, workflow, history
<1>7. \/ status' = status /\ task' = [task EXCEPT ![t].ready = rest]
      \/ /\ status' = [status EXCEPT ![s] = "running"]
         /\ \/ task' = [task EXCEPT ![t].ready = rest]
            \/ task' = [task EXCEPT ![t].pc = "execute", ![t].step = s,
                                    ![t].ready = {}, ![t].stack = Append(@, rest)]
  BY <1>3, <1>4 DEF Dispatch
<1>8. /\ status' \in [Step -> StepStatus]
      /\ \A v \in Step : \/ status'[v] = status[v]
                         \/ status'[v] = "pending"
                         \/ Met(v) /\ (status'[v] = "completed" => v \in everCompleted')
  <2>1. "running" \in StepStatus
    BY DEF StepStatus
  <2>2. QED
    BY <1>0, <1>5, <1>7, <2>1
<1>9. CASE task' = [task EXCEPT ![t].ready = rest]
  <2>1. PICK r : r = [task[t] EXCEPT !.ready = rest]
    OBVIOUS
  <2>2. /\ r \in Row /\ r.pc = "dispatch" /\ r.ready = rest /\ r.stack = task[t].stack
        /\ task' = [task EXCEPT ![t] = r]
    BY <1>1, <1>2, <1>9, <2>1 DEF Row, LoomInv
  <2>3. RowMet(r)
    BY <1>2, <1>5, <2>2 DEF RowMet, Reporting
  <2>4. QED
    BY <1>1, <1>6, <1>8, <2>2, <2>3, Goes
<1>10. CASE task' = [task EXCEPT ![t].pc = "execute", ![t].step = s,
                                 ![t].ready = {}, ![t].stack = Append(@, rest)]
  <2>1. PICK k \in Seq(SUBSET Step) : k = task[t].stack
    BY <1>2 DEF Row
  <2>2. PICK q \in Seq(SUBSET Step) : q = Append(k, rest)
    <3>1. \A S : \A a \in Seq(S), e \in S : Append(a, e) \in Seq(S)
      OBVIOUS
    <3>2. QED
      BY <3>1
  <2>3. PICK r : r = [task[t] EXCEPT !.pc = "execute", !.step = s, !.ready = {}, !.stack = q]
    OBVIOUS
  <2>4. /\ r \in Row /\ r.pc = "execute" /\ r.ready = {} /\ r.stack = q /\ r.step = s
    BY <1>2, <2>3, PcValues DEF Row
  <2>5. task' = [task EXCEPT ![t] = r]
    BY <1>2, <1>10, <2>1, <2>2, <2>3 DEF LoomInv
  <2>6. \A i \in 1..Len(q) : \A v \in q[i] : Met(v)
    <3>1. \A i \in 1..Len(k) : \A v \in k[i] : Met(v)
      BY <1>2, <2>1 DEF RowMet
    <3>2. Len(q) = Len(k) + 1 /\ q[Len(k) + 1] = rest /\ \A i \in 1..Len(k) : q[i] = k[i]
      BY <2>2
    <3>3. \A i \in 1..Len(q) : i \in 1..Len(k) \/ i = Len(k) + 1
      BY <3>2
    <3>4. QED
      BY <1>5, <3>1, <3>2, <3>3
  <2>7. RowMet(r)
    BY <1>5, <2>4, <2>6 DEF RowMet
  <2>8. QED
    BY <1>1, <1>6, <1>8, <2>4, <2>5, <2>7, Goes
<1>11. QED
  BY <1>7, <1>9, <1>10

\* An executor or a client has an outcome, having read that the step is running.
LEMMA ReportStep ==
    ASSUME LoomInv, NEW t \in Task, ExecuteEnds(t) \/ \E s \in Step : ExternalReport(t, s)
    PROVE  LoomInv'
<1>0. /\ status \in [Step -> StepStatus] /\ retry_count \in [Step -> Nat] /\ run \in RunStatus
      /\ task[t] \in Row /\ RowMet(task[t]) /\ server \in {"up", "booting", "down"}
  BY DEF LoomInv, TypeOK, TasksMet
<1>1. /\ UNCHANGED <<depends_on, auto, torn, cut, retry_count, everCompleted, run, status>>
      /\ status' \in [Step -> StepStatus] /\ retry_count' \in [Step -> Nat]
  BY <1>0 DEF ExecuteEnds, ExternalReport, workflow, history
<1>2. ASSUME NEW s \in Step, NEW p \in {"complete_write", "fail_write"}, ReadRunning(t, s, p),
             server # "down"
      PROVE  LoomInv'
  <2>1. status[s] = "running" /\ server' = server
    BY <1>2 DEF ReadRunning
  <2>2. run # "none" /\ ~Inserting /\ Met(s)
    BY <2>1 DEF LoomInv, BeforeRun, WhileInserting, Inserting, StepsMet
  <2>3. PICK r : r = [task[t] EXCEPT !.pc = p, !.step = s, !.seen = retry_count[s]]
    OBVIOUS
  <2>4. /\ r \in Row /\ r.pc = p /\ r.step = s /\ r.ready = task[t].ready
        /\ r.stack = task[t].stack
    BY <1>0, <2>3, PcValues DEF Row
  <2>5. task' = [task EXCEPT ![t] = r]
    BY <1>0, <1>2, <2>3 DEF ReadRunning, LoomInv
  <2>6. RowMet(r)'
    BY <1>0, <1>1, <2>2, <2>4 DEF RowMet, Met
  <2>7. r.pc # "insert_steps" /\ run' \in RunStatus \ {"none"} /\ server' \in {"up", "booting"}
    BY <1>0, <1>1, <1>2, <2>1, <2>2, <2>4
  <2>8. torn' \in BOOLEAN /\ cut' \in BOOLEAN /\ \A u \in Task : task[u].pc # "insert_steps"
    BY <1>1, <2>2, HistoryTypes, SomeInserting
  <2>9. QED
    BY <1>1, <1>2, <2>2, <2>4, <2>5, <2>6, <2>7, <2>8, OneTask
<1>3. CASE ExecuteEnds(t)
  <2>1. task[t].pc \notin {"idle", "insert_steps", "cancel_write"} /\ task[t].step \in Step
    BY <1>0, <1>3 DEF ExecuteEnds, Row
  <2>2. server # "down" /\ run' \in RunStatus \ {"none"}
    BY <1>0, <1>1, <2>1, UnderWay
  <2>3. CASE End(t)
    BY <1>1, <2>1, <2>2, <2>3, Returns
  <2>4. CASE ~End(t)
    BY <1>2, <1>3, <2>1, <2>2, <2>4 DEF ExecuteEnds
  <2>5. QED
    BY <2>3, <2>4
<1>4. CASE \E s \in Step : ExternalReport(t, s)
  BY <1>2, <1>4 DEF ExternalReport, Serving
<1>5. QED
  BY <1>3, <1>4

\* The outcome is written.
LEMMA WriteStep ==
    ASSUME LoomInv, NEW t \in Task, CompleteWrite(t) \/ FailRetry(t) \/ FailExhausted(t)
    PROVE  LoomInv'
<1>0. /\ status \in [Step -> StepStatus] /\ retry_count \in [Step -> Nat]
  BY DEF LoomInv, TypeOK
<1>1. /\ task[t].pc \notin {"idle", "insert_steps", "cancel_write"}
      /\ task[t].pc \in Reporting
  BY DEF CompleteWrite, FailRetry, FailExhausted, Reporting
<1>2. run \in RunStatus \ {"none"} /\ task[t] \in Row /\ RowMet(task[t])
  BY <1>1, UnderWay
<1>3. PICK s \in Step : s = task[t].step
  BY <1>2 DEF Row
<1>4. Met(s)
  BY <1>1, <1>2, <1>3 DEF RowMet
<1>5. "read_run" \in Pc \ Reporting
  BY PcValues DEF Reporting
<1>6. CASE CompleteWrite(t)
  <2>1. /\ UNCHANGED <<depends_on, auto, torn, cut, server, retry_count, run>> /\ Goto(t, "read_run")
        /\ run' \in RunStatus \ {"none"} /\ retry_count' \in [Step -> Nat]
        /\ status' = [status EXCEPT ![s] = "completed"]
        /\ everCompleted' = everCompleted \cup {s}
    BY <1>0, <1>2, <1>3, <1>6 DEF CompleteWrite, workflow
  <2>2. status' \in [Step -> StepStatus]
    BY <1>0, <2>1 DEF StepStatus
  <2>3. QED
    BY <1>0, <1>1, <1>4, <1>5, <2>1, <2>2, GoesTo
<1>7. CASE FailRetry(t)
  <2>1. /\ UNCHANGED <<depends_on, auto, torn, cut, server, everCompleted, run>> /\ Goto(t, "read_run")
        /\ run' \in RunStatus \ {"none"}
        /\ status' = [status EXCEPT ![s] = "pending"]
        /\ retry_count' = [retry_count EXCEPT ![s] = @ + 1]
    BY <1>0, <1>2, <1>3, <1>7 DEF FailRetry, workflow, history
  <2>2. status' \in [Step -> StepStatus] /\ retry_count' \in [Step -> Nat]
    BY <1>0, <2>1 DEF StepStatus
  <2>3. QED
    BY <1>0, <1>1, <1>5, <2>1, <2>2, GoesTo
<1>8. CASE FailExhausted(t)
  <2>1. /\ UNCHANGED <<depends_on, auto, torn, cut, retry_count, everCompleted>> /\ Return(t)
        /\ run' \in RunStatus \ {"none"}
        /\ status' = [status EXCEPT ![s] = "failed"]
    BY <1>0, <1>2, <1>3, <1>8 DEF FailExhausted, workflow, history, RunStatus
  <2>2. status' \in [Step -> StepStatus]
    BY <1>0, <2>1 DEF StepStatus
  <2>3. QED
    BY <1>0, <1>1, <1>4, <2>1, <2>2, Returns
<1>9. QED
  BY <1>6, <1>7, <1>8

LEMMA CancelSteps == ASSUME LoomInv, NEW t \in Task, cancel_run(t) \/ CancelWrite(t) PROVE LoomInv'
<1>0. /\ status \in [Step -> StepStatus] /\ retry_count \in [Step -> Nat] /\ run \in RunStatus
      /\ task[t] \in Row /\ RowMet(task[t])
  BY DEF LoomInv, TypeOK, TasksMet
<1>1. CASE cancel_run(t)
  <2>1. PICK r : r = [task[t] EXCEPT !.pc = "cancel_write"]
    OBVIOUS
  <2>2. /\ r \in Row /\ r.pc = "cancel_write" /\ r.ready = task[t].ready /\ r.stack = task[t].stack
    BY <1>0, <2>1, PcValues DEF Row
  <2>3. task' = [task EXCEPT ![t] = r]
    BY <1>0, <1>1, <2>1 DEF cancel_run, Goto, LoomInv
  <2>4. UNCHANGED <<depends_on, auto, torn, cut, server, retry_count, everCompleted, run, status>>
    BY <1>1 DEF cancel_run, workflow, history
  <2>5. RowMet(r)'
    BY <1>0, <2>2, <2>4 DEF RowMet, Met, Reporting
  <2>6. server = "up" /\ server' = "up" /\ run # "none" /\ run' \in RunStatus \ {"none"}
    BY <1>0, <1>1, <2>4 DEF cancel_run, Serving
  <2>7. \A u \in Task : task[u].pc = "insert_steps" => \A s \in Step : status'[s] = "none"
    BY <2>4 DEF LoomInv, WhileInserting
  <2>8. torn' \in BOOLEAN /\ cut' \in BOOLEAN
    BY <2>4, HistoryTypes
  <2>9. QED
    BY <1>0, <2>2, <2>3, <2>4, <2>5, <2>6, <2>7, <2>8, OneTask
<1>2. CASE CancelWrite(t)
  <2>1. PICK r : r = Idle
    OBVIOUS
  <2>2. r \in Row /\ r.pc = "idle" /\ r.ready = {} /\ Len(r.stack) = 0
    BY <2>1, IdleRow
  <2>3. task' = [task EXCEPT ![t] = r] /\ server' = "up"
    BY <1>2, <2>1 DEF CancelWrite, End
  <2>4. /\ UNCHANGED <<depends_on, auto, torn, cut, retry_count, everCompleted>>
        /\ run' \in RunStatus \ {"none"}
    BY <1>2 DEF CancelWrite, workflow, history, RunStatus
  <2>5. RowMet(r)'
    BY <2>2 DEF RowMet, Reporting
  <2>6. run # "none" /\ server # "down"
    BY <1>2, UnderWay DEF CancelWrite
  <2>7. /\ status' \in [Step -> StepStatus]
        /\ \A s \in Step : status'[s] = status[s] \/ status'[s] = "skipped"
        /\ \A s \in Step : status[s] = "none" => status'[s] = "none"
    BY <1>0, <1>2 DEF CancelWrite, StepStatus
  <2>8. \A u \in Task : task[u].pc = "insert_steps" => \A s \in Step : status'[s] = "none"
    BY <2>7 DEF LoomInv, WhileInserting
  <2>9. retry_count' \in [Step -> Nat] /\ torn' \in BOOLEAN /\ cut' \in BOOLEAN
    BY <1>0, <2>4, HistoryTypes
  <2>10. QED
    BY <2>2, <2>3, <2>4, <2>5, <2>6, <2>7, <2>8, <2>9, OneTask
<1>3. QED
  BY <1>1, <1>2

\* The run is created and its steps are inserted; nothing else can have begun.
LEMMA CreateSteps == ASSUME LoomInv, NEW t \in Task, create_run(t) \/ InsertSteps(t) PROVE LoomInv'
<1>0. /\ task \in [Task -> Row] /\ TypeOK /\ \A u \in Task : RowMet(task[u])
  BY DEF LoomInv, TasksMet
<1>1. /\ depends_on \in [Step -> SUBSET (Step \cup {Unknown})] /\ auto \subseteq Step
      /\ run \in RunStatus /\ status \in [Step -> StepStatus] /\ retry_count \in [Step -> Nat]
      /\ server \in {"up", "booting", "down"}
  BY <1>0 DEF TypeOK
<1>2. /\ UNCHANGED <<depends_on, auto, torn, cut, server, retry_count, everCompleted>>
      /\ \E p \in {"insert_steps", "read_run"} : task' = [task EXCEPT ![t].pc = p]
  BY DEF create_run, InsertSteps, Goto, workflow, history
<1>3. PICK p \in {"insert_steps", "read_run"} : task' = [task EXCEPT ![t].pc = p]
  BY <1>2
<1>4. /\ task' \in [Task -> Row] /\ task'[t].pc = p
      /\ task'[t].ready = task[t].ready /\ task'[t].stack = task[t].stack
      /\ \A u \in Task \ {t} : task'[u] = task[u]
  BY <1>0, <1>3, PcValues DEF Row
<1>5. \A u \in Task : RowMet(task[u])'
  <2>1. \A u \in Task : /\ task'[u].ready = task[u].ready /\ task'[u].stack = task[u].stack
                        /\ task'[u].pc \in Reporting => task'[u] = task[u]
    BY <1>4 DEF Reporting
  <2>2. QED
    BY <1>0, <1>2, <2>1 DEF RowMet, Met
<1>6. ASSUME run' \in RunStatus, status' \in [Step -> StepStatus] PROVE TypeOK'
  <2>1. \A u \in Task : task'[u] \in Row
    BY <1>4
  <2>2. \A u \in Task : /\ task'[u].pc \in Pc /\ task'[u].step \in Step /\ task'[u].seen \in Nat
                        /\ task'[u].ready \subseteq Step /\ task'[u].stack \in Seq(SUBSET Step)
    BY <2>1 DEF Row
  <2>3. torn' \in BOOLEAN /\ cut' \in BOOLEAN
    BY <1>2, HistoryTypes
  <2>4. /\ depends_on' \in [Step -> SUBSET (Step \cup {Unknown})] /\ auto' \subseteq Step
        /\ retry_count' \in [Step -> Nat] /\ server' \in {"up", "booting", "down"}
    BY <1>1, <1>2
  <2>5. QED
    BY <1>6, <2>2, <2>3, <2>4 DEF TypeOK
<1>7. CASE create_run(t)
  <2>1. run = "none" /\ run' = "pending" /\ status' = status /\ server' = "up"
    BY <1>2, <1>7 DEF create_run, Serving
  <2>2. \A s \in Step : depends_on[s] \subseteq Step
    BY <1>7 DEF create_run, validate_step_graph
  <2>3. (\A u \in Task : task[u].pc = "idle") /\ \A s \in Step : status[s] = "none"
    BY <2>1 DEF LoomInv, BeforeRun
  <2>4. TypeOK'
    BY <1>1, <1>6, <2>1 DEF RunStatus
  <2>5. BeforeRun'
    BY <1>2, <2>1, <2>2 DEF BeforeRun
  <2>6. WhileInserting'
    BY <1>4, <2>1, <2>3 DEF WhileInserting
  <2>7. StepsMet' /\ DownIsIdle'
    BY <2>1, <2>3 DEF StepsMet, DownIsIdle
  <2>8. QED
    BY <1>4, <1>5, <2>4, <2>5, <2>6, <2>7 DEF LoomInv, TasksMet
<1>8. CASE InsertSteps(t)
  <2>1. task[t].pc = "insert_steps" /\ run' = run /\ status' = [s \in Step |-> "pending"]
    BY <1>8 DEF InsertSteps
  <2>2. p = "read_run"
    <3>1. task' = [task EXCEPT ![t].pc = "read_run"]
      BY <1>8 DEF InsertSteps, Goto
    <3>2. task'[t].pc = "read_run"
      BY <1>0, <3>1 DEF Row
    <3>3. QED
      BY <1>4, <3>2
  <2>3. \A u \in Task \ {t} : task[u].pc \in {"idle", "cancel_write"}
    BY <2>1 DEF LoomInv, WhileInserting
  <2>4. run # "none" /\ server # "down"
    BY <2>1, UnderWay
  <2>5. TypeOK'
    BY <1>1, <1>6, <2>1 DEF StepStatus
  <2>6. BeforeRun'
    BY <1>2, <2>1, <2>4 DEF LoomInv, BeforeRun
  <2>7. WhileInserting'
    BY <1>4, <2>2, <2>3 DEF WhileInserting
  <2>8. StepsMet' /\ DownIsIdle'
    BY <1>2, <2>1, <2>4 DEF StepsMet, DownIsIdle
  <2>9. QED
    BY <1>4, <1>5, <2>5, <2>6, <2>7, <2>8 DEF LoomInv, TasksMet
<1>9. QED
  BY <1>7, <1>8

\* After a crash, and when boot finds runs to resume, at most one call is there and it
\* holds no step.
LEMMA BootSteps == ASSUME LoomInv, Crash \/ \E t \in Task : recover_inflight_runs(t) PROVE LoomInv'
<1>0. /\ task \in [Task -> Row] /\ TypeOK /\ \A u \in Task : RowMet(task[u])
  BY DEF LoomInv, TasksMet
<1>1. /\ depends_on \in [Step -> SUBSET (Step \cup {Unknown})] /\ auto \subseteq Step
      /\ run \in RunStatus /\ status \in [Step -> StepStatus] /\ retry_count \in [Step -> Nat]
      /\ server \in {"up", "booting", "down"}
  BY <1>0 DEF TypeOK
<1>2. ASSUME task' \in [Task -> Row], \A u \in Task : RowMet(task[u])',
             \A u \in Task : task'[u].pc \in {"idle", "read_run"},
             run' = "none" => \A u \in Task : task'[u].pc = "idle",
             server' = "down" => \A u \in Task : task'[u].pc = "idle",
             UNCHANGED <<depends_on, auto, retry_count, everCompleted>>,
             run' \in RunStatus, status' \in [Step -> StepStatus],
             server' \in {"up", "booting", "down"}, torn' \in BOOLEAN, cut' \in BOOLEAN,
             run = "none" => run' = "none" /\ status' = status, run' = "none" => run = "none",
             \A s \in Step : \/ status'[s] = status[s] \/ status'[s] \in {"pending", "none"}
                             \/ status'[s] = "failed" /\ Met(s)
      PROVE  LoomInv'
  <2>1. \A u \in Task : task'[u] \in Row
    BY <1>2
  <2>2. \A u \in Task : /\ task'[u].pc \in Pc /\ task'[u].step \in Step /\ task'[u].seen \in Nat
                        /\ task'[u].ready \subseteq Step /\ task'[u].stack \in Seq(SUBSET Step)
    BY <2>1 DEF Row
  <2>3. /\ depends_on' \in [Step -> SUBSET (Step \cup {Unknown})] /\ auto' \subseteq Step
        /\ retry_count' \in [Step -> Nat]
    BY <1>1, <1>2
  <2>4. TypeOK'
    BY <1>2, <2>2, <2>3 DEF TypeOK
  <2>5. \A s \in Step : Met(s) => Met(s)'
    BY <1>2 DEF Met
  <2>6. StepsMet'
    BY <1>2, <2>5 DEF LoomInv, StepsMet
  <2>7. BeforeRun'
    BY <1>2 DEF LoomInv, BeforeRun
  <2>8. WhileInserting' /\ DownIsIdle'
    BY <1>2 DEF WhileInserting, DownIsIdle
  <2>9. QED
    BY <1>2, <2>4, <2>6, <2>7, <2>8 DEF LoomInv, TasksMet
<1>3. CASE Crash
  <2>1. /\ server' = "down" /\ task' = [t \in Task |-> Idle]
        /\ UNCHANGED <<depends_on, auto, retry_count, everCompleted>>
    BY <1>3 DEF Crash, workflow
  <2>2. task' \in [Task -> Row] /\ \A u \in Task : task'[u] = Idle
    BY <2>1, IdleRow
  <2>3. \A u \in Task : task'[u].pc = "idle" /\ task'[u].ready = {} /\ Len(task'[u].stack) = 0
    BY <2>2, IdleRow
  <2>4. \A u \in Task : RowMet(task[u])'
    BY <2>3 DEF RowMet, Reporting
  <2>5. torn' \in BOOLEAN /\ cut' \in BOOLEAN
    <3>1. (torn' = TRUE \/ torn' = (torn \/ Inserting)) /\ cut' = cut
      BY <1>3 DEF Crash
    <3>2. cut \in BOOLEAN
      BY <1>0 DEF TypeOK
    <3>3. QED
      BY <3>1, <3>2, Zenon
  <2>6. CASE run' = run /\ status' = status
    <3>1. \A s \in Step : status'[s] = status[s]
      BY <2>6
    <3>2. QED
      BY <1>1, <1>2, <2>1, <2>2, <2>3, <2>4, <2>5, <2>6, <3>1
  <2>7. CASE ~(run' = run /\ status' = status)
    <3>1. PICK t \in Task : HalfWritten(t)
      BY <1>3, <2>7 DEF Crash
    <3>2. task[t].pc \in {"insert_steps", "fail_write", "cancel_write"}
      BY <3>1 DEF HalfWritten
    <3>3. run # "none" /\ task[t] \in Row /\ RowMet(task[t])
      BY <3>2, UnderWay
    <3>4. task[t].step \in Step /\ (task[t].pc = "fail_write" => Met(task[t].step))
      BY <3>3 DEF RowMet, Reporting, Row
    <3>5. run' \in RunStatus \ {"none"}
      BY <1>1, <3>1, <3>3 DEF HalfWritten, RunStatus
    <3>6. /\ status' \in [Step -> StepStatus]
          /\ \A s \in Step : \/ status'[s] = status[s] \/ status'[s] \in {"pending", "none"}
                             \/ status'[s] = "failed" /\ Met(s)
      <4>1. CASE \E n \in Step : status' = [s \in Step |-> IF s <= n THEN "pending" ELSE "none"]
        BY <4>1 DEF StepStatus
      <4>2. CASE task[t].pc = "fail_write" /\ status' = [status EXCEPT ![task[t].step] = "failed"]
        BY <1>1, <3>4, <4>2 DEF StepStatus
      <4>3. CASE status' = status
        BY <1>1, <4>3
      <4>4. QED
        BY <3>1, <4>1, <4>2, <4>3 DEF HalfWritten
    <3>7. QED
      BY <1>2, <2>1, <2>2, <2>3, <2>4, <2>5, <3>3, <3>5, <3>6
  <2>8. QED
    BY <2>6, <2>7
<1>4. CASE \E t \in Task : recover_inflight_runs(t)
  <2>1. PICK t \in Task : recover_inflight_runs(t)
    BY <1>4
  <2>2. /\ server = "down" /\ UNCHANGED <<depends_on, auto, run, retry_count, everCompleted, torn>>
        /\ cut' = FALSE /\ server' \in {"booting", "up"}
        /\ status' = [s \in Step |-> IF InFlight /\ s \in auto /\ status[s] = "running"
                                     THEN "pending" ELSE status[s]]
        /\ \/ InFlight /\ task' = [task EXCEPT ![t].pc = "read_run"]
           \/ ~InFlight /\ task' = task
    BY <2>1 DEF recover_inflight_runs, Goto, workflow, history
  <2>3. \A u \in Task : task[u].pc = "idle"
    BY <2>2 DEF LoomInv, DownIsIdle
  <2>4. /\ task' \in [Task -> Row] /\ \A u \in Task : task'[u].pc \in {"idle", "read_run"}
        /\ \A u \in Task : task'[u].ready = task[u].ready /\ task'[u].stack = task[u].stack
        /\ run' = "none" => \A u \in Task : task'[u].pc = "idle"
    <3>1. CASE ~InFlight
      BY <1>0, <2>2, <2>3, <3>1
    <3>2. CASE InFlight
      <4>1. run' # "none"
        BY <2>2, <3>2 DEF InFlight
      <4>2. task' = [task EXCEPT ![t].pc = "read_run"]
        BY <2>2, <3>2
      <4>3. QED
        BY <1>0, <2>3, <4>1, <4>2, PcValues DEF Row
    <3>3. QED
      BY <3>1, <3>2
  <2>5. \A u \in Task : RowMet(task[u])'
    BY <1>0, <2>2, <2>4 DEF RowMet, Met, Reporting
  <2>6. /\ status' \in [Step -> StepStatus]
        /\ \A s \in Step : status'[s] = status[s] \/ status'[s] = "pending"
    BY <1>1, <2>2 DEF StepStatus
  <2>7. run = "none" => status' = status
    BY <1>1, <2>2 DEF InFlight
  <2>8. torn' \in BOOLEAN /\ cut' \in BOOLEAN
    <3>1. torn \in BOOLEAN
      BY <1>0 DEF TypeOK
    <3>2. QED
      BY <2>2, <3>1, Zenon
  <2>9. QED
    BY <1>1, <1>2, <2>2, <2>4, <2>5, <2>6, <2>7, <2>8
<1>5. QED
  BY <1>3, <1>4

\* A call that is cut off leaves at most a part of one closure's writes behind.
LEMMA CutOffStep == ASSUME LoomInv, NEW t \in Task, CutOff(t) PROVE LoomInv'
<1>0. /\ status \in [Step -> StepStatus] /\ retry_count \in [Step -> Nat] /\ run \in RunStatus
      /\ torn \in BOOLEAN /\ cut \in BOOLEAN
  BY DEF LoomInv, TypeOK
<1>1. /\ task[t].pc # "idle" /\ End(t)
      /\ UNCHANGED <<depends_on, auto, retry_count, everCompleted>>
  BY DEF CutOff, workflow
<1>2. run # "none" /\ server # "down" /\ task[t] \in Row /\ RowMet(task[t])
  BY <1>1, UnderWay
<1>3. PICK r : r = Idle
  OBVIOUS
<1>4. r \in Row /\ r.pc = "idle" /\ r.ready = {} /\ Len(r.stack) = 0
  BY <1>3, IdleRow
<1>5. task' = [task EXCEPT ![t] = r] /\ server' = "up"
  BY <1>1, <1>3 DEF End
<1>6. RowMet(r)'
  BY <1>4 DEF RowMet, Reporting
<1>7. torn' \in BOOLEAN /\ cut' \in BOOLEAN
  <2>1. /\ torn' = TRUE \/ torn' = (torn \/ task[t].pc = "insert_steps")
        /\ cut' = TRUE \/ cut' = (cut \/ ~Unwritten(t))
    BY DEF CutOff
  <2>2. QED
    BY <2>1, Zenon
<1>8. ASSUME run' \in RunStatus \ {"none"}, status' \in [Step -> StepStatus],
             \A s \in Step : \/ status'[s] = status[s] \/ status'[s] \in {"pending", "none"}
                             \/ status'[s] = "failed" /\ Met(s),
             \A u \in Task \ {t} : task[u].pc = "insert_steps" => status' = status
      PROVE  LoomInv'
  <2>1. \A s \in Step : \/ status'[s] = status[s]
                        \/ /\ status'[s] = "completed" => s \in everCompleted'
                           /\ status'[s] \in {"running", "completed", "failed"} => Met(s)'
    BY <1>1, <1>8 DEF Met
  <2>2. \A u \in Task \ {t} : task[u].pc = "insert_steps" => \A s \in Step : status'[s] = "none"
    BY <1>8 DEF LoomInv, WhileInserting
  <2>3. retry_count' \in [Step -> Nat] /\ everCompleted \subseteq everCompleted'
    BY <1>0, <1>1
  <2>4. QED
    BY <1>1, <1>2, <1>4, <1>5, <1>6, <1>7, <1>8, <2>1, <2>2, <2>3, OneTask
<1>9. CASE run' = run /\ status' = status
  BY <1>0, <1>2, <1>8, <1>9
<1>10. CASE ~(run' = run /\ status' = status)
  <2>1. HalfWritten(t)
    BY <1>10 DEF CutOff
  <2>2. task[t].step \in Step /\ (task[t].pc = "fail_write" => Met(task[t].step))
    BY <1>2 DEF RowMet, Reporting, Row
  <2>3. run' \in RunStatus \ {"none"}
    BY <1>0, <1>2, <2>1 DEF HalfWritten, RunStatus
  <2>4. CASE task[t].pc = "insert_steps"
    <3>1. \A u \in Task \ {t} : task[u].pc # "insert_steps"
      BY <2>4 DEF LoomInv, WhileInserting
    <3>2. PICK n \in Step : status' = [s \in Step |-> IF s <= n THEN "pending" ELSE "none"]
      BY <2>1, <2>4 DEF HalfWritten
    <3>3. /\ status' \in [Step -> StepStatus]
          /\ \A s \in Step : status'[s] \in {"pending", "none"}
      BY <3>2 DEF StepStatus
    <3>4. QED
      BY <1>8, <2>3, <3>1, <3>3
  <2>5. CASE task[t].pc = "fail_write"
    <3>1. \A u \in Task : task[u].pc # "insert_steps"
      BY <2>5, UnderWay, SomeInserting
    <3>2. status' = [status EXCEPT ![task[t].step] = "failed"]
      BY <2>1, <2>5 DEF HalfWritten
    <3>3. /\ status' \in [Step -> StepStatus]
          /\ \A s \in Step : status'[s] = status[s] \/ (status'[s] = "failed" /\ Met(s))
      BY <1>0, <2>2, <2>5, <3>2 DEF StepStatus
    <3>4. QED
      BY <1>8, <2>3, <3>1, <3>3
  <2>6. CASE task[t].pc = "cancel_write"
    BY <1>0, <1>8, <2>1, <2>3, <2>6 DEF HalfWritten
  <2>7. QED
    BY <2>1, <2>4, <2>5, <2>6 DEF HalfWritten
<1>11. QED
  BY <1>9, <1>10

\* The call stacks and columns keep their types, and what is or will be started has its
\* dependencies behind it.
THEOREM LoomInvariant == Spec => []LoomInv
<1>1. LoomInv /\ [Next]_vars => LoomInv'
  <2> SUFFICES ASSUME LoomInv, [Next]_vars PROVE LoomInv'
    OBVIOUS
  <2>1. CASE UNCHANGED vars
    BY <2>1 DEF vars, LoomInv, TypeOK, TasksMet, RowMet, Met, StepsMet, BeforeRun,
                WhileInserting, DownIsIdle
  <2>2. CASE Next
    BY <2>2, CreateSteps, AdvanceSteps, DispatchStep, ReportStep, WriteStep, CancelSteps,
       BootSteps, CutOffStep DEF Next
  <2>3. QED
    BY <2>1, <2>2
<1>2. QED
  BY <1>1, LoomInit, PTL DEF Spec

\* Columns and call stacks keep their types.
THEOREM TypeCorrect == Spec => []TypeOK
<1>1. LoomInv => TypeOK
  BY DEF LoomInv
<1>2. QED
  BY <1>1, LoomInvariant, PTL

\* No step starts before every step it depends on has been completed, whoever reports,
\* cancels or crashes in between: advance_run only dispatches what it found ready.
THEOREM StepsStartAfterDeps == Spec => []StartsAfterDeps
<1>1. LoomInv => StartsAfterDeps
  BY DEF LoomInv, StepsMet, Met, StartsAfterDeps
<1>2. QED
  BY <1>1, LoomInvariant, PTL
-----------------------------------------------------------------------------
(* Executions of the automated steps that no client reports on. *)

Own == auto \ reported

\* A task has such a step in hand from the claim to the write of its outcome.
Holds(t) == task[t].pc \in Reporting /\ task[t].step \in Own

ExecutesAuto == \A t \in Task : task[t].pc = "execute" => task[t].step \in auto

\* A step in hand cannot be claimed, and is in one hand only.
InHand ==
    /\ \A t \in Task : Holds(t) => status[task[t].step] # "pending"
    /\ \A t, u \in Task : Holds(t) /\ Holds(u) /\ task[t].step = task[u].step => t = u

\* The retry count that fail_step read is still the step's when it is written.
CountIsFresh ==
    \A t \in Task : task[t].pc = "fail_write" /\ task[t].step \in Own =>
        task[t].seen = retry_count[task[t].step]

OwnRetriesBounded == \A s \in Own : retry_count[s] <= max_retries[s]

ExecInv == LoomInv /\ ExecutesAuto /\ InHand /\ CountIsFresh /\ OwnRetriesBounded

\* A step of one task, which leaves nothing new in its hand.
LEMMA HandsOff ==
    ASSUME ExecInv, LoomInv', NEW t \in Task, \A u \in Task \ {t} : task'[u] = task[u],
           auto' = auto, Own' \subseteq Own, OwnRetriesBounded',
           \/ task'[t].pc \notin Reporting
           \/ task'[t].pc \in {"complete_write", "fail_write"} /\ task'[t].step \notin Own',
           \A u \in Task \ {t} : Holds(u) =>
               /\ status[task[u].step] # "pending" => status'[task[u].step] # "pending"
               /\ retry_count'[task[u].step] = retry_count[task[u].step]
    PROVE  ExecInv'
<1>1. ~Holds(t)' /\ ~(task'[t].pc = "execute")
  BY DEF Holds, Reporting
<1>2. \A u \in Task \ {t} : Holds(u)' => Holds(u)
  BY DEF Holds
<1>3. ExecutesAuto'
  BY <1>1 DEF ExecInv, ExecutesAuto
<1>4. InHand'
  BY <1>1, <1>2 DEF ExecInv, InHand
<1>5. CountIsFresh'
  BY <1>1 DEF ExecInv, CountIsFresh, Holds, Reporting
<1>6. QED
  BY <1>3, <1>4, <1>5 DEF ExecInv

\* Where a call may be after it moved on by Goto, End or Return.
LEMMA NextPc ==
    ASSUME task \in [Task -> Row], NEW t \in Task
    PROVE  /\ \A p : Goto(t, p) => task'[t].pc = p
           /\ End(t) => task'[t].pc = "idle"
           /\ Return(t) => task'[t].pc \in {"idle", "dispatch"}
           /\ \A p : Goto(t, p) \/ End(t) \/ Return(t) => \A u \in Task \ {t} : task'[u] = task[u]
<1>1. ASSUME NEW p, Goto(t, p) PROVE task'[t].pc = p /\ \A u \in Task \ {t} : task'[u] = task[u]
  BY <1>1 DEF Goto, Row
<1>2. ASSUME End(t) PROVE task'[t].pc = "idle" /\ \A u \in Task \ {t} : task'[u] = task[u]
  BY <1>2, IdleRow DEF End
<1>3. ASSUME Return(t)
      PROVE  task'[t].pc \in {"idle", "dispatch"} /\ \A u \in Task \ {t} : task'[u] = task[u]
  <2>1. CASE End(t)
    BY <1>2, <2>1
  <2>2. CASE ~End(t)
    <3>1. task' = [task EXCEPT ![t].pc = "dispatch",
                               ![t].ready = task[t].stack[Len(task[t].stack)],
                               ![t].stack = SubSeq(@, 1, Len(@) - 1)]
      BY <1>3, <2>2 DEF Return
    <3>2. QED
      BY <3>1 DEF Row
  <2>3. QED
    BY <2>1, <2>2
<1>4. QED
  BY <1>1, <1>2, <1>3

\* Steps that write no retry count and leave nothing in hand.
LEMMA QuietSteps ==
    ASSUME ExecInv, LoomInv', NEW t \in Task,
           \/ create_run(t) \/ InsertSteps(t) \/ AdvanceReadRun(t) \/ MarkRunning(t) \/ GetSteps(t)
           \/ FinishRun(t) \/ DispatchDone(t) \/ CompleteWrite(t) \/ FailExhausted(t)
           \/ cancel_run(t) \/ CancelWrite(t) \/ CutOff(t)
    PROVE  ExecInv'
<1>0. /\ task \in [Task -> Row] /\ status \in [Step -> StepStatus] /\ LoomInv /\ auto \subseteq Step
  BY DEF ExecInv, LoomInv, TypeOK
<1>1. retry_count' = retry_count /\ auto' = auto /\ Own' = Own
  BY DEF create_run, InsertSteps, AdvanceReadRun, MarkRunning, GetSteps, FinishRun, DispatchDone,
         CompleteWrite, FailExhausted, cancel_run, CancelWrite, CutOff, workflow, history, Own
<1>2. /\ task'[t].pc \notin Reporting
      /\ \A u \in Task \ {t} : task'[u] = task[u]
  <2>1. CASE GetSteps(t)
    BY <1>0, <2>1 DEF GetSteps, Row, Reporting
  <2>2. CASE create_run(t) \/ InsertSteps(t) \/ MarkRunning(t) \/ CompleteWrite(t) \/ cancel_run(t)
    <3>1. \E p \in {"insert_steps", "read_run", "get_steps", "cancel_write"} : Goto(t, p)
      BY <2>2 DEF create_run, InsertSteps, MarkRunning, CompleteWrite, cancel_run
    <3>2. QED
      BY <1>0, <3>1, NextPc DEF Reporting
  <2>3. CASE FinishRun(t) \/ DispatchDone(t) \/ FailExhausted(t)
    <3>1. Return(t)
      BY <2>3 DEF FinishRun, DispatchDone, FailExhausted
    <3>2. QED
      BY <1>0, <3>1, NextPc DEF Reporting
  <2>4. CASE CancelWrite(t) \/ CutOff(t)
    BY <1>0, <2>4, NextPc DEF Reporting, CancelWrite, CutOff
  <2>5. CASE AdvanceReadRun(t)
    <3>1. Return(t) \/ \E p \in {"mark_running", "get_steps"} : Goto(t, p)
      BY <2>5 DEF AdvanceReadRun
    <3>2. QED
      BY <1>0, <3>1, NextPc DEF Reporting
  <2>6. QED
    BY <2>1, <2>2, <2>3, <2>4, <2>5
<1>3. \A u \in Task \ {t} : Holds(u) =>
          (status[task[u].step] # "pending" => status'[task[u].step] # "pending")
  <2> SUFFICES ASSUME NEW u \in Task \ {t}, Holds(u), status[task[u].step] # "pending"
               PROVE  status'[task[u].step] # "pending"
    OBVIOUS
  <2>1. PICK s \in Step : s = task[u].step
    BY <1>0 DEF Row
  <2>2. CASE InsertSteps(t)
    <3>1. task[u].pc \in {"idle", "cancel_write"}
      BY <1>0, <2>2 DEF InsertSteps, LoomInv, WhileInserting
    <3>2. QED
      BY <3>1 DEF Holds, Reporting
  <2>3. CASE status' = status
    BY <2>3
  <2>4. CASE CompleteWrite(t) \/ FailExhausted(t) \/ CancelWrite(t)
    <3>1. status'[s] = status[s] \/ status'[s] \in {"completed", "failed", "skipped"}
      BY <1>0, <2>4 DEF CompleteWrite, FailExhausted, CancelWrite
    <3>2. QED
      BY <2>1, <3>1
  <2>5. CASE CutOff(t)
    <3>1. CASE task[t].pc = "insert_steps"
      <4>1. task[u].pc \in {"idle", "cancel_write"}
        BY <1>0, <3>1 DEF LoomInv, WhileInserting
      <4>2. QED
        BY <4>1 DEF Holds, Reporting
    <3>2. CASE task[t].pc # "insert_steps"
      <4>1. status' = status \/ status' = [status EXCEPT ![task[t].step] = "failed"]
        BY <2>5, <3>2 DEF CutOff, HalfWritten
      <4>2. status'[s] = status[s] \/ status'[s] = "failed"
        BY <1>0, <4>1
      <4>3. QED
        BY <2>1, <4>2
    <3>3. QED
      BY <3>1, <3>2
  <2>6. QED
    BY <2>2, <2>3, <2>4, <2>5 DEF create_run, AdvanceReadRun, MarkRunning, GetSteps, FinishRun,
       DispatchDone, cancel_run
<1>4. OwnRetriesBounded'
  BY <1>1 DEF ExecInv, OwnRetriesBounded
<1>5. QED
  BY <1>1, <1>2, <1>3, <1>4, HandsOff

\* The executor's own failure is the only one that re-arms an automated step.
LEMMA RetryStep == ASSUME ExecInv, LoomInv', NEW t \in Task, FailRetry(t) PROVE ExecInv'
<1>0. /\ task \in [Task -> Row] /\ status \in [Step -> StepStatus] /\ auto \subseteq Step
      /\ retry_count \in [Step -> Nat] /\ max_retries \in [Step -> Nat]
  BY LoomAssumption DEF ExecInv, LoomInv, TypeOK
<1>1. PICK s \in Step : s = task[t].step
  BY <1>0 DEF Row
<1>2. /\ task[t].pc = "fail_write" /\ auto' = auto /\ Own' = Own /\ task[t].seen < max_retries[s]
      /\ status' = [status EXCEPT ![s] = "pending"]
      /\ retry_count' = [retry_count EXCEPT ![s] = @ + 1]
      /\ Goto(t, "read_run")
  BY <1>1 DEF FailRetry, RetryLeft, workflow, history, Own
<1>3. task'[t].pc = "read_run" /\ \A u \in Task \ {t} : task'[u] = task[u]
  BY <1>0, <1>2, NextPc
<1>4. \A u \in Task \ {t} : Holds(u) => task[u].step # s
  BY <1>1, <1>2 DEF ExecInv, InHand, Holds, Reporting
<1>4a. Own \subseteq Step
  BY <1>0 DEF Own
<1>5. \A u \in Task : task[u].step \in Step
  BY <1>0 DEF Row
<1>6. \A u \in Task \ {t} : Holds(u) =>
          /\ status[task[u].step] # "pending" => status'[task[u].step] # "pending"
          /\ retry_count'[task[u].step] = retry_count[task[u].step]
  BY <1>0, <1>2, <1>4, <1>5
<1>7. OwnRetriesBounded'
  <2>1. s \in Own => retry_count[s] < max_retries[s]
    BY <1>1, <1>2 DEF ExecInv, CountIsFresh
  <2>2. \A v \in Own : retry_count'[v] <= max_retries[v]
    <3> SUFFICES ASSUME NEW v \in Own PROVE retry_count'[v] <= max_retries[v]
      OBVIOUS
    <3>1. v \in Step /\ retry_count[v] \in Nat /\ max_retries[v] \in Nat
      BY <1>0, <1>4a
    <3>2. retry_count[v] <= max_retries[v]
      BY DEF ExecInv, OwnRetriesBounded
    <3>3. retry_count'[v] = IF v = s THEN retry_count[v] + 1 ELSE retry_count[v]
      BY <1>0, <1>2, <3>1
    <3>4. QED
      BY <2>1, <3>1, <3>2, <3>3
  <2>3. QED
    BY <1>2, <2>2 DEF OwnRetriesBounded
<1>8. QED
  BY <1>2, <1>3, <1>6, <1>7, HandsOff DEF Reporting

\* The claim takes a step that is in nobody's hand.
LEMMA ClaimStep == ASSUME ExecInv, LoomInv', NEW t \in Task, Dispatch(t) PROVE ExecInv'
<1>0. /\ task \in [Task -> Row] /\ status \in [Step -> StepStatus] /\ auto \subseteq Step
      /\ \A u \in Task : task[u].step \in Step
  BY DEF ExecInv, LoomInv, TypeOK, Row
<1>1. PICK s \in Step : s = Min(task[t].ready)
  <2>1. task[t].ready \in SUBSET Step /\ task[t].ready # {}
    BY <1>0 DEF Row, Dispatch
  <2>2. QED
    BY <2>1, FirstReady
<1>2. PICK rest : rest = task[t].ready \ {s}
  OBVIOUS
<1>3. /\ task[t].pc = "dispatch" /\ auto' = auto /\ Own' = Own /\ retry_count' = retry_count
      /\ \/ status' = status /\ task' = [task EXCEPT ![t].ready = rest]
         \/ /\ status[s] = "pending" /\ status' = [status EXCEPT ![s] = "running"]
            /\ \/ task' = [task EXCEPT ![t].ready = rest]
               \/ /\ s \in auto
                  /\ task' = [task EXCEPT ![t].pc = "execute", ![t].step = s,
                                          ![t].ready = {}, ![t].stack = Append(@, rest)]
  BY <1>1, <1>2 DEF Dispatch, Claimable, workflow, history, Own
<1>4. OwnRetriesBounded'
  BY <1>3 DEF ExecInv, OwnRetriesBounded
<1>5. \A v \in Step : status[v] # "pending" => status'[v] # "pending"
  BY <1>0, <1>3
<1>6. CASE task' = [task EXCEPT ![t].ready = rest]
  <2>1. task'[t].pc = "dispatch" /\ \A u \in Task \ {t} : task'[u] = task[u]
    BY <1>0, <1>3, <1>6 DEF Row
  <2>2. QED
    BY <1>0, <1>3, <1>4, <1>5, <2>1, HandsOff DEF Reporting
<1>7. CASE /\ status[s] = "pending" /\ status' = [status EXCEPT ![s] = "running"] /\ s \in auto
           /\ task' = [task EXCEPT ![t].pc = "execute", ![t].step = s,
                                   ![t].ready = {}, ![t].stack = Append(@, rest)]
  <2>1. /\ task'[t].pc = "execute" /\ task'[t].step = s
        /\ \A u \in Task \ {t} : task'[u] = task[u]
    BY <1>0, <1>7 DEF Row
  <2>2. \A u \in Task : Holds(u) => task[u].step # s
    BY <1>7 DEF ExecInv, InHand
  <2>3. \A u \in Task \ {t} : Holds(u)' = Holds(u)
    BY <1>3, <2>1 DEF Holds
  <2>4. \A u \in Task \ {t} : Holds(u)' => task'[u].step # s
    BY <2>1, <2>2, <2>3
  <2>5. status'[s] = "running"
    BY <1>0, <1>7
  <2>6. InHand'
    <3>1. \A u \in Task : Holds(u)' => status'[task'[u].step] # "pending"
      <4>1. \A u \in Task \ {t} : Holds(u) => status[task[u].step] # "pending"
        BY DEF ExecInv, InHand
      <4>2. QED
        BY <1>0, <1>5, <2>1, <2>3, <2>5, <4>1
    <3>2. \A u, v \in Task : Holds(u)' /\ Holds(v)' /\ task'[u].step = task'[v].step => u = v
      <4>1. \A u, v \in Task : Holds(u) /\ Holds(v) /\ task[u].step = task[v].step => u = v
        BY DEF ExecInv, InHand
      <4>2. QED
        BY <2>1, <2>3, <2>4, <4>1
    <3>3. QED
      BY <3>1, <3>2 DEF InHand
  <2>7. ExecutesAuto' /\ CountIsFresh'
    <3>1. \A u \in Task : task'[u].pc = "execute" => task'[u].step \in auto
      BY <1>7, <2>1 DEF ExecInv, ExecutesAuto
    <3>2. \A u \in Task : task'[u].pc = "fail_write" => task'[u] = task[u]
      BY <2>1
    <3>3. \A u \in Task : task[u].pc = "fail_write" /\ task[u].step \in Own =>
              task[u].seen = retry_count[task[u].step]
      BY DEF ExecInv, CountIsFresh
    <3>4. QED
      BY <1>3, <3>1, <3>2, <3>3 DEF ExecutesAuto, CountIsFresh
  <2>8. QED
    BY <1>4, <2>6, <2>7 DEF ExecInv
<1>8. QED
  BY <1>3, <1>6, <1>7

\* The executor goes on to its report, or a client reports: that step is then out of the count.
LEMMA OutcomeStep ==
    ASSUME ExecInv, LoomInv', NEW t \in Task,
           ExecuteEnds(t) \/ \E s \in Step : ExternalReport(t, s)
    PROVE  ExecInv'
<1>0. /\ task \in [Task -> Row] /\ status \in [Step -> StepStatus] /\ auto \subseteq Step
      /\ \A u \in Task : task[u].step \in Step
  BY DEF ExecInv, LoomInv, TypeOK, Row
<1>1. auto' = auto /\ retry_count' = retry_count /\ status' = status
  BY DEF ExecuteEnds, ExternalReport, workflow
<1>1a. Own' \subseteq Own /\ (ExecuteEnds(t) => Own' = Own)
  BY DEF ExecuteEnds, ExternalReport, workflow, history, Own
<1>2. OwnRetriesBounded'
  BY <1>1, <1>1a DEF ExecInv, OwnRetriesBounded
<1>3. ASSUME NEW s \in Step, NEW p \in {"complete_write", "fail_write"}, ReadRunning(t, s, p)
      PROVE  /\ task'[t].pc = p /\ task'[t].step = s /\ task'[t].seen = retry_count[s]
             /\ status[s] = "running" /\ \A u \in Task \ {t} : task'[u] = task[u]
  BY <1>0, <1>3 DEF ReadRunning, Row
<1>4. CASE \E s \in Step : ExternalReport(t, s)
  <2>1. PICK s \in Step : ExternalReport(t, s)
    BY <1>4
  <2>2. s \notin Own' /\ \E p \in {"complete_write", "fail_write"} : ReadRunning(t, s, p)
    BY <1>1, <2>1 DEF ExternalReport, Own
  <2>3. /\ task'[t].pc \in {"complete_write", "fail_write"} /\ task'[t].step = s
        /\ \A u \in Task \ {t} : task'[u] = task[u]
    BY <1>3, <2>2
  <2>4. QED
    BY <1>1, <1>1a, <1>2, <2>2, <2>3, HandsOff
<1>5. CASE ExecuteEnds(t)
  <2>1. task[t].pc = "execute" /\ Own' = Own
    BY <1>1a, <1>5 DEF ExecuteEnds
  <2>2. CASE End(t)
    BY <1>0, <1>1, <1>1a, <1>2, <2>2, NextPc, HandsOff DEF Reporting
  <2>3. CASE ~End(t)
    <3>1. \E p \in {"complete_write", "fail_write"} : ReadRunning(t, task[t].step, p)
      BY <1>5, <2>3 DEF ExecuteEnds
    <3>2. /\ task'[t].pc \in {"complete_write", "fail_write"} /\ task'[t].step = task[t].step
          /\ task'[t].seen = retry_count[task[t].step]
          /\ \A u \in Task \ {t} : task'[u] = task[u]
      BY <1>0, <1>3, <3>1
    <3>3. \A u \in Task : Holds(u)' = Holds(u) /\ task'[u].step = task[u].step
      BY <1>1, <2>1, <3>2 DEF Holds, Reporting
    <3>4. InHand'
      BY <1>1, <3>3 DEF ExecInv, InHand
    <3>5. ExecutesAuto' /\ CountIsFresh'
      BY <1>1, <2>1, <3>2 DEF ExecInv, ExecutesAuto, CountIsFresh
    <3>6. QED
      BY <1>2, <3>4, <3>5 DEF ExecInv
  <2>4. QED
    BY <2>2, <2>3
<1>6. QED
  BY <1>4, <1>5

\* After a crash, and at boot, no step is in hand.
LEMMA EmptyHands ==
    ASSUME ExecInv, LoomInv', Crash \/ \E t \in Task : recover_inflight_runs(t)
    PROVE  ExecInv'
<1>1. retry_count' = retry_count /\ auto' = auto /\ Own' = Own
  BY DEF Crash, recover_inflight_runs, workflow, Own
<1>2. \A u \in Task : task'[u].pc \in {"idle", "read_run"}
  <2>1. CASE Crash
    BY <2>1, IdleRow DEF Crash
  <2>2. CASE \E t \in Task : recover_inflight_runs(t)
    <3>1. \A u \in Task : task[u].pc = "idle"
      BY <2>2 DEF recover_inflight_runs, ExecInv, LoomInv, DownIsIdle
    <3>2. task \in [Task -> Row]
      BY DEF ExecInv, LoomInv
    <3>3. QED
      BY <2>2, <3>1, <3>2 DEF recover_inflight_runs, Goto, Row
  <2>3. QED
    BY <2>1, <2>2
<1>3. ExecutesAuto' /\ InHand' /\ CountIsFresh'
  BY <1>2 DEF ExecutesAuto, InHand, CountIsFresh, Holds, Reporting
<1>4. QED
  BY <1>1, <1>3 DEF ExecInv, OwnRetriesBounded

LEMMA ExecInit == Init => ExecInv
<1> SUFFICES ASSUME Init PROVE ExecInv
  OBVIOUS
<1>1. \A t \in Task : task[t].pc = "idle"
  BY IdleRow DEF Init
<1>2. ExecutesAuto /\ InHand /\ CountIsFresh
  BY <1>1 DEF ExecutesAuto, InHand, CountIsFresh, Holds, Reporting
<1>3. OwnRetriesBounded
  <2>1. \A s \in Own : s \in Step /\ retry_count[s] = 0
    BY DEF Init, Own
  <2>2. \A s \in Step : 0 <= max_retries[s]
    BY LoomAssumption
  <2>3. QED
    BY <2>1, <2>2 DEF OwnRetriesBounded
<1>4. QED
  BY <1>2, <1>3, LoomInit DEF ExecInv

\* An automated step that no client reports on is in one hand from its claim to its outcome.
THEOREM ExecutionInvariant == Spec => []ExecInv
<1>1. ExecInv /\ LoomInv' /\ [Next]_vars => ExecInv'
  <2> SUFFICES ASSUME ExecInv, LoomInv', [Next]_vars PROVE ExecInv'
    OBVIOUS
  <2>1. CASE UNCHANGED vars
    BY <2>1 DEF vars, ExecInv, ExecutesAuto, InHand, Holds, CountIsFresh, OwnRetriesBounded, Own
  <2>2. CASE Next
    BY <2>2, QuietSteps, RetryStep, ClaimStep, OutcomeStep, EmptyHands DEF Next
  <2>3. QED
    BY <2>1, <2>2
<1>2. QED
  BY <1>1, ExecInit, LoomInvariant, PTL DEF Spec

\* No automated step that no client reports on is executed by two tasks at a time, over
\* crashes, restarts and calls cut off, and whatever advances of the run interleave: the
\* compare-and-swap of advance_run is enough.
THEOREM ExecutedOnceAtATime == Spec => []NoDoubleExecution
<1>1. ExecInv => NoDoubleExecution
  <2> SUFFICES ASSUME ExecInv, NEW s \in Step \ reported, NEW t \in Task, NEW u \in Task, t # u,
                      task[t].pc = "execute", task[u].pc = "execute",
                      task[t].step = s, task[u].step = s
               PROVE  FALSE
    BY DEF NoDoubleExecution, DoubleExecution
  <2>1. s \in Own
    BY DEF ExecInv, ExecutesAuto, Own
  <2>2. QED
    BY <2>1 DEF ExecInv, InHand, Holds, Reporting
<1>2. QED
  BY <1>1, ExecutionInvariant, PTL
-----------------------------------------------------------------------------
(* How far reports that race can push the retry count. *)

\* Calls about to write a retry of s, each for a count it read earlier.
Failing(s) ==
    {t \in Task : task[t].pc = "fail_write" /\ task[t].step = s /\ task[t].seen < max_retries[s]}

\* The retries there are and those on their way.
RaceBounded ==
    \A s \in Step : retry_count[s] + Cardinality(Failing(s)) <= max_retries[s] + Cardinality(Task) - 1

RaceInv == LoomInv /\ RaceBounded

LEMMA FailingCount ==
    /\ Cardinality(Task) \in Nat \ {0}
    /\ \A S \in SUBSET Task : IsFiniteSet(S) /\ Cardinality(S) \in Nat /\ Cardinality(S) <= Cardinality(Task)
    /\ \A S, T \in SUBSET Task : S \subseteq T => Cardinality(S) <= Cardinality(T)
<1>1. IsFiniteSet(Task) /\ Task # {}
  BY LoomAssumption
<1>2. Cardinality(Task) \in Nat /\ Cardinality(Task) # 0
  BY <1>1, FS_CardinalityType, FS_EmptySet
<1>3. ASSUME NEW S \in SUBSET Task
      PROVE  IsFiniteSet(S) /\ Cardinality(S) \in Nat /\ Cardinality(S) <= Cardinality(Task)
  BY <1>1, FS_Subset, FS_CardinalityType
<1>4. ASSUME NEW S \in SUBSET Task, NEW T \in SUBSET Task, S \subseteq T
      PROVE  Cardinality(S) <= Cardinality(T)
  BY <1>3, <1>4, FS_Subset
<1>5. QED
  BY <1>2, <1>3, <1>4

\* Whatever takes no new call to fail_write, and writes no count, keeps the bound.
LEMMA NoNewFailing ==
    ASSUME RaceInv, LoomInv', retry_count' = retry_count,
           \A u \in Task : task'[u].pc = "fail_write" => task'[u] = task[u]
    PROVE  RaceInv'
<1>1. \A s \in Step : Failing(s)' \subseteq Failing(s) /\ Failing(s) \in SUBSET Task
  BY DEF Failing
<1>2. \A s \in Step : Cardinality(Failing(s)') <= Cardinality(Failing(s))
  <2> SUFFICES ASSUME NEW s \in Step PROVE Cardinality(Failing(s)') <= Cardinality(Failing(s))
    OBVIOUS
  <2>1. PICK S : S = Failing(s)'
    OBVIOUS
  <2>2. PICK T : T = Failing(s)
    OBVIOUS
  <2>3. S \subseteq T /\ S \in SUBSET Task /\ T \in SUBSET Task
    BY <1>1, <2>1, <2>2
  <2>4. Cardinality(S) <= Cardinality(T)
    BY <2>3, FailingCount
  <2>5. QED
    BY <2>1, <2>2, <2>4
<1>3. \A s \in Step : /\ retry_count[s] \in Nat /\ max_retries[s] \in Nat
                      /\ Cardinality(Failing(s)) \in Nat /\ Cardinality(Failing(s)') \in Nat
  <2>1. retry_count \in [Step -> Nat] /\ max_retries \in [Step -> Nat]
    BY LoomAssumption DEF RaceInv, LoomInv, TypeOK
  <2>2. \A s \in Step : Failing(s) \in SUBSET Task /\ Failing(s)' \in SUBSET Task
    BY DEF Failing
  <2>3. \A s \in Step : Cardinality(Failing(s)) \in Nat /\ Cardinality(Failing(s)') \in Nat
    BY <2>2, FailingCount
  <2>4. QED
    BY <2>1, <2>3
<1>4. RaceBounded'
  <2> SUFFICES ASSUME NEW s \in Step
               PROVE  retry_count'[s] + Cardinality(Failing(s)') <= max_retries[s] + Cardinality(Task) - 1
    BY DEF RaceBounded
  <2>1. retry_count[s] + Cardinality(Failing(s)) <= max_retries[s] + Cardinality(Task) - 1
    BY DEF RaceInv, RaceBounded
  <2>2. QED
    BY <1>2, <1>3, <2>1, FailingCount
<1>5. QED
  BY <1>4 DEF RaceInv

\* fail_step reads a count below the limit: even if all others are about to write, there is room.
LEMMA FailingRead ==
    ASSUME RaceInv, LoomInv', NEW t \in Task,
           ExecuteEnds(t) \/ \E s \in Step : ExternalReport(t, s)
    PROVE  RaceInv'
<1>0. task \in [Task -> Row] /\ retry_count \in [Step -> Nat] /\ max_retries \in [Step -> Nat]
      /\ task[t].step \in Step
  BY LoomAssumption DEF RaceInv, LoomInv, TypeOK, Row
<1>1. retry_count' = retry_count
  BY DEF ExecuteEnds, ExternalReport
<1>2. CASE End(t)
  <2>1. task'[t].pc = "idle" /\ \A u \in Task \ {t} : task'[u] = task[u]
    BY <1>0, <1>2, NextPc
  <2>2. QED
    BY <1>1, <2>1, NoNewFailing
<1>3. CASE ~End(t)
  <2>1. PICK s \in Step, p \in {"complete_write", "fail_write"} : ReadRunning(t, s, p)
    BY <1>0, <1>3 DEF ExecuteEnds, ExternalReport
  <2>2. /\ task'[t].step = s /\ task'[t].seen = retry_count[s]
        /\ \A u \in Task \ {t} : task'[u] = task[u]
    BY <1>0, <2>1 DEF ReadRunning, Row
  <2>3. ASSUME NEW v \in Step
        PROVE  retry_count'[v] + Cardinality(Failing(v)') <= max_retries[v] + Cardinality(Task) - 1
    <3>0. PICK S, T : S = Failing(v) /\ T = Failing(v)'
      OBVIOUS
    <3>1. S \in SUBSET Task /\ T \in SUBSET Task
      BY <3>0 DEF Failing
    <3>2. /\ Cardinality(S) \in Nat /\ Cardinality(T) \in Nat /\ Cardinality(Task) \in Nat \ {0}
          /\ Cardinality(T) <= Cardinality(Task)
          /\ retry_count[v] \in Nat /\ max_retries[v] \in Nat
      BY <1>0, <3>1, FailingCount
    <3>3. CASE v = s /\ retry_count[s] < max_retries[s]
      <4>1. QED
        BY <1>1, <3>0, <3>2, <3>3
    <3>4. CASE v # s \/ ~(retry_count[s] < max_retries[s])
      <4>1. T \subseteq S
        BY <2>2, <3>0, <3>4 DEF Failing
      <4>2. Cardinality(T) <= Cardinality(S)
        BY <3>1, <4>1, FailingCount
      <4>3. retry_count[v] + Cardinality(S) <= max_retries[v] + Cardinality(Task) - 1
        BY <3>0 DEF RaceInv, RaceBounded
      <4>4. QED
        BY <1>1, <3>0, <3>2, <4>2, <4>3
    <3>5. QED
      BY <3>3, <3>4
  <2>4. RaceBounded'
    BY <2>3 DEF RaceBounded
  <2>5. QED
    BY <2>4 DEF RaceInv
<1>4. QED
  BY <1>2, <1>3

\* A retry is written: one call fewer is on its way.
LEMMA FailingWrite == ASSUME RaceInv, LoomInv', NEW t \in Task, FailRetry(t) PROVE RaceInv'
<1>0. task \in [Task -> Row] /\ retry_count \in [Step -> Nat] /\ max_retries \in [Step -> Nat]
  BY LoomAssumption DEF RaceInv, LoomInv, TypeOK
<1>1. PICK s \in Step : s = task[t].step
  BY <1>0 DEF Row
<1>2. /\ task[t].pc = "fail_write" /\ task[t].seen < max_retries[s] /\ Goto(t, "read_run")
      /\ retry_count' = [retry_count EXCEPT ![s] = @ + 1]
  BY <1>1 DEF FailRetry, RetryLeft
<1>3. task'[t].pc = "read_run" /\ \A u \in Task \ {t} : task'[u] = task[u]
  BY <1>0, <1>2, NextPc
<1>4. ASSUME NEW v \in Step
      PROVE  retry_count'[v] + Cardinality(Failing(v)') <= max_retries[v] + Cardinality(Task) - 1
  <2>0. PICK S, T : S = Failing(v) /\ T = Failing(v)'
    OBVIOUS
  <2>1. S \in SUBSET Task /\ T \in SUBSET Task /\ T \subseteq S
    BY <1>3, <2>0 DEF Failing
  <2>2. /\ Cardinality(S) \in Nat /\ Cardinality(T) \in Nat /\ Cardinality(Task) \in Nat
        /\ Cardinality(T) <= Cardinality(S) /\ IsFiniteSet(S)
        /\ retry_count[v] \in Nat /\ max_retries[v] \in Nat
    BY <1>0, <2>1, FailingCount
  <2>3. retry_count[v] + Cardinality(S) <= max_retries[v] + Cardinality(Task) - 1
    BY <2>0 DEF RaceInv, RaceBounded
  <2>4. CASE v = s
    <3>1. t \in S /\ T = S \ {t}
      BY <1>1, <1>2, <1>3, <2>0, <2>4 DEF Failing
    <3>2. Cardinality(T) = Cardinality(S) - 1
      BY <2>2, <3>1, FS_RemoveElement
    <3>3. retry_count'[v] = retry_count[v] + 1
      BY <1>0, <1>2, <2>4
    <3>4. QED
      BY <2>0, <2>2, <2>3, <3>2, <3>3
  <2>5. CASE v # s
    <3>1. retry_count'[v] = retry_count[v]
      BY <1>0, <1>2, <2>5
    <3>2. QED
      BY <2>0, <2>2, <2>3, <3>1
  <2>6. QED
    BY <2>4, <2>5
<1>5. RaceBounded'
  BY <1>4 DEF RaceBounded
<1>6. QED
  BY <1>5 DEF RaceInv

\* The other steps.
LEMMA QuietRace ==
    ASSUME RaceInv, LoomInv', NEW t \in Task,
           \/ create_run(t) \/ InsertSteps(t) \/ AdvanceReadRun(t) \/ MarkRunning(t) \/ GetSteps(t)
           \/ FinishRun(t) \/ DispatchDone(t) \/ CompleteWrite(t) \/ FailExhausted(t)
           \/ cancel_run(t) \/ CancelWrite(t) \/ CutOff(t) \/ Dispatch(t) \/ recover_inflight_runs(t)
    PROVE  RaceInv'
<1>0. task \in [Task -> Row]
  BY DEF RaceInv, LoomInv
<1>1. retry_count' = retry_count
  BY DEF create_run, InsertSteps, AdvanceReadRun, MarkRunning, GetSteps, FinishRun, DispatchDone,
         CompleteWrite, FailExhausted, cancel_run, CancelWrite, CutOff, Dispatch, recover_inflight_runs
<1>2. task'[t].pc # "fail_write" /\ \A u \in Task \ {t} : task'[u] = task[u]
  <2>1. CASE GetSteps(t)
    BY <1>0, <2>1 DEF GetSteps, Row
  <2>2. CASE create_run(t) \/ InsertSteps(t) \/ MarkRunning(t) \/ CompleteWrite(t) \/ cancel_run(t)
    <3>1. \E p \in {"insert_steps", "read_run", "get_steps", "cancel_write"} : Goto(t, p)
      BY <2>2 DEF create_run, InsertSteps, MarkRunning, CompleteWrite, cancel_run
    <3>2. QED
      BY <1>0, <3>1, NextPc
  <2>3. CASE FinishRun(t) \/ DispatchDone(t) \/ FailExhausted(t) \/ CancelWrite(t) \/ CutOff(t)
    <3>1. Return(t) \/ End(t)
      BY <2>3 DEF FinishRun, DispatchDone, FailExhausted, CancelWrite, CutOff
    <3>2. QED
      BY <1>0, <3>1, NextPc
  <2>4. CASE AdvanceReadRun(t)
    <3>1. Return(t) \/ \E p \in {"mark_running", "get_steps"} : Goto(t, p)
      BY <2>4 DEF AdvanceReadRun
    <3>2. QED
      BY <1>0, <3>1, NextPc
  <2>5. CASE Dispatch(t)
    <3>0. PICK s : s = Min(task[t].ready)
      OBVIOUS
    <3>1. PICK rest \in SUBSET Step : rest = task[t].ready \ {s}
      BY <1>0 DEF Row
    <3>2. /\ task[t].pc = "dispatch"
          /\ \/ task' = [task EXCEPT ![t].ready = rest]
             \/ task' = [task EXCEPT ![t].pc = "execute", ![t].step = s,
                                     ![t].ready = {}, ![t].stack = Append(@, rest)]
      BY <2>5, <3>0, <3>1 DEF Dispatch
    <3>3. CASE task' = [task EXCEPT ![t].ready = rest]
      BY <1>0, <3>2, <3>3 DEF Row
    <3>4. CASE task' = [task EXCEPT ![t].pc = "execute", ![t].step = s,
                                    ![t].ready = {}, ![t].stack = Append(@, rest)]
      BY <1>0, <3>4 DEF Row
    <3>5. QED
      BY <3>2, <3>3, <3>4
  <2>6. CASE recover_inflight_runs(t)
    <3>1. task[t].pc = "idle"
      BY <2>6 DEF recover_inflight_runs, RaceInv, LoomInv, DownIsIdle
    <3>2. CASE Goto(t, "read_run")
      BY <1>0, <3>2, NextPc
    <3>3. CASE task' = task
      BY <3>1, <3>3
    <3>4. QED
      BY <2>6, <3>2, <3>3 DEF recover_inflight_runs
  <2>7. QED
    BY <2>1, <2>2, <2>3, <2>4, <2>5, <2>6
<1>3. \A u \in Task : task'[u].pc = "fail_write" => task'[u] = task[u]
  BY <1>2
<1>4. QED
  BY <1>1, <1>3, NoNewFailing

THEOREM RaceInvariant == Spec => []RaceInv
<1>1. Init => RaceInv
  <2> SUFFICES ASSUME Init PROVE RaceInv
    OBVIOUS
  <2>1. \A s \in Step : Failing(s) = {} /\ retry_count[s] = 0
    BY IdleRow DEF Init, Failing
  <2>2. RaceBounded
    BY <2>1, FailingCount, FS_EmptySet, LoomAssumption DEF RaceBounded
  <2>3. QED
    BY <2>2, LoomInit DEF RaceInv
<1>2. RaceInv /\ LoomInv' /\ [Next]_vars => RaceInv'
  <2> SUFFICES ASSUME RaceInv, LoomInv', [Next]_vars PROVE RaceInv'
    OBVIOUS
  <2>1. CASE UNCHANGED vars
    BY <2>1, NoNewFailing DEF vars
  <2>2. CASE Crash
    <3>1. retry_count' = retry_count /\ \A u \in Task : task'[u].pc = "idle"
      BY <2>2, IdleRow DEF Crash
    <3>2. QED
      BY <3>1, NoNewFailing
  <2>3. CASE Next /\ ~Crash
    BY <2>3, QuietRace, FailingRead, FailingWrite DEF Next
  <2>4. QED
    BY <2>1, <2>2, <2>3
<1>3. QED
  BY <1>1, <1>2, LoomInvariant, PTL DEF Spec

\* fail_step's check of the count it read earlier bounds the retries: of an automated step that
\* only its executor reports on by max_retries, of any other by the calls that can race as well.
THEOREM RetriesAreBounded == Spec => []RetriesBounded
<1>1. ExecInv /\ RaceInv => RetriesBounded
  <2> SUFFICES ASSUME ExecInv, RaceInv, NEW s \in Step
               PROVE  retry_count[s] <=
                        max_retries[s] + (IF s \in auto \ reported THEN 0 ELSE Cardinality(Task) - 1)
    BY DEF RetriesBounded
  <2>1. retry_count[s] \in Nat /\ max_retries[s] \in Nat
    BY LoomAssumption DEF ExecInv, LoomInv, TypeOK
  <2>2. CASE s \in auto \ reported
    BY <2>1, <2>2 DEF ExecInv, OwnRetriesBounded, Own
  <2>3. CASE s \notin auto \ reported
    <3>1. retry_count[s] + Cardinality(Failing(s)) <= max_retries[s] + Cardinality(Task) - 1
      BY DEF RaceInv, RaceBounded
    <3>2. Failing(s) \in SUBSET Task
      BY DEF Failing
    <3>3. Cardinality(Failing(s)) \in Nat /\ Cardinality(Task) \in Nat
      BY <3>2, FailingCount
    <3>4. QED
      BY <2>1, <2>3, <3>1, <3>3
  <2>4. QED
    BY <2>2, <2>3
<1>2. QED
  BY <1>1, ExecutionInvariant, RaceInvariant, PTL
-----------------------------------------------------------------------------
(* What the sweep of validate_step_graph guarantees. *)

\* A set of naturals that holds 0, and the successor of what it holds below a bound.
LEMMA UpTo ==
    ASSUME NEW n \in Nat, NEW S, 0 \in S, \A m \in 0..n : m \in S /\ m < n => m + 1 \in S
    PROVE  n \in S
<1> DEFINE T == {m \in 0..n : m \notin S}
<1>1. T \in SUBSET Nat
  OBVIOUS
<1> HIDE DEF T
<1>2. SUFFICES ASSUME T # {} PROVE FALSE
  BY DEF T
<1>3. PICK m \in T : \A y \in T : ~(<<y, m>> \in OpToRel(<, Nat))
  <2>1. T \subseteq Nat
    BY <1>1
  <2>2. QED
    BY <1>2, <2>1, WFMin, NatLessThanWellFounded, Zenon
<1>4. \A y \in T : ~(y < m)
  BY <1>1, <1>3 DEF OpToRel
<1>5. m \in 1..n /\ m \notin S
  <2>1. m \in 0..n /\ m \notin S
    BY DEF T
  <2>2. m # 0
    BY <2>1
  <2>3. QED
    BY <2>1, <2>2
<1>6. m - 1 \in 0..n /\ m - 1 < n /\ m - 1 < m /\ (m - 1) + 1 = m
  BY <1>5
<1>7. m - 1 \in S
  BY <1>4, <1>6 DEF T
<1>8. QED
  BY <1>5, <1>6, <1>7

\* A graph that the sweep resolves has, beyond any set of steps but all of them, a step
\* all of whose dependencies are in the set.
LEMMA SomeStepIsNext ==
    ASSUME NEW deps, Kahn(deps) = Step, NEW C \in SUBSET Step, C # Step
    PROVE  \E s \in Step \ C : deps[s] \subseteq C
<1> DEFINE n == Cardinality(Step)
           Sweep(k, i) == IF i = 0 THEN {} ELSE k[i - 1] \cup {s \in Step : deps[s] \subseteq k[i - 1]}
           Sweeps(k, m) == DOMAIN k = 0..m /\ k = [i \in 0..m |-> Sweep(k, i)]
           Good == {m \in 0..n : \E k : Sweeps(k, m)}
<1>0. n \in Nat
  BY LoomAssumption, FS_CardinalityType
<1> HIDE DEF n
\* There is a function with the recursive equation.
<1>1. \E k : Sweeps(k, n)
  <2>1. 0 \in Good
    <3> DEFINE l == [i \in 0..0 |-> {}]
    <3>1. \A i \in 0..0 : i = 0
      OBVIOUS
    <3>2. l = [i \in 0..0 |-> Sweep(l, i)]
      BY <3>1
    <3>3. Sweeps(l, 0) /\ 0 \in 0..n
      BY <1>0, <3>2
    <3> HIDE DEF l
    <3>4. QED
      BY <3>3
  <2>2. ASSUME NEW m \in 0..n, m \in Good, m < n PROVE m + 1 \in Good
    <3>1. PICK k : Sweeps(k, m)
      BY <2>2
    <3>2. \A i \in 0..m : k[i] = Sweep(k, i)
      BY <3>1
    <3> DEFINE v == k[m] \cup {s \in Step : deps[s] \subseteq k[m]}
               l == [i \in 0..(m + 1) |-> IF i = m + 1 THEN v ELSE k[i]]
    <3>3. \A i \in 0..(m + 1) : i = m + 1 \/ i \in 0..m
      OBVIOUS
    <3>4. ASSUME NEW i \in 0..(m + 1) PROVE l[i] = Sweep(l, i)
      <4>1. CASE i = m + 1
        <5>1. i # 0 /\ i - 1 = m /\ m \in 0..(m + 1) /\ m # m + 1
          BY <4>1
        <5>2. l[m] = k[m] /\ l[i] = v
          BY <4>1, <5>1
        <5>3. QED
          BY <4>1, <5>1, <5>2
      <4>2. CASE i \in 0..m /\ i # 0
        <5>1. i # m + 1 /\ i - 1 \in 0..(m + 1) /\ i - 1 # m + 1
          BY <4>2
        <5>2. l[i] = k[i] /\ l[i - 1] = k[i - 1]
          BY <5>1
        <5>3. k[i] = k[i - 1] \cup {s \in Step : deps[s] \subseteq k[i - 1]}
          BY <3>2, <4>2
        <5>4. QED
          BY <4>2, <5>2, <5>3
      <4>3. CASE i = 0
        <5>1. 0 \in 0..m /\ 0 # m + 1
          OBVIOUS
        <5>2. l[0] = k[0]
          BY <5>1
        <5>3. k[0] = Sweep(k, 0) /\ Sweep(k, 0) = {} /\ Sweep(l, 0) = {}
          BY <3>2, <5>1
        <5>4. QED
          BY <4>3, <5>2, <5>3
      <4>4. QED
        BY <3>3, <4>1, <4>2, <4>3
    <3>5. Sweeps(l, m + 1)
      BY <3>4
    <3>6. m + 1 \in 0..n
      BY <1>0, <2>2
    <3> HIDE DEF l
    <3>7. QED
      BY <3>5, <3>6
  <2> HIDE DEF Good
  <2>3. n \in Good
    BY <1>0, <2>1, <2>2, UpTo
  <2>4. QED
    BY <2>3 DEF Good
<1> DEFINE resolved == CHOOSE k : k = [i \in 0..n |-> Sweep(k, i)]
<1>2. resolved[n] = Step
  BY DEF Kahn, n
<1>3. resolved = [i \in 0..n |-> Sweep(resolved, i)]
  <2> DEFINE Equation(k) == k = [i \in 0..n |-> Sweep(k, i)]
  <2>1. PICK k : Equation(k)
    BY <1>1
  <2>2. resolved = CHOOSE j : Equation(j)
    OBVIOUS
  <2> HIDE DEF Equation
  <2>3. Equation(CHOOSE j : Equation(j))
    BY <2>1, Zenon
  <2>4. QED
    BY <2>2, <2>3 DEF Equation
<1> HIDE DEF resolved
<1>4. \A i \in 0..n : resolved[i] = Sweep(resolved, i)
  BY <1>3
\* If there were no such step, the sweep would never leave the set.
<1>5. SUFFICES ASSUME \A s \in Step : deps[s] \subseteq C => s \in C PROVE FALSE
  OBVIOUS
<1> DEFINE Inside == {m \in 0..n : resolved[m] \subseteq C}
<1>6. 0 \in Inside
  <2>1. 0 \in 0..n /\ Sweep(resolved, 0) = {}
    BY <1>0
  <2>2. QED
    BY <1>4, <2>1
<1>7. ASSUME NEW m \in 0..n, m \in Inside, m < n PROVE m + 1 \in Inside
  <2>1. m + 1 \in 0..n /\ m + 1 # 0 /\ (m + 1) - 1 = m /\ resolved[m] \subseteq C
    BY <1>0, <1>7
  <2>2. resolved[m + 1] = resolved[m] \cup {s \in Step : deps[s] \subseteq resolved[m]}
    BY <1>4, <2>1
  <2>3. QED
    BY <1>5, <2>1, <2>2
<1> HIDE DEF Inside
<1>8. n \in Inside
  BY <1>0, <1>6, <1>7, UpTo
<1>9. QED
  BY <1>2, <1>8 DEF Inside
-----------------------------------------------------------------------------
(* What moves an unfinished run on. *)

\* A task that is going to read the steps anew.
Advancing ==
    \E t \in Task : task[t].pc \in {"insert_steps", "read_run", "mark_running", "get_steps"}

\* A task that returns to the advance_run it interrupted: an executor whose step was taken from
\* under it ends with an error instead, and forgets what it was going to dispatch.
WillReturn(t) ==
    task[t].pc # "idle" /\ (task[t].pc = "execute" => status[task[t].step] = "running")

\* A task that is going to dispatch s, now or when it returns to an interrupted advance_run.
Covers(t, s) ==
    \/ task[t].pc = "dispatch" /\ s \in task[t].ready
    \/ WillReturn(t) /\ \E i \in 1..Len(task[t].stack) : s \in task[t].stack[i]

\* A task has an automated step in hand that it claimed: from there to the write of its outcome
\* it is inside an advance_run, which a client's report is not.
Executes(t) == task[t].pc \in Reporting /\ task[t].step \in auto /\ task[t].stack # <<>>

\* No call that had written was cut off since the last boot.
Whole == server # "down" /\ ~cut

ExecutingInv == LoomInv /\ ExecutesAuto

\* A run that was created has an acyclic graph.
Validated == run # "none" => validate_step_graph(depends_on)

\* While a run is in flight, every automated step that is running is in a task's hand ...
RunningIsHeld ==
    InFlight /\ Whole =>
        \A s \in auto : status[s] = "running" => \E t \in Task : Executes(t) /\ task[t].step = s

\* ... its steps are all there and none has failed or been skipped ...
NoStray ==
    ~torn /\ InFlight => Inserting \/ \A s \in Step : status[s] \in {"pending", "running", "completed"}

\* ... and a task is going to read its steps, to finish it, or to dispatch what is ready.
Driven ==
    InFlight /\ Whole =>
        \/ Advancing
        \/ /\ AllDone => \E t \in Task : task[t].pc = "finish"
           /\ \A s \in ReadySteps : \E t \in Task : Covers(t, s)

DriveInv == ExecutingInv /\ Validated /\ RunningIsHeld /\ NoStray /\ Driven

\* Only automated steps are executed.
LEMMA ExecutingStep == ASSUME ExecutingInv, LoomInv', [Next]_vars PROVE ExecutingInv'
<1>0. task \in [Task -> Row] /\ \A t \in Task : task[t].ready \in SUBSET Step
  BY DEF ExecutingInv, LoomInv, Row
<1>1. auto' = auto
  BY DEF Next, vars, workflow, Crash, create_run, InsertSteps, AdvanceReadRun, MarkRunning, GetSteps,
     FinishRun, Dispatch, DispatchDone, ExecuteEnds, ExternalReport, CompleteWrite, FailRetry,
     FailExhausted, cancel_run, CancelWrite, CutOff, recover_inflight_runs
<1>2. ASSUME NEW t \in Task, \A u \in Task \ {t} : task'[u] = task[u],
             task'[t].pc = "execute" => task'[t].step \in auto
      PROVE  ExecutesAuto'
  BY <1>1, <1>2 DEF ExecutingInv, ExecutesAuto
<1>3. CASE UNCHANGED vars
  BY <1>3 DEF vars, ExecutingInv, ExecutesAuto
<1>4. CASE Crash
  BY <1>4, IdleRow DEF Crash, ExecutesAuto, ExecutingInv
<1>5. ASSUME NEW t \in Task, \E p \in Pc \ {"execute"} : Goto(t, p) \/ End(t) \/ Return(t)
      PROVE  ExecutesAuto'
  <2>1. task'[t].pc # "execute" /\ \A u \in Task \ {t} : task'[u] = task[u]
    BY <1>0, <1>5, NextPc
  <2>2. QED
    BY <1>2, <2>1
<1>6. ASSUME NEW t \in Task, NEW s \in Step, NEW p \in {"complete_write", "fail_write"},
             ReadRunning(t, s, p)
      PROVE  ExecutesAuto'
  <2>1. task'[t].pc # "execute" /\ \A u \in Task \ {t} : task'[u] = task[u]
    BY <1>0, <1>6 DEF ReadRunning, Row
  <2>2. QED
    BY <1>2, <2>1
<1>7. ASSUME NEW t \in Task, GetSteps(t) PROVE ExecutesAuto'
  <2>1. task'[t].pc # "execute" /\ \A u \in Task \ {t} : task'[u] = task[u]
    BY <1>0, <1>7 DEF GetSteps, Row
  <2>2. QED
    BY <1>2, <2>1
<1>8. ASSUME NEW t \in Task, Dispatch(t) PROVE ExecutesAuto'
  <2>1. PICK s : s = Min(task[t].ready)
    OBVIOUS
  <2>2. PICK rest \in SUBSET Step : rest = task[t].ready \ {s}
    BY <1>0
  <2>3. /\ task[t].pc = "dispatch"
        /\ \/ task' = [task EXCEPT ![t].ready = rest]
           \/ /\ s \in auto
              /\ task' = [task EXCEPT ![t].pc = "execute", ![t].step = s,
                                      ![t].ready = {}, ![t].stack = Append(@, rest)]
    BY <1>8, <2>1, <2>2 DEF Dispatch
  <2>4. /\ \A u \in Task \ {t} : task'[u] = task[u]
        /\ task'[t].pc = "execute" => task'[t].step \in auto
    BY <1>0, <2>3 DEF Row
  <2>5. QED
    BY <1>2, <2>4
<1>9. ASSUME NEW t \in Task, ExecuteEnds(t) PROVE ExecutesAuto'
  <2>1. task[t].step \in Step
    BY <1>0 DEF Row
  <2>2. QED
    BY <1>5, <1>6, <1>9, <2>1, PcValues DEF ExecuteEnds
<1>10. ASSUME NEW t \in Task, NEW s \in Step, ExternalReport(t, s) PROVE ExecutesAuto'
  BY <1>6, <1>10 DEF ExternalReport
<1>11. ASSUME NEW t \in Task, recover_inflight_runs(t) PROVE ExecutesAuto'
  <2>1. CASE InFlight
    BY <1>5, <1>11, <2>1, PcValues DEF recover_inflight_runs
  <2>2. CASE ~InFlight
    BY <1>1, <1>11, <2>2 DEF recover_inflight_runs, ExecutingInv, ExecutesAuto
  <2>3. QED
    BY <2>1, <2>2
<1>12. ASSUME NEW t \in Task,
              \/ create_run(t) \/ InsertSteps(t) \/ AdvanceReadRun(t) \/ MarkRunning(t) \/ FinishRun(t)
              \/ DispatchDone(t) \/ CompleteWrite(t) \/ FailRetry(t) \/ FailExhausted(t)
              \/ cancel_run(t) \/ CancelWrite(t) \/ CutOff(t)
       PROVE  ExecutesAuto'
  BY <1>5, <1>12, PcValues DEF create_run, InsertSteps, AdvanceReadRun, MarkRunning, FinishRun,
     DispatchDone, CompleteWrite, FailRetry, FailExhausted, cancel_run, CancelWrite, CutOff
<1>13. ASSUME NEW t \in Task, \E s \in Step : ExternalReport(t, s) PROVE ExecutesAuto'
  BY <1>10, <1>13
<1>14. ASSUME Next, ~Crash PROVE ExecutesAuto'
  <2>1. PICK t \in Task :
           \/ create_run(t) \/ InsertSteps(t)
           \/ AdvanceReadRun(t) \/ MarkRunning(t) \/ GetSteps(t) \/ FinishRun(t)
           \/ Dispatch(t) \/ DispatchDone(t) \/ ExecuteEnds(t)
           \/ \E s \in Step : ExternalReport(t, s)
           \/ CompleteWrite(t) \/ FailRetry(t) \/ FailExhausted(t)
           \/ cancel_run(t) \/ CancelWrite(t)
           \/ CutOff(t) \/ recover_inflight_runs(t)
    BY <1>14, Zenon DEF Next
  <2>2. QED
    BY <2>1, <1>7, <1>8, <1>9, <1>11, <1>12, <1>13, Zenon
<1>15. ExecutesAuto'
  BY <1>3, <1>4, <1>14 DEF ExecutingInv
<1>16. QED
  BY <1>15 DEF ExecutingInv

\* Nothing moves an unfinished run, and yet there is something to do: impossible.
LEMMA DrivenIsNotWedged == DriveInv => NoWedge
<1> SUFFICES ASSUME DriveInv, ~torn, ~cut, Wedged PROVE FALSE
  BY DEF NoWedge
<1>1. /\ server = "up" /\ InFlight /\ \A t \in Task : task[t].pc = "idle"
      /\ \A s \in Step \ auto : status[s] # "running"
  BY DEF Wedged
<1>2. \A s \in Step : status[s] # "running"
  BY <1>1 DEF DriveInv, RunningIsHeld, Whole, Executes, Reporting
<1>3. \A s \in Step : status[s] \in {"pending", "completed"}
  BY <1>1, <1>2 DEF DriveInv, NoStray, Inserting
<1>4. ~AllDone /\ ReadySteps = {}
  BY <1>1 DEF DriveInv, Driven, Whole, Advancing, Covers, WillReturn
<1>5. validate_step_graph(depends_on)
  BY <1>1 DEF DriveInv, Validated, InFlight
<1>6. PICK C \in SUBSET Step : C = {s \in Step : status[s] = "completed"}
  OBVIOUS
<1>7. C # Step
  BY <1>4, <1>6 DEF AllDone
<1>8. PICK s \in Step \ C : depends_on[s] \subseteq C
  BY <1>5, <1>7, SomeStepIsNext DEF validate_step_graph
<1>9. s \in ReadySteps
  BY <1>3, <1>6, <1>8 DEF ReadySteps, DepsMet
<1>10. QED
  BY <1>4, <1>9

LEMMA DriveInit == Init => DriveInv
<1> SUFFICES ASSUME Init PROVE DriveInv
  OBVIOUS
<1>1. (\A t \in Task : task[t].pc = "idle") /\ run = "none"
  BY IdleRow DEF Init
<1>2. QED
  BY <1>1, LoomInit DEF DriveInv, ExecutingInv, ExecutesAuto, Validated, RunningIsHeld, NoStray,
     Driven, InFlight, Executes, Reporting

\* A run that is over stays so.
LEMMA OverStep ==
    ASSUME DriveInv, ExecutingInv', run # "none", run' \in Terminal, depends_on' = depends_on
    PROVE  DriveInv'
  BY DEF DriveInv, Validated, RunningIsHeld, NoStray, Driven, InFlight, Terminal

LEMMA TerminalStays ==
    ASSUME ExecutingInv, Next, run \in Terminal PROVE run' \in Terminal /\ depends_on' = depends_on
<1>1. CASE Crash \/ \E t \in Task : CutOff(t)
  <2>1. run' = run \/ run' = "cancelled"
    BY <1>1 DEF Crash, CutOff, HalfWritten
  <2>2. QED
    BY <1>1, <2>1 DEF Crash, CutOff, workflow, Terminal
<1>2. CASE ~Crash /\ ~\E t \in Task : CutOff(t)
  BY <1>2 DEF Next, create_run, InsertSteps, AdvanceReadRun, MarkRunning, GetSteps, FinishRun,
     Dispatch, DispatchDone, ExecuteEnds, ExternalReport, CompleteWrite, FailRetry, FailExhausted,
     cancel_run, CancelWrite, recover_inflight_runs, workflow, Terminal
<1>3. QED
  BY <1>1, <1>2

\* A call goes on to read the steps, giving up what it had in hand.
LEMMA AdvancingStep ==
    ASSUME DriveInv, ExecutingInv', NEW t \in Task, \A u \in Task \ {t} : task'[u] = task[u],
           auto' = auto, run' \notin Terminal, run \notin Terminal, Validated',
           task'[t].pc \in {"insert_steps", "read_run", "mark_running", "get_steps"},
           InFlight => server # "down", cut' = cut,
           \A s \in auto : status'[s] = "running" =>
               InFlight /\ status[s] = "running" /\ (Executes(t) => task[t].step # s),
           NoStray'
    PROVE  DriveInv'
<1>1. ~Executes(t)' /\ Advancing'
  BY DEF Executes, Reporting, Advancing
<1>2. \A u \in Task \ {t} : Executes(u)' = Executes(u)
  BY DEF Executes
<1>3. RunningIsHeld'
  <2> SUFFICES ASSUME Whole', NEW s \in auto, status'[s] = "running"
               PROVE  \E u \in Task : Executes(u)' /\ task'[u].step = s
    BY DEF RunningIsHeld
  <2>1. PICK u \in Task : Executes(u) /\ task[u].step = s
    BY DEF DriveInv, RunningIsHeld, Whole
  <2>2. u # t
    BY <2>1
  <2>3. QED
    BY <1>2, <2>1, <2>2
<1>4. Driven'
  BY <1>1 DEF Driven
<1>5. QED
  BY <1>3, <1>4 DEF DriveInv

LEMMA AdvancingSteps ==
    ASSUME DriveInv, ExecutingInv', NEW t \in Task, run \notin Terminal, run' \notin Terminal,
           \/ create_run(t) \/ InsertSteps(t) \/ AdvanceReadRun(t) \/ MarkRunning(t)
           \/ CompleteWrite(t) \/ FailRetry(t)
    PROVE  DriveInv'
<1>0. /\ task \in [Task -> Row] /\ status \in [Step -> StepStatus] /\ auto \subseteq Step
      /\ run \in RunStatus /\ LoomInv /\ ExecutingInv /\ \A u \in Task : task[u].step \in Step
  BY DEF DriveInv, ExecutingInv, LoomInv, TypeOK, Row
<1>1. auto' = auto /\ depends_on' = depends_on /\ torn' = torn /\ cut' = cut /\ server' = server
  BY DEF create_run, InsertSteps, AdvanceReadRun, MarkRunning, CompleteWrite, FailRetry,
         workflow, history
<1>2. /\ task'[t].pc \in {"insert_steps", "read_run", "mark_running", "get_steps"}
      /\ \A u \in Task \ {t} : task'[u] = task[u]
      /\ create_run(t) => task'[t].pc = "insert_steps"
  <2>1. \E p \in {"insert_steps", "read_run", "mark_running", "get_steps"} :
            Goto(t, p) /\ (create_run(t) => p = "insert_steps")
    BY DEF create_run, InsertSteps, AdvanceReadRun, MarkRunning, CompleteWrite, FailRetry
  <2>2. QED
    BY <1>0, <2>1, NextPc
<1>3. ~create_run(t) => run # "none" /\ server # "down" /\ InFlight
  <2>1. ~create_run(t) => task[t].pc # "idle"
    BY DEF InsertSteps, AdvanceReadRun, MarkRunning, CompleteWrite, FailRetry
  <2>2. QED
    BY <1>0, <2>1, UnderWay DEF InFlight, RunStatus, Terminal
<1>4. Validated'
  BY <1>1, <1>3 DEF DriveInv, Validated, create_run
<1>5. CASE create_run(t)
  <2>1. run = "none" /\ status' = status /\ ~InFlight
    BY <1>5 DEF create_run, InFlight
  <2>2. (\A u \in Task : task[u].pc = "idle") /\ \A s \in Step : status[s] = "none"
    BY <1>0, <2>1 DEF LoomInv, BeforeRun
  <2>3. NoStray'
    BY <1>2, <1>5 DEF NoStray, Inserting
  <2>4. \A s \in auto : status'[s] # "running"
    BY <1>0, <2>1, <2>2
  <2>5. \A u \in Task : ~Executes(u)
    BY <2>2 DEF Executes, Reporting
  <2>6. QED
    BY <1>1, <1>2, <1>4, <2>1, <2>3, <2>4, <2>5, AdvancingStep
<1>6. CASE InsertSteps(t)
  <2>1. \A s \in Step : status'[s] = "pending"
    BY <1>6 DEF InsertSteps
  <2>2. \A u \in Task \ {t} : ~Executes(u)
    BY <1>0, <1>6 DEF InsertSteps, LoomInv, WhileInserting, Executes, Reporting
  <2>3. NoStray'
    BY <2>1 DEF NoStray
  <2>4. \A s \in auto : status'[s] # "running"
    BY <1>0, <2>1
  <2>5. ~create_run(t)
    BY <1>6 DEF InsertSteps, create_run, Serving
  <2>6. QED
    BY <1>1, <1>2, <1>3, <1>4, <2>2, <2>3, <2>4, <2>5, AdvancingStep
<1>7. CASE AdvanceReadRun(t) \/ MarkRunning(t) \/ CompleteWrite(t) \/ FailRetry(t)
  <2>1. /\ task[t].pc \notin {"idle", "insert_steps", "cancel_write"} /\ ~create_run(t)
        /\ \/ task[t].pc \notin Reporting /\ status' = status
           \/ /\ task[t].pc \in Reporting
              /\ \/ status' = [status EXCEPT ![task[t].step] = "completed"]
                 \/ status' = [status EXCEPT ![task[t].step] = "pending"]
    BY <1>7 DEF AdvanceReadRun, MarkRunning, CompleteWrite, FailRetry, Reporting, create_run,
       Serving
  <2>2. ~Inserting
    BY <1>0, <2>1, UnderWay
  <2>3. NoStray'
    BY <1>0, <1>1, <1>3, <2>1, <2>2 DEF DriveInv, NoStray
  <2>4. \A s \in auto : status'[s] = "running" =>
            status[s] = "running" /\ (Executes(t) => task[t].step # s)
    BY <1>0, <2>1 DEF Executes
  <2>5. QED
    BY <1>1, <1>2, <1>3, <1>4, <2>1, <2>3, <2>4, AdvancingStep
<1>8. QED
  BY <1>5, <1>6, <1>7

\* A step of a task that is not advancing leaves what it covered covered.
LEMMA StillDriven ==
    ASSUME Driven, InFlight, server # "down", cut' = cut, NEW t \in Task,
           task[t].pc \notin {"insert_steps", "read_run", "mark_running", "get_steps", "finish"},
           \A u \in Task \ {t} : task'[u] = task[u], AllDone' => AllDone,
           \A u \in Task : status[task[u].step] = "running" => status'[task[u].step] = "running",
           \A s \in ReadySteps' : s \in ReadySteps /\ (Covers(t, s) => Covers(t, s)')
    PROVE  Driven'
<1> SUFFICES ASSUME Whole' PROVE Driven'
  BY DEF Driven
<1>0. Whole
  BY DEF Whole
<1>1. CASE Advancing
  <2>1. Advancing'
    BY <1>1 DEF Advancing
  <2>2. QED
    BY <2>1 DEF Driven
<1>2. CASE ~Advancing
  <2>1. /\ AllDone => \E u \in Task : task[u].pc = "finish"
        /\ \A s \in ReadySteps : \E u \in Task : Covers(u, s)
    BY <1>0, <1>2 DEF Driven
  <2>2. AllDone' => \E u \in Task : task'[u].pc = "finish"
    BY <2>1
  <2>3. \A u \in Task \ {t}, s \in ReadySteps : Covers(u, s) => Covers(u, s)'
    BY DEF Covers, WillReturn
  <2>4. \A s \in ReadySteps' : \E u \in Task : Covers(u, s)'
    BY <2>1, <2>3
  <2>5. QED
    BY <2>2, <2>4 DEF Driven
<1>3. QED
  BY <1>1, <1>2

\* A step that changes no status and takes no running step out of a hand.
LEMMA SameHands ==
    ASSUME DriveInv, ExecutingInv', Driven', UNCHANGED <<depends_on, auto, run, status, torn, cut>>,
           server # "down", Inserting => Inserting',
           \A u \in Task : Executes(u) /\ status[task[u].step] = "running" =>
               Executes(u)' /\ task'[u].step = task[u].step
    PROVE  DriveInv'
<1>1. Validated'
  BY DEF DriveInv, Validated
<1>2. RunningIsHeld'
  BY DEF DriveInv, RunningIsHeld, InFlight, Whole
<1>3. NoStray'
  BY DEF DriveInv, NoStray, InFlight
<1>4. QED
  BY <1>1, <1>2, <1>3 DEF DriveInv

LEMMA SteadySteps ==
    ASSUME DriveInv, ExecutingInv', NEW t \in Task, run \notin Terminal,
           \/ GetSteps(t) \/ DispatchDone(t) \/ ExecuteEnds(t) \/ cancel_run(t)
           \/ \E s \in Step : ExternalReport(t, s)
    PROVE  DriveInv'
<1>0. /\ task \in [Task -> Row] /\ status \in [Step -> StepStatus] /\ auto \subseteq Step
      /\ run \in RunStatus /\ LoomInv /\ ExecutingInv /\ task[t] \in Row
      /\ \A u \in Task : task[u].step \in Step
  BY DEF DriveInv, ExecutingInv, LoomInv, TypeOK, Row
<1>1. UNCHANGED <<depends_on, auto, run, status, torn, cut>>
  BY DEF GetSteps, DispatchDone, ExecuteEnds, cancel_run, ExternalReport, workflow, history
<1>2. ReadySteps' = ReadySteps /\ AllDone' = AllDone
  BY <1>1 DEF ReadySteps, DepsMet, AllDone
<1>3. Driven
  BY DEF DriveInv
<1>4. ASSUME task[t].pc # "idle" PROVE server # "down" /\ InFlight
  BY <1>0, <1>4, UnderWay DEF InFlight, RunStatus, Terminal
<1>5. ASSUME ~Executes(t) \/ status[task[t].step] # "running", \A u \in Task \ {t} : task'[u] = task[u],
             task[t].pc # "insert_steps", server # "down", Driven'
      PROVE  DriveInv'
  <2>1. \A u \in Task \ {t} : Executes(u)' = Executes(u)
    BY <1>1, <1>5 DEF Executes
  <2>2. \A u \in Task : Executes(u) /\ status[task[u].step] = "running" =>
            Executes(u)' /\ task'[u].step = task[u].step
    BY <1>5, <2>1
  <2>3. Inserting => Inserting'
    BY <1>5 DEF Inserting
  <2>4. QED
    BY <1>1, <1>5, <2>2, <2>3, SameHands
<1>6. CASE GetSteps(t)
  <2>1. /\ task[t].pc = "get_steps" /\ \A u \in Task \ {t} : task'[u] = task[u]
        /\ task'[t].pc = IF AllDone THEN "finish" ELSE "dispatch"
        /\ task'[t].ready = IF AllDone THEN {} ELSE ReadySteps
    BY <1>0, <1>6 DEF GetSteps, Row
  <2>2. AllDone => ReadySteps = {}
    BY DEF AllDone, ReadySteps
  <2>3. Driven'
    BY <1>2, <2>1, <2>2 DEF Driven, Covers
  <2>4. ~Executes(t)
    BY <2>1 DEF Executes, Reporting
  <2>5. QED
    BY <1>4, <1>5, <2>1, <2>3, <2>4
<1>7. CASE DispatchDone(t)
  <2>1. task[t].pc = "dispatch" /\ task[t].ready = {} /\ Return(t)
    BY <1>7 DEF DispatchDone
  <2>2. task'[t].pc \in {"idle", "dispatch"} /\ \A u \in Task \ {t} : task'[u] = task[u]
    BY <1>0, <2>1, NextPc
  <2>3. ASSUME NEW s, Covers(t, s) PROVE Covers(t, s)'
    <3>1. PICK k \in Seq(SUBSET Step) : k = task[t].stack
      BY <1>0 DEF Row
    <3>2. PICK i \in 1..Len(k) : s \in k[i]
      BY <2>1, <2>3, <3>1 DEF Covers, WillReturn
    <3>3. PICK n \in Nat : n = Len(k) /\ n > 0 /\ i \in 1..n
      BY <3>1, <3>2
    <3>4. task' = [task EXCEPT ![t].pc = "dispatch", ![t].ready = k[n],
                               ![t].stack = SubSeq(k, 1, n - 1)]
      <4>1. k # <<>>
        BY <3>3
      <4>2. QED
        BY <1>0, <2>1, <3>1, <3>3, <4>1 DEF Return
    <3>5. /\ task'[t].pc = "dispatch" /\ task'[t].ready = k[n]
          /\ task'[t].stack = SubSeq(k, 1, n - 1)
      BY <1>0, <3>4 DEF Row
    <3>6. CASE i = n
      BY <3>2, <3>5, <3>6 DEF Covers
    <3>7. CASE i # n
      <4>1. /\ Len(SubSeq(k, 1, n - 1)) = n - 1 /\ i \in 1..(n - 1)
            /\ SubSeq(k, 1, n - 1)[i] = k[i]
        BY <3>1, <3>3, <3>7
      <4>2. QED
        BY <3>2, <3>5, <4>1 DEF Covers, WillReturn
    <3>8. QED
      BY <3>6, <3>7
  <2>4. Driven'
    BY <1>1, <1>2, <1>3, <1>4, <2>1, <2>2, <2>3, StillDriven
  <2>5. ~Executes(t)
    BY <2>1 DEF Executes, Reporting
  <2>6. QED
    BY <1>4, <1>5, <2>1, <2>2, <2>4, <2>5
<1>8. CASE ExecuteEnds(t)
  <2>1. task[t].pc = "execute"
    BY <1>8 DEF ExecuteEnds
  <2>2. CASE status[task[t].step] = "running"
    <3>1. \E p \in {"complete_write", "fail_write"} : ReadRunning(t, task[t].step, p)
      BY <1>8, <2>2 DEF ExecuteEnds
    <3>2. /\ task'[t].pc \in {"complete_write", "fail_write"} /\ task'[t].step = task[t].step
          /\ task'[t].stack = task[t].stack /\ \A u \in Task \ {t} : task'[u] = task[u]
      BY <1>0, <3>1 DEF ReadRunning, Row
    <3>3. \A s : Covers(t, s) => Covers(t, s)'
      BY <2>1, <3>2 DEF Covers, WillReturn
    <3>4. Driven'
      BY <1>1, <1>2, <1>3, <1>4, <2>1, <3>2, <3>3, StillDriven
    <3>5. \A u \in Task : Executes(u) => Executes(u)' /\ task'[u].step = task[u].step
      BY <1>1, <2>1, <3>2 DEF Executes, Reporting
    <3>6. Inserting => Inserting'
      BY <2>1, <3>2 DEF Inserting
    <3>7. QED
      BY <1>1, <1>4, <2>1, <3>4, <3>5, <3>6, SameHands
  \* A report came first: whoever wrote it has read the steps since, or is going to.
  <2>3. CASE status[task[t].step] # "running"
    <3>1. End(t)
      BY <1>8, <2>3 DEF ExecuteEnds, ReadRunning
    <3>2. \A u \in Task \ {t} : task'[u] = task[u]
      BY <1>0, <3>1, NextPc
    <3>3. \A s : ~Covers(t, s)
      BY <2>1, <2>3 DEF Covers, WillReturn
    <3>4. Driven'
      BY <1>1, <1>2, <1>3, <1>4, <2>1, <3>2, <3>3, StillDriven
    <3>5. QED
      BY <1>4, <1>5, <2>1, <2>3, <3>2, <3>4
  <2>4. QED
    BY <2>2, <2>3
<1>9. CASE cancel_run(t) \/ \E s \in Step : ExternalReport(t, s)
  <2>1. server = "up" /\ task[t].pc = "idle"
    BY <1>9 DEF cancel_run, ExternalReport, Serving
  <2>2. run # "none" => InFlight
    BY <1>0 DEF InFlight, RunStatus, Terminal
  <2>3. run # "none"
    <3>1. CASE cancel_run(t)
      BY <3>1 DEF cancel_run
    <3>2. CASE \E s \in Step : ExternalReport(t, s)
      <4>1. \E s \in Step : status[s] = "running"
        BY <3>2 DEF ExternalReport, ReadRunning
      <4>2. QED
        BY <1>0, <4>1 DEF LoomInv, BeforeRun
    <3>3. QED
      BY <1>9, <3>1, <3>2
  <2>4. \A u \in Task \ {t} : task'[u] = task[u]
    <3>1. CASE cancel_run(t)
      <4>1. Goto(t, "cancel_write")
        BY <3>1 DEF cancel_run
      <4>2. QED
        BY <1>0, <4>1, NextPc
    <3>2. CASE \E s \in Step : ExternalReport(t, s)
      <4>1. PICK s \in Step : ExternalReport(t, s)
        BY <3>2
      <4>2. \E p \in {"complete_write", "fail_write"} : ReadRunning(t, s, p)
        BY <4>1 DEF ExternalReport
      <4>3. QED
        BY <1>0, <4>2 DEF ReadRunning, Row
    <3>3. QED
      BY <1>9, <3>1, <3>2
  <2>5. \A s : ~Covers(t, s)
    BY <2>1 DEF Covers, WillReturn
  <2>6. Driven'
    BY <1>1, <1>2, <1>3, <2>1, <2>2, <2>3, <2>4, <2>5, StillDriven
  <2>7. ~Executes(t)
    BY <2>1 DEF Executes, Reporting
  <2>8. QED
    BY <1>5, <2>1, <2>4, <2>6, <2>7
<1>10. QED
  BY <1>6, <1>7, <1>8, <1>9

LEMMA DispatchKeepsDriving ==
    ASSUME DriveInv, ExecutingInv', NEW t \in Task, Dispatch(t), run \notin Terminal
    PROVE  DriveInv'
<1>0. /\ task \in [Task -> Row] /\ status \in [Step -> StepStatus] /\ auto \subseteq Step
      /\ run \in RunStatus /\ LoomInv /\ ExecutingInv /\ task[t] \in Row
      /\ \A u \in Task : task[u].step \in Step
  BY DEF DriveInv, ExecutingInv, LoomInv, TypeOK, Row
<1>1. PICK s \in Step : s = Min(task[t].ready) /\ s \in task[t].ready
  <2>1. task[t].ready \in SUBSET Step /\ task[t].ready # {}
    BY <1>0 DEF Row, Dispatch
  <2>2. QED
    BY <2>1, FirstReady
<1>2. PICK rest \in SUBSET Step : rest = task[t].ready \ {s}
  BY <1>0 DEF Row
<1>3. /\ task[t].pc = "dispatch" /\ UNCHANGED <<depends_on, auto, run, torn, cut, server>>
      /\ \/ /\ status[s] # "pending" /\ status' = status
            /\ task' = [task EXCEPT ![t].ready = rest]
         \/ /\ status[s] = "pending" /\ status' = [status EXCEPT ![s] = "running"]
            /\ \/ s \notin auto /\ task' = [task EXCEPT ![t].ready = rest]
               \/ /\ s \in auto
                  /\ task' = [task EXCEPT ![t].pc = "execute", ![t].step = s,
                                          ![t].ready = {}, ![t].stack = Append(@, rest)]
  BY <1>1, <1>2 DEF Dispatch, Claimable, workflow, history
<1>4. server # "down" /\ InFlight /\ ~Inserting
  BY <1>0, <1>3, UnderWay DEF InFlight, RunStatus, Terminal
<1>5. PICK k \in Seq(SUBSET Step) : k = task[t].stack
  BY <1>0 DEF Row
<1>6. \A u \in Task \ {t} : task'[u] = task[u]
  BY <1>0, <1>3
<1>7. \/ s \notin auto \/ status[s] # "pending"
      \/ task'[t].pc = "execute" /\ task'[t].step = s /\ task'[t].stack # <<>>
  <2>1. SUFFICES ASSUME s \in auto, status[s] = "pending"
                 PROVE  task'[t].pc = "execute" /\ task'[t].step = s /\ task'[t].stack # <<>>
    OBVIOUS
  <2>2. task' = [task EXCEPT ![t].pc = "execute", ![t].step = s,
                             ![t].ready = {}, ![t].stack = Append(@, rest)]
    BY <1>3, <2>1
  <2>3. /\ task'[t].pc = "execute" /\ task'[t].step = s /\ task'[t].stack = Append(k, rest)
    BY <1>0, <1>5, <2>2 DEF Row
  <2>4. Append(k, rest) # <<>>
    BY <1>5
  <2>5. QED
    BY <2>3, <2>4
<1>8. ASSUME NEW v \in Step, v # s, Covers(t, v) PROVE Covers(t, v)'
  <2>1. v \in rest \/ \E i \in 1..Len(k) : v \in k[i]
    BY <1>2, <1>3, <1>5, <1>8 DEF Covers, WillReturn
  <2>2. CASE task' = [task EXCEPT ![t].ready = rest]
    <3>1. task'[t].pc = "dispatch" /\ task'[t].ready = rest /\ task'[t].stack = k
      BY <1>0, <1>3, <1>5, <2>2 DEF Row
    <3>2. QED
      BY <2>1, <3>1 DEF Covers, WillReturn
  <2>3. CASE task' = [task EXCEPT ![t].pc = "execute", ![t].step = s,
                                  ![t].ready = {}, ![t].stack = Append(@, rest)]
    <3>1. task'[t].pc = "execute" /\ task'[t].stack = Append(k, rest)
      BY <1>0, <1>5, <2>3 DEF Row
    <3>2. /\ Len(Append(k, rest)) = Len(k) + 1 /\ Append(k, rest)[Len(k) + 1] = rest
          /\ Len(k) + 1 \in 1..(Len(k) + 1)
          /\ \A i \in 1..Len(k) : i \in 1..(Len(k) + 1) /\ Append(k, rest)[i] = k[i]
      BY <1>5
    <3>3. \E i \in 1..Len(Append(k, rest)) : v \in Append(k, rest)[i]
      BY <2>1, <3>2
    <3>4. task'[t].step = s /\ status'[s] = "running"
      <4>1. task'[t].step = s
        BY <1>0, <2>3 DEF Row
      <4>2. task' # [task EXCEPT ![t].ready = rest]
        <5>1. ([task EXCEPT ![t].ready = rest])[t].pc = task[t].pc
          BY <1>0 DEF Row
        <5>2. QED
          BY <1>3, <3>1, <5>1
      <4>3. status' = [status EXCEPT ![s] = "running"]
        BY <1>3, <4>2
      <4>4. QED
        BY <1>0, <4>1, <4>3
    <3>5. QED
      BY <3>1, <3>3, <3>4 DEF Covers, WillReturn
  <2>4. QED
    BY <1>3, <2>2, <2>3
<1>9. \A v \in Step : status'[v] \in {"pending", "completed"} => status'[v] = status[v]
  BY <1>0, <1>3
<1>10. \A v \in ReadySteps' : v \in Step /\ v # s /\ v \in ReadySteps
  <2> SUFFICES ASSUME NEW v \in ReadySteps' PROVE v \in Step /\ v # s /\ v \in ReadySteps
    OBVIOUS
  <2>1. v \in Step /\ status'[v] = "pending" /\ \A d \in depends_on[v] : status'[d] = "completed"
    BY <1>3 DEF ReadySteps, DepsMet
  <2>2. depends_on[v] \subseteq Step
    BY <1>0, <1>4, <2>1 DEF LoomInv, BeforeRun, InFlight
  <2>3. v # s
    BY <1>0, <1>3, <2>1
  <2>4. QED
    BY <1>9, <2>1, <2>2, <2>3 DEF ReadySteps, DepsMet
<1>11. AllDone' => AllDone
  BY <1>0, <1>3 DEF AllDone
<1>12. Driven'
  <2>1. \A u \in Task : status[task[u].step] = "running" => status'[task[u].step] = "running"
    BY <1>0, <1>3
  <2>2. QED
    BY <2>1, <1>3, <1>4, <1>6, <1>8, <1>10, <1>11, StillDriven DEF DriveInv
<1>13. \A u \in Task \ {t} : Executes(u)' = Executes(u)
  BY <1>3, <1>6 DEF Executes
<1>14. ~Executes(t)
  BY <1>3 DEF Executes, Reporting
<1>15. RunningIsHeld'
  <2> SUFFICES ASSUME Whole, NEW v \in auto, status'[v] = "running"
               PROVE  \E u \in Task : Executes(u)' /\ task'[u].step = v
    BY <1>3 DEF RunningIsHeld, Whole
  <2>1. CASE status[v] = "running"
    <3>1. PICK u \in Task : Executes(u) /\ task[u].step = v
      BY <1>4, <2>1 DEF DriveInv, RunningIsHeld
    <3>2. u # t
      BY <1>14, <3>1
    <3>3. QED
      BY <1>6, <1>13, <3>1, <3>2
  <2>2. CASE status[v] # "running"
    <3>1. v = s /\ status[s] = "pending"
      BY <1>0, <1>3, <2>2
    <3>2. task'[t].pc = "execute" /\ task'[t].step = v /\ task'[t].stack # <<>>
      BY <1>7, <3>1
    <3>3. QED
      BY <1>3, <3>2 DEF Executes, Reporting
  <2>3. QED
    BY <2>1, <2>2
<1>16. NoStray'
  <2>1. \A v \in Step : status'[v] = status[v] \/ status'[v] = "running"
    BY <1>0, <1>3
  <2>2. QED
    BY <1>3, <1>4, <2>1 DEF DriveInv, NoStray
<1>17. Validated'
  BY <1>3 DEF DriveInv, Validated
<1>18. QED
  BY <1>12, <1>15, <1>16, <1>17 DEF DriveInv

\* A crash that cut no write short leaves what a boot can resume.
LEMMA BootKeepsDriving ==
    ASSUME DriveInv, ExecutingInv', Crash \/ \E t \in Task : recover_inflight_runs(t), run \notin Terminal,
           run' \notin Terminal
    PROVE  DriveInv'
<1>0. /\ task \in [Task -> Row] /\ status \in [Step -> StepStatus] /\ auto \subseteq Step
      /\ run \in RunStatus /\ LoomInv /\ ExecutingInv
  BY DEF DriveInv, ExecutingInv, LoomInv, TypeOK
<1>1. CASE Crash
  <2>1. /\ server' = "down" /\ depends_on' = depends_on /\ \A u \in Task : task'[u].pc = "idle"
    BY <1>1, IdleRow DEF Crash, workflow
  <2>2. run' = "none" <=> run = "none"
    <3>1. CASE run' = run
      BY <3>1
    <3>2. CASE run' # run
      BY <1>1, <3>2 DEF Crash, HalfWritten, Terminal
    <3>3. QED
      BY <3>1, <3>2
  <2>3. Validated'
    BY <2>1, <2>2 DEF DriveInv, Validated
  <2>4. RunningIsHeld' /\ Driven'
    BY <2>1 DEF RunningIsHeld, Driven, Whole
  <2>5. NoStray'
    <3> SUFFICES ASSUME ~torn', InFlight'
                 PROVE  \A s \in Step : status'[s] \in {"pending", "running", "completed"}
      BY DEF NoStray
    <3>1. run' = run /\ status' = status /\ ~torn /\ ~Inserting
      BY <1>1 DEF Crash
    <3>2. QED
      BY <3>1 DEF DriveInv, NoStray, InFlight
  <2>6. QED
    BY <2>3, <2>4, <2>5 DEF DriveInv
<1>2. CASE \E t \in Task : recover_inflight_runs(t)
  <2>1. PICK t \in Task : recover_inflight_runs(t)
    BY <1>2
  <2>2. /\ server = "down" /\ UNCHANGED <<depends_on, auto, run, torn>>
        /\ status' = [s \in Step |-> IF InFlight /\ s \in auto /\ status[s] = "running"
                                     THEN "pending" ELSE status[s]]
        /\ InFlight => task' = [task EXCEPT ![t].pc = "read_run"]
        /\ ~InFlight => task' = task
    BY <2>1 DEF recover_inflight_runs, Goto, workflow, history
  <2>3. \A u \in Task : task[u].pc = "idle"
    BY <1>0, <2>2 DEF LoomInv, DownIsIdle
  <2>4. /\ \A u \in Task : task'[u].pc \in {"idle", "read_run"}
        /\ InFlight => task'[t].pc = "read_run"
    <3>1. CASE InFlight
      BY <1>0, <2>2, <2>3, <3>1 DEF Row
    <3>2. CASE ~InFlight
      BY <2>2, <2>3, <3>2
    <3>3. QED
      BY <3>1, <3>2
  <2>5. InFlight' = InFlight
    BY <2>2 DEF InFlight
  <2>6. Validated'
    BY <2>2 DEF DriveInv, Validated
  <2>7. Driven'
    BY <2>4, <2>5 DEF Driven, Advancing
  <2>8. RunningIsHeld'
    <3>1. InFlight => \A s \in auto : status'[s] # "running"
      BY <1>0, <2>2
    <3>2. QED
      BY <2>2, <2>5, <3>1 DEF RunningIsHeld
  <2>9. NoStray'
    <3> SUFFICES ASSUME ~torn, InFlight
                 PROVE  \A s \in Step : status'[s] \in {"pending", "running", "completed"}
      BY <2>2, <2>5 DEF NoStray
    <3>1. \A s \in Step : status[s] \in {"pending", "running", "completed"}
      BY <2>3 DEF DriveInv, NoStray, Inserting
    <3>2. QED
      BY <2>2, <3>1
  <2>10. QED
    BY <2>6, <2>7, <2>8, <2>9 DEF DriveInv
<1>3. QED
  BY <1>1, <1>2

\* A call that is cut off before it wrote anything takes nothing with it; one that had written
\* is on record in cut, one that is half-way through its statements in torn as well.
LEMMA CutOffKeepsDriving ==
    ASSUME DriveInv, ExecutingInv', NEW t \in Task, CutOff(t), run \notin Terminal, run' \notin Terminal
    PROVE  DriveInv'
<1>0. /\ task \in [Task -> Row] /\ run \in RunStatus /\ LoomInv
      /\ torn \in BOOLEAN /\ cut \in BOOLEAN /\ task[t] \in Row
  BY DEF DriveInv, ExecutingInv, LoomInv, TypeOK
<1>1. /\ task[t].pc # "idle" /\ End(t) /\ UNCHANGED <<depends_on, auto>>
  BY DEF CutOff, workflow
<1>2. server # "down" /\ run # "none" /\ InFlight
  BY <1>0, <1>1, UnderWay DEF InFlight, RunStatus, Terminal
<1>3. task'[t].pc = "idle" /\ \A u \in Task \ {t} : task'[u] = task[u]
  BY <1>0, <1>1, NextPc
<1>4. Validated'
  BY <1>1, <1>2 DEF DriveInv, Validated
<1>5. NoStray'
  <2> SUFFICES ASSUME ~torn', InFlight'
               PROVE  Inserting' \/ \A s \in Step : status'[s] \in {"pending", "running", "completed"}
    BY DEF NoStray
  <2>1. status' = status /\ ~torn /\ task[t].pc # "insert_steps"
    BY DEF CutOff
  <2>2. Inserting => Inserting'
    BY <1>3, <2>1 DEF Inserting
  <2>3. QED
    BY <1>2, <2>1, <2>2 DEF DriveInv, NoStray
<1>6. CASE cut'
  BY <1>4, <1>5, <1>6 DEF DriveInv, RunningIsHeld, Driven, Whole
<1>7. CASE ~cut'
  <2>1. run' = run /\ status' = status /\ ~cut /\ Unwritten(t)
    BY <1>7 DEF CutOff
  <2>2. /\ task[t].stack = <<>> /\ task[t].pc \in {"complete_write", "fail_write", "cancel_write"}
    BY <2>1 DEF Unwritten
  <2>3. \A s : ~Covers(t, s)
    <3>1. Len(task[t].stack) = 0
      BY <2>2
    <3>2. QED
      BY <2>2, <3>1 DEF Covers
  <2>4. ReadySteps' = ReadySteps /\ AllDone' = AllDone
    BY <1>1, <2>1 DEF ReadySteps, DepsMet, AllDone
  <2>5. cut' = cut
    <3>1. cut' \in BOOLEAN
      BY DEF ExecutingInv, LoomInv, TypeOK
    <3>2. QED
      BY <1>0, <1>7, <2>1, <3>1, Zenon
  <2>6. Driven'
    BY <1>2, <1>3, <2>1, <2>2, <2>3, <2>4, <2>5, StillDriven DEF DriveInv
  <2>7. ~Executes(t) /\ \A u \in Task \ {t} : Executes(u)' = Executes(u)
    BY <1>1, <1>3, <2>2 DEF Executes
  <2>8. RunningIsHeld'
    <3> SUFFICES ASSUME NEW s \in auto, status[s] = "running"
                 PROVE  \E u \in Task : Executes(u)' /\ task'[u].step = s
      BY <1>1, <2>1 DEF RunningIsHeld
    <3>1. PICK u \in Task : Executes(u) /\ task[u].step = s
      BY <1>2, <2>1 DEF DriveInv, RunningIsHeld, Whole
    <3>2. QED
      BY <1>3, <2>7, <3>1
  <2>9. QED
    BY <1>4, <1>5, <2>6, <2>8 DEF DriveInv
<1>8. QED
  BY <1>6, <1>7

\* While a run is in flight something is going to move it: the induction.
THEOREM DriveInvariant == Spec => []DriveInv
<1>1. DriveInv /\ LoomInv' /\ [Next]_vars => DriveInv'
  <2> SUFFICES ASSUME DriveInv, LoomInv', [Next]_vars PROVE DriveInv'
    OBVIOUS
  <2>0. ExecutingInv'
    BY ExecutingStep DEF DriveInv
  <2>1. CASE UNCHANGED vars
    <3>1. /\ depends_on' = depends_on /\ auto' = auto /\ run' = run /\ status' = status
          /\ task' = task /\ server' = server /\ torn' = torn /\ cut' = cut
      BY <2>1 DEF vars
    <3>2. Validated' /\ RunningIsHeld'
      BY <3>1 DEF DriveInv, Validated, RunningIsHeld, Executes, InFlight, Whole
    <3>3. NoStray' /\ Driven'
      BY <3>1 DEF DriveInv, NoStray, Driven, InFlight, Inserting, Advancing, AllDone, ReadySteps,
                  DepsMet, Covers, WillReturn, Whole
    <3>4. QED
      BY <2>0, <3>2, <3>3 DEF DriveInv
  <2>2. CASE Next
    <3>0. ExecutingInv /\ LoomInv
      BY DEF DriveInv, ExecutingInv
    <3>1. CASE run \in Terminal
      BY <2>0, <2>2, <3>0, <3>1, TerminalStays, OverStep DEF Terminal
    <3>2. CASE run \notin Terminal /\ run' \in Terminal
      <4>1. depends_on' = depends_on /\ run # "none"
        <5>1. CASE Crash \/ \E t \in Task : CutOff(t)
          <6>1. \E t \in Task : HalfWritten(t) /\ task[t].pc # "idle"
            BY <3>2, <5>1 DEF Crash, CutOff, HalfWritten
          <6>2. QED
            BY <3>0, <5>1, <6>1, UnderWay DEF Crash, CutOff, workflow
        <5>2. CASE ~Crash /\ ~\E t \in Task : CutOff(t)
          <6>0. ASSUME NEW t \in Task,
                       \/ create_run(t) \/ InsertSteps(t) \/ AdvanceReadRun(t) \/ MarkRunning(t)
                       \/ GetSteps(t) \/ Dispatch(t) \/ DispatchDone(t) \/ ExecuteEnds(t)
                       \/ CompleteWrite(t) \/ FailRetry(t) \/ cancel_run(t)
                       \/ recover_inflight_runs(t) \/ \E s \in Step : ExternalReport(t, s)
                PROVE  FALSE
            <7>1. CASE create_run(t) \/ InsertSteps(t) \/ AdvanceReadRun(t) \/ MarkRunning(t)
              BY <3>2, <7>1 DEF create_run, InsertSteps, AdvanceReadRun, MarkRunning, Terminal
            <7>2. CASE GetSteps(t) \/ Dispatch(t) \/ DispatchDone(t) \/ ExecuteEnds(t)
              <8>1. run' = run
                BY <7>2 DEF GetSteps, Dispatch, DispatchDone, ExecuteEnds
              <8>2. QED
                BY <3>2, <8>1
            <7>3. CASE CompleteWrite(t) \/ FailRetry(t) \/ cancel_run(t)
              <8>1. run' = run
                BY <7>3 DEF CompleteWrite, FailRetry, cancel_run
              <8>2. QED
                BY <3>2, <8>1
            <7>4. CASE recover_inflight_runs(t) \/ \E s \in Step : ExternalReport(t, s)
              <8>1. run' = run
                BY <7>4 DEF recover_inflight_runs, ExternalReport
              <8>2. QED
                BY <3>2, <8>1
            <7>5. QED
              BY <6>0, <7>1, <7>2, <7>3, <7>4
          <6>1. PICK t \in Task : FinishRun(t) \/ FailExhausted(t) \/ CancelWrite(t)
            BY <2>2, <5>2, <6>0, Zenon DEF Next
          <6>2. task[t].pc # "idle" /\ depends_on' = depends_on
            BY <6>1 DEF FinishRun, FailExhausted, CancelWrite, workflow
          <6>3. QED
            BY <3>0, <6>2, UnderWay
        <5>3. QED
          BY <5>1, <5>2
      <4>2. QED
        BY <2>0, <3>2, <4>1, OverStep
    <3>3. CASE run \notin Terminal /\ run' \notin Terminal
      <4>1. ~\E t \in Task : FinishRun(t) \/ FailExhausted(t) \/ CancelWrite(t)
        BY <3>3 DEF FinishRun, FailExhausted, CancelWrite, Terminal
      <4>2. QED
        BY <2>0, <2>2, <3>3, <4>1, AdvancingSteps, SteadySteps, DispatchKeepsDriving, BootKeepsDriving,
           CutOffKeepsDriving DEF Next
    <3>4. QED
      BY <3>1, <3>2, <3>3
  <2>3. QED
    BY <2>1, <2>2
<1>2. QED
  BY <1>1, DriveInit, LoomInvariant, PTL DEF Spec

\* No interleaving of advances, reports, cancels and restarts, and no accepted dependency
\* graph, strands a run, unless a write of several statements was cut short or a call was cut
\* off after its first write and no boot came since: beyond what is completed an acyclic graph always has a step that is ready or running, and the
\* invariant says who is going to dispatch or report it.
THEOREM NoRunIsStranded == Spec => []NoWedge
  BY DriveInvariant, DrivenIsNotWedged, PTL
=============================================================================
