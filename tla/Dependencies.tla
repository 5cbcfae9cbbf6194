---------------------------- MODULE Dependencies ----------------------------
(***************************************************************************)
(* The dependency graph between Chiasm tasks (services/chiasm, file        *)
(* dependencies.rs).  A request that adds dependencies searches from each  *)
(* of its targets for a cycle and inserts when all searches are over.  A   *)
(* search reads the edges of one task after the other, each insert commits *)
(* by itself, and requests run concurrently.                               *)
(***************************************************************************)
EXTENDS Naturals

CONSTANTS
    Node,           \* task ids
    Adder,          \* requests in flight
    MaxAdds         \* bound: requests ever made

ASSUME DependenciesAssumption == Node # {} /\ MaxAdds \in Nat

VARIABLES
    exists,         \* ids in chiasm_tasks
    edges,          \* chiasm_task_dependencies: <<task_id, depends_on>>
    adder,          \* where each request is: its task, the targets left, the search
    adds,           \* how much of MaxAdds is spent
    overtaken,      \* history: requests that began to search before another inserted
    loose           \* history: edges inserted by such requests

dependenciesVars == <<exists, edges, adder, adds, overtaken, loose>>

AnyNode == CHOOSE t \in Node : TRUE

NoAdd == [pc |-> "idle", task |-> AnyNode, deps |-> {}, checked |-> {},
          target |-> AnyNode, queue |-> {}, visited |-> {}]

\* The table and the requests keep their types, and foreign keys hold.
DependenciesTypeOK ==
    /\ exists \subseteq Node
    /\ edges \subseteq exists \X exists
    /\ adder \in [Adder -> [pc : {"idle", "add", "search"}, task : Node, deps : SUBSET Node,
                            checked : SUBSET Node, target : Node, queue : SUBSET Node,
                            visited : SUBSET Node]]
    /\ overtaken \subseteq Adder /\ loose \subseteq edges /\ adds \in 0..MaxAdds

DependenciesInit ==
    /\ exists = Node /\ edges = {} /\ adds = 0 /\ overtaken = {} /\ loose = {}
    /\ adder = [a \in Adder |-> NoAdd]

\* The request ends with an error.
Refused(a) == adder' = [adder EXCEPT ![a] = NoAdd] /\ overtaken' = overtaken \ {a}

add_dependencies(a, t, deps) ==
    /\ adder[a].pc = "idle" /\ t \in exists
    /\ adds < MaxAdds /\ adds' = adds + 1
    /\ adder' = [adder EXCEPT ![a] = [NoAdd EXCEPT !.pc = "add", !.task = t, !.deps = deps]]
    /\ UNCHANGED <<exists, edges, overtaken, loose>>

\* A target is another task, and it is there.
owns_target(a, d) ==
    /\ adder[a].pc = "add" /\ d \in adder[a].deps \ adder[a].checked
    /\ IF d # adder[a].task /\ d \in exists
       THEN /\ adder' = [adder EXCEPT ![a].pc = "search", ![a].target = d,
                                      ![a].queue = {d}, ![a].visited = {}]
            /\ UNCHANGED overtaken
       ELSE Refused(a)
    /\ UNCHANGED <<exists, edges, adds, loose>>

\* Mutant: the search ends at the target.
NoSuccessors(c) == {}

\* SELECT depends_on ... WHERE task_id = c.
Successors(c) == {e[2] : e \in {f \in edges : f[1] = c}}

\* One turn of the loop; the order of the queue is left open.
has_circular_dependency(a, c) ==
    /\ adder[a].pc = "search" /\ c \in adder[a].queue
    /\ IF c = adder[a].task THEN Refused(a)
       ELSE /\ adder' = [adder EXCEPT
                  ![a].queue = (@ \ {c}) \cup IF c \in adder[a].visited THEN {} ELSE Successors(c),
                  ![a].visited = @ \cup {c}]
            /\ UNCHANGED overtaken
    /\ UNCHANGED <<exists, edges, adds, loose>>

SearchEnds(a) ==
    /\ adder[a].pc = "search" /\ adder[a].queue = {}
    /\ adder' = [adder EXCEPT ![a].pc = "add", ![a].checked = @ \cup {adder[a].target},
                              ![a].target = AnyNode, ![a].visited = {}]
    /\ UNCHANGED <<exists, edges, adds, overtaken, loose>>

\* Who has begun to search and goes on.
Searched(b) == adder[b].pc = "search" \/ adder[b].checked # {}

\* Mutant: foreign keys are not enforced.
InsertableUnchecked(t, d) == TRUE

Insertable(t, d) == {t, d} \subseteq exists

\* INSERT OR IGNORE of one target, when all are checked; a task that is gone by now violates
\* the foreign key and ends the request, and what it inserted before stays.
insert_dependency(a, d) ==
    LET q == adder[a]
        new == {<<q.task, d>>} \ edges
    IN  /\ q.pc = "add" /\ d \in q.deps /\ q.deps \subseteq q.checked
        /\ IF Insertable(q.task, d)
           THEN /\ edges' = edges \cup new
                /\ loose' = IF a \in overtaken THEN loose \cup new ELSE loose
                /\ adder' = [adder EXCEPT ![a] = IF q.deps = {d} THEN NoAdd
                                                 ELSE [q EXCEPT !.deps = @ \ {d}]]
                /\ overtaken' = (overtaken \cup IF new = {} THEN {} ELSE {b \in Adder \ {a} : Searched(b)})
                                  \ IF q.deps = {d} THEN {a} ELSE {}
           ELSE Refused(a) /\ UNCHANGED <<edges, loose>>
        /\ UNCHANGED <<exists, adds>>

remove_dependency(e) ==
    /\ edges' = edges \ {e} /\ loose' = loose \ {e}
    /\ UNCHANGED <<exists, adder, adds, overtaken>>

\* delete_task, with ON DELETE CASCADE.
cascade_delete(t) ==
    /\ exists' = exists \ {t}
    /\ edges' = {e \in edges : t \notin {e[1], e[2]}}
    /\ loose' = {e \in loose : t \notin {e[1], e[2]}}
    /\ UNCHANGED <<adder, adds, overtaken>>

DependenciesNext ==
    \/ \E a \in Adder, t \in Node, deps \in SUBSET Node \ {{}} : add_dependencies(a, t, deps)
    \/ \E a \in Adder, d \in Node : owns_target(a, d)
    \/ \E a \in Adder, c \in Node : has_circular_dependency(a, c)
    \/ \E a \in Adder : SearchEnds(a)
    \/ \E a \in Adder, d \in Node : insert_dependency(a, d)
    \/ \E e \in edges : remove_dependency(e)
    \/ \E t \in exists : cascade_delete(t)

DependenciesSpec == DependenciesInit /\ [][DependenciesNext]_dependenciesVars
-----------------------------------------------------------------------------
(* Properties. *)

ClosedIn(E, S) == \A e \in E : e[1] \in S => e[2] \in S

\* What the edges E lead to from d: the least set with d that they do not leave.
ReachIn(E, d) == {t \in Node : \A S \in SUBSET Node : d \in S /\ ClosedIn(E, S) => t \in S}

AcyclicIn(E) == \A e \in E : e[1] \notin ReachIn(E, e[2])

\* What the module's documentation calls it, a DAG.
DependenciesAcyclic == AcyclicIn(edges)

\* Every cycle has an edge of a request that was overtaken: one that another request inserted
\* after this one had begun to search and before it inserted.  The search follows chains of any
\* length, also while edges and tasks go away under it, and the targets of a request need not be
\* checked against each other.
CyclesNeedARace == AcyclicIn(edges \ loose)
=============================================================================
