--------------------------- MODULE TrackerProofs ---------------------------
(***************************************************************************)
(* What holds of the work graph for any sets of epics, tasks and subtasks, *)
(* any forest EpicOf, TaskOf over them and any batch size.                 *)
(*                                                                         *)
(* The inductive invariant IInv is the conjunction of the invariants TLC   *)
(* checks: none is inductive alone.  That no edge is left behind by a      *)
(* deletion needs every subtask to have a live task, the events agree with *)
(* the tables only while the announced rows are all there are, and the     *)
(* gate speaks of a dependency's row, which has to exist.                  *)
(*                                                                         *)
(* The last part is about the agents of module Execution, any number of    *)
(* them: their steps are commands of Tracker, and ready work is told.      *)
(***************************************************************************)
EXTENDS Execution, TLAPS

IInv ==
    /\ TypeOK
    /\ ReferentialIntegrity
    /\ DependenciesAcyclic
    /\ ReplayAgrees

----------------------------------------------------------------------------
(* Reachability *)

\* Removing edges keeps a graph acyclic.
LEMMA RemoveKeepsAcyclic ==
    ASSUME NEW E \in SUBSET Edge, NEW F \in SUBSET E, Acyclic(E)
    PROVE  Acyclic(F)
BY DEF Acyclic, Reaches, Closed

\* Adding edges keeps a graph acyclic when no added edge closes a cycle in the result.
\* A cycle through an old edge <<n, m>> alone is a cycle of the old graph, and one
\* through an added edge as well is a cycle through that edge.
LEMMA AddKeepsAcyclic ==
    ASSUME NEW E \in SUBSET Edge, NEW D \in SUBSET Edge, Acyclic(E),
           \A d \in D : ~Reaches(E \cup D, d[2], d[1])
    PROVE  Acyclic(E \cup D)
<1> DEFINE G == E \cup D
           R(x) == {y \in Node : Reaches(G, x, y)}
<1>1. ASSUME NEW x \in Node PROVE x \in R(x) /\ Closed(R(x), G)
  <2>1. x \in R(x)
    BY <1>1 DEF Reaches
  <2>2. ASSUME NEW d \in G, d[1] \in R(x) PROVE d[2] \in R(x)
    <3>1. d[1] \in Node /\ d[2] \in Node
      BY <2>2 DEF Edge, Node
    <3>2. ASSUME NEW N \in SUBSET Node, x \in N, Closed(N, G) PROVE d[2] \in N
      BY <2>2, <3>2 DEF Closed, Reaches
    <3> QED BY <3>1, <3>2 DEF Reaches
  <2> QED BY <2>1, <2>2 DEF Closed
<1>2. ASSUME NEW x \in Node, NEW y \in Node, NEW z \in Node,
             Reaches(G, x, y), Reaches(G, y, z)
      PROVE  Reaches(G, x, z)
  BY <1>2 DEF Reaches
<1>3. ASSUME NEW d \in G PROVE d[1] \in Node /\ d[2] \in Node /\ Reaches(G, d[1], d[2])
  BY DEF Edge, Node, Reaches, Closed
<1>4. ASSUME NEW d \in E, Reaches(G, d[2], d[1]) PROVE FALSE
  <2>1. PICK S \in SUBSET Node : d[2] \in S /\ Closed(S, E) /\ d[1] \notin S
    BY DEF Acyclic, Reaches
  <2> DEFINE W == {x \in Node : x \in S \/ d[1] \notin R(x)} \cap R(d[2])
  <2>2. d[2] \in W
    BY <1>1, <1>3, <2>1
  <2>3. ASSUME NEW c \in G, c[1] \in W PROVE c[2] \in W
    <3>1. c[1] \in Node /\ c[2] \in Node /\ Reaches(G, c[1], c[2])
      BY <1>3
    <3>2. c[2] \in R(d[2])
      BY <1>1, <1>3, <2>3 DEF Closed
    <3>3. CASE d[1] \notin R(c[1])
      BY <1>2, <1>3, <3>1, <3>2, <3>3
    <3>4. CASE c[1] \in S /\ c \in E
      BY <2>1, <3>1, <3>2, <3>4 DEF Closed
    <3>5. CASE c \in D /\ d[1] \in R(c[2])
      <4>1. Reaches(G, c[2], d[1]) /\ Reaches(G, d[1], d[2]) /\ Reaches(G, d[2], c[1])
        BY <1>3, <2>3, <3>5
      <4>2. Reaches(G, c[2], c[1])
        BY <1>2, <1>3, <3>1, <4>1
      <4> QED BY <3>5, <4>2
    <3>6. CASE d[1] \notin R(c[2])
      BY <3>1, <3>2, <3>6
    <3> QED BY <2>3, <3>3, <3>4, <3>5, <3>6
  <2>4. Closed(W, G) /\ W \in SUBSET Node
    BY <2>3 DEF Closed
  <2>5. d[1] \in W
    BY <1>4, <2>2, <2>4 DEF Reaches
  <2>6. d[1] \in R(d[1])
    BY <1>1, <1>3
  <2> QED BY <2>1, <2>5, <2>6
<1> QED BY <1>4 DEF Acyclic

\* The same for one edge, searched for in the graph without it as addDependency does.
LEMMA AddEdgeKeepsAcyclic ==
    ASSUME NEW E \in SUBSET Edge, NEW a \in Item, NEW b \in Item, Acyclic(E),
           <<a, b>> \in E \/ ~Reaches(E, b, a)
    PROVE  Acyclic(E \cup {<<a, b>>})
<1>1. CASE <<a, b>> \in E
  <2>1. E \cup {<<a, b>>} = E
    BY <1>1
  <2> QED BY <2>1
<1>2. CASE ~Reaches(E, b, a)
  <2>1. PICK N \in SUBSET Node : b \in N /\ Closed(N, E) /\ a \notin N
    BY <1>2 DEF Reaches
  <2>2. Closed(N, E \cup {<<a, b>>})
    BY <2>1 DEF Closed
  <2>3. ~Reaches(E \cup {<<a, b>>}, b, a)
    BY <2>1, <2>2 DEF Reaches
  <2>4. {<<a, b>>} \in SUBSET Edge
    BY DEF Edge
  <2>5. \A d \in {<<a, b>>} : ~Reaches(E \cup {<<a, b>>}, d[2], d[1])
    BY <2>3
  <2> HIDE DEF Edge
  <2> QED BY <2>4, <2>5, AddKeepsAcyclic
<1> QED BY <1>1, <1>2

----------------------------------------------------------------------------
(* The writes *)

\* A status is never taken for a missing row.
LEMMA AbsentIsNoStatus == Absent \notin Statuses
BY StatusAssumption DEF Statuses, ValidStatuses, Absent

\* Writing rows gives them the status, keeps the others, and keeps the events in step.
LEMMA WriteRowsEffect ==
    ASSUME TypeOK, NEW M \in SUBSET Node, NEW rows \in [M -> Statuses], WriteRows(rows)
    PROVE  /\ status' \in [Node -> Statuses \cup {Absent}]
           /\ logStatus' \in [Node -> Statuses \cup {Absent}]
           /\ \A n \in Node : status'[n] = IF n \in M THEN rows[n] ELSE status[n]
           /\ \A n \in Node : Live(n)' <=> Live(n) \/ n \in M
           /\ logStatus = status => logStatus' = status'
BY AbsentIsNoStatus DEF TypeOK, WriteRows, Override, Live

\* Deleting rows clears them, and keeps the events in step when all the live ones among
\* them are announced.
LEMMA DeleteRowsEffect ==
    ASSUME TypeOK, NEW N \in SUBSET Node, NEW A \in SUBSET N, NEW D \in SUBSET deps,
           \A n \in N : Live(n) => n \in A,
           DeleteRows(N, D, A)
    PROVE  /\ status' \in [Node -> Statuses \cup {Absent}]
           /\ logStatus' \in [Node -> Statuses \cup {Absent}]
           /\ \A n \in Node : status'[n] = IF n \in N THEN Absent ELSE status[n]
           /\ logStatus = status => logStatus' = status'
<1>1. /\ status' \in [Node -> Statuses \cup {Absent}]
      /\ logStatus' \in [Node -> Statuses \cup {Absent}]
      /\ \A n \in Node : status'[n] = IF n \in N THEN Absent ELSE status[n]
      /\ \A n \in Node : logStatus'[n] = IF n \in A THEN Absent ELSE logStatus[n]
  BY DEF TypeOK, DeleteRows, Override, All
<1>2. ASSUME logStatus = status, NEW n \in Node PROVE logStatus'[n] = status'[n]
  BY <1>1, <1>2 DEF Live
<1> QED BY <1>1, <1>2

\* A transaction that writes rows under live parents, and adds edges between rows that
\* exist in the end and that close no cycle, keeps the invariant.
LEMMA WritesKeepIInv ==
    ASSUME IInv,
           NEW M \in SUBSET Node, NEW rows \in [M -> Statuses], WriteRows(rows),
           NEW D \in SUBSET Edge, AddEdges(D), Acyclic(deps \cup D),
           \A t \in M \cap Tasks : Live(EpicOf[t]) \/ EpicOf[t] \in M,
           \A s \in M \cap Subtasks : Live(TaskOf[s]) \/ TaskOf[s] \in M,
           \A d \in D : d[1] \in LiveItems \cup M /\ d[2] \in LiveItems \cup M
    PROVE  IInv'
<1>1. TypeOK /\ ReferentialIntegrity /\ ReplayAgrees
  BY DEF IInv
<1>2. /\ status' \in [Node -> Statuses \cup {Absent}]
      /\ logStatus' \in [Node -> Statuses \cup {Absent}]
      /\ \A n \in Node : Live(n)' <=> Live(n) \/ n \in M
      /\ logStatus' = status'
  BY <1>1, WriteRowsEffect DEF ReplayAgrees
<1>3. deps' = deps \cup D /\ logDeps' = logDeps \cup D
  BY DEF AddEdges
<1>4. TypeOK' /\ ReplayAgrees' /\ DependenciesAcyclic'
  BY <1>1, <1>2, <1>3 DEF TypeOK, ReplayAgrees, DependenciesAcyclic
<1>5. ASSUME NEW t \in Tasks, Live(t)' PROVE Live(EpicOf[t])'
  <2>1. t \in Node /\ EpicOf[t] \in Node
    BY IdsAssumption DEF Node, Item
  <2> QED BY <1>1, <1>2, <1>5, <2>1 DEF ReferentialIntegrity
<1>6. ASSUME NEW s \in Subtasks, Live(s)' PROVE Live(TaskOf[s])'
  <2>1. s \in Node /\ TaskOf[s] \in Node
    BY IdsAssumption DEF Node, Item
  <2> QED BY <1>1, <1>2, <1>6, <2>1 DEF ReferentialIntegrity
<1>7. ASSUME NEW d \in deps' PROVE Live(d[1])' /\ Live(d[2])'
  <2>1. d[1] \in Node /\ d[2] \in Node
    BY <1>1, <1>3 DEF TypeOK, Edge, Node
  <2> QED BY <1>1, <1>2, <1>3, <2>1 DEF ReferentialIntegrity, LiveItems
<1> QED BY <1>4, <1>5, <1>6, <1>7 DEF IInv, ReferentialIntegrity

\* So does one that only writes rows.
LEMMA RowWritesKeepIInv ==
    ASSUME IInv,
           NEW M \in SUBSET Node, NEW rows \in [M -> Statuses], WriteRows(rows),
           UNCHANGED <<deps, logDeps>>,
           \A t \in M \cap Tasks : Live(EpicOf[t]) \/ EpicOf[t] \in M,
           \A s \in M \cap Subtasks : Live(TaskOf[s]) \/ TaskOf[s] \in M
    PROVE  IInv'
<1>1. AddEdges({}) /\ Acyclic(deps \cup {})
  <2>1. deps \cup {} = deps
    OBVIOUS
  <2> QED BY <2>1 DEF AddEdges, IInv, DependenciesAcyclic
<1> QED BY <1>1, WritesKeepIInv

\* A deletion that takes the children of the rows with them, announces all the rows that
\* were there and removes every edge with an end among them keeps the invariant.
LEMMA DeletionsKeepIInv ==
    ASSUME IInv,
           NEW N \in SUBSET Node, NEW A \in SUBSET N, DeleteRows(N, Touching(A), A),
           \A n \in N : Live(n) => n \in A,
           \A t \in Tasks : Live(t) /\ EpicOf[t] \in N => t \in N,
           \A s \in Subtasks : Live(s) /\ TaskOf[s] \in N => s \in N
    PROVE  IInv'
<1>1. TypeOK /\ ReferentialIntegrity /\ ReplayAgrees
  BY DEF IInv
<1>2. Touching(A) \in SUBSET deps
  BY DEF Touching
<1>3. /\ status' \in [Node -> Statuses \cup {Absent}]
      /\ logStatus' \in [Node -> Statuses \cup {Absent}]
      /\ \A n \in Node : status'[n] = IF n \in N THEN Absent ELSE status[n]
      /\ logStatus' = status'
  BY <1>1, <1>2, DeleteRowsEffect DEF ReplayAgrees
<1>4. deps' = deps \ Touching(A) /\ logDeps' = logDeps \ Touching(A)
  BY DEF DeleteRows
<1>5. TypeOK' /\ ReplayAgrees'
  BY <1>1, <1>3, <1>4 DEF TypeOK, ReplayAgrees
<1>6. DependenciesAcyclic'
  <2>1. deps \in SUBSET Edge /\ deps' \in SUBSET deps
    BY <1>1, <1>4 DEF TypeOK
  <2>2. Acyclic(deps')
    BY <2>1, RemoveKeepsAcyclic DEF IInv, DependenciesAcyclic
  <2> QED BY <2>2 DEF DependenciesAcyclic
<1>7. \A n \in Node : Live(n)' <=> Live(n) /\ n \notin N
  BY <1>3 DEF Live
<1>8. ASSUME NEW t \in Tasks, Live(t)' PROVE Live(EpicOf[t])'
  <2>1. t \in Node /\ EpicOf[t] \in Node
    BY IdsAssumption DEF Node, Item
  <2> QED BY <1>1, <1>7, <1>8, <2>1 DEF ReferentialIntegrity
<1>9. ASSUME NEW s \in Subtasks, Live(s)' PROVE Live(TaskOf[s])'
  <2>1. s \in Node /\ TaskOf[s] \in Node
    BY IdsAssumption DEF Node, Item
  <2> QED BY <1>1, <1>7, <1>9, <2>1 DEF ReferentialIntegrity
<1>10. ASSUME NEW d \in deps' PROVE Live(d[1])' /\ Live(d[2])'
  <2>1. d \in deps /\ d[1] \notin A /\ d[2] \notin A
    BY <1>4 DEF Touching
  <2>2. d[1] \in Node /\ d[2] \in Node
    BY <1>1, <2>1 DEF TypeOK, Edge, Node
  <2> QED BY <1>1, <1>7, <2>1, <2>2 DEF ReferentialIntegrity
<1> QED BY <1>5, <1>6, <1>8, <1>9, <1>10 DEF IInv, ReferentialIntegrity

----------------------------------------------------------------------------
(* The invariant *)

\* The rows a creation writes were not there.
LEMMA NewRowsAreFresh ==
    ASSUME NEW N \in SUBSET Node, NEW rows \in NewRows(N)
    PROVE  /\ DOMAIN rows \in SUBSET N
           /\ rows \in [DOMAIN rows -> Statuses]
           /\ \A n \in DOMAIN rows : ~Live(n)
BY DEF NewRows

\* One status for a set of rows.
LEMMA AllIsFunction ==
    ASSUME NEW N, NEW s \in Statuses PROVE All(N, s) \in [N -> Statuses]
BY DEF All

\* The status machine speaks about statuses.
LEMMA ValidStatusesAreStatuses ==
    {"todo", "in_progress", "blocked", "done"} \in SUBSET Statuses
BY DEF Statuses, ValidStatuses

\* The empty database satisfies the invariant.
LEMMA InitIInv == Init => IInv
<1> SUFFICES ASSUME Init PROVE IInv
  OBVIOUS
<1>1. \A n \in Node : ~Live(n)
  BY DEF Init, Live
<1>2. TypeOK /\ ReplayAgrees /\ DependenciesAcyclic
  BY DEF Init, TypeOK, ReplayAgrees, DependenciesAcyclic, Acyclic
<1>3. ReferentialIntegrity
  BY <1>1, IdsAssumption DEF Init, ReferentialIntegrity, Node, Item
<1> QED BY <1>2, <1>3 DEF IInv

\* Writing one row that exists, or any rows that do, keeps the invariant.
LEMMA StatusWritesKeepIInv ==
    ASSUME IInv, NEW N \in SUBSET Node, NEW s \in Statuses,
           \A n \in N : Live(n),
           WriteRows(All(N, s)), UNCHANGED <<deps, logDeps>>
    PROVE  IInv'
<1>1. All(N, s) \in [N -> Statuses]
  BY AllIsFunction
<1>2. \A t \in N \cap Tasks : Live(EpicOf[t])
  BY DEF IInv, ReferentialIntegrity
<1>3. \A k \in N \cap Subtasks : Live(TaskOf[k])
  BY DEF IInv, ReferentialIntegrity
<1> QED BY <1>1, <1>2, <1>3, RowWritesKeepIInv

\* create of epics, tasks and subtasks: the parent is there.
LEMMA CreationKeepsIInv ==
    ASSUME IInv
    PROVE  /\ \A e \in Epics, s \in Statuses : CreateEpic(e, s) => IInv'
           /\ \A e \in Epics, rows \in NewRows(Tasks) : CreateTaskBatch(e, rows) => IInv'
           /\ \A rows \in NewRows(Subtasks) : CreateSubtaskBatch(rows) => IInv'
<1>1. Epics \in SUBSET Node /\ Tasks \in SUBSET Node /\ Subtasks \in SUBSET Node
  BY DEF Node, Item
<1>2. ASSUME NEW e \in Epics, NEW s \in Statuses, CreateEpic(e, s) PROVE IInv'
  <2>1. All({e}, s) \in [{e} -> Statuses] /\ {e} \in SUBSET Node
    BY <1>1, AllIsFunction
  <2>2. {e} \cap Tasks = {} /\ {e} \cap Subtasks = {}
    BY IdsAssumption
  <2> QED BY <1>2, <2>1, <2>2, RowWritesKeepIInv DEF CreateEpic
<1>3. ASSUME NEW e \in Epics, NEW rows \in NewRows(Tasks), CreateTaskBatch(e, rows)
      PROVE  IInv'
  <2>1. DOMAIN rows \in SUBSET Tasks /\ rows \in [DOMAIN rows -> Statuses]
    BY <1>1, NewRowsAreFresh
  <2>2. \A t \in DOMAIN rows \cap Tasks : Live(EpicOf[t])
    BY <1>3 DEF CreateTaskBatch
  <2>3. DOMAIN rows \cap Subtasks = {}
    BY <2>1, IdsAssumption
  <2>4. DOMAIN rows \in SUBSET Node
    BY <1>1, <2>1
  <2> QED BY <1>3, <2>1, <2>2, <2>3, <2>4, RowWritesKeepIInv DEF CreateTaskBatch
<1>4. ASSUME NEW rows \in NewRows(Subtasks), CreateSubtaskBatch(rows) PROVE IInv'
  <2>1. DOMAIN rows \in SUBSET Subtasks /\ rows \in [DOMAIN rows -> Statuses]
    BY <1>1, NewRowsAreFresh
  <2>2. \A s \in DOMAIN rows \cap Subtasks : Live(TaskOf[s])
    BY <1>4 DEF CreateSubtaskBatch
  <2>3. DOMAIN rows \cap Tasks = {}
    BY <2>1, IdsAssumption
  <2>4. DOMAIN rows \in SUBSET Node
    BY <1>1, <2>1
  <2> QED BY <1>4, <2>1, <2>2, <2>3, <2>4, RowWritesKeepIInv DEF CreateSubtaskBatch
<1> QED BY <1>2, <1>3, <1>4

\* What the two commands that create a whole graph have in common.
LEMMA ExpandGraphIsSound ==
    ASSUME IInv, NEW e \in Epics, NEW rows \in NewRows(Item), NEW D \in EdgeBatches,
           ExpandGraph(e, rows, D)
    PROVE  /\ D \in SUBSET Edge /\ AddEdges(D) /\ Acyclic(deps \cup D)
           /\ DOMAIN rows \in SUBSET Node /\ rows \in [DOMAIN rows -> Statuses]
           /\ \A t \in DOMAIN rows \cap Tasks : EpicOf[t] = e
           /\ \A s \in DOMAIN rows \cap Subtasks : Live(TaskOf[s]) \/ TaskOf[s] \in DOMAIN rows
           /\ \A d \in D : d[1] \in LiveItems \cup DOMAIN rows /\ d[2] \in LiveItems \cup DOMAIN rows
<1>1. D \in SUBSET Edge /\ deps \in SUBSET Edge /\ Acyclic(deps)
  BY DEF EdgeBatches, IInv, TypeOK, DependenciesAcyclic
<1>2. \A d \in D : ~Reaches(deps \cup D, d[2], d[1])
  BY DEF ExpandGraph, BatchAllowed
<1>3. Acyclic(deps \cup D)
  BY <1>1, <1>2, AddKeepsAcyclic
<1>4. Item \in SUBSET Node
  BY DEF Node
<1>5. DOMAIN rows \in SUBSET Node /\ rows \in [DOMAIN rows -> Statuses]
  BY <1>4, NewRowsAreFresh
<1> QED BY <1>1, <1>3, <1>5 DEF ExpandGraph, BatchAllowed

\* The commands that create a whole graph.
LEMMA ExpansionKeepsIInv ==
    ASSUME IInv, NEW e \in Epics, NEW rows \in NewRows(Item), NEW D \in EdgeBatches
    PROVE  /\ ExpandEpic(e, rows, D) => IInv'
           /\ \A s \in Statuses : CreateEpicGraph(e, s, rows, D) => IInv'
<1> DEFINE Sound ==
              /\ D \in SUBSET Edge /\ AddEdges(D) /\ Acyclic(deps \cup D)
              /\ DOMAIN rows \in SUBSET Node /\ rows \in [DOMAIN rows -> Statuses]
              /\ \A t \in DOMAIN rows \cap Tasks : EpicOf[t] = e
              /\ \A s \in DOMAIN rows \cap Subtasks :
                    Live(TaskOf[s]) \/ TaskOf[s] \in DOMAIN rows
              /\ \A d \in D : /\ d[1] \in LiveItems \cup DOMAIN rows
                              /\ d[2] \in LiveItems \cup DOMAIN rows
<1>1. ASSUME ExpandGraph(e, rows, D) PROVE Sound
  BY <1>1, ExpandGraphIsSound
<1>2. ASSUME ExpandEpic(e, rows, D) PROVE IInv'
  <2>1. Sound /\ WriteRows(rows) /\ Live(e)
    BY <1>1, <1>2 DEF ExpandEpic
  <2>2. \A t \in DOMAIN rows \cap Tasks : Live(EpicOf[t])
    BY <2>1
  <2> QED BY <2>1, <2>2, WritesKeepIInv
<1>3. ASSUME NEW s \in Statuses, CreateEpicGraph(e, s, rows, D) PROVE IInv'
  <2> DEFINE M == {e} \cup DOMAIN rows
             all == [n \in M |-> IF n = e THEN s ELSE rows[n]]
  <2>1. Sound /\ WriteRows(all)
    BY <1>1, <1>3 DEF CreateEpicGraph
  <2>2. M \in SUBSET Node /\ all \in [M -> Statuses]
    BY <2>1 DEF Node
  <2>3. e \notin Tasks /\ e \notin Subtasks
    BY IdsAssumption
  <2>4. \A t \in M \cap Tasks : EpicOf[t] \in M
    BY <2>1, <2>3
  <2>5. \A k \in M \cap Subtasks : Live(TaskOf[k]) \/ TaskOf[k] \in M
    BY <2>1, <2>3
  <2>6. \A d \in D : d[1] \in LiveItems \cup M /\ d[2] \in LiveItems \cup M
    BY <2>1
  <2>7. D \in SUBSET Edge /\ AddEdges(D) /\ Acyclic(deps \cup D)
    BY <2>1
  <2> HIDE DEF M, all
  <2> QED BY <2>1, <2>2, <2>4, <2>5, <2>6, <2>7, WritesKeepIInv
<1> QED BY <1>2, <1>3

\* Updates, claims, the jump to done, and cascades.
LEMMA UpdatesKeepIInv ==
    ASSUME IInv
    PROVE  /\ \A e \in Epics, s \in Statuses : UpdateEpic(e, s) => IInv'
           /\ \A n \in Item, s \in Statuses : UpdateItem(n, s) => IInv'
           /\ \A n \in Item : Claim(n) => IInv'
           /\ \A t \in Tasks : MarkTaskDone(t) => IInv'
           /\ \A r \in Epics \cup Tasks, s \in Statuses : Cascade(r, s) => IInv'
<1>1. Epics \in SUBSET Node /\ Item \in SUBSET Node /\ Tasks \in SUBSET Node
  BY DEF Node, Item
<1>2. ASSUME NEW e \in Epics, NEW s \in Statuses, UpdateEpic(e, s) PROVE IInv'
  BY <1>1, <1>2, StatusWritesKeepIInv DEF UpdateEpic
<1>3. ASSUME NEW n \in Item, NEW s \in Statuses, UpdateItem(n, s) PROVE IInv'
  BY <1>1, <1>3, StatusWritesKeepIInv DEF UpdateItem
<1>4. ASSUME NEW n \in Item, Claim(n) PROVE IInv'
  <2>1. Live(n) /\ "in_progress" \in Statuses
    BY <1>4, ValidStatusesAreStatuses DEF Claim, Live, Absent
  <2> QED BY <1>1, <1>4, <2>1, StatusWritesKeepIInv DEF Claim
<1>5. ASSUME NEW t \in Tasks, MarkTaskDone(t) PROVE IInv'
  <2>1. Live(t) /\ "done" \in Statuses
    BY <1>5, ValidStatusesAreStatuses DEF MarkTaskDone, Live, Absent
  <2> QED BY <1>1, <1>5, <2>1, StatusWritesKeepIInv DEF MarkTaskDone
<1>6. ASSUME NEW r \in Epics \cup Tasks, NEW s \in Statuses, Cascade(r, s) PROVE IInv'
  <2> DEFINE changes == {n \in Scope(r) : status[n] # s}
  <2>1. Live(r) /\ WriteRows(All(changes, s)) /\ UNCHANGED <<deps, logDeps>>
    BY <1>6 DEF Cascade
  <2>2. changes \in SUBSET Node
    BY DEF Scope, TasksOf, SubtasksOf, Node, Item
  <2>3. \A n \in changes : Live(n)
    BY <2>1 DEF Scope, TasksOf, SubtasksOf
  <2> HIDE DEF changes
  <2> QED BY <2>1, <2>2, <2>3, StatusWritesKeepIInv
<1> QED BY <1>2, <1>3, <1>4, <1>5, <1>6


\* The three deletions.
LEMMA DeletionKeepsIInv ==
    ASSUME IInv
    PROVE  /\ \A e \in Epics : DeleteEpic(e) => IInv'
           /\ \A t \in Tasks : DeleteTask(t) => IInv'
           /\ \A s \in Subtasks : DeleteSubtask(s) => IInv'
<1>1. ReferentialIntegrity
  BY DEF IInv
<1>2. ASSUME NEW e \in Epics, DeleteEpic(e) PROVE IInv'
  <2> DEFINE tasks == TasksOf(e)
             subtasks == SubtasksOf(TasksOf(e))
             N == {e} \cup {t \in Tasks : EpicOf[t] = e}
                      \cup {s \in Subtasks : EpicOf[TaskOf[s]] = e}
             A == {e} \cup tasks \cup subtasks
  <2>1. N \in SUBSET Node /\ A \in SUBSET N
    BY DEF TasksOf, SubtasksOf, Node, Item
  <2>2. \A n \in N : Live(n) => n \in A
    BY <1>1, IdsAssumption DEF TasksOf, SubtasksOf, ReferentialIntegrity
  <2>3. \A t \in Tasks : Live(t) /\ EpicOf[t] \in N => t \in N
    BY IdsAssumption
  <2>4. \A s \in Subtasks : Live(s) /\ TaskOf[s] \in N => s \in N
    BY IdsAssumption
  <2>5. Touching(tasks \cup subtasks) = Touching(A)
    <3>1. e \notin Item
      BY IdsAssumption DEF Item
    <3>2. deps \in SUBSET Edge
      BY DEF IInv, TypeOK
    <3> QED BY <3>1, <3>2 DEF Touching, Edge
  <2>6. DeleteRows(N, Touching(A), A)
    BY <1>2, <2>5 DEF DeleteEpic
  <2> HIDE DEF N, A
  <2> QED BY <2>1, <2>2, <2>3, <2>4, <2>6, DeletionsKeepIInv
<1>3. ASSUME NEW t \in Tasks, DeleteTask(t) PROVE IInv'
  <2> DEFINE N == {t} \cup SubtasksOf({t})
  <2>1. N \in SUBSET Node /\ N \in SUBSET N
    BY DEF SubtasksOf, Node, Item
  <2>2. \A u \in Tasks : EpicOf[u] \notin N
    BY IdsAssumption DEF SubtasksOf
  <2>3. \A s \in Subtasks : Live(s) /\ TaskOf[s] \in N => s \in N
    BY IdsAssumption DEF SubtasksOf
  <2>4. DeleteRows(N, Touching(N), N)
    BY <1>3 DEF DeleteTask
  <2> HIDE DEF N
  <2> QED BY <2>1, <2>2, <2>3, <2>4, DeletionsKeepIInv
<1>4. ASSUME NEW s \in Subtasks, DeleteSubtask(s) PROVE IInv'
  <2>1. {s} \in SUBSET Node /\ {s} \in SUBSET {s}
    BY DEF Node, Item
  <2>2. /\ \A u \in Tasks : EpicOf[u] \notin {s}
        /\ \A k \in Subtasks : TaskOf[k] \notin {s}
    BY IdsAssumption
  <2>3. DeleteRows({s}, Touching({s}), {s})
    BY <1>4 DEF DeleteSubtask
  <2> QED BY <2>1, <2>2, <2>3, DeletionsKeepIInv
<1> QED BY <1>2, <1>3, <1>4

\* Commands that write only the dependencies table.
LEMMA EdgeWritesKeepIInv ==
    ASSUME IInv, deps' \in SUBSET Edge, logDeps' = deps', Acyclic(deps'),
           UNCHANGED <<status, logStatus>>,
           \A d \in deps' : Live(d[1]) /\ Live(d[2])
    PROVE  IInv'
BY DEF IInv, TypeOK, ReferentialIntegrity, DependenciesAcyclic, ReplayAgrees, Live

\* The commands that write only edges.
LEMMA DependencyCommandsKeepIInv ==
    ASSUME IInv
    PROVE  /\ \A a, b \in Item : AddDependency(a, b) => IInv'
           /\ \A D \in EdgeBatches : AddDependencyBatch(D) => IInv'
           /\ \A a, b \in Item : RemoveDependency(a, b) => IInv'
<1>1. deps \in SUBSET Edge /\ Acyclic(deps) /\ logDeps = deps
  BY DEF IInv, TypeOK, DependenciesAcyclic, ReplayAgrees
<1>2. \A d \in deps : Live(d[1]) /\ Live(d[2])
  BY DEF IInv, ReferentialIntegrity
<1>3. ASSUME NEW a \in Item, NEW b \in Item, AddDependency(a, b) PROVE IInv'
  <2>1. /\ Live(a) /\ Live(b) /\ UNCHANGED <<status, logStatus>>
        /\ <<a, b>> \in deps \/ ~Reaches(deps, b, a)
        /\ deps' = deps \cup {<<a, b>>} /\ logDeps' = logDeps \cup {<<a, b>>}
    BY <1>3 DEF AddDependency, AddEdges
  <2>2. Acyclic(deps')
    BY <1>1, <2>1, AddEdgeKeepsAcyclic
  <2>3. deps' \in SUBSET Edge
    BY <1>1, <2>1 DEF Edge
  <2> QED BY <1>1, <1>2, <2>1, <2>2, <2>3, EdgeWritesKeepIInv
<1>4. ASSUME NEW D \in EdgeBatches, AddDependencyBatch(D) PROVE IInv'
  <2>1. D \in SUBSET Edge
    BY DEF EdgeBatches
  <2>2. /\ \A d \in D : d[1] \in LiveItems /\ d[2] \in LiveItems
        /\ \A d \in D : ~Reaches(deps \cup D, d[2], d[1])
        /\ UNCHANGED <<status, logStatus>>
        /\ deps' = deps \cup D /\ logDeps' = logDeps \cup D
    BY <1>4 DEF AddDependencyBatch, BatchAllowed, AddEdges
  <2>3. Acyclic(deps')
    BY <1>1, <2>1, <2>2, AddKeepsAcyclic
  <2>4. \A d \in deps' : Live(d[1]) /\ Live(d[2])
    BY <1>2, <2>2 DEF LiveItems
  <2> QED BY <1>1, <2>1, <2>2, <2>3, <2>4, EdgeWritesKeepIInv
<1>5. ASSUME NEW a \in Item, NEW b \in Item, RemoveDependency(a, b) PROVE IInv'
  <2>1. /\ UNCHANGED <<status, logStatus>>
        /\ deps' = deps \ {<<a, b>>} /\ logDeps' = logDeps \ {<<a, b>>}
    BY <1>5 DEF RemoveDependency
  <2>2. deps' \in SUBSET deps
    BY <2>1
  <2>3. Acyclic(deps')
    BY <1>1, <2>2, RemoveKeepsAcyclic
  <2> QED BY <1>1, <1>2, <2>1, <2>2, <2>3, EdgeWritesKeepIInv
<1> QED BY <1>3, <1>4, <1>5

\* Every operation keeps the invariant.
LEMMA StepIInv == IInv /\ [Next]_vars => IInv'
<1> SUFFICES ASSUME IInv, [Next]_vars PROVE IInv'
  OBVIOUS
<1>1. CASE UNCHANGED vars
  BY <1>1 DEF vars, IInv, TypeOK, ReferentialIntegrity, DependenciesAcyclic, ReplayAgrees, Live
<1>2. ASSUME NEW d \in Edge PROVE d[1] \in Item /\ d[2] \in Item
  BY DEF Edge
<1>3. CASE Next
  BY <1>2, <1>3, CreationKeepsIInv, ExpansionKeepsIInv, UpdatesKeepIInv, DeletionKeepsIInv,
     DependencyCommandsKeepIInv
     DEF Next, UpdateEpicStatusCascade, UpdateTaskStatusCascade
<1> QED BY <1>1, <1>3

\* The inductive invariant holds of every state of every behaviour.
THEOREM Invariance == Spec => []IInv
BY InitIInv, StepIInv, PTL DEF Spec

\* The columns keep to their domain, for every graph and batch size.
THEOREM TypeCorrect == Spec => []TypeOK
BY Invariance, PTL DEF IInv

\* Every deletion, whatever the shape of the graph it cuts, leaves no row without its
\* parent and no edge without its ends.
THEOREM NoDanglingReferences == Spec => []ReferentialIntegrity
BY Invariance, PTL DEF IInv

\* The three ways to add edges keep the dependency graph acyclic, for every graph and
\* every number of edges in a batch.
THEOREM DependenciesStayAcyclic == Spec => []DependenciesAcyclic
BY Invariance, PTL DEF IInv

\* The events table replays to the tables after every transaction.
THEOREM EventsAgreeWithTables == Spec => []ReplayAgrees
BY Invariance, PTL DEF IInv

----------------------------------------------------------------------------
(* The gate *)

\* What GateHolds asks of one step.
GatedStep ==
    \A n \in Item :
       Live(n) /\ status'[n] # status[n] /\ status'[n] \in Gated
          => \A d \in deps : d[1] = n => "done" \in {status[d[2]], status'[d[2]]}

\* A row that is written, already live, and gated: the only rows the gate is about.
LEMMA WritesAreGated ==
    ASSUME IInv, NEW M \in SUBSET Node, NEW rows \in [M -> Statuses], WriteRows(rows),
           \A n \in M \cap Item : Live(n) /\ rows[n] # status[n] /\ rows[n] \in Gated =>
              \A d \in deps : d[1] = n =>
                 \/ status[d[2]] = "done"
                 \/ d[2] \in M /\ rows[d[2]] = "done"
    PROVE  GatedStep
<1>1. \A n \in Node : status'[n] = IF n \in M THEN rows[n] ELSE status[n]
  BY WriteRowsEffect DEF IInv
<1>2. SUFFICES ASSUME NEW n \in Item, Live(n), status'[n] # status[n], status'[n] \in Gated,
                      NEW d \in deps, d[1] = n
               PROVE  "done" \in {status[d[2]], status'[d[2]]}
  BY DEF GatedStep
<1>3. n \in Node /\ d[2] \in Node
  BY DEF IInv, TypeOK, Edge, Node
<1> QED BY <1>1, <1>2, <1>3

\* A row whose dependencies were found done may enter a gated status.
LEMMA DepsDoneHolds ==
    ASSUME IInv, NEW n \in Item, DepsDone(n), NEW d \in deps, d[1] = n
    PROVE  status[d[2]] = "done"
BY DEF IInv, ReferentialIntegrity, DepsDone

\* A deletion moves no row into a gated status.
LEMMA DeletionsAreGated ==
    ASSUME IInv, NEW N \in SUBSET Node, NEW D, NEW A, DeleteRows(N, D, A)
    PROVE  GatedStep
<1>1. \A n \in Node : status'[n] = status[n] \/ status'[n] = Absent
  BY DEF DeleteRows, Override, All
<1>2. Absent \notin Gated
  BY DEF Absent, Gated
<1> QED BY <1>1, <1>2 DEF GatedStep, Node

\* An operation on one row that passes the gate.
LEMMA OneRowIsGated ==
    ASSUME IInv, NEW n \in Item, NEW s \in Statuses, WriteRows(All({n}, s)),
           status[n] # s /\ s \in Gated => DepsDone(n)
    PROVE  GatedStep
<1>1. All({n}, s) \in [{n} -> Statuses] /\ All({n}, s)[n] = s /\ {n} \in SUBSET Node
  BY AllIsFunction DEF All, Node
<1> QED BY <1>1, DepsDoneHolds, WritesAreGated

\* The gate says nothing of rows that were not there.
LEMMA FreshRowsAreGated ==
    ASSUME IInv, NEW N \in SUBSET Node, NEW rows \in NewRows(N), WriteRows(rows)
    PROVE  GatedStep
<1>1. /\ DOMAIN rows \in SUBSET Node /\ rows \in [DOMAIN rows -> Statuses]
      /\ \A n \in DOMAIN rows : ~Live(n)
  BY NewRowsAreFresh
<1> QED BY <1>1, WritesAreGated

\* What a cascade writes either has done dependencies or makes them done itself.
LEMMA CascadeIsGated ==
    ASSUME IInv, NEW r \in Epics \cup Tasks, NEW s \in Statuses, Cascade(r, s)
    PROVE  GatedStep
<1> DEFINE changes == {n \in Scope(r) : status[n] # s}
<1>1. /\ WriteRows(All(changes, s)) /\ CascadeBlockers(changes, s) = {}
  BY DEF Cascade
<1>2. changes \in SUBSET Node
  BY DEF Scope, TasksOf, SubtasksOf, Node, Item
<1> HIDE DEF changes
<1>3. All(changes, s) \in [changes -> Statuses] /\ \A n \in changes : All(changes, s)[n] = s
  BY AllIsFunction DEF All
<1>4. ASSUME NEW n \in changes, s \in Gated, NEW d \in deps, d[1] = n
      PROVE  status[d[2]] = "done" \/ (d[2] \in changes /\ s = "done")
  <2>1. Live(d[2])
    BY DEF IInv, ReferentialIntegrity
  <2>2. d \notin CascadeBlockers(changes, s)
    BY <1>1
  <2> QED BY <1>4, <2>1, <2>2 DEF CascadeBlockers
<1> QED BY <1>1, <1>2, <1>3, <1>4, WritesAreGated

\* Every operation respects the gate.
LEMMA StepIsGated == IInv /\ [Next]_vars => [GatedStep]_vars
<1> SUFFICES ASSUME IInv, Next PROVE GatedStep
  OBVIOUS
<1>1. Item \in SUBSET Node /\ Tasks \in SUBSET Node /\ Subtasks \in SUBSET Node
  BY DEF Node, Item
<1>2. /\ \A e \in Epics, rows \in NewRows(Tasks) : CreateTaskBatch(e, rows) => GatedStep
      /\ \A rows \in NewRows(Subtasks) : CreateSubtaskBatch(rows) => GatedStep
      /\ \A e \in Epics, rows \in NewRows(Item), D \in EdgeBatches :
            ExpandEpic(e, rows, D) => GatedStep
  BY <1>1, FreshRowsAreGated DEF CreateTaskBatch, CreateSubtaskBatch, ExpandEpic
<1>3. ASSUME NEW e \in Epics, NEW s \in Statuses, WriteRows(All({e}, s)) PROVE GatedStep
  <2>1. All({e}, s) \in [{e} -> Statuses] /\ {e} \in SUBSET Node /\ {e} \cap Item = {}
    BY AllIsFunction, IdsAssumption DEF Node, Item
  <2> QED BY <1>3, <2>1, WritesAreGated
<1>4. \A e \in Epics, s \in Statuses : CreateEpic(e, s) \/ UpdateEpic(e, s) => GatedStep
  BY <1>3 DEF CreateEpic, UpdateEpic
<1>5. ASSUME NEW e \in Epics, NEW s \in Statuses, NEW rows \in NewRows(Item), NEW D,
             CreateEpicGraph(e, s, rows, D)
      PROVE  GatedStep
  <2> DEFINE M == {e} \cup DOMAIN rows
             all == [n \in M |-> IF n = e THEN s ELSE rows[n]]
  <2>1. /\ DOMAIN rows \in SUBSET Item /\ rows \in [DOMAIN rows -> Statuses]
        /\ \A n \in DOMAIN rows : ~Live(n)
    BY <1>1, NewRowsAreFresh
  <2>2. M \in SUBSET Node /\ all \in [M -> Statuses] /\ WriteRows(all)
    BY <1>5, <2>1 DEF CreateEpicGraph, Node
  <2>3. \A n \in M \cap Item : ~Live(n)
    BY <2>1, IdsAssumption DEF Item
  <2> HIDE DEF M, all
  <2> QED BY <2>2, <2>3, WritesAreGated
<1>6. \A n \in Item, s \in Statuses : UpdateItem(n, s) => GatedStep
  BY OneRowIsGated DEF UpdateItem
<1>7. (\A n \in Item : Claim(n) => GatedStep) /\ (\A t \in Tasks : MarkTaskDone(t) => GatedStep)
  <2>1. Tasks \in SUBSET Item
    BY DEF Item
  <2> QED BY <2>1, OneRowIsGated, ValidStatusesAreStatuses DEF Claim, MarkTaskDone
<1>8. /\ \A e \in Epics, s \in Statuses : UpdateEpicStatusCascade(e, s) => GatedStep
      /\ \A t \in Tasks, s \in Statuses : UpdateTaskStatusCascade(t, s) => GatedStep
  BY CascadeIsGated DEF UpdateEpicStatusCascade, UpdateTaskStatusCascade
<1>9. /\ \A e \in Epics : DeleteEpic(e) => GatedStep
      /\ \A t \in Tasks : DeleteTask(t) => GatedStep
      /\ \A s \in Subtasks : DeleteSubtask(s) => GatedStep
  <2>1. ASSUME NEW e \in Epics, DeleteEpic(e) PROVE GatedStep
    <3>1. {e} \cup {t \in Tasks : EpicOf[t] = e} \cup {s \in Subtasks : EpicOf[TaskOf[s]] = e}
            \in SUBSET Node
      BY DEF Node, Item
    <3> QED BY <2>1, <3>1, DeletionsAreGated DEF DeleteEpic
  <2>2. ASSUME NEW t \in Tasks, DeleteTask(t) PROVE GatedStep
    <3>1. {t} \cup SubtasksOf({t}) \in SUBSET Node
      BY DEF SubtasksOf, Node, Item
    <3> QED BY <2>2, <3>1, DeletionsAreGated DEF DeleteTask
  <2>3. ASSUME NEW s \in Subtasks, DeleteSubtask(s) PROVE GatedStep
    <3>1. {s} \in SUBSET Node
      BY <1>1
    <3> QED BY <2>3, <3>1, DeletionsAreGated DEF DeleteSubtask
  <2> QED BY <2>1, <2>2, <2>3
<1>10. UNCHANGED status => GatedStep
  BY DEF GatedStep
<1>11. /\ \A a, b \in Item : AddDependency(a, b) \/ RemoveDependency(a, b) => GatedStep
       /\ \A D \in EdgeBatches : AddDependencyBatch(D) => GatedStep
  BY <1>10 DEF AddDependency, RemoveDependency, AddDependencyBatch
<1>12. \A d \in Edge : d[1] \in Item /\ d[2] \in Item
  BY DEF Edge
<1> QED BY <1>2, <1>4, <1>5, <1>6, <1>7, <1>8, <1>9, <1>11, <1>12 DEF Next

\* No operation, the cascades and the direct write of `task done` included, takes an
\* existing item into in_progress or done past an open dependency.
THEOREM GateAlwaysHolds == Spec => GateHolds
<1>1. IInv /\ [Next]_vars => [GatedStep]_vars
  BY StepIsGated
<1>2. Spec => [][GatedStep]_vars
  BY <1>1, Invariance, PTL DEF Spec
<1> QED BY <1>2 DEF GateHolds, GatedStep


----------------------------------------------------------------------------
(* The agents of module Execution                                           *)

\* Rows are there and have one of the four statuses; only an agent that has ended a task has
\* an answer to pass on; and who claims or works does so with a task.
AgentsSound ==
    /\ AgentsOK
    /\ \A n \in Node : status[n] \in ValidStatuses
    /\ \A a \in Agent : answer[a] # {} => step[a] = "reported"
    /\ \A a \in Agent : step[a] \in {"claiming", "working"} => task[a] \in Tasks

\* What the agents do to the database: no row is created or goes back to todo, and none
\* that is done changes.
Progress ==
    /\ TypeOK'
    /\ deps' = deps
    /\ \A n \in Node : status'[n] \in ValidStatuses
    /\ \A n \in Item : \/ status'[n] = status[n]
                       \/ status'[n] # "todo" /\ status[n] # "done"
    /\ \A t \in Tasks : status[t] \in {"in_progress", "done", "blocked"}
                            => status'[t] \in {"in_progress", "done", "blocked"}

\* One row is written.
OnlyRow(n, s) == \A m \in Node : status'[m] = IF m = n THEN s ELSE status[m]

LEMMA OneRowWritten ==
    ASSUME TypeOK, NEW n \in Node, NEW s \in Statuses, WriteRows(All({n}, s))
    PROVE  /\ status' \in [Node -> Statuses \cup {Absent}]
           /\ logStatus' \in [Node -> Statuses \cup {Absent}]
           /\ OnlyRow(n, s)
<1>1. All({n}, s) \in [{n} -> Statuses] /\ {n} \in SUBSET Node
  BY AllIsFunction
<1>2. All({n}, s)[n] = s
  BY DEF All
<1>3. /\ status' \in [Node -> Statuses \cup {Absent}]
      /\ logStatus' \in [Node -> Statuses \cup {Absent}]
      /\ \A m \in Node : status'[m] = IF m \in {n} THEN All({n}, s)[m] ELSE status[m]
  BY <1>1, WriteRowsEffect
<1> QED BY <1>2, <1>3 DEF OnlyRow

LEMMA NodeFacts ==
    /\ Tasks \subseteq Node /\ Subtasks \subseteq Node /\ Epics \subseteq Node /\ Item \subseteq Node
    /\ Tasks \subseteq Item /\ Subtasks \subseteq Item /\ Item = Tasks \cup Subtasks
    /\ Epics \cap Item = {} /\ Tasks \cap Subtasks = {}
  BY IdsAssumption DEF Node, Item

LEMMA OneRowProgress ==
    ASSUME AgentsSound, NEW n \in Node, NEW s \in ValidStatuses \ {"todo"}, WriteRows(All({n}, s)),
           UNCHANGED <<deps, logDeps>>, n \in Epics \/ status[n] # "done" \/ s = "done"
    PROVE  Progress /\ OnlyRow(n, s)
<1>1. TypeOK /\ s \in Statuses
  BY DEF AgentsSound, AgentsOK, Statuses
<1>2. /\ status' \in [Node -> Statuses \cup {Absent}]
      /\ logStatus' \in [Node -> Statuses \cup {Absent}]
      /\ OnlyRow(n, s)
  BY <1>1, OneRowWritten
<1>3. TypeOK'
  BY <1>1, <1>2 DEF TypeOK
<1>4. \A m \in Node : status'[m] \in ValidStatuses
  BY <1>2 DEF OnlyRow, AgentsSound
<1>5. \A m \in Item : status'[m] = status[m] \/ (status'[m] # "todo" /\ status[m] # "done")
  <2> SUFFICES ASSUME NEW m \in Item
               PROVE  status'[m] = status[m] \/ (status'[m] # "todo" /\ status[m] # "done")
    OBVIOUS
  <2>1. m \in Node /\ (m = n => n \notin Epics)
    BY NodeFacts
  <2> QED BY <1>2, <2>1 DEF OnlyRow
<1>6. \A t \in Tasks : status[t] \in {"in_progress", "done", "blocked"}
                           => status'[t] \in {"in_progress", "done", "blocked"}
  BY <1>2, NodeFacts DEF OnlyRow, ValidStatuses
<1> QED BY <1>2, <1>3, <1>4, <1>5, <1>6 DEF Progress

LEMMA StillProgress ==
    ASSUME AgentsSound, UNCHANGED vars
    PROVE  Progress
<1>1. TypeOK'
  BY DEF AgentsSound, AgentsOK, TypeOK, vars
<1> QED BY <1>1 DEF Progress, AgentsSound, vars

\* Each write of an agent or of the orchestrator.
LEMMA WritesProgress ==
    ASSUME AgentsSound
    PROVE  /\ \A e \in Epics : AdvanceEpic(e) => Progress /\ \A n \in Item : status'[n] = status[n]
           /\ \A a \in Agent : ClaimTask(a) =>
                  Progress /\ task[a] \in Tasks /\ OnlyRow(task[a], "in_progress")
                           /\ status[task[a]] # "done"
           /\ \A a \in Agent : DoSubtask(a) => Progress /\ \A t \in Tasks : status'[t] = status[t]
           /\ \A a \in Agent, t \in Tasks : TaskDone(a, t) => Progress /\ OnlyRow(t, "done")
           /\ \A a \in Agent : Block(a) =>
                  Progress /\ task[a] \in Tasks /\ OnlyRow(task[a], "blocked")
                           /\ status[task[a]] # "done"
<1>1. ASSUME NEW e \in Epics, AdvanceEpic(e)
      PROVE  Progress /\ \A n \in Item : status'[n] = status[n]
  <2>1. e \in Node /\ EpicTarget(e) \in ValidStatuses \ {"todo"}
    BY NodeFacts DEF EpicTarget, ValidStatuses
  <2>2. WriteRows(All({e}, EpicTarget(e))) /\ UNCHANGED <<deps, logDeps>>
    BY <1>1 DEF AdvanceEpic, UpdateEpic
  <2> HIDE DEF EpicTarget
  <2>3. Progress /\ OnlyRow(e, EpicTarget(e))
    BY <2>1, <2>2, OneRowProgress
  <2>4. \A n \in Item : n \in Node /\ n # e
    BY NodeFacts
  <2> QED BY <2>3, <2>4 DEF OnlyRow
<1>2. ASSUME NEW a \in Agent, ClaimTask(a)
      PROVE  /\ Progress /\ task[a] \in Tasks /\ OnlyRow(task[a], "in_progress")
             /\ status[task[a]] # "done"
  <2>1. task[a] \in Tasks /\ Claim(task[a])
    BY <1>2 DEF ClaimTask, AgentsSound
  <2>2. status[task[a]] # "done" /\ WriteRows(All({task[a]}, "in_progress")) /\ UNCHANGED <<deps, logDeps>>
    BY <2>1 DEF Claim
  <2> QED BY <2>1, <2>2, OneRowProgress, NodeFacts DEF ValidStatuses
<1>3. ASSUME NEW a \in Agent, DoSubtask(a) PROVE Progress /\ \A t \in Tasks : status'[t] = status[t]
  <2>1. PICK s \in OpenSubtasks(task[a]) : Claim(s) \/ (UpdateItem(s, "done") /\ status[s] # "done")
    BY <1>3 DEF DoSubtask
  <2>2. s \in Subtasks /\ s \in Node /\ status[s] # "done"
    BY <2>1, NodeFacts DEF OpenSubtasks, SubtasksOf
  <2>3. PICK v \in {"in_progress", "done"} : WriteRows(All({s}, v)) /\ UNCHANGED <<deps, logDeps>>
    BY <2>1 DEF Claim, UpdateItem
  <2>4. v \in ValidStatuses \ {"todo"}
    BY DEF ValidStatuses
  <2>5. Progress /\ OnlyRow(s, v)
    BY <2>2, <2>3, <2>4, OneRowProgress
  <2>6. \A t \in Tasks : t \in Node /\ t # s
    BY <2>2, NodeFacts
  <2> QED BY <2>5, <2>6 DEF OnlyRow
<1>4. ASSUME NEW a \in Agent, NEW t \in Tasks, TaskDone(a, t) PROVE Progress /\ OnlyRow(t, "done")
  <2>1. WriteRows(All({t}, "done")) /\ UNCHANGED <<deps, logDeps>>
    BY <1>4 DEF TaskDone, MarkTaskDone
  <2> QED BY <2>1, OneRowProgress, NodeFacts DEF ValidStatuses
<1>5. ASSUME NEW a \in Agent, Block(a)
      PROVE  /\ Progress /\ task[a] \in Tasks /\ OnlyRow(task[a], "blocked")
             /\ status[task[a]] # "done"
  <2>1. task[a] \in Tasks /\ UpdateItem(task[a], "blocked")
    BY <1>5 DEF Block, AgentsSound
  <2>2. status[task[a]] # "done"
    BY <2>1 DEF UpdateItem, ValidTransition, ValidTransitions, ValidStatuses
  <2>3. WriteRows(All({task[a]}, "blocked")) /\ UNCHANGED <<deps, logDeps>>
    BY <2>1 DEF UpdateItem
  <2> QED BY <2>1, <2>2, <2>3, OneRowProgress, NodeFacts DEF ValidStatuses
<1> QED BY <1>1, <1>2, <1>3, <1>4, <1>5

----------------------------------------------------------------------------
(* Who works and who knows *)

LEMMA StartSound == Start => AgentsSound /\ IInv
<1> SUFFICES ASSUME Start PROVE AgentsSound /\ IInv
  OBVIOUS
<1>1. deps \in SUBSET Edge /\ Acyclic(deps)
  BY PlanEdgesAssumption DEF Start, Plans
<1>2. /\ status = [n \in Node |-> "todo"] /\ logStatus = status /\ logDeps = deps
      /\ "todo" \in ValidStatuses /\ "todo" \in Statuses
  BY DEF Start, ValidStatuses, Statuses
<1>3. TypeOK
  BY <1>1, <1>2 DEF TypeOK
<1>4. \A n \in Node : status[n] = "todo" /\ Live(n)
  BY <1>2 DEF Live, Absent
<1>5. IInv
  <2>1. \A t \in Tasks : EpicOf[t] \in Node
    BY IdsAssumption, NodeFacts
  <2>2. \A s \in Subtasks : TaskOf[s] \in Node
    BY IdsAssumption, NodeFacts
  <2>3. \A d \in deps : d[1] \in Node /\ d[2] \in Node
    BY <1>1, NodeFacts DEF Edge
  <2> QED BY <1>1, <1>2, <1>3, <1>4, <2>1, <2>2, <2>3
          DEF IInv, ReferentialIntegrity, DependenciesAcyclic, ReplayAgrees
<1>6. AgentsOK
  BY <1>3, MaxCrashesAssumption DEF AgentsOK, Start
<1>7. AgentsSound
  BY <1>2, <1>4, <1>6 DEF AgentsSound, Start
<1> QED BY <1>5, <1>7

\* What an answer of `task done` names are tasks.
LEMMA AnswersNameTasks ==
    /\ \A e : Candidates(e) \subseteq Tasks
    /\ \A e : Candidates(e)' \subseteq Tasks
    /\ \A e : Foremost(e)' \subseteq Tasks
    /\ \A t : Waiting(t) \subseteq Tasks
<1>1. /\ \A e : Candidates(e) \subseteq Tasks
      /\ \A e : Candidates(e)' \subseteq Tasks
  BY DEF Candidates, OpenTasks
<1>2. \A e : Foremost(e)' \subseteq Candidates(e)'
  BY DEF Foremost
<1>3. \A t : Waiting(t) \subseteq Tasks
  BY DEF Waiting
<1> QED BY <1>1, <1>2, <1>3

\* What a step does to what each agent does.
LEMMA DoesFacts ==
    ASSUME step \in [Agent -> {"idle", "claiming", "working", "reported"}], NEW a \in Agent,
           NEW s \in {"idle", "claiming", "working", "reported"}, Does(a, s)
    PROVE  /\ step' \in [Agent -> {"idle", "claiming", "working", "reported"}]
           /\ step'[a] = s
           /\ \A b \in Agent \ {a} : step'[b] = step[b]
  BY DEF Does

LEMMA RunSound == AgentsSound /\ [Run]_allVars => AgentsSound'
<1> SUFFICES ASSUME AgentsSound, [Run]_allVars PROVE AgentsSound'
  OBVIOUS
<1> DEFINE Steps == {"idle", "claiming", "working", "reported"}
<1>1. /\ known \subseteq Tasks /\ unheard \subseteq Tasks /\ crashes \in 0 .. MaxCrashes
      /\ step \in [Agent -> Steps] /\ task \in [Agent -> Tasks \cup {Nobody}]
      /\ answer \in [Agent -> SUBSET Tasks]
      /\ \A a \in Agent : step[a] = "working" => status[task[a]] \in {"in_progress", "done", "blocked"}
      /\ \A a \in Agent : answer[a] # {} => step[a] = "reported"
      /\ \A a \in Agent : step[a] \in {"claiming", "working"} => task[a] \in Tasks
  BY DEF AgentsSound, AgentsOK
\* It is enough to look at the agents, when the rows have made progress.
<1>2. ASSUME Progress,
             known' \subseteq Tasks, unheard' \subseteq Tasks, crashes' \in 0 .. MaxCrashes,
             step' \in [Agent -> Steps], task' \in [Agent -> Tasks \cup {Nobody}],
             answer' \in [Agent -> SUBSET Tasks],
             \A a \in Agent : answer'[a] # {} => step'[a] = "reported",
             \A a \in Agent : step'[a] \in {"claiming", "working"} => task'[a] \in Tasks,
             \A a \in Agent : step'[a] = "working" =>
                 \/ step[a] = "working" /\ task'[a] = task[a]
                 \/ status'[task'[a]] \in {"in_progress", "done", "blocked"}
      PROVE  AgentsSound'
  <2>1. \A a \in Agent : step'[a] = "working" => status'[task'[a]] \in {"in_progress", "done", "blocked"}
    BY <1>1, <1>2 DEF Progress
  <2>2. AgentsOK'
    BY <1>2, <2>1 DEF AgentsOK, Progress
  <2> QED BY <1>2, <2>2 DEF AgentsSound, Progress
<1>3. ASSUME Progress, known' \subseteq Tasks, unheard' \subseteq Tasks,
             UNCHANGED <<step, task, answer, crashes>>
      PROVE  AgentsSound'
  BY <1>1, <1>2, <1>3
<1>4. UNCHANGED vars => Progress
  BY StillProgress
<1>5. CASE UNCHANGED allVars
  BY <1>1, <1>3, <1>4, <1>5 DEF allVars, agents
<1>6. ASSUME NEW e \in Epics, TaskReady(e) PROVE AgentsSound'
  BY <1>3, <1>4, <1>6, AnswersNameTasks DEF TaskReady
<1>7. ASSUME NEW e \in Epics, AdvanceEpic(e) PROVE AgentsSound'
  <2>1. Progress
    BY <1>7, WritesProgress
  <2> QED BY <1>1, <1>3, <1>7, <2>1 DEF AdvanceEpic, agents
<1>8. ASSUME NEW a \in Agent, NEW t \in Tasks, Dispatch(a, t) PROVE AgentsSound'
  <2> DEFINE s == IF status[t] = "in_progress" THEN "working" ELSE "claiming"
  <2>1. s \in Steps /\ Does(a, s) /\ (s = "working" => status[t] = "in_progress")
    BY <1>8 DEF Dispatch
  <2>2. /\ known' \subseteq Tasks /\ task' = [task EXCEPT ![a] = t]
        /\ UNCHANGED <<vars, answer, unheard, crashes>> /\ step[a] = "idle"
    BY <1>1, <1>8 DEF Dispatch, Idle
  <2> HIDE DEF s
  <2>3. step' \in [Agent -> Steps] /\ step'[a] = s /\ \A b \in Agent \ {a} : step'[b] = step[b]
    BY <1>1, <2>1, DoesFacts
  <2>4. /\ task' \in [Agent -> Tasks \cup {Nobody}] /\ task'[a] = t
        /\ \A b \in Agent \ {a} : task'[b] = task[b]
    BY <1>1, <2>2
  <2>5. \A b \in Agent : answer'[b] # {} => step'[b] = "reported"
    BY <1>1, <2>2, <2>3
  <2>6. \A b \in Agent : step'[b] \in {"claiming", "working"} => task'[b] \in Tasks
    BY <1>1, <2>3, <2>4
  <2>7. \A b \in Agent : step'[b] = "working" =>
            \/ step[b] = "working" /\ task'[b] = task[b]
            \/ status'[task'[b]] \in {"in_progress", "done", "blocked"}
    BY <2>1, <2>2, <2>3, <2>4 DEF vars
  <2> QED BY <1>1, <1>2, <1>4, <2>2, <2>3, <2>4, <2>5, <2>6, <2>7
\* The agent goes on to a step in which it does not work, or has a row it may work on.
<1>9. ASSUME NEW a \in Agent, NEW s \in Steps, Does(a, s), Progress,
             known' \subseteq Tasks, unheard' \subseteq Tasks, crashes' \in 0 .. MaxCrashes,
             answer' \in [Agent -> SUBSET Tasks], \A b \in Agent \ {a} : answer'[b] = answer[b],
             answer'[a] # {} => s = "reported",
             s # "claiming",
             s = "working" => task[a] \in Tasks /\ status'[task[a]] = "in_progress",
             UNCHANGED task
      PROVE  AgentsSound'
  <2>1. step' \in [Agent -> Steps] /\ step'[a] = s /\ \A b \in Agent \ {a} : step'[b] = step[b]
    BY <1>1, <1>9, DoesFacts
  <2>2. \A b \in Agent : answer'[b] # {} => step'[b] = "reported"
    BY <1>1, <1>9, <2>1
  <2>3. \A b \in Agent : step'[b] \in {"claiming", "working"} => task'[b] \in Tasks
    BY <1>1, <1>9, <2>1
  <2>4. \A b \in Agent : step'[b] = "working" =>
            \/ step[b] = "working" /\ task'[b] = task[b]
            \/ status'[task'[b]] \in {"in_progress", "done", "blocked"}
    BY <1>9, <2>1
  <2> QED BY <1>1, <1>2, <1>9, <2>1, <2>2, <2>3, <2>4
<1>11. ASSUME NEW a \in Agent, ClaimTask(a) PROVE AgentsSound'
  <2>1. Progress /\ task[a] \in Tasks /\ status'[task[a]] = "in_progress"
    BY <1>11, WritesProgress, NodeFacts DEF OnlyRow
  <2>2. Does(a, "working") /\ UNCHANGED <<known, task, answer, unheard, crashes>> /\ step[a] = "claiming"
    BY <1>11 DEF ClaimTask
  <2> QED BY <1>1, <1>9, <2>1, <2>2
<1>12. ASSUME NEW a \in Agent, ClaimRefused(a) \/ AlreadyDone(a) \/ SetAside(a) PROVE AgentsSound'
  <2>1. /\ Does(a, "idle") /\ UNCHANGED <<vars, known, task, answer, unheard, crashes>>
        /\ step[a] \in {"claiming", "working"}
    BY <1>12 DEF ClaimRefused, AlreadyDone, SetAside
  <2> QED BY <1>1, <1>4, <1>9, <2>1
<1>13. ASSUME NEW a \in Agent, DoSubtask(a) PROVE AgentsSound'
  <2>1. Progress
    BY <1>13, WritesProgress
  <2> QED BY <1>1, <1>3, <1>13, <2>1 DEF DoSubtask, agents
<1>14. ASSUME NEW a \in Agent, NEW t \in Tasks, TaskDone(a, t) PROVE AgentsSound'
  <2>1. Progress
    BY <1>14, WritesProgress
  <2>2. PICK next \in SUBSET Foremost(EpicOf[t])' :
            answer' = [answer EXCEPT ![a] = (Waiting(t) \cap Candidates(EpicOf[t])')
                                            \cup {n \in next : status'[n] = "todo"}]
    BY <1>14 DEF TaskDone
  <2>3. next \subseteq Tasks /\ Waiting(t) \subseteq Tasks
    BY <2>2, AnswersNameTasks
  <2>4. /\ answer' \in [Agent -> SUBSET Tasks]
        /\ \A b \in Agent \ {a} : answer'[b] = answer[b]
    BY <1>1, <2>2, <2>3
  <2>5. Does(a, "reported") /\ UNCHANGED <<known, task, unheard, crashes>>
    BY <1>14 DEF TaskDone
  <2> QED BY <1>1, <1>9, <2>1, <2>4, <2>5
<1>15. ASSUME NEW a \in Agent, TakeAnswer(a) PROVE AgentsSound'
  <2>1. /\ Does(a, "idle") /\ UNCHANGED <<vars, task, unheard, crashes>>
        /\ known' = known \cup answer[a] /\ answer' = [answer EXCEPT ![a] = {}]
    BY <1>15 DEF TakeAnswer
  <2>2. /\ answer' \in [Agent -> SUBSET Tasks] /\ answer'[a] = {} /\ known' \subseteq Tasks
        /\ \A b \in Agent \ {a} : answer'[b] = answer[b]
    BY <1>1, <2>1
  <2> QED BY <1>1, <1>4, <1>9, <2>1, <2>2
<1>16. ASSUME NEW a \in Agent, Block(a) PROVE AgentsSound'
  <2>1. Progress
    BY <1>16, WritesProgress
  <2>2. Does(a, "idle") /\ UNCHANGED <<known, task, answer, unheard, crashes>> /\ step[a] = "working"
    BY <1>16 DEF Block
  <2> QED BY <1>1, <1>9, <2>1, <2>2
<1>17. ASSUME NEW a \in Agent, Crash(a) PROVE AgentsSound'
  <2>1. /\ Does(a, "idle") /\ UNCHANGED <<vars, known, task>>
        /\ crashes < MaxCrashes /\ crashes' = crashes + 1
        /\ unheard' = unheard \cup answer[a] \cup (IF step[a] = "claiming" THEN {task[a]} ELSE {})
        /\ answer' = [answer EXCEPT ![a] = {}]
    BY <1>17 DEF Crash
  <2>2. /\ answer' \in [Agent -> SUBSET Tasks] /\ answer'[a] = {} /\ unheard' \subseteq Tasks
        /\ \A b \in Agent \ {a} : answer'[b] = answer[b]
    BY <1>1, <2>1
  <2>3. crashes' \in 0 .. MaxCrashes
    BY <1>1, <2>1, MaxCrashesAssumption
  <2> QED BY <1>1, <1>4, <1>9, <2>1, <2>2, <2>3
<1> QED BY <1>5, <1>6, <1>7, <1>8, <1>11, <1>12, <1>13, <1>14, <1>15, <1>16, <1>17 DEF Run, Works

\* The orchestrator and the agents keep their types, and who works on a task has claimed it
\* (task claim) or went on with one that was claimed, however many agents end or block.
THEOREM AgentsTyped == Execute => []AgentsOK
<1>1. AgentsSound => AgentsOK
  BY DEF AgentsSound
<1> QED BY <1>1, StartSound, RunSound, PTL DEF Execute

\* A task that ReadyIsKnown is about, and what it says of it.
Ready(t) == /\ status[t] = "todo" /\ t \in Candidates(EpicOf[t])
            /\ \A d \in deps : d[1] = t => d[2] \in Tasks
Heard(t) == t \in known \cup InHand \cup unheard \cup UNION {answer[a] : a \in Agent}

LEMMA ReadyMeans ==
    ASSUME AgentsSound, NEW t \in Tasks
    PROVE  Ready(t) <=> /\ status[t] = "todo"
                        /\ \A d \in deps : d[1] = t => d[2] \in Tasks /\ status[d[2]] = "done"
<1>1. \A n \in Tasks : Live(n)
  BY NodeFacts DEF AgentsSound, Live, ValidStatuses, Absent
<1>2. t \in Candidates(EpicOf[t]) <=> t \in OpenTasks /\ Blockers(t) = {}
  BY DEF Candidates, OpenTasks
<1>3. status[t] = "todo" => t \in OpenTasks
  BY DEF OpenTasks
<1>4. (\A d \in deps : d[1] = t => d[2] \in Tasks) =>
          (Blockers(t) = {} <=> \A d \in deps : d[1] = t => status[d[2]] = "done")
  BY <1>1 DEF Blockers
<1> QED BY <1>2, <1>3, <1>4 DEF Ready

LEMMA HeardMeans ==
    ASSUME NEW t
    PROVE  Heard(t) <=> \/ t \in known \/ t \in unheard
                        \/ \E a \in Agent : t \in answer[a]
                        \/ \E a \in Agent : step[a] = "claiming" /\ task[a] = t
  BY DEF Heard, InHand

\* The same two of the state after a step.
LEMMA ReadyMeansNext ==
    ASSUME AgentsSound', NEW t \in Tasks
    PROVE  Ready(t)' <=> /\ status'[t] = "todo"
                         /\ \A d \in deps' : d[1] = t => d[2] \in Tasks /\ status'[d[2]] = "done"
<1>1. \A n \in Tasks : Live(n)'
  BY NodeFacts DEF AgentsSound, Live, ValidStatuses, Absent
<1>2. (t \in Candidates(EpicOf[t]))' <=> (t \in OpenTasks)' /\ Blockers(t)' = {}
  BY DEF Candidates, OpenTasks
<1>3. status'[t] = "todo" => (t \in OpenTasks)'
  BY DEF OpenTasks
<1>4. (\A d \in deps' : d[1] = t => d[2] \in Tasks) =>
          (Blockers(t)' = {} <=> \A d \in deps' : d[1] = t => status'[d[2]] = "done")
  BY <1>1 DEF Blockers
<1> QED BY <1>2, <1>3, <1>4 DEF Ready

LEMMA HeardMeansNext ==
    ASSUME NEW t
    PROVE  Heard(t)' <=> \/ t \in known' \/ t \in unheard'
                         \/ \E a \in Agent : t \in answer'[a]
                         \/ \E a \in Agent : step'[a] = "claiming" /\ task'[a] = t
  BY DEF Heard, InHand

\* Only a task that is ended makes another one ready.
LEMMA NoneBecomesReady ==
    ASSUME AgentsSound, AgentsSound', Progress,
           \A m \in Tasks : status'[m] = "done" => status[m] = "done"
    PROVE  \A t \in Tasks : Ready(t)' => Ready(t)
<1> SUFFICES ASSUME NEW t \in Tasks, Ready(t)' PROVE Ready(t)
  OBVIOUS
<1>1. /\ status'[t] = "todo"
      /\ \A d \in deps : d[1] = t => d[2] \in Tasks /\ status'[d[2]] = "done"
  BY ReadyMeansNext DEF Progress
<1>2. status[t] = "todo"
  BY <1>1, NodeFacts DEF Progress
<1> QED BY <1>1, <1>2, ReadyMeans

LEMMA NobodyUnheard ==
    ASSUME AgentsSound, AgentsSound', Progress, ReadyIsKnown,
           \A m \in Tasks : status'[m] = "done" => status[m] = "done",
           \A t \in Tasks : Ready(t)' /\ Heard(t) => Heard(t)'
    PROVE  ReadyIsKnown'
<1>1. \A t \in Tasks : Ready(t)' => Heard(t)'
  BY NoneBecomesReady DEF ReadyIsKnown, Ready, Heard
<1> QED BY <1>1 DEF ReadyIsKnown, Ready, Heard

\* The loop is about one epic: `task ready --epic` reads it, and the answer of `task done`
\* names candidates of the epic of the task only.
OneEpic == \A e, f \in Epics : e = f

LEMMA RunTells ==
    ASSUME OneEpic, AgentsSound, AgentsSound', ReadyIsKnown, [Run]_allVars
    PROVE  ReadyIsKnown'
<1> DEFINE Steps == {"idle", "claiming", "working", "reported"}
           NoneEnds == \A m \in Tasks : status'[m] = "done" => status[m] = "done"
           Kept(t) == Ready(t)' /\ Heard(t) => Heard(t)'
<1>1. /\ step \in [Agent -> Steps] /\ task \in [Agent -> Tasks \cup {Nobody}]
      /\ answer \in [Agent -> SUBSET Tasks]
      /\ \A a \in Agent : answer[a] # {} => step[a] = "reported"
  BY DEF AgentsSound, AgentsOK
<1>2. UNCHANGED vars => Progress /\ NoneEnds
  BY StillProgress DEF vars
<1>3. UNCHANGED agents => \A t \in Tasks : Kept(t)
  BY HeardMeans, HeardMeansNext DEF agents
<1>4. CASE UNCHANGED allVars
  BY <1>2, <1>3, <1>4, NobodyUnheard DEF allVars
<1>5. ASSUME NEW e \in Epics, TaskReady(e) PROVE ReadyIsKnown'
  <2>1. UNCHANGED vars /\ known' = Candidates(e)
    BY <1>5 DEF TaskReady
  <2>2. \A t \in Tasks : Ready(t)' => t \in known'
    <3> SUFFICES ASSUME NEW t \in Tasks, Ready(t)' PROVE t \in known'
      OBVIOUS
    <3>1. Ready(t)
      BY <1>2, <2>1, NoneBecomesReady
    <3>2. EpicOf[t] = e
      BY IdsAssumption DEF OneEpic
    <3> QED BY <2>1, <3>1, <3>2 DEF Ready
  <2>3. \A t \in Tasks : Ready(t)' => Heard(t)'
    BY <2>2, HeardMeansNext
  <2> QED BY <2>3 DEF ReadyIsKnown, Ready, Heard
<1>6. ASSUME NEW e \in Epics, AdvanceEpic(e) PROVE ReadyIsKnown'
  <2>1. Progress /\ NoneEnds
    BY <1>6, WritesProgress, NodeFacts
  <2> QED BY <1>3, <1>6, <2>1, NobodyUnheard DEF AdvanceEpic
<1>7. ASSUME NEW a \in Agent, NEW t \in Tasks, Dispatch(a, t) PROVE ReadyIsKnown'
  <2>1. /\ step[a] = "idle" /\ known' = known \ {t} /\ task' = [task EXCEPT ![a] = t]
        /\ Does(a, IF status[t] = "in_progress" THEN "working" ELSE "claiming")
        /\ UNCHANGED <<vars, answer, unheard, crashes>>
    BY <1>7 DEF Dispatch, Idle
  <2>2. /\ step'[a] = (IF status[t] = "in_progress" THEN "working" ELSE "claiming")
        /\ \A b \in Agent \ {a} : step'[b] = step[b]
    BY <1>1, <2>1 DEF Does
  <2>3. task'[a] = t /\ \A b \in Agent \ {a} : task'[b] = task[b]
    BY <1>1, <2>1
  <2>4. ASSUME NEW u \in Tasks, Ready(u)', Heard(u) PROVE Heard(u)'
    <3>1. u = t => step'[a] = "claiming"
      BY <2>1, <2>2, <2>4, ReadyMeansNext DEF vars
    <3>2. \A b \in Agent : step[b] = "claiming" => b # a
      BY <2>1
    <3> QED BY <2>1, <2>2, <2>3, <2>4, <3>1, <3>2, HeardMeans, HeardMeansNext
  <2> QED BY <1>2, <2>1, <2>4, NobodyUnheard
\* An agent that ends its claim and does nothing else.
<1>8. ASSUME NEW a \in Agent, NEW s \in Steps, Does(a, s), Progress, NoneEnds,
             UNCHANGED <<known, task, answer, unheard>>,
             step[a] = "claiming" => ~Ready(task[a])'
      PROVE  ReadyIsKnown'
  <2>1. \A b \in Agent \ {a} : step'[b] = step[b]
    BY <1>1, <1>8 DEF Does
  <2>2. ASSUME NEW u \in Tasks, Ready(u)', Heard(u) PROVE Heard(u)'
    <3>1. \A b \in Agent : step[b] = "claiming" /\ task[b] = u => b # a
      BY <1>8, <2>2
    <3> QED BY <1>8, <2>1, <2>2, <3>1, HeardMeans, HeardMeansNext
  <2> QED BY <1>8, <2>2, NobodyUnheard
<1>9. ASSUME NEW a \in Agent, ClaimTask(a) PROVE ReadyIsKnown'
  <2>1. /\ Progress /\ task[a] \in Tasks /\ OnlyRow(task[a], "in_progress")
        /\ status[task[a]] # "done"
    BY <1>9, WritesProgress
  <2>2. NoneEnds /\ status'[task[a]] = "in_progress"
    BY <2>1, NodeFacts DEF OnlyRow
  <2>3. Does(a, "working") /\ UNCHANGED <<known, task, answer, unheard>>
    BY <1>9 DEF ClaimTask
  <2>4. ~Ready(task[a])'
    BY <2>1, <2>2, <2>3, ReadyMeansNext
  <2> QED BY <1>8, <2>1, <2>2, <2>3, <2>4
<1>10. ASSUME NEW a \in Agent, ClaimRefused(a) PROVE ReadyIsKnown'
  <2>1. /\ Does(a, "idle") /\ UNCHANGED <<vars, known, task, answer, unheard, crashes>>
        /\ step[a] = "claiming" /\ (status[task[a]] \notin {"todo", "blocked"} \/ ~DepsDone(task[a]))
    BY <1>10 DEF ClaimRefused
  <2>2. task[a] \in Tasks
    BY <2>1 DEF AgentsSound
  <2>3. ~Ready(task[a])
    BY <2>1, <2>2, ReadyMeans DEF DepsDone
  <2>4. ~Ready(task[a])'
    BY <1>2, <2>1, <2>2, <2>3, NoneBecomesReady
  <2> QED BY <1>2, <1>8, <2>1, <2>4
<1>11. ASSUME NEW a \in Agent, AlreadyDone(a) \/ SetAside(a) PROVE ReadyIsKnown'
  <2>1. /\ Does(a, "idle") /\ UNCHANGED <<vars, known, task, answer, unheard, crashes>>
        /\ step[a] = "working"
    BY <1>11 DEF AlreadyDone, SetAside
  <2> QED BY <1>2, <1>8, <2>1
<1>12. ASSUME NEW a \in Agent, DoSubtask(a) PROVE ReadyIsKnown'
  <2>1. Progress /\ NoneEnds
    BY <1>12, WritesProgress
  <2> QED BY <1>3, <1>12, <2>1, NobodyUnheard DEF DoSubtask
<1>13. ASSUME NEW a \in Agent, Block(a) PROVE ReadyIsKnown'
  <2>1. Progress /\ task[a] \in Tasks /\ OnlyRow(task[a], "blocked")
    BY <1>13, WritesProgress
  <2>2. NoneEnds
    BY <2>1, NodeFacts DEF OnlyRow
  <2>3. /\ Does(a, "idle") /\ UNCHANGED <<known, task, answer, unheard>>
        /\ step[a] = "working"
    BY <1>13 DEF Block
  <2> QED BY <1>8, <2>1, <2>2, <2>3
<1>14. ASSUME NEW a \in Agent, TakeAnswer(a) PROVE ReadyIsKnown'
  <2>1. /\ step[a] = "reported" /\ known' = known \cup answer[a]
        /\ answer' = [answer EXCEPT ![a] = {}] /\ Does(a, "idle")
        /\ UNCHANGED <<vars, task, unheard, crashes>>
    BY <1>14 DEF TakeAnswer
  <2>2. \A b \in Agent \ {a} : step'[b] = step[b] /\ answer'[b] = answer[b]
    BY <1>1, <2>1 DEF Does
  <2>3. \A u \in Tasks : Kept(u)
    BY <2>1, <2>2, HeardMeans, HeardMeansNext
  <2> QED BY <1>2, <2>1, <2>3, NobodyUnheard
<1>15. ASSUME NEW a \in Agent, Crash(a) PROVE ReadyIsKnown'
  <2>1. /\ Does(a, "idle") /\ UNCHANGED <<vars, known, task>>
        /\ unheard' = unheard \cup answer[a] \cup (IF step[a] = "claiming" THEN {task[a]} ELSE {})
        /\ answer' = [answer EXCEPT ![a] = {}]
    BY <1>15 DEF Crash
  <2>2. \A b \in Agent \ {a} : step'[b] = step[b] /\ answer'[b] = answer[b]
    BY <1>1, <2>1 DEF Does
  <2>3. \A u \in Tasks : Kept(u)
    BY <2>1, <2>2, HeardMeans, HeardMeansNext
  <2> QED BY <1>2, <2>1, <2>3, NobodyUnheard
\* The task that was ended makes ready what waited for it alone, which its answer names.
<1>16. ASSUME NEW a \in Agent, NEW t \in Tasks, TaskDone(a, t) PROVE ReadyIsKnown'
  <2>1. Progress /\ OnlyRow(t, "done")
    BY <1>16, WritesProgress
  <2>2. /\ step[a] = "working" /\ Does(a, "reported") /\ UNCHANGED <<known, task, unheard, crashes>>
        /\ answer'[a] = answer'[a] /\ answer[a] = {}
    BY <1>1, <1>16 DEF TaskDone
  <2>3. PICK next \in SUBSET Foremost(EpicOf[t])' :
            answer' = [answer EXCEPT ![a] = (Waiting(t) \cap Candidates(EpicOf[t])')
                                            \cup {n \in next : status'[n] = "todo"}]
    BY <1>16 DEF TaskDone
  <2>4. /\ \A b \in Agent \ {a} : step'[b] = step[b] /\ answer'[b] = answer[b]
        /\ \A u : u \in Waiting(t) /\ u \in Candidates(EpicOf[t])' => u \in answer'[a]
    BY <1>1, <2>2, <2>3 DEF Does
  <2>5. ASSUME NEW u \in Tasks, Ready(u)' PROVE Heard(u)'
    <3>1. /\ status'[u] = "todo"
          /\ \A d \in deps : d[1] = u => d[2] \in Tasks /\ status'[d[2]] = "done"
      BY <2>1, <2>5, ReadyMeansNext DEF Progress
    <3>2. u # t /\ status[u] = "todo"
      BY <2>1, <3>1, NodeFacts DEF OnlyRow
    <3>3. CASE Ready(u)
      <4>1. Heard(u)
        BY <3>3 DEF ReadyIsKnown, Ready, Heard
      <4> QED BY <2>2, <2>4, <4>1, HeardMeans, HeardMeansNext
    <3>4. CASE ~Ready(u)
      <4>1. PICK d \in deps : d[1] = u /\ status[d[2]] # "done" /\ d[2] \in Tasks /\ status'[d[2]] = "done"
        BY <3>1, <3>2, <3>4, ReadyMeans
      <4>2. d[2] = t
        BY <2>1, <4>1, NodeFacts DEF OnlyRow
      <4>3. Live(d[2])
        BY <4>1, NodeFacts DEF AgentsSound, Live, ValidStatuses, Absent
      <4>4. d \in Blockers(u)
        BY <4>1, <4>3 DEF Blockers
      <4>5. u \in Waiting(t)
        BY <4>1, <4>2, <4>4 DEF Waiting
      <4>6. EpicOf[u] = EpicOf[t]
        BY IdsAssumption DEF OneEpic
      <4>7. u \in Candidates(EpicOf[t])'
        BY <2>5, <4>6 DEF Ready
      <4> QED BY <2>4, <4>5, <4>7, HeardMeansNext
    <3> QED BY <3>3, <3>4
  <2> QED BY <2>5 DEF ReadyIsKnown, Ready, Heard
<1> QED BY <1>4, <1>5, <1>6, <1>7, <1>9, <1>10, <1>11, <1>12, <1>13, <1>14, <1>15, <1>16 DEF Run, Works

\* A task that becomes ready is named by the answer of the `task done` that unblocked it
\* (commands/task.ts), for any plan of an epic and any number of agents.
THEOREM ReadyWorkIsTold ==
    ASSUME OneEpic
    PROVE  Execute => []ReadyIsKnown
<1>1. Start => ReadyIsKnown
  <2> SUFFICES ASSUME Start PROVE ReadyIsKnown
    OBVIOUS
  <2>1. unheard = {t \in Tasks : Blockers(t) = {}}
    BY DEF Start
  <2> QED BY <2>1 DEF ReadyIsKnown, Candidates
<1>2. AgentsSound /\ ReadyIsKnown /\ [Run]_allVars => AgentsSound' /\ ReadyIsKnown'
  BY RunSound, RunTells
<1> QED BY <1>1, <1>2, StartSound, PTL DEF Execute

\* Every step of the agents is one of the commands of Tracker, or leaves the tables alone.
LEMMA RunIsNext == AgentsSound /\ [Run]_allVars => [Next]_vars
<1> SUFFICES ASSUME AgentsSound, Run PROVE Next \/ UNCHANGED vars
  BY DEF allVars
<1>1. {"todo", "in_progress", "blocked", "done"} \in SUBSET Statuses
  BY ValidStatusesAreStatuses
<1>2. ASSUME NEW e \in Epics, TaskReady(e) \/ AdvanceEpic(e) PROVE Next \/ UNCHANGED vars
  <2>1. EpicTarget(e) \in Statuses
    BY <1>1 DEF EpicTarget
  <2> HIDE DEF EpicTarget
  <2> QED BY <1>2, <2>1 DEF TaskReady, AdvanceEpic, Next
<1>3. ASSUME NEW a \in Agent, ClaimTask(a) \/ Block(a) PROVE Next
  <2>1. task[a] \in Item /\ (Claim(task[a]) \/ UpdateItem(task[a], "blocked"))
    BY <1>3, NodeFacts DEF ClaimTask, Block, AgentsSound
  <2> QED BY <1>1, <2>1 DEF Next
<1>4. ASSUME NEW a \in Agent, DoSubtask(a) PROVE Next
  <2>1. PICK s \in OpenSubtasks(task[a]) : Claim(s) \/ UpdateItem(s, "done")
    BY <1>4 DEF DoSubtask
  <2>2. s \in Item
    BY NodeFacts DEF OpenSubtasks, SubtasksOf
  <2> QED BY <1>1, <2>1, <2>2 DEF Next
<1>5. ASSUME NEW a \in Agent, NEW t \in Tasks, TaskDone(a, t) PROVE Next
  BY <1>5 DEF TaskDone, Next
<1>6. ASSUME NEW a \in Agent, ClaimRefused(a) \/ AlreadyDone(a) \/ SetAside(a) \/ TakeAnswer(a) \/ Crash(a)
      PROVE  UNCHANGED vars
  BY <1>6 DEF ClaimRefused, AlreadyDone, SetAside, TakeAnswer, Crash
<1>7. \A a \in Agent, t \in Tasks : Dispatch(a, t) => UNCHANGED vars
  BY DEF Dispatch
<1> QED BY <1>2, <1>3, <1>4, <1>5, <1>6, <1>7 DEF Run, Works

LEMMA RunKeepsIInv == AgentsSound /\ IInv /\ [Run]_allVars => IInv' /\ [GatedStep]_vars
  BY RunIsNext, StepIInv, StepIsGated

\* The agents start with a whole plan, not with the empty database, and meet all that is
\* promised of a database that commands have built: their steps are commands of Tracker.
THEOREM AgentsKeepTheGraph ==
    Execute => [][Next]_vars /\ []ReferentialIntegrity /\ []DependenciesAcyclic /\ []ReplayAgrees
<1>1. IInv => ReferentialIntegrity /\ DependenciesAcyclic /\ ReplayAgrees
  BY DEF IInv
<1> QED BY <1>1, StartSound, RunSound, RunIsNext, RunKeepsIInv, PTL DEF Execute

\* No agent, whichever tasks it was told are ready, takes an item into in_progress or done
\* past a dependency that is not done.
THEOREM AgentsPassTheGate == Execute => GateHolds
<1>1. [GatedStep]_vars <=> [\A n \in Item :
          Live(n) /\ status'[n] # status[n] /\ status'[n] \in Gated
             => \A d \in deps : d[1] = n => "done" \in {status[d[2]], status'[d[2]]}]_vars
  BY DEF GatedStep
<1> QED BY <1>1, StartSound, RunSound, RunKeepsIInv, PTL DEF Execute, GateHolds

=============================================================================
