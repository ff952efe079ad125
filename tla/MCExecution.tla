---------------------------- MODULE MCExecution ----------------------------
(***************************************************************************)
(* Three tasks, of which two have a subtask, and two agents: every plan    *)
(* over the tasks in which subtasks may wait for the third task and that   *)
(* task for a subtask.                                                     *)
(***************************************************************************)
EXTENDS Execution

CONSTANTS e1, t1, t2, t3, s1, s2, a1, a2

OneEpic == {e1}
ThreeTasks == {t1, t2, t3}
TwoSubtasks == {s1, s2}
InOneEpic == [t \in ThreeTasks |-> e1]
UnderTwo == [s \in TwoSubtasks |-> IF s = s1 THEN t1 ELSE t2]
SomeEdges == (ThreeTasks \X ThreeTasks) \cup {<<s1, t3>>, <<s2, t3>>, <<s1, t2>>, <<s2, s1>>, <<t3, s1>>}
=============================================================================
