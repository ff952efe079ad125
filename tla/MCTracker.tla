----------------------------- MODULE MCTracker -----------------------------
(* Small work graphs for TLC: two tasks, a subtask of the first, in one epic. *)
EXTENDS Tracker

CONSTANTS e1, t1, t2, s1

MCTasks == {t1, t2}
MCSubtasks == {s1}
MCTaskOf == [s \in MCSubtasks |-> t1]

OneEpic == {e1}
InOneEpic == [t \in MCTasks |-> e1]
=============================================================================
