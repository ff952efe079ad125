------------------------------- MODULE MCSync -------------------------------
(* Two worktrees; a task alone, a task with a subtask that may depend on another task, or a *)
(* task and a subtask below an epic. *)
EXTENDS Sync, TLC

CONSTANTS main, feature, p1, p2, e1, t1, t2, s1, a, b

MCIn == [p \in Pullers |-> feature]
MCParentNone == <<>>
MCParentTask == (s1 :> t1)
MCParentEpic == (s1 :> t1) @@ (t1 :> e1)
MCPastNone == <<>>
MCPastTwo == <<t1, t2, s1>>
MCPastEpic == <<e1, t1, s1>>
MCNoEdges == {}
MCEdges == {<<s1, t2>>}
MCOneValue == {a}
MCTwoValues == {a, b}
MCSymmetry == Permutations(Pullers) \cup Permutations({a, b})
=============================================================================
