----------------------------- MODULE MCRecovery -----------------------------
(***************************************************************************)
(* Two linked worktrees whose old files are of the old or of the latest    *)
(* schema and may differ, and two commands in any worktree.                *)
(***************************************************************************)
EXTENDS Recovery

CONSTANTS main, w1, w2, p1, p2, rowA, rowB, latest, absent

Old == {rowA}
New == {rowB, latest}
OldOrNew == {Old, New}
=============================================================================
