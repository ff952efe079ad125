----------------------------- MODULE MCEventLog -----------------------------
(* Two worktrees pull one branch in batches of two while a prune runs. *)
EXTENDS EventLog, TLC

MCSymmetry == Permutations(Worktree) \cup Permutations(Puller)
=============================================================================
