--------------------------- MODULE StatusMachine ---------------------------
(***************************************************************************)
(* The status machine every explicit status update is checked against, and *)
(* the statuses that dependencies gate.                                    *)
(***************************************************************************)

ValidStatuses == {"todo", "in_progress", "blocked", "done"}

ValidTransitions ==
    [s \in ValidStatuses |->
        CASE s = "todo"        -> {"in_progress", "blocked"}
          [] s = "in_progress" -> {"done", "blocked"}
          [] s = "blocked"     -> {"in_progress", "todo"}
          [] s = "done"        -> {"in_progress"}]

\* A row whose status is not one of VALID_STATUSES may move to any of them.
ValidTransition(from, to) ==
    \/ from = to
    \/ /\ to \in ValidStatuses
       /\ from \in ValidStatuses => to \in ValidTransitions[from]

Gated == {"in_progress", "done"}     \* DEPENDENCY_GATED_STATUSES
=============================================================================
