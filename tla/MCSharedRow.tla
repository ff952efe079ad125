---------------------------- MODULE MCSharedRow ----------------------------
(* One row, two agents that claim, one board client: small sets for TLC. *)
EXTENDS SharedRow, TLC

CONSTANTS o1, o2, x1

MCOwners == {o1, o2}
MCTitles == {x1}
\* No column, each column alone, and the pairs that the command line offers together.
MCEdits ==
    {<<>>} \cup [title : MCTitles] \cup [notes : {{}}] \cup [status : ValidStatuses]
        \cup [owner : MCOwners \cup {None}]
        \cup [status : ValidStatuses, owner : MCOwners] \cup [title : MCTitles, notes : {{}}]
OwnerSymmetry == Permutations(MCOwners)
=============================================================================
