---------------------------- MODULE MCBoardClient ----------------------------
(***************************************************************************)
(* A tab on an epic e with the task t.  The user edits t, gives a status   *)
(* to all of e, adds the dependency c of t and deletes it again; others    *)
(* write the same rows and delete c.                                       *)
(***************************************************************************)
EXTENDS BoardClient

CONSTANTS e, t, c, edit, bulk, add, drop

MCKind == [m \in Mutation |-> CASE m = edit -> "patch"
                                [] m = bulk -> "cascade"
                                [] m = add -> "create"
                                [] m = drop -> "delete"]
MCTarget == [m \in Mutation |-> CASE m = edit -> t [] m = bulk -> e [] m \in {add, drop} -> c]
MCSelection == [m \in Mutation |-> IF m \in {edit, bulk} THEN {e, t} ELSE {t, c}]
=============================================================================
