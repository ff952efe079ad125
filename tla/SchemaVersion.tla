---------------------------- MODULE SchemaVersion ----------------------------
(***************************************************************************)
(* What the migrations of a shared database promise, whatever processes    *)
(* run them: the schema has one version; an upgrade takes it to the newest *)
(* version of the release that runs it in one step; a rollback takes it    *)
(* down, never past a version that cannot be undone; an operator may put a *)
(* saved copy back.                                                        *)
(***************************************************************************)
EXTENDS Integers

CONSTANTS Latest,      \* the newest versions that the installed releases know
          NoWayBack    \* the versions that cannot be rolled back

VARIABLES version,     \* the version of the live database
          saved        \* the versions of the copies on disk

Init == version \in Nat /\ saved = {}

Upgrade == \E new \in Latest : new > version /\ version' = new /\ UNCHANGED saved

Rollback ==
    /\ \E old \in 0..(version - 1) :
          /\ NoWayBack \cap (old + 1)..version = {}
          /\ version' = old
    /\ UNCHANGED saved

\* A copy is taken, and older copies may be dropped with it.
Save == saved' \in SUBSET (saved \cup {version}) /\ UNCHANGED version

Restore == version' \in saved /\ UNCHANGED saved

Next == Upgrade \/ Rollback \/ Save \/ Restore

Spec == Init /\ [][Next]_<<version, saved>>
=============================================================================
