------------------------------- MODULE Ledger -------------------------------
(***************************************************************************)
(* What the idempotency keys of the board promise: a mutation with a key   *)
(* runs at most once, and its author is told of success only after it ran. *)
(***************************************************************************)
EXTENDS Naturals

CONSTANT Keyed      \* the mutations that carry a key

VARIABLES
    runs,           \* how often each of them ran
    told            \* those whose success was reported

Init == /\ runs = [m \in Keyed |-> 0]
        /\ told = {}

Run(m) == /\ runs[m] = 0
          /\ runs' = [runs EXCEPT ![m] = 1]
          /\ told' = told

Tell(m) == /\ runs[m] = 1
           /\ told' = told \cup {m}
           /\ runs' = runs

Next == \E m \in Keyed : Run(m) \/ Tell(m)

Spec == Init /\ [][Next]_<<runs, told>>
=============================================================================
