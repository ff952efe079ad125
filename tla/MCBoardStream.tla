---------------------------- MODULE MCBoardStream ----------------------------
(***************************************************************************)
(* One row with up to three events, one tab that connects again and again. *)
(***************************************************************************)
EXTENDS BoardStream

CONSTANTS i1, s1
=============================================================================
