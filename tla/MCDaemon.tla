------------------------------ MODULE MCDaemon ------------------------------
(***************************************************************************)
(* Two commands on any of the databases s1, s2 and `far`, which is out of  *)
(* the scope of the daemon, with a cache of one handle and one connection  *)
(* at a time; two daemons, of which the second takes the path of the first.*)
(***************************************************************************)
EXTENDS Daemon

CONSTANTS c1, c2, s1, s2, far, d1, d2
=============================================================================
