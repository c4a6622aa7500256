---------------------------- MODULE MCDaemonAccess ----------------------------
(* Small instances of DaemonAccess for TLC. *)
EXTENDS DaemonAccess

CONSTANTS d1, d2, c1, c2, u1, u2, nobody, stale
===============================================================================
