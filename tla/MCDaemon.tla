------------------------------ MODULE MCDaemon -------------------------------
(* Small instances of Daemon for TLC.  The loops are not made symmetric: the *)
(* liveness properties of these runs would not survive it.                   *)
EXTENDS Daemon, TLC
=============================================================================
