---------------------------- MODULE MCBridgeDaemon ----------------------------
(***************************************************************************)
(* Three tests ask for the daemon: one enters the once, the others meet it *)
(* there or come after it.                                                 *)
(***************************************************************************)
EXTENDS BridgeDaemon

MCTests == {"t1", "t2", "t3"}
=============================================================================
