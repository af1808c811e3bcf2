----------------------------- MODULE MCMonitors -----------------------------
(***************************************************************************)
(* Monitors with half-second ticks and an alarm after two seconds.         *)
(***************************************************************************)
EXTENDS Monitors
=============================================================================
