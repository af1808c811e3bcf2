------------------------------ MODULE MCReplay ------------------------------
(***************************************************************************)
(* Replay with the fault budget of the run.                                *)
(***************************************************************************)
EXTENDS Replay, TLC

CONSTANTS d1, p1, w0, o1

OneOfEach == [k \in FaultKinds |-> 1]
=============================================================================
