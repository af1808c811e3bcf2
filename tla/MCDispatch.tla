----------------------------- MODULE MCDispatch -----------------------------
(***************************************************************************)
(* Dispatch with the fault budgets of the runs.                            *)
(***************************************************************************)
EXTENDS Dispatch, TLC

CONSTANTS d1, d2, p1, p2, w0, w1

NoFaults == [k \in FaultKinds |-> 0]
OneOfEach == [k \in FaultKinds |-> 1]
=============================================================================
