---------------------------- MODULE MCScheduler -----------------------------
(***************************************************************************)
(* Scheduler with the fault budgets of the runs.                           *)
(***************************************************************************)
EXTENDS Scheduler

CONSTANTS d1, d2, d3, a1, a2, s1

D1 == <<d1>>
D1D2 == <<d1, d2>>
PublisherFaults == [k \in FaultKinds |-> IF k = "scheduler" THEN 0 ELSE 1]
SchedulerFaults == [k \in FaultKinds |-> IF k = "scheduler" THEN 2 ELSE 0]
=============================================================================
