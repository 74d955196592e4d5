----------------------------- MODULE MCHostOutput -----------------------------
(* HostOutput for TLC: model values and budgets.                           *)
EXTENDS HostOutput, TLC

CONSTANTS d1, d2, m1, m2, s1, s2, r1, r2

CONSTANTS CommandCount, HotplugCount, PauseCount, FaultCount

Spending == [k \in BudgetKinds |->
  CASE k = "command" -> CommandCount [] k = "hotplug" -> HotplugCount
    [] k = "pause" -> PauseCount [] k = "fault" -> FaultCount]
=============================================================================
