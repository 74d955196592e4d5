--------------------------- MODULE MCChildSupervisor ---------------------------
(* ChildSupervisor for TLC: how much each stream carries, and which faults   *)
(* meet in one behaviour.                                                    *)
EXTENDS ChildSupervisor

Volume == [s \in Stream |-> IF s = "stdout" THEN 4 ELSE 0]

FaultsTogether == {
  {"journal", "wait"}, {"journal", "panic", "drain"}, {"thread", "read"}}
=============================================================================
