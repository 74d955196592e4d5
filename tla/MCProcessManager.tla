---------------------------- MODULE MCProcessManager ----------------------------
(* ProcessManager for TLC: which faults meet in one behaviour.               *)
EXTENDS ProcessManager

FaultsTogether == {
  [faults |-> {"accept", "late", "stop"}, left |-> {}],
  [faults |-> {"hello", "unobserved", "crash", "write"}, left |-> {}],
  [faults |-> {"unit", "exec", "shutdown"}, left |-> {1}]}
=============================================================================
