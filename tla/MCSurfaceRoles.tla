---------------------------- MODULE MCSurfaceRoles ----------------------------
EXTENDS SurfaceRoles

\* "h" is a helper of the main app
Processes == {"m", "m2", "h", "n1", "n2", "s"}
Tokens    == [p \in Processes |-> IF p = "h" THEN "m" ELSE p]
Hosted    == [main |-> {"m", "m2"}, pane |-> {"n1", "n2"}, shell |-> {"s"}]
WindowSet == {"w1", "w2", "w3"}

Own(a, b, c, f) == [owner |-> [w1 |-> a, w2 |-> b, w3 |-> c], faults |-> f]

\* Every role alone with its faults, and the roles in pairs
OwnedBy == {
  Own("m", "h", NoProc, {"unconfirmed", "fails", "lost", "gone", "stop"}),
  Own("h", "m2", NoProc, {"lost"}),
  Own("m", "s", NoProc, {}),
  Own("s", "s", NoProc, {"fails", "lost", "gone"}),
  Own("s", "s", NoProc, {"unconfirmed"}),
  Own("n1", "n1", NoProc, {"unconfirmed", "fails", "hide", "gone"}),
  Own("n1", "n2", NoProc, {"lost"}),
  Own("m", "n1", NoProc, {})}
==============================================================================
