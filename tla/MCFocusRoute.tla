----------------------------- MODULE MCFocusRoute -----------------------------
EXTENDS FocusRoute

\* m the main app, o the overlay, r1 and r2 two panes, r3 a later window of the
\* first, d1 a dialog and q1 a popup of the first, q2 of the dialog, q3 of the
\* overlay, q4 of the main app, n and u ordinary windows
MCKind == [m |-> "main", o |-> "overlay", r1 |-> "root", r2 |-> "root", r3 |-> "root", d1 |-> "dialog",
           q1 |-> "popup", q2 |-> "popup", q3 |-> "popup", q4 |-> "popup", n |-> "ordinary", u |-> "ordinary"]
MCPane   == [r1 |-> "p1", r2 |-> "p2", r3 |-> "p1", d1 |-> "p1"]
MCParent == [q1 |-> "r1", q2 |-> "d1", q3 |-> "o", q4 |-> "m"]
MCWindow == DOMAIN MCKind

Plan(p, id, bind, rev, group) == [pane |-> p, id |-> id, bind |-> bind, rev |-> rev, group |-> group]
MCRequests == {Plan("p1", "i1", NoBind, 0, NoInst), Plan("p1", "i1", NoBind, 1, NoInst),
               Plan("p1", "i2", "b1", 0, "n1"), Plan("p2", "i1", NoBind, 0, NoInst)}

MCGeneration(topo, foc) ==
  [surf |-> "s1", ep |-> 0, topo |-> topo, geom |-> 0, foc |-> foc,
   insts |-> [p \in Pane |-> IF p = "p1" THEN "n1" ELSE NoInst]]
MCGenerations == {MCGeneration(0, 0), MCGeneration(0, 1), MCGeneration(1, 0)}
MCFocusGens ==
  {[surf |-> "s1", ep |-> 0, topo |-> 0, geom |-> 0, foc |-> foc, pane |-> p, inst |-> inst] :
     foc \in 0 .. 1, <<p, inst>> \in {<<NoFocus, NoInst>>, <<"p1", "n1">>}}

Scene(kinds, wins, panes) == [ops |-> kinds, wins |-> wins, panes |-> panes]
MCScenarios == {
  Scene({"windows", "focus"}, {"m", "r1", "d1", "q1"}, {"p1"}),
  Scene({"windows"}, {"m", "r1", "d1", "q2", "n"}, {"p1"}),
  Scene({"windows", "focus"}, {"r1", "d1", "q2", "n"}, {"p1"}),
  Scene({"windows"}, {"r1", "r3", "d1", "q2"}, {"p1"}),
  Scene({"windows", "hold"}, {"m", "r1", "d1", "q1"}, {"p1"}),
  Scene({"windows", "focus"}, {"m", "r1", "r2", "d1"}, {"p1", "p2"}),
  Scene({"windows", "focus"}, {"m", "n", "u", "r1"}, {"p1"}),
  Scene({"windows", "shell", "focus"}, {"m", "o", "r1"}, {"p1"}),
  Scene({"windows", "shell"}, {"m", "o", "q3", "q4"}, {"p1"}),
  Scene({"windows", "guarded", "hosts"}, {"m", "r1"}, {"p1"}),
  Scene({"plans", "regions", "programs"}, {}, {})}
=============================================================================
