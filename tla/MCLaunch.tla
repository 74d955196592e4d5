------------------------------ MODULE MCLaunch ------------------------------
(* LaunchLifecycle for TLC: model values for panes and specs.              *)
EXTENDS LaunchLifecycle, TLC

CONSTANTS p1, s1, s2

OnePane == {p1}
NoPanes == {}
OneSpec == {s1}
TwoSpecs == {s1, s2}
=============================================================================
