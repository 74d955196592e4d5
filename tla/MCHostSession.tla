---------------------------- MODULE MCHostSession ----------------------------
(***************************************************************************)
(* Devices for HostSession: without atomic commits, without an overlay     *)
(* plane, with one that is of use, with one that has no alpha channel, and *)
(* with one that cannot blend.                                             *)
(***************************************************************************)
EXTENDS HostSession

Encoders == {[id |-> 1, current |-> FALSE, possible |-> {}, driving |-> 0],
             [id |-> 2, current |-> FALSE, possible |-> {1, 2}, driving |-> 1],
             [id |-> 3, current |-> TRUE, possible |-> {1, 2}, driving |-> 2]}

Plane(id, type, crtcs, formats, blend, lo, hi) ==
  [id |-> id, type |-> type, crtcs |-> crtcs, formats |-> formats, props |-> WrittenProps,
   blend |-> blend, zpos |-> [lo |-> lo, hi |-> hi]]

Primary == Plane(1, "primary", {2}, {"xrgb"}, {}, 1, 1)
Useful  == {Plane(2, "overlay", {1}, {"xrgb"}, {"premultiplied"}, 0, 3),
            Plane(3, "overlay", {2}, {"argb", "xrgb"}, {"premultiplied"}, 0, 3)}
Opaque  == {Plane(2, "overlay", {2}, {"xrgb"}, {"premultiplied"}, 1, 0)}
Unblent == {Plane(2, "overlay", {1, 2}, {"argb"}, {"none"}, 0, 3)}

MCCard ==
  {[atomic |-> TRUE, encoders |-> Encoders, planes |-> {Primary} \cup o] :
     o \in {{}, Useful, Opaque, Unblent}}
  \cup {[atomic |-> FALSE, encoders |-> Encoders, planes |-> {Primary} \cup Useful]}
=============================================================================
