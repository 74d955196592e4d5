------------------------- MODULE GeometryTransaction -------------------------
(***************************************************************************)
(* What the root geometry transaction of the host runtime promises: there  *)
(* is one geometry on the screen; at most one other geometry is offered to *)
(* replace it; it replaces it only by being shown, that is after a frame   *)
(* drawn with it was queued and the display reported it; otherwise it is   *)
(* withdrawn and nothing changes.  A client that asked for the geometry is *)
(* told what happened, once, and never that it happened when it did not.   *)
(* HostOutput implements this module.                                      *)
(***************************************************************************)
CONSTANTS
  Geometries,  \* what can be on the screen
  None         \* nothing offered, nothing answered

VARIABLES
  shown,   \* the geometry on the screen
  offered, \* the geometry offered to replace it, or None
  framed,  \* a frame drawn with `offered` is queued on the display
  asked,   \* a client waits for the fate of `offered`
  reply    \* the answer the client has not read yet, or None

vars == <<shown, offered, framed, asked, reply>>

TypeOK ==
  /\ shown \in Geometries
  /\ offered \in Geometries \cup {None}
  /\ framed \in BOOLEAN /\ asked \in BOOLEAN
  /\ reply \in {None, "ok", "err"}

Init ==
  /\ shown \in Geometries
  /\ offered = None /\ ~framed /\ ~asked
  /\ reply = None

\* A geometry is offered; its first frame may be queued at once.
Offer(g, client, queued) ==
  /\ offered = None
  /\ client => reply = None
  /\ offered' = g /\ framed' = queued /\ asked' = client
  /\ UNCHANGED <<shown, reply>>

\* The first frame drawn with the offered geometry is queued.
Frame ==
  /\ offered # None /\ ~framed
  /\ framed' = TRUE
  /\ UNCHANGED <<shown, offered, asked, reply>>

\* The display reports that frame.
Show ==
  /\ offered # None /\ framed
  /\ shown' = offered
  /\ offered' = None /\ framed' = FALSE /\ asked' = FALSE
  /\ reply' = IF asked THEN "ok" ELSE reply

\* The offered geometry is given up.
Withdraw ==
  /\ offered # None
  /\ offered' = None /\ framed' = FALSE /\ asked' = FALSE
  /\ reply' = IF asked THEN "err" ELSE reply
  /\ UNCHANGED shown

\* A client's geometry is refused without being offered.
Refuse ==
  /\ offered = None /\ reply = None
  /\ reply' = "err"
  /\ UNCHANGED <<shown, offered, framed, asked>>

\* The client reads its answer.
Read ==
  /\ reply # None
  /\ reply' = None
  /\ UNCHANGED <<shown, offered, framed, asked>>

Next ==
  \/ \E g \in Geometries, client \in BOOLEAN, queued \in BOOLEAN :
        Offer(g, client, queued)
  \/ Frame \/ Show \/ Withdraw \/ Refuse \/ Read

Spec == Init /\ [][Next]_vars
=============================================================================
