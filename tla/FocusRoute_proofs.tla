-------------------------- MODULE FocusRoute_proofs --------------------------
(***************************************************************************)
(* Proofs about FocusRoute, for every set of windows and panes, every kind *)
(* a window may have and every scenario.                                   *)
(*                                                                         *)
(* Two of its properties are about state that the handlers never cut       *)
(* apart: the buttons that are down, and the regions of CompositorState.   *)
(* Each has an inductive invariant of its own; that the lists, the routes  *)
(* and the requests leave either alone is a lemma per operator.  The third *)
(* is about the lists of windows: what they hold, and the order in which   *)
(* they are searched and painted.  The two about the keyboard are proved   *)
(* in FocusKeys_proofs.                                                    *)
(***************************************************************************)
EXTENDS FocusRoute, FiniteSetTheorems, WellFoundedInduction, TLAPS

-----------------------------------------------------------------------------
(* Held buttons.  A button that is down is either known to the client that *)
(* saw it pressed, which then is the window of the grab, or its release is *)
(* still to be swallowed.                                                  *)

SeatFields == {"down", "pressed", "canceled", "grabbed", "grab"}
HasSeat(s) == SeatFields \subseteq DOMAIN s

SameSeat(s, t) ==
  /\ HasSeat(t)
  /\ t.down = s.down /\ t.pressed = s.pressed /\ t.canceled = s.canceled
  /\ t.grabbed = s.grabbed /\ t.grab = s.grab

ButtonsKnown(s, of) ==
  /\ s.down = s.pressed \cup s.canceled
  /\ s.pressed \subseteq Button /\ s.pressed \cap s.canceled = {}
  /\ s.pressed # {} => s.grabbed
  /\ \A b \in s.pressed : of[b] = s.grab
  /\ \A b \in Button \ s.pressed : of[b] = NoWin

\* The inductive invariant of the buttons
ButtonInv ==
  /\ HasSeat(h)
  /\ DOMAIN held = Button
  /\ ~stray
  /\ h.grabbed => Holds  \* otherwise a button goes up as soon as it went down
  /\ ButtonsKnown(h, held)

LEMMA SameSeatKnown ==
  ASSUME NEW s, NEW t, NEW of, SameSeat(s, t), ButtonsKnown(s, of)
  PROVE  ButtonsKnown(t, of)
BY DEF SameSeat, ButtonsKnown

\* Looking for the window that gets the keyboard changes what is remembered of
\* the focus, nothing else of the seat and none of the lists
RoutedFields == {"focused", "history", "kbd", "ordFocus"}
Routed(s, t) == DOMAIN t = DOMAIN s /\ \A f \in DOMAIN s \ RoutedFields : t[f] = s[f]

LEMMA RoutedSeat ==
  ASSUME NEW s, NEW t, HasSeat(s), Routed(s, t)
  PROVE  SameSeat(s, t)
BY DEF Routed, RoutedFields, SameSeat, HasSeat, SeatFields

LEMMA SameSeatTransitive ==
  ASSUME NEW s, NEW t, NEW u, SameSeat(s, t), SameSeat(t, u)
  PROVE  SameSeat(s, u)
BY DEF SameSeat

LEMMA PaneFocusRouted ==
  ASSUME NEW s, NEW p
  PROVE  Routed(s, PaneFocus(s, p).h)
<1> DEFINE past == Only(s.history[p], LAMBDA w : CanFocus(s, p, w))
           kept == s.focused[p] # NoWin /\ CanFocus(s, p, s.focused[p])
           a == [s EXCEPT !.focused[p] = Last(past)]
           b == [s EXCEPT !.focused[p] = s.root[p], !.history[p] = ToLast(@, s.root[p])]
           d == [s EXCEPT !.focused[p] = NoWin]
<1>1. Routed(s, s) BY DEF Routed
<1>2. Routed(s, a) /\ Routed(s, b) /\ Routed(s, d)
  BY DEF Routed, RoutedFields
<1>3. PaneFocus(s, p).h \in {s, a, b, d}
  <2>0. PaneFocus(s, p) =
          IF kept THEN [win |-> s.focused[p], h |-> s]
          ELSE IF past # <<>> THEN [win |-> Last(past), h |-> a]
          ELSE IF s.root[p] # NoWin THEN [win |-> s.root[p], h |-> b]
          ELSE [win |-> NoWin, h |-> d]
    BY DEF PaneFocus
  <2> HIDE DEF past, kept, a, b, d
  <2> QED BY <2>0
<1> QED
  <2> HIDE DEF a, b, d
  <2> QED BY <1>1, <1>2, <1>3

LEMMA NotedRouted ==
  ASSUME NEW s, NEW w
  PROVE  Routed(s, Noted(s, w))
<1> DEFINE p == Owner(w)
           known == p \in Pane /\ InTree(s, p, w)
           a == [s EXCEPT !.focused[p] = w, !.history[p] = ToLast(@, w)]
<1>1. Noted(s, w) = IF known THEN a ELSE s BY DEF Noted
<1>2. Routed(s, s) BY DEF Routed
<1>3. Routed(s, a) BY DEF Routed, RoutedFields
<1> QED
  <2> HIDE DEF a, known
  <2> QED BY <1>1, <1>2, <1>3

LEMMA KeyboardRouted ==
  ASSUME NEW s, NEW w, NEW next, Keyboard(s, w, next)
  PROVE  Routed(s, h')
<1> DEFINE o == IF w \in Range(s.ordinary) THEN [win |-> w, target |-> NoFocus] ELSE NoOrd
           a == [s EXCEPT !.kbd = w, !.ordFocus = o]
<1>1. h' = s \/ h' = a BY DEF Keyboard
<1>2. Routed(s, s) BY DEF Routed
<1>3. Routed(s, a)
  <2> HIDE DEF o
  <2> QED BY DEF Routed, RoutedFields
<1> QED
  <2> HIDE DEF a
  <2> QED BY <1>1, <1>2, <1>3

LEMMA RoutedTransitive ==
  ASSUME NEW s, NEW t, NEW u, Routed(s, t), Routed(t, u)
  PROVE  Routed(s, u)
BY DEF Routed

LEMMA ResolvedRouted ==
  ASSUME NEW s
  PROVE  Routed(s, Resolved(s).h)
<1> DEFINE main    == [t |-> "main", win |-> s.main, h |-> s]
           overlay == [t |-> "overlay", win |-> s.overlay, h |-> s]
           pane    == PaneFocus(s, c.target)
           left    == IF c.target \in Pane THEN pane.h ELSE s
           gone    == c.target \in Pane /\ s.root[c.target] = NoWin
           instead == IF ~gone /\ s.overlay # NoWin THEN [overlay EXCEPT !.h = left]
                      ELSE IF s.main # NoWin THEN [main EXCEPT !.h = left]
                      ELSE [t |-> NoFocus, win |-> NoWin, h |-> left]
<1>1. Routed(s, s) BY DEF Routed
<1>2. Routed(s, pane.h) BY PaneFocusRouted
<1>3. Routed(s, left)
  <2> HIDE DEF pane
  <2> QED BY <1>1, <1>2
<1>4. Resolved(s).h \in {s, pane.h, left}
  <2>0. Resolved(s) =
        IF c.shell /\ s.overlay # NoWin THEN overlay
        ELSE CASE c.target = "main" /\ s.main # NoWin -> main
               [] c.target = "overlay" /\ s.overlay # NoWin -> overlay
               [] c.target \in Pane /\ pane.win # NoWin -> [t |-> c.target, win |-> pane.win, h |-> pane.h]
               [] OTHER -> instead
    BY DEF Resolved
  <2>1. main.h = s /\ overlay.h = s OBVIOUS
  <2>2. [overlay EXCEPT !.h = left].h = left /\ [main EXCEPT !.h = left].h = left
    <3> HIDE DEF left
    <3> QED OBVIOUS
  <2>3. [t |-> c.target, win |-> pane.win, h |-> pane.h].h = pane.h
        /\ [t |-> NoFocus, win |-> NoWin, h |-> left].h = left
    OBVIOUS
  <2>4. instead.h = left
    <3> HIDE DEF left, gone, main, overlay
    <3> QED BY <2>2, <2>3
  <2> HIDE DEF main, overlay, pane, left, gone, instead
  <2> QED BY <2>0, <2>1, <2>3, <2>4
<1> QED
  <2> HIDE DEF pane, left
  <2> QED BY <1>1, <1>2, <1>3, <1>4

LEMMA RouteFocusRouted ==
  ASSUME NEW next, RouteFocus(next)
  PROVE  Routed(h, h')
<1>1. CASE KeepsOrdinary
  BY <1>1, KeyboardRouted DEF RouteFocus
<1>2. CASE ~KeepsOrdinary
  <2> DEFINE s == [h EXCEPT !.ordFocus = NoOrd]
             r == Resolved(s)
  <2>1. Routed(h, s) BY DEF Routed, RoutedFields
  <2>2. \E w, n : Keyboard(r.h, w, n) BY <1>2 DEF RouteFocus
  <2> HIDE DEF s
  <2>3. Routed(s, r.h) BY ResolvedRouted
  <2> HIDE DEF r
  <2>5. Routed(r.h, h') BY <2>2, KeyboardRouted
  <2> QED BY <2>1, <2>3, <2>5, RoutedTransitive
<1> QED BY <1>1, <1>2

\* A handler's step leaves the buttons alone
LEMMA StepButtons ==
  ASSUME ButtonInv, Step
  PROVE  ButtonInv'
<1>1. HasSeat(h) BY DEF ButtonInv
<1>2. held' = held /\ stray' = stray /\ Holds' = Holds
  BY DEF Holds, Step, StepRoute, StepTold, StepWrite, StepNote, StepFocus, StepSync, StepGroup, StepMapped,
         StepFallback, StepDropPopups, StepStatus, StepBridge, StepKey, StepToggle, outside
<1>3. SameSeat(h, h) BY <1>1 DEF SameSeat
<1>4. SameSeat(h, h')
  <2>1. CASE StepRoute BY <2>1, <1>1, RouteFocusRouted, RoutedSeat DEF StepRoute
  <2>2. CASE StepNote BY <2>2, <1>1, NotedRouted, RoutedSeat DEF StepNote
  <2>3. CASE StepFocus BY <2>3, <1>1, KeyboardRouted, RoutedSeat DEF StepFocus
  <2>4. CASE StepFallback
    <3>1. h' = h \/ \E p : h' = PaneFocus(h, p).h BY <2>4 DEF StepFallback
    <3> QED BY <3>1, <1>1, <1>3, PaneFocusRouted, RoutedSeat
  <2>5. CASE StepDropPopups
    <3>1. \E x : h' = [h EXCEPT !.popups = x] BY <2>5 DEF StepDropPopups
    <3> QED BY <3>1, <1>1 DEF SameSeat, HasSeat, SeatFields
  <2>6. CASE StepTold \/ StepWrite \/ StepSync \/ StepGroup \/ StepMapped \/ StepStatus \/ StepBridge
             \/ StepKey \/ StepToggle
    <3>1. h' = h
      BY <2>6 DEF StepTold, StepWrite, StepSync, StepGroup, StepMapped, StepStatus, StepBridge,
                  StepKey, StepToggle, outside
    <3> QED BY <3>1, <1>3
  <2> QED BY <2>1, <2>2, <2>3, <2>4, <2>5, <2>6 DEF Step
<1> QED BY <1>2, <1>4, SameSeatKnown DEF ButtonInv, SameSeat

\* Cancelling a grab leaves every button that was down to be swallowed
LEMMA CancelGrabKnown ==
  ASSUME NEW s, NEW p, NEW of, NEW to, HasSeat(s), ButtonsKnown(s, of),
         to = IF s.grabbed /\ ~CancelGrab(s, p).grabbed THEN [b \in Button |-> NoWin] ELSE of
  PROVE  HasSeat(CancelGrab(s, p)) /\ ButtonsKnown(CancelGrab(s, p), to)
<1> DEFINE a == [s EXCEPT !.grabbed = FALSE, !.grab = NoWin, !.under = NoWin,
                          !.canceled = @ \cup s.pressed, !.pressed = {}]
           cut == s.grab # NoWin /\ s.grabbed /\ InTree(s, p, s.grab)
<1>1. CancelGrab(s, p) = IF cut THEN a ELSE s BY DEF CancelGrab
<1>2. CASE cut
  <2>1. CancelGrab(s, p) = a BY <1>1, <1>2
  <2>2. /\ HasSeat(a) /\ a.grabbed = FALSE /\ a.grab = NoWin /\ a.pressed = {}
        /\ a.canceled = s.canceled \cup s.pressed /\ a.down = s.down
    BY DEF HasSeat, SeatFields
  <2>3. s.grabbed BY <1>2
  <2> HIDE DEF a
  <2>4. to = [b \in Button |-> NoWin] BY <2>1, <2>2, <2>3
  <2> QED BY <2>1, <2>2, <2>4 DEF ButtonsKnown
<1>3. CASE ~cut
  <2>1. CancelGrab(s, p) = s BY <1>1, <1>3
  <2> HIDE DEF cut, a
  <2>2. to = of BY <2>1
  <2> QED BY <2>1, <2>2
<1> QED BY <1>2, <1>3

\* Windows come and go: only the end of a pane's window cancels a grab
LEMMA WindowButtons ==
  ASSUME ButtonInv, WindowEvents \/ MainDemoted
  PROVE  ButtonInv'
<1>1. HasSeat(h) BY DEF ButtonInv
<1>2. CASE \E w \in Window : RootDestroyed(w)
  <2>1. PICK w \in Window : RootDestroyed(w) BY <1>2
  <2> DEFINE p == PaneOf[w]
             s == CancelGrab(h, p)
             t == [s EXCEPT !.root[p] = NoWin, !.focused[p] = NoWin, !.history[p] = <<>>,
                            !.dialogs = Only(@, LAMBDA d : PaneOf[d] # p)]
  <2>2. /\ h' = t /\ stray' = stray /\ Holds' = Holds
        /\ held' = IF h.grabbed /\ ~s.grabbed THEN [b \in Button |-> NoWin] ELSE held
    BY <2>1 DEF RootDestroyed, Holds
  <2>3. HasSeat(s) /\ ButtonsKnown(s, held') /\ (s.grabbed => Holds)
    <3>1. HasSeat(s) /\ ButtonsKnown(s, held') BY <2>2, <1>1, CancelGrabKnown DEF ButtonInv
    <3>2. s = h \/ s.grabbed = FALSE BY <1>1 DEF CancelGrab, HasSeat, SeatFields
    <3> QED BY <3>1, <3>2 DEF ButtonInv
  <2>4. DOMAIN held' = Button
    <3> HIDE DEF s
    <3> QED BY <2>2 DEF ButtonInv
  <2> HIDE DEF s
  <2>5. SameSeat(s, t) BY <2>3 DEF SameSeat, HasSeat, SeatFields
  <2> HIDE DEF t
  <2> QED BY <2>2, <2>3, <2>4, <2>5, SameSeatKnown DEF ButtonInv, SameSeat
<1>3. CASE ~\E w \in Window : RootDestroyed(w)
  <2>1. held' = held /\ stray' = stray /\ Holds' = Holds
    BY <1>3, Zenon
       DEF Holds, WindowEvents, MainAppears, OverlayAppears, RootAppears, DialogAppears, OrdinaryAppears,
           PopupAppears, Map, Unmap, TopDestroyed, DialogDestroyed, PopupDestroyed, OtherDestroyed,
           MainDemoted
  <2>2. SameSeat(h, h')
    <3>1. CASE MainDemoted
      BY <3>1, <1>1 DEF MainDemoted, SameSeat, HasSeat, SeatFields
    <3>2. ASSUME NEW w \in Window,
                 MainAppears(w) \/ OverlayAppears(w) \/ RootAppears(w) \/ DialogAppears(w)
                 \/ OrdinaryAppears(w) \/ PopupAppears(w)
          PROVE  SameSeat(h, h')
      BY <3>2, <1>1 DEF MainAppears, OverlayAppears, RootAppears, DialogAppears, OrdinaryAppears,
                        PopupAppears, SameSeat, HasSeat, SeatFields
    <3>3. ASSUME NEW w \in Window, Map(w) \/ Unmap(w) \/ TopDestroyed(w) \/ OtherDestroyed(w)
          PROVE  SameSeat(h, h')
      <4>1. CASE Map(w)
        <5>1. \E m, d, q : h' = [h EXCEPT !.mapped = m, !.dialogs = d, !.popups = q]
          BY <4>1 DEF Map
        <5> QED BY <5>1, <1>1 DEF SameSeat, HasSeat, SeatFields
      <4>2. CASE Unmap(w)
        <5>1. \E m : h' = [h EXCEPT !.mapped = m] BY <4>2 DEF Unmap
        <5> QED BY <5>1, <1>1 DEF SameSeat, HasSeat, SeatFields
      <4>3. CASE TopDestroyed(w)
        <5>1. \E m, d, q : h' = [h EXCEPT !.main = m, !.overlay = d, !.ordinary = q]
          BY <4>3 DEF TopDestroyed
        <5> QED BY <5>1, <1>1 DEF SameSeat, HasSeat, SeatFields
      <4>4. CASE OtherDestroyed(w)
        <5>1. \E m : h' = [h EXCEPT !.mapped = m] BY <4>4 DEF OtherDestroyed
        <5> QED BY <5>1, <1>1 DEF SameSeat, HasSeat, SeatFields
      <4> QED BY <3>3, <4>1, <4>2, <4>3, <4>4
    <3>4. ASSUME NEW w \in Window, DialogDestroyed(w) \/ PopupDestroyed(w)
          PROVE  SameSeat(h, h')
      <4>1. \E s, p : (h' = s \/ h' = Unlisted(s, p, w)) /\ SameSeat(h, s)
        <5>1. CASE DialogDestroyed(w)
          <6> DEFINE s == [h EXCEPT !.dialogs = Without(@, w), !.mapped = @ \ {w}]
          <6>1. h' = Unlisted(s, PaneOf[w], w) BY <5>1 DEF DialogDestroyed
          <6>2. SameSeat(h, s) BY <1>1 DEF SameSeat, HasSeat, SeatFields
          <6> HIDE DEF s
          <6> QED BY <6>1, <6>2
        <5>2. CASE PopupDestroyed(w)
          <6> DEFINE s == [h EXCEPT !.popups = Without(@, w), !.mapped = @ \ {w}]
          <6>1. h' = s \/ h' = Unlisted(s, Owner(w), w) BY <5>2 DEF PopupDestroyed
          <6>2. SameSeat(h, s) BY <1>1 DEF SameSeat, HasSeat, SeatFields
          <6> HIDE DEF s
          <6> QED BY <6>1, <6>2
        <5> QED BY <3>4, <5>1, <5>2
      <4>2. PICK s, p : (h' = s \/ h' = Unlisted(s, p, w)) /\ SameSeat(h, s) BY <4>1
      <4>3. \E x, y : Unlisted(s, p, w) = [s EXCEPT !.history[p] = x, !.focused[p] = y]
        BY DEF Unlisted
      <4>4. SameSeat(s, Unlisted(s, p, w))
        BY <4>2, <4>3 DEF SameSeat, HasSeat, SeatFields
      <4> QED BY <4>2, <4>4, SameSeatTransitive
    <3> QED BY <1>3, <3>1, <3>2, <3>3, <3>4 DEF WindowEvents
  <2>3. HasSeat(h') /\ h'.grabbed = h.grabbed BY <2>2 DEF SameSeat
  <2>4. ButtonsKnown(h', held)
    <3>1. ButtonsKnown(h, held) BY DEF ButtonInv
    <3> QED BY <3>1, <2>2, SameSeatKnown
  <2> QED BY <2>1, <2>3, <2>4 DEF ButtonInv
<1> QED BY <1>2, <1>3

LEMMA PressButtons ==
  ASSUME ButtonInv, NEW b \in Button, NEW w, Press(b, w)
  PROVE  ButtonInv'
<1> DEFINE down == IF Holds THEN [h EXCEPT !.down = @ \cup {b}, !.pressed = @ \cup {b}] ELSE h
           ord  == IF w \notin Range(h.ordinary) THEN NoOrd
                   ELSE [win |-> w, target |-> IF w \in Unresolved THEN NoFocus ELSE c.target]
<1>0. /\ HasSeat(h) /\ ButtonsKnown(h, held) /\ DOMAIN held = Button /\ ~stray
      /\ b \notin h.down /\ stray' = stray /\ Holds' = Holds /\ (h.grabbed => Holds)
  BY DEF ButtonInv, Press, Holds
<1>1. /\ HasSeat(down) /\ down.canceled = h.canceled /\ down.grabbed = h.grabbed /\ down.grab = h.grab
      /\ Holds => (down.down = h.down \cup {b} /\ down.pressed = h.pressed \cup {b})
      /\ ~Holds => (down.down = h.down /\ down.pressed = h.pressed)
  BY <1>0 DEF HasSeat, SeatFields
<1>2. CASE h.grabbed
  <2>1. h' = down /\ held' = [held EXCEPT ![b] = h.grab] /\ Holds
    <3>1. h' = down /\ held' = [held EXCEPT ![b] = h.grab] BY <1>2 DEF Press
    <3> QED BY <3>1, <1>0, <1>2
  <2> HIDE DEF down, ord
  <2>2. DOMAIN held' = Button /\ held'[b] = h.grab /\ \A x \in Button \ {b} : held'[x] = held[x]
    <3>1. DOMAIN held = Button /\ held' = [held EXCEPT ![b] = h.grab] BY <2>1, <1>0
    <3> QED BY <3>1
  <2>3. ButtonsKnown(h', held')
    <3>1. /\ h'.down = h.down \cup {b} /\ h'.pressed = h.pressed \cup {b}
          /\ h'.canceled = h.canceled /\ h'.grabbed /\ h'.grab = h.grab
      BY <1>1, <1>2, <2>1
    <3>2. ButtonsKnown(h, held) /\ b \notin h.down BY <1>0
    <3>3. /\ h'.down = h'.pressed \cup h'.canceled
          /\ h'.pressed \subseteq Button /\ h'.pressed \cap h'.canceled = {}
      BY <3>1, <3>2 DEF ButtonsKnown
    <3>4. ASSUME NEW x \in h'.pressed PROVE held'[x] = h'.grab
      <4>1. x = b \/ x \in h.pressed \ {b} BY <3>1
      <4>2. x \in h.pressed \ {b} => x \in Button \ {b} /\ held[x] = h.grab
        BY <3>2 DEF ButtonsKnown
      <4> QED BY <4>1, <4>2, <3>1, <2>2
    <3>5. ASSUME NEW x \in Button \ h'.pressed PROVE held'[x] = NoWin
      <4>1. x \in Button \ {b} /\ x \in Button \ h.pressed BY <3>1
      <4> QED BY <4>1, <3>2, <2>2 DEF ButtonsKnown
    <3> QED BY <3>1, <3>3, <3>4, <3>5 DEF ButtonsKnown
  <2> QED BY <1>0, <1>1, <2>1, <2>2, <2>3 DEF ButtonInv
<1>3. CASE ~h.grabbed
  <2>1. /\ h' = IF Holds
                THEN [down EXCEPT !.under = w, !.grabbed = TRUE, !.grab = w, !.ordFocus = ord]
                ELSE [down EXCEPT !.ordFocus = ord]
        /\ held' = IF Holds THEN [held EXCEPT ![b] = w] ELSE held
    BY <1>3 DEF Press
  <2> HIDE DEF down, ord
  <2>2. h.pressed = {} BY <1>0, <1>3 DEF ButtonsKnown
  <2>3. CASE Holds
    <3>1. /\ HasSeat(h') /\ h'.canceled = h.canceled /\ h'.down = h.down \cup {b} /\ h'.pressed = {b}
          /\ h'.grabbed = TRUE /\ h'.grab = w
      BY <2>1, <2>2, <2>3, <1>1 DEF HasSeat, SeatFields
    <3>2. held' = [held EXCEPT ![b] = w] BY <2>1, <2>3
    <3>3. DOMAIN held' = Button /\ held'[b] = w /\ \A x \in Button \ {b} : held'[x] = held[x]
      BY <3>2, <1>0
    <3>4. ButtonsKnown(h', held') BY <1>0, <2>2, <3>1, <3>3 DEF ButtonsKnown
    <3> QED BY <1>0, <2>3, <3>1, <3>3, <3>4 DEF ButtonInv
  <2>4. CASE ~Holds
    <3>1. SameSeat(h, h') BY <2>1, <2>4, <1>1 DEF SameSeat, HasSeat, SeatFields
    <3>2. held' = held BY <2>1, <2>4
    <3> QED BY <3>1, <3>2, <1>0, SameSeatKnown DEF ButtonInv, SameSeat
  <2> QED BY <2>3, <2>4
<1> QED BY <1>2, <1>3

LEMMA ReleaseButtons ==
  ASSUME ButtonInv, NEW b \in Button, ReleaseButton(b)
  PROVE  ButtonInv'
<1> DEFINE to == IF h.grabbed THEN h.grab ELSE h.under
           s  == [h EXCEPT !.down = @ \ {b}, !.pressed = @ \ {b}]
<1>0. /\ HasSeat(h) /\ ButtonsKnown(h, held) /\ DOMAIN held = Button /\ ~stray
      /\ b \in h.down /\ Holds' = Holds /\ (h.grabbed => Holds)
  BY DEF ButtonInv, ReleaseButton, Holds
<1>1. /\ HasSeat(s) /\ s.down = h.down \ {b} /\ s.pressed = h.pressed \ {b}
      /\ s.canceled = h.canceled /\ s.grabbed = h.grabbed /\ s.grab = h.grab
  BY <1>0 DEF HasSeat, SeatFields
<1>2. CASE b \in h.canceled
  <2>1. h' = [s EXCEPT !.canceled = @ \ {b}] /\ held' = held /\ stray' = stray
    BY <1>2 DEF ReleaseButton
  <2> HIDE DEF s
  <2>2. /\ HasSeat(h') /\ h'.canceled = h.canceled \ {b} /\ h'.down = h.down \ {b}
        /\ h'.pressed = h.pressed \ {b} /\ h'.grabbed = h.grabbed /\ h'.grab = h.grab
    BY <1>1, <2>1 DEF HasSeat, SeatFields
  <2>3. h'.pressed = h.pressed BY <1>0, <1>2, <2>2 DEF ButtonsKnown
  <2>4. ButtonsKnown(h', held') BY <1>0, <2>1, <2>2, <2>3 DEF ButtonsKnown
  <2> QED BY <1>0, <2>1, <2>2, <2>4 DEF ButtonInv
<1>3. CASE b \notin h.canceled
  <2>1. /\ h' = IF s.pressed = {} THEN [s EXCEPT !.grabbed = FALSE, !.grab = NoWin] ELSE s
        /\ held' = [held EXCEPT ![b] = NoWin]
        /\ stray' = (stray \/ (Alive(to) /\ held[b] # to))
    BY <1>3 DEF ReleaseButton
  <2>2. b \in h.pressed /\ h.grabbed /\ held[b] = to BY <1>0, <1>3 DEF ButtonsKnown
  <2>3. ~stray' BY <1>0, <2>1, <2>2
  <2> HIDE DEF s, to
  <2>4. /\ HasSeat(h') /\ h'.canceled = h.canceled /\ h'.down = h.down \ {b}
        /\ h'.pressed = h.pressed \ {b}
        /\ h.pressed # {b} => (h'.grabbed = h.grabbed /\ h'.grab = h.grab)
        /\ h.pressed = {b} => ~h'.grabbed
    BY <1>1, <2>1, <2>2 DEF HasSeat, SeatFields
  <2>5. DOMAIN held' = Button /\ held'[b] = NoWin /\ \A x \in Button \ {b} : held'[x] = held[x]
    <3>1. DOMAIN held = Button /\ held' = [held EXCEPT ![b] = NoWin] BY <2>1, <1>0
    <3> QED BY <3>1
  <2>6. ButtonsKnown(h', held')
    <3>1. ButtonsKnown(h, held) /\ b \in h.pressed /\ h.grabbed BY <1>0, <2>2
    <3>2. b \notin h.canceled BY <1>3
    <3>3. /\ h'.down = h'.pressed \cup h'.canceled
          /\ h'.pressed \subseteq Button /\ h'.pressed \cap h'.canceled = {}
      BY <3>1, <3>2, <2>4 DEF ButtonsKnown
    <3>4. h'.pressed # {} => h'.grabbed /\ h'.grab = h.grab
      BY <3>1, <2>4
    <3>5. ASSUME NEW x \in h'.pressed PROVE held'[x] = h'.grab
      <4>1. x \in h.pressed /\ x \in Button \ {b} BY <2>4, <3>3
      <4>2. held[x] = h.grab BY <4>1, <3>1 DEF ButtonsKnown
      <4> QED BY <4>1, <4>2, <3>4, <2>5
    <3>6. ASSUME NEW x \in Button \ h'.pressed PROVE held'[x] = NoWin
      <4>1. x = b \/ (x \in Button \ {b} /\ x \in Button \ h.pressed) BY <2>4
      <4>2. x \in Button \ h.pressed => held[x] = NoWin BY <3>1 DEF ButtonsKnown
      <4> QED BY <4>1, <4>2, <2>5
    <3> QED BY <3>3, <3>4, <3>5, <3>6 DEF ButtonsKnown
  <2>7. h'.grabbed => Holds BY <1>0, <2>2, <2>4
  <2> QED BY <1>0, <2>3, <2>4, <2>5, <2>6, <2>7 DEF ButtonInv
<1> QED BY <1>2, <1>3

LEMMA ButtonStep ==
  ASSUME ButtonInv, [Next]_vars
  PROVE  ButtonInv'
<1>1. ASSUME h' = h, held' = held, stray' = stray, Holds' = Holds PROVE ButtonInv'
  BY <1>1 DEF ButtonInv
<1>2. CASE Step BY <1>2, StepButtons
<1>3. CASE WindowEvents \/ MainDemoted BY <1>3, WindowButtons
<1>4. CASE Input
  <2>1. ASSUME NEW w, Motion(w) PROVE ButtonInv'
    <3>0. HasSeat(h) /\ ~h.grabbed BY <2>1 DEF ButtonInv, Motion
    <3>1. h' = [h EXCEPT !.under = w] /\ held' = held /\ stray' = stray /\ Holds' = Holds
      BY <2>1 DEF Motion, Holds
    <3>2. SameSeat(h, h') BY <3>0, <3>1 DEF SameSeat, HasSeat, SeatFields
    <3> QED BY <3>1, <3>2, SameSeatKnown DEF ButtonInv, SameSeat
  <2>2. CASE PressKey
    BY <2>2, <1>1 DEF PressKey, Holds
  <2> QED BY <1>4, <2>1, <2>2, PressButtons, ReleaseButtons DEF Input
<1>5. CASE ControlAsks \/ ControlToggles \/ ShellEnds \/ ControlChanges
  BY <1>5, <1>1 DEF ControlAsks, ControlToggles, ShellEnds, ControlChanges, runtime, Holds
<1>6. CASE UNCHANGED vars BY <1>6, <1>1 DEF vars, Holds
<1> QED BY <1>2, <1>3, <1>4, <1>5, <1>6 DEF Next

\* At any time a button is down exactly if the client of the grab saw it
\* pressed or its release is to be swallowed: the press is forgotten by no
\* window that disappears under it.
THEOREM ButtonInvHolds == Spec => []ButtonInv
<1>1. Init => ButtonInv
  BY DEF Init, ButtonInv, HasSeat, SeatFields, ButtonsKnown
<1>2. ButtonInv /\ [Next]_vars => ButtonInv' BY ButtonStep
<1> QED BY <1>1, <1>2, PTL DEF Spec

\* No client is left with a pressed button that is up, and none sees a button
\* let go that it did not see pressed.
THEOREM ReleaseMatchesPressSafe == Spec => []ReleaseMatchesPress
<1>1. ButtonInv => ReleaseMatchesPress
  BY PresentationAssumption DEF ButtonInv, ButtonsKnown, ReleaseMatchesPress, Alive
<1> QED BY <1>1, ButtonInvHolds, PTL

-----------------------------------------------------------------------------
(* Overlay regions.  Nothing that happens to a pane between two looks at   *)
(* the regions may change which instance it is: Kept says that a change of *)
(* CompositorState leaves every pane's mode, binding and revision alone.   *)

StateFields == {"panes", "pend", "stopping", "leaving", "accepts", "regions", "present", "target",
                "gen", "shell"}
PaneFields  == {"mode", "id", "bind", "rev", "prov", "st", "group"}

PaneShaped(x) == x = NoPane \/ (PaneFields \subseteq DOMAIN x /\ x.mode \in {"plain", "native"})

Shaped(s) ==
  /\ StateFields \subseteq DOMAIN s
  /\ DOMAIN s.panes = Pane
  /\ \A p \in Pane : PaneShaped(s.panes[p])
  /\ s.regions # NoRegions => /\ {"key", "rev", "at"} \subseteq DOMAIN s.regions
                              /\ \A r \in s.regions.at : r.pane \in Pane

Named(s) ==
  s.regions # NoRegions =>
    \A r \in s.regions.at : Shows(s, r.pane) /\ Native(s, r.pane) /\ Instance(s, r.pane) = r.inst

\* The inductive invariant of the regions
RegionInv == Shaped(c) /\ Named(c)

SamePane(x, y) ==
  /\ y.mode = x.mode
  /\ x.mode # "nopane" => y.bind = x.bind /\ y.rev = x.rev

Kept(s, t) ==
  /\ Shaped(t)
  /\ t.regions = s.regions
  /\ \A p \in Pane : SamePane(s.panes[p], t.panes[p])

LEMMA KeptRegions ==
  ASSUME NEW s, NEW t, Shaped(s), Named(s), Kept(s, t)
  PROVE  Shaped(t) /\ Named(t)
<1>1. Shaped(t) /\ t.regions = s.regions /\ \A p \in Pane : SamePane(s.panes[p], t.panes[p])
  BY DEF Kept
<1>2. ASSUME s.regions # NoRegions, NEW r \in s.regions.at
      PROVE  Shows(t, r.pane) /\ Native(t, r.pane) /\ Instance(t, r.pane) = r.inst
  <2>1. r.pane \in Pane BY <1>2 DEF Shaped
  <2>2. SamePane(s.panes[r.pane], t.panes[r.pane]) BY <1>1, <2>1
  <2>3. Shows(s, r.pane) /\ Native(s, r.pane) /\ Instance(s, r.pane) = r.inst
    BY <1>2 DEF Named
  <2> QED BY <2>2, <2>3 DEF SamePane, Shows, Native, Instance
<1> QED BY <1>1, <1>2 DEF Named

LEMMA KeptTransitive ==
  ASSUME NEW s, NEW t, NEW u, Kept(s, t), Kept(t, u)
  PROVE  Kept(s, u)
BY DEF Kept, SamePane

LEMMA KeptItself ==
  ASSUME NEW s, Shaped(s)
  PROVE  Kept(s, s)
BY DEF Kept, SamePane

\* Anything but the panes and the regions
LEMMA KeptFrom ==
  ASSUME NEW s, NEW t, Shaped(s), DOMAIN t = DOMAIN s, t.panes = s.panes, t.regions = s.regions
  PROVE  Kept(s, t)
BY DEF Kept, Shaped, SamePane

\* One pane, that shows what it showed
LEMMA KeptButOne ==
  ASSUME NEW s, NEW t, NEW p \in Pane, NEW x, Shaped(s), DOMAIN t = DOMAIN s,
         t.panes = [s.panes EXCEPT ![p] = x], t.regions = s.regions,
         PaneShaped(x), SamePane(s.panes[p], x)
  PROVE  Kept(s, t)
BY DEF Kept, Shaped, SamePane

\* prune_stale_overlay_regions: whatever became of the panes, what is left of
\* the regions names the instances that are shown
LEMMA PrunedNames ==
  ASSUME NEW s, Shaped(s)
  PROVE  Shaped(Pruned(s)) /\ Named(Pruned(s))
<1> DEFINE kept == {r \in s.regions.at : AllowsRegions(s, r.pane) /\ Instance(s, r.pane) = r.inst}
           left == IF kept = {} THEN NoRegions ELSE [s.regions EXCEPT !.at = kept]
<1>1. CASE s.regions = NoRegions
  <2>1. Pruned(s) = s BY <1>1 DEF Pruned
  <2> QED BY <1>1, <2>1 DEF Named
<1>2. CASE s.regions # NoRegions
  <2>1. Pruned(s) = [s EXCEPT !.regions = left] BY <1>2 DEF Pruned
  <2>2. left # NoRegions => left.at = kept /\ {"key", "rev", "at"} \subseteq DOMAIN left
    BY <1>2 DEF Shaped
  <2>3. \A r \in kept : r.pane \in Pane /\ AllowsRegions(s, r.pane) /\ Instance(s, r.pane) = r.inst
    BY <1>2 DEF Shaped
  <2> HIDE DEF kept, left
  <2>4. /\ DOMAIN Pruned(s) = DOMAIN s /\ Pruned(s).panes = s.panes /\ Pruned(s).regions = left
    BY <2>1 DEF Shaped, StateFields
  <2>5. Shaped(Pruned(s)) BY <2>2, <2>3, <2>4 DEF Shaped
  <2>6. Named(Pruned(s))
    BY <2>2, <2>3, <2>4 DEF Named, AllowsRegions, Shows, Native, Instance
  <2> QED BY <2>5, <2>6
<1> QED BY <1>1, <1>2

\* What the fields of a pane that its instance does not depend on are set to
LEMMA PaneParts ==
  ASSUME NEW x, PaneShaped(x), NEW g, NEW st
  PROVE  /\ PaneShaped([x EXCEPT !.group = g]) /\ SamePane(x, [x EXCEPT !.group = g])
         /\ PaneShaped([x EXCEPT !.st = st, !.group = g]) /\ SamePane(x, [x EXCEPT !.st = st, !.group = g])
<1> DEFINE y == [x EXCEPT !.group = g]
           z == [x EXCEPT !.st = st, !.group = g]
<1>1. CASE x = NoPane
  <2>1. DOMAIN x = {"mode"} /\ DOMAIN y = {"mode"} /\ DOMAIN z = {"mode"}
    BY <1>1 DEF NoPane
  <2>2. y["mode"] = x["mode"] /\ z["mode"] = x["mode"] BY <2>1
  <2>3. y = [f \in {"mode"} |-> y[f]] /\ z = [f \in {"mode"} |-> z[f]] /\ x = [f \in {"mode"} |-> x[f]]
    BY <2>1, <1>1 DEF NoPane
  <2> HIDE DEF y, z
  <2>4. y = x /\ z = x BY <2>2, <2>3
  <2> USE DEF y, z
  <2> QED BY <2>4, <1>1 DEF PaneShaped, SamePane
<1>2. CASE PaneFields \subseteq DOMAIN x /\ x.mode \in {"plain", "native"}
  BY <1>2 DEF PaneShaped, SamePane, PaneFields
<1> QED BY <1>1, <1>2 DEF PaneShaped

LEMMA FreshPane ==
  ASSUME NEW x
  PROVE  PaneShaped(Fresh(x))
BY DEF Fresh, PaneShaped, PaneFields

LEMMA AbandonedKeeps ==
  ASSUME NEW s, NEW p \in Pane, Shaped(s)
  PROVE  Kept(s, Abandoned(s, p))
<1> DEFINE t == Abandoned(s, p)
<1>1. DOMAIN t = DOMAIN s /\ t.panes = s.panes /\ t.regions = s.regions
  BY DEF Abandoned, Shaped, StateFields
<1> HIDE DEF t
<1> QED
  <2>1. Kept(s, t) BY <1>1, KeptFrom
  <2> QED BY <2>1 DEF t

LEMMA RecordedKeeps ==
  ASSUME NEW s, NEW gen, Shaped(s)
  PROVE  Kept(s, Recorded(s, gen))
<1>1. PICK x : Recorded(s, gen) = [s EXCEPT !.present[gen.surf] = x]
  BY DEF Recorded
<1> DEFINE t == [s EXCEPT !.present[gen.surf] = x]
<1>2. DOMAIN t = DOMAIN s /\ t.panes = s.panes /\ t.regions = s.regions
  BY DEF Shaped, StateFields
<1> HIDE DEF t
<1>3. Kept(s, t) BY <1>2, KeptFrom
<1> QED BY <1>1, <1>3 DEF t

\* The window group of a pane is no part of what the pane shows
LEMMA GroupClearedKeeps ==
  ASSUME NEW s, NEW p, NEW g, Shaped(s)
  PROVE  Kept(s, [s EXCEPT !.panes[p].group = g])
<1> DEFINE t == [s EXCEPT !.panes[p].group = g]
           x == [s.panes[p] EXCEPT !.group = g]
<1>1. DOMAIN t = DOMAIN s /\ t.panes = [s.panes EXCEPT ![p] = x] /\ t.regions = s.regions
  BY DEF Shaped, StateFields
<1>2. p \in Pane => PaneShaped(x) /\ SamePane(s.panes[p], x) BY PaneParts DEF Shaped
<1> HIDE DEF t, x
<1>3. Kept(s, t) BY <1>1, <1>2 DEF Kept, Shaped, SamePane
<1> QED BY <1>3 DEF t

LEMMA RequestedKeeps ==
  ASSUME NEW s, NEW p \in Pane, Shaped(s)
  PROVE  Kept(s, Requested(s, p))
<1> DEFINE u == [s EXCEPT !.pend[p] = s.panes[p].rev]
           t == [s EXCEPT !.pend[p] = s.panes[p].rev, !.panes[p].group = NoGroup]
<1>1. Requested(s, p) = IF Wanted(s, p) THEN t ELSE s BY DEF Requested
<1>2. DOMAIN u = DOMAIN s /\ u.panes = s.panes /\ u.regions = s.regions
  BY DEF Shaped, StateFields
<1>3. t = [u EXCEPT !.panes[p].group = NoGroup] OBVIOUS
<1> HIDE DEF u, t
<1>4. Kept(s, u) BY <1>2, KeptFrom
<1>5. Shaped(u) BY <1>4 DEF Kept
<1>6. Kept(u, t) BY <1>3, <1>5, GroupClearedKeeps
<1>7. Kept(s, t) BY <1>4, <1>6, KeptTransitive
<1> QED BY <1>1, <1>7, KeptItself

Sound(s) == Shaped(s) /\ Named(s)

LEMMA KeptSound ==
  ASSUME NEW s, NEW t, Sound(s), Kept(s, t)
  PROVE  Sound(t)
BY KeptRegions DEF Sound

LEMMA PrunedSound ==
  ASSUME NEW s, Shaped(s)
  PROVE  Sound(Pruned(s))
BY PrunedNames DEF Sound

\* Every pane shows what it showed, the regions may have been looked at
Carried(s, t) == \E u : Kept(s, u) /\ t \in {u, Pruned(u)}

LEMMA CarriedSound ==
  ASSUME NEW s, NEW t, Sound(s), Carried(s, t)
  PROVE  Sound(t)
<1>1. PICK u : Kept(s, u) /\ t \in {u, Pruned(u)} BY DEF Carried
<1>2. Sound(u) BY <1>1, KeptSound
<1>3. Sound(Pruned(u)) BY <1>2, PrunedSound DEF Sound
<1> QED BY <1>1, <1>2, <1>3

LEMMA KeptCarried ==
  ASSUME NEW s, NEW t, Kept(s, t)
  PROVE  Carried(s, t) /\ Carried(s, Pruned(t))
BY DEF Carried

\* Everything but the panes and the regions may change
LEMMA SoundFrom ==
  ASSUME NEW s, NEW t, Sound(s), DOMAIN t = DOMAIN s, t.panes = s.panes, t.regions = s.regions
  PROVE  Sound(t)
BY KeptFrom, KeptSound DEF Sound

LEMMA GroupFocusedKeeps ==
  ASSUME NEW s, NEW p, NEW w, NEW members, Shaped(s)
  PROVE  Kept(s, GroupFocused(s, p, w, members))
<1> DEFINE t == [s EXCEPT !.panes[p].group.foc = w, !.panes[p].group.members = @ \cup members]
           group == Shows(s, p) /\ s.panes[p].group # NoGroup
<1>1. GroupFocused(s, p, w, members) = IF group THEN t ELSE s BY DEF GroupFocused
<1>2. CASE group
  <2>0. Shaped(s) OBVIOUS
  <2>1. DOMAIN t = DOMAIN s /\ t.regions = s.regions
        /\ DOMAIN t.panes = Pane /\ \A q \in Pane \ {p} : t.panes[q] = s.panes[q]
    BY <2>0 DEF Shaped, StateFields
  <2>2. p \in Pane => PaneShaped(t.panes[p]) /\ SamePane(s.panes[p], t.panes[p])
    <3>1. SUFFICES ASSUME p \in Pane PROVE PaneShaped(t.panes[p]) /\ SamePane(s.panes[p], t.panes[p])
      OBVIOUS
    <3>2. PaneFields \subseteq DOMAIN s.panes[p] /\ s.panes[p].mode \in {"plain", "native"}
      BY <1>2, <2>0, <3>1 DEF Shaped, PaneShaped, Shows, NoPane
    <3>3. PaneFields \subseteq DOMAIN t.panes[p] /\ SamePane(s.panes[p], t.panes[p])
      BY <2>0, <3>1, <3>2 DEF Shaped, StateFields, PaneFields, SamePane
    <3> HIDE DEF t
    <3> QED BY <3>2, <3>3 DEF PaneShaped, SamePane
  <2> HIDE DEF group, t
  <2>3. Kept(s, t) BY <2>0, <2>1, <2>2 DEF Kept, Shaped, SamePane
  <2> QED BY <1>1, <1>2, <2>3
<1>3. CASE ~group
  <2> HIDE DEF group, t
  <2> QED BY <1>1, <1>3, KeptItself
<1> QED BY <1>2, <1>3

LEMMA FocusedFromKeeps ==
  ASSUME NEW s, NEW p, NEW advance, Shaped(s), NEW t \in FocusedFrom(s, p, advance)
  PROVE  Kept(s, t)
<1>1. (\E g : t = [s EXCEPT !.target = p, !.gen = g])
      \/ (\E u, f, g : t = [s EXCEPT !.target = p, !.present[u].foc = f, !.gen = g])
  BY Zenon DEF FocusedFrom
<1>2. CASE \E g : t = [s EXCEPT !.target = p, !.gen = g]
  <2>1. DOMAIN t = DOMAIN s /\ t.panes = s.panes /\ t.regions = s.regions
    BY <1>2 DEF Shaped, StateFields
  <2> QED BY <2>1, KeptFrom
<1>3. CASE \E u, f, g : t = [s EXCEPT !.target = p, !.present[u].foc = f, !.gen = g]
  <2>1. DOMAIN t = DOMAIN s /\ t.panes = s.panes /\ t.regions = s.regions
    BY <1>3 DEF Shaped, StateFields
  <2> QED BY <2>1, KeptFrom
<1> QED BY <1>1, <1>2, <1>3

\* A pane's program that attaches, shows a window or lets go
LEMMA StatusKeeps ==
  ASSUME NEW s, NEW p, NEW st, NEW g, Shaped(s)
  PROVE  Kept(s, [s EXCEPT !.panes[p].st = st, !.panes[p].group = g])
<1> DEFINE t == [s EXCEPT !.panes[p].st = st, !.panes[p].group = g]
           x == [s.panes[p] EXCEPT !.st = st, !.group = g]
<1>1. DOMAIN t = DOMAIN s /\ DOMAIN t.panes = Pane /\ t.regions = s.regions
      /\ (p \in Pane => t.panes[p] = x) /\ \A q \in Pane \ {p} : t.panes[q] = s.panes[q]
  BY DEF Shaped, StateFields
<1>2. p \in Pane => PaneShaped(x) /\ SamePane(s.panes[p], x) BY PaneParts DEF Shaped
<1> HIDE DEF t, x
<1>3. Kept(s, t) BY <1>1, <1>2 DEF Kept, Shaped, SamePane
<1> QED BY <1>3 DEF t

LEMMA BridgeCarries ==
  ASSUME NEW s, NEW p, NEW w, Shaped(s)
  PROVE  Kept(s, Attached(s, p)) /\ Kept(s, GroupObserved(s, p, w)) /\ Carried(s, Detached(s, p))
<1>0. Kept(s, s) BY KeptItself
<1>1. Kept(s, Attached(s, p))
  <2> DEFINE t == [s EXCEPT !.panes[p].st = "attached", !.panes[p].group = NoGroup]
  <2>1. Attached(s, p) = s \/ Attached(s, p) = t BY DEF Attached
  <2>2. Kept(s, t) BY StatusKeeps
  <2> HIDE DEF t
  <2> QED BY <1>0, <2>1, <2>2
<1>2. Kept(s, GroupObserved(s, p, w))
  <2> DEFINE g == [prim |-> w, foc |-> IF s.target = p THEN w ELSE NoWin, members |-> {w}]
             t == [s EXCEPT !.panes[p].group = g]
  <2>1. GroupObserved(s, p, w) = s \/ GroupObserved(s, p, w) = t BY DEF GroupObserved
  <2> HIDE DEF g
  <2>2. Kept(s, t) BY GroupClearedKeeps
  <2> HIDE DEF t
  <2> QED BY <1>0, <2>1, <2>2
<1>3. Carried(s, Detached(s, p))
  <2> DEFINE t == [s EXCEPT !.panes[p].st = "launching", !.panes[p].group = NoGroup]
  <2>1. Detached(s, p) = s \/ Detached(s, p) = Pruned(t) BY DEF Detached
  <2>2. Kept(s, t) BY StatusKeeps
  <2> HIDE DEF t
  <2> QED BY <1>0, <2>1, <2>2, KeptCarried
<1> QED BY <1>1, <1>2, <1>3

-----------------------------------------------------------------------------
(* Requests and events: what takes a pane's instance away looks at the     *)
(* regions before it lets go of CompositorState.                           *)

\* A pane that shows something else, its old program on its way out
LEMMA ReplacedShaped ==
  ASSUME NEW s, NEW p \in Pane, NEW x, NEW accepts, Shaped(s), PaneShaped(x)
  PROVE  Shaped([s EXCEPT !.panes[p] = x, !.accepts = accepts])
BY DEF Shaped, StateFields

LEMMA AppliedSound ==
  ASSUME NEW s, NEW r \in Requests, Shaped(s)
  PROVE  Sound(Applied(s, r))
<1> DEFINE p == r.pane
           old == s.panes[p]
           changed == Shows(s, p) /\ (old.mode # "native" \/ old.id # r.id \/ old.bind # r.bind)
           s1 == IF changed THEN Abandoned(s, p) ELSE s
           base == IF Shows(s, p) THEN old ELSE Fresh(FALSE)
           group == IF changed THEN NoGroup ELSE base.group
           x == [base EXCEPT !.mode = "native", !.id = r.id, !.bind = r.bind, !.rev = r.rev,
                             !.group = group]
           accepts == IF r.group # NoInst THEN s1.accepts \cup {p}
                      ELSE IF changed THEN s1.accepts \ {p} ELSE s1.accepts
           t == [s1 EXCEPT !.panes[p] = x, !.accepts = accepts]
<1>1. p \in Pane BY RequestsAssumption
<1>2. Shaped(s1)
  <2> HIDE DEF changed, p
  <2> QED BY <1>1, AbandonedKeeps DEF Kept
<1>3. PaneFields \subseteq DOMAIN base
  <2>1. Shows(s, p) => PaneFields \subseteq DOMAIN old
    BY <1>1 DEF Shaped, PaneShaped, Shows, NoPane
  <2>2. PaneFields \subseteq DOMAIN Fresh(FALSE) BY DEF Fresh, PaneFields
  <2> QED BY <2>1, <2>2
<1>4. PaneShaped(x)
  <2> HIDE DEF base, group, p
  <2> QED BY <1>3 DEF PaneShaped, PaneFields
<1>5. Applied(s, r) = Pruned(t)
  BY DEF Applied
<1> HIDE DEF x, accepts, s1, p
<1>6. Shaped(t) BY <1>1, <1>2, <1>4, ReplacedShaped
<1> HIDE DEF t
<1> QED BY <1>5, <1>6, PrunedSound

LEMMA PlainSound ==
  ASSUME NEW s, NEW p \in Pane, Shaped(s), Shows(s, p)
  PROVE  Sound(Plain(s, p))
<1> DEFINE s1 == Abandoned(s, p)
           x == [s1.panes[p] EXCEPT !.mode = "plain", !.id = "noident", !.bind = NoBind,
                                    !.rev = 0, !.group = NoGroup]
           t == [s1 EXCEPT !.panes[p] = x, !.accepts = s1.accepts \ {p}]
<1>1. Kept(s, s1) BY AbandonedKeeps
<1>2. Plain(s, p) = Pruned(t) BY DEF Plain
<1> HIDE DEF s1
<1>3. PaneFields \subseteq DOMAIN s1.panes[p]
  BY <1>1 DEF Kept, Shaped, PaneShaped, SamePane, Shows, NoPane
<1>4. PaneShaped(x) BY <1>3 DEF PaneShaped, PaneFields
<1>5. Shaped(s1) BY <1>1 DEF Kept
<1> HIDE DEF x
<1>6. Shaped(t) BY <1>4, <1>5, ReplacedShaped
<1> HIDE DEF t
<1> QED BY <1>2, <1>6, PrunedSound

LEMMA ForgottenShaped ==
  ASSUME NEW s, NEW p \in Pane, Shaped(s)
  PROVE  Shaped(Forgotten(s, p))
<1> DEFINE t == Forgotten(s, p)
<1>1. /\ DOMAIN t = DOMAIN s /\ t.regions = s.regions /\ DOMAIN t.panes = Pane
      /\ t.panes[p] = NoPane /\ \A q \in Pane \ {p} : t.panes[q] = s.panes[q]
  BY DEF Forgotten, Shaped, StateFields
<1> HIDE DEF t
<1>2. Shaped(t) BY <1>1 DEF Shaped, PaneShaped
<1> QED BY <1>2 DEF t

LEMMA PlansSound ==
  ASSUME RegionInv, Plans
  PROVE  Sound(c')
<1>0. Sound(c) /\ Shaped(c) BY DEF RegionInv, Sound
<1>1. ASSUME NEW r \in Requests, NEW gen, HostPlan(r, gen) \/ UpdatePlan(r, gen)
      PROVE  Sound(c')
  <2> DEFINE s == Applied(c, r)
             q == Requested(s, r.pane)
             f == [s EXCEPT !.panes[r.pane].group = NoGroup]
  <2>1. c' \in {q, Recorded(q, gen), f, s, Recorded(s, gen)} BY <1>1 DEF HostPlan, UpdatePlan
  <2>2. r.pane \in Pane BY RequestsAssumption
  <2>3. Sound(s) BY <1>0, AppliedSound
  <2> HIDE DEF s
  <2>4. Sound(q) BY <2>2, <2>3, RequestedKeeps, KeptSound DEF Sound
  <2>5. Sound(f) BY <2>3, GroupClearedKeeps, KeptSound DEF Sound
  <2> HIDE DEF q, f
  <2>6. Sound(Recorded(q, gen)) /\ Sound(Recorded(s, gen))
    BY <2>3, <2>4, RecordedKeeps, KeptSound DEF Sound
  <2> QED BY <2>1, <2>3, <2>4, <2>5, <2>6
<1>2. ASSUME NEW p \in Pane, SwitchToSurfAce(p) PROVE Sound(c')
  BY <1>0, <1>2, PlainSound DEF SwitchToSurfAce
<1>3. ASSUME NEW p \in Pane, Release(p) PROVE Sound(c')
  <2> DEFINE s == Plain(c, p)
  <2>1. Shows(c, p) /\ (c' = s \/ c' = Pruned(Forgotten(s, p))) BY <1>3 DEF Release
  <2>2. Sound(s) BY <1>0, <2>1, PlainSound
  <2> HIDE DEF s
  <2>3. Sound(Pruned(Forgotten(s, p))) BY <2>2, ForgottenShaped, PrunedSound DEF Sound
  <2> QED BY <2>1, <2>2, <2>3
<1>4. ASSUME NEW p \in Pane, LaunchHost(p) PROVE Sound(c')
  <2>1. c' = Requested(c, p) \/ c' = [c EXCEPT !.panes[p].group = NoGroup] BY <1>4 DEF LaunchHost
  <2>2. Sound(Requested(c, p)) BY <1>0, RequestedKeeps, KeptSound
  <2> DEFINE s == [c EXCEPT !.panes[p].group = NoGroup]
  <2>3. Kept(c, s) BY <1>0, GroupClearedKeeps
  <2> HIDE DEF s
  <2>4. Sound(s) BY <1>0, <2>3, KeptSound
  <2> QED BY <2>1, <2>2, <2>4 DEF s
<1>5. ASSUME NEW p \in Pane, NEW id, SwitchToExternal(p, id) PROVE Sound(c')
  <2> DEFINE x == [c.panes[p] EXCEPT !.mode = "native", !.id = id, !.group = NoGroup]
             s == [c EXCEPT !.panes[p] = x]
             t == [s EXCEPT !.pend[p] = c.panes[p].rev]
  <2>1. Shows(c, p) /\ c' \in {s, t} BY <1>5 DEF SwitchToExternal
  <2>2. PaneFields \subseteq DOMAIN c.panes[p]
    BY <1>0, <2>1 DEF Shaped, PaneShaped, Shows, NoPane
  <2>3. PaneShaped(x) /\ x.mode = "native" /\ x.bind = c.panes[p].bind /\ x.rev = c.panes[p].rev
    BY <2>2 DEF PaneShaped, PaneFields
  <2> HIDE DEF x
  <2>4. /\ DOMAIN s = DOMAIN c /\ s.regions = c.regions /\ DOMAIN s.panes = Pane
        /\ s.panes[p] = x /\ \A q \in Pane \ {p} : s.panes[q] = c.panes[q]
    BY <1>0 DEF Shaped, StateFields
  <2>5. DOMAIN t = DOMAIN s /\ t.panes = s.panes /\ t.regions = s.regions
    BY <1>0 DEF Shaped, StateFields
  <2> HIDE DEF s, t
  <2>6. Shaped(s) BY <1>0, <2>3, <2>4 DEF Shaped
  <2>7. Named(s)
    BY <1>0, <2>3, <2>4 DEF Sound, Named, Shaped, Shows, Native, Instance
  <2>8. Sound(s) BY <2>6, <2>7 DEF Sound
  <2>9. Sound(t) BY <2>5, <2>8, SoundFrom, SMTT(60)
  <2> QED BY <2>1, <2>8, <2>9
<1>6. ASSUME NEW shown \in SUBSET Pane, ProviderSnapshot(shown) PROVE Sound(c')
  <2> DEFINE panes == [p \in Pane |->
                        IF p \notin shown THEN NoPane
                        ELSE IF Shows(c, p) THEN [c.panes[p] EXCEPT !.prov = TRUE] ELSE Fresh(TRUE)]
  <2>1. PICK pend, leaving, stopping :
          c' = Pruned([c EXCEPT !.panes = panes, !.pend = pend, !.leaving = leaving, !.stopping = stopping])
    BY <1>6 DEF ProviderSnapshot
  <2> DEFINE t == [c EXCEPT !.panes = panes, !.pend = pend, !.leaving = leaving, !.stopping = stopping]
  <2>2. \A p \in Pane : PaneShaped(panes[p])
    <3> TAKE p \in Pane
    <3> DEFINE y == [c.panes[p] EXCEPT !.prov = TRUE]
    <3>1. Shows(c, p) => PaneShaped(y)
      <4>1. Shows(c, p) => PaneFields \subseteq DOMAIN c.panes[p] /\ c.panes[p].mode \in {"plain", "native"}
        BY <1>0 DEF Shaped, PaneShaped, Shows, NoPane
      <4> QED BY <4>1 DEF PaneShaped, PaneFields
    <3> HIDE DEF y
    <3>2. panes[p] = IF p \notin shown THEN NoPane ELSE IF Shows(c, p) THEN y ELSE Fresh(TRUE)
      BY DEF y
    <3>3. PaneShaped(NoPane) /\ PaneShaped(Fresh(TRUE)) BY FreshPane DEF PaneShaped
    <3> HIDE DEF panes
    <3> QED BY <3>1, <3>2, <3>3
  <2>3. DOMAIN panes = Pane OBVIOUS
  <2> HIDE DEF panes
  <2>4. DOMAIN t = DOMAIN c /\ t.panes = panes /\ t.regions = c.regions
    BY <1>0 DEF Shaped, StateFields
  <2>5. c' = Pruned(t) BY <2>1
  <2> HIDE DEF t
  <2>6. Shaped(t) BY <1>0, <2>2, <2>3, <2>4 DEF Shaped
  <2>7. Sound(Pruned(t)) BY <2>6, PrunedSound
  <2> QED BY <2>5, <2>7, SMTT(60)
<1>7. (\E r \in Requests : \E gen : HostPlan(r, gen) \/ UpdatePlan(r, gen))
      \/ (\E p \in Pane : SwitchToSurfAce(p) \/ Release(p) \/ LaunchHost(p)
                          \/ \E id : SwitchToExternal(p, id))
      \/ (\E shown \in SUBSET Pane : ProviderSnapshot(shown))
  BY Zenon DEF Plans
<1> QED BY <1>1, <1>2, <1>3, <1>4, <1>5, <1>6, <1>7

LEMMA RegionsSound ==
  ASSUME RegionInv, Regions
  PROVE  Sound(c')
<1>0. Sound(c) /\ Shaped(c) BY DEF RegionInv, Sound
<1>1. ASSUME NEW key \in Key, NEW rev \in Rev, NEW at \in SUBSET Drawn(c), SetRegions(key, rev, at)
      PROVE  Sound(c')
  <2> DEFINE s == IF at = {} THEN Pruned(c) ELSE c
             keeps == at = {} /\ s.regions # NoRegions /\ s.regions.key = key /\ s.regions.at # {}
             y == IF keeps THEN [s.regions EXCEPT !.rev = rev] ELSE [key |-> key, rev |-> rev, at |-> at]
  <2>1. /\ c' = [s EXCEPT !.regions = y]
        /\ \A r \in at : AllowsRegions(c, r.pane) /\ Instance(c, r.pane) = r.inst
    BY <1>1 DEF SetRegions
  <2>2. Sound(s)
    <3>1. Sound(Pruned(c)) BY <1>0, PrunedSound
    <3> QED BY <1>0, <3>1
  <2>3. at = {} \/ s = c OBVIOUS
  <2>4. \A r \in at : r.pane \in Pane BY DEF Drawn
  <2> HIDE DEF s
  <2>5. /\ {"key", "rev", "at"} \subseteq DOMAIN y
        /\ y.at = at \/ (s.regions # NoRegions /\ y.at = s.regions.at)
    BY <2>2 DEF Sound, Shaped
  <2> HIDE DEF y
  <2>6. DOMAIN c' = DOMAIN s /\ c'.panes = s.panes /\ c'.regions = y
    BY <2>1, <2>2 DEF Sound, Shaped, StateFields
  <2>7. Shaped(c')
    BY <2>2, <2>4, <2>5, <2>6 DEF Sound, Shaped
  <2>8. Named(c')
    <3>1. CASE s.regions # NoRegions /\ y.at = s.regions.at
      BY <3>1, <2>2, <2>6 DEF Sound, Named, Shows, Native, Instance
    <3>2. CASE y.at = at
      BY <3>2, <2>1, <2>3, <2>6 DEF Named, AllowsRegions, Shows, Native, Instance
    <3> QED BY <2>5, <3>1, <3>2
  <2> QED BY <2>7, <2>8 DEF Sound
<1>2. ASSUME NEW key \in Key, ClearRegions(key) PROVE Sound(c')
  <2>1. DOMAIN c' = DOMAIN c /\ c'.panes = c.panes /\ c'.regions = NoRegions
    BY <1>0, <1>2 DEF ClearRegions, Shaped, StateFields
  <2> QED BY <1>0, <2>1 DEF Sound, Shaped, Named
<1> QED BY <1>1, <1>2 DEF Regions

LEMMA ProgramsCarry ==
  ASSUME RegionInv, Programs
  PROVE  Carried(c, c')
<1>0. Shaped(c) BY DEF RegionInv
<1>1. ASSUME NEW p \in Pane, Started(p) PROVE Carried(c, c')
  <2> DEFINE s == [c EXCEPT !.pend[p] = NoRev]
             t == [s EXCEPT !.panes[p].st = "launching", !.panes[p].group = NoGroup]
             u == [s EXCEPT !.leaving = @ \cup {p}]
  <2>1. c' = t \/ c' = u BY <1>1 DEF Started
  <2>2. DOMAIN s = DOMAIN c /\ s.panes = c.panes /\ s.regions = c.regions
    BY <1>0 DEF Shaped, StateFields
  <2> HIDE DEF s
  <2>3. Kept(c, s) /\ Shaped(s) BY <1>0, <2>2, KeptFrom DEF Kept
  <2>4. Kept(s, t) BY <2>3, StatusKeeps
  <2>5. DOMAIN u = DOMAIN s /\ u.panes = s.panes /\ u.regions = s.regions
    BY <2>3 DEF Shaped, StateFields
  <2> HIDE DEF u, t
  <2>6. Kept(s, u) BY <2>3, <2>5, KeptFrom
  <2> QED BY <2>1, <2>3, <2>4, <2>6, KeptTransitive, KeptCarried
<1>2. ASSUME NEW p \in Pane, StartFails(p) PROVE Carried(c, c')
  <2> DEFINE s == [c EXCEPT !.pend[p] = NoRev]
             t == [s EXCEPT !.panes[p].group = NoGroup]
  <2>1. c' = t BY <1>2 DEF StartFails
  <2>2. DOMAIN s = DOMAIN c /\ s.panes = c.panes /\ s.regions = c.regions
    BY <1>0 DEF Shaped, StateFields
  <2> HIDE DEF s
  <2>3. Kept(c, s) /\ Shaped(s) BY <1>0, <2>2, KeptFrom DEF Kept
  <2>4. Kept(s, t) BY <2>3, GroupClearedKeeps
  <2> HIDE DEF t
  <2> QED BY <2>1, <2>3, <2>4, KeptTransitive, KeptCarried
<1>3. ASSUME NEW p \in Pane, Exits(p) PROVE Carried(c, c')
  <2> DEFINE s == [c EXCEPT !.panes[p].st = "off", !.panes[p].group = NoGroup]
  <2>1. PICK x, y : c' = Pruned([s EXCEPT !.leaving = x, !.stopping = y])
    BY <1>3 DEF Exits
  <2> DEFINE t == [s EXCEPT !.leaving = x, !.stopping = y]
  <2>2. Kept(c, s) BY <1>0, StatusKeeps
  <2> HIDE DEF s
  <2>3. Shaped(s) BY <2>2 DEF Kept
  <2>4. DOMAIN t = DOMAIN s /\ t.panes = s.panes /\ t.regions = s.regions
    BY <2>3 DEF Shaped, StateFields
  <2>5. c' = Pruned(t) BY <2>1
  <2> HIDE DEF t
  <2>6. Kept(s, t) BY <2>3, <2>4, KeptFrom
  <2> QED BY <2>2, <2>5, <2>6, KeptTransitive, KeptCarried
<1>4. ASSUME NEW p \in Pane, Stopped(p) PROVE Carried(c, c')
  <2> DEFINE s == [c EXCEPT !.stopping = @ \ {p}]
             t == [s EXCEPT !.panes[p].st = "off", !.panes[p].group = NoGroup]
             u == [c EXCEPT !.leaving = @ \ {p}]
  <2>1. c' = Requested(t, p) \/ c' = Requested(u, p) BY <1>4 DEF Stopped
  <2>2. /\ DOMAIN s = DOMAIN c /\ s.panes = c.panes /\ s.regions = c.regions
        /\ DOMAIN u = DOMAIN c /\ u.panes = c.panes /\ u.regions = c.regions
    BY <1>0 DEF Shaped, StateFields
  <2> HIDE DEF s, u
  <2>3. Kept(c, s) /\ Shaped(s) /\ Kept(c, u) /\ Shaped(u) BY <1>0, <2>2, KeptFrom DEF Kept
  <2>4. Kept(s, t) BY <2>3, StatusKeeps
  <2> HIDE DEF t
  <2>5. Kept(c, t) /\ Shaped(t)
    <3>1. Kept(c, t) BY <2>3, <2>4, KeptTransitive
    <3>2. Shaped(t) BY <2>4 DEF Kept
    <3> QED BY <3>1, <3>2
  <2>6. Kept(t, Requested(t, p)) /\ Kept(u, Requested(u, p)) BY <2>3, <2>5, RequestedKeeps
  <2>7. Kept(c, Requested(t, p)) /\ Kept(c, Requested(u, p)) BY <2>3, <2>5, <2>6, KeptTransitive
  <2> QED BY <2>1, <2>7, KeptCarried
<1>5. ASSUME NEW p \in Pane, BindSurface(p) PROVE Carried(c, c')
  BY <1>0, <1>5, BridgeCarries, KeptCarried DEF BindSurface
<1> QED BY <1>1, <1>2, <1>3, <1>4, <1>5 DEF Programs

LEMMA FocusRequestsKeep ==
  ASSUME RegionInv, FocusRequests
  PROVE  Kept(c, c')
<1>0. Shaped(c) BY DEF RegionInv
<1>1. DOMAIN c' = DOMAIN c /\ c'.panes = c.panes /\ c'.regions = c.regions
  <2>1. \/ \E t : c' = [c EXCEPT !.target = t, !.gen = NoGen]
        \/ \E t, gen : c' = [c EXCEPT !.present[gen.surf].foc = gen.foc, !.target = t, !.gen = gen]
    BY Zenon DEF FocusRequests, SetFocus, SetFocusGuarded
  <2>2. {"panes", "regions"} \subseteq DOMAIN c BY <1>0 DEF Shaped, StateFields
  <2>3. ASSUME NEW t, c' = [c EXCEPT !.target = t, !.gen = NoGen]
        PROVE  DOMAIN c' = DOMAIN c /\ c'.panes = c.panes /\ c'.regions = c.regions
    BY <2>2, <2>3
  <2>4. ASSUME NEW t, NEW gen, NEW y, c' = [c EXCEPT !.present = y, !.target = t, !.gen = gen]
        PROVE  DOMAIN c' = DOMAIN c /\ c'.panes = c.panes /\ c'.regions = c.regions
    BY <2>2, <2>4
  <2>5. ASSUME NEW t, NEW gen, c' = [c EXCEPT !.present[gen.surf].foc = gen.foc, !.target = t, !.gen = gen]
        PROVE  DOMAIN c' = DOMAIN c /\ c'.panes = c.panes /\ c'.regions = c.regions
    <3>1. PICK y : c' = [c EXCEPT !.present = y, !.target = t, !.gen = gen] BY <2>5
    <3> QED BY <3>1, <2>4
  <2> QED BY <2>1, <2>3, <2>5
<1> QED BY <1>0, <1>1, KeptFrom

\* The handlers change focus, groups and attachments
LEMMA StepCarries ==
  ASSUME RegionInv, Step
  PROVE  Carried(c, c')
<1>0. Shaped(c) /\ Kept(c, c) /\ {"panes", "regions", "target", "shell"} \subseteq DOMAIN c
  BY KeptItself DEF RegionInv, Shaped, StateFields
<1>1. CASE StepRoute \/ StepFocus \/ StepSync \/ StepMapped \/ StepFallback \/ StepDropPopups \/ StepStatus
           \/ StepKey
  <2>1. c' = c
    BY <1>1 DEF StepRoute, StepFocus, StepSync, StepMapped, StepFallback, StepDropPopups, StepStatus, StepKey
  <2> QED BY <1>0, <2>1, KeptCarried, SMTT(60)
<1>2. CASE StepTold \/ StepWrite \/ StepToggle
  <2>1. DOMAIN c' = DOMAIN c /\ c'.panes = c.panes /\ c'.regions = c.regions
    BY <1>0, <1>2 DEF StepTold, StepWrite, StepToggle, Toggled
  <2> QED BY <1>0, <2>1, KeptFrom, KeptCarried
<1>3. CASE StepNote
  <2>1. PICK p, advance, w, members :
          \/ c' = c
          \/ c' \in {GroupFocused(s, p, w, members) : s \in FocusedFrom(c, p, advance)}
    BY <1>3 DEF StepNote
  <2>2. CASE c' = c BY <1>0, <2>2, KeptCarried
  <2>3. CASE c' \in {GroupFocused(s, p, w, members) : s \in FocusedFrom(c, p, advance)}
    <3>1. PICK s \in FocusedFrom(c, p, advance) : c' = GroupFocused(s, p, w, members) BY <2>3
    <3>2. Kept(c, s) /\ Shaped(s) BY <1>0, FocusedFromKeeps DEF Kept
    <3>3. Kept(s, c') BY <3>1, <3>2, GroupFocusedKeeps
    <3> QED BY <3>2, <3>3, KeptTransitive, KeptCarried
  <2> QED BY <2>1, <2>2, <2>3
<1>4. CASE StepGroup
  BY <1>0, <1>4, GroupFocusedKeeps, KeptCarried DEF StepGroup
<1>5. CASE StepBridge
  <2>1. \/ \E p : c' = Attached(c, p) \/ c' = Detached(c, p)
        \/ \E p, w : c' = GroupObserved(c, p, w)
        \/ c' = [c EXCEPT !.target = NoFocus]
    BY <1>5 DEF StepBridge
  <2>2. Kept(c, [c EXCEPT !.target = NoFocus])
    <3> DEFINE t == [c EXCEPT !.target = NoFocus]
    <3>1. DOMAIN t = DOMAIN c /\ t.panes = c.panes /\ t.regions = c.regions BY <1>0
    <3> HIDE DEF t
    <3>2. Kept(c, t) BY <1>0, <3>1, KeptFrom
    <3> QED BY <3>2 DEF t
  <2> QED BY <1>0, <2>1, <2>2, BridgeCarries, KeptCarried
<1> QED BY <1>1, <1>2, <1>3, <1>4, <1>5 DEF Step

LEMMA RegionStep ==
  ASSUME RegionInv, [Next]_vars
  PROVE  RegionInv'
<1>0. Sound(c) /\ {"panes", "regions", "target", "shell"} \subseteq DOMAIN c
  BY DEF RegionInv, Sound, Shaped, StateFields
<1>1. Sound(c')
  <2>1. CASE Step BY <1>0, <2>1, StepCarries, CarriedSound
  <2>2. CASE WindowEvents \/ MainDemoted \/ Input \/ UNCHANGED vars
    <3>1. c' = c
      BY <2>2, Zenon
         DEF WindowEvents, MainAppears, OverlayAppears, RootAppears, DialogAppears, OrdinaryAppears,
             PopupAppears, Map, Unmap, TopDestroyed, RootDestroyed, DialogDestroyed, PopupDestroyed,
             OtherDestroyed, MainDemoted, Input, Motion, Press, ReleaseButton, PressKey, vars
    <3>2. Sound(c) BY <1>0
    <3> QED BY <3>1, <3>2
  <2>3. CASE ControlAsks BY <1>0, <2>3, FocusRequestsKeep, KeptSound DEF ControlAsks
  <2>4. CASE ControlToggles \/ ShellEnds
    <3>1. DOMAIN c' = DOMAIN c /\ c'.panes = c.panes /\ c'.regions = c.regions
      BY <1>0, <2>4 DEF ControlToggles, ShellEnds, Toggled
    <3> QED BY <1>0, <3>1, SoundFrom
  <2>5. CASE ControlChanges
    BY <1>0, <2>5, PlansSound, RegionsSound, ProgramsCarry, CarriedSound DEF ControlChanges
  <2> QED BY <2>1, <2>2, <2>3, <2>4, <2>5 DEF Next
<1> QED BY <1>1 DEF RegionInv, Sound, Shaped, Named, Shows, Native, Instance

LEMMA RegionInit ==
  ASSUME Init
  PROVE  RegionInv
<1>1. PICK sc \in Scenarios :
        c = [panes |-> [p \in Pane |-> IF p \in sc.panes THEN Hosted(p) ELSE NoPane],
             pend |-> [p \in Pane |-> NoRev], stopping |-> {}, leaving |-> {},
             accepts |-> sc.panes, regions |-> NoRegions, present |-> [u \in Surface |-> NoGen],
             target |-> NoFocus, gen |-> NoGen, shell |-> FALSE]
  BY DEF Init
<1>2. StateFields \subseteq DOMAIN c /\ DOMAIN c.panes = Pane /\ c.regions = NoRegions
      /\ \A p \in Pane : c.panes[p] \in {Hosted(p), NoPane}
  BY <1>1 DEF StateFields
<1>3. \A p \in Pane : PaneShaped(Hosted(p)) BY DEF Hosted, Fresh, PaneShaped, PaneFields
<1>4. PaneShaped(NoPane) BY DEF PaneShaped
<1> QED BY <1>2, <1>3, <1>4 DEF RegionInv, Shaped, Named

\* The regions CompositorState holds at any time are over native panes, and
\* over the instances they were asked for.
THEOREM RegionInvHolds == Spec => []RegionInv
<1>1. Init => RegionInv BY RegionInit
<1>2. RegionInv /\ [Next]_vars => RegionInv' BY RegionStep
<1> QED BY <1>1, <1>2, PTL DEF Spec

\* No plan, release, snapshot, stop or exit leaves a region of the main app
\* over a pane that has been given to another program.
THEOREM RegionsNameTheirPaneSafe == Spec => []RegionsNameTheirPane
<1>1. RegionInv => RegionsNameTheirPane BY DEF RegionInv, Named, RegionsNameTheirPane
<1> QED BY <1>1, RegionInvHolds, PTL

-----------------------------------------------------------------------------
(* Lists.  What Within makes of a list, taken from the smallest number of  *)
(* elements after which it could have gone wrong.                          *)

Less(i, j) == i < j

LEMMA Smallest ==
  ASSUME NEW S \in SUBSET Nat, S # {}
  PROVE  \E m \in S : \A n \in S : ~(n < m)
<1>1. IsWellFoundedOn(OpToRel(Less, Nat), Nat)
  BY NatLessThanWellFounded DEF Less, OpToRel
<1>2. PICK m \in S : \A n \in S : ~(<<n, m>> \in OpToRel(Less, Nat))
  BY <1>1, WFMin
<1> QED BY <1>2 DEF OpToRel, Less

\* What Within has of a list after each of its first n elements
Upto(f, list, S, n) ==
  f = [i \in 0 .. n |-> IF i = 0 THEN <<>>
                        ELSE IF list[i] \in S THEN Append(f[i - 1], list[i]) ELSE f[i - 1]]

LEMMA UptoExists ==
  ASSUME NEW list, NEW S
  PROVE  \A n \in Nat : \E f : Upto(f, list, S, n)
<1> DEFINE Bad == {n \in Nat : ~ \E f : Upto(f, list, S, n)}
<1> SUFFICES ASSUME Bad # {} PROVE FALSE OBVIOUS
<1>1. PICK m \in Bad : \A n \in Bad : ~(n < m) BY Smallest
<1>2. m # 0
  <2> DEFINE f == [i \in 0 .. 0 |-> <<>>]
  <2>1. \A i \in 0 .. 0 : i = 0 OBVIOUS
  <2>2. Upto(f, list, S, 0) BY <2>1 DEF Upto
  <2> QED BY <2>2
<1>3. m - 1 \in Nat /\ m - 1 < m BY <1>2
<1>4. PICK f : Upto(f, list, S, m - 1) BY <1>1, <1>3
<1> DEFINE last == IF list[m] \in S THEN Append(f[m - 1], list[m]) ELSE f[m - 1]
           g == [i \in 0 .. m |-> IF i = m THEN last ELSE f[i]]
<1>5. ASSUME NEW i \in 0 .. m
      PROVE  g[i] = IF i = 0 THEN <<>>
                    ELSE IF list[i] \in S THEN Append(g[i - 1], list[i]) ELSE g[i - 1]
  <2>1. CASE i = 0
    <3>1. 0 \in 0 .. m - 1 /\ 0 # m BY <1>2, <1>3
    <3>2. f[0] = <<>> BY <1>4, <3>1 DEF Upto
    <3> QED BY <2>1, <3>1, <3>2
  <2>2. CASE i = m
    <3>1. m - 1 \in 0 .. m /\ m - 1 # m BY <1>2, <1>3
    <3>2. g[i] = last /\ g[i - 1] = f[m - 1] BY <2>2, <3>1
    <3> HIDE DEF g
    <3> QED BY <1>2, <2>2, <3>2
  <2>3. CASE i # 0 /\ i # m
    <3>1. i \in 0 .. m - 1 /\ i - 1 \in 0 .. m - 1 /\ i - 1 \in 0 .. m /\ i - 1 # m
      BY <1>2, <2>3
    <3>2. g[i] = f[i] /\ g[i - 1] = f[i - 1] BY <2>3, <3>1
    <3>3. f[i] = IF i = 0 THEN <<>>
                 ELSE IF list[i] \in S THEN Append(f[i - 1], list[i]) ELSE f[i - 1]
      BY <1>4, <3>1 DEF Upto
    <3> HIDE DEF g
    <3> QED BY <3>2, <3>3
  <2> QED BY <2>1, <2>2, <2>3
<1>6. Upto(g, list, S, m)
  <2> DEFINE body == [i \in 0 .. m |->
                        IF i = 0 THEN <<>>
                        ELSE IF list[i] \in S THEN Append(g[i - 1], list[i]) ELSE g[i - 1]]
  <2>1. g = [i \in 0 .. m |-> g[i]] OBVIOUS
  <2> HIDE DEF g
  <2>2. [i \in 0 .. m |-> g[i]] = body BY <1>5
  <2> QED BY <2>1, <2>2 DEF Upto
<1> QED BY <1>6, <1>1

LEMMA WithinUpto ==
  ASSUME NEW list, NEW S, Len(list) \in Nat
  PROVE  \E f : Upto(f, list, S, Len(list)) /\ Within(list, S) = f[Len(list)]
<1> DEFINE f == CHOOSE g : Upto(g, list, S, Len(list))
<1>1. Upto(f, list, S, Len(list)) BY UptoExists
<1>2. Within(list, S) = f[Len(list)] BY DEF Within, Upto
<1> QED BY <1>1, <1>2

LEMMA AppendRange ==
  ASSUME NEW T, NEW list \in Seq(T), NEW x \in T
  PROVE  /\ Append(list, x) \in Seq(T)
         /\ Range(Append(list, x)) = Range(list) \cup {x}
<1> DEFINE new == Append(list, x)
<1>1. /\ new \in Seq(T) /\ DOMAIN list = 1 .. Len(list) /\ Len(list) \in Nat
      /\ DOMAIN new = 1 .. Len(list) + 1
      /\ \A i \in 1 .. Len(list) : new[i] = list[i]
      /\ new[Len(list) + 1] = x
  OBVIOUS
<1> HIDE DEF new
<1>2. ASSUME NEW y \in Range(new) PROVE y \in Range(list) \cup {x}
  <2>1. PICK i \in DOMAIN new : y = new[i] BY <1>2 DEF Range
  <2>2. i \in 1 .. Len(list) \/ i = Len(list) + 1 BY <1>1, <2>1
  <2> QED BY <1>1, <2>1, <2>2 DEF Range
<1>3. ASSUME NEW y \in Range(list) PROVE y \in Range(new)
  <2>1. PICK i \in DOMAIN list : y = list[i] BY <1>3 DEF Range
  <2>2. i \in DOMAIN new /\ new[i] = y BY <1>1, <2>1
  <2> QED BY <2>2 DEF Range
<1>4. x \in Range(new)
  <2>1. Len(list) + 1 \in DOMAIN new BY <1>1
  <2> QED BY <1>1, <2>1 DEF Range
<1> QED BY <1>1, <1>2, <1>3, <1>4 DEF new

LEMMA WithinElements ==
  ASSUME NEW T, NEW list \in Seq(T), NEW S
  PROVE  /\ Within(list, S) \in Seq(T)
         /\ Range(Within(list, S)) = Range(list) \cap S
<1> DEFINE n == Len(list)
           upto(i) == {list[j] : j \in 1 .. i}
<1>1. n \in Nat /\ DOMAIN list = 1 .. n /\ \A i \in 1 .. n : list[i] \in T OBVIOUS
<1>2. PICK f : Upto(f, list, S, n) /\ Within(list, S) = f[n] BY <1>1, WithinUpto
<1> DEFINE Good(i) == f[i] \in Seq(T) /\ Range(f[i]) = upto(i) \cap S
           Bad == {i \in 0 .. n : ~Good(i)}
<1>3. \A i \in 0 .. n : f[i] = IF i = 0 THEN <<>>
                               ELSE IF list[i] \in S THEN Append(f[i - 1], list[i]) ELSE f[i - 1]
  BY <1>2, <1>1 DEF Upto
<1>4. Bad = {}
  <2> SUFFICES ASSUME Bad # {} PROVE FALSE OBVIOUS
  <2>1. Bad \in SUBSET Nat BY <1>1
  <2>2. PICK m \in Bad : \A i \in Bad : ~(i < m)
    <3> HIDE DEF Bad
    <3> QED BY <2>1, Smallest
  <2>3. m # 0
    <3>1. f[0] = <<>> BY <1>1, <1>3
    <3>2. f[0] \in Seq(T) /\ Range(f[0]) = {} BY <3>1 DEF Range
    <3>3. upto(0) = {} OBVIOUS
    <3> QED BY <3>2, <3>3
  <2>4. m \in 1 .. n /\ m - 1 \in 0 .. n /\ m - 1 < m BY <1>1, <2>3
  <2>5. Good(m - 1) BY <2>2, <2>4
  <2>6. upto(m) = upto(m - 1) \cup {list[m]}
    <3>1. \A j : j \in 1 .. m <=> j \in 1 .. m - 1 \/ j = m BY <2>4
    <3> QED BY <3>1
  <2>7. f[m] = IF list[m] \in S THEN Append(f[m - 1], list[m]) ELSE f[m - 1]
    BY <1>3, <2>4
  <2>8. list[m] \in T BY <1>1, <2>4
  <2>9. Good(m)
    <3>1. f[m - 1] \in Seq(T) /\ Range(f[m - 1]) = upto(m - 1) \cap S BY <2>5
    <3> HIDE DEF upto
    <3>2. CASE list[m] \in S
      <4>1. f[m] = Append(f[m - 1], list[m]) BY <2>7, <3>2
      <4>2. f[m] \in Seq(T) /\ Range(f[m]) = Range(f[m - 1]) \cup {list[m]}
        BY <4>1, <3>1, <2>8, AppendRange
      <4> QED BY <4>2, <3>1, <3>2, <2>6
    <3>3. CASE list[m] \notin S BY <3>3, <3>1, <2>6, <2>7
    <3> QED BY <3>2, <3>3
  <2> QED BY <2>9, <2>2
<1>5. Good(n)
  <2>1. n \in 0 .. n BY <1>1
  <2> HIDE DEF Good
  <2> QED BY <2>1, <1>4
<1>6. upto(n) = Range(list) BY <1>1 DEF Range
<1> QED BY <1>2, <1>5, <1>6


LEMMA ReverseElements ==
  ASSUME NEW T, NEW list \in Seq(T)
  PROVE  /\ Reverse(list) \in Seq(T)
         /\ Range(Reverse(list)) = Range(list)
<1> DEFINE n == Len(list)
           back == Reverse(list)
<1>1. n \in Nat /\ DOMAIN list = 1 .. n /\ \A i \in 1 .. n : list[i] \in T OBVIOUS
<1>2. back = [i \in 1 .. n |-> list[(n - i) + 1]] BY DEF Reverse
<1> HIDE DEF back
<1>3. \A i \in 1 .. n : (n - i) + 1 \in 1 .. n /\ (n - ((n - i) + 1)) + 1 = i BY <1>1
<1>4. back \in Seq(T)
  <2>1. back \in [1 .. n -> T] BY <1>1, <1>2, <1>3
  <2> QED BY <1>1, <2>1
<1>5. DOMAIN back = 1 .. n /\ \A i \in 1 .. n : back[i] = list[(n - i) + 1] BY <1>2
<1> HIDE DEF n
<1>6. ASSUME NEW x \in Range(back) PROVE x \in Range(list)
  <2>1. PICK i \in 1 .. n : x = back[i] BY <1>5, <1>6 DEF Range
  <2>2. (n - i) + 1 \in DOMAIN list /\ x = list[(n - i) + 1] BY <1>1, <1>3, <1>5, <2>1
  <2> QED BY <2>2 DEF Range
<1>7. ASSUME NEW x \in Range(list) PROVE x \in Range(back)
  <2>1. PICK i \in 1 .. n : x = list[i] BY <1>1, <1>7 DEF Range
  <2> DEFINE j == (n - i) + 1
  <2>2. j \in 1 .. n /\ (n - j) + 1 = i BY <1>3
  <2> HIDE DEF j
  <2>3. back[j] = x BY <1>5, <2>1, <2>2
  <2> QED BY <1>5, <2>2, <2>3 DEF Range
<1> QED BY <1>4, <1>6, <1>7 DEF back

LEMMA ConcatElements ==
  ASSUME NEW T, NEW a \in Seq(T), NEW b \in Seq(T)
  PROVE  /\ a \o b \in Seq(T)
         /\ Range(a \o b) = Range(a) \cup Range(b)
<1> DEFINE ab == a \o b
<1>1. /\ ab \in Seq(T) /\ Len(a) \in Nat /\ Len(b) \in Nat
      /\ DOMAIN a = 1 .. Len(a) /\ DOMAIN b = 1 .. Len(b) /\ DOMAIN ab = 1 .. Len(a) + Len(b)
      /\ \A i \in 1 .. Len(a) : ab[i] = a[i]
      /\ \A i \in Len(a) + 1 .. Len(a) + Len(b) : ab[i] = b[i - Len(a)]
  OBVIOUS
<1> HIDE DEF ab
<1>2. ASSUME NEW x \in Range(ab) PROVE x \in Range(a) \cup Range(b)
  <2>1. PICK i \in DOMAIN ab : x = ab[i] BY <1>2 DEF Range
  <2>2. CASE i \in 1 .. Len(a) BY <1>1, <2>1, <2>2 DEF Range
  <2>3. CASE i \notin 1 .. Len(a)
    <3>1. i \in Len(a) + 1 .. Len(a) + Len(b) /\ i - Len(a) \in DOMAIN b BY <1>1, <2>3
    <3> QED BY <1>1, <2>1, <3>1 DEF Range
  <2> QED BY <2>2, <2>3
<1>3. ASSUME NEW x \in Range(a) PROVE x \in Range(ab)
  <2>1. PICK i \in DOMAIN a : x = a[i] BY <1>3 DEF Range
  <2>2. i \in DOMAIN ab /\ ab[i] = x BY <1>1, <2>1
  <2> QED BY <2>2 DEF Range
<1>4. ASSUME NEW x \in Range(b) PROVE x \in Range(ab)
  <2>1. PICK i \in DOMAIN b : x = b[i] BY <1>4 DEF Range
  <2> DEFINE j == i + Len(a)
  <2>2. j \in DOMAIN ab /\ j \in Len(a) + 1 .. Len(a) + Len(b) /\ j - Len(a) = i BY <1>1
  <2> HIDE DEF j
  <2>3. ab[j] = x BY <1>1, <2>1, <2>2
  <2> QED BY <2>2, <2>3 DEF Range
<1> QED BY <1>1, <1>2, <1>3, <1>4 DEF ab

LEMMA SetToSeqElements ==
  ASSUME NEW S, IsFiniteSet(S)
  PROVE  SetToSeq(S) \in Seq(S) /\ Range(SetToSeq(S)) = S
<1> DEFINE n == Cardinality(S)
           f == SetToSeq(S)
<1>1. n \in Nat /\ ExistsBijection(1 .. n, S) BY FS_CardinalityType
<1>2. \E g \in [1 .. n -> S] : IsInjective(g)
  BY <1>1 DEF ExistsBijection, Bijection, Injection
<1>3. f \in [1 .. n -> S] /\ IsInjective(f) BY <1>2 DEF SetToSeq
<1> HIDE DEF f
<1>4. f \in Injection(1 .. n, S) BY <1>3 DEF Injection
<1>5. f \in Surjection(1 .. n, S)
  <2>1. IsFiniteSet(1 .. n) /\ Cardinality(1 .. n) = n BY <1>1, FS_Interval
  <2> QED BY <1>4, <2>1, FS_Injection
<1>6. Range(f) = S
  <2>1. \A x \in S : \E i \in 1 .. n : f[i] = x BY <1>5 DEF Surjection
  <2> QED BY <1>3, <2>1 DEF Range
<1>7. f \in Seq(S) BY <1>1, <1>3
<1> QED BY <1>6, <1>7 DEF f


LEMMA WithoutElements ==
  ASSUME NEW T, NEW list \in Seq(T), NEW w
  PROVE  /\ Without(list, w) \in Seq(T)
         /\ Range(Without(list, w)) = Range(list) \ {w}
<1>1. Without(list, w) = Within(list, {v \in Range(list) : v # w}) BY DEF Without, Only
<1> QED BY <1>1, WithinElements

LEMMA ToLastElements ==
  ASSUME NEW T, NEW list \in Seq(T), NEW w \in Range(list)
  PROVE  ToLast(list, w) \in Seq(T) /\ Range(ToLast(list, w)) = Range(list)
<1> DEFINE left == Without(list, w)
<1>1. w \in T BY DEF Range
<1>2. left \in Seq(T) /\ Range(left) = Range(list) \ {w} BY WithoutElements
<1>3. ToLast(list, w) = Append(left, w) BY DEF ToLast
<1> HIDE DEF left
<1>4. Append(left, w) \in Seq(T) /\ Range(Append(left, w)) = Range(left) \cup {w}
  BY <1>1, <1>2, AppendRange
<1> QED BY <1>2, <1>3, <1>4

-----------------------------------------------------------------------------
(* The runtime's lists: every window in them is of the kind they are for.  *)
(* A main window that was demoted is among the ordinary ones.              *)

OfKind(k) == {w \in Window : KindOf[w] = k}

ListFields == {"main", "overlay", "root", "dialogs", "popups", "ordinary"}

Listed(s) ==
  /\ ListFields \subseteq DOMAIN s
  /\ s.main \in OfKind("main") \cup {NoWin}
  /\ s.overlay \in OfKind("overlay") \cup {NoWin}
  /\ DOMAIN s.root = Pane
  /\ \A p \in Pane : s.root[p] # NoWin => s.root[p] \in OfKind("root") /\ PaneOf[s.root[p]] = p
  /\ s.dialogs \in Seq(OfKind("dialog"))
  /\ s.popups \in Seq(OfKind("popup"))
  /\ s.ordinary \in Seq(OfKind("ordinary") \cup OfKind("main"))

\* A popup is listed while the window it belongs to was: its pane is one that
\* had a window, and so has a dialog's
PanesOf(s) ==
  {p \in Pane : s.root[p] # NoWin} \cup {Owner(w) : w \in Range(s.dialogs) \cup Range(s.popups)}

SameLists(s, t) ==
  /\ ListFields \subseteq DOMAIN t
  /\ t.main = s.main /\ t.overlay = s.overlay /\ t.root = s.root
  /\ t.dialogs = s.dialogs /\ t.popups = s.popups /\ t.ordinary = s.ordinary

LEMMA SameListsListed ==
  ASSUME NEW s, NEW t, Listed(s), SameLists(s, t)
  PROVE  Listed(t) /\ PanesOf(t) = PanesOf(s)
<1>1. Listed(t)
  <2>1. DOMAIN t.root = Pane
        /\ \A p \in Pane : t.root[p] # NoWin => t.root[p] \in OfKind("root") /\ PaneOf[t.root[p]] = p
    BY DEF Listed, SameLists
  <2> QED BY <2>1 DEF Listed, SameLists
<1>2. PanesOf(t) = PanesOf(s) BY DEF SameLists, PanesOf
<1> QED BY <1>1, <1>2

LEMMA RoutedLists ==
  ASSUME NEW s, NEW t, Listed(s), Routed(s, t)
  PROVE  SameLists(s, t)
BY DEF Listed, Routed, RoutedFields, SameLists, ListFields


\* A popup has the pane of the window it belongs to
LEMMA PopupOwner ==
  ASSUME Listed(h), NEW w \in OfKind("popup"), Owner(w) \in Pane,
         ParentOf[w] \in {h.main, h.overlay} \cup Range(h.root) \cup Range(h.dialogs)
  PROVE  Owner(w) \in PanesOf(h)
<1> DEFINE k == ParentOf[w]
<1>1. k \in Window /\ KindOf[k] \notin {"popup", "ordinary"} /\ KindOf[w] = "popup"
  BY FocusAssumption DEF OfKind
<1>2. KindOf[k] \in {"main", "overlay", "root", "dialog"} BY <1>1, FocusAssumption
<1>3. Owner(w) = IF KindOf[k] \in {"root", "dialog"} THEN PaneOf[k] ELSE KindOf[k] BY <1>1 DEF Owner
<1>4. KindOf[k] \in {"root", "dialog"} /\ Owner(w) = PaneOf[k]
  BY <1>2, <1>3, PresentationAssumption
<1>5. k \in Range(h.root) \cup Range(h.dialogs)
  <2>1. k # h.main /\ k # h.overlay
    BY <1>1, <1>4, PresentationAssumption DEF Listed, OfKind
  <2> QED BY <2>1
<1>6. CASE k \in Range(h.root)
  <2>1. PICK p \in Pane : k = h.root[p] BY <1>6 DEF Range, Listed
  <2>2. h.root[p] # NoWin BY <1>1, <2>1, PresentationAssumption
  <2>3. PaneOf[k] = p BY <2>1, <2>2 DEF Listed
  <2> QED BY <1>4, <2>2, <2>3 DEF PanesOf
<1>7. CASE k \in Range(h.dialogs)
  <2>1. k \in OfKind("dialog") BY <1>7 DEF Listed, Range
  <2>2. Owner(k) = PaneOf[k] BY <2>1 DEF OfKind, Owner
  <2> QED BY <1>4, <1>7, <2>2 DEF PanesOf
<1> QED BY <1>5, <1>6, <1>7


\* The steps of a handler: only the popups of a window that went are dropped
LEMMA StepLists ==
  ASSUME Listed(h), Step
  PROVE  Listed(h') /\ PanesOf(h') \subseteq PanesOf(h)
<1>1. CASE StepDropPopups
  <2> DEFINE q == Only(h.popups, LAMBDA v : ParentOf[v] # Head(todo).win)
  <2>1. h' = [h EXCEPT !.popups = q] BY <1>1 DEF StepDropPopups
  <2>3. q \in Seq(OfKind("popup")) /\ Range(q) \subseteq Range(h.popups)
    <3> DEFINE S == {v \in Range(h.popups) : ParentOf[v] # Head(todo).win}
    <3>1. q = Within(h.popups, S) BY DEF Only
    <3>2. h.popups \in Seq(OfKind("popup")) BY DEF Listed
    <3> HIDE DEF S, q
    <3>3. q \in Seq(OfKind("popup")) /\ Range(q) = Range(h.popups) \cap S
      BY <3>1, <3>2, WithinElements
    <3> QED BY <3>3
  <2> HIDE DEF q
  <2>4. /\ DOMAIN h' = DOMAIN h /\ h'.popups = q
        /\ h'.main = h.main /\ h'.overlay = h.overlay /\ h'.root = h.root
        /\ h'.dialogs = h.dialogs /\ h'.ordinary = h.ordinary
    BY <2>1 DEF Listed, ListFields
  <2>5. Listed(h') BY <2>3, <2>4 DEF Listed
  <2>6. PanesOf(h') \subseteq PanesOf(h) BY <2>3, <2>4 DEF PanesOf
  <2> QED BY <2>5, <2>6
<1>2. CASE ~StepDropPopups
  <2>1. Routed(h, h) BY DEF Routed
  <2>2. Routed(h, h')
    <3>1. CASE StepRoute BY <3>1, RouteFocusRouted DEF StepRoute
    <3>2. CASE StepNote BY <3>2, NotedRouted DEF StepNote
    <3>3. CASE StepFocus BY <3>3, KeyboardRouted DEF StepFocus
    <3>4. CASE StepFallback
      <4>1. h' = h \/ \E p : h' = PaneFocus(h, p).h BY <3>4 DEF StepFallback
      <4> QED BY <4>1, <2>1, PaneFocusRouted
    <3>5. CASE StepTold \/ StepWrite \/ StepSync \/ StepGroup \/ StepMapped \/ StepStatus \/ StepBridge
               \/ StepKey \/ StepToggle
      <4>1. h' = h
        BY <3>5 DEF StepTold, StepWrite, StepSync, StepGroup, StepMapped, StepStatus, StepBridge,
                    StepKey, StepToggle, outside
      <4> QED BY <4>1, <2>1
    <3> QED BY <1>2, <3>1, <3>2, <3>3, <3>4, <3>5 DEF Step
  <2> QED BY <2>2, RoutedLists, SameListsListed
<1> QED BY <1>1, <1>2

\* A window comes: the list it is put in is the one of its kind, and its pane
\* is shown or has a window already
LEMMA AppearsListed ==
  ASSUME Listed(h), NEW w \in Window,
         \/ MainAppears(w) \/ OverlayAppears(w) \/ RootAppears(w) \/ DialogAppears(w)
         \/ OrdinaryAppears(w) \/ PopupAppears(w)
  PROVE  /\ Listed(h')
         /\ \A p \in PanesOf(h') \cap Pane : p \in PanesOf(h) \/ Shows(c, p)
<1>0. ListFields \subseteq DOMAIN h BY DEF Listed
<1>1. CASE MainAppears(w)
  <2>1. h' = [h EXCEPT !.main = w] /\ w \in OfKind("main") BY <1>1 DEF MainAppears, OfKind
  <2>2. /\ DOMAIN h' = DOMAIN h /\ h'.main = w
        /\ h'.overlay = h.overlay /\ h'.root = h.root /\ h'.dialogs = h.dialogs
        /\ h'.popups = h.popups /\ h'.ordinary = h.ordinary
    BY <1>0, <2>1 DEF ListFields
  <2> QED BY <2>1, <2>2 DEF Listed, PanesOf
<1>2. CASE OverlayAppears(w)
  <2>1. h' = [h EXCEPT !.overlay = w] /\ w \in OfKind("overlay") BY <1>2 DEF OverlayAppears, OfKind
  <2>2. /\ DOMAIN h' = DOMAIN h /\ h'.overlay = w
        /\ h'.main = h.main /\ h'.root = h.root /\ h'.dialogs = h.dialogs
        /\ h'.popups = h.popups /\ h'.ordinary = h.ordinary
    BY <1>0, <2>1 DEF ListFields
  <2> QED BY <2>1, <2>2 DEF Listed, PanesOf
<1>3. CASE RootAppears(w)
  <2> DEFINE p == PaneOf[w]
  <2>1. /\ h' = [h EXCEPT !.root[p] = w] /\ w \in OfKind("root") /\ p \in Pane /\ Shows(c, p)
    BY <1>3, FocusAssumption DEF RootAppears, OfKind, Running
  <2> HIDE DEF p
  <2>2. /\ DOMAIN h' = DOMAIN h /\ h'.root = [h.root EXCEPT ![p] = w]
        /\ h'.main = h.main /\ h'.overlay = h.overlay /\ h'.dialogs = h.dialogs
        /\ h'.popups = h.popups /\ h'.ordinary = h.ordinary
    BY <1>0, <2>1 DEF ListFields
  <2>3. DOMAIN h.root = Pane
        /\ \A r \in Pane : h.root[r] # NoWin => h.root[r] \in OfKind("root") /\ PaneOf[h.root[r]] = r
    BY DEF Listed
  <2>4. DOMAIN h'.root = Pane /\ \A r \in Pane : h'.root[r] = IF r = p THEN w ELSE h.root[r]
    BY <2>2, <2>3
  <2>5. Listed(h')
    <3>1. \A r \in Pane : h'.root[r] # NoWin => h'.root[r] \in OfKind("root") /\ PaneOf[h'.root[r]] = r
      BY <2>1, <2>3, <2>4 DEF p
    <3> QED BY <2>2, <2>4, <3>1 DEF Listed
  <2>6. \A r \in PanesOf(h') \cap Pane : r \in PanesOf(h) \/ r = p BY <2>2, <2>4 DEF PanesOf
  <2> QED BY <2>1, <2>5, <2>6
<1>4. CASE DialogAppears(w)
  <2>1. h' = [h EXCEPT !.dialogs = Append(@, w)] /\ w \in OfKind("dialog") /\ Shows(c, PaneOf[w])
    BY <1>4 DEF DialogAppears, OfKind
  <2>2. /\ DOMAIN h' = DOMAIN h /\ h'.dialogs = Append(h.dialogs, w)
        /\ h'.main = h.main /\ h'.overlay = h.overlay /\ h'.root = h.root
        /\ h'.popups = h.popups /\ h'.ordinary = h.ordinary
    BY <1>0, <2>1 DEF ListFields
  <2>3. h'.dialogs \in Seq(OfKind("dialog")) /\ Range(h'.dialogs) = Range(h.dialogs) \cup {w}
    BY <2>1, <2>2, AppendRange DEF Listed
  <2>4. Owner(w) = PaneOf[w] BY <2>1 DEF OfKind, Owner
  <2>5. Listed(h') BY <2>2, <2>3 DEF Listed
  <2>6. \A r \in PanesOf(h') : r \in PanesOf(h) \/ r = Owner(w) BY <2>2, <2>3 DEF PanesOf
  <2> QED BY <2>1, <2>4, <2>5, <2>6
<1>5. CASE OrdinaryAppears(w)
  <2>1. h' = [h EXCEPT !.ordinary = Append(@, w)] /\ w \in OfKind("ordinary") \cup OfKind("main")
    BY <1>5 DEF OrdinaryAppears, OfKind
  <2>2. /\ DOMAIN h' = DOMAIN h /\ h'.ordinary = Append(h.ordinary, w)
        /\ h'.main = h.main /\ h'.overlay = h.overlay /\ h'.root = h.root
        /\ h'.popups = h.popups /\ h'.dialogs = h.dialogs
    BY <1>0, <2>1 DEF ListFields
  <2>3. h'.ordinary \in Seq(OfKind("ordinary") \cup OfKind("main")) BY <2>1, <2>2, AppendRange DEF Listed
  <2> QED BY <2>2, <2>3 DEF Listed, PanesOf
<1>6. CASE PopupAppears(w)
  <2>1. /\ h' = [h EXCEPT !.popups = Append(@, w)] /\ w \in OfKind("popup")
        /\ ParentOf[w] \in {h.main, h.overlay} \cup Range(h.root) \cup Range(h.dialogs)
    BY <1>6 DEF PopupAppears, OfKind
  <2>2. /\ DOMAIN h' = DOMAIN h /\ h'.popups = Append(h.popups, w)
        /\ h'.main = h.main /\ h'.overlay = h.overlay /\ h'.root = h.root
        /\ h'.dialogs = h.dialogs /\ h'.ordinary = h.ordinary
    BY <1>0, <2>1 DEF ListFields
  <2>3. h'.popups \in Seq(OfKind("popup")) /\ Range(h'.popups) = Range(h.popups) \cup {w}
    BY <2>1, <2>2, AppendRange DEF Listed
  <2>4. Listed(h') BY <2>2, <2>3 DEF Listed
  <2>5. Owner(w) \in Pane => Owner(w) \in PanesOf(h) BY <2>1, PopupOwner
  <2>6. \A r \in PanesOf(h') : r \in PanesOf(h) \/ r = Owner(w) BY <2>2, <2>3 DEF PanesOf
  <2> QED BY <2>4, <2>5, <2>6
<1> QED BY <1>1, <1>2, <1>3, <1>4, <1>5, <1>6


\* A window is mapped, unmapped or goes: nothing comes into the lists
LEMMA LeavesListed ==
  ASSUME Listed(h), NEW w \in Window,
         \/ Map(w) \/ Unmap(w) \/ TopDestroyed(w) \/ RootDestroyed(w) \/ DialogDestroyed(w)
         \/ PopupDestroyed(w) \/ OtherDestroyed(w)
  PROVE  Listed(h') /\ PanesOf(h') \subseteq PanesOf(h)
<1>0. ListFields \subseteq DOMAIN h BY DEF Listed
<1>1. CASE Map(w)
  <2> DEFINE d == IF w \in Range(h.dialogs) THEN ToLast(h.dialogs, w) ELSE h.dialogs
             q == IF Owner(w) \in Pane /\ w \in Range(h.popups) THEN ToLast(h.popups, w) ELSE h.popups
  <2>1. \E m : h' = [h EXCEPT !.mapped = m, !.dialogs = d, !.popups = q] BY <1>1, Zenon DEF Map
  <2>2. d \in Seq(OfKind("dialog")) /\ Range(d) = Range(h.dialogs) BY ToLastElements DEF Listed
  <2>3. q \in Seq(OfKind("popup")) /\ Range(q) = Range(h.popups) BY ToLastElements DEF Listed
  <2> HIDE DEF d, q
  <2>4. /\ DOMAIN h' = DOMAIN h /\ h'.dialogs = d /\ h'.popups = q
        /\ h'.main = h.main /\ h'.overlay = h.overlay /\ h'.root = h.root /\ h'.ordinary = h.ordinary
    BY <1>0, <2>1 DEF ListFields
  <2>5. Listed(h') BY <2>2, <2>3, <2>4 DEF Listed
  <2>6. PanesOf(h') \subseteq PanesOf(h) BY <2>2, <2>3, <2>4 DEF PanesOf
  <2> QED BY <2>5, <2>6
<1>2. CASE Unmap(w) \/ OtherDestroyed(w)
  <2>1. \E m : h' = [h EXCEPT !.mapped = m] BY <1>2 DEF Unmap, OtherDestroyed
  <2>2. SameLists(h, h') BY <1>0, <2>1 DEF SameLists, ListFields
  <2> QED BY <2>2, SameListsListed
<1>3. CASE TopDestroyed(w)
  <2> DEFINE o == Without(h.ordinary, w)
             main == IF h.main = w THEN NoWin ELSE h.main
             overlay == IF h.overlay = w THEN NoWin ELSE h.overlay
  <2>1. h' = [h EXCEPT !.main = main, !.overlay = overlay, !.ordinary = o]
    BY <1>3, Zenon DEF TopDestroyed
  <2>2. o \in Seq(OfKind("ordinary") \cup OfKind("main")) BY WithoutElements DEF Listed
  <2>3. main \in OfKind("main") \cup {NoWin} /\ overlay \in OfKind("overlay") \cup {NoWin}
    BY DEF Listed
  <2> HIDE DEF o, main, overlay
  <2>4. /\ DOMAIN h' = DOMAIN h /\ h'.main = main /\ h'.overlay = overlay /\ h'.ordinary = o
        /\ h'.root = h.root /\ h'.dialogs = h.dialogs /\ h'.popups = h.popups
    BY <1>0, <2>1 DEF ListFields
  <2>5. Listed(h') BY <2>2, <2>3, <2>4 DEF Listed
  <2>6. PanesOf(h') \subseteq PanesOf(h) BY <2>4 DEF PanesOf
  <2> QED BY <2>5, <2>6
<1>4. CASE RootDestroyed(w)
  <2> DEFINE p == PaneOf[w]
             s == CancelGrab(h, p)
             d == Only(s.dialogs, LAMBDA v : PaneOf[v] # p)
  <2>1. \E x, y : h' = [s EXCEPT !.root[p] = NoWin, !.focused[p] = x, !.history[p] = y, !.dialogs = d]
    BY <1>4, Zenon DEF RootDestroyed
  <2>2. SameLists(h, s)
    BY <1>0 DEF CancelGrab, SameLists, ListFields
  <2> HIDE DEF s
  <2>3. Listed(s) /\ PanesOf(s) = PanesOf(h) BY <2>2, SameListsListed
  <2>4. d \in Seq(OfKind("dialog")) /\ Range(d) \subseteq Range(s.dialogs)
    <3> DEFINE S == {v \in Range(s.dialogs) : PaneOf[v] # p}
    <3>1. d = Within(s.dialogs, S) BY DEF Only
    <3>2. s.dialogs \in Seq(OfKind("dialog")) BY <2>3 DEF Listed
    <3> HIDE DEF S, d
    <3>3. d \in Seq(OfKind("dialog")) /\ Range(d) = Range(s.dialogs) \cap S
      BY <3>1, <3>2, WithinElements
    <3> QED BY <3>3
  <2> HIDE DEF d, p
  <2>5. /\ h'.root = [s.root EXCEPT ![p] = NoWin] /\ h'.dialogs = d
        /\ DOMAIN h' = DOMAIN s /\ h'.main = s.main /\ h'.overlay = s.overlay
        /\ h'.popups = s.popups /\ h'.ordinary = s.ordinary
    BY <2>1, <2>2 DEF SameLists, ListFields
  <2>6. DOMAIN h'.root = Pane /\ \A r \in Pane : h'.root[r] \in {s.root[r], NoWin}
    BY <2>3, <2>5 DEF Listed
  <2>7. Listed(h') BY <2>3, <2>4, <2>5, <2>6 DEF Listed
  <2>8. PanesOf(h') \subseteq PanesOf(s) BY <2>4, <2>5, <2>6 DEF PanesOf
  <2> QED BY <2>3, <2>7, <2>8
<1>5. CASE DialogDestroyed(w)
  <2> DEFINE d == Without(h.dialogs, w)
  <2>1. \E m, x, y : h' = [[h EXCEPT !.dialogs = d, !.mapped = m]
                             EXCEPT !.history[PaneOf[w]] = x, !.focused[PaneOf[w]] = y]
    BY <1>5, Zenon DEF DialogDestroyed, Unlisted
  <2>2. d \in Seq(OfKind("dialog")) /\ Range(d) \subseteq Range(h.dialogs)
    BY WithoutElements DEF Listed
  <2> HIDE DEF d
  <2>3. /\ DOMAIN h' = DOMAIN h /\ h'.dialogs = d
        /\ h'.main = h.main /\ h'.overlay = h.overlay /\ h'.root = h.root
        /\ h'.popups = h.popups /\ h'.ordinary = h.ordinary
    BY <1>0, <2>1 DEF ListFields
  <2>4. Listed(h') BY <2>2, <2>3 DEF Listed
  <2>5. PanesOf(h') \subseteq PanesOf(h) BY <2>2, <2>3 DEF PanesOf
  <2> QED BY <2>4, <2>5
<1>6. CASE PopupDestroyed(w)
  <2> DEFINE q == Without(h.popups, w)
             s == [h EXCEPT !.popups = q, !.mapped = @ \ {w}]
  <2>1. h' = s \/ \E x, y : h' = [s EXCEPT !.history[Owner(w)] = x, !.focused[Owner(w)] = y]
    BY <1>6, Zenon DEF PopupDestroyed, Unlisted
  <2>2. q \in Seq(OfKind("popup")) /\ Range(q) \subseteq Range(h.popups)
    BY WithoutElements DEF Listed
  <2> HIDE DEF q
  <2>3. /\ DOMAIN s = DOMAIN h /\ s.popups = q
        /\ s.main = h.main /\ s.overlay = h.overlay /\ s.root = h.root
        /\ s.dialogs = h.dialogs /\ s.ordinary = h.ordinary
    BY <1>0 DEF ListFields
  <2> HIDE DEF s
  <2>4. Listed(s) BY <2>2, <2>3 DEF Listed
  <2>5. PanesOf(s) \subseteq PanesOf(h) BY <2>2, <2>3 DEF PanesOf
  <2>6. Routed(s, h') BY <2>1, <2>4 DEF Routed, RoutedFields
  <2> QED BY <2>4, <2>5, <2>6, RoutedLists, SameListsListed
<1> QED BY <1>1, <1>2, <1>3, <1>4, <1>5, <1>6

\* The main window that is demoted becomes an ordinary one
LEMMA DemotedListed ==
  ASSUME Listed(h), MainDemoted
  PROVE  Listed(h') /\ PanesOf(h') = PanesOf(h)
<1>1. /\ h' = [h EXCEPT !.main = NoWin, !.ordinary = Append(@, h.main)]
      /\ h.main \in OfKind("main")
  BY PresentationAssumption DEF MainDemoted, Alive, Listed
<1>2. /\ DOMAIN h' = DOMAIN h /\ h'.main = NoWin /\ h'.ordinary = Append(h.ordinary, h.main)
      /\ h'.overlay = h.overlay /\ h'.root = h.root
      /\ h'.popups = h.popups /\ h'.dialogs = h.dialogs
  BY <1>1 DEF Listed, ListFields
<1>3. h'.ordinary \in Seq(OfKind("ordinary") \cup OfKind("main"))
  BY <1>1, <1>2, AppendRange DEF Listed
<1>4. Listed(h') BY <1>2, <1>3 DEF Listed
<1>5. PanesOf(h') = PanesOf(h) BY <1>2 DEF PanesOf
<1> QED BY <1>4, <1>5

\* Neither the pointer nor a key nor a control thread touches the lists
LEMMA InputLists ==
  ASSUME Listed(h),
         \/ Input \/ ControlAsks \/ ControlToggles \/ ShellEnds \/ ControlChanges \/ UNCHANGED vars
  PROVE  Listed(h') /\ PanesOf(h') = PanesOf(h)
<1>0. ListFields \subseteq DOMAIN h BY DEF Listed
<1>1. CASE ControlAsks \/ ControlToggles \/ ShellEnds \/ ControlChanges \/ UNCHANGED vars \/ PressKey
  <2>1. h' = h
    BY <1>1, Zenon DEF ControlAsks, ControlToggles, ShellEnds, ControlChanges, PressKey, runtime, vars
  <2> QED BY <2>1
<1>2. CASE \E w : Motion(w)
  <2>1. \E x : h' = [h EXCEPT !.under = x] BY <1>2 DEF Motion
  <2>2. SameLists(h, h') BY <1>0, <2>1 DEF SameLists, ListFields
  <2> QED BY <2>2, SameListsListed
<1>3. ASSUME NEW w, NEW b, Press(b, w) PROVE Listed(h') /\ PanesOf(h') = PanesOf(h)
  <2> DEFINE down == IF Holds THEN [h EXCEPT !.down = @ \cup {b}, !.pressed = @ \cup {b}] ELSE h
  <2>1. \/ h' = down
        \/ \E x : h' = [down EXCEPT !.ordFocus = x]
        \/ \E x : h' = [down EXCEPT !.under = w, !.grabbed = TRUE, !.grab = w, !.ordFocus = x]
    BY <1>3, Zenon DEF Press
  <2>2. SameLists(h, down) BY <1>0 DEF SameLists, ListFields
  <2> HIDE DEF down
  <2>3. Listed(down) /\ PanesOf(down) = PanesOf(h) BY <2>2, SameListsListed
  <2>4. SameLists(down, h') BY <2>1, <2>2 DEF SameLists, ListFields
  <2> QED BY <2>3, <2>4, SameListsListed
<1>4. ASSUME NEW b, ReleaseButton(b) PROVE Listed(h') /\ PanesOf(h') = PanesOf(h)
  <2> DEFINE s == [h EXCEPT !.down = @ \ {b}, !.pressed = @ \ {b}]
  <2>1. \/ h' = s
        \/ \E x : h' = [s EXCEPT !.canceled = x]
        \/ h' = [s EXCEPT !.grabbed = FALSE, !.grab = NoWin]
    BY <1>4, Zenon DEF ReleaseButton
  <2>2. SameLists(h, s) BY <1>0 DEF SameLists, ListFields
  <2> HIDE DEF s
  <2>3. Listed(s) /\ PanesOf(s) = PanesOf(h) BY <2>2, SameListsListed
  <2>4. SameLists(s, h') BY <2>1, <2>2 DEF SameLists, ListFields
  <2> QED BY <2>3, <2>4, SameListsListed
<1> QED BY <1>1, <1>2, <1>3, <1>4 DEF Input

LEMMA ListedStep ==
  ASSUME Listed(h), [Next]_vars
  PROVE  /\ Listed(h')
         /\ \A p \in PanesOf(h') \cap Pane : p \in PanesOf(h) \/ (Shows(c, p) /\ c' = c)
<1>1. CASE Step BY <1>1, StepLists
<1>2. CASE WindowEvents
  <2>1. PICK w \in Window :
          \/ MainAppears(w) \/ OverlayAppears(w) \/ RootAppears(w) \/ DialogAppears(w)
          \/ OrdinaryAppears(w) \/ PopupAppears(w) \/ Map(w) \/ Unmap(w)
          \/ TopDestroyed(w) \/ RootDestroyed(w) \/ DialogDestroyed(w) \/ PopupDestroyed(w)
          \/ OtherDestroyed(w)
    BY <1>2 DEF WindowEvents
  <2>2. c' = c
    BY <2>1, Zenon
       DEF MainAppears, OverlayAppears, RootAppears, DialogAppears, OrdinaryAppears, PopupAppears, Map,
           Unmap, TopDestroyed, RootDestroyed, DialogDestroyed, PopupDestroyed, OtherDestroyed
  <2>3. CASE \/ MainAppears(w) \/ OverlayAppears(w) \/ RootAppears(w) \/ DialogAppears(w)
             \/ OrdinaryAppears(w) \/ PopupAppears(w)
    BY <2>2, <2>3, AppearsListed
  <2>4. CASE \/ Map(w) \/ Unmap(w) \/ TopDestroyed(w) \/ RootDestroyed(w) \/ DialogDestroyed(w)
             \/ PopupDestroyed(w) \/ OtherDestroyed(w)
    BY <2>4, LeavesListed
  <2> QED BY <2>1, <2>3, <2>4
<1>3. CASE MainDemoted BY <1>3, DemotedListed
<1>4. CASE \/ Input \/ ControlAsks \/ ControlToggles \/ ShellEnds \/ ControlChanges \/ UNCHANGED vars
  BY <1>4, InputLists
<1> QED BY <1>1, <1>2, <1>3, <1>4 DEF Next

-----------------------------------------------------------------------------
(* Input follows paint.  Apart from what belongs to the main app, each     *)
(* class of windows has a rank, and both orders go through the ranks from  *)
(* the top down: a Slab is a list that does, between two ranks.            *)

Counted(w) == Owner(w) # "main"

Rank(w) ==
  CASE KindOf[w] = "popup" -> IF Owner(w) \in Pane THEN 1 ELSE 3
    [] KindOf[w] = "dialog" -> 2
    [] KindOf[w] = "overlay" -> 4
    [] KindOf[w] = "root" -> 5
    [] KindOf[w] = "ordinary" -> 6
    [] OTHER -> 7

Slab(list, first, last) ==
  /\ list \in Seq(Window)
  /\ \A i \in DOMAIN list : Counted(list[i]) => Rank(list[i]) \in first .. last
  /\ \A i, j \in DOMAIN list :
       i < j /\ Counted(list[i]) /\ Counted(list[j]) => Rank(list[i]) <= Rank(list[j])

LEMMA RankType ==
  ASSUME NEW w
  PROVE  Rank(w) \in 1 .. 7
BY DEF Rank

\* Windows of two classes have two ranks
LEMMA RankOfClass ==
  ASSUME NEW x \in Window, NEW y \in Window, Class(x) # Class(y)
  PROVE  Rank(x) # Rank(y)
<1>1. KindOf[x] \in {"main", "overlay", "root", "dialog", "popup", "ordinary"}
      /\ KindOf[y] \in {"main", "overlay", "root", "dialog", "popup", "ordinary"}
  BY FocusAssumption
<1> QED BY <1>1 DEF Class, Rank

\* A list of one class
LEMMA SlabOfOne ==
  ASSUME NEW list \in Seq(Window), NEW k \in Nat,
         \A w \in Range(list) : Counted(w) => Rank(w) = k
  PROVE  Slab(list, k, k)
<1>1. \A i \in DOMAIN list : Counted(list[i]) => Rank(list[i]) = k BY DEF Range
<1> QED BY <1>1 DEF Slab

LEMMA SlabConcat ==
  ASSUME NEW i \in Nat, NEW j \in Nat, NEW k \in Nat, NEW l \in Nat, i <= j, j <= k, k <= l,
         NEW a, Slab(a, i, j), NEW b, Slab(b, k, l)
  PROVE  Slab(a \o b, i, l) /\ Range(a \o b) = Range(a) \cup Range(b)
<1> DEFINE ab == a \o b
<1>0. a \in Seq(Window) /\ b \in Seq(Window) BY DEF Slab
<1>1. ab \in Seq(Window) /\ Range(ab) = Range(a) \cup Range(b) BY <1>0, ConcatElements
<1>2. /\ Len(a) \in Nat /\ Len(b) \in Nat
      /\ DOMAIN a = 1 .. Len(a) /\ DOMAIN b = 1 .. Len(b) /\ DOMAIN ab = 1 .. Len(a) + Len(b)
      /\ \A m \in 1 .. Len(a) : ab[m] = a[m]
      /\ \A m \in Len(a) + 1 .. Len(a) + Len(b) : ab[m] = b[m - Len(a)]
  BY <1>0
<1> HIDE DEF ab
<1>3. \A m \in DOMAIN ab :
        \/ m \in DOMAIN a /\ ab[m] = a[m]
        \/ m > Len(a) /\ m - Len(a) \in DOMAIN b /\ ab[m] = b[m - Len(a)]
  BY <1>2
<1>4. ASSUME NEW m \in DOMAIN ab, Counted(ab[m]) PROVE Rank(ab[m]) \in i .. l
  <2>1. CASE m \in DOMAIN a /\ ab[m] = a[m]
    <3>1. Rank(a[m]) \in i .. j BY <1>4, <2>1 DEF Slab
    <3> QED BY <2>1, <3>1
  <2>2. CASE m - Len(a) \in DOMAIN b /\ ab[m] = b[m - Len(a)]
    <3>1. Rank(b[m - Len(a)]) \in k .. l BY <1>4, <2>2 DEF Slab
    <3> QED BY <2>2, <3>1
  <2> QED BY <1>3, <2>1, <2>2
<1>5. ASSUME NEW m \in DOMAIN ab, NEW n \in DOMAIN ab, m < n, Counted(ab[m]), Counted(ab[n])
      PROVE  Rank(ab[m]) <= Rank(ab[n])
  <2>0. m \in Nat /\ n \in Nat BY <1>2
  <2>1. CASE n \in DOMAIN a /\ ab[n] = a[n]
    <3>1. m \in DOMAIN a /\ ab[m] = a[m] BY <1>2, <1>5, <2>0, <2>1
    <3>2. Rank(a[m]) <= Rank(a[n]) BY <1>5, <2>1, <3>1 DEF Slab
    <3> QED BY <2>1, <3>1, <3>2
  <2>2. CASE n > Len(a) /\ n - Len(a) \in DOMAIN b /\ ab[n] = b[n - Len(a)]
    <3>0. Rank(ab[n]) \in k .. l BY <1>5, <2>2 DEF Slab
    <3>1. CASE m \in DOMAIN a /\ ab[m] = a[m]
      <4>1. Rank(a[m]) \in i .. j BY <1>5, <3>1 DEF Slab
      <4> QED BY <3>0, <3>1, <4>1
    <3>2. CASE m > Len(a) /\ m - Len(a) \in DOMAIN b /\ ab[m] = b[m - Len(a)]
      <4>1. m - Len(a) < n - Len(a) BY <1>2, <1>5, <2>0
      <4>2. Rank(b[m - Len(a)]) <= Rank(b[n - Len(a)]) BY <1>5, <2>2, <3>2, <4>1 DEF Slab
      <4> QED BY <2>2, <3>2, <4>2
    <3> QED BY <1>3, <3>1, <3>2
  <2> QED BY <1>3, <2>1, <2>2
<1>6. Slab(ab, i, l) BY <1>1, <1>4, <1>5 DEF Slab
<1> QED BY <1>1, <1>6 DEF ab

\* In a Slab, of two windows with two ranks the one of the smaller is first
LEMMA SlabBefore ==
  ASSUME NEW list, NEW i, NEW j, Slab(list, i, j), NEW x \in Range(list), NEW y \in Range(list),
         Counted(x), Counted(y), Rank(x) # Rank(y)
  PROVE  Before(list, x, y) <=> Rank(x) < Rank(y)
<1>0. DOMAIN list \subseteq Nat BY DEF Slab
<1>1. ASSUME Before(list, x, y) PROVE Rank(x) < Rank(y)
  <2>1. PICK m, n \in DOMAIN list : m < n /\ list[m] = x /\ list[n] = y BY <1>1 DEF Before
  <2>2. Rank(x) <= Rank(y) BY <2>1 DEF Slab
  <2> QED BY <2>2, RankType
<1>2. ASSUME Rank(x) < Rank(y) PROVE Before(list, x, y)
  <2>1. PICK m \in DOMAIN list : list[m] = x BY DEF Range
  <2>2. PICK n \in DOMAIN list : list[n] = y BY DEF Range
  <2>3. m # n BY <2>1, <2>2
  <2>4. ~(n < m)
    <3> SUFFICES ASSUME n < m PROVE FALSE OBVIOUS
    <3>1. Rank(y) <= Rank(x) BY <2>1, <2>2 DEF Slab
    <3> QED BY <1>2, <3>1, RankType
  <2>5. m < n BY <1>0, <2>3, <2>4
  <2> QED BY <2>1, <2>2, <2>5 DEF Before
<1> QED BY <1>1, <1>2


\* What is looked at of one list: the windows that pass, one class of them
LEMMA OnlySlab ==
  ASSUME NEW list \in Seq(Window), NEW S \in SUBSET Range(list), NEW k \in Nat,
         \A w \in S : Counted(w) => Rank(w) = k
  PROVE  /\ Slab(Within(list, S), k, k) /\ Range(Within(list, S)) = S
         /\ Slab(Reverse(Within(list, S)), k, k) /\ Range(Reverse(Within(list, S))) = S
<1> DEFINE some == Within(list, S)
<1>1. some \in Seq(Window) /\ Range(some) = S
  <2>1. some \in Seq(Window) /\ Range(some) = Range(list) \cap S BY WithinElements
  <2> HIDE DEF some
  <2> QED BY <2>1
<1> HIDE DEF some
<1>2. Reverse(some) \in Seq(Window) /\ Range(Reverse(some)) = S BY <1>1, ReverseElements
<1>3. Slab(some, k, k) BY <1>1, SlabOfOne
<1>4. Slab(Reverse(some), k, k) BY <1>2, SlabOfOne
<1> QED BY <1>1, <1>2, <1>3, <1>4 DEF some

LEMMA SingleSlab ==
  ASSUME NEW w \in Window \cup {NoWin}, NEW k \in Nat, w # NoWin /\ Counted(w) => Rank(w) = k
  PROVE  Slab(Single(w), k, k) /\ Range(Single(w)) = {w} \ {NoWin}
<1>1. CASE w = NoWin
  <2>1. Single(w) = <<>> BY <1>1 DEF Single
  <2>2. <<>> \in Seq(Window) /\ Range(<<>>) = {} BY DEF Range
  <2>3. Slab(<<>>, k, k) BY <2>2, SlabOfOne
  <2> QED BY <1>1, <2>1, <2>2, <2>3
<1>2. CASE w # NoWin
  <2>1. Single(w) = <<w>> BY <1>2 DEF Single
  <2>2. <<w>> \in Seq(Window) /\ Range(<<w>>) = {w} BY <1>2 DEF Range
  <2>3. Slab(<<w>>, k, k) BY <1>2, <2>2, SlabOfOne
  <2> QED BY <1>2, <2>1, <2>2, <2>3
<1> QED BY <1>1, <1>2

RootSet == {h.root[p] : p \in Shown(h)}

LEMMA RootsSlab ==
  ASSUME Listed(h)
  PROVE  Slab(Roots(h), 5, 5) /\ Range(Roots(h)) = RootSet
<1>1. RootSet \subseteq OfKind("root") BY DEF RootSet, Shown, Listed
<1>2. IsFiniteSet(RootSet)
  <2> DEFINE f == [p \in Shown(h) |-> h.root[p]]
  <2>1. Shown(h) \subseteq Pane BY DEF Shown
  <2>2. IsFiniteSet(Shown(h)) BY <2>1, FS_Subset, PresentationAssumption
  <2>3. f \in [Shown(h) -> RootSet] BY DEF RootSet
  <2>4. \A w \in RootSet : \E p \in Shown(h) : f[p] = w BY DEF RootSet
  <2>5. f \in Surjection(Shown(h), RootSet) BY <2>3, <2>4 DEF Surjection
  <2> QED BY <2>2, <2>5, FS_Surjection
<1>3. Roots(h) = SetToSeq(RootSet) BY DEF Roots, RootSet
<1>4. Roots(h) \in Seq(RootSet) /\ Range(Roots(h)) = RootSet BY <1>2, <1>3, SetToSeqElements
<1>5. Roots(h) \in Seq(Window) BY <1>1, <1>4 DEF OfKind
<1>6. \A w \in Range(Roots(h)) : Rank(w) = 5 BY <1>1, <1>4 DEF OfKind, Rank
<1> QED BY <1>4, <1>5, <1>6, SlabOfOne

\* The ends of both orders
LEMMA TopsSlab ==
  ASSUME Listed(h)
  PROVE  /\ Slab(Single(h.overlay), 4, 4) /\ Range(Single(h.overlay)) = {h.overlay} \ {NoWin}
         /\ Slab(Single(h.main), 7, 7) /\ Range(Single(h.main)) = {h.main} \ {NoWin}
         /\ Slab(Reverse(h.ordinary), 6, 6) /\ Range(Reverse(h.ordinary)) = Range(h.ordinary)
<1>1. /\ h.overlay # NoWin => h.overlay \in OfKind("overlay")
      /\ h.main # NoWin => h.main \in OfKind("main")
      /\ h.ordinary \in Seq(OfKind("ordinary") \cup OfKind("main"))
  BY DEF Listed
<1>2. Slab(Single(h.overlay), 4, 4) /\ Range(Single(h.overlay)) = {h.overlay} \ {NoWin}
  <2>1. h.overlay \in Window \cup {NoWin} /\ (h.overlay # NoWin => Rank(h.overlay) = 4)
    BY <1>1 DEF OfKind, Rank
  <2> QED BY <2>1, SingleSlab
<1>3. Slab(Single(h.main), 7, 7) /\ Range(Single(h.main)) = {h.main} \ {NoWin}
  <2>1. h.main \in Window \cup {NoWin} /\ (h.main # NoWin => Rank(h.main) = 7)
    BY <1>1 DEF OfKind, Rank
  <2> QED BY <2>1, SingleSlab
<1>4. Slab(Reverse(h.ordinary), 6, 6) /\ Range(Reverse(h.ordinary)) = Range(h.ordinary)
  <2> DEFINE T == OfKind("ordinary") \cup OfKind("main")
             back == Reverse(h.ordinary)
  <2>1. back \in Seq(T) /\ Range(back) = Range(h.ordinary) BY <1>1, ReverseElements
  <2>2. \A w \in T : w \in Window /\ (Counted(w) => Rank(w) = 6) BY DEF OfKind, Counted, Owner, Rank
  <2> HIDE DEF T, back
  <2>3. back \in Seq(Window) /\ Range(back) \subseteq T BY <2>1, <2>2 DEF Range
  <2>4. Slab(back, 6, 6) BY <2>2, <2>3, SlabOfOne
  <2> QED BY <2>1, <2>4 DEF back
<1> QED BY <1>2, <1>3, <1>4


LEMMA PopupOwners ==
  ASSUME NEW q \in OfKind("popup")
  PROVE  Owner(q) \in Pane \cup {"main", "overlay"}
<1> DEFINE k == ParentOf[q]
<1>1. KindOf[q] = "popup" /\ k \in Window /\ KindOf[k] \notin {"popup", "ordinary"}
  BY FocusAssumption DEF OfKind
<1>2. KindOf[k] \in {"main", "overlay", "root", "dialog"} BY <1>1, FocusAssumption
<1>3. KindOf[k] \in {"root", "dialog"} => PaneOf[k] \in Pane BY <1>1, FocusAssumption
<1> QED BY <1>1, <1>2, <1>3 DEF Owner

\* The popups and dialogs that are looked for, and those that are painted
PanePopupSet == {q \in Range(h.popups) : Owner(q) \in Pane /\ Visible(q)}
DialogSet    == {d \in Range(h.dialogs) : Visible(d) /\ Shows(c, PaneOf[d])}
PopupSet     == {q \in Range(h.popups) : Owner(q) \notin Pane /\ q \in h.mapped}
PaintedSet   == {q \in PanePopupSet : Shows(c, Owner(q))}

LEMMA ListedElements ==
  ASSUME Listed(h)
  PROVE  /\ h.popups \in Seq(Window) /\ h.dialogs \in Seq(Window)
         /\ \A q \in Range(h.popups) : q \in OfKind("popup")
         /\ \A v \in Range(h.dialogs) : v \in OfKind("dialog")
<1>1. h.popups \in Seq(OfKind("popup")) /\ h.dialogs \in Seq(OfKind("dialog")) BY DEF Listed
<1>2. OfKind("popup") \subseteq Window /\ OfKind("dialog") \subseteq Window BY DEF OfKind
<1> QED BY <1>1, <1>2 DEF Range

LEMMA HitSlab ==
  ASSUME Listed(h)
  PROVE  /\ Slab(HitOrder(h), 1, 7)
         /\ Range(HitOrder(h)) = PanePopupSet \cup DialogSet \cup PopupSet \cup ({h.overlay} \ {NoWin})
                                 \cup RootSet \cup Range(h.ordinary) \cup ({h.main} \ {NoWin})
<1> DEFINE a == Reverse(HitPanePopups(h))
           b == Reverse(HitDialogs(h))
           d == Reverse(HitOtherPopups(h))
           e == Single(h.overlay)
           f == Roots(h)
           g == Reverse(h.ordinary)
           i == Single(h.main)
<1>0. /\ h.popups \in Seq(Window) /\ h.dialogs \in Seq(Window)
      /\ \A q \in Range(h.popups) : q \in OfKind("popup")
      /\ \A v \in Range(h.dialogs) : v \in OfKind("dialog")
  BY ListedElements
<1>1. Slab(a, 1, 1) /\ Range(a) = PanePopupSet
  <2>1. a = Reverse(Within(h.popups, PanePopupSet)) BY DEF HitPanePopups, Only, PanePopupSet
  <2>2. \A w \in PanePopupSet : Rank(w) = 1 BY <1>0 DEF OfKind, PanePopupSet, Rank
  <2>3. PanePopupSet \subseteq Range(h.popups) BY DEF PanePopupSet
  <2> HIDE DEF a
  <2> QED BY <1>0, <2>1, <2>2, <2>3, OnlySlab
<1>2. Slab(b, 2, 2) /\ Range(b) = DialogSet
  <2>1. b = Reverse(Within(h.dialogs, DialogSet)) BY DEF HitDialogs, Only, DialogSet
  <2>2. \A w \in DialogSet : Rank(w) = 2 BY <1>0 DEF OfKind, DialogSet, Rank
  <2>3. DialogSet \subseteq Range(h.dialogs) BY DEF DialogSet
  <2> HIDE DEF b
  <2> QED BY <1>0, <2>1, <2>2, <2>3, OnlySlab
<1>3. Slab(d, 3, 3) /\ Range(d) = PopupSet
  <2>1. d = Reverse(Within(h.popups, PopupSet)) BY DEF HitOtherPopups, Only, PopupSet
  <2>2. \A w \in PopupSet : Rank(w) = 3 BY <1>0 DEF OfKind, PopupSet, Rank
  <2>3. PopupSet \subseteq Range(h.popups) BY DEF PopupSet
  <2> HIDE DEF d
  <2> QED BY <1>0, <2>1, <2>2, <2>3, OnlySlab
<1>4. Slab(e, 4, 4) /\ Range(e) = {h.overlay} \ {NoWin} BY TopsSlab
<1>5. Slab(f, 5, 5) /\ Range(f) = RootSet BY RootsSlab
<1>6. Slab(g, 6, 6) /\ Range(g) = Range(h.ordinary) BY TopsSlab
<1>7. Slab(i, 7, 7) /\ Range(i) = {h.main} \ {NoWin} BY TopsSlab
<1> DEFINE toB == a \o b
           toD == toB \o d
           toE == toD \o e
           toF == toE \o f
           toG == toF \o g
           toI == toG \o i
<1>8. HitOrder(h) = toI BY DEF HitOrder
<1> HIDE DEF a, b, d, e, f, g, i
<1> HIDE DEF toB, toD, toE, toF, toG, toI
<1>9. Slab(toB, 1, 2) /\ Range(toB) = Range(a) \cup Range(b)
  BY <1>1, <1>2, SlabConcat DEF toB
<1>10. Slab(toD, 1, 3) /\ Range(toD) = Range(toB) \cup Range(d)
  BY <1>9, <1>3, SlabConcat DEF toD
<1>11. Slab(toE, 1, 4) /\ Range(toE) = Range(toD) \cup Range(e)
  BY <1>10, <1>4, SlabConcat DEF toE
<1>12. Slab(toF, 1, 5) /\ Range(toF) = Range(toE) \cup Range(f)
  BY <1>11, <1>5, SlabConcat DEF toF
<1>13. Slab(toG, 1, 6) /\ Range(toG) = Range(toF) \cup Range(g)
  BY <1>12, <1>6, SlabConcat DEF toG
<1>14. Slab(toI, 1, 7) /\ Range(toI) = Range(toG) \cup Range(i)
  BY <1>13, <1>7, SlabConcat DEF toI
<1>15. Range(HitOrder(h)) = Range(a) \cup Range(b) \cup Range(d) \cup Range(e) \cup Range(f)
                            \cup Range(g) \cup Range(i)
  BY <1>8, <1>9, <1>10, <1>11, <1>12, <1>13, <1>14
<1> QED BY <1>1, <1>2, <1>3, <1>4, <1>5, <1>6, <1>7, <1>8, <1>14, <1>15

LEMMA PaintSlab ==
  ASSUME Listed(h)
  PROVE  /\ Slab(PaintOrder(h), 1, 7)
         /\ Range(PaintOrder(h)) = PaintedSet \cup DialogSet \cup PopupSet \cup ({h.overlay} \ {NoWin})
                                   \cup RootSet \cup Range(h.ordinary) \cup ({h.main} \ {NoWin})
<1> DEFINE of(k) == {q \in Range(h.popups) : Owner(q) = k /\ q \in h.mapped}
           a == PaintedPanePopups(h)
           b == PaintedDialogs(h)
           d == PaintedPopups(h, "overlay")
           e == Single(h.overlay)
           f == Roots(h)
           m == PaintedPopups(h, "main")
           g == Reverse(h.ordinary)
           i == Single(h.main)
<1>0. /\ h.popups \in Seq(Window) /\ h.dialogs \in Seq(Window)
      /\ \A q \in Range(h.popups) : q \in OfKind("popup")
      /\ \A v \in Range(h.dialogs) : v \in OfKind("dialog")
  BY ListedElements
<1>1. Slab(a, 1, 1) /\ Range(a) = PaintedSet
  <2>1. a = Within(h.popups, PaintedSet)
    <3>1. PaintedSet = {q \in Range(h.popups) : Owner(q) \in Pane /\ Visible(q) /\ Shows(c, Owner(q))}
      BY DEF PaintedSet, PanePopupSet
    <3> QED BY <3>1 DEF PaintedPanePopups, Only
  <2>2. \A w \in PaintedSet : Rank(w) = 1
    BY <1>0 DEF OfKind, PaintedSet, PanePopupSet, Rank
  <2>3. PaintedSet \subseteq Range(h.popups) BY DEF PaintedSet, PanePopupSet
  <2> HIDE DEF a
  <2> QED BY <1>0, <2>1, <2>2, <2>3, OnlySlab
<1>2. Slab(b, 2, 2) /\ Range(b) = DialogSet
  <2>1. b = Within(h.dialogs, DialogSet) BY DEF PaintedDialogs, Only, DialogSet
  <2>2. \A w \in DialogSet : Rank(w) = 2 BY <1>0 DEF OfKind, DialogSet, Rank
  <2>3. DialogSet \subseteq Range(h.dialogs) BY DEF DialogSet
  <2> HIDE DEF b
  <2> QED BY <1>0, <2>1, <2>2, <2>3, OnlySlab
<1>3. Slab(d, 3, 3) /\ Range(d) = of("overlay")
  <2>1. d = Within(h.popups, of("overlay")) BY DEF PaintedPopups, Only
  <2>2. \A w \in of("overlay") : Rank(w) = 3
    BY <1>0, PresentationAssumption DEF OfKind, Rank
  <2>3. of("overlay") \subseteq Range(h.popups) OBVIOUS
  <2> HIDE DEF d, of
  <2> QED BY <1>0, <2>1, <2>2, <2>3, OnlySlab
<1>4. Slab(m, 5, 5) /\ Range(m) = of("main")
  <2>1. m = Within(h.popups, of("main")) BY DEF PaintedPopups, Only
  <2>2. \A w \in of("main") : ~Counted(w) BY DEF Counted
  <2>3. of("main") \subseteq Range(h.popups) OBVIOUS
  <2> HIDE DEF m, of
  <2> QED BY <1>0, <2>1, <2>2, <2>3, OnlySlab
<1>5. of("overlay") \cup of("main") = PopupSet
  <2>1. \A q \in Range(h.popups) : q \in OfKind("popup") BY <1>0
  <2>2. \A q \in Range(h.popups) : Owner(q) \in {"overlay", "main"} <=> Owner(q) \notin Pane
    BY <2>1, PopupOwners, PresentationAssumption
  <2> QED BY <2>2 DEF PopupSet
<1>6. Slab(e, 4, 4) /\ Range(e) = {h.overlay} \ {NoWin} BY TopsSlab
<1>7. Slab(f, 5, 5) /\ Range(f) = RootSet BY RootsSlab
<1>8. Slab(g, 6, 6) /\ Range(g) = Range(h.ordinary) BY TopsSlab
<1>9. Slab(i, 7, 7) /\ Range(i) = {h.main} \ {NoWin} BY TopsSlab
<1> DEFINE toB == a \o b
           toD == toB \o d
           toE == toD \o e
           toF == toE \o f
           toM == toF \o m
           toG == toM \o g
           toI == toG \o i
<1>10. PaintOrder(h) = toI BY DEF PaintOrder
<1> HIDE DEF a, b, d, e, f, m, g, i, of
<1> HIDE DEF toB, toD, toE, toF, toM, toG, toI
<1>11. Slab(toB, 1, 2) /\ Range(toB) = Range(a) \cup Range(b)
  BY <1>1, <1>2, SlabConcat DEF toB
<1>12. Slab(toD, 1, 3) /\ Range(toD) = Range(toB) \cup Range(d)
  BY <1>11, <1>3, SlabConcat DEF toD
<1>13. Slab(toE, 1, 4) /\ Range(toE) = Range(toD) \cup Range(e)
  BY <1>12, <1>6, SlabConcat DEF toE
<1>14. Slab(toF, 1, 5) /\ Range(toF) = Range(toE) \cup Range(f)
  BY <1>13, <1>7, SlabConcat DEF toF
<1>15. Slab(toM, 1, 5) /\ Range(toM) = Range(toF) \cup Range(m)
  BY <1>14, <1>4, SlabConcat DEF toM
<1>16. Slab(toG, 1, 6) /\ Range(toG) = Range(toM) \cup Range(g)
  BY <1>15, <1>8, SlabConcat DEF toG
<1>17. Slab(toI, 1, 7) /\ Range(toI) = Range(toG) \cup Range(i)
  BY <1>16, <1>9, SlabConcat DEF toI
<1>18. Range(PaintOrder(h)) = Range(a) \cup Range(b) \cup Range(d) \cup Range(e) \cup Range(f)
                            \cup Range(m) \cup Range(g) \cup Range(i)
  BY <1>10, <1>11, <1>12, <1>13, <1>14, <1>15, <1>16, <1>17
<1> QED BY <1>1, <1>2, <1>3, <1>4, <1>5, <1>6, <1>7, <1>8, <1>9, <1>10, <1>17, <1>18

\* When every popup that would be found is painted, the two orders agree
LEMMA OrdersAgree ==
  ASSUME Listed(h), \A q \in PanePopupSet : Shows(c, Owner(q))
  PROVE  InputFollowsPaint
<1> DEFINE hit == HitOrder(h)
           paint == PaintOrder(h)
<1>1. Slab(hit, 1, 7) /\ Slab(paint, 1, 7) BY HitSlab, PaintSlab
<1>2. PaintedSet = PanePopupSet BY DEF PaintedSet
<1>3. Range(hit) = Range(paint) BY <1>2, HitSlab, PaintSlab
<1> HIDE DEF hit, paint
<1>4. ASSUME NEW x \in Range(hit), NEW y \in Range(hit),
             Class(x) # Class(y), "main" \notin {Owner(x), Owner(y)}
      PROVE  Before(hit, x, y) <=> Before(paint, x, y)
  <2>1. x \in Window /\ y \in Window BY <1>1 DEF Slab, Range
  <2>2. Counted(x) /\ Counted(y) /\ Rank(x) # Rank(y) BY <1>4, <2>1, RankOfClass DEF Counted
  <2>3. Before(hit, x, y) <=> Rank(x) < Rank(y) BY <1>1, <2>2, SlabBefore
  <2>4. Before(paint, x, y) <=> Rank(x) < Rank(y) BY <1>1, <1>3, <2>2, SlabBefore
  <2> QED BY <2>3, <2>4
<1> QED BY <1>3, <1>4, Zenon DEF InputFollowsPaint, hit, paint

LEMMA ListedInit ==
  ASSUME Init
  PROVE  Listed(h) /\ PanesOf(h) = {}
<1>1. h = [main |-> NoWin, overlay |-> NoWin, root |-> [p \in Pane |-> NoWin],
           dialogs |-> <<>>, popups |-> <<>>, ordinary |-> <<>>, mapped |-> {},
           kbd |-> NoWin, ordFocus |-> NoOrd, focused |-> [p \in Pane |-> NoWin],
           history |-> [p \in Pane |-> <<>>], under |-> NoWin, grabbed |-> FALSE, grab |-> NoWin,
           down |-> {}, pressed |-> {}, canceled |-> {}]
  BY Zenon DEF Init
<1>2. /\ ListFields \subseteq DOMAIN h /\ h.main = NoWin /\ h.overlay = NoWin
      /\ h.root = [p \in Pane |-> NoWin] /\ h.dialogs = <<>> /\ h.popups = <<>> /\ h.ordinary = <<>>
  BY <1>1 DEF ListFields
<1>3. Listed(h) BY <1>2 DEF Listed
<1>4. PanesOf(h) = {} BY <1>2 DEF PanesOf, Range
<1> QED BY <1>3, <1>4

\* Every list holds windows of its kind only, whatever comes, is mapped, goes
\* or is demoted: the popups' and the dialogs' panes are panes of the runtime.
THEOREM ListsHoldTheirKind == Spec => []Listed(h)
<1>1. Init => Listed(h) BY ListedInit
<1>2. Listed(h) /\ [Next]_vars => Listed(h)' BY ListedStep
<1> QED BY <1>1, <1>2, PTL DEF Spec

\* The pane that has the focus is one that is shown
PaneTargetShown == c.target \in Pane => Shows(c, c.target)

\* Input goes to the window that is painted on top, for every set of windows,
\* panes and events, as long as the pane with the focus is shown: a popup is
\* found where it was when its pane was taken away while it had the focus.
THEOREM InputFollowsPaintWhereShown == Spec => [](PaneTargetShown => InputFollowsPaint)
<1>1. Listed(h) => (PaneTargetShown => InputFollowsPaint)
  <2> SUFFICES ASSUME Listed(h), PaneTargetShown PROVE InputFollowsPaint OBVIOUS
  <2>1. \A q \in PanePopupSet : Shows(c, Owner(q)) BY DEF PanePopupSet, Visible, PaneTargetShown
  <2> QED BY <2>1, OrdersAgree
<1> QED BY <1>1, ListsHoldTheirKind, PTL

-----------------------------------------------------------------------------
(* Where no plan takes a pane away, every pane the runtime has a window, a *)
(* dialog or a popup of is shown, and the two orders agree without more.   *)

StillShown(s, t) == \A p \in Pane : Shows(s, p) => Shows(t, p)

LEMMA PrunedPanes ==
  ASSUME NEW s, Shaped(s)
  PROVE  Pruned(s).panes = s.panes
<1> DEFINE kept == {r \in s.regions.at : AllowsRegions(s, r.pane) /\ Instance(s, r.pane) = r.inst}
           left == IF kept = {} THEN NoRegions ELSE [s.regions EXCEPT !.at = kept]
<1>1. Pruned(s) = s \/ Pruned(s) = [s EXCEPT !.regions = left] BY DEF Pruned
<1> HIDE DEF left
<1> QED BY <1>1 DEF Shaped, StateFields

LEMMA CarriedShows ==
  ASSUME NEW s, NEW t, Carried(s, t)
  PROVE  StillShown(s, t)
<1>1. PICK u : Kept(s, u) /\ t \in {u, Pruned(u)} BY DEF Carried
<1>2. t.panes = u.panes BY <1>1, PrunedPanes DEF Kept
<1> QED BY <1>1, <1>2 DEF Kept, SamePane, Shows, StillShown

\* apply_native_pane_host_plan makes the pane a native one
LEMMA AppliedShows ==
  ASSUME NEW s, NEW r \in Requests, Shaped(s)
  PROVE  StillShown(s, Applied(s, r))
<1> DEFINE p == r.pane
           old == s.panes[p]
           changed == Shows(s, p) /\ (old.mode # "native" \/ old.id # r.id \/ old.bind # r.bind)
           s1 == IF changed THEN Abandoned(s, p) ELSE s
           base == IF Shows(s, p) THEN old ELSE Fresh(FALSE)
           group == IF changed THEN NoGroup ELSE base.group
           x == [base EXCEPT !.mode = "native", !.id = r.id, !.bind = r.bind, !.rev = r.rev,
                             !.group = group]
           accepts == IF r.group # NoInst THEN s1.accepts \cup {p}
                      ELSE IF changed THEN s1.accepts \ {p} ELSE s1.accepts
           t == [s1 EXCEPT !.panes[p] = x, !.accepts = accepts]
<1>1. p \in Pane BY RequestsAssumption
<1>2. Kept(s, s1)
  <2> HIDE DEF changed, p
  <2> QED BY <1>1, AbandonedKeeps, KeptItself
<1>3. PaneFields \subseteq DOMAIN base
  <2>1. Shows(s, p) => PaneFields \subseteq DOMAIN old
    BY <1>1 DEF Shaped, PaneShaped, Shows, NoPane
  <2>2. PaneFields \subseteq DOMAIN Fresh(FALSE) BY DEF Fresh, PaneFields
  <2> QED BY <2>1, <2>2
<1>4. x.mode = "native" /\ PaneShaped(x)
  <2> HIDE DEF base, group, p
  <2> QED BY <1>3 DEF PaneShaped, PaneFields
<1>5. Applied(s, r) = Pruned(t)
  BY DEF Applied
<1> HIDE DEF x, accepts, s1, p
<1>6. Shaped(t)
  <2>1. Shaped(s1) BY <1>2 DEF Kept
  <2> QED BY <1>1, <1>4, <2>1, ReplacedShaped
<1>7. /\ t.panes[p] = x /\ \A q \in Pane \ {p} : t.panes[q] = s1.panes[q]
  BY <1>1, <1>2 DEF Kept, Shaped, StateFields
<1> HIDE DEF t
<1>8. Applied(s, r).panes = t.panes BY <1>5, <1>6, PrunedPanes
<1>9. \A q \in Pane \ {p} : Shows(s, q) => Shows(s1, q) BY <1>2 DEF Kept, SamePane, Shows
<1> QED BY <1>4, <1>7, <1>8, <1>9 DEF Shows, StillShown

LEMMA ShownStep ==
  ASSUME RegionInv, [Next]_vars, "plans" \notin ops
  PROVE  StillShown(c, c')
<1>0. Shaped(c) /\ StillShown(c, c) BY DEF RegionInv, StillShown
<1>1. CASE Step BY <1>1, StepCarries, CarriedShows
<1>2. CASE c' = c BY <1>0, <1>2
<1>3. CASE WindowEvents \/ MainDemoted \/ Input \/ UNCHANGED vars
  <2>1. c' = c
    BY <1>3, Zenon
       DEF WindowEvents, MainAppears, OverlayAppears, RootAppears, DialogAppears, OrdinaryAppears,
           PopupAppears, Map, Unmap, TopDestroyed, RootDestroyed, DialogDestroyed, PopupDestroyed,
           OtherDestroyed, MainDemoted, Input, Motion, Press, ReleaseButton, PressKey, vars
  <2> QED BY <1>2, <2>1
<1>4. CASE ControlAsks
  <2>1. Kept(c, c') BY <1>4, FocusRequestsKeep DEF ControlAsks
  <2> QED BY <2>1, KeptCarried, CarriedShows
<1>5. CASE ControlToggles \/ ShellEnds
  <2>1. c'.panes = c.panes
    BY <1>0, <1>5 DEF ControlToggles, ShellEnds, Toggled, Shaped, StateFields
  <2> QED BY <2>1 DEF Shows, StillShown
<1>6. CASE Regions
  <2>1. CASE \E key : ClearRegions(key)
    <3>1. c'.panes = c.panes BY <1>0, <2>1 DEF ClearRegions, Shaped, StateFields
    <3> QED BY <3>1 DEF Shows, StillShown
  <2>2. CASE \E key, rev, at : SetRegions(key, rev, at)
    <3>1. PICK key, rev, at : SetRegions(key, rev, at) BY <2>2
    <3> DEFINE s == IF at = {} THEN Pruned(c) ELSE c
    <3>2. \E y : c' = [s EXCEPT !.regions = y] BY <3>1 DEF SetRegions
    <3>3. Shaped(s) /\ s.panes = c.panes BY <1>0, PrunedNames, PrunedPanes
    <3> HIDE DEF s
    <3>4. c'.panes = c.panes BY <3>2, <3>3 DEF Shaped, StateFields
    <3> QED BY <3>4 DEF Shows, StillShown
  <2> QED BY <1>6, <2>1, <2>2, Zenon DEF Regions
<1>7. CASE Programs BY <1>7, ProgramsCarry, CarriedShows
<1>8. CASE Plans
  <2>0. PICK r \in Requests : \E gen : HostPlan(r, gen) \/ UpdatePlan(r, gen) BY <1>8, Zenon DEF Plans
  <2>1. PICK gen : HostPlan(r, gen) \/ UpdatePlan(r, gen) BY <2>0
  <2> DEFINE s == Applied(c, r)
             q == Requested(s, r.pane)
             f == [s EXCEPT !.panes[r.pane].group = NoGroup]
  <2>2. c' \in {q, Recorded(q, gen), f, s, Recorded(s, gen)} BY <2>1 DEF HostPlan, UpdatePlan
  <2>3. r.pane \in Pane BY RequestsAssumption
  <2>4. Shaped(s) /\ StillShown(c, s) BY <1>0, AppliedSound, AppliedShows DEF Sound
  <2> HIDE DEF s
  <2>5. Kept(s, q) /\ Kept(s, f) /\ Kept(s, Recorded(s, gen)) /\ Kept(s, s)
    BY <2>3, <2>4, RequestedKeeps, GroupClearedKeeps, RecordedKeeps, KeptItself
  <2> HIDE DEF q, f
  <2>6. Shaped(q) BY <2>5 DEF Kept
  <2>7. Kept(q, Recorded(q, gen)) BY <2>6, RecordedKeeps
  <2>8. Kept(s, Recorded(q, gen)) BY <2>5, <2>7, KeptTransitive
  <2>9. Kept(s, c') BY <2>2, <2>5, <2>8
  <2>10. StillShown(s, c') BY <2>9, KeptCarried, CarriedShows
  <2> QED BY <2>4, <2>10 DEF StillShown
<1> QED BY <1>1, <1>3, <1>4, <1>5, <1>6, <1>7, <1>8 DEF Next, ControlChanges

\* The inductive invariant of the runtime's panes
PanesInv ==
  /\ Listed(h) /\ RegionInv
  /\ \E sc \in Scenarios : ops = sc.ops
  /\ "windows" \notin ops => PanesOf(h) = {}
  /\ "plans" \notin ops => \A p \in PanesOf(h) \cap Pane : Shows(c, p)

LEMMA OpsStay ==
  ASSUME [Next]_vars
  PROVE  ops' = ops
BY Zenon DEF Next, Step, StepRoute, StepTold, StepWrite, StepNote, StepFocus, StepSync, StepGroup,
     StepMapped, StepFallback, StepDropPopups, StepStatus, StepBridge, StepKey, StepToggle, outside,
     WindowEvents, MainAppears, OverlayAppears, RootAppears, DialogAppears, OrdinaryAppears,
     PopupAppears, Map, Unmap, TopDestroyed, RootDestroyed, DialogDestroyed, PopupDestroyed,
     OtherDestroyed, MainDemoted, Input, Motion, Press, ReleaseButton, PressKey,
     ControlAsks, ControlToggles, ShellEnds, ControlChanges, runtime, vars

LEMMA NoWindowsNoPanes ==
  ASSUME PanesInv, [Next]_vars, "windows" \notin ops
  PROVE  PanesOf(h') = {}
<1>0. Listed(h) /\ PanesOf(h) = {} BY DEF PanesInv
<1>1. ~WindowEvents /\ ~MainDemoted
  BY Zenon DEF Idle, WindowEvents, Comes, Gone, MainAppears, OverlayAppears, RootAppears, DialogAppears,
               OrdinaryAppears, PopupAppears, Map, Unmap, TopDestroyed, RootDestroyed, DialogDestroyed,
               PopupDestroyed, OtherDestroyed, MainDemoted
<1>2. CASE Step BY <1>0, <1>2, StepLists
<1>3. CASE \/ Input \/ ControlAsks \/ ControlToggles \/ ShellEnds \/ ControlChanges \/ UNCHANGED vars
  BY <1>0, <1>3, InputLists
<1> QED BY <1>1, <1>2, <1>3 DEF Next

LEMMA PanesStep ==
  ASSUME PanesInv, [Next]_vars
  PROVE  PanesInv'
<1>0. Listed(h) /\ RegionInv BY DEF PanesInv
<1>1. Listed(h') BY <1>0, ListedStep
<1>2. RegionInv' BY <1>0, RegionStep
<1>3. ops' = ops BY OpsStay
<1>4. (\E sc \in Scenarios : ops = sc.ops)' BY <1>3 DEF PanesInv
<1>5. "windows" \notin ops => PanesOf(h') = {} BY NoWindowsNoPanes
<1>6. ASSUME "plans" \notin ops, NEW p \in PanesOf(h') \cap Pane PROVE Shows(c', p)
  <2>1. StillShown(c, c') BY <1>0, <1>6, ShownStep
  <2>2. p \in PanesOf(h) \/ Shows(c, p) BY <1>0, ListedStep
  <2>3. Shows(c, p) BY <1>6, <2>2 DEF PanesInv
  <2> QED BY <2>1, <2>3 DEF StillShown
<1>7. PanesOf(h)' = PanesOf(h') BY DEF PanesOf, Owner
<1>8. Listed(h)' <=> Listed(h') BY DEF Listed
<1>9. \A p : Shows(c, p)' <=> Shows(c', p) BY DEF Shows
<1> QED BY <1>1, <1>2, <1>3, <1>4, <1>5, <1>6, <1>7, <1>8, <1>9 DEF PanesInv

THEOREM PanesInvHolds == Spec => []PanesInv
<1>1. Init => PanesInv
  <2> SUFFICES ASSUME Init PROVE PanesInv OBVIOUS
  <2>1. Listed(h) /\ PanesOf(h) = {} BY ListedInit
  <2>2. RegionInv BY RegionInit
  <2>3. \E sc \in Scenarios : ops = sc.ops BY Zenon DEF Init
  <2> QED BY <2>1, <2>2, <2>3 DEF PanesInv
<1>2. PanesInv /\ [Next]_vars => PanesInv' BY PanesStep
<1> QED BY <1>1, <1>2, PTL DEF Spec

\* Input goes to the window that is painted on top, whatever windows come and
\* go and whatever is asked, where no pane is taken away while windows are
\* there.
THEOREM InputFollowsPaintSafe ==
  ASSUME \A sc \in Scenarios : ~({"windows", "plans"} \subseteq sc.ops)
  PROVE  Spec => []InputFollowsPaint
<1>1. PanesInv => InputFollowsPaint
  <2> SUFFICES ASSUME PanesInv PROVE InputFollowsPaint OBVIOUS
  <2>1. "windows" \notin ops \/ "plans" \notin ops BY DEF PanesInv
  <2>2. \A p \in PanesOf(h) \cap Pane : Shows(c, p) BY <2>1 DEF PanesInv
  <2>3. \A q \in PanePopupSet : Owner(q) \in PanesOf(h) \cap Pane BY DEF PanePopupSet, PanesOf
  <2> QED BY <2>2, <2>3, OrdersAgree DEF PanesInv
<1> QED BY <1>1, PanesInvHolds, PTL

=============================================================================
