------------------------------ MODULE FocusRoute ------------------------------
(***************************************************************************)
(* Where the keyboard and the pointer go (src/src/runtime.rs): the windows *)
(* on screen, which of them is under a point, which has the keyboard, and  *)
(* what CompositorState is told of it.                                     *)
(*                                                                         *)
(* The Wayland thread runs one handler at a time, but a handler takes the  *)
(* lock of CompositorState several times, and the control threads change   *)
(* focus, panes and regions in between.  `todo` is what the handler has    *)
(* still to do, cut where it takes the lock; what it changes of its own    *)
(* lists in between belongs to the step before.                            *)
(*                                                                         *)
(* Which role a toplevel gets is decided in SurfaceRoles; here a window    *)
(* has one kind and appears once.                                          *)
(***************************************************************************)
EXTENDS PanePresentation, Sequences, SequencesExt

CONSTANTS
  KindOf,   \* per window: "main", "overlay", "root", "dialog", "popup", "ordinary"
  PaneOf,   \* per root window or dialog: its pane
  ParentOf, \* per popup: the toplevel it belongs to
  Unresolved, \* ordinary windows whose identity is not established
  Button

ASSUME FocusAssumption ==
  /\ KindOf \in [Window -> {"main", "overlay", "root", "dialog", "popup", "ordinary"}]
  /\ \A w \in Window : KindOf[w] \in {"root", "dialog"} => PaneOf[w] \in Pane
  /\ \A w \in Window : KindOf[w] = "popup" =>
       ParentOf[w] \in Window /\ KindOf[ParentOf[w]] \notin {"popup", "ordinary"}
  /\ Unresolved \subseteq {w \in Window : KindOf[w] = "ordinary"}

VARIABLES
  life,    \* per window: "absent" (never comes), "new", "live", "gone"
  h,       \* the runtime's lists and the seat
  todo,    \* what the handler that runs has still to do
  shellUp, \* the shell overlay's program is launched
  mainId,  \* the main window CompositorState was told of
  asked,   \* a control client asked for focus since it was last routed
  clicked, \* the window pressed last, while nothing else moved the focus
  held,    \* per button: the window whose client saw it pressed and not yet let go
  stray    \* a client saw a button let go that it had not seen pressed

vars == <<ops, c, life, h, todo, shellUp, mainId, asked, clicked, held, stray>>

NoOrd == [win |-> NoWin, target |-> NoFocus]

Alive(w) == w \in Window /\ life[w] = "live"

\* The role a popup was given when it appeared: its parent's
Owner(w) == LET k == IF KindOf[w] = "popup" THEN ParentOf[w] ELSE w
            IN IF KindOf[k] \in {"root", "dialog"} THEN PaneOf[k] ELSE KindOf[k]

InPane(w, p) == Owner(w) = p

-----------------------------------------------------------------------------
(* The lists                                                               *)

\* The elements of a list that are in S, in their order
Within(list, S) ==
  LET upto[i \in 0 .. Len(list)] ==
        IF i = 0 THEN <<>>
        ELSE IF list[i] \in S THEN Append(upto[i - 1], list[i]) ELSE upto[i - 1]
  IN upto[Len(list)]

Only(list, keep(_)) == Within(list, {w \in Range(list) : keep(w)})
Without(list, w) == Only(list, LAMBDA v : v # w)
ToLast(list, w)  == Append(Without(list, w), w)

\* role_for_surface, runtime_focus_target_for_role; ordinary windows have none
RoleOf(s, w) ==
  IF w = NoWin THEN NoFocus
  ELSE CASE w = s.main -> "main"
         [] w = s.overlay -> "overlay"
         [] \E p \in Pane : w = s.root[p] -> CHOOSE p \in Pane : s.root[p] = w
         [] w \in Range(s.dialogs) \cup Range(s.popups) -> Owner(w)
         [] OTHER -> NoFocus

Visible(w) == w \in h.mapped /\ c.target = Owner(w)  \* native_pane_surface_is_visible

\* native_pane_group_members_with_popups: what is added to the known members
Members(s, p) == {w \in Range(s.dialogs) \cup Range(s.popups) : InPane(w, p)}

\* native_pane_surface_for_window_id
CanFocus(s, p, w) ==
  \/ w = s.root[p] /\ w # NoWin
  \/ w \in Members(s, p) \cap s.mapped

\* native_pane_surface_tree_contains: only a pane with a root window has a tree
InTree(s, p, w) ==
  s.root[p] # NoWin /\ (w = s.root[p] \/ w \in Members(s, p))

\* native_pane_focus_surface: the window of the pane that gets the keyboard,
\* and the lists after it was looked for
PaneFocus(s, p) ==
  LET past == Only(s.history[p], LAMBDA w : CanFocus(s, p, w))
  IN IF s.focused[p] # NoWin /\ CanFocus(s, p, s.focused[p])
     THEN [win |-> s.focused[p], h |-> s]
     ELSE IF past # <<>> THEN [win |-> Last(past), h |-> [s EXCEPT !.focused[p] = Last(past)]]
     ELSE IF s.root[p] # NoWin
     THEN [win |-> s.root[p], h |-> [s EXCEPT !.focused[p] = s.root[p],
                                              !.history[p] = ToLast(@, s.root[p])]]
     ELSE [win |-> NoWin, h |-> [s EXCEPT !.focused[p] = NoWin]]

\* The pane's lists without a window
Unlisted(s, p, w) ==
  [s EXCEPT !.history[p] = Without(@, w), !.focused[p] = IF @ = w THEN NoWin ELSE @]

-----------------------------------------------------------------------------
(* The seat: a keyboard focus that changes is told to CompositorState      *)

\* KeyboardHandle::set_focus and focus_changed; `next` is done after it
Keyboard(s, w, next) ==
  IF s.kbd = w THEN h' = s /\ todo' = next
  ELSE /\ h' = [s EXCEPT !.kbd = w,
                         !.ordFocus = IF w \in Range(s.ordinary) THEN [win |-> w, target |-> NoFocus]
                                      ELSE NoOrd]
       /\ todo' = <<[op |-> "told", t |-> RoleOf(s, w)]>> \o next

\* Mutant of Noted: the pane remembers the window without making it its focus
NotedInHistory(s, w) ==
  LET p == Owner(w)
  IN IF p \in Pane /\ InTree(s, p, w) THEN [s EXCEPT !.history[p] = ToLast(@, w)] ELSE s

\* note_native_pane_surface_focus
Noted(s, w) ==
  LET p == Owner(w)
  IN IF p \in Pane /\ InTree(s, p, w)
     THEN [s EXCEPT !.focused[p] = w, !.history[p] = ToLast(@, w)] ELSE s

Note(w, advance) == [op |-> "note", win |-> w, advance |-> advance]
Focus(w)         == [op |-> "focus", win |-> w]
Sync(p)          == [op |-> "sync", pane |-> p]
Status           == [op |-> "status"]
Route            == [op |-> "route"]

-----------------------------------------------------------------------------
(* apply_focus_route                                                       *)

KeepsOrdinary ==
  /\ ~c.shell
  /\ h.ordFocus # NoOrd /\ h.ordFocus.win \in Range(h.ordinary)
  /\ h.ordFocus.target = c.target

\* The target that is asked for, or what is there instead of it
Resolved(s) ==
  LET main    == [t |-> "main", win |-> s.main, h |-> s]
      overlay == [t |-> "overlay", win |-> s.overlay, h |-> s]
      pane    == PaneFocus(s, c.target)
      left    == IF c.target \in Pane THEN pane.h ELSE s
      gone    == c.target \in Pane /\ s.root[c.target] = NoWin
      instead == IF ~gone /\ s.overlay # NoWin THEN [overlay EXCEPT !.h = left]
                 ELSE IF s.main # NoWin THEN [main EXCEPT !.h = left]
                 ELSE [t |-> NoFocus, win |-> NoWin, h |-> left]
  IN IF c.shell /\ s.overlay # NoWin THEN overlay
     ELSE CASE c.target = "main" /\ s.main # NoWin -> main
            [] c.target = "overlay" /\ s.overlay # NoWin -> overlay
            [] c.target \in Pane /\ pane.win # NoWin -> [t |-> c.target, win |-> pane.win, h |-> pane.h]
            [] OTHER -> instead

\* Mutant of RouteFocus: the pane's window group is not told
RouteFocusUnnoted(next) ==
  IF KeepsOrdinary THEN Keyboard(h, h.ordFocus.win, next)
  ELSE LET r     == Resolved([h EXCEPT !.ordFocus = NoOrd])
           write == IF r.t # c.target \/ c.shell
                    THEN <<[op |-> "write", t |-> r.t, shell |-> c.shell /\ r.t = "overlay"]>> ELSE <<>>
       IN Keyboard(r.h, r.win, write \o next)

RouteFocus(next) ==
  IF KeepsOrdinary THEN Keyboard(h, h.ordFocus.win, next)
  ELSE LET r     == Resolved([h EXCEPT !.ordFocus = NoOrd])
           note  == IF r.t \in Pane THEN <<Note(r.win, FALSE)>> ELSE <<>>
           write == IF r.t # c.target \/ c.shell
                    THEN <<[op |-> "write", t |-> r.t, shell |-> c.shell /\ r.t = "overlay"]>> ELSE <<>>
       IN Keyboard(r.h, r.win, note \o write \o next)

-----------------------------------------------------------------------------
(* The steps of the handlers.  A step reads or writes CompositorState once. *)

Now  == Head(todo).op
Next1 == Tail(todo)

outside == <<ops, life, shellUp, mainId, clicked, held, stray>>

StepRoute ==
  /\ Now = "route"
  /\ RouteFocus(Next1)
  /\ asked' = FALSE
  /\ UNCHANGED <<outside, c>>

\* focus_changed: the generation focus was asked for with stays
StepTold ==
  /\ Now = "told"
  /\ c' = [c EXCEPT !.target = Head(todo).t]
  /\ todo' = Next1
  /\ UNCHANGED <<outside, h, asked>>

\* The end of apply_focus_route
StepWrite ==
  /\ Now = "write"
  /\ c' = [c EXCEPT !.target = Head(todo).t, !.shell = IF Head(todo).shell THEN FALSE ELSE @]
  /\ todo' = Next1
  /\ UNCHANGED <<outside, h, asked>>

StepNote ==
  /\ Now = "note"
  /\ LET w == Head(todo).win
         p == Owner(w)
     IN /\ h' = Noted(h, w)
        /\ IF p \in Pane /\ InTree(h, p, w)
           THEN c' \in {GroupFocused(s, p, w, Members(h, p)) : s \in FocusedFrom(c, p, Head(todo).advance)}
           ELSE c' = c
  /\ todo' = Next1
  /\ UNCHANGED <<outside, asked>>

StepFocus ==
  /\ Now = "focus"
  /\ Keyboard(h, Head(todo).win, Next1)
  /\ UNCHANGED <<outside, c, asked>>

\* sync_native_pane_group_focus_status reads the target, then writes the group
StepSync ==
  /\ Now = "sync"
  /\ LET p == Head(todo).pane
     IN todo' = <<[op |-> "group", pane |-> p,
                   win |-> IF c.target = p THEN h.focused[p] ELSE NoWin]>> \o Next1
  /\ UNCHANGED <<outside, c, h, asked>>

StepGroup ==
  /\ Now = "group"
  /\ c' = GroupFocused(c, Head(todo).pane, Head(todo).win, Members(h, Head(todo).pane))
  /\ todo' = Next1
  /\ UNCHANGED <<outside, h, asked>>

\* A dialog or popup was mapped: it takes the focus of its pane, never another's
StepMapped ==
  /\ Now = "mapped"
  /\ LET w == Head(todo).win
     IN todo' = (IF c.target = Owner(w) THEN <<Note(w, TRUE), Focus(w)>> ELSE <<>>) \o Next1
  /\ UNCHANGED <<outside, c, h, asked>>

\* The window with the focus of its pane went: another one of the pane gets it
StepFallback ==
  /\ Now = "fallback"
  /\ LET p == Head(todo).pane
         f == PaneFocus(h, p)
     IN IF c.target = p
        THEN /\ h' = f.h
             /\ todo' = (IF f.win # NoWin THEN <<Note(f.win, FALSE), Focus(f.win)>> ELSE <<>>) \o Next1
        ELSE h' = h /\ todo' = Next1
  /\ UNCHANGED <<outside, c, asked>>

\* The popups of a toplevel that is gone
StepDropPopups ==
  /\ Now = "drop"
  /\ h' = [h EXCEPT !.popups = Only(@, LAMBDA q : ParentOf[q] # Head(todo).win)]
  /\ todo' = Next1
  /\ UNCHANGED <<outside, c, asked>>

\* sync_runtime_status_with_roles
StepStatus ==
  /\ Now = "status"
  /\ mainId' = (h.main # NoWin)
  /\ todo' = Next1
  /\ UNCHANGED <<ops, life, shellUp, clicked, held, stray, c, h, asked>>

StepBridge ==
  /\ Now \in {"attach", "observe", "detach", "clear"}
  /\ c' = CASE Now = "attach"  -> Attached(c, Head(todo).pane)
            [] Now = "observe" -> GroupObserved(c, Head(todo).pane, Head(todo).win)
            [] Now = "detach"  -> Detached(c, Head(todo).pane)
            [] Now = "clear"   -> [c EXCEPT !.target = NoFocus]
  /\ todo' = Next1
  /\ UNCHANGED <<outside, h, asked>>

\* The key is delivered to the window with the keyboard
StepKey ==
  /\ Now = "key"
  /\ todo' = Next1
  /\ UNCHANGED <<outside, c, h, asked>>

\* toggle_shell_overlay: open_shell_overlay or dismiss_shell_overlay
Toggled(s) ==
  IF shellUp THEN [s EXCEPT !.shell = FALSE, !.target = IF mainId THEN "main" ELSE NoFocus]
  ELSE [s EXCEPT !.shell = TRUE]

\* handle_shell_overlay_toggle
StepToggle ==
  /\ Now = "toggle"
  /\ c' = Toggled(c)
  /\ shellUp' = ~shellUp
  /\ clicked' = NoWin
  /\ todo' = <<Status, Route>> \o Next1
  /\ UNCHANGED <<ops, life, mainId, held, stray, h, asked>>

Step ==
  /\ todo # <<>>
  /\ \/ StepRoute \/ StepTold \/ StepWrite \/ StepNote \/ StepFocus \/ StepSync \/ StepGroup
     \/ StepMapped \/ StepFallback \/ StepDropPopups \/ StepStatus \/ StepBridge \/ StepKey \/ StepToggle

-----------------------------------------------------------------------------
(* Windows appear, are mapped and unmapped, and are destroyed              *)

Idle == todo = <<>> /\ "windows" \in ops

Comes(w) == Idle /\ life[w] = "new" /\ life' = [life EXCEPT ![w] = "live"]

\* assign_main_role
MainAppears(w) ==
  /\ Comes(w) /\ KindOf[w] = "main" /\ h.main = NoWin
  /\ h' = [h EXCEPT !.main = w]
  /\ todo' = <<Status, Route>>
  /\ UNCHANGED <<ops, c, shellUp, mainId, asked, clicked, held, stray>>

\* assign_overlay_role_or_queue, for the window of the program that was launched
OverlayAppears(w) ==
  /\ Comes(w) /\ KindOf[w] = "overlay" /\ h.overlay = NoWin /\ shellUp
  /\ h' = [h EXCEPT !.overlay = w]
  /\ clicked' = IF c.shell THEN NoWin ELSE clicked
  /\ todo' = <<Status, Route>>
  /\ UNCHANGED <<ops, c, shellUp, mainId, asked, held, stray>>

\* assign_native_pane_role for the first window of the pane
RootAppears(w) ==
  /\ Comes(w) /\ KindOf[w] = "root" /\ h.root[PaneOf[w]] = NoWin
  /\ LET p == PaneOf[w]
     IN /\ Running(c, p) /\ Native(c, p) /\ p \notin c.stopping
        /\ h' = [h EXCEPT !.root[p] = w]
        /\ todo' = <<[op |-> "attach", pane |-> p], [op |-> "observe", pane |-> p, win |-> w],
                     Status, Route>>
  /\ clicked' = IF clicked # NoWin /\ Owner(clicked) = PaneOf[w] THEN NoWin ELSE clicked
  /\ UNCHANGED <<ops, c, shellUp, mainId, asked, held, stray>>

\* assign_native_pane_role for a further window of the same launch, and
\* assign_native_pane_accessory_or_retain_unresolved
DialogAppears(w) ==
  /\ Comes(w) /\ KindOf[w] = "dialog"
  /\ LET p == PaneOf[w]
     IN /\ h.root[p] # NoWin /\ p \in c.accepts /\ Shows(c, p)
        /\ h' = [h EXCEPT !.dialogs = Append(@, w)]
        /\ todo' = <<Sync(p), Status>>
  /\ UNCHANGED <<ops, c, shellUp, mainId, asked, clicked, held, stray>>

\* retain_ordinary_toplevel
OrdinaryAppears(w) ==
  /\ Comes(w) /\ KindOf[w] = "ordinary"
  /\ h' = [h EXCEPT !.ordinary = Append(@, w)]
  /\ UNCHANGED <<ops, c, todo, shellUp, mainId, asked, clicked, held, stray>>

\* new_popup: popup_owner_role needs the parent to have its role
PopupAppears(w) ==
  /\ Comes(w) /\ KindOf[w] = "popup"
  /\ ParentOf[w] \in {h.main, h.overlay} \cup Range(h.root) \cup Range(h.dialogs)
  /\ h' = [h EXCEPT !.popups = Append(@, w)]
  /\ todo' = IF Owner(w) \in Pane THEN <<Sync(Owner(w))>> ELSE <<>>
  /\ UNCHANGED <<ops, c, shellUp, mainId, asked, clicked, held, stray>>

\* update_native_pane_member_map_state
Map(w) ==
  /\ Idle /\ w \in (Range(h.dialogs) \cup Range(h.popups)) \ h.mapped
  /\ LET pane == Owner(w) \in Pane
     IN /\ h' = [h EXCEPT !.mapped = @ \cup {w},
                          !.dialogs = IF w \in Range(@) THEN ToLast(@, w) ELSE @,
                          !.popups  = IF pane /\ w \in Range(@) THEN ToLast(@, w) ELSE @]
        /\ todo' = IF pane THEN <<[op |-> "mapped", win |-> w], Sync(Owner(w))>> ELSE <<>>
        /\ clicked' = IF clicked # NoWin /\ Owner(clicked) = Owner(w) THEN NoWin ELSE clicked
  /\ UNCHANGED <<ops, c, life, shellUp, mainId, asked, held, stray>>

Unmap(w) ==
  /\ Idle /\ w \in (Range(h.dialogs) \cup Range(h.popups)) \cap h.mapped
  /\ LET p == Owner(w)
     IN /\ h' = [h EXCEPT !.mapped = @ \ {w}]
        /\ todo' = IF p \notin Pane THEN <<>>
                   ELSE (IF h.focused[p] = w THEN <<[op |-> "fallback", pane |-> p]>> ELSE <<>>) \o <<Sync(p)>>
  /\ clicked' = IF clicked = w THEN NoWin ELSE clicked
  /\ UNCHANGED <<ops, c, life, shellUp, mainId, asked, held, stray>>

\* Mutant of CancelGrab: the releases that are still to come are not remembered
CancelGrabForgets(s, p) ==
  IF s.grab # NoWin /\ s.grabbed /\ InTree(s, p, s.grab)
  THEN [s EXCEPT !.grabbed = FALSE, !.grab = NoWin, !.under = NoWin, !.pressed = {}]
  ELSE s

\* cancel_native_pane_grabs: the pointer leaves, held buttons are let go
CancelGrab(s, p) ==
  IF s.grab # NoWin /\ s.grabbed /\ InTree(s, p, s.grab)
  THEN [s EXCEPT !.grabbed = FALSE, !.grab = NoWin, !.under = NoWin,
                 !.canceled = @ \cup s.pressed, !.pressed = {}]
  ELSE s

Gone(w) == Idle /\ Alive(w) /\ life' = [life EXCEPT ![w] = "gone"]

After(w) == <<[op |-> "drop", win |-> w], Status, Route>>

\* toplevel_destroyed, for the window of the main app, the overlay or an
\* ordinary window
TopDestroyed(w) ==
  /\ Gone(w) /\ w \in {h.main, h.overlay} \cup Range(h.ordinary)
  /\ h' = [h EXCEPT !.main     = IF @ = w THEN NoWin ELSE @,
                    !.overlay  = IF @ = w THEN NoWin ELSE @,
                    !.ordinary = Without(@, w)]
  /\ clicked' = IF clicked # NoWin /\ Owner(clicked) = Owner(w) THEN NoWin ELSE clicked
  /\ todo' = After(w)
  /\ UNCHANGED <<ops, c, shellUp, mainId, asked, held, stray>>

\* toplevel_destroyed, for the window of a pane: its dialogs are asked to close
RootDestroyed(w) ==
  /\ Gone(w) /\ w \in Range(h.root)
  /\ LET p == PaneOf[w]
         s == CancelGrab(h, p)
     IN /\ h' = [s EXCEPT !.root[p] = NoWin, !.focused[p] = NoWin, !.history[p] = <<>>,
                          !.dialogs = Only(@, LAMBDA d : PaneOf[d] # p)]
        /\ held' = IF h.grabbed /\ ~s.grabbed THEN [b \in Button |-> NoWin] ELSE held
        /\ clicked' = IF clicked # NoWin /\ Owner(clicked) = p THEN NoWin ELSE clicked
        /\ todo' = <<[op |-> "detach", pane |-> p]>> \o After(w)
  /\ UNCHANGED <<ops, c, shellUp, mainId, asked, stray>>

\* toplevel_destroyed, for a dialog: its popups are dropped after the focus
\* has moved on
DialogDestroyed(w) ==
  /\ Gone(w) /\ w \in Range(h.dialogs)
  /\ LET p == PaneOf[w]
     IN /\ h' = Unlisted([h EXCEPT !.dialogs = Without(@, w), !.mapped = @ \ {w}], p, w)
        /\ todo' = (IF h.focused[p] = w THEN <<[op |-> "fallback", pane |-> p]>> ELSE <<>>)
                   \o <<Sync(p)>> \o After(w)
  /\ clicked' = IF clicked # NoWin /\ Owner(clicked) = Owner(w) THEN NoWin ELSE clicked
  /\ UNCHANGED <<ops, c, shellUp, mainId, asked, held, stray>>

\* popup_destroyed: focus is not routed again
PopupDestroyed(w) ==
  /\ Gone(w) /\ w \in Range(h.popups)
  /\ LET p == Owner(w)
         s == [h EXCEPT !.popups = Without(@, w), !.mapped = @ \ {w}]
     IN IF p \notin Pane THEN h' = s /\ todo' = <<>>
        ELSE /\ h' = Unlisted(s, p, w)
             /\ todo' = (IF h.focused[p] = w THEN <<[op |-> "fallback", pane |-> p]>> ELSE <<>>) \o <<Sync(p)>>
  /\ clicked' = IF clicked = w THEN NoWin ELSE clicked
  /\ UNCHANGED <<ops, c, shellUp, mainId, asked, held, stray>>

\* A window that is in no list goes: a closed dialog, a popup whose parent went
OtherDestroyed(w) ==
  /\ Gone(w)
  /\ w \notin {h.main, h.overlay} \cup Range(h.root) \cup Range(h.ordinary)
              \cup Range(h.dialogs) \cup Range(h.popups)
  /\ h' = [h EXCEPT !.mapped = @ \ {w}]
  /\ todo' = IF KindOf[w] = "popup" THEN <<>> ELSE After(w)
  /\ clicked' = IF clicked # NoWin /\ Owner(clicked) = Owner(w) THEN NoWin ELSE clicked
  /\ UNCHANGED <<ops, c, shellUp, mainId, asked, held, stray>>

\* enforce_main_app_binding_policy: the window of another process is ordinary
MainDemoted ==
  /\ Idle /\ Alive(h.main)
  /\ h' = [h EXCEPT !.main = NoWin, !.ordinary = Append(@, h.main)]
  /\ clicked' = NoWin
  /\ todo' = <<Status, Route>>
  /\ UNCHANGED <<ops, c, life, shellUp, mainId, asked, held, stray>>

-----------------------------------------------------------------------------
(* Where a point falls, and what is painted there, from the top down       *)

Shown(s)  == {p \in Pane : s.root[p] # NoWin /\ Shows(c, p)}
Roots(s)  == SetToSeq({s.root[p] : p \in Shown(s)})  \* panes lie beside each other
Single(w) == IF w = NoWin THEN <<>> ELSE <<w>>

\* surface_under_point_for_capture: a popup is found though its pane is gone
HitPanePopups(s)  == Only(s.popups, LAMBDA q : Owner(q) \in Pane /\ Visible(q))
HitDialogs(s)     == Only(s.dialogs, LAMBDA d : Visible(d) /\ Shows(c, PaneOf[d]))
HitOtherPopups(s) == Only(s.popups, LAMBDA q : Owner(q) \notin Pane /\ q \in s.mapped)

\* Mutant of HitOrder: the overlay is looked at before its popups
HitOrderToplevelFirst(s) ==
  Reverse(HitPanePopups(s)) \o Reverse(HitDialogs(s)) \o Single(s.overlay)
    \o Reverse(HitOtherPopups(s)) \o Roots(s) \o Reverse(s.ordinary) \o Single(s.main)

HitOrder(s) ==
  Reverse(HitPanePopups(s)) \o Reverse(HitDialogs(s)) \o Reverse(HitOtherPopups(s))
    \o Single(s.overlay) \o Roots(s) \o Reverse(s.ordinary) \o Single(s.main)

\* collect_render_elements
PaintedPanePopups(s) ==
  Only(s.popups, LAMBDA q : Owner(q) \in Pane /\ Visible(q) /\ Shows(c, Owner(q)))
PaintedDialogs(s)    == Only(s.dialogs, LAMBDA d : Visible(d) /\ Shows(c, PaneOf[d]))
PaintedPopups(s, k)  == Only(s.popups, LAMBDA q : Owner(q) = k /\ q \in s.mapped)

PaintOrder(s) ==
  PaintedPanePopups(s) \o PaintedDialogs(s) \o PaintedPopups(s, "overlay") \o Single(s.overlay)
    \o Roots(s) \o PaintedPopups(s, "main") \o Reverse(s.ordinary) \o Single(s.main)

\* The main app is everywhere, the other windows are somewhere
UnderPoint == IF h.main = NoWin THEN Range(HitOrder(h)) \cup {NoWin} ELSE Range(HitOrder(h))

-----------------------------------------------------------------------------
(* Input.  Unless "hold" is among what happens, a button is released as    *)
(* soon as it was pressed.                                                 *)

Holds == "hold" \in ops

\* forward_pointer_motion; a grab keeps the pointer where it was pressed
Motion(w) ==
  /\ Idle /\ Holds /\ w \in UnderPoint /\ ~h.grabbed /\ h.under # w
  /\ h' = [h EXCEPT !.under = w]
  /\ UNCHANGED <<ops, c, life, todo, shellUp, mainId, asked, clicked, held, stray>>

\* The window has the keyboard, though a request that came since is reported
Repeats(w) == w \in Range(h.ordinary) /\ h.kbd = w /\ c.target # NoFocus

\* forward_pointer_button, pressed
Press(b, w) ==
  /\ Idle /\ b \notin h.down /\ w \in UnderPoint
  /\ LET down == IF Holds THEN [h EXCEPT !.down = @ \cup {b}, !.pressed = @ \cup {b}] ELSE h
         ord  == IF w \notin Range(h.ordinary) THEN NoOrd
                 ELSE [win |-> w, target |-> IF w \in Unresolved THEN NoFocus ELSE c.target]
     IN IF h.grabbed
        THEN /\ h' = down
             /\ held' = [held EXCEPT ![b] = h.grab]
             /\ UNCHANGED <<todo, clicked>>
        ELSE /\ h' = IF Holds
                     THEN [down EXCEPT !.under = w, !.grabbed = TRUE, !.grab = w, !.ordFocus = ord]
                     ELSE [down EXCEPT !.ordFocus = ord]
             /\ held' = IF Holds THEN [held EXCEPT ![b] = w] ELSE held
             /\ todo' = (IF w \in Unresolved THEN <<[op |-> "clear"]>> ELSE <<>>)
                        \o (IF w # NoWin THEN <<Note(w, TRUE)>> ELSE <<>>) \o <<Focus(w)>>
             /\ clicked' = IF asked \/ c.shell \/ Repeats(w) THEN NoWin ELSE w
  /\ UNCHANGED <<ops, c, life, shellUp, mainId, asked, stray>>

\* forward_pointer_button, released
ReleaseButton(b) ==
  /\ Idle /\ b \in h.down
  /\ LET to == IF h.grabbed THEN h.grab ELSE h.under
         s  == [h EXCEPT !.down = @ \ {b}, !.pressed = @ \ {b}]
     IN IF b \in h.canceled
        THEN h' = [s EXCEPT !.canceled = @ \ {b}] /\ UNCHANGED <<held, stray>>
        ELSE /\ h' = IF s.pressed = {} THEN [s EXCEPT !.grabbed = FALSE, !.grab = NoWin] ELSE s
             /\ held' = [held EXCEPT ![b] = NoWin]
             /\ stray' = (stray \/ (Alive(to) /\ held[b] # to))
  /\ UNCHANGED <<ops, c, life, todo, shellUp, mainId, asked, clicked>>

\* process_input_event for a key: it may be the shell overlay's shortcut
PressKey ==
  /\ Idle
  /\ \/ todo' = <<Route, [op |-> "key"]>>
     \/ "shell" \in ops /\ todo' = <<Route, [op |-> "toggle"]>>
  /\ UNCHANGED <<ops, c, life, h, shellUp, mainId, asked, clicked, held, stray>>

-----------------------------------------------------------------------------
(* The control threads, between any two steps of a handler                 *)

runtime == <<ops, life, h, todo, mainId, held, stray>>

ControlAsks ==
  /\ FocusRequests
  /\ asked' = TRUE /\ clicked' = NoWin
  /\ UNCHANGED <<runtime, shellUp>>

ControlToggles ==
  /\ "shell" \in ops
  /\ c' = Toggled(c)
  /\ shellUp' = ~shellUp
  /\ asked' = TRUE /\ clicked' = NoWin
  /\ UNCHANGED runtime

\* The shell overlay's program exits or does not start
ShellEnds ==
  /\ "shell" \in ops /\ shellUp
  /\ shellUp' = FALSE
  /\ c' = [c EXCEPT !.shell = FALSE]
  /\ UNCHANGED <<runtime, asked, clicked>>

ControlChanges ==
  /\ Plans \/ Regions \/ Programs
  /\ UNCHANGED <<runtime, shellUp, asked, clicked>>

-----------------------------------------------------------------------------
CONSTANT Scenarios  \* what happens, the windows that come, the panes that run at first

ASSUME ScenariosAssumption ==
  Scenarios \subseteq [ops : SUBSET {"windows", "hold", "focus", "guarded", "shell", "plans", "hosts",
                              "regions", "programs"},
                       wins : SUBSET Window, panes : SUBSET Pane]

Hosted(p) == [Fresh(FALSE) EXCEPT !.mode = "native", !.id = CHOOSE id \in Ident : TRUE, !.st = "launching"]

Init ==
  /\ \E sc \in Scenarios :
       /\ ops = sc.ops
       /\ life = [w \in Window |-> IF w \in sc.wins THEN "new" ELSE "absent"]
       /\ c = [panes |-> [p \in Pane |-> IF p \in sc.panes THEN Hosted(p) ELSE NoPane],
               pend |-> [p \in Pane |-> NoRev], stopping |-> {}, leaving |-> {},
               accepts |-> sc.panes, regions |-> NoRegions, present |-> [u \in Surface |-> NoGen],
               target |-> NoFocus, gen |-> NoGen, shell |-> FALSE]
  /\ h = [main |-> NoWin, overlay |-> NoWin, root |-> [p \in Pane |-> NoWin],
          dialogs |-> <<>>, popups |-> <<>>, ordinary |-> <<>>, mapped |-> {},
          kbd |-> NoWin, ordFocus |-> NoOrd, focused |-> [p \in Pane |-> NoWin],
          history |-> [p \in Pane |-> <<>>], under |-> NoWin, grabbed |-> FALSE, grab |-> NoWin,
          down |-> {}, pressed |-> {}, canceled |-> {}]
  /\ todo = <<>> /\ shellUp = FALSE /\ mainId = FALSE
  /\ asked = FALSE /\ clicked = NoWin /\ held = [b \in Button |-> NoWin] /\ stray = FALSE

WindowEvents ==
  \E w \in Window :
    \/ MainAppears(w) \/ OverlayAppears(w) \/ RootAppears(w) \/ DialogAppears(w)
    \/ OrdinaryAppears(w) \/ PopupAppears(w) \/ Map(w) \/ Unmap(w)
    \/ TopDestroyed(w) \/ RootDestroyed(w) \/ DialogDestroyed(w) \/ PopupDestroyed(w) \/ OtherDestroyed(w)

Input ==
  \/ \E w \in Window \cup {NoWin} : Motion(w) \/ (\E b \in Button : Press(b, w))
  \/ \E b \in Button : ReleaseButton(b)
  \/ PressKey

Next ==
  \/ Step \/ WindowEvents \/ MainDemoted \/ Input
  \/ ControlAsks \/ ControlToggles \/ ShellEnds \/ ControlChanges

Spec == Init /\ [][Next]_vars

-----------------------------------------------------------------------------
(* Properties                                                              *)

\* A region the main app may draw over a pane is over a native pane and over
\* the very instance it was asked for: no plan, release, snapshot, stop or exit
\* leaves one over a pane that has been given to another program.
RegionsNameTheirPane ==
  c.regions # NoRegions =>
    \A r \in c.regions.at : Shows(c, r.pane) /\ Native(c, r.pane) /\ Instance(c, r.pane) = r.inst

\* A popup that is not routed with a pane: of the main app or the overlay, or
\* left behind by a dialog of a pane whose window is gone
Unrouted(q) == KindOf[q] = "popup" /\ (Owner(q) \in Pane => h.root[Owner(q)] = NoWin)

\* What is reported to have the focus has the keyboard: when no handler runs and
\* no control request waits to be routed, the target is the role of the window
\* with the keyboard, and the focused window of that pane's group is that window.
\* Left out: a destroyed popup that is not routed with a pane, where the keyboard
\* stays until the next key, and an ordinary window that was clicked again while
\* a request waited, which keeps the keyboard although the request is reported.
FocusStatusAgrees ==
  LET k == h.kbd
  IN todo = <<>> /\ ~asked /\ h.ordFocus.target = NoFocus
     /\ ~(k # NoWin /\ ~Alive(k) /\ Unrouted(k))
     => /\ c.target = RoleOf(h, k)
        /\ c.target \in Pane /\ Reported(c, c.target) => ReportedWindow(c, c.target) = k

\* A key typed after a click goes to the window that was clicked (for a popup of
\* the main app or the overlay, to its window), unless something else moved the
\* focus since: another click, a request, a window of its pane that comes or goes.
\* Left out: a popup whose pane has no window any more.
ClickedWindowGetsKeys ==
  todo # <<>> /\ Now = "key" /\ clicked # NoWin =>
    IF ~Unrouted(clicked) THEN h.kbd = clicked
    ELSE ParentOf[clicked] \in {h.main, h.overlay} => h.kbd = ParentOf[clicked]

\* No client is left with a button pressed that is up, and none sees a button
\* let go that it did not see pressed, whichever window of a pane disappears
\* under a held button.
ReleaseMatchesPress ==
  /\ ~stray
  /\ \A b \in Button : Alive(held[b]) => b \in h.down

Before(list, x, y) == \E i, j \in DOMAIN list : i < j /\ list[i] = x /\ list[j] = y
Class(w) == IF KindOf[w] = "popup" /\ Owner(w) \in Pane THEN "panepopup" ELSE KindOf[w]

\* Input goes to the window that is painted on top.  Left out: two dialogs or
\* two popups of one kind, where the newer one gets the input and the older one
\* is painted on top, and popups of the main app, which get the input where the
\* overlay or a pane is painted over them.
InputFollowsPaint ==
  LET hit == HitOrder(h)
      paint == PaintOrder(h)
  IN todo = <<>> =>
     /\ Range(hit) = Range(paint)
     /\ \A x, y \in Range(hit) :
          Class(x) # Class(y) /\ "main" \notin {Owner(x), Owner(y)}
            => (Before(hit, x, y) <=> Before(paint, x, y))
=============================================================================
