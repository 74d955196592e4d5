----------------------------- MODULE SurfaceRoles -----------------------------
(***************************************************************************)
(* Which role a toplevel window gets (src/src/runtime.rs): the main app's  *)
(* window, the overlay, the window or an accessory window of a native      *)
(* pane, or an ordinary window that may be reconsidered later.             *)
(*                                                                         *)
(* A window is matched by the process that owns it with what               *)
(* CompositorState expects.  Launches, exits and stops reach that state in *)
(* any order relative to the windows: LaunchLifecycle says how; here they  *)
(* are an environment that moves the lifecycle of the three slots.  One    *)
(* pane is enough: panes share nothing but the lists modelled here.        *)
(*                                                                         *)
(* Two facts about a window come apart: `conn`, the runtime still knows    *)
(* the client behind it, and `proc`, the process exists.  A window whose   *)
(* client is gone stays in the lists until its destroy callback runs, and  *)
(* the housekeeping of the next frame may come first.                      *)
(***************************************************************************)
EXTENDS Integers, Sequences, FiniteSets, SequencesExt

CONSTANTS
  Window,    \* toplevel windows, each appears once
  Proc,      \* processes
  RootOf,    \* per process: the process its launch token was given to
  Launches,  \* per slot: the processes it may be launched as
  Scenarios  \* who owns which window, and which faults happen beside it

Slot   == {"main", "pane", "shell"}
NoProc == "noproc"
NoWin  == "nowin"
Unknown == "unknown" \* the pid of a launch that stayed unconfirmed
Ident  == {"unnamed", "app", "other"} \* "app" matches the main app's binding

\* A start that stays unconfirmed, a start or a stop that fails, an exit
\* reported of a process that lives, a client that goes before its windows,
\* a stop that is asked for, a pane that is removed and shown again
Faults == {"unconfirmed", "fails", "lost", "gone", "stop", "hide"}

Roots  == UNION {Launches[s] : s \in Slot}

ASSUME ConstantsAssumption ==
  /\ NoProc \notin Proc /\ NoWin \notin Window
  /\ RootOf \in [Proc -> Proc]
  /\ Launches \in [Slot -> SUBSET Proc]
  /\ \A p \in Roots : RootOf[p] = p
  /\ Scenarios \subseteq [owner : [Window -> Proc \cup {NoProc}], faults : SUBSET Faults]

VARIABLES
  owner,    \* who owns which window; NoProc if it never appears
  faults,   \* the faults that may happen
  proc,     \* per process: not started, alive, dead
  conn,     \* processes whose Wayland client the runtime knows
  win,      \* per window: "none", "live", "gone"
  starting, \* per slot: the launch that was not answered yet
  shown,    \* the pane is in CompositorState.panes
  group,    \* launch token of the window group the provider accepts
  g         \* the runtime's lists, and what of CompositorState they depend on

world == <<owner, faults, proc, conn, starting, shown, group>>
vars  == <<world, win, g>>

-----------------------------------------------------------------------------
(* Processes and windows *)

\* pid_matches_or_descends_from: an orphan is reparented and loses its lineage
Descends(c, p) ==
  \/ c = p
  \/ c # NoProc /\ RootOf[c] = p /\ proc[c] = "alive" /\ proc[p] = "alive"

\* process_launch_token_matches: the environment is inherited
HasToken(c, token) ==
  c # NoProc /\ token # NoProc /\ RootOf[c] = token /\ proc[c] = "alive"

ClientPid(w) == IF owner[w] \in conn THEN owner[w] ELSE NoProc

Alive(w) == w \in Window /\ win[w] = "live" /\ owner[w] \in conn

-----------------------------------------------------------------------------
(* What CompositorState expects, and the bridges into it.  A lifecycle is  *)
(* [st, pid, tok, unc]; pid is NoProc while the start is not confirmed,    *)
(* unc says it stayed unconfirmed, tok is the launch token.                *)

Live   == {"launching", "attached"}
Vacant == [st |-> "absent", pid |-> NoProc, tok |-> NoProc, unc |-> FALSE]

\* runtime_expected_main_app_binding_with_token and
\* runtime_expected_native_pane_bindings
Expects(h, s) ==
  /\ h.stops[s] = NoProc
  /\ \/ h.life[s].st \in Live
     \/ h.life[s].st = "exited" /\ h.life[s].tok # NoProc
  /\ s = "pane" => shown

ExpectedPid(h, s) == IF Expects(h, s) THEN h.life[s].pid ELSE NoProc

\* runtime_expected_overlay_binding
OverlayPid(h) ==
  IF h.role /\ h.stops["shell"] = NoProc /\ h.life["shell"].st \in Live
  THEN h.life["shell"].pid ELSE NoProc

\* The lifecycle as the runtime sees it: without the token
Seen(l) == [st |-> l.st, pid |-> l.pid, unc |-> l.unc]

\* The window was not put off: nothing was observed.
NotDeferred == [expected |-> NoProc, client |-> NoProc, life |-> [st |-> "none", pid |-> NoProc, unc |-> FALSE]]

\* runtime_active_overlay_lifecycle
OverlayLife(h) == Seen(IF h.role THEN h.life["shell"] ELSE Vacant)

\* runtime_mark_..._surface_attached_...: launchPid is what was expected
Attaches(l, launchPid) ==
  /\ l.st \in {"launching", "exited"}
  /\ l.pid = launchPid
  /\ l.pid = NoProc => l.unc

AttachedTo(l, client) ==
  [l EXCEPT !.st = "attached", !.pid = IF l.pid = NoProc THEN NoProc ELSE client]

MainAttached(h, launchPid, client) ==
  IF Attaches(h.life["main"], launchPid)
  THEN [h EXCEPT !.life["main"] = AttachedTo(h.life["main"], client)]
  ELSE h

PaneAttached(h, launchPid, client, w) ==
  LET l == h.life["pane"]
      again == /\ l.st = "attached"
               /\ IF l.pid = NoProc THEN launchPid = NoProc ELSE l.pid = client
  IN IF ~shown THEN h
     ELSE IF Attaches(l, launchPid)
          THEN [h EXCEPT !.life["pane"] = AttachedTo(l, client), !.surface = w]
          ELSE IF again THEN [h EXCEPT !.surface = w] ELSE h

\* runtime_mark_..._surface_detached_...
Detaches(l, client) ==
  /\ l.st = "attached" /\ client # NoProc
  /\ IF l.pid = NoProc THEN l.unc ELSE l.pid = client

Detached(l) ==
  [l EXCEPT !.st = "launching", !.pid = IF l.unc THEN NoProc ELSE l.pid]

MainDetached(h, client) ==
  IF Detaches(h.life["main"], client)
  THEN [h EXCEPT !.life["main"] = Detached(h.life["main"])] ELSE h

PaneDetached(h, client) ==
  LET l == h.life["pane"] IN
  IF Detaches(l, client)
  THEN [h EXCEPT !.life["pane"] = Detached(l), !.surface = NoWin]
  ELSE IF l.st = "launching" /\ l.pid = client /\ client # NoProc
       THEN [h EXCEPT !.surface = NoWin] ELSE h

OverlayAttached(h, client) ==
  IF OverlayPid(h) = client /\ h.life["shell"].st = "launching"
  THEN [h EXCEPT !.life["shell"].st = "attached"] ELSE h

OverlayDetached(h, client) ==
  IF client # NoProc /\ OverlayPid(h) = client /\ h.life["shell"].st = "attached"
  THEN [h EXCEPT !.life["shell"].st = "launching"] ELSE h

\* runtime_recover_overlay_binding_for_existing_surface
Recovered(h, client) ==
  IF h.role /\ h.life["shell"].st = "failed"
  THEN [h EXCEPT !.life["shell"] =
          [h.life["shell"] EXCEPT !.st = "attached", !.pid = client, !.unc = FALSE]]
  ELSE h

\* sync_runtime_status_with_roles
Sync(h) == [h EXCEPT !.status = [main |-> h.main, overlay |-> h.overlay]]

-----------------------------------------------------------------------------
(* classify_toplevel *)

OwnsMain(h, c) ==
  /\ Expects(h, "main") /\ c # NoProc
  /\ IF h.life["main"].pid # NoProc THEN Descends(c, h.life["main"].pid)
                                    ELSE HasToken(c, h.life["main"].tok)

\* expected_native_pane_for_toplevel
OwnsPane(h, c) ==
  /\ Expects(h, "pane") /\ c # NoProc
  /\ \/ h.life["pane"].pid # NoProc /\ Descends(c, h.life["pane"].pid)
     \/ HasToken(c, h.life["pane"].tok)

\* A launch or a stop whose outcome may say whose window this is
ChildWorkPending(h, c) ==
  \/ \E s \in Slot : starting[s] # NoProc
  \/ \E s \in Slot : h.stops[s] # NoProc /\ c # NoProc /\ Descends(c, h.stops[s])

Classify(h, w) ==
  LET c       == ClientPid(w)
      mainPid == ExpectedPid(h, "main")
  IN IF OwnsMain(h, c) THEN "main"
     ELSE IF mainPid # NoProc /\ c # NoProc /\ h.ident[w] = "app" THEN "mismatch"
     ELSE IF mainPid # NoProc /\ c = NoProc THEN "pending"
     ELSE IF OwnsPane(h, c) THEN "pane"
     ELSE IF ChildWorkPending(h, c) \/ h.ident[w] = "unnamed" THEN "pending"
     ELSE "overlay"

-----------------------------------------------------------------------------
(* The lists.  ord: windows shown as ordinary content; pend: those to be   *)
(* reconsidered; unres: those retained without a decision; defer: overlay  *)
(* candidates and what was observed when they were put off; await:         *)
(* accessories waiting for the geometry of their pane.                     *)

Drop(seq, w) == SelectSeq(seq, LAMBDA x : x # w)

\* remove_surface_from_unresolved_tracking
Forget(h, w) ==
  [h EXCEPT !.pend = Drop(@, w), !.ord = @ \ {w}, !.unres = @ \ {w},
            !.defer[w] = NotDeferred, !.await = @ \ {w}]

\* retain_ordinary_toplevel
RetainOrdinary(h, w) ==
  IF w \in h.ord THEN h
  ELSE [h EXCEPT !.ord = @ \cup {w}, !.pend = Drop(@, w)]

\* retain_unresolved_toplevel_with_reason
RetainUnresolved(h, w) ==
  [h EXCEPT !.ord = @ \cup {w}, !.unres = @ \cup {w},
            !.pend = IF Contains(@, w) THEN @ ELSE Append(@, w)]

\* overlay_admission_observation
Observation(h, w) ==
  [expected |-> OverlayPid(h), client |-> ClientPid(w), life |-> OverlayLife(h)]

\* retain_unresolved_overlay_toplevel_with_observation
Defer(h, w) == [RetainUnresolved(h, w) EXCEPT !.defer[w] = Observation(h, w)]

\* Mistake: the demoted window is forgotten instead of retained.
EnforceMainAndForget(h) ==
  LET c == ClientPid(h.main) IN
  IF \/ h.main = NoWin \/ ~Expects(h, "main") \/ c = NoProc \/ OwnsMain(h, c)
  THEN h
  ELSE Sync(Forget([MainDetached(h, c) EXCEPT !.main = NoWin], h.main))

\* enforce_main_app_binding_policy
EnforceMain(h) ==
  LET c == ClientPid(h.main) IN
  IF \/ h.main = NoWin \/ ~Expects(h, "main") \/ c = NoProc \/ OwnsMain(h, c)
  THEN h
  ELSE LET free == Forget([MainDetached(h, c) EXCEPT !.main = NoWin], h.main)
       IN Sync(IF Alive(h.main) THEN RetainOrdinary(free, h.main) ELSE free)

\* Mistake: an exit that is reported while the process lives removes the overlay.
DispositionTrustsReport(h, c) ==
  LET l == OverlayLife(h)
      owned == l.pid # NoProc /\ l.pid = c
  IN CASE l.st \in Live /\ owned -> "keep"
       [] l.st = "failed" /\ c # NoProc /\ proc[c] = "alive" -> "keep"
       [] l.st = "exited" /\ owned -> "remove"
       [] OTHER -> "retain"

\* overlay_surface_disposition
Disposition(h, c) ==
  LET l == OverlayLife(h)
      owned == l.pid # NoProc /\ l.pid = c
  IN CASE l.st \in Live /\ owned -> "keep"
       [] l.st = "failed" /\ c # NoProc /\ proc[c] = "alive" -> "keep"
       [] l.st = "exited" /\ owned /\ proc[c] = "dead" -> "remove"
       [] OTHER -> "retain"

\* enforce_overlay_binding_policy
EnforceOverlay(h) ==
  LET w == h.overlay
      c == ClientPid(w)
      free == Forget([h EXCEPT !.overlay = NoWin], w)
  IN IF w = NoWin THEN h
     ELSE CASE Disposition(h, c) = "keep" -> Recovered(h, c)
            [] Disposition(h, c) = "remove" ->
                 Sync([free EXCEPT !.closing = @ \cup {w}])
            [] OTHER -> Sync(Defer(free, w))

-----------------------------------------------------------------------------
(* Assigning a role.  A role that becomes taken makes the pending windows  *)
(* be looked at again, which may assign the other one.                     *)

RECURSIVE Promoted(_)

\* assign_main_role
AssignMain(h, w) ==
  IF h.main = w THEN h
  ELSE IF h.main # NoWin \/ ClientPid(w) = NoProc THEN RetainOrdinary(h, w)
  ELSE Sync(Promoted(MainAttached([h EXCEPT !.main = w],
                                 ExpectedPid(h, "main"), ClientPid(w))))

\* The provider accepts further windows of this launch.
AcceptsSecondary(h, c) ==
  /\ group # NoProc /\ Expects(h, "pane") /\ group = h.life["pane"].tok
  /\ \/ h.life["pane"].pid # NoProc /\ Descends(c, h.life["pane"].pid)
     \/ HasToken(c, group)

\* assign_native_pane_accessory_or_retain_unresolved
AssignAccessory(h, w) ==
  IF shown THEN Sync([h EXCEPT !.acc = @ \cup {w}])
  ELSE RetainUnresolved([h EXCEPT !.await = @ \cup {w}], w)

\* assign_native_pane_role
AssignPane(h, w) ==
  LET c   == ClientPid(w)
      pid == h.life["pane"].pid
  IN IF c = NoProc THEN RetainOrdinary(h, w)
     ELSE IF h.native = w THEN PaneAttached(h, pid, c, w)
     ELSE IF h.native = NoWin
          THEN Sync(Promoted(PaneAttached([h EXCEPT !.native = w], pid, c, w)))
     ELSE IF AcceptsSecondary(h, c) THEN AssignAccessory(h, w)
     ELSE RetainOrdinary(h, w)

\* overlay_lifecycle_is_unconfirmed
OverlayUnconfirmed(h) ==
  \/ OverlayLife(h).st \in Live /\ OverlayLife(h).pid = NoProc
  \/ OverlayLife(h).st \in {"failed", "exited"}

\* assign_overlay_role_or_queue
AssignOverlay(h, w) ==
  LET c == ClientPid(w)
      expected == OverlayPid(h)
  IN IF c = NoProc THEN Defer(h, w)
     ELSE IF expected = NoProc
          THEN IF OverlayUnconfirmed(h) THEN Defer(h, w) ELSE RetainOrdinary(h, w)
     ELSE IF c # expected THEN Defer(h, w)
     ELSE IF h.overlay # NoWin THEN RetainOrdinary(h, w)
     ELSE Sync(OverlayAttached([h EXCEPT !.overlay = w], c))

\* assign_toplevel_role
Assign(h0, w) ==
  LET class == Classify(h0, w)
      h     == [h0 EXCEPT !.pend = Drop(@, w)]
      fresh == EnforceMain(Forget(h, w))
      \* a window that is shown already stays where it is until it is decided
      tried   == AssignOverlay(EnforceMain([h EXCEPT !.defer[w] = NotDeferred]), w)
      decided == IF tried.overlay = w THEN Forget(tried, w)
                 ELSE [tried EXCEPT !.pend = Drop(@, w), !.unres = @ \ {w}]
  IN CASE class = "pending"  -> RetainUnresolved(h, w)
       [] class = "overlay" /\ w \in h.unres ->
            IF tried.defer[w] # NotDeferred THEN tried ELSE decided
       [] class = "overlay" /\ w \notin h.unres -> AssignOverlay(fresh, w)
       [] class = "main"     -> AssignMain(fresh, w)
       [] class = "mismatch" -> RetainOrdinary(fresh, w)
       [] class = "pane"     -> AssignPane(fresh, w)

\* One turn of the loop of promote_pending_toplevels
Reconsider(h, w) ==
  LET queued == [h EXCEPT !.pend = Append(@, w)]
      known  == [h EXCEPT !.await = @ \ {w}]
  IN IF w \in h.await /\ ~shown THEN queued
     ELSE IF /\ Classify(known, w) = "overlay"
             /\ h.defer[w] # NotDeferred /\ h.defer[w] = Observation(known, w)
          THEN [known EXCEPT !.pend = Append(@, w)]
     ELSE IF Classify(known, w) = "pending" THEN RetainUnresolved(known, w)
     ELSE Assign(known, w)

\* Mistake: only the first window of the queue is looked at.
PromotedFirst(h) ==
  IF h.pend = <<>> THEN h
  ELSE LET k == Reconsider([h EXCEPT !.pend = <<>>], Head(h.pend))
       IN [k EXCEPT !.pend = @ \o Tail(h.pend)]

\* promote_pending_toplevels.  A nested call follows a role that was free and
\* is taken now; there are two such roles, so the calls nest at most thrice.
Promoted(h) == FoldLeft(Reconsider, [h EXCEPT !.pend = <<>>], h.pend)

\* new_toplevel
NewToplevel(h, w) == Assign(h, w)

\* handle_surface_identity_update, the identity is known by then
IdentityUpdated(h, w) ==
  LET c    == ClientPid(w)
      main == IF h.main = NoWin /\ Classify(h, w) = "main"
              THEN AssignMain(h, w) ELSE h
      pane == IF OwnsPane(main, c) /\ main.native # w /\ w \notin main.acc
              THEN AssignPane(main, w) ELSE main
      bound == IF pane.main = w /\ c # NoProc THEN MainAttached(pane, c, c) ELSE pane
  IN IF w \in h.ord THEN Assign([h EXCEPT !.ord = @ \ {w}], w)
     ELSE EnforceMain(bound)

\* Whose window it was: the client, or who was expected if it is gone already
OwnerOr(w, expected) == IF ClientPid(w) # NoProc THEN ClientPid(w) ELSE expected

\* The main and the overlay window are let go and their slots wait again.
LetGo(h, w) ==
  LET main == IF h.main # w THEN h
              ELSE [MainDetached(h, OwnerOr(w, ExpectedPid(h, "main")))
                      EXCEPT !.main = NoWin]
  IN IF main.overlay # w THEN main
     ELSE [OverlayDetached(main, OwnerOr(w, OverlayPid(main)))
             EXCEPT !.overlay = NoWin]

\* toplevel_destroyed
ToplevelDestroyed(h0, w) ==
  LET h    == LetGo([h0 EXCEPT !.unres = @ \ {w}, !.pend = Drop(@, w), !.ord = @ \ {w}], w)
      pane == IF ClientPid(w) # NoProc THEN PaneDetached(h, ClientPid(w)) ELSE h
      rest == IF h.native = w
              THEN [pane EXCEPT !.native = NoWin, !.acc = {}, !.closing = @ \cup h.acc]
              ELSE [h EXCEPT !.acc = @ \ {w}]
  IN Sync(Promoted(rest))

\* prune_dead_surfaces
Pruned(h0) ==
  LET listed == [h0 EXCEPT !.pend = SelectSeq(@, Alive), !.ord = {w \in @ : Alive(w)}]
      known  == [listed EXCEPT !.unres = @ \cap listed.ord, !.await = @ \cap listed.ord]
      held   == EnforceOverlay(EnforceMain(known))
      dead   == {w \in {held.main, held.overlay} \ {NoWin} : ~Alive(w)}
      freed  == FoldLeft(LetGo, held, SetToSeq(dead))
      native == IF Alive(freed.native) THEN freed ELSE [freed EXCEPT !.native = NoWin]
  IN Sync(Promoted(native))

\* move_accessories_without_geometry_to_unresolved
Restaged(h) ==
  IF shown THEN h
  ELSE FoldLeft(RetainUnresolved, [h EXCEPT !.await = @ \cup h.acc, !.acc = {}],
                SetToSeq(h.acc))

-----------------------------------------------------------------------------
(* The windows *)

WindowAppears(w) ==
  /\ win[w] = "none" /\ owner[w] # NoProc /\ proc[owner[w]] = "alive" /\ owner[w] \in conn
  /\ win' = [win EXCEPT ![w] = "live"]
  /\ g' = NewToplevel(g, w)
  /\ UNCHANGED world

\* app_id_changed, title_changed
Announces(w, id) ==
  /\ win[w] = "live" /\ owner[w] \in conn
  /\ g.ident[w] = "unnamed" /\ id # "unnamed"
  /\ g' = IdentityUpdated([g EXCEPT !.ident[w] = id], w)
  /\ UNCHANGED <<world, win>>

\* The client destroys its window, or the client is gone and the destructor runs.
WindowDestroyed(w) ==
  /\ win[w] = "live"
  /\ win' = [win EXCEPT ![w] = "gone"]
  /\ g' = ToplevelDestroyed(g, w)
  /\ UNCHANGED world

Tick ==
  /\ g' = Pruned(g)
  /\ UNCHANGED <<world, win>>

PromotePending ==
  /\ g' = Promoted(g)
  /\ UNCHANGED <<world, win>>

StageRoleConfigures ==
  /\ g' = Restaged(g)
  /\ UNCHANGED <<world, win>>

-----------------------------------------------------------------------------
(* The environment: processes, CompositorState and the provider *)

Family(p) == {c \in Proc : RootOf[c] = p}
Owns(p)   == \E w \in Window : owner[w] = p
Shows(p)  == \E c \in Family(p) : Owns(c)
Plays(s)  == \E p \in Launches[s] : Shows(p)

ProcessStarts(p) ==
  /\ \/ proc[p] = "asked"
     \/ proc[p] = "new" /\ p \notin Roots /\ Owns(p) /\ proc[RootOf[p]] = "alive"
  /\ proc' = [proc EXCEPT ![p] = "alive"]
  /\ conn' = conn \cup {p}
  /\ UNCHANGED <<owner, faults, starting, shown, group, win, g>>

ProcessDies(p) ==
  /\ proc[p] = "alive"
  /\ proc' = [proc EXCEPT ![p] = "dead"]
  /\ UNCHANGED <<owner, faults, conn, starting, shown, group, win, g>>

\* The server notices that the client is gone; its windows are not alive any more.
ClientGone(p) ==
  /\ p \in conn /\ (proc[p] = "alive" => "gone" \in faults) /\ Owns(p)
  /\ conn' = conn \ {p}
  /\ UNCHANGED <<owner, faults, proc, starting, shown, group, win, g>>

\* request_process_spawn for the slot
Launch(s) ==
  /\ starting[s] = NoProc /\ g.stops[s] = NoProc /\ g.life[s].st \notin Live
  /\ s = "pane" => shown
  /\ s = "shell" => g.role
  /\ \E p \in Launches[s] :
       /\ proc[p] = "new" /\ Shows(p)
       /\ proc' = [proc EXCEPT ![p] = "asked"]
       /\ starting' = [starting EXCEPT ![s] = p]
       /\ g' = IF s = "pane"
               THEN [g EXCEPT !.life["pane"].tok = p, !.surface = NoWin] ELSE g
  /\ UNCHANGED <<owner, faults, conn, shown, group, win>>

\* What a new lifecycle takes away from the status
Lifecycle(h, s, l) ==
  [h EXCEPT !.life[s] = l,
            !.surface = IF s = "pane" THEN NoWin ELSE @,
            !.status.main = IF s = "main" THEN NoWin ELSE @]

Answered(s, l) ==
  /\ starting[s] # NoProc
  /\ starting' = [starting EXCEPT ![s] = NoProc]
  /\ g' = Lifecycle(g, s, l)
  /\ UNCHANGED <<owner, faults, conn, shown, group, win>>

StartConfirmed(s) ==
  /\ starting[s] # NoProc /\ proc[starting[s]] # "asked"
  /\ Answered(s, [st |-> "launching", pid |-> starting[s], tok |-> starting[s], unc |-> FALSE])
  /\ UNCHANGED proc

StartUnconfirmed(s) ==
  /\ "unconfirmed" \in faults
  /\ Answered(s, [st |-> "launching", pid |-> NoProc, tok |-> starting[s], unc |-> TRUE])
  /\ UNCHANGED proc

StartFails(s) ==
  /\ "fails" \in faults
  /\ starting[s] # NoProc /\ proc[starting[s]] = "asked"
  /\ proc' = [proc EXCEPT ![starting[s]] = "dead"]
  /\ Answered(s, [Vacant EXCEPT !.st = "failed"])

\* An exit is reported of the process that was launched, not of a descendant
\* whose pid the slot took over; if its supervisor was lost it may go on.
ExitReported(s) ==
  LET l == g.life[s] IN
  /\ l.st \in Live /\ l.pid \in {NoProc, l.tok}
  /\ l.pid = NoProc \/ "lost" \notin faults => proc[l.tok] = "dead"
  /\ g' = Lifecycle(g, s, [l EXCEPT !.st = "exited"])
  /\ UNCHANGED <<world, win>>

StopAsked(h, s) ==
  IF h.life[s].st \in Live /\ h.stops[s] = NoProc
  THEN [h EXCEPT !.stops[s] = IF h.life[s].pid = NoProc THEN Unknown ELSE h.life[s].pid]
  ELSE IF h.stops[s] = NoProc THEN [h EXCEPT !.life[s] = Vacant] ELSE h

Stop(s) ==
  /\ "stop" \in faults /\ s # "shell" /\ starting[s] = NoProc
  /\ g.life[s].st \in Live /\ g.stops[s] = NoProc
  /\ g' = StopAsked(g, s)
  /\ UNCHANGED <<world, win>>

StopEnds(s) ==
  /\ g.stops[s] # NoProc
  /\ g.stops[s] \in Proc => proc[g.stops[s]] = "dead"
  /\ g' = Lifecycle([g EXCEPT !.stops[s] = NoProc], s, Vacant)
  /\ UNCHANGED <<world, win>>

StopFails(s) ==
  /\ "fails" \in faults
  /\ g.stops[s] # NoProc
  /\ g' = Lifecycle([g EXCEPT !.stops[s] = NoProc], s,
                  IF s = "pane" /\ ~shown THEN Vacant ELSE [Vacant EXCEPT !.st = "failed"])
  /\ UNCHANGED <<world, win>>

\* toggle_shell_overlay: open_shell_overlay and dismiss_shell_overlay
Toggled(h) ==
  IF h.role THEN [StopAsked(h, "shell") EXCEPT !.role = FALSE]
  ELSE [h EXCEPT !.role = TRUE]

\* handle_shell_overlay_toggle, or the same through the control socket
ToggleShell(byKey) ==
  /\ Plays("shell")
  /\ starting' = [starting EXCEPT !["shell"] = NoProc]
  /\ g' = IF byKey THEN Sync(EnforceOverlay(Toggled(g))) ELSE Toggled(g)
  /\ UNCHANGED <<owner, faults, proc, conn, shown, group, win>>

\* A provider snapshot without the pane, and one with it again
PaneRemoved ==
  /\ "hide" \in faults /\ shown /\ Plays("pane")
  /\ shown' = FALSE /\ group' = NoProc
  /\ starting' = [starting EXCEPT !["pane"] = NoProc]
  /\ g' = Lifecycle(StopAsked(g, "pane"), "pane", Vacant)
  /\ UNCHANGED <<owner, faults, proc, conn, win>>

PaneShown ==
  /\ ~shown
  /\ shown' = TRUE
  /\ UNCHANGED <<owner, faults, proc, conn, starting, group, win, g>>

\* The provider records a window group for the launch that is wanted.
AcceptGroup ==
  /\ shown /\ g.life["pane"].tok # NoProc
  /\ group' = g.life["pane"].tok
  /\ UNCHANGED <<owner, faults, proc, conn, starting, shown, win, g>>

-----------------------------------------------------------------------------

Init ==
  /\ \E sc \in Scenarios : owner = sc.owner /\ faults = sc.faults
  /\ proc = [p \in Proc |-> "new"]
  /\ conn = {} /\ group = NoProc /\ shown = TRUE
  /\ win = [w \in Window |-> "none"]
  /\ starting = [s \in Slot |-> NoProc]
  /\ g = [main |-> NoWin, overlay |-> NoWin, native |-> NoWin, acc |-> {},
          ord |-> {}, pend |-> <<>>, unres |-> {}, await |-> {},
          defer |-> [w \in Window |-> NotDeferred], closing |-> {},
          ident |-> [w \in Window |-> "unnamed"],
          status |-> [main |-> NoWin, overlay |-> NoWin],
          surface |-> NoWin, role |-> FALSE,
          life |-> [s \in Slot |-> Vacant], stops |-> [s \in Slot |-> NoProc]]

Runtime == Tick \/ PromotePending \/ StageRoleConfigures

Windows ==
  \E w \in Window :
    \/ WindowAppears(w)
    \/ \E id \in Ident : Announces(w, id)
    \/ WindowDestroyed(w)

Environment ==
  \/ \E p \in Proc : ProcessStarts(p) \/ ProcessDies(p) \/ ClientGone(p)
  \/ \E s \in Slot : \/ Launch(s) \/ StartConfirmed(s) \/ StartUnconfirmed(s)
                     \/ StartFails(s) \/ ExitReported(s)
                     \/ Stop(s) \/ StopEnds(s) \/ StopFails(s)
  \/ \E byKey \in BOOLEAN : ToggleShell(byKey)
  \/ PaneRemoved \/ PaneShown \/ AcceptGroup

Next == Runtime \/ Windows \/ Environment

Spec == Init /\ [][Next]_vars

-----------------------------------------------------------------------------
(* Properties *)

Lifecycles == [st  : {"absent", "launching", "attached", "exited", "failed"},
               pid : Proc \cup {NoProc}, tok : Proc \cup {NoProc}, unc : BOOLEAN]

\* Every list holds windows, every slot has a lifecycle, and one that runs
\* names its process unless the start stayed unconfirmed.
TypeOK ==
  /\ [owner |-> owner, faults |-> faults] \in Scenarios
  /\ proc \in [Proc -> {"new", "asked", "alive", "dead"}]
  /\ conn \subseteq Proc /\ group \in Proc \cup {NoProc} /\ shown \in BOOLEAN
  /\ win \in [Window -> {"none", "live", "gone"}]
  /\ starting \in [Slot -> Proc \cup {NoProc}]
  /\ {g.main, g.overlay, g.native, g.surface, g.status.main, g.status.overlay}
       \subseteq Window \cup {NoWin}
  /\ g.acc \cup g.ord \cup g.unres \cup g.await \cup g.closing \subseteq Window
  /\ g.pend \in Seq(Window) /\ g.ident \in [Window -> Ident]
  /\ g.life \in [Slot -> Lifecycles]
  /\ \A s \in Slot : g.life[s].st \in Live /\ g.life[s].pid = NoProc => g.life[s].unc
  /\ g.stops \in [Slot -> Proc \cup {NoProc, Unknown}] /\ g.role \in BOOLEAN

Places(w) == {<<"main", g.main>>, <<"overlay", g.overlay>>, <<"native", g.native>>,
              <<"acc", IF w \in g.acc THEN w ELSE NoWin>>,
              <<"ord", IF w \in g.ord THEN w ELSE NoWin>>}

\* A window has one role or is ordinary content, and never both or two roles;
\* whatever the policies take away or put off, a window that was not asked to
\* close stays visible, and a window that is gone is in no list.
OnePlace ==
  \A w \in Window :
    LET n == Cardinality({place \in Places(w) : place[2] = w}) IN
    /\ n <= 1
    /\ Alive(w) /\ w \notin g.closing => n = 1
    /\ win[w] = "gone" => n = 0

\* A window is reconsidered exactly as long as no decision was made for it,
\* once, and it is shown as ordinary content meanwhile.
UndecidedIsQueued ==
  /\ ToSet(g.pend) = g.unres /\ g.unres \subseteq g.ord
  /\ Len(g.pend) = Cardinality(g.unres)

\* The status never names a window that does not hold the role.
StatusNamesRoles ==
  g.status.main \in {NoWin, g.main} /\ g.status.overlay = g.overlay

\* A confirmed main app is only called attached while a window of it holds
\* the role: however the window goes, its slot returns to launching.
AttachedHasWindow ==
  /\ g.life["main"].st = "attached" /\ g.life["main"].pid # NoProc
  /\ g.stops["main"] = NoProc
  => g.main # NoWin

\* The lists of windows, the queue of those put off, the status and the
\* attachment of the main app agree with one another.
RolesAreWhole ==
  TypeOK /\ OnePlace /\ UndecidedIsQueued /\ StatusNamesRoles /\ AttachedHasWindow

\* After the housekeeping of a frame the roles belong to whom they are
\* expected to belong to, whatever happened in between.
RolesMatchOwners ==
  [][Tick => /\ g'.main # NoWin /\ Expects(g', "main") /\ ClientPid(g'.main) # NoProc
                  => OwnsMain(g', ClientPid(g'.main))
             /\ g'.overlay # NoWin => Disposition(g', ClientPid(g'.overlay)) = "keep"]_vars

\* Doubt never sends a close request: a window is closed only after its
\* process is gone or when the primary window of its pane was destroyed.
CloseOnlyWhenCertain ==
  [][\A w \in g'.closing \ g.closing :
       \/ w = g.overlay /\ proc[owner[w]] = "dead"
       \/ w \in g.acc /\ g'.native # g.native]_vars

\* What a window that was put off waits for has come: it is the main app's, a
\* window of a pane that is shown, or the overlay that is expected.
Decidable(w) ==
  LET class == Classify(g, w) IN
  /\ Alive(w) /\ w \in g.unres
  /\ \/ class \in {"main", "mismatch"}
     \/ class = "pane" /\ shown
     \/ class = "overlay" /\ g.overlay = NoWin /\ OverlayPid(g) = ClientPid(w)

\* No window waits longer than a frame for a role that it could have: the
\* housekeeping looks again at every window whose answer has come, also when
\* another window was given its role in the same pass.
UndecidedIsDecided == [][Tick => \A w \in Window : ~Decidable(w)']_vars

\* A frame's housekeeping leaves every role with its owner and no window
\* waiting for what has come.
TicksSettleRoles == RolesMatchOwners /\ UndecidedIsDecided

==============================================================================
