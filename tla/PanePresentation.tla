--------------------------- MODULE PanePresentation ---------------------------
(***************************************************************************)
(* What CompositorState (src/src/state.rs) keeps of the native panes for   *)
(* those who show them and those who ask for focus: which pane shows which *)
(* program, the regions the main app may draw over a pane, how recent the  *)
(* presentation is that a client built its request from, who has the       *)
(* focus, and the window group that is reported of a pane.                 *)
(*                                                                         *)
(* The state is one record behind one lock, so a control request is one    *)
(* action.  LaunchLifecycle says how programs start and stop; here they    *)
(* start, exit and are stopped at any time, all of them confirmed.         *)
(***************************************************************************)
EXTENDS Naturals, FiniteSets

CONSTANTS
  Pane,      \* ids of panes
  Window,    \* protocol ids of the windows of the panes' programs
  Ident,     \* what a host request shows: command, content and launch token
  Bind,      \* ids of native host bindings
  Surface,   \* surfaces a presentation is built for
  Inst,      \* pane instances a presentation names
  MaxRev     \* bound of every revision

NoPane    == [mode |-> "nopane"]
NoBind    == "nobind"
NoInst    == "noinst"
NoRev     == MaxRev + 1  \* no launch is pending
NoWin     == "nowin"
NoGroup   == [foc |-> "nogroup"]
NoGen     == [surf |-> "nogen"]
NoRegions == [key |-> "noregions"]
NoFocus   == "none"
Rev       == 0 .. MaxRev
Key       == {"main#1", "main#2"}  \* surface and window of a region set
Target    == {NoFocus, "main", "overlay"} \cup Pane

ASSUME PresentationAssumption ==
  /\ MaxRev \in Nat
  /\ NoBind \notin Bind /\ NoInst \notin Inst /\ NoWin \notin Window
  /\ IsFiniteSet(Pane) /\ Pane \cap {NoFocus, "main", "overlay"} = {}

VARIABLES
  ops,   \* the kinds of requests and events that happen
  c      \* CompositorState

-----------------------------------------------------------------------------
(* Parts of CompositorState: `panes`, the revision a pending launch was    *)
(* made for, panes whose program is being stopped, panes with an earlier   *)
(* program or a cancelled launch still on its way out, panes that accept a *)
(* window group, presentations, focus and the shell overlay.               *)

Fresh(prov) ==
  [mode |-> "plain", id |-> "noident", bind |-> NoBind, rev |-> 0,
   prov |-> prov, st |-> "off", group |-> NoGroup]

Shows(s, p)   == s.panes[p].mode # "nopane"
Native(s, p)  == s.panes[p].mode = "native"
Running(s, p) == Shows(s, p) /\ s.panes[p].st # "off"
Pending(s, p) == s.pend[p] # NoRev
\* pending_native_pane_stop
Stopping(s, p) == p \in s.stopping \cup s.leaving

\* pane_instance_id: the binding or, without one, the pane's revision
Instance(s, p) ==
  [bind |-> s.panes[p].bind, rev |-> IF s.panes[p].bind = NoBind THEN s.panes[p].rev ELSE 0]

\* pane_allows_overlay_regions, pane_retains_overlay_regions
AllowsRegions(s, p) == Shows(s, p) /\ Native(s, p) /\ s.panes[p].st # "off"

\* Mutant of Pruned: the pane's mode is looked at, its instance is not
PrunedByMode(s) ==
  IF s.regions = NoRegions THEN s
  ELSE LET kept == {r \in s.regions.at : AllowsRegions(s, r.pane)}
       IN [s EXCEPT !.regions = IF kept = {} THEN NoRegions ELSE [@ EXCEPT !.at = kept]]

\* prune_stale_overlay_regions
Pruned(s) ==
  IF s.regions = NoRegions THEN s
  ELSE LET kept == {r \in s.regions.at : AllowsRegions(s, r.pane) /\ Instance(s, r.pane) = r.inst}
       IN [s EXCEPT !.regions = IF kept = {} THEN NoRegions ELSE [@ EXCEPT !.at = kept]]

\* The pending launch is cancelled, the running program is asked to stop
Abandoned(s, p) ==
  [s EXCEPT !.pend[p]  = NoRev,
            !.leaving  = IF Pending(s, p) THEN @ \cup {p} ELSE @,
            !.stopping = IF Running(s, p) THEN @ \cup {p} ELSE @]

\* A pane is gone: what still runs of it is nobody's present program
Forgotten(s, p) ==
  [s EXCEPT !.panes[p] = NoPane,
            !.leaving  = IF p \in s.stopping THEN @ \cup {p} ELSE @,
            !.stopping = @ \ {p}]

\* launch_native_pane_hosts for one pane, the request accepted
Wanted(s, p) == Native(s, p) /\ s.panes[p].st = "off" /\ ~Pending(s, p) /\ ~Stopping(s, p)

Requested(s, p) ==
  IF Wanted(s, p)
  THEN [s EXCEPT !.pend[p] = s.panes[p].rev, !.panes[p].group = NoGroup] ELSE s

-----------------------------------------------------------------------------
(* Presentations.  A client names the surface, its epoch and three         *)
(* revisions; a later request must not be older than what was recorded.    *)

Older(a, b) ==
  \/ a.topo < b.topo
  \/ a.topo = b.topo /\ a.geom < b.geom
  \/ a.topo = b.topo /\ a.geom = b.geom /\ a.foc < b.foc

\* validate_native_pane_presentation_generation
NotStale(s, gen) ==
  LET cur == s.present[gen.surf]
  IN ~(cur # NoGen /\ cur.ep = gen.ep /\ Older(gen, cur))

\* record_native_pane_presentation_generation: instances are merged
Recorded(s, gen) ==
  LET cur == s.present[gen.surf]
      insts == [p \in Pane |-> IF gen.insts[p] = NoInst /\ cur # NoGen
                               THEN cur.insts[p] ELSE gen.insts[p]]
  IN [s EXCEPT !.present[gen.surf] = [gen EXCEPT !.insts = insts]]

\* validate_native_pane_host_group_requests
GroupFits(r, gen) ==
  r.group # NoInst => gen # NoGen /\ gen.insts[r.pane] = r.group

\* apply_native_pane_host_plan for one pane
Applied(s, r) ==
  LET p       == r.pane
      old     == s.panes[p]
      changed == Shows(s, p) /\ (old.mode # "native" \/ old.id # r.id \/ old.bind # r.bind)
      s1 == IF changed THEN Abandoned(s, p) ELSE s
      base == IF Shows(s, p) THEN old ELSE Fresh(FALSE)
  IN Pruned([s1 EXCEPT
       !.panes[p] = [base EXCEPT !.mode = "native", !.id = r.id, !.bind = r.bind, !.rev = r.rev,
                                 !.group = IF changed THEN NoGroup ELSE @],
       !.accepts = IF r.group # NoInst THEN @ \cup {p} ELSE IF changed THEN @ \ {p} ELSE @])

-----------------------------------------------------------------------------
(* Requests of the control clients                                         *)

Generation  == [surf : Surface, ep : Rev, topo : Rev, geom : Rev, foc : Rev,
                insts : [Pane -> Inst \cup {NoInst}]]

\* NativePaneHost: a launch that fails leaves the plan without its generation
HostPlan(r, gen) ==
  /\ gen # NoGen => NotStale(c, gen)
  /\ GroupFits(r, gen)
  /\ LET s == Applied(c, r)
     IN \/ c' = LET q == Requested(s, r.pane) IN IF gen = NoGen THEN q ELSE Recorded(q, gen)
        \/ /\ Wanted(s, r.pane)
           /\ c' = [s EXCEPT !.panes[r.pane].group = NoGroup]

\* NativePaneUpdate
UpdatePlan(r, gen) ==
  /\ gen # NoGen => NotStale(c, gen)
  /\ GroupFits(r, gen)
  /\ LET s == Applied(c, r) IN c' = IF gen = NoGen THEN s ELSE Recorded(s, gen)

\* switch_pane_to_surf_ace; the pane of a plan is removed when it is released
Plain(s, p) ==
  LET s1 == Abandoned(s, p)
  IN Pruned([s1 EXCEPT !.panes[p] = [@ EXCEPT !.mode = "plain", !.id = "noident", !.bind = NoBind,
                                              !.rev = 0, !.group = NoGroup],
                       !.accepts = @ \ {p}])

SwitchToSurfAce(p) == Shows(c, p) /\ c' = Plain(c, p)

Release(p) ==
  /\ Shows(c, p)
  /\ LET s == Plain(c, p)
     IN c' = IF s.panes[p].prov THEN s ELSE Pruned(Forgotten(s, p))

\* apply_provider_snapshot: the group requests of removed panes stay
ProviderSnapshot(shown) ==
  LET gone == {p \in Pane \ shown : Shows(c, p)}
      left == [c EXCEPT
        !.panes = [p \in Pane |->
          IF p \notin shown THEN NoPane
          ELSE IF Shows(c, p) THEN [c.panes[p] EXCEPT !.prov = TRUE] ELSE Fresh(TRUE)],
        !.pend = [p \in Pane |-> IF p \in gone THEN NoRev ELSE @[p]],
        !.leaving = @ \cup {p \in gone : Pending(c, p) \/ Running(c, p)},
        !.stopping = @ \ gone]
  IN c' = Pruned(left)

\* switch_pane_to_external_native does not look at what is still stopping
SwitchToExternal(p, id) ==
  /\ Shows(c, p) /\ ~Running(c, p) /\ ~Pending(c, p)
  /\ LET s == [c EXCEPT !.panes[p] = [@ EXCEPT !.mode = "native", !.id = id, !.group = NoGroup]]
     IN c' \in {s, [s EXCEPT !.pend[p] = c.panes[p].rev]}

LaunchHost(p) ==
  /\ Shows(c, p) /\ Native(c, p)
  /\ Wanted(c, p)
  /\ c' \in {Requested(c, p), [c EXCEPT !.panes[p].group = NoGroup]}

\* set_overlay_regions, for the present topology epoch: any other is refused
SetRegions(key, rev, at) ==
  /\ c.regions # NoRegions /\ c.regions.key = key => rev > c.regions.rev
  /\ \A r \in at : AllowsRegions(c, r.pane) /\ Instance(c, r.pane) = r.inst
  /\ LET s == IF at = {} THEN Pruned(c) ELSE c
         keeps == at = {} /\ s.regions # NoRegions /\ s.regions.key = key /\ s.regions.at # {}
     IN c' = [s EXCEPT !.regions = IF keeps THEN [@ EXCEPT !.rev = rev]
                                   ELSE [key |-> key, rev |-> rev, at |-> at]]

ClearRegions(key) ==
  /\ c.regions # NoRegions /\ c.regions.key = key
  /\ c' = [c EXCEPT !.regions = NoRegions]

\* SetRuntimeFocusTarget and ClearRuntimeFocusTarget without a generation
SetFocus(t) == c' = [c EXCEPT !.target = t, !.gen = NoGen]

\* set_runtime_focus_target_guarded
SetFocusGuarded(t, gen) ==
  LET cur == c.present[gen.surf]
  IN /\ cur # NoGen
     /\ cur.ep = gen.ep /\ cur.topo = gen.topo /\ cur.geom = gen.geom /\ gen.foc >= cur.foc
     /\ t \in Pane => gen.pane = t /\ gen.inst = cur.insts[t] /\ Shows(c, t)
     /\ t = NoFocus => gen.pane = NoFocus /\ gen.inst = NoInst
     /\ c' = [c EXCEPT !.present[gen.surf].foc = gen.foc, !.target = t, !.gen = gen]

-----------------------------------------------------------------------------
(* What the runtime does under the lock                                    *)

\* runtime_focus_native_pane_from_compositor: any presentation that names
\* the pane may be the one that is taken
FocusedFrom(s, p, advance) ==
  LET naming == {u \in Surface : s.present[u] # NoGen /\ s.present[u].insts[p] # NoInst}
      by(u) == LET foc == s.present[u].foc + (IF advance /\ s.present[u].foc < MaxRev THEN 1 ELSE 0)
               IN [s EXCEPT !.target = p, !.present[u].foc = foc,
                            !.gen = [surf |-> u, ep |-> s.present[u].ep, topo |-> s.present[u].topo,
                                     geom |-> s.present[u].geom, foc |-> foc,
                                     pane |-> p, inst |-> s.present[u].insts[p]]]
  IN IF naming = {} THEN {[s EXCEPT !.target = p, !.gen = NoGen]} ELSE {by(u) : u \in naming}

\* runtime_set_native_pane_window_group_focus; members are never dropped
GroupFocused(s, p, w, members) ==
  IF Shows(s, p) /\ s.panes[p].group # NoGroup
  THEN [s EXCEPT !.panes[p].group.foc = w, !.panes[p].group.members = @ \cup members] ELSE s

\* runtime_mark_native_pane_surface_attached_with_evidence_in_pane
Attached(s, p) ==
  IF Shows(s, p) /\ Native(s, p) /\ s.panes[p].st # "off"
  THEN [s EXCEPT !.panes[p].st = "attached", !.panes[p].group = NoGroup] ELSE s

\* runtime_mark_native_pane_window_group_observed
GroupObserved(s, p, w) ==
  IF Shows(s, p) /\ Native(s, p) /\ s.panes[p].st = "attached"
  THEN [s EXCEPT !.panes[p].group = [prim |-> w, foc |-> IF s.target = p THEN w ELSE NoWin,
                                     members |-> {w}]] ELSE s

\* runtime_mark_native_pane_surface_detached_in_pane
Detached(s, p) ==
  IF Shows(s, p) /\ s.panes[p].st # "off"
  THEN Pruned([s EXCEPT !.panes[p].st = "launching", !.panes[p].group = NoGroup]) ELSE s

\* native_pane_window_groups_status: the window reported to have the focus
Reported(s, p) == Shows(s, p) /\ Native(s, p) /\ s.panes[p].st = "attached" /\ s.panes[p].group # NoGroup
ReportedWindow(s, p) ==
  LET group == s.panes[p].group
  IN IF s.target # p THEN NoWin ELSE IF group.foc \in group.members THEN group.foc ELSE group.prim

-----------------------------------------------------------------------------
(* Programs, as the process controller reports them                        *)

\* A start of what the pane no longer shows is stopped again
Started(p) ==
  /\ Pending(c, p)
  /\ LET s == [c EXCEPT !.pend[p] = NoRev]
     IN c' = IF c.panes[p].rev = c.pend[p]
             THEN [s EXCEPT !.panes[p].st = "launching", !.panes[p].group = NoGroup]
             ELSE [s EXCEPT !.leaving = @ \cup {p}]

\* The regions are not looked at
StartFails(p) ==
  /\ Pending(c, p)
  /\ c' = [c EXCEPT !.pend[p] = NoRev, !.panes[p].group = NoGroup]

Exits(p) ==
  /\ Running(c, p)
  /\ c' = Pruned([c EXCEPT !.panes[p].st = "off", !.panes[p].group = NoGroup,
                           !.leaving = IF p \in c.stopping THEN @ \cup {p} ELSE @,
                           !.stopping = @ \ {p}])

\* apply_process_termination_success or _failure and the launch that follows
Stopped(p) ==
  \/ /\ p \in c.stopping
     /\ c' = Requested([c EXCEPT !.stopping = @ \ {p}, !.panes[p].st = "off",
                                 !.panes[p].group = NoGroup], p)
  \/ /\ p \in c.leaving
     /\ c' = Requested([c EXCEPT !.leaving = @ \ {p}], p)

\* BindNativePaneHostSurface of an attached pane clears its window group
BindSurface(p) == Running(c, p) /\ Native(c, p) /\ c' = Attached(c, p)

-----------------------------------------------------------------------------
(* What may happen of all this, by kind                                    *)

CONSTANTS
  Requests,     \* the host requests that are made
  Generations,  \* the presentation generations that come with them
  FocusGens     \* the generations focus is asked for with

ASSUME RequestsAssumption ==
  /\ Requests \subseteq [pane : Pane, id : Ident, bind : Bind \cup {NoBind}, rev : Rev,
                         group : Inst \cup {NoInst}]
  /\ Generations \subseteq Generation

Plans ==
  \/ /\ {"plans", "hosts"} \cap ops # {}
     /\ \E r \in Requests, gen \in {NoGen} \cup (IF "hosts" \in ops THEN Generations ELSE {}) :
          HostPlan(r, gen) \/ UpdatePlan(r, gen)
  \/ /\ "plans" \in ops
     /\ \/ \E p \in Pane : SwitchToSurfAce(p) \/ Release(p) \/ LaunchHost(p)
        \/ \E p \in Pane, id \in Ident : SwitchToExternal(p, id)
        \/ \E shown \in SUBSET Pane : ProviderSnapshot(shown)

Drawn(s) == {[pane |-> p, inst |-> Instance(s, p)] : p \in {q \in Pane : Shows(s, q)}}

Regions ==
  /\ "regions" \in ops
  /\ \/ \E key \in Key, rev \in Rev, at \in SUBSET Drawn(c) : SetRegions(key, rev, at)
     \/ \E key \in Key : ClearRegions(key)

Programs ==
  /\ "programs" \in ops
  /\ \E p \in Pane : Started(p) \/ StartFails(p) \/ Exits(p) \/ Stopped(p) \/ BindSurface(p)

\* Focus asked for by a control client
FocusRequests ==
  \/ "focus" \in ops /\ \E t \in Target : SetFocus(t)
  \/ "guarded" \in ops /\ \E t \in {NoFocus} \cup Pane, gen \in FocusGens : SetFocusGuarded(t, gen)
=============================================================================
