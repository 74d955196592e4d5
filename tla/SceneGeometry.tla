---------------------------- MODULE SceneGeometry ----------------------------
(***************************************************************************)
(* What a frame of the host runtime is made of (src/src/runtime.rs): the   *)
(* consumers of a root geometry, which pin the rectangles of the native    *)
(* panes, the buffers their clients committed, each tagged with the        *)
(* generation and the rectangle it was committed for, and the store a      *)
(* screen capture is read from (src/src/screen_capture.rs).  A geometry    *)
(* change is staged, drawn in one frame and becomes the committed one when *)
(* that frame is on the screen; who asks for it and how it may fail is in  *)
(* HostOutput.                                                             *)
(*                                                                         *)
(* A rectangle is a place and one of two sizes; a quarter turn exchanges   *)
(* the sizes.  A client is known by the size it draws, in pixels or        *)
(* logical units.  Windows other than the roots of native panes take the   *)
(* whole output or a place beside their owner and are left out.            *)
(***************************************************************************)
EXTENDS Naturals, FiniteSets

CONSTANTS
  Pane,     \* ids of native panes
  Place,    \* places a pane can be at
  Scale,    \* display scale factors
  MaxGen,   \* bound: generations of the root geometry
  MaxMoves  \* bound: requests about panes, and commits nobody asked for

NoSize == "none"
Size   == {"wide", "tall"}
NoRect == [at |-> 0, size |-> NoSize]
Rect   == [at : Place, size : Size]

ASSUME SceneAssumption == 0 \notin Place /\ MaxGen \in Nat /\ MaxMoves \in Nat

VARIABLES
  scene,   \* RuntimeWaylandState, the panes of CompositorState, the captures
  moves    \* how many of MaxMoves were made

\* No transaction, no frame
NoStage == [gen |-> 0]
NoFrame == [gen |-> 0]
NoBuffer == [size |-> NoSize, rect |-> NoRect, scale |-> 0, gen |-> 0]

Other(size)   == CHOOSE o \in Size : o # size
Turned(rect)  == IF rect = NoRect THEN rect ELSE [rect EXCEPT !.size = Other(@)]

-----------------------------------------------------------------------------
\* stage_runtime_root_geometry_consumers: the panes as they are now, turned
\* if the rotation differs from the committed one
Consumers(s, geo) ==
  [gen |-> geo.gen, scale |-> geo.scale, turned |-> geo.turned,
   rects |-> [p \in Pane |-> IF geo.turned = s.root.turned THEN s.panes[p]
                                                           ELSE Turned(s.panes[p])]]

\* surface_buffer_matches_root_geometry_generation
Matches(buf, cons, p) ==
  /\ buf.size # NoSize /\ buf.gen = cons.gen
  /\ buf.rect = cons.rects[p] /\ buf.scale = cons.scale
  /\ buf.size = cons.rects[p].size

\* collect_render_elements: the panes that are painted from these consumers
Painted(s, cons) == {p \in s.top : cons.rects[p] # NoRect /\ Matches(s.buf[p], cons, p)}

\* staged_native_materializations_ready
Ready(s) == \A p \in s.top : s.staged.rects[p] # NoRect => Matches(s.buf[p], s.staged, p)

\* configure_toplevel_for_role: an unchanged size is not sent again
Configure(s, p, size) ==
  IF size \in {NoSize, s.told[p]} THEN s
  ELSE [s EXCEPT !.told[p] = size, !.event = @ \cup {p}]

\* stage_role_configures, with the rectangles of a presentation or the panes
ConfigureAll(s, rects) ==
  LET told == [p \in Pane |-> IF p \in s.top /\ rects[p] # NoRect THEN rects[p].size ELSE s.told[p]]
  IN [s EXCEPT !.told = told, !.event = @ \cup {p \in Pane : told[p] # s.told[p]}]

\* capture_surface_buffer_commit: the buffer is kept for the staged
\* rectangles or the active ones, unless it does not fit
Pinned(s) == IF s.staged # NoStage THEN s.staged ELSE s.active

Buffer(s, p, size) ==
  LET cons == Pinned(s)
      rect == cons.rects[p]
  IN CASE rect = NoRect    -> [NoBuffer EXCEPT !.size = size]
       [] rect.size = size -> [size |-> size, rect |-> rect, scale |-> cons.scale, gen |-> cons.gen]
       [] OTHER            -> NoBuffer

Drawn(s, p, size) == [s EXCEPT !.buf[p] = Buffer(s, p, size)]

-----------------------------------------------------------------------------
(* The capture store: the last frame, and the one of a staged generation.  *)

\* capture_screen_from_render_target reads back what was drawn
Frame(s, cons) == [gen |-> cons.gen, rects |-> cons.rects, shown |-> Painted(s, cons)]

\* Mutant of Captured: a staged frame is shown at once
CapturedAtOnce(s, frame) == [s EXCEPT !.cap = frame, !.capStaged = frame]

\* update_root4_scanout_xrgb8888
Captured(s, frame) ==
  IF s.capStaging = frame.gen THEN [s EXCEPT !.capStaged = frame]
  ELSE [s EXCEPT !.cap = frame]

\* begin_root4_stage, commit_root4_stage, discard_root4_stage
CaptureBegins(s, gen) == [s EXCEPT !.capStaging = gen, !.capStaged = NoFrame]
CaptureCommits(s) ==
  [s EXCEPT !.cap = IF s.capStaged # NoFrame THEN s.capStaged ELSE @,
            !.capStaging = 0, !.capStaged = NoFrame]
CaptureDiscards(s) == [s EXCEPT !.capStaging = 0, !.capStaged = NoFrame]

-----------------------------------------------------------------------------
\* RuntimeWaylandState::new_with_initial_root_geometry, nothing attached yet
NewScene(scale) ==
  LET none == [p \in Pane |-> NoRect]
      root == [gen |-> 1, scale |-> scale, turned |-> FALSE]
  IN [panes |-> none, root |-> root,
      active |-> [gen |-> 1, scale |-> scale, turned |-> FALSE, rects |-> none],
      staged |-> NoStage, queued |-> FALSE, lost |-> FALSE,
      top |-> {}, buf |-> [p \in Pane |-> NoBuffer],
      told |-> [p \in Pane |-> NoSize], event |-> {},
      cap |-> NoFrame, capStaging |-> 0, capStaged |-> NoFrame]

SceneInit == moves = 0 /\ scene \in {NewScene(f) : f \in Scale}

Asked == moves < MaxMoves /\ moves' = moves + 1

\* apply_native_pane_host_plan: a pane is hosted, moved or resized
HostPane(p, rect) ==
  /\ Asked /\ scene.panes[p] # rect
  /\ scene' = [scene EXCEPT !.panes[p] = rect]

\* release_native_pane_hosts: its window stays until the client ends
DropPane(p) ==
  /\ Asked /\ scene.panes[p] # NoRect
  /\ scene' = [scene EXCEPT !.panes[p] = NoRect]

\* refresh_active_root_geometry_consumers_for_current_panes
Refreshed(s) == IF s.staged # NoStage THEN s ELSE [s EXCEPT !.active = Consumers(s, s.root)]

\* assign_native_pane_role
AttachPane(p) ==
  /\ p \notin scene.top /\ scene.panes[p] # NoRect
  /\ LET attached == [scene EXCEPT !.top = @ \cup {p}]
     IN scene' = Refreshed(Configure(attached, p, scene.panes[p].size))
  /\ UNCHANGED moves

\* toplevel_destroyed: a pane a staged geometry needs cancels it
PaneGone(p) ==
  /\ p \in scene.top
  /\ scene' = [scene EXCEPT !.top = @ \ {p}, !.buf[p] = NoBuffer, !.told[p] = NoSize,
                            !.event = @ \ {p},
                            !.lost = @ \/ /\ scene.staged # NoStage /\ ~scene.queued
                                           /\ scene.staged.rects[p] # NoRect]
  /\ Asked

\* A client acknowledges its last configure and commits a buffer of that
\* size; ack_configure configures it again, from the pane's rectangle
Answer(p) ==
  /\ p \in scene.event
  /\ LET acked == Configure([scene EXCEPT !.event = @ \ {p}], p, scene.panes[p].size)
     IN scene' = Drawn(acked, p, scene.told[p])
  /\ UNCHANGED moves

\* A client commits on its own, of any size, or takes its buffer away
Redraw(p, size) ==
  /\ Asked /\ p \in scene.top
  /\ scene' = IF size = NoSize THEN [scene EXCEPT !.buf[p] = NoBuffer] ELSE Drawn(scene, p, size)

\* RootGeometryAuthority::stage_all
NextRoot(root, scale, turned) == [gen |-> root.gen + 1, scale |-> scale, turned |-> turned]

\* install_root_geometry_stage
StageGeometry(scale, turned) ==
  /\ scene.staged = NoStage /\ scene.root.gen < MaxGen
  /\ <<scale, turned>> # <<scene.root.scale, scene.root.turned>>
  /\ LET geo    == NextRoot(scene.root, scale, turned)
         cons   == Consumers(scene, geo)
         staged == [CaptureBegins(scene, geo.gen) EXCEPT !.staged = cons, !.lost = FALSE]
     IN scene' = ConfigureAll(staged, cons.rects)
  /\ UNCHANGED moves

\* discard_staged_root_geometry_after_flip_resolution: the buffers stay as
\* they are tagged and nobody is configured
Withdrawn(s) == [CaptureDiscards(s) EXCEPT !.staged = NoStage, !.queued = FALSE, !.lost = FALSE]

Withdraw == scene.staged # NoStage /\ scene' = Withdrawn(scene) /\ UNCHANGED moves

\* queue_claimed_presentation_tick: a frame is drawn and captured, if the
\* pixels can be read back; a staged frame must have been captured
DrawFrame(captured) ==
  /\ ~scene.queued
  /\ scene.staged # NoStage => Ready(scene) /\ ~scene.lost
  /\ LET cons  == Pinned(scene)
         drawn == IF captured THEN Captured(scene, Frame(scene, cons)) ELSE scene
     IN scene' = IF scene.staged = NoStage THEN drawn
                 ELSE IF drawn.capStaged = NoFrame THEN Withdrawn(drawn)
                 ELSE [drawn EXCEPT !.queued = TRUE]
  /\ UNCHANGED moves

\* refresh_native_pane_buffers_for_root_generation: what fits the rectangle
\* is taken over, what does not is dropped
Retagged(s) ==
  [s EXCEPT !.buf = [p \in Pane |->
     IF p \notin s.top \/ s.active.rects[p] = NoRect THEN s.buf[p]
     ELSE IF s.buf[p].size # s.active.rects[p].size THEN NoBuffer
     ELSE [size |-> s.buf[p].size, rect |-> s.active.rects[p],
           scale |-> s.active.scale, gen |-> s.active.gen]]]

Blank(s) == {p \in s.top : s.active.rects[p] # NoRect /\ s.buf[p] = NoBuffer}

\* Mutant of Activated: the consumers that were staged become the active ones
ActivatedAsStaged(s) ==
  LET geo   == [gen |-> s.staged.gen, scale |-> s.staged.scale, turned |-> s.staged.turned]
      now   == Consumers(s, geo)
      moved == [s EXCEPT !.root = geo, !.panes = now.rects, !.active = s.staged,
                         !.staged = NoStage, !.queued = FALSE, !.lost = FALSE]
      fresh == Retagged(CaptureCommits(moved))
  IN IF Blank(fresh) = {} THEN fresh ELSE ConfigureAll(fresh, fresh.panes)

\* activate_root_geometry_stage: the consumers are taken of the panes as they are now
Activated(s) ==
  LET geo   == [gen |-> s.staged.gen, scale |-> s.staged.scale, turned |-> s.staged.turned]
      now   == Consumers(s, geo)
      moved == [s EXCEPT !.root = geo, !.panes = now.rects, !.active = now,
                         !.staged = NoStage, !.queued = FALSE, !.lost = FALSE]
      fresh == Retagged(CaptureCommits(moved))
  IN IF Blank(fresh) = {} THEN fresh ELSE ConfigureAll(fresh, fresh.panes)

\* The staged frame is on the screen
FlipDone == scene.queued /\ scene' = Activated(scene) /\ UNCHANGED moves

PaneNext ==
  \/ \E p \in Pane, r \in Rect : HostPane(p, r)
  \/ \E p \in Pane : DropPane(p) \/ AttachPane(p) \/ PaneGone(p) \/ Answer(p)
  \/ \E p \in Pane, size \in Size \cup {NoSize} : Redraw(p, size)
  \/ \E captured \in BOOLEAN : DrawFrame(captured)

RootNext ==
  \/ \E f \in Scale, turned \in BOOLEAN : StageGeometry(f, turned)
  \/ Withdraw \/ FlipDone

-----------------------------------------------------------------------------
\* What a screen capture shows is always a frame of the committed geometry,
\* never one of a geometry that is staged, was withdrawn or is superseded.
CaptureIsOfCommittedGeometry == scene.cap # NoFrame => scene.cap.gen = scene.root.gen

\* When a geometry is committed, also panes that were moved, hosted or
\* attached while its frame was on the way are in it: each is painted where
\* the status says it is, or its client knows the size it has to draw.
Settled(s) ==
  \A p \in s.top : s.panes[p] # NoRect =>
    /\ s.active.rects[p] = s.panes[p]
    /\ p \in Painted(s, s.active) \/ s.told[p] = s.panes[p].size

CommitSettlesPanes == [][scene'.root.gen > scene.root.gen => Settled(scene')]_scene
=============================================================================
