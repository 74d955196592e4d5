-------------------------- MODULE HostSession_proofs --------------------------
(***************************************************************************)
(* Proofs about the parts of HostSession, for every set of panes, places,  *)
(* scales, devices and every bound.                                        *)
(*                                                                         *)
(* The scene: a capture is of the committed geometry, and a commit settles *)
(* every pane.  SceneInv relates the generations of the two consumers, of  *)
(* the store's two frames and of the transaction; SameScene is what the    *)
(* requests, clients and windows leave alone of them.                      *)
(*                                                                         *)
(* The process: a start that is pending comes.  SessionInv relates what is *)
(* pending to the channel and to where the main thread is.  The rotation   *)
(* that was answered is the one stored: RotationInv follows a request from *)
(* the channel to its answer and relates the disk to what was promised.    *)
(*                                                                         *)
(* The measurement: a valid capture is honest.  MeasInv relates what a run *)
(* without a flaw has seen, what happened since it began and what is still *)
(* on its way to the collector.                                            *)
(***************************************************************************)
EXTENDS HostSession, WellFoundedInduction, TLAPS

Fields == {"panes", "root", "active", "staged", "queued", "lost", "top", "buf", "told",
           "event", "cap", "capStaging", "capStaged"}

IsScene(s) == DOMAIN s = Fields /\ s = [f \in Fields |-> s[f]]

PaneRect == Rect \cup {NoRect}

\* A staged generation is the next one, and the store waits for its frame.
StageInv(s) ==
  /\ s.staged = NoStage => s.capStaging = 0 /\ s.capStaged = NoFrame /\ s.queued = FALSE
  /\ s.staged # NoStage =>
       /\ s.staged.gen = s.root.gen + 1
       /\ s.capStaging = s.root.gen + 1
       /\ s.capStaged # NoFrame => s.capStaged.gen = s.root.gen + 1
  /\ s.queued => s.capStaged # NoFrame

\* What is committed is drawn and shown with one generation.
CommitInv(s) ==
  /\ s.root.gen \in Nat \ {0}
  /\ s.active.gen = s.root.gen
  /\ s.cap # NoFrame => s.cap.gen = s.root.gen

PanesType(s) == s.panes \in [Pane -> PaneRect] /\ s.top \subseteq Pane

SceneInv(s) == IsScene(s) /\ PanesType(s) /\ StageInv(s) /\ CommitInv(s)

SameScene(s, t) ==
  /\ IsScene(t)
  /\ t.root = s.root /\ t.active = s.active /\ t.staged = s.staged /\ t.queued = s.queued
  /\ t.cap = s.cap /\ t.capStaging = s.capStaging /\ t.capStaged = s.capStaged

SamePanes(s, t) == t.panes = s.panes /\ t.top = s.top

-----------------------------------------------------------------------------
(* Operators on the scene *)

LEMMA SameSceneInv ==
  ASSUME NEW s, NEW t, SceneInv(s), SameScene(s, t), PanesType(t)
  PROVE  SceneInv(t)
BY DEF SceneInv, SameScene, StageInv, CommitInv

LEMMA SameSceneTransitive ==
  ASSUME NEW s, NEW t, NEW u, SameScene(s, t), SameScene(t, u)
  PROVE  SameScene(s, u)
BY DEF SameScene

\* One field that no generation depends on is changed.
LEMMA FieldChanges ==
  ASSUME NEW s, IsScene(s), NEW f \in {"panes", "lost", "top", "buf", "told", "event"}, NEW v
  PROVE  /\ SameScene(s, [s EXCEPT ![f] = v])
         /\ [s EXCEPT ![f] = v][f] = v
         /\ \A g \in Fields \ {f} : [s EXCEPT ![f] = v][g] = s[g]
BY DEF IsScene, SameScene, Fields

\* Configures, acknowledgements and buffers concern clients only.
LEMMA ClientFields ==
  ASSUME NEW s, IsScene(s), NEW p, NEW size, NEW rects
  PROVE  /\ SameScene(s, Configure(s, p, size)) /\ SamePanes(s, Configure(s, p, size))
         /\ SameScene(s, ConfigureAll(s, rects)) /\ SamePanes(s, ConfigureAll(s, rects))
         /\ SameScene(s, Drawn(s, p, size)) /\ SamePanes(s, Drawn(s, p, size))
         /\ SameScene(s, Retagged(s)) /\ SamePanes(s, Retagged(s))
<1>1. SameScene(s, Configure(s, p, size)) /\ SamePanes(s, Configure(s, p, size))
  BY DEF IsScene, SameScene, SamePanes, Fields, Configure
<1>2. SameScene(s, ConfigureAll(s, rects)) /\ SamePanes(s, ConfigureAll(s, rects))
  BY DEF IsScene, SameScene, SamePanes, Fields, ConfigureAll
<1>3. SameScene(s, Drawn(s, p, size)) /\ SamePanes(s, Drawn(s, p, size))
  BY DEF IsScene, SameScene, SamePanes, Fields, Drawn
<1>4. SameScene(s, Retagged(s)) /\ SamePanes(s, Retagged(s))
  BY DEF IsScene, SameScene, SamePanes, Fields, Retagged
<1> QED
  BY <1>1, <1>2, <1>3, <1>4

\* A turned rectangle is one of the same place.
LEMMA TurnedType ==
  ASSUME NEW r \in PaneRect
  PROVE  Turned(r) \in PaneRect /\ (Turned(r) = NoRect => r = NoRect)
<1>1. ASSUME NEW size \in Size PROVE Other(size) \in Size
  BY <1>1 DEF Other, Size
<1>2. CASE r = NoRect
  BY <1>2 DEF Turned
<1>3. CASE r \in Rect
  <2>1. NoRect \notin Rect
    BY SceneAssumption DEF NoRect, Rect
  <2>2. Turned(r) \in Rect
    BY <1>1, <1>3, <2>1 DEF Turned, Rect
  <2> QED
    BY <2>1, <2>2 DEF PaneRect
<1> QED
  BY <1>2, <1>3 DEF PaneRect

\* Consumers have the generation they are staged for and rectangles of panes.
LEMMA ConsumersType ==
  ASSUME NEW s, s.panes \in [Pane -> PaneRect], NEW geo
  PROVE  /\ Consumers(s, geo).gen = geo.gen
         /\ Consumers(s, geo).rects \in [Pane -> PaneRect]
BY TurnedType DEF Consumers

-----------------------------------------------------------------------------
(* The steps of the scene *)

LEMMA SceneStarts == SceneInit => SceneInv(scene)
<1> SUFFICES ASSUME NEW f \in Scale, scene = NewScene(f) PROVE SceneInv(scene)
  BY DEF SceneInit
<1>1. IsScene(scene)
  BY DEF NewScene, IsScene, Fields
<1>2. PanesType(scene)
  BY DEF NewScene, PaneRect, PanesType
<1> QED
  BY <1>1, <1>2 DEF SceneInv, StageInv, CommitInv, NewScene, NoFrame, NoStage

LEMMA PanesStep ==
  ASSUME SceneInv(scene), NEW p \in Pane, (\E r \in Rect : HostPane(p, r)) \/ DropPane(p)
  PROVE  SameScene(scene, scene') /\ SceneInv(scene)'
<1>1. PICK v \in PaneRect : scene' = [scene EXCEPT !.panes[p] = v]
  BY DEF HostPane, DropPane, PaneRect
<1>2. PanesType(scene') /\ SameScene(scene, scene')
  BY <1>1 DEF SceneInv, PanesType, IsScene, SameScene, Fields
<1> QED
  BY <1>2, SameSceneInv

LEMMA AttachStep ==
  ASSUME SceneInv(scene), NEW p \in Pane, AttachPane(p)
  PROVE  scene'.root = scene.root /\ SceneInv(scene)'
<1> DEFINE attached == [scene EXCEPT !.top = @ \cup {p}]
           told == Configure(attached, p, scene.panes[p].size)
<1>1. SameScene(scene, attached) /\ PanesType(attached)
  BY DEF SceneInv, PanesType, IsScene, SameScene, Fields
<1> HIDE DEF attached
<1>2. SameScene(attached, told) /\ PanesType(told)
  BY <1>1, ClientFields DEF SameScene, SamePanes, PanesType
<1>3. SameScene(scene, told) /\ SceneInv(told)
  BY <1>1, <1>2, SameSceneTransitive, SameSceneInv DEF SceneInv
<1>4. scene' = Refreshed(told)
  BY DEF AttachPane, attached
<1> HIDE DEF told
<1>5. Consumers(told, told.root).gen = told.root.gen
  BY DEF Consumers
<1>6. SceneInv(Refreshed(told)) /\ Refreshed(told).root = told.root
  BY <1>3, <1>5 DEF SceneInv, PanesType, IsScene, Fields, StageInv, CommitInv, Refreshed
<1> QED
  BY <1>3, <1>4, <1>6 DEF SameScene

LEMMA ClientStep ==
  ASSUME SceneInv(scene), NEW p \in Pane, NEW size,
         PaneGone(p) \/ Answer(p) \/ Redraw(p, size)
  PROVE  SameScene(scene, scene') /\ SceneInv(scene)'
<1>1. SameScene(scene, scene') /\ PanesType(scene')
  <2>1. CASE PaneGone(p)
    BY <2>1 DEF PaneGone, SceneInv, PanesType, IsScene, SameScene, Fields
  <2>2. CASE Answer(p)
    <3> DEFINE heard == [scene EXCEPT !.event = @ \ {p}]
               acked == Configure(heard, p, scene.panes[p].size)
    <3>1. SameScene(scene, heard) /\ SamePanes(scene, heard)
      BY DEF SceneInv, IsScene, SameScene, SamePanes, Fields
    <3> HIDE DEF heard
    <3>2. SameScene(heard, acked) /\ SamePanes(heard, acked)
      BY <3>1, ClientFields DEF SameScene
    <3>3. scene' = Drawn(acked, p, scene.told[p])
      BY <2>2 DEF Answer, heard
    <3> HIDE DEF acked
    <3>4. SameScene(acked, scene') /\ SamePanes(acked, scene')
      BY <3>2, <3>3, ClientFields DEF SameScene
    <3> QED
      BY <3>1, <3>2, <3>4, SameSceneTransitive DEF SamePanes, SceneInv, PanesType
  <2>3. CASE Redraw(p, size)
    <3>1. CASE size = NoSize
      BY <2>3, <3>1 DEF Redraw, SceneInv, PanesType, IsScene, SameScene, Fields
    <3>2. CASE size # NoSize
      BY <2>3, <3>2, ClientFields DEF Redraw, SceneInv, SamePanes, PanesType
    <3> QED
      BY <3>1, <3>2
  <2> QED
    BY <2>1, <2>2, <2>3
<1> QED
  BY <1>1, SameSceneInv DEF SceneInv

LEMMA StageStep ==
  ASSUME SceneInv(scene), NEW f \in Scale, NEW turned \in BOOLEAN, StageGeometry(f, turned)
  PROVE  scene'.root = scene.root /\ SceneInv(scene)'
<1> DEFINE geo    == NextRoot(scene.root, f, turned)
           cons   == Consumers(scene, geo)
           staged == [CaptureBegins(scene, geo.gen) EXCEPT !.staged = cons, !.lost = FALSE]
<1>1. geo.gen = scene.root.gen + 1 /\ cons.gen = geo.gen
  BY DEF NextRoot, Consumers
<1>2. scene.staged = NoStage /\ scene' = ConfigureAll(staged, cons.rects)
  BY DEF StageGeometry
<1> HIDE DEF geo, cons
<1>3. /\ IsScene(staged) /\ SamePanes(scene, staged)
      /\ staged.root = scene.root /\ staged.active = scene.active /\ staged.cap = scene.cap
      /\ staged.staged = cons /\ staged.queued = scene.queued
      /\ staged.capStaging = geo.gen /\ staged.capStaged = NoFrame
  BY DEF SceneInv, IsScene, Fields, SamePanes, CaptureBegins
<1> HIDE DEF staged
<1>4. cons # NoStage
  BY <1>1 DEF NoStage, SceneInv, CommitInv
<1>5. SceneInv(staged)
  BY <1>1, <1>2, <1>3, <1>4 DEF SceneInv, SamePanes, PanesType, StageInv, CommitInv
<1>6. SameScene(staged, scene') /\ SamePanes(staged, scene')
  BY <1>2, <1>3, ClientFields
<1> QED
  BY <1>3, <1>5, <1>6, SameSceneInv DEF SameScene, SceneInv, SamePanes, PanesType

LEMMA WithdrawnInv ==
  ASSUME NEW s, IsScene(s), PanesType(s), CommitInv(s)
  PROVE  Withdrawn(s).root = s.root /\ SceneInv(Withdrawn(s))
<1>1. /\ IsScene(Withdrawn(s)) /\ SamePanes(s, Withdrawn(s))
      /\ Withdrawn(s).root = s.root /\ Withdrawn(s).active = s.active /\ Withdrawn(s).cap = s.cap
      /\ Withdrawn(s).staged = NoStage /\ Withdrawn(s).queued = FALSE
      /\ Withdrawn(s).capStaging = 0 /\ Withdrawn(s).capStaged = NoFrame
  BY DEF IsScene, Fields, SamePanes, Withdrawn, CaptureDiscards
<1> QED
  BY <1>1 DEF SceneInv, SamePanes, PanesType, StageInv, CommitInv

LEMMA DrawStep ==
  ASSUME SceneInv(scene), NEW captured \in BOOLEAN, DrawFrame(captured)
  PROVE  scene'.root = scene.root /\ SceneInv(scene)'
<1> DEFINE cons  == Pinned(scene)
           frame == Frame(scene, cons)
           drawn == IF captured THEN Captured(scene, frame) ELSE scene
<1>1. frame.gen = cons.gen
  BY DEF Frame
<1>2. scene' = IF scene.staged = NoStage THEN drawn
               ELSE IF drawn.capStaged = NoFrame THEN Withdrawn(drawn)
               ELSE [drawn EXCEPT !.queued = TRUE]
  BY DEF DrawFrame
<1> HIDE DEF frame
<1>3. /\ IsScene(drawn) /\ SamePanes(scene, drawn)
      /\ drawn.root = scene.root /\ drawn.active = scene.active /\ drawn.staged = scene.staged
      /\ drawn.queued = scene.queued /\ drawn.capStaging = scene.capStaging
  BY DEF SceneInv, IsScene, Fields, SamePanes, Captured
<1>4. /\ drawn.cap = scene.cap \/ (scene.capStaging # frame.gen /\ drawn.cap = frame)
      /\ drawn.capStaged = scene.capStaged \/ (scene.capStaging = frame.gen /\ drawn.capStaged = frame)
  BY DEF SceneInv, IsScene, Fields, Captured
<1>5. cons = IF scene.staged # NoStage THEN scene.staged ELSE scene.active
  BY DEF Pinned
<1> HIDE DEF drawn, cons
<1>6. SceneInv(drawn)
  <2>1. frame.gen \in Nat \ {0} /\ frame # NoFrame
    BY <1>1, <1>5 DEF SceneInv, StageInv, CommitInv, NoFrame
  <2>2. CASE scene.staged = NoStage
    <3>1. scene.capStaging # frame.gen /\ drawn.capStaged = scene.capStaged
      BY <1>4, <2>1, <2>2 DEF SceneInv, StageInv
    <3>2. drawn.cap # NoFrame => drawn.cap.gen = drawn.root.gen
      BY <1>1, <1>3, <1>4, <1>5, <2>2 DEF SceneInv, CommitInv
    <3> QED
      BY <1>3, <2>2, <3>1, <3>2 DEF SceneInv, SamePanes, PanesType, StageInv, CommitInv
  <2>3. CASE scene.staged # NoStage
    <3>1. scene.capStaging = frame.gen /\ drawn.cap = scene.cap
      BY <1>1, <1>4, <1>5, <2>3 DEF SceneInv, StageInv
    <3>2. /\ drawn.capStaged # NoFrame => drawn.capStaged.gen = drawn.root.gen + 1
          /\ drawn.queued => drawn.capStaged # NoFrame
      BY <1>3, <1>4, <2>1, <2>3, <3>1 DEF SceneInv, StageInv
    <3> QED
      BY <1>3, <2>3, <3>1, <3>2 DEF SceneInv, SamePanes, PanesType, StageInv, CommitInv
  <2> QED
    BY <2>2, <2>3
<1>7. ASSUME scene.staged # NoStage, drawn.capStaged # NoFrame
      PROVE  LET queued == [drawn EXCEPT !.queued = TRUE]
             IN queued.root = scene.root /\ SceneInv(queued)
  <2> DEFINE queued == [drawn EXCEPT !.queued = TRUE]
  <2>1. /\ IsScene(queued) /\ SamePanes(drawn, queued)
        /\ queued.root = drawn.root /\ queued.active = drawn.active /\ queued.cap = drawn.cap
        /\ queued.staged = drawn.staged /\ queued.queued = TRUE
        /\ queued.capStaging = drawn.capStaging /\ queued.capStaged = drawn.capStaged
    BY <1>6 DEF SceneInv, IsScene, Fields, SamePanes
  <2> HIDE DEF queued
  <2>2. SceneInv(queued) /\ queued.root = scene.root
    BY <1>3, <1>6, <1>7, <2>1 DEF SceneInv, SamePanes, PanesType, StageInv, CommitInv
  <2> QED
    BY <2>2 DEF queued
<1>8. SceneInv(Withdrawn(drawn)) /\ Withdrawn(drawn).root = scene.root
  BY <1>3, <1>6, WithdrawnInv DEF SceneInv
<1> QED
  BY <1>2, <1>3, <1>6, <1>7, <1>8

-----------------------------------------------------------------------------
(* The commit *)

\* After it every pane with a window is painted or told what to draw.
LEMMA FlipStep ==
  ASSUME SceneInv(scene), FlipDone
  PROVE  SceneInv(scene)' /\ Settled(scene')
<1> DEFINE geo   == [gen |-> scene.staged.gen, scale |-> scene.staged.scale,
                     turned |-> scene.staged.turned]
           now   == Consumers(scene, geo)
           moved == [scene EXCEPT !.root = geo, !.panes = now.rects, !.active = now,
                                  !.staged = NoStage, !.queued = FALSE, !.lost = FALSE]
           shown == CaptureCommits(moved)
           fresh == Retagged(shown)
<1>1. scene' = IF Blank(fresh) = {} THEN fresh ELSE ConfigureAll(fresh, fresh.panes)
  BY DEF FlipDone, Activated
<1>2. /\ geo.gen = scene.root.gen + 1 /\ scene.capStaged # NoFrame
      /\ scene.capStaged.gen = geo.gen
  BY DEF FlipDone, SceneInv, StageInv
<1>3. now.gen = geo.gen /\ now.rects \in [Pane -> PaneRect]
  BY ConsumersType DEF SceneInv, PanesType
<1> HIDE DEF geo, now
<1>4. /\ IsScene(moved) /\ moved.panes = now.rects /\ moved.root = geo /\ moved.active = now
      /\ moved.staged = NoStage /\ moved.queued = FALSE
      /\ moved.capStaged = scene.capStaged /\ moved.top = scene.top
  BY DEF SceneInv, IsScene, Fields
<1> HIDE DEF moved
<1>5. /\ IsScene(shown) /\ shown.panes = now.rects /\ shown.top = scene.top /\ shown.root = geo /\ shown.active = now
      /\ shown.staged = NoStage /\ shown.queued = FALSE /\ shown.cap = scene.capStaged
      /\ shown.capStaging = 0 /\ shown.capStaged = NoFrame
  BY <1>2, <1>4 DEF IsScene, Fields, CaptureCommits
<1> HIDE DEF shown
<1>6. SceneInv(shown)
  BY <1>2, <1>3, <1>5 DEF SceneInv, PanesType, StageInv, CommitInv
<1>7. SameScene(shown, fresh) /\ SamePanes(shown, fresh)
  BY <1>5, ClientFields
<1>8. fresh.top \subseteq Pane /\ fresh.panes = now.rects /\ fresh.active = now
  BY <1>5, <1>7 DEF SameScene, SamePanes, SceneInv, PanesType
<1>9. ASSUME NEW p \in Pane, p \in fresh.top, now.rects[p] # NoRect
      PROVE  fresh.buf[p] = NoBuffer \/ Matches(fresh.buf[p], now, p)
  <2>1. now.rects[p].size # NoSize
    BY <1>3, <1>9 DEF PaneRect, Rect, Size, NoSize
  <2>2. fresh.buf[p] = IF shown.buf[p].size # now.rects[p].size THEN NoBuffer
                       ELSE [size |-> shown.buf[p].size, rect |-> now.rects[p],
                             scale |-> now.scale, gen |-> now.gen]
    BY <1>5, <1>7, <1>9 DEF IsScene, Fields, Retagged, SamePanes
  <2> QED
    BY <2>1, <2>2 DEF Matches
<1> HIDE DEF fresh
<1>10. SceneInv(fresh)
  BY <1>6, <1>7, SameSceneInv DEF SamePanes, SceneInv, PanesType
<1>11. CASE Blank(fresh) = {}
  <2>1. scene' = fresh
    BY <1>1, <1>11
  <2>2. ASSUME NEW p \in fresh.top, now.rects[p] # NoRect PROVE p \in Painted(fresh, now)
    BY <1>8, <1>9, <1>11, <2>2 DEF Blank, Painted
  <2> QED
    BY <1>8, <1>10, <2>1, <2>2 DEF Settled
<1>12. CASE Blank(fresh) # {}
  <2> DEFINE after == ConfigureAll(fresh, fresh.panes)
  <2>1. scene' = after
    BY <1>1, <1>12
  <2>2. SameScene(fresh, after) /\ SamePanes(fresh, after) /\ SceneInv(after)
    BY <1>10, ClientFields, SameSceneInv DEF SceneInv, SamePanes, PanesType
  <2>3. ASSUME NEW p \in fresh.top, fresh.panes[p] # NoRect
        PROVE  after.told[p] = fresh.panes[p].size
    BY <1>8, <1>10, <2>3 DEF ConfigureAll, SceneInv, IsScene, Fields
  <2> HIDE DEF after
  <2> QED
    BY <1>8, <2>1, <2>2, <2>3 DEF Settled, SameScene, SamePanes
<1> QED
  BY <1>11, <1>12

-----------------------------------------------------------------------------
(* The captures and the panes of every behaviour *)

LEMMA SceneStep ==
  ASSUME SceneInv(scene), PaneNext \/ RootNext
  PROVE  SceneInv(scene)' /\ (scene'.root = scene.root \/ Settled(scene'))
<1>1. CASE \E p \in Pane : (\E r \in Rect : HostPane(p, r)) \/ DropPane(p)
  BY <1>1, PanesStep DEF SameScene
<1>2. CASE \E p \in Pane : AttachPane(p)
  BY <1>2, AttachStep
<1>3. CASE \E p \in Pane, size \in Size \cup {NoSize} : PaneGone(p) \/ Answer(p) \/ Redraw(p, size)
  BY <1>3, ClientStep DEF SameScene
<1>4. CASE \E captured \in BOOLEAN : DrawFrame(captured)
  BY <1>4, DrawStep
<1>5. CASE \E f \in Scale, turned \in BOOLEAN : StageGeometry(f, turned)
  BY <1>5, StageStep
<1>6. CASE Withdraw
  BY <1>6, WithdrawnInv DEF Withdraw, SceneInv
<1>7. CASE FlipDone
  BY <1>7, FlipStep
<1>8. (\E p \in Pane : PaneGone(p) \/ Answer(p)) =>
        \E p \in Pane, size \in Size \cup {NoSize} : PaneGone(p) \/ Answer(p) \/ Redraw(p, size)
  OBVIOUS
<1> QED
  BY <1>1, <1>2, <1>3, <1>4, <1>5, <1>6, <1>7, <1>8 DEF PaneNext, RootNext

LEMMA SceneRests ==
  ASSUME SceneInv(scene), scene' = scene
  PROVE  SceneInv(scene)' /\ scene'.root = scene.root
BY DEF SceneInv, IsScene, PanesType, StageInv, CommitInv

LEMMA HostStep ==
  ASSUME SceneInv(scene), [Next]_vars
  PROVE  SceneInv(scene)' /\ (scene'.root = scene.root \/ Settled(scene'))
<1>1. CASE Scene
  BY <1>1, SceneStep DEF Scene
<1>2. CASE Measure \/ Session \/ Scanout \/ UNCHANGED vars
  BY <1>2, SceneRests DEF Measure, Session, Scanout, vars
<1> QED
  BY <1>1, <1>2 DEF Next

LEMMA SceneInvariant == Spec => []SceneInv(scene)
<1>1. Init => SceneInv(scene)
  BY SceneStarts DEF Init
<1>2. SceneInv(scene) /\ [Next]_vars => SceneInv(scene)'
  BY HostStep
<1> QED
  BY <1>1, <1>2, PTL DEF Spec

\* What a screen capture shows is a frame of the committed geometry: the store
\* of src/src/screen_capture.rs is never ahead of the root geometry, behind it
\* or on a geometry that was withdrawn.
THEOREM CaptureSafe == Spec => []CaptureIsOfCommittedGeometry
<1>1. SceneInv(scene) => CaptureIsOfCommittedGeometry
  BY DEF SceneInv, CommitInv, CaptureIsOfCommittedGeometry
<1> QED
  BY <1>1, SceneInvariant, PTL

\* A commit of a root geometry settles every pane, whatever was moved, hosted,
\* released, attached or redrawn since it was staged (activate_root_geometry_stage).
THEOREM CommitSettles == Spec => CommitSettlesPanes
<1>1. SceneInv(scene) /\ [Next]_vars => [scene'.root.gen > scene.root.gen => Settled(scene')]_scene
  <2> SUFFICES ASSUME SceneInv(scene), [Next]_vars, scene'.root.gen > scene.root.gen
               PROVE  Settled(scene')
    OBVIOUS
  <2>1. scene.root.gen \in Nat
    BY DEF SceneInv, CommitInv
  <2>2. ~ scene.root.gen > scene.root.gen
    BY <2>1
  <2> QED
    BY <2>2, HostStep
<1> QED
  BY <1>1, SceneInvariant, PTL DEF Spec, CommitSettlesPanes

-----------------------------------------------------------------------------
(* The start of the host runtime *)

ProcFields == {"pc", "host", "listens", "explicit", "phase", "pending", "sized", "rotation",
               "factor", "seen", "watches", "ctl", "asked", "chan", "queue", "job", "done"}

Command == [kind : {"start", "rotation", "scale"}, to : Rotation \cup Factor \cup {BadConfig}]

IsProc(p) ==
  /\ DOMAIN p = ProcFields /\ p = [f \in ProcFields |-> p[f]]
  /\ p.chan \in Seq(Command)
  /\ p.phase \in {"inactive", "starting", "preflight_ready", "running"}

HasStart(p) == \E i \in DOMAIN p.chan : p.chan[i].kind = "start"

\* Where the main thread is while the runtime was not entered yet, and while it
\* is up: a start is pending only before.
PhaseInv(p) ==
  /\ p.pending => p.host /\ p.phase = "inactive"
  /\ p.pc \in {"new", "spawn", "mark"} => p.phase = "inactive"
  /\ p.pc = "mark" => p.host
  /\ p.pc = "nested" => ~p.host
  /\ p.pc \in {"starting", "preflight", "claim", "serving"} => p.phase # "inactive"

StartInv(p) ==
  IsProc(p) /\ PhaseInv(p) /\ (p.pending => p.pc \in {"send", "attempt"} \/ HasStart(p))

DiskType(d) ==
  /\ DOMAIN d = {"rotation", "config"} /\ d = [f \in DOMAIN d |-> d[f]]
  /\ d.config \in Factor \cup {BadConfig}

SessionInv == DiskType(disk) /\ (Up => StartInv(proc))

\* A command that is sent takes no other away.
LEMMA Sent ==
  ASSUME NEW chan \in Seq(Command), NEW c \in Command
  PROVE  /\ Append(chan, c) \in Seq(Command)
         /\ (\E i \in DOMAIN chan : chan[i].kind = "start") =>
              \E i \in DOMAIN Append(chan, c) : Append(chan, c)[i].kind = "start"
         /\ c.kind = "start" =>
              \E i \in DOMAIN Append(chan, c) : Append(chan, c)[i].kind = "start"
<1>1. /\ Append(chan, c) \in Seq(Command) /\ Len(Append(chan, c)) = Len(chan) + 1
      /\ \A i \in 1..Len(chan) : Append(chan, c)[i] = chan[i]
      /\ Append(chan, c)[Len(chan) + 1] = c
  OBVIOUS
<1>2. /\ DOMAIN chan = 1..Len(chan) /\ Len(chan) \in Nat
      /\ DOMAIN Append(chan, c) = 1..(Len(chan) + 1)
  BY <1>1
<1> QED
  BY <1>1, <1>2

\* A command that is not a start leaves those that are where they are.
LEMMA Taken ==
  ASSUME NEW chan \in Seq(Command), chan # <<>>
  PROVE  /\ Tail(chan) \in Seq(Command)
         /\ (Head(chan).kind # "start" /\ \E i \in DOMAIN chan : chan[i].kind = "start") =>
              \E i \in DOMAIN Tail(chan) : Tail(chan)[i].kind = "start"
<1>1. /\ Tail(chan) \in Seq(Command) /\ Len(Tail(chan)) = Len(chan) - 1 /\ Len(chan) \in Nat
      /\ \A i \in 1..(Len(chan) - 1) : Tail(chan)[i] = chan[i + 1]
      /\ Head(chan) = chan[1]
  OBVIOUS
<1>2. DOMAIN chan = 1..Len(chan) /\ DOMAIN Tail(chan) = 1..(Len(chan) - 1)
  BY <1>1
<1>3. ASSUME Head(chan).kind # "start", NEW i \in DOMAIN chan, chan[i].kind = "start"
      PROVE  i - 1 \in DOMAIN Tail(chan) /\ Tail(chan)[i - 1] = chan[i]
  <2>1. i # 1 /\ i \in 1..Len(chan)
    BY <1>1, <1>2, <1>3
  <2>2. i - 1 \in 1..(Len(chan) - 1)
    BY <1>1, <2>1
  <2>3. Tail(chan)[i - 1] = chan[(i - 1) + 1]
    BY <1>1, <2>2
  <2> QED
    BY <1>2, <2>1, <2>2, <2>3
<1> QED
  BY <1>1, <1>3

\* What was remembered and configured, and the process while it only moves on.
LEMMA DiskStored ==
  ASSUME SessionInv, NEW rotation, NEW ok \in BOOLEAN, NEW told, Stored(rotation, ok, told)
  PROVE  DiskType(disk')
BY DEF SessionInv, DiskType, Stored

LEMMA ProcessStep ==
  ASSUME SessionInv, StartInv(proc)', disk' = disk \/ DiskType(disk')
  PROVE  SessionInv'
BY DEF SessionInv

LEMMA Begins ==
  ASSUME SessionInv, SpawnThreads \/ MarkBootstrap \/ MarkStarting \/ AttemptFails
                     \/ Preflight \/ StageStartup \/ Runs \/ NestedRuns
  PROVE  SessionInv'
<1>1. StartInv(proc) /\ UNCHANGED disk
  BY DEF SessionInv, SpawnThreads, MarkBootstrap, MarkStarting, AttemptFails, Preflight,
         StageStartup, Runs, NestedRuns, Up, At
<1>2. ASSUME SpawnThreads PROVE StartInv(proc)'
  BY <1>1, <1>2 DEF SpawnThreads, At, StartInv, IsProc, ProcFields, PhaseInv, HasStart
<1>3. ASSUME MarkBootstrap PROVE StartInv(proc)'
  BY <1>1, <1>3 DEF MarkBootstrap, Move, At, StartInv, IsProc, ProcFields, PhaseInv, HasStart
<1>4. ASSUME MarkStarting PROVE StartInv(proc)'
  BY <1>1, <1>4 DEF MarkStarting, Move, At, StartInv, IsProc, ProcFields, PhaseInv, HasStart
<1>5. ASSUME AttemptFails PROVE StartInv(proc)'
  BY <1>1, <1>5 DEF AttemptFails, Move, At, StartInv, IsProc, ProcFields, PhaseInv, HasStart
<1>6. ASSUME Preflight PROVE StartInv(proc)'
  BY <1>1, <1>6 DEF Preflight, Move, At, StartInv, IsProc, ProcFields, PhaseInv, HasStart
<1>7. ASSUME StageStartup PROVE StartInv(proc)'
  BY <1>1, <1>7 DEF StageStartup, Move, At, StartInv, IsProc, ProcFields, PhaseInv, HasStart
<1>8. ASSUME Runs PROVE StartInv(proc)'
  BY <1>1, <1>8 DEF Runs, Move, At, StartInv, IsProc, ProcFields, PhaseInv, HasStart
<1>9. ASSUME NestedRuns PROVE StartInv(proc)'
  BY <1>1, <1>9 DEF NestedRuns, Move, At, StartInv, IsProc, ProcFields, PhaseInv, HasStart
<1> QED
  BY <1>1, <1>2, <1>3, <1>4, <1>5, <1>6, <1>7, <1>8, <1>9, ProcessStep

\* Commands that are sent: a start by the bootstrap or a client, a rotation, a scale.
LEMMA Sends ==
  ASSUME SessionInv,
         SendStart \/ AskStart \/ WatcherReads \/ \E r \in Rotation : AskRotation(r)
  PROVE  SessionInv'
<1>1. StartInv(proc) /\ UNCHANGED disk
  BY DEF SessionInv, SendStart, AskStart, AskRotation, WatcherReads, Up, At
<1>2. /\ Job("start", 0) \in Command /\ Job("start", 0).kind = "start"
      /\ \A r \in Rotation : Job("rotation", r) \in Command
      /\ Job("scale", disk.config) \in Command
  BY DEF Job, Command, SessionInv, DiskType, BadConfig
<1>3. proc.chan \in Seq(Command)
  BY <1>1 DEF StartInv, IsProc
<1>4. CASE SendStart
  <2>1. IsProc(proc') /\ PhaseInv(proc') /\ proc'.chan = Append(proc.chan, Job("start", 0))
    BY <1>1, <1>2, <1>3, <1>4, Sent DEF SendStart, Move, At, StartInv, IsProc, ProcFields, PhaseInv
  <2>2. StartInv(proc')
    BY <1>2, <1>3, <2>1, Sent DEF StartInv, HasStart
  <2> QED
    BY <1>1, <2>2, ProcessStep
<1>5. CASE AskStart
  <2>1. IsProc(proc') /\ PhaseInv(proc') /\ proc'.chan = Append(proc.chan, Job("start", 0))
    BY <1>1, <1>2, <1>3, <1>5, Sent DEF AskStart, StartInv, IsProc, ProcFields, PhaseInv
  <2>2. StartInv(proc')
    BY <1>2, <1>3, <2>1, Sent DEF StartInv, HasStart
  <2> QED
    BY <1>1, <2>2, ProcessStep
<1>6. ASSUME NEW r \in Rotation, AskRotation(r) PROVE SessionInv'
  <2>1. /\ IsProc(proc') /\ PhaseInv(proc') /\ proc'.chan = Append(proc.chan, Job("rotation", r))
        /\ proc'.pending = proc.pending /\ proc'.pc = proc.pc
    BY <1>1, <1>2, <1>3, <1>6, Sent, ZenonT(60) DEF AskRotation, StartInv, IsProc, ProcFields, PhaseInv
  <2>2. StartInv(proc')
    BY <1>1, <1>2, <1>3, <2>1, Sent, ZenonT(60) DEF StartInv, HasStart
  <2> QED
    BY <1>1, <2>2, ProcessStep
<1>7. CASE WatcherReads
  <2>1. /\ IsProc(proc') /\ PhaseInv(proc')
        /\ proc'.chan = proc.chan \/ proc'.chan = Append(proc.chan, Job("scale", disk.config))
        /\ proc'.pending = proc.pending /\ proc'.pc = proc.pc
    BY <1>1, <1>2, <1>3, <1>7, Sent DEF WatcherReads, StartInv, IsProc, ProcFields, PhaseInv
  <2>2. StartInv(proc')
    BY <1>1, <1>2, <1>3, <2>1, Sent DEF StartInv, HasStart
  <2> QED
    BY <1>1, <2>2, ProcessStep
<1> QED
  BY <1>4, <1>5, <1>6, <1>7

\* Before the runtime is entered only a start ends the wait for one.
LEMMA Receives ==
  ASSUME SessionInv, Receive
  PROVE  SessionInv'
<1>1. StartInv(proc) /\ UNCHANGED disk /\ proc.chan \in Seq(Command) /\ proc.chan # <<>>
  BY DEF SessionInv, Receive, Up, At, StartInv, IsProc
<1>2. Tail(proc.chan) \in Seq(Command)
  BY <1>1, Taken
<1>3. /\ IsProc(proc') /\ PhaseInv(proc')
      /\ proc'.pending = proc.pending /\ proc'.chan = Tail(proc.chan)
      /\ proc'.pc = IF Head(proc.chan).kind = "start" THEN "attempt" ELSE "receive"
  BY <1>1, <1>2, ZenonT(60) DEF Receive, Move, At, StartInv, IsProc, ProcFields, PhaseInv
<1>4. StartInv(proc')
  BY <1>1, <1>3, Taken, ZenonT(60) DEF StartInv, HasStart, Receive, At
<1> QED
  BY <1>1, <1>4, ProcessStep

\* A running session takes all commands, a start too: none is pending then.
LEMMA Serves ==
  ASSUME SessionInv, StageNext \/ AnswerJob \/ WithdrawJob \/ \E ok \in BOOLEAN : CommitJob(ok)
  PROVE  SessionInv'
<1>0. UNCHANGED disk \/ DiskType(disk')
  BY DiskStored DEF StageNext, AnswerJob, WithdrawJob, CommitJob
<1>1. StartInv(proc) /\ ~proc.pending
  BY DEF SessionInv, StageNext, AnswerJob, WithdrawJob, CommitJob, Up, At, StartInv, PhaseInv
<1>2. CASE StageNext
  <2>1. <<>> \in Seq(Command)
    OBVIOUS
  <2>2. StartInv(proc')
    BY <1>1, <1>2, <2>1, ZenonT(60) DEF StageNext, Ingested, StartInv, IsProc, ProcFields, PhaseInv
  <2> QED
    BY <1>0, <2>2, ProcessStep
<1>3. CASE AnswerJob
  <2>1. StartInv(proc')
    BY <1>1, <1>3, ZenonT(60) DEF AnswerJob, Answered, StartInv, IsProc, ProcFields, PhaseInv
  <2> QED
    BY <1>0, <2>1, ProcessStep
<1>4. CASE WithdrawJob
  <2>1. StartInv(proc')
    BY <1>1, <1>4, ZenonT(60) DEF WithdrawJob, Answered, StartInv, IsProc, ProcFields, PhaseInv
  <2> QED
    BY <1>0, <2>1, ProcessStep
<1>5. CASE \E ok \in BOOLEAN : CommitJob(ok)
  <2>1. StartInv(proc')
    BY <1>1, <1>5, ZenonT(60) DEF CommitJob, Committed, StartInv, IsProc, ProcFields, PhaseInv
  <2> QED
    BY <1>0, <2>1, ProcessStep
<1> QED
  BY <1>2, <1>3, <1>4, <1>5

\* The process starts, stores the rotation it was started with, ends or is
\* killed; the operator rotates a nested session or edits the configuration.
LEMMA StartsAndEnds ==
  ASSUME SessionInv,
         \/ \E r \in Rotation \cup {NoRotation}, onHost, listens \in BOOLEAN : Boot(r, onHost, listens)
         \/ \E ok \in BOOLEAN : PersistStartup(ok)
         \/ WatcherStarts \/ WindowCloses \/ Crash
         \/ \E r \in Rotation, ok \in BOOLEAN : RotateNested(r, ok)
         \/ \E c \in Factor \cup {BadConfig} : Edit(c)
  PROVE  SessionInv'
<1>1. ASSUME NEW r, NEW onHost \in BOOLEAN, NEW listens \in BOOLEAN, Boot(r, onHost, listens)
      PROVE  SessionInv'
  <2>1. <<>> \in Seq(Command)
    OBVIOUS
  <2>2. StartInv(proc')
    BY <1>1, <2>1 DEF Boot, StartInv, IsProc, ProcFields, PhaseInv
  <2> QED
    BY <1>1, <2>2, ProcessStep DEF Boot
<1>2. ASSUME NEW ok \in BOOLEAN, PersistStartup(ok) PROVE SessionInv'
  <2>1. StartInv(proc')
    BY <1>2 DEF PersistStartup, Move, At, Up, SessionInv, StartInv, IsProc, ProcFields, PhaseInv, HasStart
  <2>2. disk' = disk \/ DiskType(disk')
    BY <1>2, DiskStored DEF PersistStartup
  <2> QED
    BY <2>1, <2>2, ProcessStep
<1>3. CASE WatcherStarts
  <2>1. StartInv(proc')
    BY <1>3 DEF WatcherStarts, Up, SessionInv, StartInv, IsProc, ProcFields, PhaseInv, HasStart
  <2> QED
    BY <1>3, <2>1, ProcessStep DEF WatcherStarts
<1>4. CASE WindowCloses \/ Crash
  BY <1>4 DEF WindowCloses, Crash, SessionInv, Up, Down
<1>5. ASSUME NEW r, NEW ok \in BOOLEAN, RotateNested(r, ok) PROVE SessionInv'
  <2>1. StartInv(proc')
    BY <1>5 DEF RotateNested, SessionInv, Up, StartInv, IsProc, ProcFields, PhaseInv, HasStart
  <2>2. DiskType(disk')
    BY <1>5, DiskStored DEF RotateNested
  <2> QED
    BY <2>1, <2>2, ProcessStep
<1>6. ASSUME NEW c \in Factor \cup {BadConfig}, Edit(c) PROVE SessionInv'
  BY <1>6 DEF Edit, SessionInv, DiskType, Up
<1> QED
  BY <1>1, <1>2, <1>3, <1>4, <1>5, <1>6

LEMMA SessionStarts == SessionInit => SessionInv
BY SessionAssumption DEF SessionInit, SessionInv, DiskType, Up, Down

LEMMA SessionStep == SessionInv /\ [Next]_vars => SessionInv'
<1> SUFFICES ASSUME SessionInv, [Next]_vars PROVE SessionInv'
  OBVIOUS
<1>1. CASE UNCHANGED <<proc, disk>>
  BY <1>1 DEF SessionInv, Up
<1>2. CASE MainThread
  BY <1>2, Begins, Sends, Receives, Serves, StartsAndEnds DEF MainThread
<1>3. CASE ControlThread
  BY <1>3, Sends, StartsAndEnds DEF ControlThread
<1>4. CASE SessionNext
  BY <1>2, <1>3, <1>4, Sends, StartsAndEnds DEF SessionNext
<1> QED
  BY <1>1, <1>4 DEF Next, Measure, Scene, Session, Scanout, vars

LEMMA SessionInvariant == Spec => []SessionInv
<1>1. Init => SessionInv
  BY SessionStarts DEF Init
<1> QED
  BY <1>1, SessionStep, PTL DEF Spec

\* A start of the host runtime that the status shows as pending is not lost in
\* the channel: neither by a client that asks again, nor by commands that come
\* before it, nor by a session that drops what it finds (control.rs, main.rs).
THEOREM PendingStartSafe == Spec => []PendingStartIsKept
<1>1. SessionInv => PendingStartIsKept
  BY DEF SessionInv, StartInv, HasStart, PendingStartIsKept, At
<1> QED
  BY <1>1, SessionInvariant, PTL

-----------------------------------------------------------------------------
(* What a running session takes from the channel *)

\* The smallest member of a set of numbers.
Less(i, j) == i < j

LEMMA Smallest ==
  ASSUME NEW S \in SUBSET Nat, S # {}
  PROVE  \E m \in S : \A n \in S : ~(n < m)
<1>1. IsWellFoundedOn(OpToRel(Less, Nat), Nat)
  BY NatLessThanWellFounded DEF Less, OpToRel
<1>2. PICK m \in S : \A n \in S : ~(<<n, m>> \in OpToRel(Less, Nat))
  BY <1>1, WFMin
<1> QED
  BY <1>2 DEF OpToRel, Less

\* What a drain of the channel has put in the queue after i commands.
Drain(kept, queue, chan, n) ==
  kept = [i \in 0 .. n |->
            IF i = 0 THEN queue
            ELSE IF chan[i].kind = "start" THEN kept[i - 1] ELSE Append(kept[i - 1], chan[i])]

LEMMA DrainEnds ==
  ASSUME NEW queue, NEW chan
  PROVE  \A n \in Nat : \E kept : Drain(kept, queue, chan, n)
<1> DEFINE Bad == {n \in Nat : ~ \E kept : Drain(kept, queue, chan, n)}
<1> SUFFICES ASSUME Bad # {} PROVE FALSE
  OBVIOUS
<1>1. PICK m \in Bad : \A n \in Bad : ~(n < m)
  BY Smallest
<1>2. m # 0
  <2> DEFINE kept == [i \in 0 .. 0 |-> queue]
  <2>1. \A i \in 0 .. 0 : i = 0
    OBVIOUS
  <2>2. Drain(kept, queue, chan, 0)
    BY <2>1 DEF Drain
  <2> QED
    BY <2>2
<1>3. m - 1 \in Nat /\ m - 1 < m
  BY <1>2
<1>4. PICK kept : Drain(kept, queue, chan, m - 1)
  BY <1>1, <1>3
<1> DEFINE last == IF chan[m].kind = "start" THEN kept[m - 1] ELSE Append(kept[m - 1], chan[m])
           next == [i \in 0 .. m |-> IF i = m THEN last ELSE kept[i]]
<1>5. next = [i \in 0 .. m |->
            IF i = 0 THEN queue
            ELSE IF chan[i].kind = "start" THEN next[i - 1] ELSE Append(next[i - 1], chan[i])]
  <2>1. ASSUME NEW i \in 0 .. m
        PROVE  next[i] = IF i = 0 THEN queue
                         ELSE IF chan[i].kind = "start" THEN next[i - 1]
                              ELSE Append(next[i - 1], chan[i])
    <3>1. CASE i = 0
      <4>1. 0 \in 0 .. m - 1 /\ 0 # m
        BY <1>2, <1>3
      <4>2. kept[0] = queue
        BY <1>4, <4>1 DEF Drain
      <4> QED
        BY <3>1, <4>1, <4>2
    <3>2. CASE i = m
      <4>1. m - 1 \in 0 .. m /\ m - 1 # m
        BY <1>2, <1>3
      <4>2. next[i] = last /\ next[i - 1] = kept[m - 1]
        BY <3>2, <4>1
      <4> HIDE DEF next
      <4> QED
        BY <1>2, <3>2, <4>2
    <3>3. CASE i # 0 /\ i # m
      <4>1. i \in 0 .. m - 1 /\ i - 1 \in 0 .. m - 1 /\ i - 1 \in 0 .. m /\ i - 1 # m
        BY <1>2, <3>3
      <4>2. next[i] = kept[i] /\ next[i - 1] = kept[i - 1]
        BY <3>3, <4>1
      <4>3. kept[i] = IF i = 0 THEN queue
                      ELSE IF chan[i].kind = "start" THEN kept[i - 1]
                           ELSE Append(kept[i - 1], chan[i])
        BY <1>4, <4>1 DEF Drain
      <4> HIDE DEF next
      <4> QED
        BY <4>2, <4>3
    <3> QED
      BY <3>1, <3>2, <3>3
  <2> DEFINE body == [i \in 0 .. m |->
            IF i = 0 THEN queue
            ELSE IF chan[i].kind = "start" THEN next[i - 1] ELSE Append(next[i - 1], chan[i])]
  <2>2. next = [i \in 0 .. m |-> next[i]]
    OBVIOUS
  <2> HIDE DEF next
  <2>3. [i \in 0 .. m |-> next[i]] = body
    BY <2>1
  <2> QED
    BY <2>2, <2>3
<1>6. Drain(next, queue, chan, m)
  <2> HIDE DEF next
  <2> QED
    BY <1>5 DEF Drain
<1> QED
  BY <1>6, <1>1

LEMMA DrainedKept ==
  ASSUME NEW queue, NEW chan, Len(chan) \in Nat
  PROVE  \E kept : Drain(kept, queue, chan, Len(chan)) /\ Drained(queue, chan) = kept[Len(chan)]
<1> DEFINE kept == CHOOSE k : Drain(k, queue, chan, Len(chan))
<1>1. Drain(kept, queue, chan, Len(chan))
  BY DrainEnds
<1>2. Drained(queue, chan) = kept[Len(chan)]
  BY DEF Drained, Drain
<1> QED
  BY <1>1, <1>2

-----------------------------------------------------------------------------
(* Rotations on their way *)

Rots(s) == {i \in 1 .. Len(s) : s[i].kind = "rotation"}

\* One rotation, and that is v.
Single(s, v) == /\ \A i, j \in Rots(s) : i = j
                /\ \A i \in Rots(s) : s[i].to = v

LEMMA SentRotations ==
  ASSUME NEW s \in Seq(Command), NEW c \in Command
  PROVE  /\ Append(s, c) \in Seq(Command)
         /\ c.kind # "rotation" => Rots(Append(s, c)) = Rots(s)
         /\ c.kind = "rotation" => Rots(Append(s, c)) = Rots(s) \cup {Len(s) + 1}
         /\ \A i \in Rots(s) : Append(s, c)[i] = s[i]
         /\ Append(s, c)[Len(s) + 1] = c
<1>1. /\ Append(s, c) \in Seq(Command) /\ Len(Append(s, c)) = Len(s) + 1 /\ Len(s) \in Nat
      /\ \A i \in 1 .. Len(s) : Append(s, c)[i] = s[i]
      /\ Append(s, c)[Len(s) + 1] = c
  OBVIOUS
<1> DEFINE t == Append(s, c)
<1> HIDE DEF t
<1>2. Rots(t) = Rots(s) \cup (IF c.kind = "rotation" THEN {Len(s) + 1} ELSE {})
  BY <1>1 DEF Rots, t
<1>3. \A i \in Rots(s) : t[i] = s[i]
  BY <1>1 DEF Rots, t
<1> QED
  BY <1>1, <1>2, <1>3 DEF t

LEMMA SentSingle ==
  ASSUME NEW s \in Seq(Command), NEW c \in Command, NEW v, Single(s, v),
         c.kind = "rotation" => c.to = v /\ Rots(s) = {}
  PROVE  Single(Append(s, c), v)
<1> DEFINE t == Append(s, c)
<1>0. /\ c.kind # "rotation" => Rots(t) = Rots(s)
      /\ c.kind = "rotation" => Rots(t) = Rots(s) \cup {Len(s) + 1}
      /\ \A i \in Rots(s) : t[i] = s[i]
      /\ t[Len(s) + 1] = c
  BY SentRotations
<1> HIDE DEF t
<1>1. Single(t, v)
  BY <1>0 DEF Single
<1> QED
  BY <1>1 DEF t

LEMMA TakenRotations ==
  ASSUME NEW s \in Seq(Command), NEW v, s # <<>>, Single(s, v)
  PROVE  /\ Tail(s) \in Seq(Command) /\ Head(s) \in Command
         /\ Single(Tail(s), v)
         /\ Rots(s) = {} => Rots(Tail(s)) = {} /\ Head(s).kind # "rotation"
         /\ Head(s).kind = "rotation" => Rots(Tail(s)) = {} /\ Head(s).to = v
<1> DEFINE t == Tail(s)
<1>1. /\ t \in Seq(Command) /\ Len(t) = Len(s) - 1 /\ Len(s) \in Nat \ {0}
      /\ \A i \in 1 .. Len(t) : t[i] = s[i + 1]
      /\ Head(s) = s[1] /\ Head(s) \in Command
  OBVIOUS
<1> HIDE DEF t
<1>2. \A i \in Rots(t) : i \in Nat /\ i + 1 \in Rots(s) /\ t[i] = s[i + 1] /\ i + 1 # 1
  BY <1>1 DEF Rots
<1>3. Head(s).kind = "rotation" <=> 1 \in Rots(s)
  BY <1>1 DEF Rots
<1>4. Single(t, v)
  <2>1. ASSUME NEW i \in Rots(t), NEW j \in Rots(t) PROVE i = j
    <3>1. i + 1 = j + 1 /\ i \in Nat /\ j \in Nat
      BY <1>2 DEF Single
    <3> QED
      BY <3>1
  <2>2. \A i \in Rots(t) : t[i].to = v
    BY <1>2 DEF Single
  <2> QED
    BY <2>1, <2>2 DEF Single
<1>5. Head(s).kind = "rotation" => Rots(t) = {} /\ Head(s).to = v
  BY <1>1, <1>2, <1>3 DEF Single
<1>6. Rots(s) = {} => Rots(t) = {} /\ Head(s).kind # "rotation"
  BY <1>2, <1>3
<1> QED
  BY <1>1, <1>4, <1>5, <1>6 DEF t

\* A drain neither makes nor doubles a rotation.
LEMMA DrainedRotations ==
  ASSUME NEW queue \in Seq(Command), NEW chan \in Seq(Command), NEW v,
         Single(queue, v), Single(chan, v), Rots(queue) = {} \/ Rots(chan) = {}
  PROVE  /\ Drained(queue, chan) \in Seq(Command)
         /\ Single(Drained(queue, chan), v)
         /\ Rots(Drained(queue, chan)) # {} => Rots(queue) # {} \/ Rots(chan) # {}
<1> DEFINE n == Len(chan)
<1>1. n \in Nat /\ \A i \in 1 .. n : chan[i] \in Command
  OBVIOUS
<1>2. PICK kept : Drain(kept, queue, chan, n) /\ Drained(queue, chan) = kept[n]
  BY <1>1, DrainedKept
<1> DEFINE Good(i) == /\ kept[i] \in Seq(Command) /\ Single(kept[i], v)
                      /\ Rots(kept[i]) # {} => Rots(queue) # {} \/ \E j \in Rots(chan) : j <= i
           Bad == {i \in 0 .. n : ~Good(i)}
<1>3. \A i \in 0 .. n : kept[i] = IF i = 0 THEN queue
                                  ELSE IF chan[i].kind = "start" THEN kept[i - 1]
                                  ELSE Append(kept[i - 1], chan[i])
  BY <1>2 DEF Drain
<1>4. Bad = {}
  <2> SUFFICES ASSUME Bad # {} PROVE FALSE
    OBVIOUS
  <2>0. Bad \in SUBSET Nat
    BY <1>1
  <2>1. PICK m \in Bad : \A i \in Bad : ~(i < m)
    <3> HIDE DEF Bad
    <3> QED
      BY <2>0, Smallest
  <2>2. m \in 0 .. n /\ ~Good(m)
    OBVIOUS
  <2>3. m # 0
    <3>1. Good(0)
      <4>1. kept[0] = queue
        BY <1>1, <1>3
      <4> QED
        BY <4>1
    <3> QED
      BY <2>2, <3>1
  <2>4. m - 1 \in 0 .. n /\ m \in 1 .. n /\ m - 1 < m
    BY <1>1, <2>2, <2>3
  <2>5. Good(m - 1)
    BY <2>1, <2>4
  <2> DEFINE s == kept[m - 1]
             c == chan[m]
  <2>6. c \in Command /\ (kept[m] = IF c.kind = "start" THEN s ELSE Append(s, c))
    BY <1>1, <1>3, <2>2, <2>3, <2>4
  <2>7. \A j \in Rots(chan) : j <= m - 1 => j <= m /\ j # m
    BY <1>1, <2>4 DEF Rots
  <2>8. c.kind = "rotation" <=> m \in Rots(chan)
    BY <2>4 DEF Rots
  <2>9. CASE c.kind = "start"
    <3>1. kept[m] = s
      BY <2>6, <2>9
    <3> QED
      BY <2>2, <2>5, <2>7, <3>1
  <2>10. CASE c.kind # "start"
    <3>1. kept[m] = Append(s, c)
      BY <2>6, <2>10
    <3>2. s \in Seq(Command) /\ Single(s, v)
      BY <2>5
    <3>3. c.kind = "rotation" => c.to = v /\ Rots(s) = {}
      <4> SUFFICES ASSUME c.kind = "rotation" PROVE c.to = v /\ Rots(s) = {}
        OBVIOUS
      <4>1. m \in Rots(chan) /\ Rots(queue) = {}
        BY <2>8
      <4>2. Rots(s) = {}
        BY <2>5, <2>7, <4>1 DEF Single
      <4> QED
        BY <4>1, <4>2 DEF Single
    <3>4. m <= m
      BY <2>4
    <3> HIDE DEF s, c
    <3>5. Append(s, c) \in Seq(Command) /\ Single(Append(s, c), v)
      BY <2>6, <3>2, <3>3, SentSingle
    <3>6. Rots(Append(s, c)) # {} => Rots(s) # {} \/ c.kind = "rotation"
      BY <2>6, <3>2, SentRotations
    <3>7. Rots(s) # {} => Rots(queue) # {} \/ \E j \in Rots(chan) : j <= m
      BY <2>5, <2>7 DEF s
    <3> QED
      BY <2>2, <2>8, <3>1, <3>4, <3>5, <3>6, <3>7
  <2> QED
    BY <2>9, <2>10
<1>5. Good(n)
  <2>1. n \in 0 .. n
    BY <1>1
  <2>2. n \notin Bad
    <3> HIDE DEF Bad
    <3> QED
      BY <1>4
  <2> QED
    BY <2>1, <2>2
<1> QED
  BY <1>2, <1>5

-----------------------------------------------------------------------------
(* The rotation a client waits for, and the one on disk *)

\* A rotation that was asked for and not answered is in one place: the channel,
\* the queue of the runtime, or its transaction.
InOnePlace(p) ==
  /\ p.queue \in Seq(Command) /\ p.job \in Command \cup {NoJob}
  /\ p.asked \in Rotation \cup {NoRotation}
  /\ Single(p.chan, p.asked) /\ Single(p.queue, p.asked)
  /\ p.job.kind = "rotation" =>
       p.job.to = p.asked /\ Rots(p.chan) = {} /\ Rots(p.queue) = {}
  /\ Rots(p.chan) = {} \/ Rots(p.queue) = {}
  /\ p.asked = NoRotation =>
       Rots(p.chan) = {} /\ Rots(p.queue) = {} /\ p.job.kind # "rotation"
  /\ p.done => p.job # NoJob /\ (p.job.kind = "rotation" => p.rotation = p.job.to)

\* Nobody waits for one who cannot.
AskedFor(p) ==
  /\ p.ctl = "idle" => p.asked = NoRotation
  /\ p.pc \in {"new", "spawn"} => p.ctl = "off" /\ p.asked = NoRotation
  /\ ~p.host => p.asked = NoRotation
  /\ p.pc = "window" => ~p.host

IsBook(b) ==
  DOMAIN b = {"boots", "asks", "fails", "promised", "doubtful", "unstored"}
    /\ b = [f \in DOMAIN b |-> b[f]]

Loaded(d) == IF d.rotation = NoRotation THEN UsualRotation ELSE d.rotation

\* What is stored was promised or cut off, or is what the runtime is about to
\* promise.
Kept(p, d, b) ==
  ~b.unstored =>
    /\ b.promised # NoRotation =>
         \/ Loaded(d) \in {b.promised} \cup b.doubtful
         \/ p.pc # "down" /\ p.done /\ p.job.kind = "rotation" /\ Loaded(d) = p.job.to
    /\ p.pc = "new" =>
         p.rotation = IF p.explicit = NoRotation THEN Loaded(d) ELSE p.explicit
    /\ p.pc \notin {"down", "new"} => p.rotation = Loaded(d)

RotationInv ==
  /\ SessionInv /\ IsBook(book)
  /\ Up => InOnePlace(proc) /\ AskedFor(proc)
  /\ Kept(proc, disk, book)

LEMMA NoJobFacts == NoJob.kind # "rotation" /\ NoJob \notin Command
BY DEF NoJob, Command

\* The main thread or the watcher goes on.
LEMMA RotationRests ==
  ASSUME RotationInv, SessionInv',
         \/ SpawnThreads \/ MarkBootstrap \/ MarkStarting \/ AttemptFails
         \/ Preflight \/ StageStartup \/ Runs \/ NestedRuns \/ WatcherStarts
  PROVE  RotationInv'
<1>1. StartInv(proc) /\ Up /\ disk' = disk /\ ~At({"new"})
  BY DEF RotationInv, SessionInv, SpawnThreads, MarkBootstrap, MarkStarting, AttemptFails, Preflight,
         StageStartup, Runs, NestedRuns, WatcherStarts, Up, At
<1>2. IsBook(book') /\ book'.promised = book.promised /\ book'.doubtful = book.doubtful
      /\ book'.unstored = book.unstored
  BY DEF RotationInv, IsBook, Spend, SpawnThreads, MarkBootstrap, MarkStarting, AttemptFails, Preflight,
         StageStartup, Runs, NestedRuns, WatcherStarts
<1>3. /\ proc'.chan = proc.chan /\ proc'.queue = proc.queue /\ proc'.job = proc.job
      /\ proc'.done = proc.done /\ proc'.rotation = proc.rotation /\ proc'.asked = proc.asked
      /\ proc'.host = proc.host
  <2>0. DOMAIN proc = ProcFields
    BY <1>1 DEF StartInv, IsProc
  <2>1. CASE SpawnThreads
    BY <2>0, <2>1 DEF SpawnThreads, ProcFields
  <2>2. CASE MarkBootstrap \/ MarkStarting
    BY <2>0, <2>2 DEF MarkBootstrap, MarkStarting, Move, ProcFields
  <2>3. CASE AttemptFails \/ Preflight
    BY <2>0, <2>3 DEF AttemptFails, Preflight, Move, ProcFields
  <2>4. CASE StageStartup
    BY <2>0, <2>4 DEF StageStartup, Move, ProcFields
  <2>5. CASE Runs \/ NestedRuns
    BY <2>0, <2>5 DEF Runs, NestedRuns, Move, ProcFields
  <2>6. CASE WatcherStarts
    BY <2>0, <2>6 DEF WatcherStarts, ProcFields
  <2> QED
    BY <2>1, <2>2, <2>3, <2>4, <2>5, <2>6
<1>4. /\ proc'.pc \notin {"new", "spawn", "down"}
      /\ proc'.pc = "window" => proc.pc = "nested" \/ proc.pc = "window"
      /\ proc'.ctl = proc.ctl \/ proc.pc = "spawn"
  BY <1>1, ZenonT(60) DEF StartInv, IsProc, ProcFields, Move, At, Up, SpawnThreads, MarkBootstrap, MarkStarting,
         AttemptFails, Preflight, StageStartup, Runs, NestedRuns, WatcherStarts
<1>5. InOnePlace(proc) /\ AskedFor(proc) /\ PhaseInv(proc)
  BY <1>1 DEF RotationInv, StartInv
<1>6. InOnePlace(proc')
  BY <1>3, <1>5 DEF InOnePlace
<1>7. AskedFor(proc')
  BY <1>3, <1>4, <1>5 DEF AskedFor, PhaseInv
<1>8. Kept(proc', disk, book')
  BY <1>1, <1>2, <1>3, <1>4 DEF Kept, RotationInv, Up, At
<1> QED
  BY <1>1, <1>2, <1>6, <1>7, <1>8 DEF RotationInv

\* What the steps of a running process have in common.
LEMMA RotationStep ==
  ASSUME SessionInv', IsBook(book'), InOnePlace(proc'), AskedFor(proc'), Kept(proc', disk', book')
  PROVE  RotationInv'
BY DEF RotationInv

LEMMA BookKept ==
  ASSUME IsBook(book)
  PROVE  /\ \A budget \in {"boots", "asks", "fails"} : Spend(budget) =>
              /\ IsBook(book') /\ book'.promised = book.promised
              /\ book'.doubtful = book.doubtful /\ book'.unstored = book.unstored
         /\ \A r : /\ IsBook(Promise(book, r)) /\ Promise(book, r).promised = r
                   /\ Promise(book, r).doubtful = {} /\ Promise(book, r).unstored = book.unstored
BY DEF IsBook, Spend, Promise

\* A rotation is stored, or the operator has been warned.
LEMMA StoredOrWarned ==
  ASSUME DiskType(disk), NEW r, r # NoRotation, NEW ok \in BOOLEAN, NEW told, IsBook(told),
         Stored(r, ok, told)
  PROVE  /\ IsBook(book')
         /\ \/ Loaded(disk') = r /\ book' = told
            \/ book'.unstored
<1>1. CASE ok
  <2>1. book' = told /\ disk' = [disk EXCEPT !.rotation = r]
    BY <1>1 DEF Stored
  <2>2. disk'.rotation = r
    BY <2>1 DEF DiskType
  <2> QED
    BY <2>1, <2>2 DEF Loaded
<1>2. CASE ~ok
  BY <1>2 DEF Stored, IsBook
<1> QED
  BY <1>1, <1>2

LEMMA SendsRotation ==
  ASSUME RotationInv, SessionInv',
         SendStart \/ AskStart \/ WatcherReads \/ \E r \in Rotation : AskRotation(r)
  PROVE  RotationInv'
<1>1. StartInv(proc) /\ Up /\ disk' = disk
  BY DEF RotationInv, SessionInv, SendStart, AskStart, AskRotation, WatcherReads, Up, At
<1>2. InOnePlace(proc) /\ AskedFor(proc) /\ proc.chan \in Seq(Command) /\ DOMAIN proc = ProcFields
  BY <1>1 DEF RotationInv, StartInv, IsProc
<1>3. IsBook(book') /\ book'.promised = book.promised /\ book'.doubtful = book.doubtful
      /\ book'.unstored = book.unstored
  <2>1. book' = book \/ Spend("asks")
    BY DEF SendStart, AskStart, AskRotation, WatcherReads
  <2> QED
    BY <2>1, BookKept DEF RotationInv
<1>4. /\ proc'.queue = proc.queue /\ proc'.job = proc.job /\ proc'.done = proc.done
      /\ proc'.rotation = proc.rotation /\ proc'.host = proc.host
      /\ proc'.pc \in {proc.pc, "receive"} /\ (proc'.pc = proc.pc \/ proc.pc = "send")
      /\ proc'.explicit = proc.explicit
  <2>1. CASE SendStart
    BY <1>2, <2>1 DEF SendStart, Move, At, ProcFields
  <2>2. CASE AskStart \/ WatcherReads
    BY <1>2, <2>2 DEF AskStart, WatcherReads, ProcFields
  <2>3. CASE \E r \in Rotation : AskRotation(r)
    BY <1>2, <2>3, ZenonT(60) DEF AskRotation, ProcFields
  <2> QED
    BY <2>1, <2>2, <2>3
<1>5. Kept(proc', disk', book')
  BY <1>1, <1>3, <1>4 DEF Kept, RotationInv, Up
<1>6. CASE \E r \in Rotation : AskRotation(r)
  <2>1. PICK r \in Rotation : AskRotation(r)
    BY <1>6
  <2> DEFINE c == Job("rotation", r)
  <2>2. proc'.chan = Append(proc.chan, c) /\ proc'.asked = r /\ proc'.ctl = "waiting"
        /\ proc.ctl = "idle" /\ proc.host /\ proc'.pc = proc.pc
    BY <1>2, <2>1 DEF AskRotation, ProcFields
  <2>3. proc.asked = NoRotation /\ Rots(proc.chan) = {} /\ Rots(proc.queue) = {}
        /\ proc.job.kind # "rotation" /\ proc.pc \notin {"new", "spawn", "window"}
    BY <1>2, <2>2 DEF AskedFor, InOnePlace
  <2>4. c \in Command /\ c.kind = "rotation" /\ c.to = r
    BY DEF Job, Command
  <2>5. Single(proc.chan, r) /\ Single(proc.queue, r)
    BY <2>3 DEF Single
  <2> HIDE DEF c
  <2>6. Single(proc'.chan, r)
    BY <1>2, <2>2, <2>3, <2>4, <2>5, SentSingle
  <2>7. r # NoRotation
    BY SessionAssumption
  <2>8. InOnePlace(proc')
    BY <1>2, <1>4, <2>2, <2>3, <2>5, <2>6, <2>7 DEF InOnePlace
  <2>9. AskedFor(proc')
    BY <1>4, <2>2, <2>3 DEF AskedFor
  <2> QED
    BY <1>3, <1>5, <2>8, <2>9, RotationStep
<1>7. CASE SendStart \/ AskStart \/ WatcherReads
  <2>1. proc'.asked = proc.asked /\ proc'.ctl = proc.ctl
    <3>1. CASE SendStart
      BY <1>2, <3>1 DEF SendStart, Move, ProcFields
    <3>2. CASE AskStart \/ WatcherReads
      BY <1>2, <3>2 DEF AskStart, WatcherReads, ProcFields
    <3> QED
      BY <1>7, <3>1, <3>2
  <2>2. proc'.chan = proc.chan
        \/ \E c \in Command : c.kind # "rotation" /\ proc'.chan = Append(proc.chan, c)
    <3>1. Job("start", 0) \in Command /\ Job("start", 0).kind # "rotation"
          /\ Job("scale", disk.config) \in Command /\ Job("scale", disk.config).kind # "rotation"
      BY DEF Job, Command, RotationInv, SessionInv, DiskType, BadConfig
    <3>2. CASE SendStart
      BY <1>2, <3>1, <3>2 DEF SendStart, Move, ProcFields
    <3>3. CASE AskStart
      BY <1>2, <3>1, <3>3 DEF AskStart, ProcFields
    <3>4. CASE WatcherReads
      BY <1>2, <3>1, <3>4 DEF WatcherReads, ProcFields
    <3> QED
      BY <1>7, <3>2, <3>3, <3>4
  <2>3. Rots(proc'.chan) = Rots(proc.chan) /\ Single(proc'.chan, proc.asked)
    <3>1. CASE proc'.chan = proc.chan
      BY <1>2, <3>1 DEF InOnePlace
    <3>2. ASSUME NEW c \in Command, c.kind # "rotation", proc'.chan = Append(proc.chan, c)
          PROVE  Rots(proc'.chan) = Rots(proc.chan) /\ Single(proc'.chan, proc.asked)
      <4>1. Single(proc.chan, proc.asked)
        BY <1>2 DEF InOnePlace
      <4> QED
        BY <1>2, <3>2, <4>1, SentRotations, SentSingle
    <3> QED
      BY <2>2, <3>1, <3>2
  <2>4. InOnePlace(proc')
    BY <1>2, <1>4, <2>1, <2>3 DEF InOnePlace
  <2>5. AskedFor(proc')
    BY <1>2, <1>4, <2>1 DEF AskedFor
  <2> QED
    BY <1>3, <1>5, <2>4, <2>5, RotationStep
<1> QED
  BY <1>6, <1>7

LEMMA ReceivesRotation ==
  ASSUME RotationInv, SessionInv', Receive
  PROVE  RotationInv'
<1>1. StartInv(proc) /\ Up /\ disk' = disk /\ book' = book /\ proc.pc = "receive"
      /\ proc.chan # <<>>
  BY DEF RotationInv, SessionInv, Receive, Up, At
<1>2. InOnePlace(proc) /\ AskedFor(proc) /\ proc.chan \in Seq(Command) /\ DOMAIN proc = ProcFields
  BY <1>1 DEF RotationInv, StartInv, IsProc
<1> DEFINE head == Head(proc.chan)
           rest == [proc EXCEPT !.chan = Tail(@)]
<1>3. proc' = CASE head.kind = "start"    -> Move(rest, "attempt")
                [] head.kind = "rotation" -> [rest EXCEPT !.ctl = "idle", !.asked = NoRotation]
                [] OTHER                  -> rest
  BY DEF Receive
<1>4. DOMAIN rest = ProcFields /\ rest.chan = Tail(proc.chan)
      /\ rest.queue = proc.queue /\ rest.job = proc.job /\ rest.done = proc.done
      /\ rest.rotation = proc.rotation /\ rest.host = proc.host /\ rest.pc = proc.pc
      /\ rest.asked = proc.asked /\ rest.ctl = proc.ctl
  BY <1>2 DEF ProcFields
<1> DEFINE answers == head.kind = "rotation"
<1> HIDE DEF rest, head
<1>5. /\ proc'.chan = Tail(proc.chan)
      /\ proc'.queue = proc.queue /\ proc'.job = proc.job /\ proc'.done = proc.done
      /\ proc'.rotation = proc.rotation /\ proc'.host = proc.host
      /\ proc'.pc \in {"receive", "attempt"}
      /\ answers => proc'.asked = NoRotation
      /\ ~answers => proc'.asked = proc.asked /\ proc'.ctl = proc.ctl
  <2>1. CASE head.kind = "start"
    BY <1>1, <1>3, <1>4, <2>1 DEF Move, ProcFields
  <2>2. CASE head.kind = "rotation"
    BY <1>1, <1>3, <1>4, <2>2 DEF ProcFields
  <2>3. CASE head.kind # "start" /\ head.kind # "rotation"
    BY <1>1, <1>3, <1>4, <2>3
  <2> QED
    BY <2>1, <2>2, <2>3
<1>6. /\ Tail(proc.chan) \in Seq(Command)
      /\ Single(Tail(proc.chan), proc.asked)
      /\ Rots(proc.chan) = {} => Rots(Tail(proc.chan)) = {} /\ ~answers
      /\ answers => Rots(Tail(proc.chan)) = {}
  BY <1>1, <1>2, TakenRotations DEF InOnePlace, head
<1>7. InOnePlace(proc')
  <2>1. CASE answers
    <3>1. Rots(proc.queue) = {} /\ proc.job.kind # "rotation"
      BY <1>2, <1>6, <2>1 DEF InOnePlace
    <3> QED
      BY <1>2, <1>5, <1>6, <2>1, <3>1 DEF InOnePlace, Single
  <2>2. CASE ~answers
    BY <1>2, <1>5, <1>6, <2>2 DEF InOnePlace
  <2> QED
    BY <2>1, <2>2
<1>8. AskedFor(proc')
  BY <1>2, <1>5 DEF AskedFor
<1>9. Kept(proc', disk', book')
  BY <1>1, <1>5 DEF Kept, RotationInv
<1> QED
  BY <1>1, <1>7, <1>8, <1>9, RotationStep DEF RotationInv

LEMMA StagesRotation ==
  ASSUME RotationInv, SessionInv', StageNext
  PROVE  RotationInv'
<1>1. StartInv(proc) /\ Up /\ disk' = disk /\ book' = book /\ proc.pc = "serving"
      /\ proc.job = NoJob
  BY DEF RotationInv, SessionInv, StageNext, Up, At
<1>2. InOnePlace(proc) /\ AskedFor(proc) /\ proc.chan \in Seq(Command) /\ DOMAIN proc = ProcFields
  BY <1>1 DEF RotationInv, StartInv, IsProc
<1>3. ~proc.done
  BY <1>1, <1>2 DEF InOnePlace
<1> DEFINE p == Ingested(proc)
           d == Drained(proc.queue, proc.chan)
<1>4. DOMAIN p = ProcFields /\ p.chan = <<>> /\ p.queue = d /\ p.job = proc.job
      /\ p.done = proc.done /\ p.rotation = proc.rotation /\ p.host = proc.host
      /\ p.asked = proc.asked /\ p.ctl = proc.ctl /\ p.pc = proc.pc
  <2> HIDE DEF d
  <2>1. p = [proc EXCEPT !.queue = d, !.chan = <<>>]
    BY <1>2 DEF Ingested, ProcFields, d
  <2> QED
    BY <1>2, <2>1 DEF ProcFields
<1>5. proc' = IF p.queue = <<>> THEN p ELSE [p EXCEPT !.job = Head(p.queue), !.queue = Tail(@)]
  BY DEF StageNext
<1> HIDE DEF p
<1>6. d \in Seq(Command) /\ Single(d, proc.asked)
      /\ (proc.asked = NoRotation => Rots(d) = {})
  <2>1. /\ d \in Seq(Command) /\ Single(d, proc.asked)
        /\ Rots(d) # {} => Rots(proc.queue) # {} \/ Rots(proc.chan) # {}
    BY <1>2, DrainedRotations DEF InOnePlace
  <2> HIDE DEF d
  <2> QED
    BY <1>2, <2>1 DEF InOnePlace
<1> HIDE DEF d
<1>7. Rots(<<>>) = {} /\ Single(<<>>, proc.asked) /\ <<>> \in Seq(Command)
  BY DEF Rots, Single
<1>8. CASE d = <<>>
  <2>1. proc' = p
    BY <1>4, <1>5, <1>8
  <2>2. InOnePlace(proc')
    BY <1>1, <1>2, <1>3, <1>4, <1>6, <1>7, <2>1, NoJobFacts DEF InOnePlace
  <2>3. AskedFor(proc') /\ Kept(proc', disk', book')
    BY <1>1, <1>2, <1>3, <1>4, <2>1 DEF AskedFor, Kept, RotationInv
  <2> QED
    BY <1>1, <2>2, <2>3, RotationStep DEF RotationInv
<1>9. CASE d # <<>>
  <2>1. proc'.chan = <<>> /\ proc'.queue = Tail(d) /\ proc'.job = Head(d)
        /\ proc'.done = proc.done /\ proc'.rotation = proc.rotation /\ proc'.host = proc.host
        /\ proc'.asked = proc.asked /\ proc'.ctl = proc.ctl /\ proc'.pc = proc.pc
    BY <1>4, <1>5, <1>9 DEF ProcFields
  <2>2. /\ Tail(d) \in Seq(Command) /\ Head(d) \in Command
        /\ Single(Tail(d), proc.asked)
        /\ Rots(d) = {} => Rots(Tail(d)) = {} /\ Head(d).kind # "rotation"
        /\ Head(d).kind = "rotation" => Rots(Tail(d)) = {} /\ Head(d).to = proc.asked
    BY <1>6, <1>9, TakenRotations
  <2>3. InOnePlace(proc')
    BY <1>2, <1>3, <1>6, <1>7, <2>1, <2>2 DEF InOnePlace
  <2>4. AskedFor(proc') /\ Kept(proc', disk', book')
    BY <1>1, <1>2, <1>3, <2>1 DEF AskedFor, Kept, RotationInv
  <2> QED
    BY <1>1, <2>3, <2>4, RotationStep DEF RotationInv
<1> QED
  BY <1>8, <1>9

LEMMA CommitsRotation ==
  ASSUME RotationInv, SessionInv', NEW ok \in BOOLEAN, CommitJob(ok)
  PROVE  RotationInv'
<1>1. StartInv(proc) /\ Up /\ proc.pc = "serving" /\ proc.job # NoJob /\ ~proc.done
      /\ DiskType(disk) /\ IsBook(book)
  BY DEF RotationInv, SessionInv, CommitJob, Up, At
<1>2. InOnePlace(proc) /\ AskedFor(proc) /\ DOMAIN proc = ProcFields /\ PhaseInv(proc)
  BY <1>1 DEF RotationInv, StartInv, IsProc
<1>3. /\ proc'.chan = proc.chan /\ proc'.queue = proc.queue /\ proc'.job = proc.job
      /\ proc'.done = TRUE /\ proc'.rotation = Rotated(proc) /\ proc'.host = proc.host
      /\ proc'.asked = proc.asked /\ proc'.ctl = proc.ctl /\ proc'.pc = proc.pc
  <2>1. proc' = Committed(proc)
    BY DEF CommitJob
  <2> DEFINE r == Rotated(proc)
             f == IF proc.job.kind = "scale" THEN proc.job.to ELSE proc.factor
  <2>2. proc' = [proc EXCEPT !.rotation = r, !.factor = f, !.done = TRUE]
    BY <1>2, <2>1 DEF Committed, ProcFields
  <2> HIDE DEF r, f
  <2>3. /\ proc'.chan = proc.chan /\ proc'.queue = proc.queue /\ proc'.job = proc.job
        /\ proc'.done = TRUE /\ proc'.rotation = r /\ proc'.host = proc.host
        /\ proc'.asked = proc.asked /\ proc'.ctl = proc.ctl /\ proc'.pc = proc.pc
    BY <1>2, <2>2 DEF ProcFields
  <2> QED
    BY <2>3 DEF r
<1>4. InOnePlace(proc')
  BY <1>1, <1>2, <1>3 DEF InOnePlace, Rotated
<1>5. AskedFor(proc')
  BY <1>2, <1>3 DEF AskedFor
<1>6. CASE Rotated(proc) = proc.rotation
  <2>1. disk' = disk /\ book' = book
    BY <1>6 DEF CommitJob
  <2>2. Kept(proc', disk', book')
    BY <1>1, <1>3, <1>6, <2>1 DEF Kept, RotationInv
  <2> QED
    BY <1>1, <1>4, <1>5, <2>1, <2>2, RotationStep
<1>7. CASE Rotated(proc) # proc.rotation
  <2>1. Stored(Rotated(proc), ok, book)
    BY <1>7 DEF CommitJob
  <2>2. proc.job.kind = "rotation" /\ Rotated(proc) = proc.job.to
    BY <1>7 DEF Rotated
  <2>3. Rotated(proc) # NoRotation
    BY <1>2, <2>2 DEF InOnePlace
  <2>4. IsBook(book') /\ ((Loaded(disk') = Rotated(proc) /\ book' = book) \/ book'.unstored)
    BY <1>1, <2>1, <2>3, StoredOrWarned
  <2>5. Kept(proc', disk', book')
    BY <1>1, <1>3, <2>2, <2>4 DEF Kept
  <2> QED
    BY <1>4, <1>5, <2>4, <2>5, RotationStep
<1> QED
  BY <1>6, <1>7

LEMMA AnswersRotation ==
  ASSUME RotationInv, SessionInv', AnswerJob \/ WithdrawJob
  PROVE  RotationInv'
<1>1. StartInv(proc) /\ Up /\ proc.pc = "serving" /\ disk' = disk /\ IsBook(book)
  BY DEF RotationInv, SessionInv, AnswerJob, WithdrawJob, Up, At
<1>2. InOnePlace(proc) /\ AskedFor(proc) /\ DOMAIN proc = ProcFields
  BY <1>1 DEF RotationInv, StartInv, IsProc
<1> DEFINE answers == proc.job.kind = "rotation"
<1>3. /\ proc'.chan = proc.chan /\ proc'.queue = proc.queue /\ proc'.job = NoJob
      /\ proc'.done = FALSE /\ proc'.rotation = proc.rotation /\ proc'.host = proc.host
      /\ proc'.pc = proc.pc
      /\ answers => proc'.asked = NoRotation
      /\ ~answers => proc'.asked = proc.asked /\ proc'.ctl = proc.ctl
  <2>1. CASE AnswerJob
    BY <1>2, <2>1, ZenonT(60) DEF AnswerJob, Answered, ProcFields
  <2>2. CASE WithdrawJob
    <3>1. ~proc.done
      BY <2>2 DEF WithdrawJob
    <3> DEFINE p == [proc EXCEPT !.job = NoJob]
    <3>2. DOMAIN p = ProcFields /\ p.chan = proc.chan /\ p.queue = proc.queue /\ p.job = NoJob
          /\ p.done = proc.done /\ p.rotation = proc.rotation /\ p.host = proc.host
          /\ p.pc = proc.pc /\ p.asked = proc.asked /\ p.ctl = proc.ctl
      BY <1>2 DEF ProcFields
    <3>3. proc' = IF answers THEN Answered(p) ELSE p
      BY <2>2 DEF WithdrawJob
    <3> QED
      BY <3>1, <3>2, <3>3 DEF Answered, ProcFields
  <2> QED
    BY <2>1, <2>2
<1>4. InOnePlace(proc')
  <2>1. CASE answers
    BY <1>2, <1>3, <2>1, NoJobFacts DEF InOnePlace, Single
  <2>2. CASE ~answers
    BY <1>2, <1>3, <2>2, NoJobFacts DEF InOnePlace
  <2> QED
    BY <2>1, <2>2
<1>5. AskedFor(proc')
  BY <1>1, <1>2, <1>3 DEF AskedFor
<1>6. IsBook(book') /\ Kept(proc', disk', book')
  <2>1. CASE AnswerJob /\ answers
    <3>1. book' = Promise(book, proc.job.to) /\ proc.done
      BY <2>1 DEF AnswerJob
    <3>2. IsBook(book') /\ book'.promised = proc.job.to /\ book'.unstored = book.unstored
      BY <1>1, <3>1, BookKept
    <3>3. proc.rotation = proc.job.to
      BY <1>2, <2>1, <3>1 DEF InOnePlace
    <3> QED
      BY <1>1, <1>3, <3>2, <3>3 DEF Kept, RotationInv
  <2>2. CASE AnswerJob /\ ~answers
    BY <1>1, <1>3, <2>2 DEF AnswerJob, Kept, RotationInv
  <2>3. CASE WithdrawJob
    <3>1. ~proc.done /\ Spend("fails")
      BY <2>3 DEF WithdrawJob
    <3>2. IsBook(book') /\ book'.promised = book.promised
          /\ book'.doubtful = book.doubtful /\ book'.unstored = book.unstored
      BY <1>1, <3>1, BookKept
    <3> QED
      BY <1>1, <1>3, <3>1, <3>2 DEF Kept, RotationInv
  <2> QED
    BY <2>1, <2>2, <2>3
<1> QED
  BY <1>4, <1>5, <1>6, RotationStep

LEMMA BootsAndEnds ==
  ASSUME RotationInv, SessionInv',
         \/ \E r \in Rotation \cup {NoRotation}, onHost, listens \in BOOLEAN : Boot(r, onHost, listens)
         \/ WindowCloses \/ Crash
  PROVE  RotationInv'
<1>1. ASSUME NEW r, NEW onHost \in BOOLEAN, NEW listens \in BOOLEAN, Boot(r, onHost, listens)
      PROVE  RotationInv'
  <2>1. /\ proc'.pc = "new" /\ proc'.explicit = r /\ proc'.rotation = StartRotation(r)
        /\ proc'.ctl = "off" /\ proc'.asked = NoRotation /\ proc'.chan = <<>>
        /\ proc'.queue = <<>> /\ proc'.job = NoJob /\ proc'.done = FALSE
        /\ proc.pc = "down" /\ disk' = disk /\ Spend("boots")
    BY <1>1 DEF Boot, Up
  <2>2. IsBook(book') /\ book'.promised = book.promised
        /\ book'.doubtful = book.doubtful /\ book'.unstored = book.unstored
    BY <2>1, BookKept DEF RotationInv
  <2>3. Rots(<<>>) = {} /\ Single(<<>>, NoRotation) /\ <<>> \in Seq(Command)
    BY DEF Rots, Single
  <2>4. InOnePlace(proc') /\ AskedFor(proc')
    BY <2>1, <2>3, NoJobFacts DEF InOnePlace, AskedFor
  <2>5. Kept(proc', disk', book')
    BY <2>1, <2>2 DEF Kept, RotationInv, StartRotation, Remembered, Loaded
  <2> QED
    BY <2>2, <2>4, <2>5, RotationStep
<1>2. CASE WindowCloses
  <2>1. Up /\ proc.pc = "window" /\ proc'.pc = "down" /\ disk' = disk /\ book' = book
    BY <1>2 DEF WindowCloses, At, Up, Down
  <2>2. proc.job.kind # "rotation"
    BY <2>1 DEF RotationInv, AskedFor, InOnePlace
  <2> QED
    BY <2>1, <2>2 DEF RotationInv, Kept, Up
<1>3. CASE Crash
  <2>1. Up /\ proc'.pc = "down" /\ disk' = disk
        /\ book' = [book EXCEPT !.doubtful = @ \cup ({proc.asked} \ {NoRotation})]
    BY <1>3 DEF Crash, Down
  <2>2. IsBook(book') /\ book'.promised = book.promised /\ book'.unstored = book.unstored
        /\ book'.doubtful = book.doubtful \cup ({proc.asked} \ {NoRotation})
    BY <2>1 DEF RotationInv, IsBook
  <2>3. proc.job.kind = "rotation" => proc.job.to = proc.asked /\ proc.asked # NoRotation
    BY <2>1 DEF RotationInv, InOnePlace
  <2> QED
    BY <2>1, <2>2, <2>3 DEF RotationInv, Kept, Up
<1> QED
  BY <1>1, <1>2, <1>3

LEMMA StoresRotation ==
  ASSUME RotationInv, SessionInv',
         \/ \E ok \in BOOLEAN : PersistStartup(ok)
         \/ \E r \in Rotation, ok \in BOOLEAN : RotateNested(r, ok)
         \/ \E c \in Factor \cup {BadConfig} : Edit(c)
  PROVE  RotationInv'
<1>0. DiskType(disk) /\ IsBook(book)
  BY DEF RotationInv, SessionInv
<1>1. ASSUME NEW ok \in BOOLEAN, PersistStartup(ok) PROVE RotationInv'
  <2>1. StartInv(proc) /\ Up /\ proc.pc = "new" /\ proc' = Move(proc, "spawn")
    BY <1>1 DEF RotationInv, SessionInv, PersistStartup, Up, At
  <2>2. InOnePlace(proc) /\ AskedFor(proc) /\ DOMAIN proc = ProcFields
    BY <2>1 DEF RotationInv, StartInv, IsProc
  <2>3. /\ proc'.chan = proc.chan /\ proc'.queue = proc.queue /\ proc'.job = proc.job
        /\ proc'.done = proc.done /\ proc'.rotation = proc.rotation /\ proc'.host = proc.host
        /\ proc'.asked = proc.asked /\ proc'.ctl = proc.ctl /\ proc'.pc = "spawn"
    BY <2>1, <2>2 DEF Move, ProcFields
  <2>4. InOnePlace(proc') /\ AskedFor(proc')
    BY <2>1, <2>2, <2>3 DEF InOnePlace, AskedFor
  <2>5. CASE proc.explicit = NoRotation
    <3>1. disk' = disk /\ book' = book
      BY <1>1, <2>5 DEF PersistStartup
    <3> QED
      BY <1>0, <2>1, <2>3, <2>4, <2>5, <3>1, RotationStep DEF RotationInv, Kept
  <2>6. CASE proc.explicit # NoRotation
    <3> DEFINE told == Promise(book, proc.explicit)
    <3>1. Stored(proc.explicit, ok, told)
      BY <1>1, <2>6 DEF PersistStartup
    <3>2. IsBook(told) /\ told.promised = proc.explicit /\ told.unstored = book.unstored
      BY <1>0, BookKept
    <3> HIDE DEF told
    <3>3. IsBook(book') /\ ((Loaded(disk') = proc.explicit /\ book' = told) \/ book'.unstored)
      BY <1>0, <2>6, <3>1, <3>2, StoredOrWarned
    <3>4. Kept(proc', disk', book')
      BY <2>1, <2>3, <2>6, <3>2, <3>3 DEF Kept, RotationInv
    <3> QED
      BY <2>4, <3>3, <3>4, RotationStep
  <2> QED
    BY <2>5, <2>6
<1>2. ASSUME NEW r \in Rotation, NEW ok \in BOOLEAN, RotateNested(r, ok) PROVE RotationInv'
  <2>1. StartInv(proc) /\ Up /\ ~proc.host /\ proc.ctl = "idle"
        /\ proc' = [proc EXCEPT !.rotation = r]
    BY <1>2 DEF RotationInv, SessionInv, RotateNested
  <2>2. InOnePlace(proc) /\ AskedFor(proc) /\ DOMAIN proc = ProcFields
    BY <2>1 DEF RotationInv, StartInv, IsProc
  <2>3. /\ proc'.chan = proc.chan /\ proc'.queue = proc.queue /\ proc'.job = proc.job
        /\ proc'.done = proc.done /\ proc'.rotation = r /\ proc'.host = proc.host
        /\ proc'.asked = proc.asked /\ proc'.ctl = proc.ctl /\ proc'.pc = proc.pc
    BY <2>1, <2>2 DEF ProcFields
  <2>4. proc.job.kind # "rotation" /\ proc.pc \notin {"new", "down"}
    BY <2>1, <2>2 DEF InOnePlace, AskedFor, Up
  <2>5. InOnePlace(proc') /\ AskedFor(proc')
    BY <2>1, <2>2, <2>3, <2>4 DEF InOnePlace, AskedFor
  <2> DEFINE told == [Promise(book, r) EXCEPT !.asks = @ - 1]
  <2>6. Stored(r, ok, told) /\ r # NoRotation
    BY <1>2, SessionAssumption DEF RotateNested
  <2>7. IsBook(told) /\ told.promised = r /\ told.unstored = book.unstored
    BY <1>0, BookKept DEF IsBook
  <2> HIDE DEF told
  <2>8. IsBook(book') /\ ((Loaded(disk') = r /\ book' = told) \/ book'.unstored)
    BY <1>0, <2>6, <2>7, StoredOrWarned
  <2>9. Kept(proc', disk', book')
    BY <2>3, <2>4, <2>7, <2>8 DEF Kept, RotationInv
  <2> QED
    BY <2>5, <2>8, <2>9, RotationStep
<1>3. ASSUME NEW c, Edit(c) PROVE RotationInv'
  <2>1. proc' = proc /\ Spend("asks") /\ disk'.rotation = disk.rotation
    BY <1>0, <1>3 DEF Edit, DiskType
  <2>2. IsBook(book') /\ book'.promised = book.promised
        /\ book'.doubtful = book.doubtful /\ book'.unstored = book.unstored
    BY <1>0, <2>1, BookKept
  <2>3. Kept(proc', disk', book')
    BY <2>1, <2>2 DEF RotationInv, Kept, Loaded
  <2> QED
    BY <2>1, <2>2, <2>3 DEF RotationInv, Up
<1> QED
  BY <1>1, <1>2, <1>3

LEMMA RotationStarts == SessionInit => RotationInv
<1> SUFFICES ASSUME SessionInit PROVE RotationInv
  OBVIOUS
<1>1. IsBook(book) /\ book.promised = NoRotation /\ proc.pc = "down"
  BY DEF SessionInit, IsBook, Down
<1> QED
  BY <1>1, SessionStarts DEF RotationInv, Kept, Up

LEMMA RotationKept == RotationInv /\ [Next]_vars => RotationInv'
<1> SUFFICES ASSUME RotationInv, [Next]_vars PROVE RotationInv'
  OBVIOUS
<1>0. SessionInv'
  BY SessionStep DEF RotationInv
<1>1. CASE UNCHANGED <<proc, disk, book>>
  BY <1>1, <1>0 DEF RotationInv, Up
<1>2. CASE MainThread
  BY <1>0, <1>2, RotationRests, SendsRotation, ReceivesRotation, StagesRotation,
     CommitsRotation, AnswersRotation, BootsAndEnds, StoresRotation DEF MainThread
<1>3. CASE ControlThread
  BY <1>0, <1>3, SendsRotation, StoresRotation DEF ControlThread
<1>4. CASE SessionNext
  BY <1>0, <1>2, <1>3, <1>4, RotationRests, SendsRotation, BootsAndEnds, StoresRotation
  DEF SessionNext
<1> QED
  BY <1>1, <1>4 DEF Next, Measure, Scene, Session, Scanout, vars

\* The invariant of a process and its files: a rotation that was asked for is in
\* one place, and what is stored was promised, cut off or is about to be
\* promised (main.rs, control.rs, commit_root4_geometry, OutputRotationMemory).
THEOREM RotationInvHolds == Spec => []RotationInv
<1>1. Init => RotationInv
  BY RotationStarts DEF Init
<1> QED
  BY <1>1, RotationKept, PTL DEF Spec

\* The rotation the operator was told to be in force is the one the next process
\* starts with, however many processes were killed on the way and whatever was
\* asked for since; and a running process shows what its successor would.
THEOREM AnsweredRotationSafe == Spec => []AnsweredRotationIsKept
<1>1. RotationInv => AnsweredRotationIsKept
  <2> SUFFICES ASSUME RotationInv, ~book.unstored PROVE
        /\ book.promised # NoRotation =>
             Remembered \in {book.promised} \cup book.doubtful
                              \cup (IF Up THEN {proc.asked} ELSE {})
        /\ (Up /\ ~At({"new"})) => proc.rotation = Remembered
    BY DEF AnsweredRotationIsKept
  <2>1. Remembered = Loaded(disk)
    BY DEF Remembered, Loaded
  <2>2. Up /\ proc.job.kind = "rotation" => proc.job.to = proc.asked
    BY DEF RotationInv, InOnePlace
  <2> QED
    BY <2>1, <2>2 DEF RotationInv, Kept, Up, At
<1> QED
  BY <1>1, RotationInvHolds, PTL

-----------------------------------------------------------------------------
(* The measurement *)

Events   == [dev : Mouse, at : Nat, kind : {"press", "release", "removed"}]
Flips    == [gen : Nat, seq : Nat, at : Nat]
Outputs  == [gen : Nat, mono : BOOLEAN]
Sightings == [outs : SUBSET Outputs, flips : SUBSET Flips]

Captures ==
  [phase : {"waiting", "recording", "complete"}, boot : Boots, flawed : BOOLEAN,
   contended : BOOLEAN, start : Nat, output : Outputs, current : Outputs,
   device : Mouse \cup {NoMouse}, lastButton : Nat, last : Flips, seen : SUBSET Flips,
   shown : Nat, buttons : Nat, held : BOOLEAN, inputEnd : BOOLEAN, flipEnd : BOOLEAN]

Worlds ==
  [now : Nat, down : [Mouse -> BOOLEAN], input : Seq(Events), flips : Seq(Flips), seq : Nat,
   claim : Outputs, prior : Outputs, gen : Nat, copying : BOOLEAN, inputs : Nat,
   vblanks : Nat, gone : SUBSET (Mouse \X Nat), since : Sightings]

\* Input is handled in the order it happened.
InTime(w) ==
  /\ \A i, j \in 1 .. Len(w.input) : i <= j => w.input[i].at <= w.input[j].at
  /\ \A i \in 1 .. Len(w.input) : w.input[i].at <= w.now

\* The device was let go or unplugged, and the collector is still to be told.
Awaited(w, d, t) ==
  \E i \in 1 .. Len(w.input) :
    w.input[i].dev = d /\ w.input[i].at = t /\ w.input[i].kind # "press"

\* Nothing was handled before the first press.
Untouched(c, w) ==
  /\ c.seen = {} /\ w.since = [outs |-> {}, flips |-> {}] /\ ~c.inputEnd /\ ~c.flipEnd
  /\ \A d \in Mouse, t \in Nat : <<d, t>> \in w.gone => Awaited(w, d, t)
  /\ w.input # <<>> => Head(w.input).kind = "press"
  /\ w.input = <<>> => \A d \in Mouse : ~w.down[d]

\* A run without a flaw saw what there was, and what it was not told of the
\* device it measures is on its way or later than the window.
Tracked(c, w) ==
  /\ c.seen = w.since.flips
  /\ w.since.outs = {c.output} /\ c.output.mono /\ c.current = c.output
  /\ \A t \in Nat : InWindow(c, t) /\ <<c.device, t>> \in w.gone => Awaited(w, c.device, t)
  /\ c.inputEnd => /\ w.now >= End(c)
                   /\ \A i \in 1 .. Len(w.input) : w.input[i].at >= End(c)
  /\ c.phase = "complete" => c.inputEnd

Trusted(c, w) ==
  (~c.flawed /\ ~c.contended) =>
    /\ c.current = w.claim
    /\ c.phase = "waiting" => Untouched(c, w)
    /\ c.phase # "waiting" => Tracked(c, w)

MeasInv == meas \in Captures /\ world \in Worlds /\ InTime(world) /\ Trusted(meas, world)

-----------------------------------------------------------------------------
(* What the collector makes of an event *)

LEMMA ConstantsAreNat == Window \in Nat /\ MaxFrames \in Nat /\ MaxButtons \in Nat
BY MeasurementAssumption

LEMMA OutputsTyped == NoOutput \in Outputs /\ NoFlip \in Flips
BY DEF NoOutput, NoFlip, Outputs, Flips

\* What a run is about: set by its first press and then never changed.
SameRun(c, n) ==
  /\ n.start = c.start /\ n.output = c.output /\ n.device = c.device
  /\ n.contended = c.contended

SameRecord(c, n) ==
  /\ SameRun(c, n)
  /\ n.phase = c.phase /\ n.current = c.current /\ n.held = c.held /\ n.seen = c.seen
  /\ n.last = c.last /\ n.shown = c.shown /\ n.inputEnd = c.inputEnd /\ n.flipEnd = c.flipEnd

LEMMA FlawedTyped ==
  ASSUME NEW c \in Captures, NEW b \in BOOLEAN
  PROVE  /\ Flawed(c, b) \in Captures
         /\ Flawed(c, b).flawed = (c.flawed \/ b)
         /\ SameRecord(c, Flawed(c, b))
<1>1. Flawed(c, b) = [c EXCEPT !.flawed = c.flawed \/ b]
  BY DEF Flawed, Captures
<1> DEFINE v == c.flawed \/ b
<1>2. v \in BOOLEAN
  OBVIOUS
<1>3. Flawed(c, b) = [c EXCEPT !.flawed = v]
  BY <1>1
<1> HIDE DEF v
<1>4. Flawed(c, b) \in Captures
  BY <1>2, <1>3 DEF Captures
<1>5. SameRecord(c, Flawed(c, b))
  BY <1>3 DEF Captures, SameRecord, SameRun
<1>6. Flawed(c, b).flawed = v
  BY <1>3 DEF Captures
<1> QED
  BY <1>4, <1>5, <1>6 DEF v

LEMMA FinishedTyped ==
  ASSUME NEW c \in Captures
  PROVE  /\ Finished(c) \in Captures
         /\ SameRun(c, Finished(c)) /\ Finished(c).flawed = c.flawed
         /\ Finished(c).current = c.current /\ Finished(c).seen = c.seen
         /\ Finished(c).inputEnd = c.inputEnd /\ Finished(c).flipEnd = c.flipEnd
         /\ c.phase # "recording" => Finished(c).phase = c.phase
         /\ Finished(c).phase \in {c.phase, "complete"}
         /\ (Finished(c).phase = "complete" /\ c.phase = "recording") => (c.inputEnd /\ c.flipEnd)
<1>1. CASE c.phase = "recording" /\ c.inputEnd /\ c.flipEnd
  BY <1>1 DEF Finished, Captures, SameRun
<1>2. CASE ~(c.phase = "recording" /\ c.inputEnd /\ c.flipEnd)
  <2>1. Finished(c) = c
    BY <1>2 DEF Finished
  <2> QED
    BY <1>2, <2>1 DEF Captures, SameRun
<1> QED
  BY <1>1, <1>2

\* What an event of a button changes of an unfinished run a that knows it
ButtonNoted(a, e) ==
  LET b == Flawed(a, \/ e.at < a.lastButton
                     \/ e.dev # a.device
                     \/ a.buttons = MaxButtons
                     \/ e.kind = "release" /\ e.at < End(a))
  IN Finished([b EXCEPT !.lastButton = e.at,
                        !.buttons = IF @ = MaxButtons THEN @ ELSE @ + 1,
                        !.inputEnd = @ \/ e.at >= End(b)])

LEMMA ButtonNotes ==
  ASSUME NEW a \in Captures, NEW e \in Events, a.phase = "recording", NEW n, n = ButtonNoted(a, e)
  PROVE  /\ n \in Captures /\ SameRun(a, n)
         /\ n.phase \in {"recording", "complete"}
         /\ n.phase = "complete" => n.inputEnd /\ n.flipEnd
         /\ n.current = a.current /\ n.seen = a.seen /\ n.flipEnd = a.flipEnd
         /\ n.inputEnd = (a.inputEnd \/ e.at >= End(a))
         /\ ~n.flawed => ~a.flawed /\ e.dev = a.device /\ ~(e.kind = "release" /\ e.at < End(a))
<1> DEFINE bad == \/ e.at < a.lastButton
                  \/ e.dev # a.device
                  \/ a.buttons = MaxButtons
                  \/ e.kind = "release" /\ e.at < End(a)
           b == Flawed(a, bad)
           k == [b EXCEPT !.lastButton = e.at,
                          !.buttons = IF @ = MaxButtons THEN @ ELSE @ + 1,
                          !.inputEnd = @ \/ e.at >= End(b)]
<1>1. bad \in BOOLEAN
  OBVIOUS
<1> HIDE DEF bad
<1>2. b \in Captures /\ b.flawed = (a.flawed \/ bad) /\ SameRecord(a, b)
  BY <1>1, FlawedTyped
<1>3. End(b) = End(a)
  BY <1>2 DEF End, SameRecord, SameRun
<1> DEFINE late == b.inputEnd \/ e.at >= End(b)
           count == IF b.buttons = MaxButtons THEN b.buttons ELSE b.buttons + 1
<1>4. late \in BOOLEAN /\ count \in Nat
  BY <1>2, ConstantsAreNat DEF Captures
<1>5. k = [b EXCEPT !.lastButton = e.at,
                    !.buttons = count,
                    !.inputEnd = late]
  BY <1>2 DEF Captures
<1>6. late = (a.inputEnd \/ e.at >= End(a))
  BY <1>2, <1>3 DEF SameRecord
<1> HIDE DEF b, k, late, count
<1>7. /\ k \in Captures /\ SameRun(b, k) /\ k.phase = b.phase
      /\ k.current = b.current /\ k.seen = b.seen
      /\ k.flipEnd = b.flipEnd /\ k.inputEnd = late
  <2>1. k \in Captures
    BY <1>2, <1>4, <1>5 DEF Captures, Events
  <2> QED
    BY <1>2, <1>5, <2>1 DEF Captures, SameRun
<1>8. k.flawed = b.flawed
  BY <1>2, <1>5 DEF Captures
<1>9. n = Finished(k)
  BY DEF ButtonNoted, k, b, bad
<1>10. /\ n \in Captures /\ SameRun(k, n) /\ n.current = k.current /\ n.seen = k.seen
       /\ n.flipEnd = k.flipEnd /\ n.inputEnd = k.inputEnd /\ n.flawed = k.flawed
       /\ n.phase \in {k.phase, "complete"}
       /\ n.phase = "complete" => k.inputEnd /\ k.flipEnd
  BY <1>7, <1>2, <1>9, FinishedTyped DEF SameRecord
<1>11. ~n.flawed => ~a.flawed /\ ~bad
  BY <1>2, <1>8, <1>10
<1>12. n.inputEnd = (a.inputEnd \/ e.at >= End(a))
  BY <1>6, <1>7, <1>10
<1>13. n.phase = "complete" => n.inputEnd /\ n.flipEnd
  BY <1>7, <1>10
<1>14. /\ SameRun(a, n) /\ n.phase \in {"recording", "complete"}
       /\ n.current = a.current /\ n.seen = a.seen /\ n.flipEnd = a.flipEnd
  BY <1>2, <1>7, <1>10 DEF SameRun, SameRecord
<1> QED
  BY <1>10, <1>11, <1>12, <1>13, <1>14 DEF bad

\* The first press starts the run with the output it finds claimed.
LEMMA FirstPress ==
  ASSUME NEW c \in Captures, NEW e \in Events, NEW out \in Outputs,
         c.phase = "waiting", e.kind = "press", NEW n, n = Button(c, e, out)
  PROVE  /\ n \in Captures /\ n.contended = c.contended
         /\ n.phase \in {"recording", "complete"}
         /\ n.phase = "complete" => n.inputEnd /\ n.flipEnd
         /\ n.current = c.current /\ n.seen = c.seen /\ n.flipEnd = c.flipEnd
         /\ n.start = e.at /\ n.output = out /\ n.device = e.dev
         /\ n.inputEnd = (c.inputEnd \/ e.at >= End(n))
         /\ ~n.flawed => ~c.flawed /\ out.mono /\ c.current = out
<1> DEFINE a == Begun(c, e, out)
           bad == ~c.boot \/ ~out.mono \/ c.current # out
<1>1. n = ButtonNoted(a, e)
  BY DEF Button, ButtonNoted
<1>2. bad \in BOOLEAN
  OBVIOUS
<1> HIDE DEF bad
<1>3. Flawed(c, bad) \in Captures /\ Flawed(c, bad).flawed = (c.flawed \/ bad)
      /\ SameRecord(c, Flawed(c, bad))
  BY <1>2, FlawedTyped
<1>4. a = [Flawed(c, bad) EXCEPT !.phase = "recording", !.start = e.at, !.output = out,
                                 !.device = e.dev, !.held = TRUE]
  BY DEF Begun, bad
<1> HIDE DEF a
<1>5. a \in Captures /\ a.phase = "recording" /\ a.start = e.at /\ a.output = out
      /\ a.device = e.dev /\ a.flawed = (c.flawed \/ bad) /\ a.contended = c.contended
      /\ a.current = c.current /\ a.seen = c.seen /\ a.inputEnd = c.inputEnd
      /\ a.flipEnd = c.flipEnd
  BY <1>3, <1>4 DEF Captures, Events, SameRecord, SameRun
<1>6. /\ n \in Captures /\ SameRun(a, n)
      /\ n.phase \in {"recording", "complete"}
      /\ n.phase = "complete" => n.inputEnd /\ n.flipEnd
      /\ n.current = a.current /\ n.seen = a.seen /\ n.flipEnd = a.flipEnd
      /\ n.inputEnd = (a.inputEnd \/ e.at >= End(a))
      /\ ~n.flawed => ~a.flawed
  BY <1>1, <1>5, ButtonNotes
<1>7. End(n) = End(a)
  BY <1>5, <1>6 DEF SameRun, End
<1>8. ~n.flawed => ~c.flawed /\ ~bad
  BY <1>5, <1>6
<1>9. n.inputEnd = (c.inputEnd \/ e.at >= End(n))
  BY <1>5, <1>6, <1>7
<1> QED
  BY <1>5, <1>6, <1>8, <1>9 DEF SameRun, bad

\* The output an event finds claimed becomes the known one.
LEMMA OutputChecked ==
  ASSUME NEW c \in Captures, NEW out \in Outputs, NEW k, k = CurrentOutput(c, out)
  PROVE  /\ k \in Captures /\ k.flawed = (c.flawed \/ c.output # out) /\ k.current = out
         /\ SameRun(c, k) /\ k.seen = c.seen /\ k.inputEnd = c.inputEnd /\ k.flipEnd = c.flipEnd
         /\ k.phase = c.phase /\ k.last = c.last /\ k.shown = c.shown
<1> DEFINE other == c.output # out
           g == Flawed(c, other)
<1>1. other \in BOOLEAN
  OBVIOUS
<1>2. k = [g EXCEPT !.current = out]
  BY DEF CurrentOutput
<1> HIDE DEF other
<1>3. g \in Captures /\ g.flawed = (c.flawed \/ other) /\ SameRecord(c, g)
  BY <1>1, FlawedTyped
<1> HIDE DEF g
<1>4. /\ k \in Captures /\ k.flawed = g.flawed /\ k.current = out
      /\ SameRun(c, k) /\ k.seen = c.seen /\ k.inputEnd = c.inputEnd /\ k.flipEnd = c.flipEnd
      /\ k.phase = c.phase /\ k.last = c.last /\ k.shown = c.shown
  BY <1>2, <1>3 DEF Captures, SameRun, SameRecord
<1> QED
  BY <1>3, <1>4 DEF other

\* A later event of a button is of the device and the output of the run, and
\* no release in the window.
LEMMA LaterButton ==
  ASSUME NEW c \in Captures, NEW e \in Events, NEW out \in Outputs,
         c.phase = "recording", NEW n, n = Button(c, e, out)
  PROVE  /\ n \in Captures /\ SameRun(c, n)
         /\ n.phase \in {"recording", "complete"}
         /\ n.phase = "complete" => n.inputEnd /\ n.flipEnd
         /\ n.current = out /\ n.seen = c.seen /\ n.flipEnd = c.flipEnd
         /\ n.inputEnd = (c.inputEnd \/ e.at >= End(c))
         /\ ~n.flawed => ~c.flawed /\ out = c.output /\ e.dev = c.device
                         /\ ~(e.kind = "release" /\ e.at < End(c))
<1> DEFINE a == Transition(c, e, out)
           k == CurrentOutput(c, out)
           same == c.held = (e.kind = "press")
<1>1. n = ButtonNoted(a, e)
  BY DEF Button, ButtonNoted
<1>2. k \in Captures /\ k.flawed = (c.flawed \/ c.output # out) /\ k.current = out
      /\ SameRun(c, k) /\ k.seen = c.seen /\ k.inputEnd = c.inputEnd /\ k.flipEnd = c.flipEnd
      /\ k.phase = c.phase /\ k.last = c.last /\ k.shown = c.shown
  BY OutputChecked
<1>3. same \in BOOLEAN
  OBVIOUS
<1>4. a = [Flawed(k, same) EXCEPT !.held = (e.kind = "press")]
  BY DEF Transition
<1> DEFINE pressed == e.kind = "press"
<1>p. pressed \in BOOLEAN
  OBVIOUS
<1> HIDE DEF k, a, same, pressed
<1>5. Flawed(k, same) \in Captures /\ Flawed(k, same).flawed = (k.flawed \/ same)
      /\ SameRecord(k, Flawed(k, same))
  BY <1>2, <1>3, FlawedTyped
<1>6. a \in Captures /\ a.flawed = Flawed(k, same).flawed
      /\ a.current = k.current /\ SameRun(k, a)
      /\ a.seen = k.seen /\ a.inputEnd = k.inputEnd
      /\ a.flipEnd = k.flipEnd /\ a.phase = k.phase
  BY <1>4, <1>5, <1>p, ZenonT(60) DEF Captures, SameRun, SameRecord, pressed
<1>7. End(a) = End(c)
  BY <1>2, <1>6 DEF SameRun, End
<1>8. /\ n \in Captures /\ SameRun(a, n)
      /\ n.phase \in {"recording", "complete"}
      /\ n.phase = "complete" => n.inputEnd /\ n.flipEnd
      /\ n.current = a.current /\ n.seen = a.seen /\ n.flipEnd = a.flipEnd
      /\ n.inputEnd = (a.inputEnd \/ e.at >= End(a))
      /\ ~n.flawed => ~a.flawed /\ e.dev = a.device /\ ~(e.kind = "release" /\ e.at < End(a))
  BY <1>1, <1>2, <1>6, ButtonNotes
<1>9. ~n.flawed => ~c.flawed /\ out = c.output
  BY <1>2, <1>5, <1>6, <1>8
<1>10. n.inputEnd = (c.inputEnd \/ e.at >= End(c))
  BY <1>2, <1>6, <1>7, <1>8
<1>11. SameRun(c, n)
  BY <1>2, <1>6, <1>8 DEF SameRun
<1>12. ~n.flawed => e.dev = c.device /\ ~(e.kind = "release" /\ e.at < End(c))
  BY <1>2, <1>6, <1>7, <1>8 DEF SameRun
<1> QED
  BY <1>2, <1>6, <1>8, <1>9, <1>10, <1>11, <1>12

LEMMA OutputActivated ==
  ASSUME NEW c \in Captures, NEW out \in Outputs, NEW n, n = ActiveOutput(c, out)
  PROVE  /\ n \in Captures /\ n.current = out
         /\ SameRun(c, n) /\ n.seen = c.seen /\ n.inputEnd = c.inputEnd /\ n.flipEnd = c.flipEnd
         /\ n.phase = c.phase
         /\ ~n.flawed => ~c.flawed
         /\ (~n.flawed /\ c.phase = "recording") => out \in {c.current, c.output}
<1> DEFINE bad == c.phase = "recording" /\ c.current # out /\ c.output # out
           g == Flawed(c, bad)
<1>1. bad \in BOOLEAN
  OBVIOUS
<1>2. n = [g EXCEPT !.current = out]
  BY DEF ActiveOutput
<1> HIDE DEF bad
<1>3. g \in Captures /\ g.flawed = (c.flawed \/ bad) /\ SameRecord(c, g)
  BY <1>1, FlawedTyped
<1> HIDE DEF g
<1>4. /\ n \in Captures /\ n.flawed = g.flawed /\ n.current = out
      /\ SameRun(c, n) /\ n.seen = c.seen /\ n.inputEnd = c.inputEnd /\ n.flipEnd = c.flipEnd
      /\ n.phase = c.phase
  BY <1>2, <1>3 DEF Captures, SameRun, SameRecord
<1> QED
  BY <1>3, <1>4 DEF bad

LEMMA DeviceRemoved ==
  ASSUME NEW c \in Captures, NEW d, NEW n, n = MouseRemoved(c, d)
  PROVE  /\ n \in Captures /\ SameRecord(c, n)
         /\ ~n.flawed => ~c.flawed
         /\ (~n.flawed /\ c.phase = "recording") => c.device # d
<1> DEFINE bad == c.phase = "recording" /\ c.device = d
<1>1. bad \in BOOLEAN
  OBVIOUS
<1>2. n = Flawed(c, bad)
  BY DEF MouseRemoved
<1> HIDE DEF bad
<1>3. n \in Captures /\ n.flawed = (c.flawed \/ bad) /\ SameRecord(c, n)
  BY <1>1, <1>2, FlawedTyped
<1> QED
  BY <1>3 DEF bad

\* A flip that is not a flaw is counted, unless it is known already.
LEMMA FlipCounts ==
  ASSUME NEW c \in Captures, NEW f \in Flips, NEW out \in Outputs,
         c.phase = "recording", NEW n, n = Presentation(c, f, out)
  PROVE  /\ n \in Captures /\ SameRun(c, n)
         /\ n.phase \in {"recording", "complete"}
         /\ n.phase = "complete" => n.inputEnd
         /\ n.current = out /\ n.inputEnd = c.inputEnd
         /\ ~n.flawed => ~c.flawed /\ out = c.output /\ n.seen = c.seen \cup {f}
<1> DEFINE same == {g \in c.seen : g.gen = f.gen /\ g.seq = f.seq}
           k == CurrentOutput(c, out)
           moved == \E g \in same : g.at # f.at
           lost == out = NoOutput \/ moved
           a == Flawed(k, lost)
           full == same = {} /\ Cardinality(c.seen) = MaxFrames
           back == \/ f.at < a.last.at
                   \/ f.gen = a.last.gen /\ f.seq < a.last.seq
           fresh == [Flawed(a, back) EXCEPT !.seen = @ \cup {f}, !.last = f]
           b == IF same = {} THEN fresh ELSE a
           many == b.shown = MaxFrames
           late == b.flipEnd \/ f.at >= End(b)
           z == [Flawed(b, many)
                   EXCEPT !.shown = IF @ = MaxFrames THEN @ ELSE @ + 1,
                          !.flipEnd = @ \/ f.at >= End(b)]
<1>1. n = IF full THEN Flawed(a, TRUE) ELSE Finished(z)
  BY ZenonT(60) DEF Presentation
<1>2. lost \in BOOLEAN /\ back \in BOOLEAN /\ many \in BOOLEAN /\ late \in BOOLEAN
  OBVIOUS
<1>3. k \in Captures /\ k.flawed = (c.flawed \/ c.output # out) /\ k.current = out
      /\ SameRun(c, k) /\ k.seen = c.seen /\ k.inputEnd = c.inputEnd /\ k.phase = c.phase
  BY OutputChecked
<1>4. a \in Captures /\ a.flawed = (k.flawed \/ lost) /\ SameRecord(k, a)
  <2> HIDE DEF k, lost
  <2> QED
    BY <1>2, <1>3, FlawedTyped
<1>5. CASE full
  <2> HIDE DEF a, full
  <2>1. n = Flawed(a, TRUE)
    BY <1>1, <1>5
  <2>2. n \in Captures /\ n.flawed = (a.flawed \/ TRUE) /\ SameRecord(a, n)
    BY <1>4, <2>1, FlawedTyped, ZenonT(60)
  <2> HIDE DEF k, lost
  <2> QED
    BY <1>3, <1>4, <2>2 DEF SameRecord, SameRun
<1>6. CASE ~full
  <2>1. fresh \in Captures /\ SameRun(a, fresh) /\ fresh.phase = a.phase
        /\ fresh.current = a.current /\ fresh.inputEnd = a.inputEnd
        /\ fresh.seen = a.seen \cup {f} /\ (~fresh.flawed => ~a.flawed)
    <3> DEFINE g == Flawed(a, back)
    <3> HIDE DEF a, back
    <3>1. g \in Captures /\ g.flawed = (a.flawed \/ back) /\ SameRecord(a, g)
      BY <1>2, <1>4, FlawedTyped
    <3>2. fresh = [g EXCEPT !.seen = g.seen \cup {f}, !.last = f]
      BY <3>1 DEF Captures
    <3> HIDE DEF g, fresh
    <3>3. fresh \in Captures /\ SameRun(g, fresh) /\ fresh.phase = g.phase
          /\ fresh.current = g.current /\ fresh.inputEnd = g.inputEnd
          /\ fresh.seen = g.seen \cup {f} /\ fresh.flawed = g.flawed
      BY <3>1, <3>2 DEF Captures, SameRun
    <3> QED
      BY <3>1, <3>3 DEF SameRun, SameRecord
  <2>2. b \in Captures /\ SameRun(a, b) /\ b.phase = a.phase
        /\ b.current = a.current /\ b.inputEnd = a.inputEnd /\ (~b.flawed => ~a.flawed)
        /\ b.seen = IF same = {} THEN a.seen \cup {f} ELSE a.seen
    <3> HIDE DEF fresh, a, same
    <3> QED
      BY <1>4, <2>1 DEF SameRun
  <2>3. z \in Captures /\ SameRun(b, z) /\ z.phase = b.phase
        /\ z.current = b.current /\ z.inputEnd = b.inputEnd /\ z.seen = b.seen
        /\ (~z.flawed => ~b.flawed)
    <3> DEFINE g == Flawed(b, many)
               count == IF g.shown = MaxFrames THEN g.shown ELSE g.shown + 1
    <3> HIDE DEF b, many, late
    <3>1. g \in Captures /\ g.flawed = (b.flawed \/ many) /\ SameRecord(b, g)
      BY <1>2, <2>2, FlawedTyped
    <3>2. z = [g EXCEPT !.shown = count, !.flipEnd = late]
      BY <3>1 DEF Captures, SameRecord, late
    <3>3. count \in Nat
      BY <3>1, ConstantsAreNat DEF Captures
    <3> HIDE DEF g, count, z
    <3>4. z \in Captures /\ SameRun(g, z) /\ z.phase = g.phase
          /\ z.current = g.current /\ z.inputEnd = g.inputEnd
          /\ z.seen = g.seen /\ z.flawed = g.flawed
      BY <1>2, <3>1, <3>2, <3>3 DEF Captures, SameRun
    <3> QED
      BY <3>1, <3>4 DEF SameRun, SameRecord
  <2>4. n = Finished(z)
    <3> HIDE DEF full, z
    <3> QED
      BY <1>1, <1>6
  <2>5. ~a.flawed => c.seen \cup {f} = b.seen /\ ~c.flawed /\ out = c.output
    <3> SUFFICES ASSUME ~a.flawed PROVE c.seen \cup {f} = b.seen /\ ~c.flawed /\ out = c.output
      OBVIOUS
    <3>1. ~c.flawed /\ out = c.output /\ ~lost
      <4> HIDE DEF lost, k, a
      <4> QED
        BY <1>3, <1>4
    <3>2. ASSUME same # {} PROVE f \in c.seen
      <4>1. PICK g \in same : TRUE
        BY <3>2
      <4>2. g \in c.seen /\ g.gen = f.gen /\ g.seq = f.seq
        OBVIOUS
      <4>3. g.at = f.at
        BY <3>1
      <4>4. g \in Flips
        BY <4>2 DEF Captures
      <4> QED
        BY <4>2, <4>3, <4>4 DEF Flips
    <3>3. a.seen = c.seen
      BY <1>3, <1>4 DEF SameRecord
    <3> HIDE DEF same, a, b, lost
    <3> QED
      BY <2>2, <3>1, <3>2, <3>3
  <2> HIDE DEF k, a, b, z, full, same, lost
  <2>6. n \in Captures /\ SameRun(z, n) /\ n.flawed = z.flawed /\ n.current = z.current
        /\ n.seen = z.seen /\ n.inputEnd = z.inputEnd
        /\ n.phase \in {z.phase, "complete"}
        /\ ((n.phase = "complete" /\ z.phase = "recording") => z.inputEnd)
    BY <2>3, <2>4, FinishedTyped
  <2>7. SameRun(c, n)
    BY <1>3, <1>4, <2>2, <2>3, <2>6 DEF SameRun, SameRecord
  <2>8. n.current = out /\ n.inputEnd = c.inputEnd /\ z.phase = "recording"
    BY <1>3, <1>4, <2>2, <2>3, <2>6 DEF SameRecord
  <2>9. ~n.flawed => ~c.flawed /\ out = c.output /\ n.seen = c.seen \cup {f}
    BY <2>2, <2>3, <2>5, <2>6
  <2> QED
    BY <2>6, <2>7, <2>8, <2>9
<1> QED
  BY <1>5, <1>6, SMTT(60)

-----------------------------------------------------------------------------
(* The steps of the measurement *)

\* An event that finds the lock taken is known to be lost.
LEMMA RecordedCases ==
  ASSUME meas \in Captures, NEW n, meas' = Recorded(n)
  PROVE  \/ meas' \in Captures /\ meas'.contended
         \/ ~world.copying /\ meas' = n
<1>1. CASE world.copying
  BY <1>1 DEF Recorded, Captures
<1>2. CASE ~world.copying
  BY <1>2 DEF Recorded
<1> QED
  BY <1>1, <1>2

\* What the world says besides of what a run saw of it
SameWorld(w, v) ==
  v.now = w.now /\ v.down = w.down /\ v.input = w.input /\ v.claim = w.claim
    /\ v.gone = w.gone

LEMMA WatchedTyped ==
  ASSUME meas \in Captures, Undecided, NEW v \in Worlds, NEW out \in Outputs,
         NEW flip \in SUBSET Flips, world' = Watched(v, out, flip)
  PROVE  /\ world' \in Worlds /\ SameWorld(v, world')
         /\ meas'.phase = "waiting" => world' = v
         /\ meas'.phase # "waiting" =>
              world'.since = [outs |-> v.since.outs \cup {out}, flips |-> v.since.flips \cup flip]
<1>1. CASE meas'.phase = "waiting"
  BY <1>1 DEF Watched, SameWorld
<1>2. CASE meas'.phase # "waiting"
  <2> DEFINE since == [outs |-> v.since.outs \cup {out}, flips |-> v.since.flips \cup flip]
  <2>1. since \in Sightings
    BY DEF Worlds, Sightings
  <2>2. world' = [v EXCEPT !.since = since]
    BY <1>2 DEF Watched, Undecided, Worlds
  <2> HIDE DEF since
  <2>3. world' \in Worlds
    BY <2>1, <2>2 DEF Worlds
  <2>4. SameWorld(v, world') /\ world'.since = since
    BY <2>2 DEF Worlds, SameWorld
  <2> QED
    BY <1>2, <2>3, <2>4 DEF since
<1> QED
  BY <1>1, <1>2

LEMMA OutsideQuiet ==
  ASSUME MeasInv, Undecided, Passes \/ FinishReclaim \/ SnapshotBegins \/ SnapshotEnds
  PROVE  MeasInv'
<1> USE DEF MeasInv
<1>1. meas' = meas
  BY DEF Passes, FinishReclaim, SnapshotBegins, SnapshotEnds
<1>2. world' \in Worlds
  <2>1. CASE Passes
    <3> DEFINE tick == world.now + 1
    <3>1. tick \in Nat /\ world' = [world EXCEPT !.now = tick]
      BY <2>1 DEF Passes, Worlds
    <3> HIDE DEF tick
    <3> QED
      BY <3>1 DEF Worlds
  <2>2. CASE FinishReclaim
    BY <2>2, OutputsTyped DEF FinishReclaim, Worlds
  <2>3. CASE SnapshotBegins \/ SnapshotEnds
    BY <2>3, ZenonT(60) DEF SnapshotBegins, SnapshotEnds, Worlds
  <2> QED
    BY <2>1, <2>2, <2>3
<1>3. /\ world'.now \in {world.now, world.now + 1} /\ world'.down = world.down
      /\ world'.input = world.input /\ world'.claim = world.claim /\ world'.gone = world.gone
      /\ world'.since = world.since
  BY DEF Passes, FinishReclaim, SnapshotBegins, SnapshotEnds, Worlds
<1>4. world.now \in Nat /\ world.now <= world'.now /\ world'.now \in Nat
  BY <1>3 DEF Worlds
<1>5. \A i \in 1 .. Len(world.input) : world.input[i].at \in Nat
  <2> DEFINE q == world.input
  <2>1. q \in Seq(Events)
    BY DEF Worlds
  <2> HIDE DEF q
  <2>2. \A i \in 1 .. Len(q) : q[i] \in Events
    BY <2>1
  <2>3. \A i \in 1 .. Len(q) : q[i].at \in Nat
    BY <2>2 DEF Events
  <2> QED
    BY <2>3 DEF q
<1>6. InTime(world')
  BY <1>3, <1>4, <1>5 DEF InTime
<1>7. Trusted(meas, world')
  <2>1. meas.phase = "waiting" => Untouched(meas, world')
    BY <1>3 DEF Trusted, Undecided, Untouched, Awaited
  <2>2. meas.phase # "waiting" => Tracked(meas, world')
    <3>1. End(meas) \in Nat
      BY ConstantsAreNat DEF End, Captures
    <3> QED
      BY <1>3, <1>4, <3>1 DEF Trusted, Undecided, Tracked, Awaited
  <2> QED
    BY <1>3, <2>1, <2>2 DEF Trusted, Undecided
<1> QED
  BY <1>1, <1>2, <1>6, <1>7

LEMMA InputKept ==
  ASSUME MeasInv, Undecided, NEW d \in Mouse, NEW kind \in {"press", "release", "removed"},
         Input(d, kind)
  PROVE  MeasInv'
<1> USE DEF MeasInv
<1> DEFINE e == [dev |-> d, at |-> world.now, kind |-> kind]
           gone == IF kind = "press" THEN world.gone ELSE world.gone \cup {<<d, world.now>>}
           down == [world.down EXCEPT ![d] = (kind = "press")]
           q == world.input
           r == world'.input
<1>1. meas' = meas /\ world.down[d] # (kind = "press")
  BY DEF Input
<1>2. e \in Events /\ gone \in SUBSET (Mouse \X Nat)
  BY DEF Worlds, Events
<1>3. world' = [world EXCEPT !.down = down, !.inputs = world.inputs + 1, !.gone = gone,
                             !.input = Append(q, e)]
  BY DEF Input, Worlds
<1>4. down \in [Mouse -> BOOLEAN]
  BY DEF Worlds
<1>5. q \in Seq(Events) /\ world.now \in Nat /\ r = Append(q, e)
  BY <1>3 DEF Worlds
<1>6. world' \in Worlds
  <2> DEFINE more == world.inputs + 1
  <2>1. more \in Nat /\ r \in Seq(Events)
    BY <1>2, <1>5 DEF Worlds
  <2>2. world' = [world EXCEPT !.down = down, !.inputs = more, !.gone = gone, !.input = r]
    BY <1>3, <1>5
  <2> HIDE DEF e, gone, down, more, r
  <2> QED
    BY <1>2, <1>4, <2>1, <2>2 DEF Worlds
<1>7. /\ world'.now = world.now /\ world'.claim = world.claim /\ world'.since = world.since
      /\ world'.gone = gone /\ world'.down = down
  <2> HIDE DEF gone, down, e
  <2> QED
    BY <1>3 DEF Worlds
<1>8. /\ Len(r) = Len(q) + 1 /\ Len(q) \in Nat
      /\ \A i \in 1 .. Len(q) : r[i] = q[i] /\ q[i] \in Events
      /\ r[Len(q) + 1] = e
      /\ r # <<>> /\ Head(r) = IF q = <<>> THEN e ELSE Head(q)
  <2> HIDE DEF e
  <2> QED
    BY <1>2, <1>5
<1>9. InTime(world')
  <2>1. \A i \in 1 .. Len(r) : r[i].at <= world.now /\ r[i].at \in Nat
    BY <1>8, <1>5 DEF InTime, Events
  <2>2. ASSUME NEW i \in 1 .. Len(r), NEW j \in 1 .. Len(r), i <= j PROVE r[i].at <= r[j].at
    <3>1. CASE j = Len(q) + 1
      BY <3>1, <1>8, <2>1
    <3>2. CASE j # Len(q) + 1
      <4>1. i \in 1 .. Len(q) /\ j \in 1 .. Len(q)
        BY <1>8, <2>2, <3>2
      <4> QED
        BY <1>8, <2>2, <4>1 DEF InTime
    <3> QED
      BY <3>1, <3>2
  <2> QED
    BY <1>7, <2>1, <2>2 DEF InTime
<1>10. \A a, t : Awaited(world, a, t) => Awaited(world', a, t)
  <2> SUFFICES ASSUME NEW a, NEW t, Awaited(world, a, t) PROVE Awaited(world', a, t)
    OBVIOUS
  <2>1. PICK i \in 1 .. Len(q) : q[i].dev = a /\ q[i].at = t /\ q[i].kind # "press"
    BY DEF Awaited
  <2>2. i \in 1 .. Len(r) /\ r[i] = q[i]
    BY <1>8
  <2> QED
    BY <2>1, <2>2 DEF Awaited
<1>11. \A a, t : <<a, t>> \in gone => <<a, t>> \in world.gone \/ Awaited(world', a, t)
  <2> SUFFICES ASSUME NEW a, NEW t, <<a, t>> \in gone, <<a, t>> \notin world.gone
               PROVE  Awaited(world', a, t)
    OBVIOUS
  <2>1. a = d /\ t = world.now /\ kind # "press"
    OBVIOUS
  <2>2. Len(q) + 1 \in 1 .. Len(r)
    BY <1>8
  <2> QED
    BY <1>8, <2>1, <2>2 DEF Awaited
<1>12. meas.phase = "waiting" => Untouched(meas, world')
  <2> SUFFICES ASSUME meas.phase = "waiting" PROVE Untouched(meas, world')
    OBVIOUS
  <2>1. Untouched(meas, world)
    BY DEF Trusted, Undecided
  <2>2. \A a \in Mouse, t \in Nat : <<a, t>> \in gone => Awaited(world', a, t)
    <3> HIDE DEF gone
    <3> QED
      BY <2>1, <1>10, <1>11 DEF Untouched
  <2>3. Head(r).kind = "press"
    <3>1. CASE q = <<>>
      <4>1. ~world.down[d]
        BY <2>1, <3>1 DEF Untouched
      <4>2. kind = "press"
        BY <1>1, <4>1 DEF Worlds
      <4> QED
        BY <1>8, <3>1, <4>2
    <3>2. CASE q # <<>>
      BY <1>8, <2>1, <3>2 DEF Untouched
    <3> QED
      BY <3>1, <3>2
  <2> HIDE DEF gone
  <2> QED
    BY <1>7, <1>8, <2>1, <2>2, <2>3 DEF Untouched
<1>13. meas.phase # "waiting" => Tracked(meas, world')
  <2> SUFFICES ASSUME meas.phase # "waiting" PROVE Tracked(meas, world')
    OBVIOUS
  <2>1. Tracked(meas, world)
    BY DEF Trusted, Undecided
  <2>2. \A t \in Nat : InWindow(meas, t) /\ <<meas.device, t>> \in gone
          => Awaited(world', meas.device, t)
    <3> HIDE DEF gone
    <3> QED
      BY <2>1, <1>10, <1>11 DEF Tracked
  <2>3. meas.inputEnd => \A i \in 1 .. Len(r) : r[i].at >= End(meas)
    <3> SUFFICES ASSUME meas.inputEnd, NEW i \in 1 .. Len(r) PROVE r[i].at >= End(meas)
      OBVIOUS
    <3>1. CASE i \in 1 .. Len(q)
      BY <1>8, <2>1, <3>1 DEF Tracked
    <3>2. CASE i = Len(q) + 1
      BY <1>8, <2>1, <3>2 DEF Tracked
    <3> QED
      BY <1>8, <3>1, <3>2
  <2> HIDE DEF gone
  <2> QED
    BY <1>7, <2>1, <2>2, <2>3 DEF Tracked
<1>14. Trusted(meas, world')
  BY <1>7, <1>12, <1>13 DEF Trusted, Undecided
<1> QED
  BY <1>1, <1>6, <1>9, <1>14

LEMMA VblankQueued ==
  ASSUME MeasInv, NEW n \in Nat, Vblank(n)
  PROVE  MeasInv'
<1> USE DEF MeasInv
<1> DEFINE f == [gen |-> world.claim.gen, seq |-> n, at |-> world.now]
<1>1. meas' = meas
  BY DEF Vblank
<1>2. f \in Flips
  BY DEF Worlds, Outputs, Flips
<1>3. Append(world.flips, f) \in Seq(Flips) /\ world.vblanks + 1 \in Nat
  <2> HIDE DEF f
  <2> QED
    BY <1>2 DEF Worlds
<1>4. world' = [world EXCEPT !.seq = n, !.vblanks = world.vblanks + 1,
                             !.flips = Append(world.flips, f)]
  BY DEF Vblank, Worlds
<1> DEFINE more == world.vblanks + 1
           flips == Append(world.flips, f)
<1>5. more \in Nat /\ flips \in Seq(Flips)
      /\ world' = [world EXCEPT !.seq = n, !.vblanks = more, !.flips = flips]
  BY <1>3, <1>4
<1> HIDE DEF f, more, flips
<1>6. world' \in Worlds
  BY <1>5 DEF Worlds
<1>7. SameWorld(world, world') /\ world'.since = world.since
  BY <1>5 DEF Worlds, SameWorld
<1> QED
  BY <1>1, <1>6, <1>7 DEF SameWorld, InTime, Trusted, Untouched, Tracked, Awaited

LEMMA FlipTold ==
  ASSUME MeasInv, Undecided, HandleFlip
  PROVE  MeasInv'
<1> USE DEF MeasInv
<1> DEFINE f == Head(world.flips)
           rest == Tail(world.flips)
           n == Presentation(meas, f, world.claim)
           v == [world EXCEPT !.flips = rest]
<1>1. f \in Flips /\ rest \in Seq(Flips) /\ world.claim \in Outputs
  BY DEF HandleFlip, Worlds
<1>2. v \in Worlds /\ SameWorld(world, v) /\ v.since = world.since
  <2> HIDE DEF rest
  <2> QED
    BY <1>1 DEF Worlds, SameWorld
<1>3. meas' = Recorded(n) /\ world' = Watched(v, world.claim, {f})
  BY DEF HandleFlip
<1> HIDE DEF f, rest, v
<1>4. /\ world' \in Worlds /\ SameWorld(v, world')
      /\ meas'.phase = "waiting" => world' = v
      /\ meas'.phase # "waiting" =>
           world'.since = [outs |-> v.since.outs \cup {world.claim},
                           flips |-> v.since.flips \cup {f}]
  BY <1>1, <1>2, <1>3, WatchedTyped, ZenonT(60)
<1>5. InTime(world') /\ \A d, t : Awaited(world', d, t) <=> Awaited(world, d, t)
  BY <1>2, <1>4 DEF InTime, Awaited, SameWorld
<1>6. CASE meas.phase = "waiting"
  <2>1. n = meas
    BY <1>6 DEF Presentation
  <2> HIDE DEF n
  <2>2. meas' \in Captures /\ (meas'.contended \/ meas' = meas)
    BY <1>3, <2>1, RecordedCases
  <2>3. CASE meas'.contended
    BY <2>2, <2>3, <1>4, <1>5 DEF Trusted
  <2>4. CASE meas' = meas
    <3>1. Trusted(meas', world')
      BY <1>2, <1>4, <1>5, <1>6, <2>4 DEF Trusted, Undecided, Untouched, SameWorld
    <3> QED
      BY <2>2, <3>1, <1>4, <1>5
  <2> QED
    BY <2>2, <2>3, <2>4
<1>7. CASE meas.phase # "waiting"
  <2>1. meas.phase = "recording"
    BY <1>7 DEF Undecided, Captures
  <2>2. /\ n \in Captures /\ SameRun(meas, n)
        /\ n.phase \in {"recording", "complete"}
        /\ n.phase = "complete" => n.inputEnd
        /\ n.current = world.claim /\ n.inputEnd = meas.inputEnd
        /\ ~n.flawed => ~meas.flawed /\ world.claim = meas.output /\ n.seen = meas.seen \cup {f}
    BY <1>1, <2>1, FlipCounts
  <2> HIDE DEF n
  <2>3. meas' \in Captures /\ (meas'.contended \/ meas' = n)
    BY <1>3, <2>2, RecordedCases
  <2>4. CASE meas'.contended
    BY <2>3, <2>4, <1>4, <1>5 DEF Trusted
  <2>5. CASE meas' = n /\ n.flawed
    BY <2>2, <2>5, <1>4, <1>5 DEF Trusted
  <2>6. CASE meas' = n /\ ~n.flawed
    <3>1. Tracked(meas, world)
      BY <1>7 DEF Trusted, Undecided
    <3>2. world'.since.outs = {n.output} /\ world'.since.flips = n.seen
      <4>1. meas'.phase # "waiting" /\ world.claim = n.output /\ n.output = meas.output
        BY <2>2, <2>6 DEF SameRun
      <4>2. world'.since = [outs |-> world.since.outs \cup {n.output},
                            flips |-> world.since.flips \cup {f}]
        BY <1>2, <1>4, <4>1
      <4>3. world.since.outs = {n.output} /\ world.since.flips \cup {f} = n.seen
        BY <2>2, <2>6, <3>1, <4>1 DEF Tracked
      <4> QED
        BY <4>2, <4>3
    <3>3. End(n) = End(meas) /\ \A t : InWindow(n, t) <=> InWindow(meas, t)
      BY <2>2 DEF SameRun, End, InWindow
    <3>4. Tracked(n, world')
      BY <1>2, <1>4, <1>5, <2>2, <2>6, <3>1, <3>2, <3>3 DEF Tracked, SameRun, SameWorld
    <3>5. Trusted(meas', world')
      BY <1>2, <1>4, <2>2, <2>6, <3>4 DEF Trusted, SameWorld
    <3> QED
      BY <2>3, <3>5, <1>4, <1>5
  <2> QED
    BY <2>3, <2>4, <2>5, <2>6
<1> QED
  BY <1>6, <1>7

LEMMA OutputChanged ==
  ASSUME MeasInv, Undecided, NEW out \in Outputs, NEW prior \in Outputs, Claims(out, prior)
  PROVE  MeasInv'
<1> USE DEF MeasInv
<1> DEFINE n == ActiveOutput(meas, out)
           gen == IF out.gen > world.gen THEN out.gen ELSE world.gen
           v == [world EXCEPT !.claim = out, !.prior = prior, !.flips = <<>>, !.gen = gen]
<1>1. gen \in Nat /\ <<>> \in Seq(Flips)
  BY DEF Worlds, Outputs
<1>2. v \in Worlds /\ v.since = world.since /\ v.claim = out /\ v.now = world.now
      /\ v.down = world.down /\ v.input = world.input /\ v.gone = world.gone
  <2> HIDE DEF gen
  <2> QED
    BY <1>1 DEF Worlds
<1>3. meas' = Recorded(n) /\ world' = Watched(v, out, {})
  BY DEF Claims, Worlds
<1> HIDE DEF v, gen
<1>4. /\ world' \in Worlds /\ SameWorld(v, world')
      /\ meas'.phase = "waiting" => world' = v
      /\ meas'.phase # "waiting" =>
           world'.since = [outs |-> v.since.outs \cup {out}, flips |-> v.since.flips \cup {}]
  BY <1>2, <1>3, WatchedTyped
<1>5. InTime(world') /\ \A d, t : Awaited(world', d, t) <=> Awaited(world, d, t)
  BY <1>2, <1>4 DEF InTime, Awaited, SameWorld
<1>6. /\ n \in Captures /\ n.current = out
      /\ SameRun(meas, n) /\ n.seen = meas.seen /\ n.inputEnd = meas.inputEnd
      /\ n.flipEnd = meas.flipEnd /\ n.phase = meas.phase
      /\ ~n.flawed => ~meas.flawed
      /\ (~n.flawed /\ meas.phase = "recording") => out \in {meas.current, meas.output}
  BY OutputActivated
<1> HIDE DEF n
<1>7. meas' \in Captures /\ (meas'.contended \/ meas' = n)
  BY <1>3, <1>6, RecordedCases
<1>8. CASE meas'.contended
  BY <1>7, <1>8, <1>4, <1>5 DEF Trusted
<1>9. CASE meas' = n /\ n.flawed
  BY <1>6, <1>9, <1>4, <1>5 DEF Trusted
<1>10. CASE meas' = n /\ ~n.flawed
  <2>1. n.current = world'.claim
    BY <1>2, <1>4, <1>6 DEF SameWorld
  <2>2. CASE meas.phase = "waiting"
    BY <1>2, <1>4, <1>5, <1>6, <1>10, <2>1, <2>2 DEF Trusted, Undecided, Untouched, SameWorld
  <2>3. CASE meas.phase # "waiting"
    <3>1. Tracked(meas, world) /\ meas.phase = "recording"
      BY <2>3 DEF Trusted, Undecided, Captures
    <3>2. out = n.output
      BY <1>6, <1>10, <3>1 DEF Tracked, SameRun
    <3>3. world'.since.outs = {n.output} /\ world'.since.flips = n.seen
      BY <1>2, <1>4, <1>6, <1>10, <2>3, <3>1, <3>2 DEF Tracked, SameRun
    <3>4. End(n) = End(meas) /\ \A t : InWindow(n, t) <=> InWindow(meas, t)
      BY <1>6 DEF SameRun, End, InWindow
    <3>5. Tracked(n, world')
      BY <1>2, <1>4, <1>5, <1>6, <3>1, <3>2, <3>3, <3>4 DEF Tracked, SameRun, SameWorld
    <3>6. Trusted(meas', world')
      BY <1>6, <1>10, <2>1, <2>3, <3>5 DEF Trusted
    <3> QED
      BY <1>7, <3>6, <1>4, <1>5
  <2> QED
    BY <2>2, <2>3
<1> QED
  BY <1>7, <1>8, <1>9, <1>10

LEMMA InputHandled ==
  ASSUME MeasInv, Undecided, HandleInput
  PROVE  MeasInv'
<1> USE DEF MeasInv
<1> DEFINE q == world.input
           e == Head(q)
           r == Tail(q)
           out == world.claim
           v == [world EXCEPT !.input = r]
           n == IF e.kind = "removed" THEN MouseRemoved(meas, e.dev) ELSE Button(meas, e, out)
<1>1. q \in Seq(Events) /\ q # <<>> /\ out \in Outputs
  BY DEF HandleInput, Worlds
<1>2. e \in Events /\ r \in Seq(Events) /\ Len(q) \in Nat \ {0} /\ Len(r) = Len(q) - 1
      /\ (\A i \in 1 .. Len(r) : i + 1 \in 1 .. Len(q) /\ r[i] = q[i + 1])
      /\ 1 \in 1 .. Len(q) /\ q[1] = e
  <2> HIDE DEF q
  <2> QED
    BY <1>1
<1>3. v \in Worlds /\ v.since = world.since /\ v.claim = out /\ v.now = world.now
      /\ v.down = world.down /\ v.input = r /\ v.gone = world.gone
  <2>1. r \in Seq(Events) /\ world \in Worlds
    BY <1>2
  <2> HIDE DEF r
  <2> QED
    BY <2>1 DEF Worlds
<1>4. meas' = Recorded(n) /\ world' = Watched(v, out, {})
  BY DEF HandleInput
<1>5. \A i \in 1 .. Len(q) : q[i] \in Events /\ q[i].at >= e.at /\ q[i].at <= world.now
      /\ q[i].at \in Nat
  <2>1. \A i \in 1 .. Len(q) : q[i] \in Events
    <3> HIDE DEF q
    <3> QED
      BY <1>1
  <2>2. \A i \in 1 .. Len(q) : q[1].at <= q[i].at /\ q[i].at <= world.now
    BY <1>2 DEF InTime
  <2>3. \A i \in 1 .. Len(q) : q[i].at \in Nat
    <3> HIDE DEF q
    <3> QED
      BY <2>1 DEF Events
  <2> HIDE DEF q, e
  <2> QED
    BY <1>2, <2>1, <2>2, <2>3
<1>6. \A d, t : Awaited(world, d, t) => Awaited(v, d, t) \/ (e.dev = d /\ e.at = t /\ e.kind # "press")
  <2> SUFFICES ASSUME NEW d, NEW t, Awaited(world, d, t),
                      ~(e.dev = d /\ e.at = t /\ e.kind # "press")
               PROVE  Awaited(v, d, t)
    OBVIOUS
  <2>1. PICK i \in 1 .. Len(q) : q[i].dev = d /\ q[i].at = t /\ q[i].kind # "press"
    BY DEF Awaited
  <2>2. i # 1
    BY <1>2, <2>1
  <2>3. i - 1 \in 1 .. Len(r) /\ r[i - 1] = q[i]
    <3> HIDE DEF q, r
    <3> QED
      BY <1>2, <2>2
  <2> QED
    BY <1>3, <2>1, <2>3 DEF Awaited
<1>7. InTime(v)
  <2> HIDE DEF q, r, v
  <2>1. \A i \in 1 .. Len(r) : r[i].at <= world.now
    BY <1>2, <1>5
  <2>2. ASSUME NEW i \in 1 .. Len(r), NEW j \in 1 .. Len(r), i <= j PROVE r[i].at <= r[j].at
    <3>1. q[i + 1].at <= q[j + 1].at
      BY <1>2, <2>2 DEF InTime, q
    <3> QED
      BY <1>2, <3>1
  <2> QED
    BY <1>3, <2>1, <2>2 DEF InTime
<1>8. (\A i \in 1 .. Len(r) : r[i].at >= e.at /\ r[i].at \in Nat) /\ e.at <= world.now /\ e.at \in Nat
      /\ world.now \in Nat
  <2>1. e.at \in Nat /\ world.now \in Nat
    BY <1>2 DEF Events, Worlds
  <2> HIDE DEF q, r, e
  <2> QED
    BY <1>2, <1>5, <2>1
<1> HIDE DEF v
<1>9. /\ world' \in Worlds /\ SameWorld(v, world')
      /\ meas'.phase = "waiting" => world' = v
      /\ meas'.phase # "waiting" =>
           world'.since = [outs |-> v.since.outs \cup {out}, flips |-> v.since.flips \cup {}]
  <2> HIDE DEF out, n
  <2> QED
    BY <1>1, <1>3, <1>4, WatchedTyped
<1>10. InTime(world') /\ \A d, t : Awaited(world', d, t) <=> Awaited(v, d, t)
  BY <1>7, <1>9 DEF InTime, Awaited, SameWorld
<1>11. meas' \in Captures /\ meas'.contended => MeasInv'
  BY <1>9, <1>10 DEF Trusted
<1>12. CASE meas.phase = "waiting"
  <2>1. Untouched(meas, world) /\ meas.current = out /\ ~meas.contended
    BY <1>12 DEF Trusted, Undecided
  <2>2. e.kind = "press"
    BY <1>1, <2>1 DEF Untouched
  <2>3. n = Button(meas, e, out)
    BY <2>2
  <2> HIDE DEF n, out, e
  <2>4. /\ n \in Captures /\ n.contended = meas.contended
        /\ n.phase \in {"recording", "complete"}
        /\ n.phase = "complete" => n.inputEnd /\ n.flipEnd
        /\ n.current = meas.current /\ n.seen = meas.seen /\ n.flipEnd = meas.flipEnd
        /\ n.start = e.at /\ n.output = out /\ n.device = e.dev
        /\ n.inputEnd = (meas.inputEnd \/ e.at >= End(n))
        /\ ~n.flawed => ~meas.flawed /\ out.mono /\ meas.current = out
    BY <1>12, <1>2, <1>1, <2>2, <2>3, FirstPress
  <2>5. meas' \in Captures /\ (meas'.contended \/ meas' = n)
    BY <1>4, <2>4, RecordedCases
  <2>6. CASE meas'.contended
    BY <2>5, <2>6, <1>11
  <2>7. CASE meas' = n /\ n.flawed
    BY <2>4, <2>7, <1>9, <1>10 DEF Trusted
  <2>8. CASE meas' = n /\ ~n.flawed
    <3>1. n.seen = world'.since.flips /\ world'.since.outs = {n.output}
      BY <2>1, <2>4, <2>8, <1>3, <1>9 DEF Untouched
    <3>2. n.output.mono /\ n.current = n.output
      BY <2>1, <2>4, <2>8
    <3>3. ASSUME NEW t \in Nat, <<n.device, t>> \in world'.gone PROVE Awaited(world', n.device, t)
      <4>1. n.device \in Mouse /\ <<n.device, t>> \in world.gone
        BY <1>2, <1>3, <1>9, <2>4, <3>3 DEF Events, SameWorld
      <4>2. Awaited(world, n.device, t)
        BY <2>1, <4>1 DEF Untouched
      <4> QED
        BY <1>6, <1>10, <2>2, <4>2
    <3>4. ASSUME n.inputEnd
          PROVE  /\ world'.now >= End(n)
                 /\ \A i \in 1 .. Len(world'.input) : world'.input[i].at >= End(n)
      <4>1. e.at >= End(n) /\ End(n) \in Nat
        <5>1. n.start \in Nat
          BY <2>4 DEF Captures
        <5>2. End(n) \in Nat
          BY <5>1, ConstantsAreNat DEF End
        <5> QED
          BY <2>1, <2>4, <3>4, <5>2 DEF Untouched
      <4>2. world'.now = world.now /\ world'.input = r
        BY <1>3, <1>9 DEF SameWorld
      <4> HIDE DEF r
      <4> QED
        BY <1>8, <4>1, <4>2
    <3>5. Tracked(n, world')
      BY <2>4, <3>1, <3>2, <3>3, <3>4 DEF Tracked
    <3>6. Trusted(meas', world')
      BY <1>3, <1>9, <2>1, <2>4, <2>8, <3>5 DEF Trusted, SameWorld
    <3> QED
      BY <2>5, <3>6, <1>9, <1>10
  <2> QED
    BY <2>5, <2>6, <2>7, <2>8
<1>13. CASE meas.phase # "waiting"
  <2>1. Tracked(meas, world) /\ meas.phase = "recording" /\ meas.current = out /\ out = meas.output
    BY <1>13 DEF Trusted, Undecided, Captures, Tracked
  <2>2. /\ n \in Captures /\ SameRun(meas, n)
        /\ n.phase \in {"recording", "complete"}
        /\ n.phase = "complete" => n.inputEnd
        /\ n.seen = meas.seen
    <3>1. CASE e.kind = "removed"
      <4>1. n \in Captures /\ SameRecord(meas, n)
        BY <3>1, DeviceRemoved
      <4> HIDE DEF n
      <4> QED
        BY <2>1, <4>1 DEF SameRecord
    <3>2. CASE e.kind # "removed"
      <4>1. n = Button(meas, e, out)
        BY <3>2
      <4> HIDE DEF n, e, out
      <4> QED
        BY <1>1, <1>2, <2>1, <4>1, LaterButton
    <3> QED
      BY <3>1, <3>2
  <2>3. /\ n.current = out
        /\ n.inputEnd => meas.inputEnd \/ e.at >= End(meas)
        /\ meas.inputEnd => n.inputEnd
    <3>1. CASE e.kind = "removed"
      <4>1. n \in Captures /\ SameRecord(meas, n)
        BY <3>1, DeviceRemoved
      <4> HIDE DEF n, e, out
      <4> QED
        BY <2>1, <4>1 DEF SameRecord
    <3>2. CASE e.kind # "removed"
      <4>1. n = Button(meas, e, out)
        BY <3>2
      <4> HIDE DEF n, e, out
      <4>2. n.current = out /\ n.inputEnd = (meas.inputEnd \/ e.at >= End(meas))
        BY <1>1, <1>2, <2>1, <4>1, LaterButton
      <4> QED
        BY <4>2
    <3> QED
      BY <3>1, <3>2
  <2>4. ~n.flawed => ~(e.kind # "press" /\ e.dev = meas.device /\ e.at < End(meas))
    <3>1. CASE e.kind = "removed"
      <4>1. ~n.flawed => meas.device # e.dev
        BY <2>1, <3>1, DeviceRemoved
      <4> HIDE DEF n, e, out
      <4> QED
        BY <4>1
    <3>2. CASE e.kind # "removed"
      <4>1. n = Button(meas, e, out)
        BY <3>2
      <4> HIDE DEF n, e, out
      <4>2. ~n.flawed => ~(e.kind = "release" /\ e.at < End(meas))
        BY <1>1, <1>2, <2>1, <4>1, LaterButton
      <4> QED
        BY <3>2, <4>2, <1>2 DEF Events
    <3> QED
      BY <3>1, <3>2
  <2> HIDE DEF n, out, e
  <2>5. meas' \in Captures /\ (meas'.contended \/ meas' = n)
    BY <1>4, <2>2, RecordedCases
  <2>6. CASE meas'.contended
    BY <2>5, <2>6, <1>11
  <2>7. CASE meas' = n /\ n.flawed
    BY <2>2, <2>7, <1>9, <1>10 DEF Trusted
  <2>8. CASE meas' = n /\ ~n.flawed
    <3>1. n.output = out /\ n.device = meas.device /\ End(n) = End(meas)
          /\ \A t : InWindow(n, t) <=> InWindow(meas, t)
      BY <2>1, <2>2 DEF SameRun, End, InWindow
    <3>2. n.seen = world'.since.flips /\ world'.since.outs = {n.output}
      BY <2>1, <2>2, <2>8, <3>1, <1>3, <1>9 DEF Tracked
    <3>3. n.output.mono /\ n.current = n.output
      BY <2>1, <2>3, <3>1 DEF Tracked
    <3>4. ASSUME NEW t \in Nat, InWindow(n, t), <<n.device, t>> \in world'.gone
          PROVE Awaited(world', n.device, t)
      <4>1. Awaited(world, meas.device, t)
        BY <1>3, <1>9, <2>1, <3>1, <3>4 DEF Tracked, SameWorld
      <4>2. t < End(meas)
        BY <3>1, <3>4 DEF InWindow
      <4> QED
        BY <1>6, <1>10, <2>4, <2>8, <3>1, <4>1, <4>2
    <3>5. ASSUME n.inputEnd
          PROVE  /\ world'.now >= End(n)
                 /\ \A i \in 1 .. Len(world'.input) : world'.input[i].at >= End(n)
      <4>1. End(n) \in Nat
        <5>1. n.start \in Nat
          BY <2>2 DEF Captures
        <5> QED
          BY <5>1, ConstantsAreNat DEF End
      <4>2. world'.now = world.now /\ world'.input = r
        BY <1>3, <1>9 DEF SameWorld
      <4>3. CASE meas.inputEnd
        <5>1. world.now >= End(n) /\ \A i \in 1 .. Len(q) : q[i].at >= End(n)
          BY <2>1, <3>1, <4>3 DEF Tracked
        <5> HIDE DEF q, r
        <5> QED
          BY <1>2, <4>2, <5>1
      <4>4. CASE e.at >= End(n)
        <5> HIDE DEF q, r
        <5> QED
          BY <1>8, <4>1, <4>2, <4>4
      <4> QED
        BY <2>3, <3>1, <3>5, <4>3, <4>4
    <3>6. Tracked(n, world')
      BY <2>2, <3>2, <3>3, <3>4, <3>5 DEF Tracked
    <3>7. n.current = world'.claim
      BY <1>3, <1>9, <2>3 DEF SameWorld
    <3>8. Trusted(meas', world')
      BY <2>2, <2>8, <3>6, <3>7 DEF Trusted
    <3> QED
      BY <2>5, <3>8, <1>9, <1>10
  <2> QED
    BY <2>5, <2>6, <2>7, <2>8
<1> QED
  BY <1>12, <1>13

LEMMA MeasStarts == MeasInit(Boots) => MeasInv
<1> SUFFICES ASSUME MeasInit(Boots) PROVE MeasInv
  OBVIOUS
<1>1. PICK b \in Boots : meas = NewCapture(b)
  BY DEF MeasInit
<1>2. NewCapture(b) \in Captures
  BY OutputsTyped DEF NewCapture, Captures
<1>3. NewWorld \in Worlds
  BY OutputsTyped DEF NewWorld, Worlds, Sightings
<1>4. world = NewWorld
  BY DEF MeasInit
<1>5. InTime(NewWorld)
  BY DEF InTime, NewWorld
<1>6. Untouched(NewCapture(b), NewWorld)
  BY DEF Untouched, NewCapture, NewWorld
<1> QED
  BY <1>1, <1>2, <1>3, <1>4, <1>5, <1>6 DEF MeasInv, Trusted, NewCapture, NewWorld

LEMMA MeasKept == MeasInv /\ MeasNext => MeasInv'
<1> SUFFICES ASSUME MeasInv, MeasNext PROVE MeasInv'
  OBVIOUS
<1>0. Undecided /\ world \in Worlds
  BY DEF MeasNext, MeasInv
<1>1. CASE Passes \/ FinishReclaim \/ SnapshotBegins \/ SnapshotEnds
  BY <1>0, <1>1, OutsideQuiet
<1>2. CASE HandleInput
  BY <1>0, <1>2, InputHandled
<1>3. CASE HandleFlip
  BY <1>0, <1>3, FlipTold
<1>4. CASE \E d \in Mouse, kind \in {"press", "release", "removed"} : Input(d, kind)
  BY <1>0, <1>4, InputKept
<1>5. CASE \E n \in 0 .. MaxFlips : Vblank(n)
  BY <1>5, VblankQueued
<1>6. CASE LoseClaim
  BY <1>0, <1>6, OutputChanged, OutputsTyped DEF LoseClaim, Worlds
<1>7. CASE RestoreClaim
  BY <1>0, <1>7, OutputChanged, OutputsTyped DEF RestoreClaim, Worlds
<1>8. CASE \E mono \in BOOLEAN : MakeClaim(mono)
  <2>1. PICK mono \in BOOLEAN : MakeClaim(mono)
    BY <1>8
  <2> DEFINE out == [gen |-> world.gen + 1, mono |-> mono]
  <2>2. out \in Outputs /\ world.prior \in Outputs
    BY <1>0 DEF Worlds, Outputs
  <2>3. Claims(out, world.prior)
    BY <2>1 DEF MakeClaim
  <2> HIDE DEF out
  <2> QED
    BY <1>0, <2>2, <2>3, OutputChanged
<1> QED
  BY <1>1, <1>2, <1>3, <1>4, <1>5, <1>6, <1>7, <1>8 DEF MeasNext

\* Whatever the order in which input, flips, claims and snapshots meet the
\* collector, its invariant holds (presentation_measurement.rs).
THEOREM MeasInvHolds == Spec => []MeasInv
<1>1. Init => MeasInv
  BY MeasStarts DEF Init
<1>2. MeasInv /\ [Next]_vars => MeasInv'
  <2> SUFFICES ASSUME MeasInv, [Next]_vars PROVE MeasInv'
    OBVIOUS
  <2>1. CASE Measure
    BY <2>1, MeasKept DEF Measure
  <2>2. CASE UNCHANGED <<meas, world>>
    BY <2>2 DEF MeasInv, InTime, Awaited, Trusted, Untouched, Tracked, InWindow, End
  <2> QED
    BY <2>1, <2>2 DEF Next, Scene, Session, Scanout, vars
<1> QED
  BY <1>1, <1>2, PTL DEF Spec

\* A capture that is called valid is what it says: one device held the
\* button for the whole window, the output was the same claim throughout,
\* and the flips counted are those of that output in the window (record_button,
\* record_presentation, set_active_output, try_capture).
THEOREM ValidCaptureIsHonestSafe == Spec => []ValidCaptureIsHonest
<1>1. MeasInv => ValidCaptureIsHonest
  <2> SUFFICES ASSUME MeasInv, Valid(meas) PROVE
        /\ ~ \E t \in meas.start .. End(meas) - 1 : <<meas.device, t>> \in world.gone
        /\ world.since.outs = {meas.output} /\ meas.output.mono
        /\ Counted(meas) = Cardinality({f \in world.since.flips : InWindow(meas, f.at)})
    BY DEF ValidCaptureIsHonest
  <2>1. Tracked(meas, world) /\ meas.phase = "complete" /\ meas.inputEnd
    BY DEF MeasInv, Valid, Trusted, Tracked
  <2>2. meas.start \in Nat /\ End(meas) \in Nat
    <3>1. meas.start \in Nat
      BY DEF MeasInv, Captures
    <3> QED
      BY <3>1, ConstantsAreNat DEF End
  <2>3. ASSUME NEW t \in meas.start .. End(meas) - 1, <<meas.device, t>> \in world.gone
        PROVE  FALSE
    <3>1. t \in Nat /\ InWindow(meas, t)
      BY <2>2 DEF InWindow
    <3>2. PICK i \in 1 .. Len(world.input) : world.input[i].at = t
      BY <2>1, <2>3, <3>1 DEF Tracked, Awaited
    <3>3. t >= End(meas)
      BY <2>1, <3>2 DEF Tracked
    <3> QED
      BY <2>2, <2>3, <3>3
  <2> QED
    BY <2>1, <2>3 DEF Tracked, Counted
<1> QED
  BY <1>1, MeasInvHolds, PTL

-----------------------------------------------------------------------------
(***************************************************************************)
(* The scan-out, for every set of devices and any failures: nothing is     *)
(* painted into a buffer that is on screen, and the overlay window is to   *)
(* be seen once.                                                           *)
(*                                                                         *)
(* The screen shows the front buffer of a pipeline, or its back buffer     *)
(* from the flip until the runtime handles it (InStep); only one pipeline  *)
(* waits for a flip (Flow); and what is on screen belongs to the pipeline  *)
(* in use or, until a new one had its first flip, to the retired one       *)
(* (Owner).                                                                *)
(***************************************************************************)

Sources == {"direct", "dumb"}
Pairs   == {NoPair, Fresh, [front |-> 1, back |-> 0]}

\* A plan puts the overlay plane above the primary one.
Plans ==
  {NoPlan} \cup [kind : {"atomic"},
                 overlay : {NoPlane} \cup [format : {"argb", "xrgb"}, above : {TRUE}]]

Pipes ==
  [kind : {"pipe"}, n : {0, 1}, gles : BOOLEAN, plan : Plans, direct : Pairs, dumb : Pairs,
   owns : Sources, modeset : BOOLEAN, source : {"none"} \cup Sources]

Buffers == {0, 1} \X Sources \X {0, 1}

Images ==
  [fb : {Gone} \cup Buffers, painted : BOOLEAN, plane : {"off", "over", "wrong"}, wanted : BOOLEAN]

ScanoutTypes(h, s) ==
  /\ h \in [card : Card, pipe : {NoPipe} \cup Pipes, prior : {NoPipe} \cup Pipes,
            owns : {"none"} \cup Sources]
  /\ s \in [shown : Images, queued : Images, event : BOOLEAN, torn : {FALSE}]

PairOf(p, source) == IF source = "direct" THEN p.direct ELSE p.dumb

BackOf(p, source) == Fb(p, source, PairOf(p, source).back)

\* What the screen shows of the pipeline p.
InStep(p, s) ==
  p # NoPipe =>
    /\ p.source # "none" => PairOf(p, p.source) # NoPair
    /\ \A source \in Sources, i \in {0, 1} :
         s.shown.fb = Fb(p, source, i) =>
           /\ PairOf(p, source) # NoPair
           /\ i = IF s.event /\ p.source = source THEN PairOf(p, source).back
                                                 ELSE PairOf(p, source).front

\* One pipeline waits for a flip, that of the queued frame.
Waits(p, s) ==
  Pending(p) =>
    /\ s.queued # NoImage => s.queued.fb = BackOf(p, p.source)
    /\ s.event => s.shown.fb = BackOf(p, p.source)

Flow(h, s) ==
  /\ h.pipe # NoPipe => ~Pending(h.prior)
  /\ s.queued = NoImage \/ ~s.event
  /\ s.queued # NoImage \/ s.event => Pending(h.pipe) \/ Pending(h.prior)
  /\ Waits(h.pipe, s) /\ Waits(h.prior, s)

ShownOf(p, s) == p # NoPipe /\ s.shown.fb # Gone /\ s.shown.fb[1] = p.n

Owner(h, s) ==
  /\ h.pipe # NoPipe /\ h.prior # NoPipe => h.pipe.n # h.prior.n
  /\ s.shown.fb # Gone => ShownOf(h.pipe, s) \/ ShownOf(h.prior, s)
  /\ h.prior # NoPipe /\ ~s.event => ~ShownOf(h.pipe, s)
  /\ h.owns = "none" => h.pipe = NoPipe /\ h.prior = NoPipe

\* OverlayShownOnce of one frame.
Once(f) == f.plane # "wrong" /\ f.wanted = (f.painted # (f.plane = "over"))

Sound(h, s) ==
  /\ ScanoutTypes(h, s) /\ InStep(h.pipe, s) /\ InStep(h.prior, s) /\ Flow(h, s) /\ Owner(h, s)
  /\ Once(s.shown) /\ Once(s.queued)

ScanoutInv == Sound(host, screen) /\ content \in Contents

-----------------------------------------------------------------------------
(* Framebuffers and pairs *)

LEMMA Framebuffers ==
  /\ \A p \in Pipes, s \in Sources, i \in {0, 1} : Fb(p, s, i) \in Buffers /\ Fb(p, s, i) # Gone
  /\ \A p, q, s, t, i, j : Fb(p, s, i) = Fb(q, t, j) <=> p.n = q.n /\ s = t /\ i = j
  /\ \A p, s, i : Fb(p, s, i)[1] = p.n
  /\ Gone \notin Buffers
BY DEF Fb, Buffers, Gone, Pipes

LEMMA PairFacts ==
  /\ NoPair.front = 0 /\ NoPair.back = 0 /\ Fresh.front = 0 /\ Fresh.back = 1 /\ Fresh # NoPair
  /\ \A x \in Pairs : /\ x.front \in {0, 1} /\ x.back \in {0, 1}
                      /\ x # NoPair => x.front # x.back
                                       /\ [front |-> x.back, back |-> x.front] \in Pairs \ {NoPair}
  /\ \A x \in Pairs : x = NoPair <=> x.front = x.back
BY DEF Pairs, NoPair, Fresh

LEMMA NoPipeFacts == NoPipe \notin Pipes /\ NoImage \in Images /\ NoImage.fb = Gone /\ Once(NoImage)
BY DEF NoPipe, Pipes, NoImage, Images, Once

-----------------------------------------------------------------------------
(* The choice of planes *)

LEMMA LeastPlane ==
  ASSUME NEW fit, fit # {}, \A p \in fit : p.id \in Nat
  PROVE  \E p \in fit : \A q \in fit : p.id <= q.id
<1> DEFINE Lower == {ss \in Nat \X Nat : ss[1] < ss[2]}
           ids  == {p.id : p \in fit}
<1>1. IsWellFoundedOn(Lower, Nat)
  BY NatLessThanWellFounded DEF OpToRel
<1>2. ids \subseteq Nat /\ ids # {}
  OBVIOUS
<1>3. PICK x \in ids : \A y \in ids : ~(<<y, x>> \in Lower)
  <2> HIDE DEF Lower, ids
  <2> QED
    BY <1>1, <1>2, WFMin
<1>4. PICK p \in fit : x = p.id
  BY <1>3
<1>5. ASSUME NEW q \in fit PROVE p.id <= q.id
  <2>1. q.id \in ids /\ q.id \in Nat /\ p.id \in Nat
    OBVIOUS
  <2>2. <<q.id, x>> \in Nat \X Nat /\ <<q.id, x>>[1] = q.id /\ <<q.id, x>>[2] = x
    BY <1>4, <2>1
  <2>3. ~(q.id < x)
    BY <1>3, <2>1, <2>2
  <2> QED
    BY <1>4, <2>1, <2>3
<1> QED
  BY <1>5

LEMMA SelectedPlane ==
  ASSUME NEW c \in Card, NEW type, SelectPlane(c, type) # NoPlane
  PROVE  SelectPlane(c, type) \in c.planes /\ SelectPlane(c, type).type = type
<1> DEFINE fit == {p \in c.planes : Crtc(c) \in p.crtcs /\ p.formats # {} /\ p.type = type}
           first == CHOOSE p \in fit : \A q \in fit : p.id <= q.id
<1>1. SelectPlane(c, type) = IF fit = {} \/ ~Writable(first) THEN NoPlane ELSE first
  BY DEF SelectPlane
<1>2. fit # {} /\ SelectPlane(c, type) = first
  BY <1>1
<1>3. \A p \in fit : p.id \in Nat
  BY CardAssumption
<1>4. \E p \in fit : \A q \in fit : p.id <= q.id
  <2> HIDE DEF fit
  <2> QED
    BY <1>2, <1>3, LeastPlane
<1>5. first \in fit
  BY <1>4
<1> QED
  BY <1>2, <1>5

LEMMA PlaneAbove ==
  ASSUME NEW c \in Card, NEW p \in c.planes, NEW o \in c.planes, p.type = "primary", o.type = "overlay"
  PROVE  IsAbove(p, o) = TRUE
<1> SUFFICES ASSUME p.zpos # NoZpos, o.zpos # NoZpos PROVE IsAbove(p, o) = TRUE
  BY DEF IsAbove
<1>1. /\ p.zpos.lo \in Nat /\ o.zpos.lo \in Nat /\ o.zpos.hi \in Nat
      /\ o.zpos.lo <= o.zpos.hi /\ p.zpos.lo < o.zpos.hi
  BY CardAssumption
<1> DEFINE z == Max({o.zpos.lo, p.zpos.lo + 1})
<1>2. z \in {o.zpos.lo, p.zpos.lo + 1} /\ z >= o.zpos.lo /\ z >= p.zpos.lo + 1
  <2>1. \E x \in {o.zpos.lo, p.zpos.lo + 1} : \A y \in {o.zpos.lo, p.zpos.lo + 1} : x >= y
    BY <1>1
  <2> QED
    BY <2>1 DEF Max
<1>3. p.zpos.lo < z /\ z <= o.zpos.hi
  BY <1>1, <1>2
<1>4. IsAbove(p, o) = (p.zpos.lo < z /\ z <= o.zpos.hi)
  BY DEF IsAbove, Zpos
<1> QED
  BY <1>3, <1>4

LEMMA PlanTyped ==
  ASSUME NEW c \in Card
  PROVE  AtomicPlan(c) \in Plans
<1> DEFINE p == SelectPlane(c, "primary")
           o == SelectPlane(c, "overlay")
<1>1. CASE ~c.atomic \/ p = NoPlane
  BY <1>1 DEF AtomicPlan, Plans
<1>2. CASE c.atomic /\ p # NoPlane /\ (o = NoPlane \/ ~Blends(o))
  BY <1>2 DEF AtomicPlan, Plans
<1>3. CASE c.atomic /\ p # NoPlane /\ o # NoPlane /\ Blends(o)
  <2> DEFINE over == [format |-> OverlayFormat(o), above |-> IsAbove(p, o)]
  <2>1. IsAbove(p, o) = TRUE
    BY <1>3, SelectedPlane, PlaneAbove
  <2>2. OverlayFormat(o) \in {"argb", "xrgb"}
    BY DEF OverlayFormat
  <2>3. over \in [format : {"argb", "xrgb"}, above : {TRUE}]
    BY <2>1, <2>2
  <2>4. AtomicPlan(c) = [kind |-> "atomic", overlay |-> over]
    BY <1>3 DEF AtomicPlan
  <2> HIDE DEF over
  <2>5. [kind |-> "atomic", overlay |-> over]
          \in [kind : {"atomic"},
               overlay : {NoPlane} \cup [format : {"argb", "xrgb"}, above : {TRUE}]]
    BY <2>3
  <2> QED
    BY <2>4, <2>5 DEF Plans
<1> QED
  BY <1>1, <1>2, <1>3

-----------------------------------------------------------------------------
(* A new pipeline *)

LEMMA ClaimedPipe ==
  ASSUME NEW c \in Card, NEW n \in {0, 1}, NEW required, NEW defer \in BOOLEAN, NEW failed,
         Claimed(c, n, required, defer, failed) # NoPipe
  PROVE  LET p == Claimed(c, n, required, defer, failed) IN
           /\ p \in Pipes /\ p.n = n /\ p.source = "none"
           /\ PairOf(p, p.owns) = Fresh
<1> DEFINE plan   == AtomicPlan(c)
           atomic == SetsMode(plan, defer, "atomic", failed)
           direct == Primed(failed) /\ (atomic \/ (~defer /\ "legacy" \notin failed))
           dumbAtomic == SetsMode(plan, defer, "dumb_atomic", failed)
           dumb == /\ ~direct /\ ~required /\ "dumb" \notin failed
                   /\ dumbAtomic \/ (~defer /\ "dumb_legacy" \notin failed)
           p == [kind |-> "pipe", n |-> n, gles |-> Gles(failed),
                 plan     |-> IF (direct /\ atomic) \/ (dumb /\ dumbAtomic) THEN plan ELSE NoPlan,
                 direct   |-> IF direct THEN Fresh ELSE NoPair,
                 dumb     |-> IF dumb THEN Fresh ELSE NoPair,
                 owns     |-> IF direct THEN "direct" ELSE "dumb",
                 modeset  |-> defer, source |-> "none"]
<1>1. (direct \/ dumb) /\ Claimed(c, n, required, defer, failed) = p
  BY DEF Claimed
<1>2. plan \in Plans /\ NoPlan \in Plans
  BY PlanTyped DEF Plans
<1>3. Gles(failed) \in BOOLEAN
  BY DEF Gles
<1>4. p \in Pipes
  <2> HIDE DEF plan, direct, dumb, atomic, dumbAtomic
  <2> QED
    BY <1>2, <1>3 DEF Pipes, Pairs, Sources
<1>5. PairOf(p, p.owns) = Fresh
  <2> HIDE DEF plan, direct, dumb, atomic, dumbAtomic
  <2> QED
    BY <1>1 DEF PairOf
<1> QED
  BY <1>1, <1>4, <1>5

LEMMA FlipCompletes ==
  ASSUME NEW p \in Pipes, p.source # "none", PairOf(p, p.source) # NoPair
  PROVE  LET q == Completed(p) IN
           /\ q \in Pipes /\ q.n = p.n /\ q.source = "none"
           /\ \A s \in Sources :
                IF s = p.source THEN /\ PairOf(q, s) # NoPair
                                     /\ PairOf(q, s).front = PairOf(p, s).back
                                ELSE PairOf(q, s) = PairOf(p, s)
<1>1. CASE p.source = "direct"
  <2>1. p["direct"] = p.direct
    OBVIOUS
  <2>2. Completed(p) = [p EXCEPT !["direct"] = [front |-> p.direct.back, back |-> p.direct.front], !.source = "none"]
    BY <1>1, <2>1 DEF Completed, PairOf
  <2> DEFINE x == [front |-> p.direct.back, back |-> p.direct.front]
             q == Completed(p)
  <2>3. p.direct \in Pairs /\ p.direct # NoPair
    BY <1>1 DEF PairOf, Pipes
  <2>4. x \in Pairs /\ x # NoPair /\ x.front = p.direct.back
    BY <2>3, PairFacts
  <2> HIDE DEF x
  <2>5. q \in Pipes /\ q.n = p.n /\ q.source = "none" /\ q.direct = x /\ q.dumb = p.dumb
    BY <2>2, <2>4 DEF Pipes, x
  <2> HIDE DEF q
  <2> QED
    BY <1>1, <2>4, <2>5 DEF PairOf, Sources, q
<1>2. CASE p.source = "dumb"
  <2>1. p["dumb"] = p.dumb
    OBVIOUS
  <2>2. Completed(p) = [p EXCEPT !["dumb"] = [front |-> p.dumb.back, back |-> p.dumb.front], !.source = "none"]
    BY <1>2, <2>1 DEF Completed, PairOf
  <2> DEFINE x == [front |-> p.dumb.back, back |-> p.dumb.front]
             q == Completed(p)
  <2>3. p.dumb \in Pairs /\ p.dumb # NoPair
    BY <1>2 DEF PairOf, Pipes
  <2>4. x \in Pairs /\ x # NoPair /\ x.front = p.dumb.back
    BY <2>3, PairFacts
  <2> HIDE DEF x
  <2>5. q \in Pipes /\ q.n = p.n /\ q.source = "none" /\ q.dumb = x /\ q.direct = p.direct
    BY <2>2, <2>4 DEF Pipes, x
  <2> HIDE DEF q
  <2> QED
    BY <1>2, <2>4, <2>5 DEF PairOf, Sources, q
<1> QED
  BY <1>1, <1>2 DEF Pipes, Sources

-----------------------------------------------------------------------------
(* A frame *)

\* What drawing a frame with the pipeline p does: it draws into back buffers
\* of pairs the pipeline has, or into those of a new pair.
DrawnWith(p, d) ==
  /\ d.p \in Pipes /\ d.p.n = p.n /\ d.p.plan = p.plan /\ d.p.source = "none"
  /\ d.source \in Sources /\ d.plane \in BOOLEAN /\ d.whole \in BOOLEAN
  /\ d.plane => OnPlane(p)
  /\ d.whole => PairOf(d.p, d.source) # NoPair
  /\ \A s \in Sources : PairOf(p, s) # NoPair => PairOf(d.p, s) \in {PairOf(p, s), NoPair}
  /\ PairOf(p, "dumb") # NoPair => PairOf(d.p, "dumb") # NoPair
  /\ \A f \in d.drew : \E s \in Sources, i \in {0, 1} :
       f = Fb(p, s, i) /\ (PairOf(p, s) # NoPair => i = PairOf(p, s).back)

LEMMA Rendering ==
  ASSUME NEW pipe \in Pipes, pipe.source = "none", NEW failed
  PROVE  DrawnWith(pipe, Rendered(pipe, failed))
<1> DEFINE p == [pipe EXCEPT !.direct = IF pipe.gles /\ @ = NoPair THEN Fresh ELSE @]
<1>1. /\ p \in Pipes /\ p.n = pipe.n /\ p.plan = pipe.plan /\ p.source = "none" /\ p.gles = pipe.gles
      /\ p.dumb = pipe.dumb /\ p.owns = pipe.owns
      /\ p.direct = IF pipe.gles /\ pipe.direct = NoPair THEN Fresh ELSE pipe.direct
  BY DEF Pipes, Pairs
<1>2. Rendered(pipe, failed) =
        CASE p.gles /\ "direct" \notin failed -> RenderedDirect(p)
          [] p.owns = "direct" /\ (~p.gles \/ "direct" \in failed) -> NotRendered(p)
          [] OTHER -> RenderedDumb(p, failed)
  BY DEF Rendered
<1> HIDE DEF p
<1>3. \A s, i : Fb(p, s, i) = Fb(pipe, s, i)
  BY <1>1 DEF Fb
<1>4. OnPlane(p) = OnPlane(pipe) /\ OnPlane(p) \in BOOLEAN
  BY <1>1 DEF OnPlane, PrefersPlane
<1>5. \A f \in DirectTarget(p) : \E i \in {0, 1} :
        f = Fb(pipe, "direct", i) /\ (PairOf(pipe, "direct") # NoPair => i = PairOf(pipe, "direct").back)
  <2>1. DirectTarget(p) \subseteq {Fb(pipe, "direct", p.direct.back)} /\ p.direct.back \in {0, 1}
    <3>1. DirectTarget(p) \subseteq {Back(p, "direct")} /\ Back(p, "direct") = Fb(p, "direct", p.direct.back)
      BY DEF DirectTarget, Back
    <3>2. p.direct \in Pairs
      BY <1>1 DEF Pipes
    <3> QED
      BY <1>3, <3>1, <3>2, PairFacts
  <2>2. PairOf(pipe, "direct") # NoPair => p.direct = PairOf(pipe, "direct")
    BY <1>1 DEF PairOf
  <2> QED
    BY <2>1, <2>2
<1>6. \A s \in Sources : PairOf(pipe, s) # NoPair => PairOf(p, s) = PairOf(pipe, s)
  BY <1>1 DEF PairOf, Sources
<1>7. ASSUME p.gles PROVE DrawnWith(pipe, RenderedDirect(p))
  <2>1. PairOf(p, "direct") # NoPair
    BY <1>1, <1>7, PairFacts DEF PairOf
  <2>2. PairOf(p, "dumb") = PairOf(pipe, "dumb")
    BY <1>1 DEF PairOf
  <2> QED
    BY <1>1, <1>4, <1>5, <1>6, <2>1, <2>2 DEF DrawnWith, RenderedDirect, Sources
<1>8. DrawnWith(pipe, NotRendered(p))
  <2>1. PairOf(p, "dumb") = PairOf(pipe, "dumb")
    BY <1>1 DEF PairOf
  <2> QED
    BY <1>1, <1>5, <1>6, <2>1 DEF DrawnWith, NotRendered, Sources
<1>9. DrawnWith(pipe, RenderedDumb(p, failed))
  <2> DEFINE pair == IF p.dumb = NoPair /\ "dumb" \notin failed THEN Fresh ELSE p.dumb
             kept == IF p.gles THEN NoPair ELSE p.direct
             q == [p EXCEPT !.direct = kept, !.dumb = pair]
             drew == q.dumb # NoPair /\ "map" \notin failed
             readback == ReadsBack(p, failed)
             whole == drew /\ (readback \/ ~content.dmabuf)
             r == [q EXCEPT !.gles = IF whole THEN readback ELSE @]
             d == RenderedDumb(p, failed)
  <2>1. d = [p |-> r, source |-> "dumb",
             drew |-> DirectTarget(p) \cup (IF drew THEN {Back(q, "dumb")} ELSE {}),
             whole |-> whole, plane |-> FALSE]
    BY DEF RenderedDumb
  <2>2. pair \in Pairs /\ kept \in Pairs /\ (pipe.dumb # NoPair => pair = pipe.dumb)
    BY <1>1 DEF Pipes, Pairs
  <2>3. readback \in BOOLEAN /\ whole \in BOOLEAN
    BY <1>1 DEF ReadsBack, Pipes
  <2>4. q.n = p.n /\ q.dumb = pair /\ q.direct = kept /\ (whole => pair # NoPair)
    BY <1>1, <2>2 DEF Pipes
  <2>5. r \in Pipes /\ r.n = p.n /\ r.plan = p.plan /\ r.source = "none" /\ r.dumb = pair /\ r.direct = kept
    <3> HIDE DEF pair, kept, readback, whole
    <3> QED
      BY <1>1, <2>2, <2>3 DEF Pipes
  <2>6. Back(q, "dumb") = Fb(pipe, "dumb", pair.back) /\ pair.back \in {0, 1}
    <3>1. Back(q, "dumb") = Fb(q, "dumb", q["dumb"].back)
      BY DEF Back
    <3>2. q["dumb"] = pair
      BY <1>1, <2>2 DEF Pipes
    <3>3. pair.back \in {0, 1}
      <4> HIDE DEF pair
      <4> QED
        BY <2>2, PairFacts
    <3> QED
      BY <1>1, <2>4, <3>1, <3>2, <3>3 DEF Fb
  <2>7. kept \in {pipe.direct, NoPair} \/ pipe.direct = NoPair
    BY <1>1
  <2>8. DirectTarget(p) \cup (IF drew THEN {Back(q, "dumb")} ELSE {})
          \subseteq DirectTarget(p) \cup {Fb(pipe, "dumb", pair.back)}
    BY <2>6
  <2> HIDE DEF pair, kept, q, drew, readback, whole, r, d
  <2>9. /\ d.p = r /\ d.source = "dumb" /\ d.whole = whole /\ d.plane = FALSE
        /\ d.drew \subseteq DirectTarget(p) \cup {Fb(pipe, "dumb", pair.back)}
    BY <2>1, <2>8
  <2>10. \A s \in Sources : PairOf(pipe, s) # NoPair => PairOf(r, s) \in {PairOf(pipe, s), NoPair}
    BY <2>2, <2>5, <2>7 DEF PairOf, Sources
  <2>11. /\ PairOf(pipe, "dumb") # NoPair => PairOf(r, "dumb") # NoPair
         /\ whole => PairOf(r, "dumb") # NoPair
    BY <2>2, <2>4, <2>5 DEF PairOf
  <2>12. \A f \in d.drew : \E s \in Sources, i \in {0, 1} :
           f = Fb(pipe, s, i) /\ (PairOf(pipe, s) # NoPair => i = PairOf(pipe, s).back)
    <3> TAKE f \in d.drew
    <3>1. CASE f \in DirectTarget(p)
      BY <1>5, <3>1 DEF Sources
    <3>2. CASE f = Fb(pipe, "dumb", pair.back)
      BY <2>2, <2>6, <3>2 DEF Sources, PairOf
    <3> QED
      BY <2>9, <3>1, <3>2
  <2>13. DrawnWith(pipe, d)
    BY <1>1, <2>3, <2>5, <2>9, <2>10, <2>11, <2>12 DEF DrawnWith, Sources
  <2> QED
    BY <2>13 DEF d
<1> QED
  BY <1>2, <1>7, <1>8, <1>9

LEMMA BackIs ==
  ASSUME NEW p \in Pipes, NEW s \in Sources
  PROVE  Back(p, s) = BackOf(p, s) /\ BackOf(p, s) \in Buffers /\ BackOf(p, s) # Gone
<1>1. p[s] = PairOf(p, s)
  BY DEF Sources, PairOf
<1>2. PairOf(p, s) \in Pairs
  BY DEF Pipes, PairOf
<1>3. PairOf(p, s).back \in {0, 1}
  BY <1>2, PairFacts
<1>4. Back(p, s) = BackOf(p, s)
  BY <1>1 DEF Back, BackOf
<1> QED
  BY <1>3, <1>4, Framebuffers DEF BackOf

\* A frame with the overlay on its plane shows it there, unturned and above.
LEMMA FrameShowsOnce ==
  ASSUME content \in Contents, NEW p \in Pipes, NEW d, DrawnWith(p, d)
  PROVE  Image(d) \in Images /\ Once(Image(d))
<1>1. Image(d) = [fb |-> Back(d.p, d.source), plane |-> PlaneShows(d.p, d.plane),
                  painted |-> OverlayDrawn /\ ~d.plane, wanted |-> OverlayDrawn]
  BY DEF Image
<1>2. Back(d.p, d.source) \in {Gone} \cup Buffers
  BY BackIs DEF DrawnWith
<1>3. OverlayDrawn \in BOOLEAN /\ d.plane \in BOOLEAN
  BY DEF OverlayDrawn, DrawnWith
<1>4. CASE d.plane
  <2>1. /\ OverlayDrawn /\ ~content.turned /\ ~content.scaled
        /\ p.plan # NoPlan /\ p.plan.overlay.format = "argb"
    BY <1>4 DEF DrawnWith, OnPlane, PrefersPlane
  <2>2. d.p.plan = p.plan /\ p.plan \in Plans
    BY DEF DrawnWith, Pipes
  <2>3. p.plan.overlay # NoPlane /\ p.plan.overlay.above = TRUE
    <3>1. p.plan.overlay \in {NoPlane} \cup [format : {"argb", "xrgb"}, above : {TRUE}]
      BY <2>1, <2>2 DEF Plans
    <3>2. NoPlane.format = "none"
      BY DEF NoPlane
    <3> QED
      BY <2>1, <3>1, <3>2
  <2>4. PlaneShows(d.p, d.plane) = "over"
    BY <1>4, <2>1, <2>2, <2>3 DEF PlaneShows, LaidOut
  <2>5. Image(d) = [fb |-> Back(d.p, d.source), plane |-> "over", painted |-> FALSE, wanted |-> TRUE]
    BY <1>1, <1>4, <2>1, <2>4
  <2> DEFINE b == Back(d.p, d.source)
  <2> HIDE DEF b
  <2>6. b \in {Gone} \cup Buffers /\ Image(d) = [fb |-> b, plane |-> "over", painted |-> FALSE, wanted |-> TRUE]
    BY <1>2, <2>5 DEF b
  <2>7. Image(d) \in Images
    BY <2>6 DEF Images
  <2>8. Image(d).plane = "over" /\ Image(d).painted = FALSE /\ Image(d).wanted = TRUE
    BY <2>6
  <2>9. "over" # "wrong"
    OBVIOUS
  <2> QED
    BY <2>7, <2>8, <2>9, Zenon DEF Once
<1>5. CASE ~d.plane
  <2>1. PlaneShows(d.p, d.plane) = "off"
    BY <1>5 DEF PlaneShows, LaidOut
  <2>2. \E shown \in BOOLEAN :
          Image(d) = [fb |-> Back(d.p, d.source), plane |-> "off", painted |-> shown, wanted |-> shown]
    BY <1>1, <1>3, <1>5, <2>1
  <2> QED
    BY <1>2, <2>2 DEF Images, Once
<1> QED
  BY <1>3, <1>4, <1>5

-----------------------------------------------------------------------------
(* Steps *)

LEMMA ScanoutStarts == ScanoutInit => ScanoutInv
<1> SUFFICES ASSUME ScanoutInit PROVE ScanoutInv
  OBVIOUS
<1>1. /\ host \in [card : Card, pipe : {NoPipe}, prior : {NoPipe}, owns : {"none"}]
      /\ screen = [shown |-> NoImage, queued |-> NoImage, event |-> FALSE, torn |-> FALSE]
      /\ content = [overlay |-> "none", turned |-> FALSE, scaled |-> FALSE, dmabuf |-> FALSE]
  BY DEF ScanoutInit
<1>2. content \in Contents
  BY <1>1 DEF Contents
<1>3. ScanoutTypes(host, screen)
  BY <1>1, NoPipeFacts DEF ScanoutTypes
<1> QED
  BY <1>1, <1>2, <1>3, NoPipeFacts
     DEF ScanoutInv, Sound, InStep, Flow, Waits, Pending, Owner, ShownOf

LEMMA FirstClaim ==
  ASSUME ScanoutInv, NEW failed, ClaimAtStartup(failed)
  PROVE  Sound(host', screen')
<1> DEFINE p == Claimed(host.card, 0, FALSE, FALSE, failed)
           shown == [NoImage EXCEPT !.fb = Fb(p, p.owns, 0)]
<1>1. /\ host.owns = "none" /\ p # NoPipe /\ host' = [host EXCEPT !.pipe = p, !.owns = p.owns]
      /\ screen' = [screen EXCEPT !.shown = shown]
  BY DEF ClaimAtStartup
<1>2. /\ ScanoutTypes(host, screen) /\ host.prior = NoPipe /\ screen.queued = NoImage /\ ~screen.event
  BY <1>1 DEF ScanoutInv, Sound, Flow, Owner, Pending
<1>3. host.card \in Card
  BY <1>2 DEF ScanoutTypes
<1>4. p \in Pipes /\ p.n = 0 /\ p.source = "none" /\ PairOf(p, p.owns) = Fresh /\ p.owns \in Sources
  <2>1. p \in Pipes /\ p.n = 0 /\ p.source = "none" /\ PairOf(p, p.owns) = Fresh
    BY <1>1, <1>3, ClaimedPipe, ZenonT(60)
  <2> QED
    BY <2>1 DEF Pipes
<1> HIDE DEF p
<1>5. Fb(p, p.owns, 0) \in Buffers /\ Fb(p, p.owns, 0) # Gone /\ Fb(p, p.owns, 0)[1] = 0
  BY <1>4, Framebuffers
<1>6. shown \in Images /\ shown.fb = Fb(p, p.owns, 0) /\ Once(shown)
  BY <1>5 DEF NoImage, Images, Once
<1> HIDE DEF shown
<1>7. /\ host'.pipe = p /\ host'.prior = NoPipe /\ host'.owns = p.owns
      /\ screen'.shown = shown /\ screen'.queued = NoImage /\ screen'.event = screen.event
  BY <1>1, <1>2 DEF ScanoutTypes
<1>8. ScanoutTypes(host', screen')
  BY <1>1, <1>2, <1>4, <1>6 DEF ScanoutTypes
<1>9. InStep(p, screen')
  <2>1. ASSUME NEW s \in Sources, NEW i \in {0, 1}, Fb(p, p.owns, 0) = Fb(p, s, i)
        PROVE  s = p.owns /\ i = 0
    BY <2>1, Framebuffers
  <2> QED
    BY <1>2, <1>4, <1>6, <1>7, <2>1, PairFacts DEF InStep
<1>10. Flow(host', screen') /\ InStep(NoPipe, screen') /\ ~Pending(p)
  BY <1>2, <1>4, <1>7 DEF Flow, Waits, Pending, InStep
<1>11. Owner(host', screen')
  <2>1. p # NoPipe /\ p.owns # "none"
    BY <1>4, NoPipeFacts DEF Sources
  <2>2. ShownOf(p, screen')
    BY <1>4, <1>5, <1>6, <1>7, <2>1 DEF ShownOf
  <2> QED
    BY <1>7, <2>1, <2>2 DEF Owner
<1> QED
  BY <1>6, <1>7, <1>8, <1>9, <1>10, <1>11, NoPipeFacts DEF Sound

\* A pipeline whose buffers and flip do not change stays in step as long as
\* the screen does.
LEMMA StaysInStep ==
  ASSUME NEW p, NEW s, NEW t, InStep(p, s), t.shown.fb = s.shown.fb, t.event = s.event \/ ~Pending(p),
         p \in {NoPipe} \cup Pipes
  PROVE  InStep(p, t)
BY DEF InStep, Pending, Pipes, Sources

LEMMA Reclaiming ==
  ASSUME ScanoutInv, NEW failed, Reclaim(failed)
  PROVE  Sound(host', screen')
<1> DEFINE flipped == Pending(host.prior) /\ screen.event
           prior == IF flipped THEN Completed(host.prior) ELSE host.prior
           n == IF prior = NoPipe THEN 0 ELSE 1 - prior.n
           p == IF Pending(prior) THEN NoPipe
                ELSE Claimed(host.card, n, host.owns = "direct", TRUE, failed)
<1>1. /\ host.owns # "none" /\ host.pipe = NoPipe
      /\ host' = [host EXCEPT !.prior = prior, !.pipe = p]
      /\ screen' = [screen EXCEPT !.event = FALSE]
  BY DEF Reclaim
<1>2. /\ ScanoutTypes(host, screen) /\ InStep(host.prior, screen) /\ Flow(host, screen)
      /\ Owner(host, screen) /\ Once(screen.shown) /\ Once(screen.queued)
  BY DEF ScanoutInv, Sound
<1>3. /\ host.prior \in {NoPipe} \cup Pipes /\ host.card \in Card /\ screen.event \in BOOLEAN
      /\ screen.shown \in Images
  BY <1>2 DEF ScanoutTypes
<1>4. /\ screen'.shown = screen.shown /\ screen'.queued = screen.queued /\ screen'.event = FALSE
      /\ screen' \in [shown : Images, queued : Images, event : BOOLEAN, torn : {FALSE}]
      /\ host'.prior = prior /\ host'.pipe = p /\ host'.owns = host.owns
  BY <1>1, <1>2 DEF ScanoutTypes
<1>5. /\ prior \in {NoPipe} \cup Pipes /\ InStep(prior, screen')
      /\ prior = NoPipe <=> host.prior = NoPipe
      /\ prior # NoPipe => prior.n = host.prior.n
      /\ Pending(prior) => prior = host.prior /\ ~screen.event
      /\ ~Pending(prior) /\ screen.queued # NoImage => FALSE
  <2>1. CASE flipped
    <3>1. host.prior \in Pipes /\ host.prior.source \in Sources /\ PairOf(host.prior, host.prior.source) # NoPair
      BY <1>2, <1>3, <2>1 DEF Pending, Pipes, InStep
    <3>2. /\ prior \in Pipes /\ prior.n = host.prior.n /\ prior.source = "none"
          /\ \A s \in Sources :
               IF s = host.prior.source THEN /\ PairOf(prior, s) # NoPair
                                             /\ PairOf(prior, s).front = PairOf(host.prior, s).back
                                        ELSE PairOf(prior, s) = PairOf(host.prior, s)
      <4>1. prior = Completed(host.prior) /\ host.prior.source # "none"
        BY <2>1, <3>1 DEF Sources
      <4> HIDE DEF prior
      <4> QED
        BY <3>1, <4>1, FlipCompletes
    <3> HIDE DEF prior
    <3>3. \A s, i : Fb(prior, s, i) = Fb(host.prior, s, i)
      BY <3>2 DEF Fb
    <3>4. InStep(prior, screen')
      <4>1. screen.event /\ host.prior # NoPipe
        BY <2>1, <3>1, NoPipeFacts
      <4>2. ASSUME NEW s \in Sources, NEW i \in {0, 1}, screen.shown.fb = Fb(host.prior, s, i)
            PROVE  PairOf(prior, s) # NoPair /\ i = PairOf(prior, s).front
        <5>1. /\ PairOf(host.prior, s) # NoPair
              /\ i = IF s = host.prior.source THEN PairOf(host.prior, s).back
                                              ELSE PairOf(host.prior, s).front
          BY <1>2, <4>1, <4>2 DEF InStep
        <5> QED
          BY <3>2, <5>1
      <4> QED
        BY <1>4, <3>2, <3>3, <4>2 DEF InStep
    <3>5. screen.queued = NoImage
      BY <1>2, <2>1 DEF Flow
    <3>6. prior # NoPipe /\ host.prior # NoPipe /\ ~Pending(prior)
      BY <3>1, <3>2, NoPipeFacts DEF Pending
    <3> QED
      BY <3>2, <3>4, <3>5, <3>6
  <2>2. CASE ~flipped
    <3>1. prior = host.prior
      BY <2>2
    <3>2. InStep(host.prior, screen')
      BY <1>2, <1>3, <1>4, <2>2, StaysInStep
    <3>3. ~Pending(host.prior) => screen.queued = NoImage
      BY <1>1, <1>2 DEF Flow, Pending
    <3> QED
      BY <1>3, <2>2, <3>1, <3>2, <3>3
  <2> QED
    BY <2>1, <2>2
<1> HIDE DEF flipped, prior
<1>6. n \in {0, 1} /\ (prior # NoPipe => n # prior.n)
  BY <1>5 DEF Pipes
<1>7. /\ p \in {NoPipe} \cup Pipes /\ (p # NoPipe => p.n = n /\ p.source = "none" /\ ~Pending(prior))
  <2>1. CASE Pending(prior)
    BY <2>1
  <2>2. CASE ~Pending(prior)
    <3> DEFINE required == host.owns = "direct"
               new == Claimed(host.card, n, required, TRUE, failed)
    <3>1. p = new
      BY <2>2
    <3> HIDE DEF n, p, required
    <3>2. new # NoPipe => new \in Pipes /\ new.n = n /\ new.source = "none"
      <4> DEFINE defer == TRUE
      <4>1. defer \in BOOLEAN /\ new = Claimed(host.card, n, required, defer, failed)
        OBVIOUS
      <4> HIDE DEF defer, new
      <4> QED
        BY <1>3, <1>6, <4>1, ClaimedPipe
    <3> QED
      BY <2>2, <3>1, <3>2
  <2> QED
    BY <2>1, <2>2
<1> HIDE DEF n, p
<1>8. screen.shown.fb # Gone => ShownOf(prior, screen) /\ (p # NoPipe => screen.shown.fb[1] # p.n)
  BY <1>1, <1>2, <1>5, <1>6, <1>7 DEF Owner, ShownOf
<1>9. ~ShownOf(p, screen) /\ (screen.shown.fb # Gone => ShownOf(prior, screen))
  BY <1>8 DEF ShownOf
<1>10. InStep(p, screen')
  <2>1. ASSUME NEW s, NEW i, screen.shown.fb = Fb(p, s, i), p # NoPipe, s \in Sources, i \in {0, 1}
        PROVE  FALSE
    BY <1>7, <1>8, <2>1, Framebuffers
  <2> QED
    BY <1>4, <1>7, <2>1 DEF InStep
<1>11. ScanoutTypes(host', screen')
  BY <1>1, <1>2, <1>4, <1>5, <1>7 DEF ScanoutTypes
<1>12. Owner(host', screen')
  BY <1>1, <1>4, <1>6, <1>7, <1>9 DEF Owner, ShownOf
<1>13. Flow(host', screen')
  <2>1. ~Pending(p)
    BY <1>7 DEF Pending
  <2>2. Waits(prior, screen')
    BY <1>2, <1>4, <1>5 DEF Flow, Waits
  <2> QED
    BY <1>4, <1>5, <1>7, <2>1, <2>2 DEF Flow, Waits
<1> QED
  BY <1>2, <1>4, <1>5, <1>10, <1>11, <1>12, <1>13 DEF Sound

LEMMA Losing ==
  ASSUME ScanoutInv, LosePipeline \/ DiscardReclaim
  PROVE  Sound(host', screen')
<1>1. /\ ScanoutTypes(host, screen) /\ InStep(host.pipe, screen) /\ InStep(host.prior, screen)
      /\ Flow(host, screen) /\ Owner(host, screen) /\ Once(screen.shown) /\ Once(screen.queued)
      /\ screen' = screen
  BY DEF ScanoutInv, Sound, LosePipeline, DiscardReclaim
<1>2. CASE LosePipeline
  <2>1. /\ host.pipe # NoPipe /\ host.prior = NoPipe
        /\ host' = [host EXCEPT !.pipe = NoPipe, !.prior = host.pipe]
    BY <1>2 DEF LosePipeline
  <2>2. /\ host'.pipe = NoPipe /\ host'.prior = host.pipe /\ host'.owns = host.owns
        /\ ScanoutTypes(host', screen)
    BY <1>1, <2>1 DEF ScanoutTypes
  <2>3. InStep(NoPipe, screen) /\ Flow(host', screen)
    BY <1>1, <2>1, <2>2 DEF InStep, Flow, Waits, Pending
  <2>4. Owner(host', screen)
    BY <1>1, <2>1, <2>2 DEF Owner, ShownOf
  <2> QED
    BY <1>1, <2>2, <2>3, <2>4 DEF Sound
<1>3. CASE DiscardReclaim
  <2>1. /\ host.prior # NoPipe /\ ~Pending(host.pipe)
        /\ host' = [host EXCEPT !.pipe = host.prior, !.prior = NoPipe]
    BY <1>3 DEF DiscardReclaim
  <2>2. /\ host'.pipe = host.prior /\ host'.prior = NoPipe /\ host'.owns = host.owns
        /\ ScanoutTypes(host', screen)
    BY <1>1, <2>1 DEF ScanoutTypes
  <2>3. InStep(NoPipe, screen) /\ Flow(host', screen)
    BY <1>1, <2>1, <2>2 DEF InStep, Flow, Waits, Pending
  <2>4. ~ShownOf(host.pipe, screen)
    \* A candidate that was shown was released of the retired pipeline.
    <3>1. CASE screen.event
      <4>1. Pending(host.prior) /\ host.pipe = NoPipe
        BY <1>1, <2>1, <3>1 DEF Flow
      <4> QED
        BY <4>1 DEF ShownOf
    <3> QED
      BY <1>1, <2>1, <3>1 DEF Owner
  <2>5. Owner(host', screen)
    BY <1>1, <2>1, <2>2, <2>4 DEF Owner, ShownOf
  <2> QED
    BY <1>1, <2>2, <2>3, <2>5 DEF Sound
<1> QED
  BY <1>2, <1>3

LEMMA Closing ==
  ASSUME ScanoutInv, CloseDevice
  PROVE  Sound(host', screen')
<1>1. /\ ScanoutTypes(host, screen) /\ host.owns # "none"
      /\ host' = [host EXCEPT !.pipe = NoPipe, !.prior = NoPipe]
      /\ screen' = [shown |-> NoImage, queued |-> NoImage, event |-> FALSE, torn |-> screen.torn]
  BY DEF ScanoutInv, Sound, CloseDevice
<1>2. /\ host'.pipe = NoPipe /\ host'.prior = NoPipe
      /\ screen'.shown = NoImage /\ screen'.queued = NoImage /\ screen'.event = FALSE
  BY <1>1 DEF ScanoutTypes
<1>3. ScanoutTypes(host', screen')
  BY <1>1, NoPipeFacts DEF ScanoutTypes
<1> QED
  BY <1>2, <1>3, NoPipeFacts DEF Sound, InStep, Flow, Waits, Pending, Owner, ShownOf

LEMMA Latching ==
  ASSUME ScanoutInv, Latch
  PROVE  Sound(host', screen')
<1>1. /\ ScanoutTypes(host, screen) /\ InStep(host.pipe, screen) /\ InStep(host.prior, screen)
      /\ Flow(host, screen) /\ Owner(host, screen) /\ Once(screen.shown) /\ Once(screen.queued)
      /\ screen.queued # NoImage /\ ~screen.event /\ host' = host
      /\ screen' = [screen EXCEPT !.shown = screen.queued, !.queued = NoImage, !.event = TRUE]
  BY DEF ScanoutInv, Sound, Latch
<1>2. /\ screen'.shown = screen.queued /\ screen'.queued = NoImage /\ screen'.event = TRUE
      /\ ScanoutTypes(host, screen')
  BY <1>1, NoPipeFacts DEF ScanoutTypes
<1>3. PICK p \in {host.pipe, host.prior} : Pending(p)
  BY <1>1 DEF Flow
<1>4. /\ p \in Pipes /\ p.source \in Sources /\ PairOf(p, p.source) # NoPair
      /\ screen.queued.fb = BackOf(p, p.source)
      /\ \A q \in {host.pipe, host.prior} : Pending(q) => q = p
  <2>1. p \in Pipes /\ p.source \in Sources
    BY <1>1, <1>3 DEF ScanoutTypes, Pending, Pipes
  <2>2. PairOf(p, p.source) # NoPair
    BY <1>1, <1>3 DEF InStep, Pending
  <2>3. screen.queued.fb = BackOf(p, p.source)
    BY <1>1, <1>3 DEF Flow, Waits
  <2>4. \A q \in {host.pipe, host.prior} : Pending(q) => q = p
    BY <1>1, <1>3 DEF Flow, Pending
  <2> QED
    BY <2>1, <2>2, <2>3, <2>4
<1>5. BackOf(p, p.source) # Gone /\ BackOf(p, p.source)[1] = p.n
      /\ p # NoPipe
  BY <1>4, BackIs, Framebuffers, NoPipeFacts DEF BackOf
<1>6. ASSUME NEW q \in {host.pipe, host.prior} PROVE InStep(q, screen') /\ Waits(q, screen')
  <2>1. CASE q = NoPipe
    BY <2>1 DEF InStep, Waits, Pending
  <2>2. CASE q = p
    <3>1. ASSUME NEW s, NEW i, BackOf(p, p.source) = Fb(p, s, i)
          PROVE  s = p.source /\ i = PairOf(p, s).back
      BY <3>1, Framebuffers DEF BackOf
    <3> QED
      BY <1>2, <1>4, <2>2, <3>1 DEF InStep, Waits
  <2>3. CASE q # NoPipe /\ q # p
    <3>1. q.n # p.n /\ ~Pending(q) /\ q.source = "none"
      BY <1>1, <1>3, <1>4, <1>5, <2>3 DEF Owner, Pending
    <3>2. ASSUME NEW s, NEW i, BackOf(p, p.source) = Fb(q, s, i) PROVE FALSE
      BY <3>1, <3>2, Framebuffers DEF BackOf
    <3> QED
      BY <1>2, <1>4, <3>1, <3>2 DEF InStep, Waits
  <2> QED
    BY <2>1, <2>2, <2>3
<1>7. Flow(host, screen')
  BY <1>1, <1>2, <1>3, <1>6 DEF Flow
<1>8. Owner(host, screen')
  BY <1>1, <1>2, <1>3, <1>4, <1>5 DEF Owner, ShownOf
<1> QED
  BY <1>1, <1>2, <1>6, <1>7, <1>8, NoPipeFacts DEF Sound

LEMMA Flipping ==
  ASSUME ScanoutInv, FlipHandled
  PROVE  Sound(host', screen')
<1> DEFINE p == host.pipe
           q == Completed(p)
<1>1. /\ ScanoutTypes(host, screen) /\ InStep(host.pipe, screen) /\ InStep(host.prior, screen)
      /\ Flow(host, screen) /\ Owner(host, screen) /\ Once(screen.shown) /\ Once(screen.queued)
      /\ p # NoPipe /\ screen.event
      /\ screen' = [screen EXCEPT !.event = FALSE]
  BY DEF ScanoutInv, Sound, FlipHandled
<1>2. Pending(p) /\ screen.queued = NoImage
  BY <1>1 DEF Flow
<1>3. host' = [host EXCEPT !.pipe = q, !.prior = NoPipe]
  BY <1>2 DEF FlipHandled
<1>4. /\ p \in Pipes /\ p.source \in Sources /\ p.source # "none" /\ PairOf(p, p.source) # NoPair
      /\ screen.shown.fb = BackOf(p, p.source)
  BY <1>1, <1>2 DEF ScanoutTypes, Pending, Pipes, InStep, Flow, Waits
<1>5. /\ q \in Pipes /\ q.n = p.n /\ q.source = "none"
      /\ \A s \in Sources :
           IF s = p.source THEN PairOf(q, s) # NoPair /\ PairOf(q, s).front = PairOf(p, s).back
                           ELSE PairOf(q, s) = PairOf(p, s)
  <2> HIDE DEF p
  <2> QED
    BY <1>4, FlipCompletes
<1> HIDE DEF q
<1>6. /\ host'.pipe = q /\ host'.prior = NoPipe /\ host'.owns = host.owns
      /\ screen'.shown = screen.shown /\ screen'.queued = NoImage /\ screen'.event = FALSE
      /\ ScanoutTypes(host', screen')
  BY <1>1, <1>2, <1>3, <1>5 DEF ScanoutTypes
<1>7. /\ BackOf(p, p.source) # Gone /\ BackOf(p, p.source)[1] = q.n /\ q # NoPipe
  BY <1>4, <1>5, BackIs, Framebuffers, NoPipeFacts DEF BackOf
<1>8. InStep(q, screen')
  <2>1. ASSUME NEW s, NEW i, BackOf(p, p.source) = Fb(q, s, i)
        PROVE  s = p.source /\ i = PairOf(p, s).back
    BY <1>5, <2>1, Framebuffers DEF BackOf
  <2> HIDE DEF p
  <2> QED
    BY <1>4, <1>5, <1>6, <2>1 DEF InStep
<1>9. InStep(NoPipe, screen') /\ Flow(host', screen')
  BY <1>5, <1>6 DEF InStep, Flow, Waits, Pending
<1>10. Owner(host', screen')
  BY <1>1, <1>4, <1>6, <1>7 DEF Owner, ShownOf
<1> QED
  BY <1>1, <1>6, <1>8, <1>9, <1>10, NoPipeFacts DEF Sound

\* A frame is drawn while nothing is queued: it spares the front buffers, and
\* the back buffer it is queued from stays the one of its pipeline.
LEMMA Presenting ==
  ASSUME ScanoutInv, NEW failed, PresentFrame(failed)
  PROVE  Sound(host', screen')
<1> DEFINE p == host.pipe
           d == Rendered(p, failed)
           queues == d.whole /\ {"capture", "commit"} \cap failed = {}
           q == IF queues THEN [d.p EXCEPT !.source = d.source, !.modeset = FALSE] ELSE d.p
           shown == Dropped(screen.shown, d.p)
           queued == IF queues THEN Image(d) ELSE screen.queued
           tears == d.drew \cap {screen.shown.fb, screen.queued.fb} # {}
<1>1. /\ ScanoutTypes(host, screen) /\ InStep(p, screen) /\ InStep(host.prior, screen)
      /\ Flow(host, screen) /\ Owner(host, screen) /\ Once(screen.shown) /\ Once(screen.queued)
      /\ content \in Contents /\ p # NoPipe /\ ~Pending(p)
  BY DEF ScanoutInv, Sound, PresentFrame
<1>2. /\ host' = [host EXCEPT !.pipe = q]
      /\ screen' = [screen EXCEPT !.shown = shown, !.queued = queued, !.torn = @ \/ tears]
  BY DEF PresentFrame
<1>3. screen.queued = NoImage /\ ~screen.event /\ ~Pending(host.prior)
  BY <1>1 DEF Flow
<1>4. p \in Pipes /\ p.source = "none" /\ screen.shown \in Images
  BY <1>1 DEF ScanoutTypes, Pending
<1>5. DrawnWith(p, d)
  BY <1>4, Rendering
<1>6. Image(d) \in Images /\ Once(Image(d)) /\ Image(d).fb = Back(d.p, d.source)
  <2>1. Image(d) \in Images /\ Once(Image(d))
    <3> HIDE DEF p, d
    <3> QED
      BY <1>1, <1>4, <1>5, FrameShowsOnce
  <2> QED
    BY <2>1 DEF Image
<1> HIDE DEF d, p
<1>7. /\ d.p \in Pipes /\ d.p.n = p.n /\ d.p.source = "none" /\ d.source \in Sources
      /\ d.whole => PairOf(d.p, d.source) # NoPair
      /\ \A s, i : Fb(d.p, s, i) = Fb(p, s, i)
  BY <1>5 DEF DrawnWith, Fb
<1>8. /\ q \in Pipes /\ q.n = p.n
      /\ q.source = IF queues THEN d.source ELSE "none"
      /\ \A s : PairOf(q, s) = PairOf(d.p, s)
      /\ \A s, i : Fb(q, s, i) = Fb(p, s, i)
  <2>1. /\ q \in Pipes /\ q.n = p.n /\ q.direct = d.p.direct /\ q.dumb = d.p.dumb
        /\ q.source = IF queues THEN d.source ELSE "none"
    <3> HIDE DEF queues
    <3> QED
      BY <1>7 DEF Pipes, Sources
  <2> QED
    BY <2>1 DEF PairOf, Fb
<1>9. queues => PairOf(q, q.source) # NoPair /\ Image(d).fb = BackOf(q, q.source)
  <2>1. queues => PairOf(d.p, d.source) # NoPair /\ q.source = d.source
    BY <1>7, <1>8
  <2>2. Back(d.p, d.source) = BackOf(q, d.source)
    BY <1>7, <1>8, BackIs DEF BackOf
  <2> QED
    BY <1>6, <1>8, <2>1, <2>2
<1>10. ~tears
  <2> SUFFICES ASSUME NEW f \in d.drew, f \in {screen.shown.fb, screen.queued.fb} PROVE FALSE
    OBVIOUS
  <2>1. PICK s \in Sources, i \in {0, 1} :
          f = Fb(p, s, i) /\ (PairOf(p, s) # NoPair => i = PairOf(p, s).back)
    BY <1>5 DEF DrawnWith
  <2>2. f # Gone
    BY <1>4, <2>1, Framebuffers
  <2>3. screen.shown.fb = Fb(p, s, i)
    BY <1>3, <2>1, <2>2, NoPipeFacts
  <2>4. PairOf(p, s) # NoPair /\ i = PairOf(p, s).front /\ i = PairOf(p, s).back
    BY <1>1, <1>3, <2>1, <2>3 DEF InStep
  <2>5. PairOf(p, s) \in Pairs
    BY <1>4 DEF Pipes, PairOf
  <2> QED
    BY <2>4, <2>5, PairFacts
<1>11. /\ shown \in Images /\ Once(shown)
       /\ shown.fb = Gone \/ shown.fb = screen.shown.fb
       /\ \A i \in {0, 1} : shown.fb = Fb(p, "direct", i) => PairOf(q, "direct") # NoPair
  <2> DEFINE gone == screen.shown.fb \in {Fb(d.p, "direct", 0), Fb(d.p, "direct", 1)} /\ d.p.direct = NoPair
  <2>1. shown = IF gone THEN [screen.shown EXCEPT !.fb = Gone] ELSE screen.shown
    BY DEF Dropped
  <2>2. shown.fb = (IF gone THEN Gone ELSE screen.shown.fb) /\ shown \in Images
        /\ shown.plane = screen.shown.plane /\ shown.painted = screen.shown.painted
        /\ shown.wanted = screen.shown.wanted
    <3> HIDE DEF gone, shown
    <3> QED
      BY <1>4, <2>1 DEF Images
  <2>3. Once(shown)
    BY <1>1, <2>2 DEF Once
  <2>4. ASSUME NEW i \in {0, 1}, shown.fb = Fb(p, "direct", i), PairOf(q, "direct") = NoPair PROVE FALSE
    <3>1. d.p.direct = NoPair
      BY <1>8, <2>4 DEF PairOf
    <3>2. Fb(p, "direct", i) # Gone
      BY <1>4, Framebuffers DEF Sources
    <3>3. screen.shown.fb = Fb(d.p, "direct", i)
      BY <1>7, <2>2, <2>4, <3>2
    <3> QED
      BY <2>2, <2>4, <3>1, <3>2, <3>3
  <2> QED
    BY <2>2, <2>3, <2>4
<1> HIDE DEF shown, q
<1>12. /\ host'.pipe = q /\ host'.prior = host.prior /\ host'.owns = host.owns
       /\ screen'.shown = shown /\ screen'.queued = queued /\ screen'.event = FALSE
       /\ queued \in Images /\ Once(queued)
       /\ ScanoutTypes(host', screen')
  <2>1. queued \in Images /\ Once(queued)
    BY <1>1, <1>6 DEF ScanoutTypes
  <2> HIDE DEF queued, tears
  <2> QED
    BY <1>1, <1>2, <1>3, <1>8, <1>10, <1>11, <2>1 DEF ScanoutTypes
<1>13. InStep(q, screen')
  <2>1. q.source # "none" => PairOf(q, q.source) # NoPair
    BY <1>8, <1>9
  <2>2. ASSUME NEW s \in Sources, NEW i \in {0, 1}, shown.fb = Fb(q, s, i)
        PROVE  PairOf(q, s) # NoPair /\ i = PairOf(q, s).front
    <3>1. Fb(p, s, i) # Gone /\ shown.fb = Fb(p, s, i) /\ screen.shown.fb = Fb(p, s, i)
      BY <1>4, <1>8, <1>11, <2>2, Framebuffers
    <3>2. PairOf(p, s) # NoPair /\ i = PairOf(p, s).front
      BY <1>1, <1>3, <3>1 DEF InStep
    <3>3. PairOf(q, s) \in {PairOf(p, s), NoPair}
      BY <1>5, <1>8, <3>2 DEF DrawnWith
    <3>4. PairOf(q, s) # NoPair
      BY <1>5, <1>8, <1>11, <3>1, <3>2 DEF DrawnWith, Sources
    <3> QED
      BY <3>2, <3>3, <3>4
  <2> QED
    BY <1>12, <2>1, <2>2 DEF InStep
<1>14. InStep(host.prior, screen')
  <2>1. \A s \in Sources, i \in {0, 1} : host.prior # NoPipe /\ shown.fb = Fb(host.prior, s, i) =>
          screen.shown.fb = Fb(host.prior, s, i)
    <3>1. host.prior # NoPipe => host.prior \in Pipes
      BY <1>1 DEF ScanoutTypes
    <3> QED
      BY <1>11, <3>1, Framebuffers
  <2> QED
    BY <1>1, <1>3, <1>12, <2>1 DEF InStep
<1>15. Flow(host', screen')
  <2>1. ~queues => queued = NoImage
    BY <1>3
  <2>2. queues => Pending(q) /\ queued = Image(d)
    BY <1>7, <1>8, NoPipeFacts DEF Pending, Sources
  <2>3. Waits(q, screen')
    BY <1>9, <1>8, <1>12, <2>1, <2>2 DEF Waits, Pending
  <2> HIDE DEF queues, queued
  <2> QED
    BY <1>3, <1>12, <2>1, <2>2, <2>3 DEF Flow, Waits
<1>16. Owner(host', screen')
  <2>1. ShownOf(q, screen') => ShownOf(p, screen)
    BY <1>1, <1>8, <1>11, <1>12 DEF ShownOf
  <2>2. screen'.shown.fb # Gone => \/ ShownOf(q, screen') \/ ShownOf(host.prior, screen')
    BY <1>1, <1>4, <1>8, <1>11, <1>12, NoPipeFacts DEF Owner, ShownOf, p
  <2>3. q # NoPipe
    BY <1>8, NoPipeFacts
  <2> QED
    BY <1>1, <1>3, <1>8, <1>12, <2>1, <2>2, <2>3 DEF Owner, p
<1> QED
  BY <1>11, <1>12, <1>13, <1>14, <1>15, <1>16 DEF Sound

LEMMA ScanoutStep == ScanoutInv /\ [Next]_vars => ScanoutInv'
<1> SUFFICES ASSUME ScanoutInv, [Next]_vars PROVE ScanoutInv'
  OBVIOUS
<1>1. CASE UNCHANGED <<host, screen, content>>
  BY <1>1 DEF ScanoutInv
<1>2. ASSUME ScanoutNext PROVE ScanoutInv'
  <2>1. CASE \E s \in Contents : SceneChanges(s)
    BY <2>1 DEF SceneChanges, ScanoutInv
  <2>2. CASE ~\E s \in Contents : SceneChanges(s)
    <3>1. Sound(host', screen')
      BY <1>2, <2>2, FirstClaim, Reclaiming, Losing, Closing, Presenting, Latching, Flipping, SMTT(60) DEF ScanoutNext
    <3>2. content' = content
      BY <1>2, <2>2 DEF ScanoutNext, ClaimAtStartup, Reclaim, PresentFrame, LosePipeline, DiscardReclaim,
                        CloseDevice, Latch, FlipHandled
    <3> QED
      BY <3>1, <3>2 DEF ScanoutInv
  <2> QED
    BY <2>1, <2>2
<1> QED
  BY <1>1, <1>2 DEF Next, Measure, Scene, Session, Scanout, vars

-----------------------------------------------------------------------------
(* What follows for every behaviour *)

\* The inductive invariant of the buffers: the screen shows the front buffer
\* of a pipeline the runtime has, and one pipeline waits for a flip.
THEOREM ScanoutInvHolds == Spec => []ScanoutInv
<1>1. Init => ScanoutInv
  BY ScanoutStarts DEF Init
<1> QED
  BY <1>1, ScanoutStep, PTL DEF Spec

\* Nothing is drawn into a buffer that is on screen or about to be, with any
\* device, whatever fails, is lost, taken back or given up on the way
\* (queue_claimed_presentation_tick, complete_pipeline_flip).
THEOREM PaintsOffScreenSafe == Spec => []PaintsOffScreen
<1>1. ScanoutInv => PaintsOffScreen
  BY DEF ScanoutInv, Sound, ScanoutTypes, PaintsOffScreen
<1> QED
  BY <1>1, ScanoutInvHolds, PTL

\* The overlay window is to be seen exactly once in every frame, on any device
\* whose planes CardAssumption describes (build_atomic_claim_plan,
\* prefer_overlay_plane_split, overlay_plane_layout_for_frame).
THEOREM OverlayShownOnceSafe == Spec => []OverlayShownOnce
<1>1. ScanoutInv => OverlayShownOnce
  BY DEF ScanoutInv, Sound, Once, OverlayShownOnce
<1> QED
  BY <1>1, ScanoutInvHolds, PTL

=============================================================================
