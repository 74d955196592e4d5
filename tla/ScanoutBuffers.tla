---------------------------- MODULE ScanoutBuffers ----------------------------
(***************************************************************************)
(* How the host runtime takes over an output and what it shows there       *)
(* (src/src/runtime.rs): the choice of encoder, CRTC and planes, the two   *)
(* pairs of buffers a pipeline flips between (rendered by GLES straight    *)
(* into scanout memory, or copied into dumb buffers), the fall from one to *)
(* the other, and the overlay window, which is either painted with the     *)
(* rest or put on a hardware plane of its own.  A new pipeline takes over  *)
(* from a retired one with its first flip.  When an output is lost and     *)
(* found is in HostOutput.  The screen is what the kernel scans out.       *)
(***************************************************************************)
EXTENDS Naturals, FiniteSets, FiniteSetsExt

CONSTANTS
  Card,      \* descriptions of a device and its one connected output
  MaxFailed  \* bound: steps that fail within one claim or one frame

NoZpos  == [lo |-> 1, hi |-> 0]
NoPlane == [format |-> "none"]
NoPlan  == [kind |-> "none"]
NoPair  == [front |-> 0, back |-> 0]
NoPipe  == [kind |-> "none"]
Gone    == <<>>                          \* no framebuffer
NoImage == [fb |-> Gone, painted |-> FALSE, plane |-> "off", wanted |-> FALSE]

\* An encoder is [id, current, possible, driving], a plane is
\* [id, type, crtcs, formats, props, blend, zpos]: `props` the properties it
\* has, `blend` the pixel blend modes it offers, `zpos` its settable range.  Where both planes of a CRTC have a range, the
\* overlay can be put above; where not, the driver's order is taken for granted.
ASSUME CardAssumption ==
  /\ MaxFailed \in Nat
  /\ \A c \in Card :
       /\ \E e \in c.encoders : e.possible # {}
       /\ \A p \in c.planes :
            /\ {p.id, p.zpos.lo, p.zpos.hi} \subseteq Nat
            /\ p.zpos = NoZpos \/ p.zpos.lo <= p.zpos.hi
       /\ \A p, o \in c.planes :
            (p.type = "primary" /\ o.type = "overlay" /\ p.zpos # NoZpos /\ o.zpos # NoZpos)
              => p.zpos.lo < o.zpos.hi

VARIABLES
  host,    \* the runtime: its device, the pipeline in use, the retired one
  screen,  \* what is shown, the queued frame, an unread flip event
  content    \* what the compositor has to show

Contents == [overlay : {"none", "empty", "drawn"}, turned : BOOLEAN, scaled : BOOLEAN,
             dmabuf : BOOLEAN]

ClaimSteps   == {"gles", "prime", "atomic", "legacy", "dumb", "dumb_atomic", "dumb_legacy"}
PresentSteps == {"direct", "dumb", "map", "readback", "capture", "commit"}
Failures(steps) == UNION {kSubset(k, steps) : k \in 0..MaxFailed}

-----------------------------------------------------------------------------
(* build_output_claim_plans and build_atomic_claim_plan *)

\* The current encoder first, then by id; the first that can drive a CRTC
Encoder(c) ==
  LET able == {e \in c.encoders : e.possible # {}}
  IN CHOOSE e \in able : \A f \in able \ {e} : e.current \/ (~f.current /\ e.id < f.id)

\* The CRTC the encoder drives already, else the first it can
Crtc(c) == LET e == Encoder(c)
           IN IF e.driving \in e.possible THEN e.driving ELSE Min(e.possible)

\* plane_property_handles: the properties every commit writes
WrittenProps == {"CRTC_ID", "FB_ID", "SRC_X", "SRC_Y", "SRC_W", "SRC_H",
                 "CRTC_X", "CRTC_Y", "CRTC_W", "CRTC_H"}
Writable(plane) == WrittenProps \subseteq plane.props

\* configure_atomic_plane_composition_controls of an overlay plane
Blends(plane) == plane.blend \cap {"premultiplied", "coverage"} # {}

\* select_atomic_plane; a plane without properties to write does not count
SelectPlane(c, type) ==
  LET fit == {p \in c.planes : Crtc(c) \in p.crtcs /\ p.formats # {} /\ p.type = type}
      first == CHOOSE p \in fit : \A q \in fit : p.id <= q.id
  IN IF fit = {} \/ ~Writable(first) THEN NoPlane ELSE first

\* OVERLAY_SCANOUT_FORMAT_PREFERENCE
OverlayFormat(plane) == IF "argb" \in plane.formats THEN "argb" ELSE "xrgb"

\* select_atomic_plane_zpos_values
Zpos(primary, overlay) == <<primary.lo, Max({overlay.lo, primary.lo + 1})>>

IsAbove(p, o) ==
  IF p.zpos = NoZpos \/ o.zpos = NoZpos THEN TRUE
  ELSE LET z == Zpos(p.zpos, o.zpos) IN z[1] < z[2] /\ z[2] <= o.zpos.hi

\* build_atomic_claim_plan: an overlay plane only with alpha-safe blending
AtomicPlan(c) ==
  LET p == SelectPlane(c, "primary")
      o == SelectPlane(c, "overlay")
  IN IF ~c.atomic \/ p = NoPlane THEN NoPlan
     ELSE [kind |-> "atomic",
           overlay |-> IF o = NoPlane \/ ~Blends(o) THEN NoPlane
                       ELSE [format |-> OverlayFormat(o), above |-> IsAbove(p, o)]]

-----------------------------------------------------------------------------
(* claim_output_on_device *)

Fresh == [front |-> 0, back |-> 1]

\* build_host_gles_renderer_state, prime_direct_startup_frame and
\* claim_output_with_atomic_modeset, which a deferred claim leaves to the
\* first frame
Gles(failed)   == "gles" \notin failed
Primed(failed) == Gles(failed) /\ "prime" \notin failed
SetsMode(plan, defer, step, failed) == plan # NoPlan /\ (defer \/ step \notin failed)

\* The claim of `c` with the steps of `failed` failing; NoPipe if it fails
Claimed(c, n, required, defer, failed) ==
  LET plan   == AtomicPlan(c)
      atomic == SetsMode(plan, defer, "atomic", failed)
      direct == Primed(failed) /\ (atomic \/ (~defer /\ "legacy" \notin failed))
      dumbAtomic == SetsMode(plan, defer, "dumb_atomic", failed)
      dumb == /\ ~direct /\ ~required /\ "dumb" \notin failed
              /\ dumbAtomic \/ (~defer /\ "dumb_legacy" \notin failed)
  IN IF ~direct /\ ~dumb THEN NoPipe
     ELSE [kind |-> "pipe", n |-> n, gles |-> Gles(failed),
           plan     |-> IF (direct /\ atomic) \/ (dumb /\ dumbAtomic) THEN plan ELSE NoPlan,
           direct   |-> IF direct THEN Fresh ELSE NoPair,
           dumb     |-> IF dumb THEN Fresh ELSE NoPair,
           owns     |-> IF direct THEN "direct" ELSE "dumb",
           modeset  |-> defer, source |-> "none"]

Fb(p, source, i) == <<p.n, source, i>>
Back(p, source)  == Fb(p, source, p[source].back)
Pending(p) == p # NoPipe /\ p.source # "none"

\* The first claim sets the mode at once; whether it was direct binds every later one
ClaimAtStartup(failed) ==
  /\ host.owns = "none"
  /\ LET p == Claimed(host.card, 0, FALSE, FALSE, failed)
     IN /\ p # NoPipe
        /\ host' = [host EXCEPT !.pipe = p, !.owns = p.owns]
        /\ screen' = [screen EXCEPT !.shown = [NoImage EXCEPT !.fb = Fb(p, p.owns, 0)]]
  /\ UNCHANGED content

\* Mutant of Completed: a frame put on screen swaps only the direct buffers
CompletedDirectOnly(p) ==
  IF p.source = "direct" /\ p.direct # NoPair
    THEN [p EXCEPT !.direct = [front |-> @.back, back |-> @.front], !.source = "none"]
    ELSE [p EXCEPT !.source = "none"]

\* complete_pipeline_flip
Completed(p) ==
  LET pair == p[p.source]
  IN IF pair = NoPair THEN [p EXCEPT !.source = "none"]
     ELSE [p EXCEPT ![p.source] = [front |-> pair.back, back |-> pair.front], !.source = "none"]

\* drain_retired_pipeline_before_reclaim, then a claim whose mode is set by
\* the first frame
Reclaim(failed) ==
  /\ host.owns # "none" /\ host.pipe = NoPipe
  /\ LET prior == IF Pending(host.prior) /\ screen.event THEN Completed(host.prior)
                                                         ELSE host.prior
         n == IF prior = NoPipe THEN 0 ELSE 1 - prior.n
     IN host' = [host EXCEPT !.prior = prior,
          !.pipe = IF Pending(prior) THEN NoPipe
                   ELSE Claimed(host.card, n, host.owns = "direct", TRUE, failed)]
  /\ screen' = [screen EXCEPT !.event = FALSE]
  /\ UNCHANGED content

\* mark_claim_lost: a candidate is kept while an older claim waits
LosePipeline ==
  /\ host.pipe # NoPipe /\ host.prior = NoPipe
  /\ host' = [host EXCEPT !.pipe = NoPipe, !.prior = host.pipe]
  /\ UNCHANGED <<screen, content>>

\* discard_unactivated_reclaim
DiscardReclaim ==
  /\ host.prior # NoPipe /\ ~Pending(host.pipe)
  /\ host' = [host EXCEPT !.pipe = host.prior, !.prior = NoPipe]
  /\ UNCHANGED <<screen, content>>

\* close_device and opening it again: the kernel drops all framebuffers
CloseDevice ==
  /\ host.owns # "none"
  /\ host' = [host EXCEPT !.pipe = NoPipe, !.prior = NoPipe]
  /\ screen' = [shown |-> NoImage, queued |-> NoImage, event |-> FALSE, torn |-> screen.torn]
  /\ UNCHANGED content

-----------------------------------------------------------------------------
(* queue_claimed_presentation_tick *)

\* Mutant of PrefersPlane: a scaled scene is split too
PrefersPlaneScaled(p) ==
  /\ ~content.turned
  /\ p.plan # NoPlan /\ p.plan.overlay.format = "argb"

\* prefer_overlay_plane_split
PrefersPlane(p) ==
  /\ ~content.turned /\ ~content.scaled
  /\ p.plan # NoPlan /\ p.plan.overlay.format = "argb"

\* The overlay window has something to draw
OverlayDrawn == content.overlay = "drawn"

\* render_overlay_plane_framebuffer gives a framebuffer
OnPlane(p) == PrefersPlane(p) /\ OverlayDrawn

\* overlay_plane_layout_for_frame
LaidOut(p, given) == given /\ p.plan # NoPlan /\ ~content.turned

\* What the overlay plane shows: the overlay window over the rest, or not that
PlaneShows(p, given) ==
  IF ~LaidOut(p, given) THEN "off"
  ELSE IF ~content.scaled /\ p.plan.overlay # NoPlane
            /\ p.plan.overlay.format = "argb" /\ p.plan.overlay.above
       THEN "over" ELSE "wrong"

\* The pipeline that holds the frame drawn, what it was drawn from, and all
\* framebuffers that were drawn into; it is not whole if a step failed on the way
DirectTarget(p) == IF p.gles THEN {Back(p, "direct")} ELSE {}

RenderedDirect(p) ==
  [p |-> p, source |-> "direct", drew |-> DirectTarget(p), whole |-> TRUE, plane |-> OnPlane(p)]

\* render_host_scene_with_gles_readback
ReadsBack(p, failed) == p.gles /\ "readback" \notin failed

\* The direct buffers are given up, and GLES too if it cannot read back
RenderedDumb(p, failed) ==
  LET q == [p EXCEPT !.direct = IF p.gles THEN NoPair ELSE @,
                     !.dumb = IF @ = NoPair /\ "dumb" \notin failed THEN Fresh ELSE @]
      drew     == q.dumb # NoPair /\ "map" \notin failed
      readback == ReadsBack(p, failed)
      whole    == drew /\ (readback \/ ~content.dmabuf)
  IN [p |-> [q EXCEPT !.gles = IF whole THEN readback ELSE @], source |-> "dumb",
      drew |-> DirectTarget(p) \cup (IF drew THEN {Back(q, "dumb")} ELSE {}),
      whole |-> whole, plane |-> FALSE]

NotRendered(p) == [p |-> p, source |-> "direct", drew |-> DirectTarget(p),
                whole |-> FALSE, plane |-> FALSE]

\* ensure_direct_scanout_state comes first; a claim that began with direct
\* buffers has nothing to fall back to
Rendered(pipe, failed) ==
  LET p == [pipe EXCEPT !.direct = IF pipe.gles /\ @ = NoPair THEN Fresh ELSE @]
  IN CASE p.gles /\ "direct" \notin failed -> RenderedDirect(p)
       [] p.owns = "direct" /\ (~p.gles \/ "direct" \in failed) -> NotRendered(p)
       [] OTHER -> RenderedDumb(p, failed)

\* A framebuffer that is dropped while it is shown leaves the screen blank
Dropped(shown, p) ==
  IF shown.fb \in {Fb(p, "direct", 0), Fb(p, "direct", 1)} /\ p.direct = NoPair
    THEN [shown EXCEPT !.fb = Gone] ELSE shown

\* queue_atomic_frame_commit
Image(d) == [fb |-> Back(d.p, d.source), plane |-> PlaneShows(d.p, d.plane),
             painted |-> OverlayDrawn /\ ~d.plane, wanted |-> OverlayDrawn]

PresentFrame(failed) ==
  /\ host.pipe # NoPipe /\ ~Pending(host.pipe)
  /\ LET d == Rendered(host.pipe, failed)
         queues == d.whole /\ {"capture", "commit"} \cap failed = {}
     IN /\ host' = [host EXCEPT !.pipe =
              IF queues THEN [d.p EXCEPT !.source = d.source, !.modeset = FALSE] ELSE d.p]
        /\ screen' = [screen EXCEPT
              !.shown  = Dropped(@, d.p),
              !.queued = IF queues THEN Image(d) ELSE @,
              !.torn   = @ \/ (d.drew \cap {screen.shown.fb, screen.queued.fb} # {})]
  /\ UNCHANGED content

\* The kernel takes the queued frame at a vertical blank and says so
Latch ==
  /\ screen.queued # NoImage /\ ~screen.event
  /\ screen' = [screen EXCEPT !.shown = screen.queued, !.queued = NoImage, !.event = TRUE]
  /\ UNCHANGED <<host, content>>

\* process_claimed_presentation_events; the first flip releases the retired pipeline
FlipHandled ==
  /\ host.pipe # NoPipe /\ screen.event
  /\ host' = IF Pending(host.pipe)
               THEN [host EXCEPT !.pipe = Completed(@), !.prior = NoPipe] ELSE host
  /\ screen' = [screen EXCEPT !.event = FALSE]
  /\ UNCHANGED content

\* Clients and the operator change what there is to show
SceneChanges(s) == s # content /\ content' = s /\ UNCHANGED <<host, screen>>

ScanoutInit ==
  /\ host \in [card : Card, pipe : {NoPipe}, prior : {NoPipe}, owns : {"none"}]
  /\ screen = [shown |-> NoImage, queued |-> NoImage, event |-> FALSE, torn |-> FALSE]
  /\ content = [overlay |-> "none", turned |-> FALSE, scaled |-> FALSE, dmabuf |-> FALSE]

ScanoutNext ==
  \/ \E f \in Failures(ClaimSteps) : ClaimAtStartup(f) \/ Reclaim(f)
  \/ \E f \in Failures(PresentSteps) : PresentFrame(f)
  \/ LosePipeline \/ DiscardReclaim \/ CloseDevice
  \/ Latch \/ FlipHandled
  \/ \E s \in Contents : SceneChanges(s)

-----------------------------------------------------------------------------
\* Nothing is ever drawn into the buffer that is on screen or the one that is
\* about to be, whichever pair it is of, across falls from one pair to the
\* other, failed frames, lost outputs and claims that are taken back.
PaintsOffScreen == ~screen.torn

\* In every frame that reaches the screen the overlay window is to be seen
\* exactly once: painted with the rest, or on a plane that shows it unturned,
\* unscaled, blended and above the rest.
OverlayShownOnce ==
  \A f \in {screen.shown, screen.queued} :
    /\ f.plane # "wrong"
    /\ f.wanted = (f.painted # (f.plane = "over"))
=============================================================================
