----------------------- MODULE PresentationMeasurement -----------------------
(***************************************************************************)
(* The one opt-in measurement of a session (src/src/                       *)
(* presentation_measurement.rs): it starts when the primary button is      *)
(* first pressed, lasts one window of Window time units, counts the page   *)
(* flips of the claimed output, and in the end says whether the capture is *)
(* valid.  Input and page flips reach it through the runtime's event loop, *)
(* later than they happened, in any order between the two sources; a       *)
(* snapshot holds the collector's lock meanwhile and makes an event lost.  *)
(*                                                                         *)
(* Of the reasons why a capture is invalid only their existence is kept.   *)
(***************************************************************************)
EXTENDS Naturals, Sequences, FiniteSets

CONSTANTS
  Mouse,     \* input devices with a primary button
  Window,    \* length of the measurement, in units of a bucket
  MaxTime,   \* bound: the end of time
  MaxClaims, \* bound: output generations
  MaxInputs, \* bound: input events
  MaxFlips,  \* bound: page flips
  MaxFrames, \* MAX_PRESENTATION_EVENTS
  MaxButtons \* MAX_BUTTON_EVENTS

NoOutput == [gen |-> 0, mono |-> FALSE]   \* no output is claimed
NoFlip   == [gen |-> 0, seq |-> 0, at |-> 0]
NoMouse  == "none"

ASSUME MeasurementAssumption ==
  /\ NoMouse \notin Mouse
  /\ {Window, MaxTime, MaxClaims, MaxInputs, MaxFlips, MaxFrames, MaxButtons} \subseteq Nat

VARIABLES
  meas,   \* CaptureState, with whether an event was lost to contention
  world   \* the clock, the buttons, the output and the events on their way

\* PresentationMeasurementCollector::new
NewCapture(boot) ==
  [phase |-> "waiting", boot |-> boot, flawed |-> FALSE, contended |-> FALSE,
   start |-> 0, output |-> NoOutput, current |-> NoOutput, device |-> NoMouse,
   lastButton |-> 0, last |-> NoFlip, seen |-> {}, shown |-> 0, buttons |-> 0,
   held |-> FALSE, inputEnd |-> FALSE, flipEnd |-> FALSE]

End(c)       == c.start + Window
Flawed(c, b) == [c EXCEPT !.flawed = @ \/ b]
InWindow(c, t) == c.start <= t /\ t < End(c)

\* A valid capture, as a snapshot reports it
Valid(c) == c.phase = "complete" /\ ~c.flawed /\ ~c.contended

\* The flips a snapshot counts, over all buckets
Counted(c) == Cardinality({f \in c.seen : InWindow(c, f.at)})

-----------------------------------------------------------------------------
\* set_active_output
ActiveOutput(c, out) ==
  [Flawed(c, c.phase = "recording" /\ c.current # out /\ c.output # out) EXCEPT !.current = out]

\* check_current_output
CurrentOutput(c, out) == [Flawed(c, c.output # out) EXCEPT !.current = out]

\* finish_if_both_streams_passed_window_end
Finished(c) ==
  IF c.phase = "recording" /\ c.inputEnd /\ c.flipEnd THEN [c EXCEPT !.phase = "complete"] ELSE c

\* record_button, before the event is kept: the first press starts the run
Begun(c, e, out) ==
  [Flawed(c, ~c.boot \/ ~out.mono \/ c.current # out)
     EXCEPT !.phase = "recording", !.start = e.at, !.output = out,
            !.device = e.dev, !.held = TRUE]

Transition(c, e, out) ==
  [Flawed(CurrentOutput(c, out), c.held = (e.kind = "press")) EXCEPT !.held = (e.kind = "press")]

\* record_button
Button(c, e, out) ==
  IF c.phase = "complete" \/ (c.phase = "waiting" /\ e.kind = "release") THEN c
  ELSE LET a == IF c.phase = "waiting" THEN Begun(c, e, out) ELSE Transition(c, e, out)
           b == Flawed(a, \/ e.at < a.lastButton
                          \/ e.dev # a.device
                          \/ a.buttons = MaxButtons
                          \/ e.kind = "release" /\ e.at < End(a))
       IN Finished([b EXCEPT !.lastButton = e.at,
                             !.buttons = IF @ = MaxButtons THEN @ ELSE @ + 1,
                             !.inputEnd = @ \/ e.at >= End(b)])

\* record_input_device_removed
MouseRemoved(c, dev) == Flawed(c, c.phase = "recording" /\ c.device = dev)

\* record_presentation: a flip is known by the claim and its sequence number
Presentation(c, f, out) ==
  IF c.phase # "recording" THEN c
  ELSE LET same == {g \in c.seen : g.gen = f.gen /\ g.seq = f.seq}
           a == Flawed(CurrentOutput(c, out), out = NoOutput \/ (\E g \in same : g.at # f.at))
           full == same = {} /\ Cardinality(c.seen) = MaxFrames
           fresh == [Flawed(a, \/ f.at < a.last.at
                               \/ f.gen = a.last.gen /\ f.seq < a.last.seq)
                       EXCEPT !.seen = @ \cup {f}, !.last = f]
           b == IF same = {} THEN fresh ELSE a
       IN IF full THEN Flawed(a, TRUE)
          ELSE Finished([Flawed(b, b.shown = MaxFrames)
                           EXCEPT !.shown = IF @ = MaxFrames THEN @ ELSE @ + 1,
                                  !.flipEnd = @ \/ f.at >= End(b)])

\* Mutant of Recorded: an event that finds the lock taken is just dropped
RecordedOrDropped(next) == IF world.copying THEN meas ELSE next

\* try_capture: an event that finds the lock taken is lost, and counted
Recorded(next) == IF world.copying THEN [meas EXCEPT !.contended = TRUE] ELSE next

-----------------------------------------------------------------------------
(* The world: time passes, buttons are pressed and released, the display   *)
(* completes frames, the runtime loses and claims outputs.  `gone` and     *)
(* `since` are not part of the program: when each device was let go or     *)
(* unplugged, and the claims and flips the runtime saw while it recorded.  *)

NewWorld ==
  [now |-> 0, down |-> [d \in Mouse |-> FALSE], input |-> <<>>, flips |-> <<>>, seq |-> 0,
   claim |-> NoOutput, prior |-> NoOutput, gen |-> 0, copying |-> FALSE, inputs |-> 0, vblanks |-> 0,
   gone |-> {}, since |-> [outs |-> {}, flips |-> {}]]

MeasInit(boots) == world = NewWorld /\ meas \in {NewCapture(b) : b \in boots}

\* What the run really saw so far; it starts with the recording
Watched(w, out, flip) ==
  CASE meas'.phase = "waiting" -> w
    [] meas.phase = "complete" -> w
    [] OTHER -> [w EXCEPT !.since = [outs |-> @.outs \cup {out}, flips |-> @.flips \cup flip]]

Passes == world.now < MaxTime /\ world' = [world EXCEPT !.now = @ + 1] /\ UNCHANGED meas

\* A press, a release, or a device unplugged, which sends no release
Input(d, kind) ==
  /\ world.inputs < MaxInputs /\ world.down[d] # (kind = "press")
  /\ world' = [world EXCEPT !.down[d] = (kind = "press"), !.inputs = @ + 1,
                            !.gone = IF kind = "press" THEN @ ELSE @ \cup {<<d, world.now>>},
                            !.input = Append(@, [dev |-> d, at |-> world.now, kind |-> kind])]
  /\ UNCHANGED meas

\* A frame of the claimed output is on the screen; the driver's sequence
\* number goes on, is repeated or starts again
Vblank(seq) ==
  /\ world.claim # NoOutput /\ seq \in {world.seq, world.seq + 1, 0}
  /\ world.vblanks < MaxFlips /\ world.flips = <<>>
  /\ world' = [world EXCEPT !.seq = seq, !.vblanks = @ + 1,
                 !.flips = Append(@, [gen |-> world.claim.gen, seq |-> seq, at |-> world.now])]
  /\ UNCHANGED meas

-----------------------------------------------------------------------------
\* record_presentation_measurement_input
HandleInput ==
  /\ world.input # <<>>
  /\ LET e == Head(world.input)
         handled == IF e.kind = "removed" THEN MouseRemoved(meas, e.dev)
                    ELSE Button(meas, e, world.claim)
     IN meas' = Recorded(handled)
  /\ world' = Watched([world EXCEPT !.input = Tail(@)], world.claim, {})

\* complete_pipeline_flip_events_with_measurement
HandleFlip ==
  /\ world.flips # <<>>
  /\ meas' = Recorded(Presentation(meas, Head(world.flips), world.claim))
  /\ world' = Watched([world EXCEPT !.flips = Tail(@)], world.claim, {Head(world.flips)})

\* The claimed output changes, and the one kept for a rollback; flips of
\* the old output are not read any more
Claims(out, prior) ==
  /\ meas' = Recorded(ActiveOutput(meas, out))
  /\ world' = Watched([world EXCEPT !.claim = out, !.prior = prior, !.flips = <<>>,
                                    !.gen = IF out.gen > @ THEN out.gen ELSE @],
                      out, {})

\* mark_claim_lost
LoseClaim ==
  world.claim # NoOutput /\ world.prior = NoOutput /\ Claims(NoOutput, world.claim)

\* claim_output_ownership, activate_prepared_reclaim_output
MakeClaim(mono) ==
  /\ world.claim = NoOutput /\ world.gen < MaxClaims
  /\ Claims([gen |-> world.gen + 1, mono |-> mono], world.prior)

\* discard_unactivated_reclaim: the output it replaced, with its generation
RestoreClaim == world.prior # NoOutput /\ Claims(world.prior, NoOutput)

\* finish_reclaim_activation: there is nothing to go back to any more
FinishReclaim ==
  /\ world.prior # NoOutput /\ world.claim # NoOutput
  /\ world' = [world EXCEPT !.prior = NoOutput] /\ UNCHANGED meas

\* snapshot holds the lock while it copies
SnapshotBegins == ~world.copying /\ world' = [world EXCEPT !.copying = TRUE] /\ UNCHANGED meas
SnapshotEnds   == world.copying /\ world' = [world EXCEPT !.copying = FALSE] /\ UNCHANGED meas

\* A reason is never taken back, so the run is followed up to the first one
Undecided == meas.phase # "complete" /\ ~meas.flawed /\ ~meas.contended

MeasNext ==
  /\ Undecided
  /\ \/ Passes \/ HandleInput \/ HandleFlip
     \/ \E d \in Mouse, kind \in {"press", "release", "removed"} : Input(d, kind)
     \/ \E n \in 0 .. MaxFlips : Vblank(n)
     \/ LoseClaim \/ RestoreClaim \/ FinishReclaim \/ \E mono \in BOOLEAN : MakeClaim(mono)
     \/ SnapshotBegins \/ SnapshotEnds

-----------------------------------------------------------------------------
\* A capture that is called valid is what it says: one device held the
\* button for the whole window, the output was the same claim throughout,
\* and the flips counted are those the runtime accepted of that output in
\* the window since it knew of the press.
ValidCaptureIsHonest ==
  Valid(meas) =>
    /\ ~ \E t \in meas.start .. End(meas) - 1 : <<meas.device, t>> \in world.gone
    /\ world.since.outs = {meas.output} /\ meas.output.mono
    /\ Counted(meas) = Cardinality({f \in world.since.flips : InWindow(meas, f.at)})
=============================================================================
