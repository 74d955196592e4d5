------------------------------ MODULE HostOutput ------------------------------
(***************************************************************************)
(* How the host runtime (src/src/runtime.rs) keeps one output of one DRM   *)
(* device presenting, and how a change of the root geometry (scale,        *)
(* rotation, mode) becomes visible: staged, drawn into one frame, and      *)
(* committed when the display reports that frame.                          *)
(*                                                                         *)
(* One thread runs the event loop.  Each action of it below is one         *)
(* callback, which nothing interrupts; `host` is the state that thread     *)
(* owns, and the operators named after its methods map a host to the host  *)
(* the method leaves.  Around it, at any moment: the display completes     *)
(* frames, monitors and devices come and go, the session is paused and     *)
(* resumed, clients commit buffers, the config watcher and the control     *)
(* server send commands.  The control server waits for the answer to a     *)
(* rotation before it serves another request.                              *)
(*                                                                         *)
(* A frame token is a number no other frame in flight has, where the code  *)
(* counts up.  A prepared pipeline exists exactly while its output is in   *)
(* `prepared`, and is idle: no frame is ever queued on it.                 *)
(***************************************************************************)
EXTENDS Naturals, Sequences, FiniteSets

CONSTANTS
  Devices,    \* DRM devices
  Modes,      \* preferred modes of monitors
  Scales,     \* display scale factors
  Rotations,  \* output rotations
  Tokens,     \* bound: names of frames in flight
  Faults,     \* the faults that happen in an instance
  EmptyReadFails, \* reading DRM events when there are none is an error
  Budget,     \* bound: how often each kind of thing happens
  None        \* no device, output, transaction, answer

FaultKinds == {
  "prepare",     \* a geometry is rejected (bad factor, incoherent panes)
  "transaction", \* a frame cannot be drawn for the transaction
  "reclaimable", \* the commit ioctl fails
  "fatal",       \* rendering fails for good
  "events",      \* reading DRM events fails
  "claim",       \* claim_output_on_device fails
  "bind",        \* the DRM event source cannot be registered
  "open",        \* a device cannot be opened
  "owner",       \* a native client goes away during a transaction
  "loop"}        \* the event loop itself returns an error

BudgetKinds == {"command", "hotplug", "pause", "fault"}

ASSUME ConstantsAssumption ==
  /\ IsFiniteSet(Devices)
  /\ None \notin Devices /\ None \notin Modes
  /\ Tokens \subseteq Nat \ {0}
  /\ Faults \subseteq FaultKinds
  /\ EmptyReadFails \in BOOLEAN
  /\ Budget \in [BudgetKinds -> Nat]

VARIABLES
  host,   \* HostRuntimeLoopData and what hangs off it
  active, \* session_active
  conn,   \* per device: the mode of the connected monitor, or None
  inbox,  \* the runtime control channel
  asking, \* the control server waits for the answer to a rotation
  left    \* per kind: how much of Budget is left

vars == <<host, active, conn, inbox, asking, left>>

Outputs    == [dev : Devices, mode : Modes]
Geometries == [size : Modes, scale : Scales, rot : Rotations]
Idle == 0 \* pipeline.flip_pending is false

Scale(s)    == [kind |-> "scale", to |-> s]
Rotation(r) == [kind |-> "rotation", to |-> r]
Mode(m)     == [kind |-> "mode", to |-> m]
Commands  == {Scale(s) : s \in Scales} \cup {Rotation(r) : r \in Rotations}
Mutations == Commands \cup {Mode(m) : m \in Modes}

Transactions == [
  geo : Geometries,
  flip : Tokens \cup {Idle},                 \* pending_flip
  dev : Devices \cup {None},                 \* pending_flip_device_id
  pin : {"unset", "pinned", "changed"},      \* accepted_material_identity
  gone : BOOLEAN]                            \* disappeared_native_owner

Hosts == [
  detected : SUBSET Devices,
  opened   : SUBSET Devices,
  claimed  : Outputs \cup {None},            \* claimed_output
  prepared : Outputs \cup {None},            \* prepared_reclaim_output
  retired  : [out : Outputs, flip : Tokens \cup {Idle}] \cup {None},
  front    : [Devices -> Tokens \cup {Idle, None}], \* claimed_pipeline
  good     : Devices,                        \* last_good_output_identity
  events   : SUBSET Devices,                 \* a completion is readable
  source   : Devices \cup {None},            \* registered DRM event source
  queue    : Seq(Mutations),                 \* root_geometry_queue
  staged   : Transactions \cup {None},       \* staged_root_geometry
  mut      : {"scale", "rotation", "mode", None}, \* pending_geometry_mutation
  asked    : BOOLEAN,                        \* pending_rotation_response
  reply    : {"ok", "err", None},            \* what was sent on it
  pub      : Outputs \cup {None},            \* pending_reclaim_publication
  ready    : BOOLEAN,                        \* native buffers are materialized
  committed : Geometries,                    \* RootGeometryAuthority
  owned    : BOOLEAN,                        \* host_output_ownership
  window   : Modes]                          \* window_width, window_height

\* None is none of the things it stands for the absence of.
ASSUME NoneAssumption ==
  /\ None \notin Tokens \cup {Idle}
  /\ None \notin {"ok", "err", "scale", "rotation", "mode"}
  /\ None \notin Outputs /\ None \notin Geometries /\ None \notin Transactions
  /\ None \notin [out : Outputs, flip : Tokens \cup {Idle}]

\* The code counts its frames: one that is not in flight has a new number.
ASSUME TokensAssumption ==
  \A s, t \in Tokens \cup {Idle} : \E other \in Tokens : other \notin {s, t}

TypeOK ==
  /\ host \in Hosts
  /\ active \in BOOLEAN /\ asking \in BOOLEAN
  /\ conn \in [Devices -> Modes \cup {None}]
  /\ inbox \in Seq(Commands)
  /\ left \in [BudgetKinds -> Nat]

-----------------------------------------------------------------------------
(* HostBackendState: which output is claimed, and what becomes of it.      *)

Presenting(h) == \* presentation_device_id
  IF h.claimed # None THEN h.claimed.dev
  ELSE IF h.prepared # None THEN h.prepared.dev ELSE None

NeedsReclaim(h) == h.claimed = None /\ h.prepared = None

\* The frame in flight on device d, if any.
Flight(h, d) ==
  {h.front[d]} \cup
  (IF h.retired # None /\ h.retired.out.dev = d THEN {h.retired.flip} ELSE {})

Fresh(h) == CHOOSE t \in Tokens :
  /\ \A d \in Devices : t \notin Flight(h, d)
  /\ h.staged # None => t # h.staged.flip

MarkClaimLostKeepsPipeline(h) ==
  IF h.retired # None \/ h.claimed = None THEN h
  ELSE [h EXCEPT !.claimed = None]

\* The claimed output is set aside with its pipeline; a candidate that
\* was armed over a retired output is kept.
MarkClaimLost(h) ==
  IF h.retired # None \/ h.claimed = None THEN h
  ELSE [h EXCEPT !.claimed = None,
                 !.front[h.claimed.dev] = None,
                 !.retired = IF h.front[h.claimed.dev] = None THEN None
                             ELSE [out |-> h.claimed,
                                   flip |-> h.front[h.claimed.dev]]]

MarkReclaimPending(h) == [h EXCEPT !.owned = FALSE]

MarkLostForRecovery(h) == MarkReclaimPending(MarkClaimLost(h))

CloseDevice(h, d) ==
  [h EXCEPT !.opened = @ \ {d},
            !.claimed = IF h.claimed # None /\ h.claimed.dev = d THEN None ELSE @,
            !.prepared = IF h.prepared # None /\ h.prepared.dev = d THEN None ELSE @,
            !.retired = IF h.retired # None /\ h.retired.out.dev = d THEN None ELSE @,
            !.front[d] = None,
            !.events = @ \ {d}]

OpenDevice(h, d, F) ==
  IF "open" \in F THEN h ELSE [h EXCEPT !.opened = @ \cup {d}]

\* Completions of the retired pipeline are read; its token is dropped.  A
\* read with nothing to read fails on a non-blocking descriptor.
DrainFails(h) ==
  /\ h.retired # None /\ h.retired.out.dev \notin h.events
  /\ EmptyReadFails \/ h.retired.flip # Idle

DrainRetired(h) ==
  IF h.retired = None \/ h.retired.out.dev \notin h.events THEN h
  ELSE [h EXCEPT !.retired.flip = Idle, !.events = @ \ {h.retired.out.dev}]

Candidates(h, monitors) == {d \in h.opened : monitors[d] # None}

\* The last good output if it is there, else the first candidate.
Chosen(h, monitors) ==
  IF h.good \in Candidates(h, monitors) THEN h.good
  ELSE CHOOSE d \in Candidates(h, monitors) : TRUE

BindSource(h, d, F) ==
  IF "bind" \in F THEN MarkReclaimPending([h EXCEPT !.source = None])
  ELSE [h EXCEPT !.source = d]

\* reclaim_host_output_in_process, and the mark its callers make when it
\* fails.  It runs only while no output is claimed.
Publish(h, F) ==
  LET b == BindSource(h, h.prepared.dev, F)
  IN  IF "bind" \in F THEN b ELSE [b EXCEPT !.pub = h.prepared]

Prepare(h, out) ==
  [h EXCEPT !.prepared = out, !.good = out.dev,
            !.queue = Append(@, Mode(out.mode))]

Reclaim(h, monitors, F) ==
  LET drained == DrainRetired(h)
      d == Chosen(h, monitors)
  IN  IF h.prepared # None THEN Publish(h, F)
      ELSE IF Candidates(h, monitors) = {} THEN MarkReclaimPending(h)
      ELSE IF DrainFails(h) \/ "claim" \in F THEN MarkReclaimPending(drained)
      ELSE Publish(Prepare(drained, [dev |-> d, mode |-> monitors[d]]), F)

\* The candidate becomes the output frames are queued on.
Arm(h) ==
  [h EXCEPT !.claimed = h.prepared, !.prepared = None,
            !.front[h.prepared.dev] = Idle]

DestroyCandidate(h) ==
  [h EXCEPT !.prepared = None, !.claimed = None,
            !.front = IF h.claimed = None THEN @
                      ELSE [@ EXCEPT ![h.claimed.dev] = None]]

\* discard_unactivated_reclaim and the status of the restored output.
DiscardUnactivatedReclaim(h) ==
  LET g == DestroyCandidate([h EXCEPT !.pub = None])
  IN  IF h.prepared = None /\ h.claimed # None
         /\ h.front[h.claimed.dev] \in Tokens
      THEN [h EXCEPT !.pub = None]
      ELSE IF h.retired = None THEN g
      ELSE [g EXCEPT !.claimed = h.retired.out, !.retired = None,
                     !.front[h.retired.out.dev] = h.retired.flip,
                     !.good = h.retired.out.dev,
                     !.owned = TRUE, !.window = h.retired.out.mode]

\* Did the discard that led from h to g restore the retired output?
RestoredPrevious(h, g) == h.retired # None /\ g.retired = None

-----------------------------------------------------------------------------
(* HostRuntimeLoopData: the root geometry transaction.                     *)

InFlight(h) == h.staged # None /\ h.staged.flip # Idle

\* install_staged_root_geometry; `fresh` says that some native client has
\* to commit a buffer of the new generation first.
Install(h, kind, geo, fresh) ==
  [h EXCEPT !.staged = [geo |-> geo, flip |-> Idle, dev |-> None,
                        pin |-> "unset", gone |-> FALSE],
            !.mut = kind, !.ready = ~fresh]

\* RootGeometryAuthority: what a mutation makes of the last commit
PrepareScale(h, s)    == [h.committed EXCEPT !.scale = s]
PrepareRotation(h, r) == [h.committed EXCEPT !.rot = r]
PrepareMode(h, m)     == [h.committed EXCEPT !.size = m]

StageScale(h, s, fresh, F) ==
  IF "prepare" \in F THEN h
  ELSE Install(h, "scale", PrepareScale(h, s), fresh)

StageRotationSilently(h, r, fresh, F) ==
  IF "prepare" \in F THEN h
  ELSE [Install(h, "rotation", PrepareRotation(h, r), fresh)
        EXCEPT !.asked = TRUE]

StageRotation(h, r, fresh, F) ==
  IF "prepare" \in F THEN [h EXCEPT !.reply = "err"]
  ELSE [Install(h, "rotation", PrepareRotation(h, r), fresh)
        EXCEPT !.asked = TRUE]

StageModeKeepsCandidate(h, m, fresh, F) ==
  IF h.prepared = None THEN DiscardUnactivatedReclaim(h)
  ELSE IF "prepare" \in F THEN h
  ELSE Install(Arm(h), "mode", PrepareMode(h, m), fresh)

StageMode(h, m, fresh, F) ==
  IF h.prepared = None THEN DiscardUnactivatedReclaim(h)
  ELSE IF "prepare" \in F THEN DiscardUnactivatedReclaim(Arm(h))
  ELSE Install(Arm(h), "mode", PrepareMode(h, m), fresh)

\* stage_next_root_geometry_mutation; the channel is emptied into the queue
StageNext(h, fresh, F) ==
  LET queue == h.queue \o inbox
      next == Head(queue)
      g == [h EXCEPT !.queue = Tail(queue)]
  IN  IF h.staged # None \/ queue = <<>> THEN h
      ELSE CASE next.kind = "scale" -> StageScale(g, next.to, fresh, F)
             [] next.kind = "rotation" -> StageRotation(g, next.to, fresh, F)
             [] next.kind = "mode" -> StageMode(g, next.to, fresh, F)

Answer(h, result) ==
  [h EXCEPT !.asked = FALSE, !.reply = IF h.asked THEN result ELSE @]

\* commit_staged_root_geometry
Commit(h) ==
  LET mode == h.mut = "mode"
      g == [Answer(h, "ok") EXCEPT
              !.staged = None, !.mut = None, !.ready = TRUE,
              !.committed = h.staged.geo, !.window = h.staged.geo.size]
      p == IF mode /\ h.pub # None
           THEN [g EXCEPT !.owned = TRUE, !.window = h.pub.mode]
           ELSE g
  IN  IF mode THEN [p EXCEPT !.pub = None, !.retired = None] ELSE p

\* discard_staged_root_geometry_after_flip_resolution
DiscardResolved(h) ==
  LET g == [Answer(h, "err") EXCEPT !.staged = None, !.mut = None,
                                        !.ready = TRUE]
  IN  IF h.mut = "mode" THEN DiscardUnactivatedReclaim(g) ELSE g

\* discard_staged_root_geometry
DiscardStaged(h) == IF InFlight(h) THEN h ELSE DiscardResolved(h)

LeaveLostFlip(h, d) == h

\* resolve_lost_presentation_flip
ResolveLostFlip(h, d) ==
  IF InFlight(h) /\ h.staged.dev = d THEN DiscardResolved(h) ELSE h

Pin(h) ==
  IF h.staged # None /\ h.staged.pin = "unset"
  THEN [h EXCEPT !.staged.pin = "pinned"] ELSE h

\* What queue_pinned_presentation_tick comes to: nothing to do, a frame is
\* queued, or a class of failure.
QueueResult(h, F) ==
  IF /\ h.staged # None
     /\ h.staged.pin = "changed" \/ h.staged.gone \/ h.claimed = None
  THEN "transaction"
  ELSE IF \/ h.claimed = None
          \/ h.front[h.claimed.dev] # Idle THEN "none"
  ELSE IF "transaction" \in F THEN "transaction"
  ELSE IF "reclaimable" \in F THEN "reclaimable"
  ELSE IF "fatal" \in F THEN "fatal"
  ELSE "queued"

QueueFrame(h) ==
  LET d == h.claimed.dev
      g == [h EXCEPT !.front[d] = Fresh(h)]
  IN  IF h.staged = None THEN g
      ELSE [g EXCEPT !.staged.flip = Fresh(h), !.staged.dev = d]

\* queue_pinned_presentation_tick
QueuePinned(h, F) ==
  IF QueueResult(h, F) = "queued" THEN QueueFrame(Pin(h)) ELSE Pin(h)

-----------------------------------------------------------------------------
(* The callbacks of the event loop.                                        *)

\* The faults that may hit one callback; they are paid for from the budget.
Hits(kinds) == {F \in SUBSET (kinds \cap Faults) : Cardinality(F) <= left["fault"]}

Pay(kind, n) ==
  /\ n <= left[kind]
  /\ left' = [left EXCEPT ![kind] = @ - n]

\* The timer, once an output is claimed or prepared and its events are heard.
Present(h, F) ==
  LET q == QueuePinned(h, F)
      g == DiscardStaged(q)
      r == QueueResult(h, F)
  IN  CASE r \in {"none", "queued"} -> q
        [] r = "transaction" -> g
        [] r = "reclaimable" ->
             IF RestoredPrevious(q, g) THEN g
             ELSE Reclaim(MarkClaimLost(g), conn, F)
        [] r = "fatal" -> MarkLostForRecovery(g)

Tick ==
  \E F \in Hits({"prepare", "transaction", "reclaimable", "fatal", "claim", "bind"}),
     fresh \in BOOLEAN :
    LET bound == IF host.source = Presenting(host) THEN host
                 ELSE BindSource(host, Presenting(host), F)
        next == StageNext(bound, fresh, F)
    IN  /\ active
        /\ Pay("fault", Cardinality(F))
        /\ IF NeedsReclaim(host)
           THEN /\ host.opened # {}
                /\ host' = Reclaim(host, conn, F)
                /\ UNCHANGED inbox
           ELSE IF bound.source = None
           THEN /\ host' = bound
                /\ UNCHANGED inbox
           ELSE /\ host' = IF next.staged # None /\ ~next.ready THEN next
                           ELSE Present(next, F)
                /\ inbox' = IF host.staged # None THEN inbox ELSE <<>>
        /\ UNCHANGED <<active, conn, asking>>

\* The DRM event source loses its stream, or its frame cannot be queued.
ReclaimableEventFailure(h, d, F) ==
  LET pending == \/ InFlight(h) /\ h.staged.dev = d
                 \/ h.front[d] \in Tokens
      closed  == CloseDevice(h, d)
      reset   == IF d \in h.detected THEN OpenDevice(closed, d, F) ELSE closed
      lost    == ResolveLostFlip(reset, d)
      g       == IF h.staged = None THEN h ELSE DiscardStaged(h)
      after   == IF pending
                 THEN IF NeedsReclaim(lost) THEN MarkReclaimPending(lost) ELSE lost
                 ELSE IF RestoredPrevious(h, g) THEN g
                 ELSE MarkClaimLost(g)
  IN  [after EXCEPT !.source = None]

CompleteAny(h, d) ==
  LET done == [h EXCEPT !.front[d] = Idle, !.events = @ \ {d}]
  IN  IF h.staged # None THEN Commit(done) ELSE done

\* process_claimed_drm_event_source: completions are taken, the transaction
\* whose frame is among them is committed, the next frame is queued.
Complete(h, d) ==
  LET done == [h EXCEPT !.front[d] = Idle, !.events = @ \ {d}]
  IN  IF InFlight(h) /\ h.staged.flip = h.front[d] THEN Commit(done) ELSE done

QueueNext(h, d, F) ==
  LET q == QueuePinned(h, F)
      r == QueueResult(h, F)
  IN  CASE r \in {"none", "queued"} -> q
        [] r = "transaction" -> DiscardStaged(q)
        [] r = "reclaimable" -> ReclaimableEventFailure(q, d, F)
        [] r = "fatal" -> [MarkLostForRecovery(q) EXCEPT !.source = None]

\* A completion is readable on the registered source, or the device is gone.
DrmEvent ==
  \E F \in Hits({"transaction", "reclaimable", "fatal", "open"}) :
    LET d == host.source
    IN  /\ d # None
        /\ d \in host.events \/ d \notin host.opened
        /\ Pay("fault", Cardinality(F))
        /\ host' = IF Presenting(host) # d THEN [host EXCEPT !.source = None]
                   ELSE IF host.claimed = None THEN host
                   ELSE IF host.front[d] = Idle THEN [host EXCEPT !.events = @ \ {d}]
                   ELSE QueueNext(Complete(host, d), d, F)
        /\ UNCHANGED <<active, conn, inbox, asking>>

\* Reading the DRM events fails.
DrmEventsLost ==
  \E F \in Hits({"events", "open"}) :
    LET d == host.source
    IN  /\ d # None /\ Presenting(host) = d /\ host.claimed # None
        /\ "events" \in F
        /\ Pay("fault", Cardinality(F))
        /\ host' = ReclaimableEventFailure(host, d, F)
        /\ UNCHANGED <<active, conn, inbox, asking>>

\* What every udev callback ends with.
UdevTail(h, monitors, F) ==
  IF h.opened = {} THEN MarkReclaimPending(h)
  ELSE IF h.claimed = None THEN Reclaim(h, monitors, F) ELSE h

UdevFaults == {"open", "claim", "bind"}

DeviceAdded(d) ==
  \E F \in Hits(UdevFaults), m \in Modes \cup {None} :
    /\ d \notin host.detected
    /\ left["hotplug"] > 0
    /\ left' = [left EXCEPT !["hotplug"] = @ - 1, !["fault"] = @ - Cardinality(F)]
    /\ conn' = [conn EXCEPT ![d] = m]
    /\ host' = UdevTail(OpenDevice([host EXCEPT !.detected = @ \cup {d}], d, F),
                        conn', F)
    /\ UNCHANGED <<active, inbox, asking>>

\* A change event closes and reopens the device, whatever changed.
DeviceChanged(d) ==
  \E F \in Hits(UdevFaults), m \in Modes \cup {None} :
    LET h == [host EXCEPT !.source = IF @ = d THEN None ELSE @]
        reopened == OpenDevice(CloseDevice(h, d), d, F)
    IN  /\ d \in host.detected
        /\ left["hotplug"] > 0
        /\ left' = [left EXCEPT !["hotplug"] = @ - 1, !["fault"] = @ - Cardinality(F)]
        /\ conn' = [conn EXCEPT ![d] = m]
        /\ host' = UdevTail(ResolveLostFlip(reopened, d), conn', F)
        /\ UNCHANGED <<active, inbox, asking>>

DeviceRemoved(d) ==
  \E F \in Hits(UdevFaults) :
    LET h == CloseDevice([host EXCEPT !.detected = @ \ {d}], d)
    IN  /\ d \in host.detected
        /\ left["hotplug"] > 0
        /\ left' = [left EXCEPT !["hotplug"] = @ - 1, !["fault"] = @ - Cardinality(F)]
        /\ conn' = [conn EXCEPT ![d] = None]
        /\ host' = UdevTail(ResolveLostFlip(h, d), conn', F)
        /\ UNCHANGED <<active, inbox, asking>>

PauseSession ==
  /\ active
  /\ Pay("pause", 1)
  /\ active' = FALSE
  /\ host' = MarkLostForRecovery(host)
  /\ UNCHANGED <<conn, inbox, asking>>

ActivateSession ==
  /\ ~active
  /\ active' = TRUE
  /\ UNCHANGED <<host, conn, inbox, asking, left>>

\* The event loop returns an error and is entered again.
LoopFails ==
  /\ "loop" \in Faults
  /\ Pay("fault", 1)
  /\ host' = MarkLostForRecovery([host EXCEPT !.source = None])
  /\ UNCHANGED <<active, conn, inbox, asking>>

-----------------------------------------------------------------------------
(* Around the event loop.                                                  *)

\* The display completes the frame in flight on device d.
PageFlip(d) ==
  /\ d \notin host.events
  /\ Flight(host, d) \cap Tokens # {}
  /\ host' = [host EXCEPT !.events = @ \cup {d}]
  /\ UNCHANGED <<active, conn, inbox, asking, left>>

\* A client commits a buffer: the material of the scene is another one.
ClientCommit ==
  /\ host.staged # None /\ host.staged.pin = "pinned"
  /\ host' = [host EXCEPT !.staged.pin = "changed"]
  /\ UNCHANGED <<active, conn, inbox, asking, left>>

\* The last native client the transaction waits for commits or goes away.
NativeCommit ==
  /\ ~host.ready
  /\ host' = [host EXCEPT !.ready = TRUE,
                          !.staged = IF @ # None /\ @.pin = "pinned"
                                     THEN [@ EXCEPT !.pin = "changed"] ELSE @]
  /\ UNCHANGED <<active, conn, inbox, asking, left>>

\* note_native_pane_owner_disappeared
OwnerGone ==
  /\ "owner" \in Faults
  /\ Pay("fault", 1)
  /\ host.staged # None /\ ~host.staged.gone /\ ~InFlight(host)
  /\ host' = [host EXCEPT !.staged.gone = TRUE, !.ready = TRUE]
  /\ UNCHANGED <<active, conn, inbox, asking>>

\* The config watcher sends a new scale.
SetScale(s) ==
  /\ Pay("command", 1)
  /\ inbox' = Append(inbox, Scale(s))
  /\ UNCHANGED <<host, active, conn, asking>>

\* The control server sends a rotation and waits for the answer.
SetRotation(r) ==
  /\ ~asking
  /\ Pay("command", 1)
  /\ inbox' = Append(inbox, Rotation(r))
  /\ asking' = TRUE
  /\ UNCHANGED <<host, active, conn>>

ReadAnswer ==
  /\ host.reply # None
  /\ host' = [host EXCEPT !.reply = None]
  /\ asking' = FALSE
  /\ UNCHANGED <<active, conn, inbox, left>>

\* run_host has claimed an output and committed its geometry.
Init ==
  \E D \in SUBSET Devices, s \in Scales, r \in Rotations :
  \E d \in D, c \in [Devices -> Modes \cup {None}] :
    /\ c[d] # None /\ \A e \in Devices \ D : c[e] = None
    /\ conn = c
    /\ host = [
         detected |-> D, opened |-> D,
         claimed |-> [dev |-> d, mode |-> c[d]], prepared |-> None,
         retired |-> None,
         front |-> [e \in Devices |-> IF e = d THEN Idle ELSE None],
         good |-> d, events |-> {}, source |-> d,
         queue |-> <<>>, staged |-> None, mut |-> None,
         asked |-> FALSE, reply |-> None, pub |-> None, ready |-> TRUE,
         committed |-> [size |-> c[d], scale |-> s, rot |-> r],
         owned |-> TRUE, window |-> c[d]]
    /\ active = TRUE /\ inbox = <<>> /\ asking = FALSE
    /\ left = Budget

Next ==
  \/ Tick \/ DrmEvent \/ DrmEventsLost
  \/ \E d \in Devices : DeviceAdded(d) \/ DeviceChanged(d) \/ DeviceRemoved(d)
  \/ PauseSession \/ ActivateSession \/ LoopFails
  \/ \E d \in Devices : PageFlip(d)
  \/ ClientCommit \/ NativeCommit \/ OwnerGone
  \/ \E s \in Scales : SetScale(s)
  \/ \E r \in Rotations : SetRotation(r)
  \/ ReadAnswer

Spec == Init /\ [][Next]_vars

\* The timer and the DRM events are served, the display completes frames,
\* the session is resumed, native clients commit or go, answers are read.
Fairness ==
  /\ WF_vars(Tick)
  /\ WF_vars(DrmEvent)
  /\ \A d \in Devices : WF_vars(PageFlip(d))
  /\ WF_vars(ActivateSession)
  /\ WF_vars(NativeCommit)
  /\ WF_vars(ReadAnswer)

FairSpec == Spec /\ Fairness

-----------------------------------------------------------------------------
(* Properties.                                                             *)

\* Every pipeline belongs to one of the three outputs and every output's
\* device is open: nothing keeps drawing for an output that was given up,
\* and no output is kept whose pipeline is gone.
PipelinesFollowClaims ==
  /\ \A d \in Devices :
       host.front[d] # None <=> host.claimed # None /\ host.claimed.dev = d
  /\ host.claimed # None => host.claimed.dev \in host.opened
  /\ host.prepared # None => host.prepared.dev \in host.opened
  /\ host.retired # None => host.retired.out.dev \in host.opened

\* An output that is presented while an older one is kept for rollback is a
\* candidate whose mode transaction is not decided: a rollback is possible,
\* and no output is kept longer than its candidate is undecided.
CandidateIsUndecided ==
  /\ host.claimed # None /\ host.retired # None => host.mut = "mode"
  /\ host.prepared # None => host.claimed = None

\* The three places that describe the transaction agree: what is staged,
\* which mutation it is, and who waits for its answer.
TransactionIsWhole ==
  /\ host.staged # None <=> host.mut # None
  /\ host.asked => host.mut = "rotation"
  /\ host.asked => asking /\ host.reply = None

\* The frame the transaction waits for is in flight on the output that is
\* presented: its completion will be read and will commit it.
QueuedFrameIsInFlight ==
  InFlight(host) =>
    /\ host.claimed # None
    /\ host.claimed.dev = host.staged.dev
    /\ host.front[host.staged.dev] = host.staged.flip

\* The runtime's own records of outputs, pipelines and the transaction never
\* contradict one another.
HostIsWhole ==
  /\ TypeOK /\ PipelinesFollowClaims /\ CandidateIsUndecided
  /\ TransactionIsWhole /\ QueuedFrameIsInFlight

\* A transaction whose frame is queued ends in one of two ways: the frame's
\* completion was readable and its geometry is committed, or the pipeline it
\* was queued on is gone.
QueuedIsNotWithdrawn ==
  [][InFlight(host) /\ host'.staged = None =>
       \/ /\ host.staged.dev \in host.events
          /\ host'.committed = host.staged.geo
       \/ host'.front[host.staged.dev] = None]_vars

\* HostOutput implements the geometry transaction.
Transaction == INSTANCE GeometryTransaction WITH
  shown   <- host.committed,
  offered <- IF host.staged = None THEN None ELSE host.staged.geo,
  framed  <- InFlight(host),
  asked   <- host.asked,
  reply   <- host.reply

ImplementsTransaction == Transaction!Spec

\* There is a monitor on an open device and the session is active.
Usable == active /\ Candidates(host, conn) # {}

\* A frame is in flight.
Drawing == host.claimed # None /\ host.front[host.claimed.dev] \in Tokens

\* As long as a display can be used, frames are drawn on it again and again.
DisplayComesBack == []<>(Usable => Drawing)

\* As long as a display can be used, the status says so in the end.
StatusComesBack == <>[]Usable => <>[](host.owned)

\* Both: whatever failed, frames come back, and the status that says so.
OutputComesBack == DisplayComesBack /\ StatusComesBack

\* As long as a display can be used, the control server gets an answer.
RotationAnswered == <>[]Usable => (asking ~> ~asking)
=============================================================================
