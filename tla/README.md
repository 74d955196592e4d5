# Surf Ace Compositor: specification and proofs

This directory is the verification project of the compositor: TLA+ modules
translated from the Rust source, TLC configurations that check them on small
instances, and TLAPS proofs of the properties that matter most for every
instance. `PROJECT.json` is the index: the components, the runs with their
properties, the mutation each property is tested against, the source lines of
every definition, the hazards of the code and the theorems.

    tlc -workers 2 -config LaunchAll.cfg MCLaunch       # one run
    tlapm ChildSupervisor_proofs.tla                    # one proof module

## 1. The system and its parts

The compositor is one process with a handful of threads. Paths are relative to
the repository.

| Component | State | Operations | What makes it correct |
|---|---|---|---|
| `CompositorState`, launch lifecycle (`src/state.rs`) | slots (main app, shell overlay, one per pane), three request tables, two stop tables, per-slot launch indexes, overlay role | requests of the control socket, process events, window callbacks | no program is lost, two programs never share a slot, what runs is what is wanted, a deferred launch happens, a released pane runs nothing |
| Process controller and systemd manager (`src/process_manager.rs`) | worker thread, command and event channels, a table of units, a table of unconfirmed starts, unit slots | spawn, terminate, terminate_unconfirmed, reap_exited, shutdown | one answer per command, one exit per program, one copy of a program per request, a stop reaches the own unit |
| Child supervisor (`src/child_supervisor.rs`) | the child, two log pumps, the channel of pump failures, the exit report | pump, fail, reap, wait, finish | the exit is told once and at once; a log failure never kills or blocks the program; the session ends |
| Overlay role policy (`src/overlay_role_policy.rs`) | the pane that owns the overlay role | activate, release_if_matches | one overlay at a time |
| Control server (`src/control.rs`) | one mutex around the state, a channel to the runtime | one request per connection | a request sees and leaves a consistent state; at most one runtime start is requested; every request is answered |
| Host runtime, outputs (`src/runtime.rs`) | DRM devices, claimed, candidate and retired output, queued frames, two pairs of buffers, planes | event loop, DRM events, udev events, session events | one frame in flight per pipeline, a lost output is found again, a failed candidate is rolled back, nothing is painted into a buffer on screen |
| Host runtime, surface roles (`src/runtime.rs`) | main, overlay and pane windows, ordinary, pending, deferred and unresolved windows | window callbacks, identity updates, the per-frame enforcement | every window has one place, roles follow their owners, no window is closed on a doubt |
| Host runtime, focus and input (`src/runtime.rs`) | seat, focus history, grabs, held buttons, accessories, popups | pointer, keys, focus route, destruction | status and keyboard agree; a release goes where the press went; input goes to what is painted |
| Root geometry (`src/root_geometry.rs`, `runtime.rs`) | committed and staged geometry, mutation queue, consumers, tagged buffers | stage, commit, discard | a geometry is published when it was shown; all consumers see one generation |
| Output rotation (`src/output_rotation_*.rs`) | remembered rotation file | load, store | an answered rotation is there after a crash |
| Overlay regions (`state.rs`) | regions of one surface, revision, topology epoch | set, clear, prune | an older update never wins; no region over a pane it was not given for |
| Focus and presentation generations (`state.rs`) | focus target, generations per surface | record, guarded focus, clear | a late request never takes the focus back |
| Presentation measurement (`src/presentation_measurement.rs`) | one measurement | begin, record, finish | a capture called valid is what it says |
| Screen capture (`src/screen_capture.rs`) | committed and staged frame | begin, publish, commit, discard | a capture never shows a withdrawn geometry |
| Bootstrap (`src/main.rs`) | the main thread, the runtime channel, the config watcher | start, retry, nested run, end | a requested start happens; a failed runtime is tried again |
| Sun schedule, appearance | explicit, desktop and derived appearance | set, derive | an explicit choice wins |
| Wire types, scripts | - | - | serde types, shell |

How they interact. Clients connect to the control server; its thread takes the
mutex around `CompositorState` for one request (`handle_connection`). The
runtime thread takes the same mutex for window callbacks, for phase changes
and on every redraw, where it polls the process controller. `CompositorState`
sends commands to the worker thread of the process controller and drains its
events in `poll_processes`; nothing waits for a process answer while it holds
the mutex. The worker talks to systemd and to the supervisors of the programs.
The control server sends rotations over a channel to the runtime thread and
waits, without a timeout and outside the mutex, for the answer on a channel of
the request; the config watcher sends scales over the same channel.

What is hard:

- answers of the process worker come late and after the wish changed; cancelled
  launches start anyway; programs exit at any moment; stops fail;
- spawning polls re-entrantly, so process events are applied in an order the
  channel did not have;
- a window may belong to a descendant of the launched program; the window
  callback reads and writes under two separate locks;
- a geometry is committed only when the display reports the frame drawn with it;
  between staging and that report monitors and devices come and go, the session
  is paused, clients change the scene or leave, and each step may fail;
- while a candidate output is tried, the previous output is kept for a rollback,
  and a frame may be in flight on either.

`PROJECT.json` lists the hazards one by one, with the line where each bites.

## 2. Modules

### LaunchLifecycle

The launch, replacement and release of hosted programs. Two threads of control
are interleaved:

- the holder of the mutex. `work` is what it still has to do: drained events not
  applied yet and calls not made yet. Requests and window callbacks need
  `work = <<>>`, which is "the mutex is free". `Poll` on the agenda is a call of
  `poll_processes`; it puts the drained events before the rest, which is exactly
  the order of the recursive calls in the code;
- the worker (`process_worker`) and the programs, at any moment.

| Model | Code |
|---|---|
| `slot[s].want` | main app launch intent; render mode with content and binding id of a pane; configured shell process |
| `slot[s].st`, `.pid` | `MainAppLifecycleState`, `ExternalNativeLifecycleState`; `pid = 0` in a live state is a start that is not confirmed |
| `slot[s].idx` | `pending_main_app_launch`, `pending_native_pane_launches`, `pending_shell_overlay_launch` |
| `slot[s].ureq`, `.token`, `.rev` | the unconfirmed launch of the slot, `launch_token`, `native_host_revision` |
| `pending`, `unconfirmed`, `cancelled` | `pending_process_launches`, `unconfirmed_process_launches`, `cancelled_process_launches` |
| `stops`, `ustops` | `pending_process_stops`, `pending_unconfirmed_process_stops`; kind `stale` for the stop of a launch that was outdated or cancelled |
| `cmds`, `evts` | the two channels of `LocalProcessController` |
| `app`, `alive` | the manager's tables per request; whether the program runs |
| `launch` | history: what each request was issued for |

Abstractions, and why they lose nothing the properties are about:

- a request names one pane. `native_pane.host` over several panes is the same
  handler for each in turn; a snapshot removes several panes in one step, and is
  modelled with one agenda entry per removed pane, in every order;
- pids and tokens are named by the request they belong to, so pids are not
  reused; reuse is the business of `ProcessManager`;
- geometry, evidence, surface ids, focus_on_attach, window groups and status
  texts are left out: no guard of the modelled handlers depends on them;
- the launch token a client may ask for is part of what is wanted;
- the worker does not die before the compositor drops its controller, so the
  error returns of the channel sends are not taken.

`MCLaunch` instantiates it for TLC.

### HostOutput

How the runtime keeps one output presenting and how a scale, a rotation or a
new monitor mode becomes visible. The runtime is one thread, so each callback
of its event loop is one action, and `host` is the state that thread owns. The
methods of `HostRuntimeLoopData` and `HostBackendState` are operators from a
host to the host they leave, named after them; an action composes the calls its
callback makes, in their order.

| Model | Code |
|---|---|
| `host.claimed`, `.prepared`, `.retired` | `claimed_output`, `prepared_reclaim_output`, `retired_claim` |
| `host.front[d]` | the pipeline of the claimed output: none, idle, or the token of the frame in flight |
| `host.staged`, `.mut`, `.queue` | `staged_root_geometry`, `pending_geometry_mutation`, `root_geometry_queue` |
| `host.asked`, `.reply` | `pending_rotation_response`, and what was sent on it |
| `host.pub`, `.owned`, `.window` | `pending_reclaim_publication`, the ownership and the window size of the status |
| `host.source`, `.events` | the registered DRM event source; devices whose completion is readable |
| `host.ready` | the native buffers of the staged generation are materialized |
| `inbox`, `asking` | the runtime control channel; the control server waits for its answer |
| `Tick` | the timer: reclaim, stage the next mutation, present |
| `DrmEvent`, `DrmEventsLost` | `process_claimed_drm_event_source` and the failure classes it ends with |
| `DeviceAdded/Changed/Removed` | the three udev callbacks |
| `PauseSession`, `ActivateSession`, `LoopFails` | session notifier; the event loop returning an error |
| `PageFlip`, `ClientCommit`, `NativeCommit`, `OwnerGone`, `SetScale`, `SetRotation`, `ReadAnswer` | display, clients, config watcher, control server |

Every failure is a choice: `Faults` names the kinds an instance has (a geometry
that is rejected, a frame that cannot be drawn, a commit that fails, a device
that cannot be opened, and so on), and one callback may meet several of them.
`EmptyReadFails` says whether reading DRM events with none pending is an error;
the descriptor the session hands out decides that, so both values are used.

Abstractions:

- a device has one connector with one preferred mode; which connector or plane
  of a device is chosen does not change which output is claimed or lost;
- a frame token is a number that no other frame in flight has, where the code
  counts up; three suffice, because two pipelines and the staged transaction
  are all that can name one;
- the material a frame is drawn from is `pin`: unset, pinned or changed since.
  A commit between the pin and the frame makes the transaction fail, as
  `accepted_material_identity` does;
- native buffers are one flag: which pane still owes one is not told apart;
- what the frame shows, planes, formats, damage and telemetry are left out.

`MCHostOutput` instantiates it.

### GeometryTransaction

The abstract specification of the geometry transaction: one geometry is shown,
at most one is offered, it is shown only after a frame drawn with it was queued
and reported, otherwise it is withdrawn, and a client that asked is told once
and told the truth. `HostOutput` implements it (`ImplementsTransaction`): shown
is the committed geometry, offered the staged one, framed that its frame is in
flight, asked and reply are the pending answer.

### ChildControl, ProcessManager

`ChildControl` is what the controller promises of one request: it is asked,
managed or unconfirmed or abandoned, and ended; its program starts at most once
and dies at most once; a request that is managed has a program that started.
`ProcessManager` implements it for every request (`ImplementsChildControl`).

| Model | Code |
|---|---|
| `cmds`, `evts`, `told` | the two channels of `LocalProcessController`; the newest event drained per pid and request |
| `worker` | where `process_worker` is: idle, choosing a unit, accepting the supervisor, after `Started`, reaping, down |
| `children`, `unconf` | `SystemdProcessManager.children`, `unconfirmed_children` |
| `name`, `unit` | the slot in a unit's name; what systemd has under that name |
| `sup`, `client`, `link`, `pipe` | the supervisor process, the `systemd-run` client, the socket between worker and supervisor and what is in it |
| `program` | the program: not started, alive, dead |
| `TakeSpawn`, `RunUnit`, `SendRequest`, `HearStart`, `AcceptTimeOut`, `GiveUpOnSupervisor`, `StartWithoutUnit` | `spawn`, `start_unit`, the handshake and `start_unitless`, step by step; each may fail or time out |
| `Supervisor`, `SupervisorFinishes`, `SupervisorCrashes` | the far side of the handshake (`child_supervisor.rs`) |
| `Terminate`, `TerminateUnconfirmed`, `TimeOut`, `TakeShutdown` | the other commands and the end of the worker |

Pids come from a small set and are reused as soon as the process is reaped.
Faults come in groups (`Scenarios`); each fault of a group may happen at any
time and any number of times. `left` are units of an earlier process.

### ChildSupervisor

One session after the program was executed: two pumps over bounded pipes, the
collection of records, their sanitizing, the journal, the failures a pump
reports to the main thread, and the loop that reaps the child, reports its exit
and waits for the pumps. The program or a descendant may hold a pipe open after
it died. A byte is ordinary, one that makes its record invalid UTF-8, or the end
of a line. `Transcribes` compares the journal with everything that was written:
one entry per line, in order, and a note in place of a line that is too long or
invalid.

### SurfaceRoles

Which window is the main app, the overlay, the root of the pane, an accessory
of it, an ordinary window, or waits to be known. `g` holds the lists of the
runtime and the parts of `CompositorState` its handlers read; `Tick` is what
each frame does (`enforce_*`, reconsider deferred admissions, prune).
Classification, disposition and the nested promotion of pending windows are
operators over `g`. Processes are launched, confirmed, stopped and die beside
it; a helper of the main app is a descendant and carries its launch token. A
client pid is unknown once the client is gone.

### PanePresentation, FocusRoute

`PanePresentation` holds the part of `CompositorState` that requests with
generations change: panes with their instance, overlay regions, recorded
presentations, the focus target and its generation. `FocusRoute` extends it
with the seat and the windows of the runtime. A handler of the runtime takes the
mutex several times; `todo` is what it still has to do, and control requests
happen between its steps.

| Model | Code |
|---|---|
| `c.panes`, `c.pend`, `c.stopping`, `c.leaving` | `panes`, and launches and stops in flight |
| `c.regions`, `c.present`, `c.target`, `c.gen` | `overlay_regions`, the presentation generations, `active_focus_target`, `active_focus_generation` |
| `h.main`, `.overlay`, `.root`, `.dialogs`, `.popups`, `.ordinary` | the window lists, bottom to top |
| `h.kbd`, `.focused`, `.history`, `.ordFocus` | keyboard focus and its memory per pane |
| `h.under`, `.grab`, `.down`, `.pressed`, `.canceled` | pointer focus, implicit grab, held and cancelled buttons |
| `asked`, `clicked`, `held`, `stray` | history variables of the properties |

Abstractions: a plan request names one pane; starts are confirmed; the overlay
role policy is left to the launch modules; a region update that names an older
epoch is refused at once, so the epoch itself is not kept; dialogs that lose
their geometry, nested popups and windows promoted later are not modelled.

### HostSession and its four parts

Four parts that share no state in these models; a behaviour is one of one of
them, and they share a run.

- `PresentationMeasurement`: one capture. Inputs and flips happen at a time and
  are handled later, in any order between the two queues, while outputs are
  claimed and lost and a snapshot holds the lock. Time is counted in buckets.
- `SceneGeometry`: the consumers of the committed and of the staged geometry,
  buffers with the generation they are tagged with, configures, and the capture
  store. A rectangle is a place and one of two sizes, exchanged by a quarter
  turn; clients draw the size they were told, or commit without being asked.
- `RuntimeSession`: the main thread with its phases, the channel to the runtime,
  one control thread, the config watcher, the rotation file and the end of the
  process at any moment; also the nested (winit) mode.
- `ScanoutBuffers`: the claim of an output (encoder, CRTC, planes), GLES and dumb
  buffer pairs, direct scan-out and its fall-back, the overlay plane, the
  takeover from a retired pipeline. `screen` is what the kernel scans out.

### The proof modules

`LaunchLifecycle_proofs`, `ProcessManager_proofs`, `ChildSupervisor_proofs`,
`HostOutput_proofs`, `HostSession_proofs` and `FocusRoute_proofs` each extend the
module they are about. `LaunchExits_proofs`, which extends the first, is about
exits that come before their starts; `FocusKeys_proofs`, which extends
`FocusRoute_proofs`, about where keys go; the end of `ProcessManager_proofs` is
about the refinement of `ChildControl`, the end of `HostSession_proofs` about the
scan-out. Section 6.

## 3. Runs

Every property of a passing run has a mutation of the code, listed in
`PROJECT.json`, under which TLC finds it violated in that very run. Where
several conditions belong to one promise they are conjuncts of one property and
keep names of their own in the module.

### Launch lifecycle

The bounds are CONSTANTS: `MaxOps` requests, revisions up to `MaxRevision`, the
request kinds in `Requests`, the answers in `Outcomes`. Nothing else is bounded:
the worker, the programs and the windows act as often as they can. Three
requests suffice for a launch, its cancellation and a second launch with another
wish, with every answer in flight at every moment; the run about waiting takes a
fourth and leaves out `native_pane.host`, which would take the temporal check past
its time: its launch is that of `launch_native_pane_hosts`. One pane is enough
because panes only meet in the overlay role, which the shell shares.

Deadlock is checked; `PollRequest` is always possible when the mutex is free, so
a deadlock is a handler that cannot handle the head of the agenda: an event
nobody asked for.

| Run | Instance | Shows |
|---|---|---|
| `launch_all` | main app, shell and one pane, two programs, two revisions, every request but `switch_pane_to_external_native` and `recover_overlay`, every outcome | `TypeOK`; `LaunchIndexExact`: indexes and launch table are inverse; `NothingIsLost`: every managed program is the one its slot runs or is being stopped, every unconfirmed one is named by its slot; `RunsWhatIsWanted`; `OneShellLaunch`; `AnswersAreAwaited`: every answer to a stop finds the stop, and no pid is asked about twice; `OnlyOwnersRun`: a released pane and a shell without the role run nothing; `LoneSlotShowsLiveProgram`: while one slot alone launches, none shows a program that has ended |
| `launch_waits` | main app, shell and pane compete for the overlay role, windows owned by descendants; starts succeed or fail; every request but `native_pane.host` and `native_pane.update`, four of them; `FairSpec` | `WantedIsLaunched`: a launch that waited for a stop happens; `RequestsEnd`: stops and launches end, a deferred main app comes up |
| `exit_before_start` | main app and one pane, four requests | a finding (section 4): `NoDeadProcessShown` is violated |

What the properties do not claim, because the code does not do it:

- `WantedIsLaunched` is checked without unconfirmed starts, revisions and
  `native_pane.update` (section 6 says what each of them does to it), and `OnlyOwnersRun`
  is about confirmed starts: a cancelled launch that stays unconfirmed is dropped
  and not retried, and a pane released meanwhile leaves the program running when
  it comes late (`state.rs:517`; `docs/native-pane-control-contract-2026-04-24.md:74`
  says a release terminates it);
- `NothingIsLost` and `OnlyOwnersRun` are about runs without
  `switch_pane_to_external_native`, which launches beside a stop in flight and
  can lose a program, and `OnlyOwnersRun` about runs without `recover_overlay`,
  which can leave a shell without role attached (section 4). Each takes six
  requests to see; three requests would not have shown it, the proofs did;
- `NothingIsLost` and `RunsWhatIsWanted` are not checked with windows owned by a
  descendant. Such a window replaces the launch pid (`state.rs:2884`); a later
  release then terminates a pid the manager does not know, and the launched
  program is left alone;
- `LoneSlotShowsLiveProgram` is about one slot: with two, the re-entrant poll
  (`state.rs:225`) applies an exit before its start and the dead pid becomes the
  slot's running process (section 4). With `recover_overlay` one slot is
  enough: it attaches a window whose program the worker gave up after a failed
  stop, so that nobody will tell its exit;
- a revision update while the launch is in flight makes the answer stale and
  relaunches the program (`state.rs:413`), where the contract (line 60) says
  revision updates do not relaunch;
- a window matched by its token and attached while the start is pending is
  overwritten by the later `SpawnStarted` (`state.rs:484`).

### Processes

| Run | Instance | Shows |
|---|---|---|
| `process_manager` | two requests, two pids, two unit slots, faults in three groups, one with a unit left from before, `FairSpec` | `OneCopy`: the program of a request is started once; `UnitsAreWhole`: types, stops reach the own unit, the newest news of a living program is that it runs; `LostOnlyByStop`: a running program is let go of only by a stop of it; `ImplementsChildControl`; `AllIsReported`: spawns are answered, exits reported |
| `child_supervisor` | records of one byte, pipes of two, every kind of fault, `FairSpec` | `WritersKeepReaders`: nobody who can write loses the reader; `SessionIsWhole`: events are well formed and the journal is the transcript; `ExitIsTold`; `NobodyWaitsForEver`: writers are drained, the session ends |

Two pids for two requests make every reuse happen that the tables can tell
apart; with two slots a name is taken again after one collision. A record of one
byte makes the limit of a record and the limit of a pipe differ by one write.

### Windows, focus and input

| Run | Instance | Shows |
|---|---|---|
| `surface_roles` | up to three windows of the main app, its helper, two programs of the pane and the shell, in eight scenes with their faults | `RolesAreWhole`: one place per window, status names the roles, an attached slot has its window; `TicksSettleRoles`: after each frame roles match owners and what can be decided is decided; `CloseOnlyWhenCertain` |
| `focus` | eleven scenes of twelve windows, two panes, two buttons, guarded and unguarded focus, plans, regions, program exits | `RegionsNameTheirPane`, `FocusStatusAgrees`, `ClickedWindowGetsKeys`, `ReleaseMatchesPress`, `InputFollowsPaint` |

Each window appears and dies once; a scene has those that can meet in one list.
`TicksSettleRoles` says what holds after every frame; that frames come is the
timer of the event loop. Two properties leave out a popup that is not routed with
a pane (`Unrouted`): of the main app or the overlay, or left behind by a dialog
of a pane whose window is gone. `update_native_pane_member_map_state` still
gives such a popup the keyboard, but no route and no group knows it.
`InputFollowsPaint` does not claim the order of two
accessories of one pane, main app popups over other windows, popups of a pane
that left the status, or regions that do not capture: there the code paints in
one order and hits in another. With the CPU fall-back ordinary windows are not
painted at all.

### Host output

`Budget` bounds how often commands, hotplug events, pauses and faults happen;
frames, completions, client commits and ticks are not bounded. One command, one
hotplug event and one fault, at every point of each other's handling, are what
one transaction, one candidate and one rollback need. When a budget is spent and
nothing is queued the system may rest, so deadlock is not checked.

| Run | Instance | Shows |
|---|---|---|
| `host_faults` | two devices, two modes, a scale or a rotation, every fault but `bind` and `loop`, `FairSpec` | `HostIsWhole`: types, pipelines follow claims, a candidate is undecided, transaction and queued frame are consistent; `QueuedIsNotWithdrawn`; `ImplementsTransaction`; `RotationAnswered`; `OutputComesBack`: display and status come back |
| `host_pause` | two devices, two pauses, every fault, `EmptyReadFails` | `PipelinesFollowClaims` |
| `pause_stuck` | one device, one pause, `FairSpec` | `DisplayComesBack` is violated (section 4) |

What they do not claim, because the code does not do it:

- the frame of a transaction is not in flight after a pause, which sets it aside
  with its pipeline; the other properties are therefore checked without pauses;
- two pauses around a reclaim can complete the candidate's frame while the
  session is paused, because `mark_claim_lost` returns early while a retired
  claim exists (`runtime.rs:2649`); the status then reports an owned output;
- the status does not come back after the fault `bind`: when the event source
  cannot be registered, the publication is lost (`runtime.rs:1988`);
- where reading no DRM events is an error and the retired pipeline is idle, the
  drain before a reclaim fails each time (`runtime.rs:3840`); liveness takes the
  other value, `docs/adversarial-pass-host-commit-present-failure-recovery-2026-04-07.md`
  describes the recovery that is meant;
- two monitor changes before a timer tick queue two modes (`runtime.rs:1956`);
  the mode of the first, closed output is committed for the second.

### Host session

| Run | Instance | Shows |
|---|---|---|
| `session` | measurement of one unit with three inputs and flips; one pane, two places, two scales, three generations; two boots, three requests, two failures; five devices, two failed steps | `ValidCaptureIsHonest`; `CaptureIsOfCommittedGeometry`; `CommitSettlesPanes`: after a commit every pane with a window has the rectangle of its plan and is painted, or its client knows the size to draw; `PendingStartIsKept`; `AnsweredRotationIsKept`; `PaintsOffScreen`; `OverlayShownOnce` |
| `retry_stuck` | the process alone, `RetrySpec` | `HostComesUp` is violated (section 4) |

Three generations are one committed, one withdrawn and one staged anew; a pane
acts alone here. Two boots are what a crash and its recovery need. The five
devices are: no atomic commits, no overlay plane, a useful one, one without
alpha, one that cannot blend. `CardAssumption` leaves out cards whose overlay
planes all lie below the primary: the code uses them and "leaves driver
defaults" (`runtime.rs:4490`), and the overlay is then hidden; the document
`docs/adversarial-pass-host-atomic-zpos-ordering-2026-04-08.md` accepts that.

## 4. Findings

Three runs expect a violation.

- `pause_stuck`: a pause while a transaction's frame is in flight. After the
  resume the completion is dropped by the drain, the transaction is never
  resolved, no later mutation is staged, so the candidate is never armed and
  nothing is ever drawn; a client that asked for the rotation waits for ever.
- `retry_stuck`: the startup geometry is committed to the shared state before
  the output is claimed. If the claim or a later step fails, each retry of the
  main loop is refused because a geometry is committed, and the runtime never
  comes up in that process.
- `exit_before_start`: the main app's start fails after it was asked for again,
  and the pane's program starts; both answers are in one batch. Handling the
  failure retries the main app, whose launch polls (`state.rs:225`) while the
  pane's start still waits in the batch. An exit of the pane's program taken by that
  poll is applied first and finds no slot with its pid; then the start is applied.
  The pane shows a running process that has ended, nothing corrects it, and
  `native_pane.host` takes the pane for launched. The matrix
  (`docs/binding-compatibility-matrix-2026-04-25.md:16`) says an exit is recorded.

Met while modelling and left as prose, since no run settles them. But for the
first two they are readings of the code, not checked results.

*A lost program.* TLC finds `NothingIsLost` violated when `LaunchAll.cfg` also
allows `switchExternal`, with one program, `MaxOps = 6`, `MaxRevision = 0` and
every start and stop successful. A pane's program exits while the command to stop it
is on the way; `switch_pane_to_external_native` launches the next one beside that
stop (`state.rs:2491`), and a poll nested in the retry of the main app (`state.rs:225`)
applies its start before the answer that the old one is unknown.
`apply_process_termination_failure` (`state.rs:931`) then marks the pane failed
without comparing the pid, as the success path does (`state.rs:742`). The
running program is forgotten, the retry launches a second one, and a release
stops only that; the contract says a release terminates what runs
(`docs/native-pane-control-contract-2026-04-24.md:74`).

*A shell without a role.* TLC finds `OnlyOwnersRun` violated with the requests
`toggle` and `recover` and `MaxOps = 6`. A dismissed shell starts late and is
stopped as a stale start; the shell is opened again before the answer, and
`recover_overlay` attaches the program that is leaving, because the previous
launch had failed (`state.rs:3252`). The next dismissal finds the stop in the
table and asks for none (`state.rs:308`). The answer is that of a stale start,
which leaves the slot alone (`state.rs:765`): the shell stays attached to a pid that
has ended, without holding the role.

*Geometry and presentation.* During a quarter turn a native client that
acknowledges the staged size is at once configured back to the old one
(`ack_configure`, `runtime.rs:11741`, uses the committed rectangle); if it redraws
both before the tick, its buffer is rejected and the stage does not become
ready. For a scale or a half turn no configure is sent, so the stage waits for a
commit the client makes on its own. A moved pane is not refreshed until an attach
or a geometry commit (`state.rs:2571`). After a withdrawn transaction buffers
tagged with the staged generation are not painted and nobody is configured. A
capture lacks the overlay when it is on a plane of its own; a failed readback
silently keeps the older frame. The overlay plane has one buffer, redrawn while
it is shown (`runtime.rs:5661`). The software cursor, popups and accessories of
panes fall beneath the overlay when the plane is split. Dropping the GLES
renderer or direct scan-out while its buffer is shown frees that framebuffer
and blanks the screen until the next flip (`Gone` in `ScanoutBuffers`).

*Process.* While the control thread waits for a rotation during startup
retries the socket serves nobody (`control.rs:501`); a rotation equal to the
current one is answered without being stored; the store is not synced; a
withdrawn scale is not tried again; a config change between the first read and
the watcher's start is lost (`main.rs:1034`).

*Focus.* Pressing again an ordinary window that holds the keyboard, while a
control focus request is unrouted, keeps the keyboard there but the status
reports the pane; keys after a click on a popup of the main app or the overlay
go to its toplevel; guarded focus accepts an equal revision and, with no
instance, a pane that is not in the presentation; regions are not pruned when
a start fails; `apply_focus_route` overwrites a request accepted between its two
lock sections.

*Roles.* Deferred admissions of destroyed windows are not pruned; an overlay
that is demoted after its client is gone is not detached; a destroyed pane
window whose client pid is gone does not detach the pane, where
`docs/binding-compatibility-matrix-2026-04-25.md:15` says it does.

*Measurement.* A flip stamped in the window but handled before the press is not
counted, and an event lost to contention before the press makes the whole
capture invalid.

## 5. Fairness and liveness

`LaunchLifecycle!Fairness` is weak fairness of three things. `Step`: whoever
holds the mutex finishes its handler; nothing in a handler blocks. `Worker`: the
worker loop takes the next command or reaps, and its systemd calls time out.
`PollRequest`: somebody polls; a running runtime does on every redraw and a
client does with `get_status`. Requests, windows and program exits get none.

`ProcessManager!Fairness` is weak fairness of the worker, whose waits all have a
timeout, and of supervisors and `systemd-run` clients. No program needs to end.

`ChildSupervisor!Fairness` is weak fairness of the main thread and of each pump.
The child, its descendants and the faults get none.

`HostOutput!Fairness` is weak fairness of the timer and of DRM events, which
calloop dispatches; of `PageFlip`, the display completing a queued frame; of
`ActivateSession`, a paused session being resumed; of `NativeCommit`, native
clients committing the buffer the stage waits for, or going away; of
`ReadAnswer`, the control server blocked on its channel. Faults, hotplug, pauses
and commands get none. Every property is conditional on a display that can be
used (`Usable`); with none the code rightly waits.

`HostSession!RetrySpec` is weak fairness of `Progress`, the steps of the main
thread; used only by `retry_stuck`, whose failures are bounded.

## 6. Proofs

| Property of a run | Theorem | Along |
|---|---|---|
| `TypeOK` of the launch lifecycle | `TypeCorrect` | itself |
| `LaunchIndexExact`, `OneShellLaunch` | `LaunchIndexSafe`, `OneShellLaunchSafe` | `IndexInv` |
| `AnswersAreAwaited` | `EveryAnswerIsAwaited` | `Awaited` |
| `NothingIsLost`, `RunsWhatIsWanted`, `OnlyOwnersRun` | `NoProgramIsLost`, `RunsWhatIsWantedSafe`, `OnlyOwnersRunSafe` | `Kept`, `Wants`, `ShellRole` |
| `WantedIsLaunched` | `WantedIsLaunchedSafe` | `Kept`, `Wants`, `Pursued` |
| `LoneSlotShowsLiveProgram` | `OnlyLiveProgramsShown` | `Kept`, `Wants`, `ExitInv` |
| `OneCopy`, `UnitsAreWhole`, `LostOnlyByStop` | `StartedOnce`, `BooksAreWhole`, `ProgramsAreLostOnlyByStops` | `ManagerInv` |
| `ImplementsChildControl` | `ManagerImplementsContract` | `ManagerInv` before and after the step |
| `SessionIsWhole`, `WritersKeepReaders` | `SessionStaysWhole`, `WritersAlwaysKeepReaders` | `SupervisorInv`, itself |
| `PipelinesFollowClaims`, `QueuedIsNotWithdrawn`, `HostIsWhole` | `PipelinesAlwaysFollowClaims`, `QueuedIsNeverWithdrawn`, `HostStaysWhole` | `HostInv`, the last with `Anchored` |
| `ImplementsTransaction` | `HostImplementsTransaction` | `HostInv`, `Effect` |
| `PaintsOffScreen`, `OverlayShownOnce` | `PaintsOffScreenSafe`, `OverlayShownOnceSafe` | `ScanoutInv` |
| `ValidCaptureIsHonest` | `ValidCaptureIsHonestSafe` | `MeasInv` |
| `CaptureIsOfCommittedGeometry`, `CommitSettlesPanes` | `CaptureSafe`, `CommitSettles` | `SceneInv` |
| `PendingStartIsKept`, `AnsweredRotationIsKept` | `PendingStartSafe`, `AnsweredRotationSafe` | `SessionInv`, `RotationInv` |
| `ReleaseMatchesPress`, `RegionsNameTheirPane` | `ReleaseMatchesPressSafe`, `RegionsNameTheirPaneSafe` | `ButtonInv`, `RegionInv` |
| `InputFollowsPaint` | `InputFollowsPaintWhereShown`, `InputFollowsPaintSafe` | `Listed`, `PanesInv` |
| `FocusStatusAgrees` | `FocusStatusAgreesSafe` | `FocusInv`, with `Listed` and `RegionInv` |
| `ClickedWindowGetsKeys` | `ClickedWindowGetsKeysSafe` | `ClickInv`, with `FocusInv` |

But for `TypeOK` and `WritersKeepReaders` none of these properties is inductive; what each invariant adds, and why:

**Launch lifecycle.** `LaunchLifecycle_proofs` proves type correctness, one lemma
per action, from lemmas on record and slot updates, on the agenda and on the
channels. `IndexInv`: a shell launch does not look at the
launch index, so exactness after `LaunchSlot` needs that the index is 0 whenever
a shell launch is on the agenda (`ShellLaunchIsNext`), which needs that a retry,
the only source of such entries beside a toggle, happens when a stop of the
shell was pending, and that then the index is 0 (`ShellStopsBeforeLaunch`).
Removing a released pane resets its slot without looking at the index either;
`RemovedPaneIsIdle` says that the poll in between could not launch it.
`Awaited` says for each pid that the commands to stop it, the answers in the
channel and those on the agenda are together as many as its stops, of which
there is one at most (`Balanced`). `Terminate`, which does
nothing for a pid already asked about, adds a command and a stop; the worker
turns the command into an answer, a poll moves answers to the agenda, and
`Terminated` takes the answer and the stop away. The counts are cardinalities of sets of
positions, with lemmas on what appending, dropping the head and
joining two sequences do to them.

`Kept`, of `NothingIsLost`, is about every child and every slot. Commands name what
they should (`CmdsTrue`), what the worker said is so (`EventsTrue`), and a stop is of
a program that was started for the stop's slot (`StopsOwned`). Per slot: the pid it
shows was started for it; a slot that has a launch pending, a stop in flight, a
launch or a removal on the agenda (`Taken`) has its running program stopped or
gone (`TakenIsHandled`), so that nothing that overwrites the slot then loses one;
an unconfirmed launch is named, and alone (`UnconfirmedIsAlone`), which is why a
stop's answer cannot hit the wrong slot; and each program the worker manages and
told of is the slot's or handled (`KnowsProgram`). `Wants` adds that an answered launch
is not pending or cancelled again, that a stale stop is never of the program a slot
shows, and that the program shown was launched for what the slot wants now unless it
is being stopped (`WantKnown`): a changed plan must stop the program or cancel its
launch in the same step. `ShellRole`: the shell is launched only while it holds the
role, and a live shell without it is being stopped by a stop that does clear
its slot when answered (`Leaving`). For panes that were given back the theorem
needs `Awaited` as well: with channels and agenda empty no stop is open.

Three hypotheses. `OwnWindows`: windows belong to the launched process
(`Wrappers = FALSE`), since a descendant's window replaces the pid the stop must
name (`state.rs:2884`), and `switch_pane_to_external_native` is not among the requests;
`OnlyOwnersRunSafe` and `OnlyLiveProgramsShown` exclude `recover_overlay` too. With any of them the
property is false (sections 3 and 4). The code allows all three, so the theorems
are about the deployments and requests that do without.

`Pursued`, of `WantedIsLaunched`, says why a launch that had to wait happens: a slot
that is due (it has its right and its plan, and shows no trace of a program) has a
launch pending, a stop in flight, or its launch on the agenda. A step that takes
one of the three away must leave another or decide the slot: a launch is answered
with a running or failed program, a stop ends with a retry, a launch on the agenda
that may not start has found one of the other two (`DueMayLaunch`). That needs the
pending launches to be current (`AllCurrent`): a launch outdated while pending is
answered into nothing. Hence `Assured`: besides `OwnWindows`, no unconfirmed start,
no `native_pane.update` and one revision. TLC has a short counterexample without
each of these three: a cancelled start that stays unconfirmed is dropped, an update
brings a plan and launches nothing, and a start outdated by a host request with a
later revision fails without a retry (`state.rs:590`). With
`switch_pane_to_external_native` the run `launch_waits` finds none, and the theorem
claims nothing: `Kept` fails there.

`ExitInv`, of `LoneSlotShowsLiveProgram`, follows a start and its exit from the
worker to the slot. Each launch is answered once, and only while it waits
(`AnswersDue`, `AnsweredOnce`). A started program is managed or its exit comes
after its start, in the channel, on the agenda or from one to the other
(`StartsBeforeExits`), and what a slot shows is managed, told to have ended or being
stopped (`Shows`). Only a poll in front of older events could change that order,
and no start is behind one (`PollsAreLast`): a poll in the middle of a batch comes from
a launch, the launch from a retry, and a slot retries when neither a launch nor a
stop of it is left; a start that still waited would be of the same slot and its
launch be pending, unconfirmed or cancelled. This is where `OneSlot` is needed,
and where it fails with two slots. About windows owned by descendants the theorem
says nothing.

**Process manager.** `ManagerInv` has parts about the worker and the channels
(`Types`, `Queue`, `WorkerAt`, `SamePid`), parts about one request (`Waits`,
`Late`, `Session`, `Unit`, `Reports`) and one about a process id (`Entry`).
What a request and a pid were last told (`NewsOf`, over the channel and what was
drained of it) is the link: `Session` fixes, per state of the supervisor, what
socket, client, pipe and program may be, `Unit` which name belongs to whom, and
`Reports` and `Entry` that books and news agree, also when a pid or a name is
used again. The refinement needs more than `ManagerInv`: that a request whose
news is withheld is carried by somebody (`Carries`, `Replied`, `Requested`,
`Kept`), so that no step lets go of it (`Accounted`). `Transition` then maps each
kind of step to a step of `ChildControl` or to none.

**Child supervisor.** `SupervisorInv` is `OutputInv` and `SessionInv`. What a pump
has read is what was written without what is in the pipe (`Suffix`); as long as it
reported nothing there is a last line border `c` in it such that every line before
`c` has its entry, at the place the borders before it count (`Told`), and the bytes
after `c` are in the record, or were more than the limit and given up (`Pumped`).
Each case of `PumpByte` and of `EmitLast` is a lemma about these values alone; the
induction over the output is the induction over the steps. `SessionInv`: a stream
is silent when it was named or its failure is in the channel, so nothing is left
to name when the session ends; frames are counted by appending them one by one
(`SendOne`) or as the news of a round (`SendNews`).

**Host output.** `Coherent` holds between any two methods a callback makes, not
only between callbacks, because methods are called in many orders; each lemma of
the first part is about one method and its parts (`Typed`, `Pipelines`,
`Undecided`, `Frames`, `Transacts`). `HostInv` adds `Requests`: a rotation that
was asked for is in one place, the inbox, the queue, the transaction or the
answer. For the refinement each method also has an effect on the transaction
(`Effect`: what it may do in one callback, in which order), and a callback's
effects are composed. `HostStaysWhole` has two hypotheses: no pause of the
session and no failed drain (fault `loop`). With either, a frame in flight can
lose its output and the property is false (section 3); its invariant is
`Anchored`.

**Scan-out.** `ScanoutInv` says that kernel, pipeline and surface are in step
(`InStep`), which commit the surface waits for (`Flow`, `Waits`), which pipeline
owns what is on the screen (`Owner`), that the overlay is on exactly one layer of
each commit (`Once`) and that a plan of planes is one the card allows (`Plans`).

**Measurement.** That a valid capture is honest is about the past of a run. While
a capture waits nothing may have happened to it (`Untouched`); while it records
without a flaw, its counters are those of the flips handled since its press,
its device is held, or the event of its release is still queued, and the same
for its output (`Tracked`). Events are queued in the order of time, so once the
end of the input was seen, what is left of the queue is later than the window.

**Scene.** That a capture is of the committed geometry needs that the active
consumers have the committed generation, that a staged generation is the next
one and the one the store waits for, and that a queued frame was captured
(`StageInv`, `CommitInv`). The proof goes along what a step leaves alone
(`SameScene`); `FlipStep` follows the commit through the new consumers, the
store, the buffers and the configures.

**Session.** A start is pending only before the runtime is entered (`PhaseInv`),
and a session that drops commands has none pending (`SessionInv`).
`RotationInv` adds that a rotation is in the channel, the queue or the job and
nowhere twice (`InOnePlace`), that it is the one the control thread waits for
(`AskedFor`), and what file, answer and promise have to do with each other across
a crash (`Kept`). `Drained`, what the runtime makes of its channel, is a recursive
function: that it exists and what it preserves is proved with a smallest
counterexample (`WFMin` of the well-foundedness library), which needs no
induction theorem. Library operators on sequences such as `SelectSeq` have no
such definition the prover can see.

**Focus.** `ButtonInv`: a button that is down was seen by the window of the grab
(`pressed`) or its release is swallowed (`canceled`), and never both.
`RegionInv` adds to the property only the shape of the records; the work is in
`Kept`: every operator that leaves the regions alone leaves each pane's mode,
binding and revision alone, and each operator that does not prunes
(`PrunedNames`). One lemma per operator; the window lists do not matter to either.

`InputFollowsPaint` is about the lists. `Listed` says that each list holds windows
of its kind and the main, overlay and root places likewise. The two
orders are then the same seven slabs, one per kind of window (`Rank`): lemmas
on filtering, reversing, joining and enumerating say which elements a list has,
`SlabConcat` that a list of higher slabs before a list of lower ones is a list
of slabs, `SlabBefore` that two windows of different slabs are in the order of
their slabs in every such list, and `OrdersAgree` draws the conclusion. That
both orders hold the same windows needs that a pane with the focus is shown
(`PaneTargetShown`): `surface_under_point_for_capture` does not look whether the
pane of a popup is still there, `collect_render_elements` does.
`InputFollowsPaintWhereShown` says this for every scenario;
`InputFollowsPaintSafe` says it of the property itself for scenarios that do not take
panes away while their windows are there (`PanesInv`). With both, TLC finds a
popup that gets the input and is not painted, after its pane was released while
it had the focus.

`FocusStatusAgrees` is about the moments when no handler runs, so its invariant
has to say what every handler has left to do. `FocusInv` has four parts.
`Handled`: the lists name windows that live, the keyboard and the agenda windows
that came; a key is the last entry of an agenda, and after a route only a toggle
or a key comes. `Groups`: a window group belongs to a pane with a window
and names that window, but between the close of the window and its detach.
`OrdinaryHeld`: an ordinary window that was clicked while a target was set has
the keyboard, or its focus is the last entry of the agenda. `Settled`: a
control request waits, or the agenda ends in a route, or what is left settles
target, keyboard and group (`Settles`, one disjunct per head of an agenda: what
that step will write, and what must agree already). The proof has one lemma per
step for what it does to each part (`RouteWritten`, `StepAsks`, `ToggleReroutes`,
`SettledStep`) and one per callback for the agenda it leaves (`DialogSettles` to
`ClickSettles`). `Excused` is the exception the property makes: it must be in
every disjunct, because a destroyed popup keeps the keyboard through later
callbacks.

`ClickedWindowGetsKeys` spans several handlers: the click, any callbacks and control
requests after it, and the key's route. `ClickInv` says of the window that was
clicked that its handler is under way (`Pressing`), or that pane, ordinary focus
and target name it, as soon as what was told is applied, and that no entry of the
agenda leads elsewhere (`Aimed`, `Harmless`). An agenda with a key has a route
before it or the keyboard where it should be; a route ends in the window because
`Resolved` finds it (`AimedRoute`). A window that already has the keyboard is told
nothing by `StepFocus`; that the target is its role then follows from `Settled`.
`Claims` is the property's exception: of a popup not routed with a pane only the
main or overlay window it belongs to is followed, and a new window cannot be its
parent, because the parent has come before it (`Rooted`).

Lists are filtered by `Only`, a recursive function, because the prover sees no
definition of `SelectSeq`; that the function exists and which elements it returns is
proved with a smallest counterexample, as for `Drained`.

Assumptions. `ConstantsAssumption` of the launch lifecycle: finitely many panes, whose
ids are neither of the two reserved slots (in the code they are different
fields), a null value outside the specs, and the request kinds and outcomes the
module knows. Of `HostOutput`: finitely many devices, null values that are none
(`NoneAssumption`) and at least one token beside any two (`TokensAssumption`: the
code counts its frames up). Of `ProcessManager`: pids are numbers other than 0
and the requests. `CardAssumption`: plane ids and positions are numbers, ranges
are not empty, and an overlay plane can be above the primary (section 3).
`SceneAssumption`, `SessionAssumption`, `MeasurementAssumption`, `PresentationAssumption`:
null values are none, bounds are numbers. `RequestsAssumption`: a plan names a
pane. TLC evaluates each in the runs of its module. The theorems hold for every
number of panes, programs, devices, modes, requests, pids, windows and faults,
and for every value of the bounds.

Only model-checked:

- every liveness property, which is out of the prover's reach;
- everything about `SurfaceRoles`: the nested promotion of windows (`Promoted`) is a
  RECURSIVE operator, with which the prover loses its arithmetic and set backend.

## 7. Plan

Theorems left: those about `SurfaceRoles`, once the nested promotion is a recursive
function or a prover reads RECURSIVE operators.

Modules that could still be composed: `SurfaceRoles` with `LaunchLifecycle`
(today it carries a small copy of the lifecycles), and `ScanoutBuffers` with
`HostOutput` (a loss of the output is one action in each).

## 8. Not modelled

Rendering, formats, damage, cursor images and EGL set-up: data without control
the properties depend on, and the failure of each step is a choice where it
changes what is claimed or shown. Subsurfaces, decorations, touch, scrolling,
drag and drop, keyboard maps: callbacks of a library without state of the
modelled parts. The rotation algebra and the arithmetic of scaled sizes:
straight-line arithmetic with table tests. The sun schedule: floating point
astronomy and file parsing. Argument parsing, wire types, scripts. The
histogram and the history limit of the measurement. What the sanitizer
recognizes in a line.
