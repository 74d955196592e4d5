---------------------------- MODULE RuntimeSession ----------------------------
(***************************************************************************)
(* One process of the compositor from its start to its end, and the next   *)
(* one: the main thread, which brings the host runtime up and tries again  *)
(* when it cannot (src/src/main.rs, runtime.rs run_host_with_control), the *)
(* control thread, which serves one request at a time (control.rs), the    *)
(* watcher of the display configuration, the channel both talk to the      *)
(* runtime through, and the file the output rotation is remembered in      *)
(* (output_rotation_memory.rs).  What may go wrong with a geometry change  *)
(* once it is staged is in HostOutput: here it is committed or withdrawn.  *)
(***************************************************************************)
EXTENDS Naturals, Sequences

CONSTANTS
  Rotation,     \* output rotations
  UsualRotation,  \* OutputRotation::Deg0
  Factor,       \* display scale factors a configuration can name
  UsualFactor,  \* DEFAULT_DISPLAY_SCALE_FACTOR
  MaxBoots,     \* bound: starts of the process
  MaxAsks,      \* bound: requests, and edits of the configuration
  MaxFails      \* bound: failed attempts and failed writes

NoRotation == "none"
BadConfig  == 0    \* missing, unreadable or not a valid factor

ASSUME SessionAssumption ==
  /\ UsualRotation \in Rotation /\ NoRotation \notin Rotation
  /\ UsualFactor \in Factor /\ BadConfig \notin Factor
  /\ {MaxBoots, MaxAsks, MaxFails} \subseteq Nat

VARIABLES
  proc,   \* the process: its threads, their channel and the shared state
  disk,   \* the rotation file and the configuration file
  book    \* budgets, and what the operator was told

NoJob == [kind |-> "none"]
Job(kind, to) == [kind |-> kind, to |-> to]
Down  == [pc |-> "down"]

Up      == proc.pc # "down"
At(pcs) == proc.pc \in pcs
Move(p, pc) == [p EXCEPT !.pc = pc]
Spend(budget) == book[budget] > 0 /\ book' = [book EXCEPT ![budget] = @ - 1]

-----------------------------------------------------------------------------
\* load_remembered_output_rotation
Remembered == IF disk.rotation = NoRotation THEN UsualRotation ELSE disk.rotation

\* resolve_startup_output_rotation; an invalid argument is NoRotation too
StartRotation(explicit) == IF explicit = NoRotation THEN Remembered ELSE explicit

\* read_optional_root4_config and new_state_with_optional_root4_config
StartFactor == IF disk.config = BadConfig THEN UsualFactor ELSE disk.config

\* OutputRotationMemory::store; the write or the rename may fail, which is
\* only printed
Stored(rotation, ok, told) ==
  IF ok THEN disk' = [disk EXCEPT !.rotation = rotation] /\ book' = told
  ELSE /\ told.fails > 0 /\ UNCHANGED disk
       /\ book' = [told EXCEPT !.fails = @ - 1, !.unstored = TRUE]

\* What the operator is told to be in force; `doubtful` are the rotations
\* that were asked for since and got no answer
Promise(b, rotation) == [b EXCEPT !.promised = rotation, !.doubtful = {}]

\* run_server up to the shared state; the control socket is bound or not
Boot(explicit, host, listens) ==
  /\ ~Up /\ Spend("boots")
  /\ proc' = [pc |-> "new", host |-> host, listens |-> listens, explicit |-> explicit,
              phase |-> "inactive", pending |-> FALSE, sized |-> FALSE,
              rotation |-> StartRotation(explicit), factor |-> StartFactor,
              seen |-> BadConfig, watches |-> FALSE,
              ctl |-> "off", asked |-> NoRotation, chan |-> <<>>, queue |-> <<>>,
              job |-> NoJob, done |-> FALSE]
  /\ UNCHANGED disk

\* persist_startup_output_rotation_if_explicit
PersistStartup(ok) ==
  /\ At({"new"})
  /\ proc' = Move(proc, "spawn")
  /\ IF proc.explicit = NoRotation THEN ok /\ UNCHANGED <<disk, book>>
                                   ELSE Stored(proc.explicit, ok, Promise(book, proc.explicit))

\* The control thread, and for the host runtime the watcher, start; the
\* other runtimes are served without a channel
SpawnThreads ==
  /\ At({"spawn"})
  /\ proc' = [proc EXCEPT !.ctl = IF proc.listens THEN "idle" ELSE "off",
                          !.pc = IF proc.host THEN "mark" ELSE "nested"]
  /\ UNCHANGED <<disk, book>>

\* spawn_root4_config_watcher: what it finds first is taken as known
WatcherStarts ==
  /\ Up /\ proc.host /\ ~proc.watches /\ ~At({"new", "spawn"})
  /\ proc' = [proc EXCEPT !.watches = TRUE, !.seen = disk.config]
  /\ UNCHANGED <<disk, book>>

WatcherReads ==
  /\ Up /\ proc.watches /\ proc.seen # disk.config
  /\ proc' = [proc EXCEPT !.seen = disk.config,
       !.chan = IF disk.config = BadConfig THEN @ ELSE Append(@, Job("scale", disk.config))]
  /\ UNCHANGED <<disk, book>>

\* mark_host_runtime_start_requested, on behalf of the bootstrap
MarkBootstrap ==
  /\ At({"mark"}) /\ proc' = [Move(proc, "send") EXCEPT !.pending = TRUE]
  /\ UNCHANGED <<disk, book>>

SendStart ==
  /\ At({"send"})
  /\ proc' = [Move(proc, "receive") EXCEPT !.chan = Append(@, Job("start", 0))]
  /\ UNCHANGED <<disk, book>>

\* The main thread waits for a start; what else comes is refused or dropped
Receive ==
  /\ At({"receive"}) /\ proc.chan # <<>>
  /\ LET head == Head(proc.chan)
         rest == [proc EXCEPT !.chan = Tail(@)]
     IN proc' = CASE head.kind = "start"    -> Move(rest, "attempt")
                  [] head.kind = "rotation" -> [rest EXCEPT !.ctl = "idle", !.asked = NoRotation]
                  [] OTHER                  -> rest
  /\ UNCHANGED <<disk, book>>

-----------------------------------------------------------------------------
\* mark_runtime_starting
MarkStarting ==
  /\ At({"attempt"})
  /\ proc' = [Move(proc, "starting") EXCEPT !.phase = "starting", !.pending = FALSE]
  /\ UNCHANGED <<disk, book>>

\* Opening the devices, claiming one of their outputs or what comes after
\* fails; retry_runtime_until_stopped begins again
AttemptFails ==
  /\ At({"starting", "preflight", "claim"}) /\ Spend("fails")
  /\ proc' = Move(proc, "attempt")
  /\ UNCHANGED disk

\* mark_runtime_host_preflight_ready
Preflight ==
  /\ At({"starting"})
  /\ proc' = [Move(proc, "preflight") EXCEPT !.phase = "preflight_ready"]
  /\ UNCHANGED <<disk, book>>

\* prepare_initial_root4_geometry and its commit, before the output is claimed
StageStartup ==
  /\ At({"preflight"})
  /\ proc' = IF proc.sized THEN Move(proc, "attempt")
                           ELSE [Move(proc, "claim") EXCEPT !.sized = TRUE]
  /\ UNCHANGED <<disk, book>>

\* mark_runtime_host_running
Runs ==
  /\ At({"claim"})
  /\ proc' = [Move(proc, "serving") EXCEPT !.phase = "running"]
  /\ UNCHANGED <<disk, book>>

\* run_winit; while it fails it is entered again
NestedRuns ==
  /\ At({"nested"})
  /\ proc' = [Move(proc, "window") EXCEPT !.phase = "running"]
  /\ UNCHANGED <<disk, book>>

\* Its window is closed: the process ends
WindowCloses == At({"window"}) /\ proc' = Down /\ UNCHANGED <<disk, book>>

-----------------------------------------------------------------------------
\* ingest_root_geometry_commands: all the channel holds, one after the other; a
\* start is dropped
Drained(queue, chan) ==
  LET kept[i \in 0 .. Len(chan)] ==
        IF i = 0 THEN queue
        ELSE IF chan[i].kind = "start" THEN kept[i - 1] ELSE Append(kept[i - 1], chan[i])
  IN kept[Len(chan)]

Ingested(p) == [p EXCEPT !.queue = Drained(@, p.chan), !.chan = <<>>]

\* stage_next_root_geometry_mutation, on each tick of the runtime
StageNext ==
  /\ At({"serving"}) /\ proc.job = NoJob /\ proc.chan \o proc.queue # <<>>
  /\ LET p == Ingested(proc)
     IN proc' = IF p.queue = <<>> THEN p
                ELSE [p EXCEPT !.job = Head(p.queue), !.queue = Tail(@)]
  /\ UNCHANGED <<disk, book>>

\* commit_root4_geometry: a rotation is stored if it changes
Rotated(p)  == IF p.job.kind = "rotation" THEN p.job.to ELSE p.rotation
Committed(p) ==
  [p EXCEPT !.rotation = Rotated(p),
            !.factor = IF p.job.kind = "scale" THEN p.job.to ELSE @, !.done = TRUE]

\* Mutant of CommitJob: the two rotations are compared after the change
CommitJobCompareLate(ok) ==
  /\ At({"serving"}) /\ proc.job # NoJob /\ ~proc.done
  /\ proc' = Committed(proc)
  /\ IF Rotated(proc) = proc'.rotation THEN ok /\ UNCHANGED <<disk, book>>
                                       ELSE Stored(Rotated(proc), ok, book)

CommitJob(ok) ==
  /\ At({"serving"}) /\ proc.job # NoJob /\ ~proc.done
  /\ proc' = Committed(proc)
  /\ IF Rotated(proc) = proc.rotation THEN ok /\ UNCHANGED <<disk, book>>
                                      ELSE Stored(Rotated(proc), ok, book)

\* The control thread gets its answer
Answered(p) == [p EXCEPT !.ctl = "idle", !.asked = NoRotation]

AnswerJob ==
  /\ At({"serving"}) /\ proc.done
  /\ LET p == [proc EXCEPT !.job = NoJob, !.done = FALSE]
     IN IF proc.job.kind = "rotation"
          THEN proc' = Answered(p) /\ book' = Promise(book, proc.job.to)
          ELSE proc' = p /\ UNCHANGED book
  /\ UNCHANGED disk

\* discard_staged_root_geometry, or a geometry that cannot be staged
WithdrawJob ==
  /\ At({"serving"}) /\ proc.job # NoJob /\ ~proc.done /\ Spend("fails")
  /\ LET p == [proc EXCEPT !.job = NoJob]
     IN proc' = IF proc.job.kind = "rotation" THEN Answered(p) ELSE p
  /\ UNCHANGED disk

-----------------------------------------------------------------------------
\* SetOutputRotation: with a channel, the control thread waits for the answer
AskRotation(rotation) ==
  /\ Up /\ proc.host /\ proc.ctl = "idle" /\ Spend("asks")
  /\ proc' = [proc EXCEPT !.ctl = "waiting", !.asked = rotation,
                          !.chan = Append(@, Job("rotation", rotation))]
  /\ UNCHANGED disk

\* SetOutputRotation without a channel: try_set_output_rotation
RotateNested(rotation, ok) ==
  /\ Up /\ ~proc.host /\ proc.ctl = "idle" /\ book.asks > 0
  /\ proc' = [proc EXCEPT !.rotation = rotation]
  /\ Stored(rotation, ok, [Promise(book, rotation) EXCEPT !.asks = @ - 1])

\* Mutant of AskStart: a runtime that is on its way or up is asked again
AskStartAnyPhase ==
  /\ Up /\ proc.host /\ proc.ctl = "idle" /\ ~proc.pending /\ Spend("asks")
  /\ proc' = [proc EXCEPT !.pending = TRUE, !.chan = Append(@, Job("start", 0))]
  /\ UNCHANGED disk

\* StartHostRuntime: sent and marked under the lock of the state
AskStart ==
  /\ Up /\ proc.host /\ proc.ctl = "idle" /\ Spend("asks")
  /\ proc.phase \notin {"starting", "preflight_ready", "running"} /\ ~proc.pending
  /\ proc' = [proc EXCEPT !.pending = TRUE, !.chan = Append(@, Job("start", 0))]
  /\ UNCHANGED disk

\* The operator edits the configuration
Edit(config) ==
  /\ disk.config # config /\ Spend("asks")
  /\ disk' = [disk EXCEPT !.config = config]
  /\ UNCHANGED proc

\* The process is killed
Crash ==
  /\ Up /\ proc' = Down
  /\ book' = [book EXCEPT !.doubtful = @ \cup ({proc.asked} \ {NoRotation})]
  /\ UNCHANGED disk

SessionInit ==
  /\ proc = Down
  /\ disk \in [rotation : {NoRotation}, config : {UsualFactor}]
  /\ book = [boots |-> MaxBoots, asks |-> MaxAsks, fails |-> MaxFails,
             promised |-> NoRotation, doubtful |-> {}, unstored |-> FALSE]

MainThread ==
  \/ \E ok \in BOOLEAN : PersistStartup(ok) \/ CommitJob(ok)
  \/ SpawnThreads \/ MarkBootstrap \/ SendStart \/ Receive
  \/ MarkStarting \/ AttemptFails \/ Preflight \/ StageStartup \/ Runs
  \/ NestedRuns \/ WindowCloses \/ StageNext \/ AnswerJob \/ WithdrawJob

ControlThread ==
  \/ \E r \in Rotation : AskRotation(r) \/ \E ok \in BOOLEAN : RotateNested(r, ok)
  \/ AskStart

SessionNext ==
  \/ MainThread \/ ControlThread \/ WatcherStarts \/ WatcherReads
  \/ \E r \in Rotation \cup {NoRotation}, host, listens \in BOOLEAN : Boot(r, host, listens)
  \/ \E c \in Factor \cup {BadConfig} : Edit(c)
  \/ Crash

\* The main thread goes on, whatever fails on the way; it fails MaxFails times
Progress ==
  \/ PersistStartup(TRUE) \/ SpawnThreads \/ MarkBootstrap \/ SendStart \/ Receive
  \/ MarkStarting \/ Preflight \/ StageStartup \/ Runs

-----------------------------------------------------------------------------
\* A start of the host runtime that the status shows as pending does come:
\* it is in the channel, about to be sent or just taken from it, and not
\* among those a running session drops.
PendingStartIsKept ==
  (Up /\ proc.pending) =>
    \/ At({"send", "attempt"})
    \/ \E i \in DOMAIN proc.chan : proc.chan[i].kind = "start"

\* As long as every write succeeds, the rotation the operator was told to be
\* in force is the one the next process starts with, unless a later request
\* was cut off; and a running process shows what its successor would.
AnsweredRotationIsKept ==
  ~book.unstored =>
    /\ book.promised # NoRotation =>
         Remembered \in {book.promised} \cup book.doubtful \cup (IF Up THEN {proc.asked} ELSE {})
    /\ (Up /\ ~At({"new"})) => proc.rotation = Remembered

\* A host runtime that fails to come up, but not for ever, comes up in the end.
HostComesUp == At({"attempt"}) ~> At({"serving", "down"})
=============================================================================
