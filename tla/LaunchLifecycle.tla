--------------------------- MODULE LaunchLifecycle ---------------------------
(***************************************************************************)
(* How CompositorState (src/src/state.rs) launches, replaces and stops the *)
(* child programs it hosts: the main app, the shell overlay and one native *)
(* host per pane.  Every slot asks a process controller to spawn and to    *)
(* terminate; the controller is a worker thread behind two FIFO channels   *)
(* (src/src/process_manager.rs), so every answer arrives later and in      *)
(* between the client, the runtime and the operating system go on.         *)
(*                                                                         *)
(* Two threads of control are interleaved:                                 *)
(*  - whoever holds the mutex around CompositorState.  `work` is the rest  *)
(*    of what that holder still has to do: process events it has drained   *)
(*    and calls it has not made yet.  A new request starts only when       *)
(*    `work` is empty, that is when the mutex is free.  Spawning polls the *)
(*    controller re-entrantly (request_process_spawn), so freshly drained  *)
(*    events run before the rest of the batch that was being applied;      *)
(*  - the worker, and the child programs, at any moment.                   *)
(*                                                                         *)
(* A process id is named by the request it belongs to: r is the process    *)
(* request r started, -r a descendant of it that owns the window, 0 none.  *)
(* So pids are not reused here.  A launch token is named by the request it *)
(* was minted for.                                                         *)
(***************************************************************************)
EXTENDS Integers, Sequences, FiniteSets, SequencesExt

CONSTANTS
  Panes,       \* pane ids a provider can name
  Specs,       \* what to run: an intent, a native host identity, the shell
  None,        \* no spec, no slot
  Requests,    \* the request kinds clients and runtime make in an instance
  Outcomes,    \* the answers a spawn request can get
  StopMayFail, \* can `systemctl stop` fail?
  Wrappers,    \* can a descendant of the launched process own the window?
  MaxOps,      \* bound: number of requests
  MaxRevision  \* bound: native host revisions

Main  == "main"
Shell == "shell"
Slots == Panes \cup {Main, Shell}

RequestKinds == {"selectMain", "runtime", "toggle", "host", "update",
                 "release", "launchHosts", "switchExternal", "switchSurfAce",
                 "snapshot", "recover"}

ASSUME ConstantsAssumption ==
  /\ Main \notin Panes /\ Shell \notin Panes
  /\ IsFiniteSet(Panes)
  /\ None \notin Specs /\ None \notin Slots
  /\ Requests \subseteq RequestKinds
  /\ Outcomes \subseteq {"started", "unconfirmed", "failed"}
  /\ StopMayFail \in BOOLEAN /\ Wrappers \in BOOLEAN
  /\ MaxOps \in Nat /\ MaxRevision \in Nat

VARIABLES
  slot,        \* per slot: wanted spec, lifecycle, and its launch indexes
  panes,       \* the pane ids in CompositorState.panes
  provided,    \* those a provider snapshot owns (provider_owned)
  overlay,     \* OverlayRolePolicy.active_overlay_pane
  running,     \* runtime.phase is Running
  launch,      \* request log: launch[r] is what request r was issued for
  pending,     \* keys of pending_process_launches
  unconfirmed, \* keys of unconfirmed_process_launches
  cancelled,   \* keys of cancelled_process_launches
  stops,       \* pending_process_stops
  ustops,      \* pending_unconfirmed_process_stops
  cmds,        \* channel to the worker
  evts,        \* channel from the worker
  work,        \* what the holder of the state mutex still has to do
  ops,         \* requests made so far (bounded by MaxOps)
  app,         \* the worker's table: what it knows of request r's child
  alive        \* requests whose program is running

slots    == <<slot, panes, provided, overlay, running>>
tables   == <<launch, pending, unconfirmed, cancelled, stops, ustops>>
children == <<app, alive>>
vars     == <<slots, tables, children, cmds, evts, work, ops>>

-----------------------------------------------------------------------------
(* Slots *)

Live == {"launching", "attached"}

Vacant == [want |-> None, rev |-> 0, st |-> "absent", pid |-> 0,
           idx |-> 0, ureq |-> 0, token |-> 0]

ReqOf(pid) == IF pid < 0 THEN -pid ELSE pid

\* running_pid
RunningPid(s) == IF slot[s].st \in Live THEN slot[s].pid ELSE 0

\* external_native_pid and main_app_pid: an exited slot still names its pid
KnownPid(s) == IF slot[s].st \in Live \cup {"exited"} THEN slot[s].pid ELSE 0

\* process_pid_has_exited
HasExited(pid) == \E s \in Slots : slot[s].st = "exited" /\ slot[s].pid = pid

\* Mistake: only the two stop tables are looked at.
StopTabled(s) == \E x \in stops \cup ustops : x.slot = s

\* pending_main_app_stop, pending_native_pane_stop, pending_shell_overlay_stop
Stopping(s) == \/ \E x \in stops \cup ustops : x.slot = s
               \/ \E r \in cancelled : launch[r].slot = s

\* pending_process_launch_is_current
IsCurrent(r) ==
  LET s == launch[r].slot IN
  /\ slot[s].idx = r
  /\ slot[s].want = launch[r].spec
  /\ s = Main => running
  /\ s \in Panes => /\ s \in panes
                    /\ slot[s].rev = launch[r].rev
                    /\ slot[s].token = r

\* Mistake: only the unconfirmed index is cleared.
ClearUnconfirmedOnly(sl, r) ==
  LET s == launch[r].slot IN
  [sl EXCEPT ![s] = [@ EXCEPT !.ureq = IF sl[s].ureq = r THEN 0 ELSE sl[s].ureq]]

\* clear_pending_launch_index
ClearIndex(sl, r) ==
  LET s == launch[r].slot IN
  [sl EXCEPT ![s] = [@ EXCEPT
     !.idx  = IF sl[s].idx = r THEN 0 ELSE sl[s].idx,
     !.ureq = IF sl[s].ureq = r THEN 0 ELSE sl[s].ureq]]

\* What a slot with no program left to wait for falls back to.
Rest(s) == IF s = Main /\ slot[s].want # None THEN "waiting" ELSE "absent"

-----------------------------------------------------------------------------
(* The two channels and the agenda of the mutex holder *)

Cmd(op, id)     == [op |-> op, id |-> id]
Evt(op, id, ok) == [op |-> op, id |-> id, ok |-> ok, slot |-> None]
Todo(op, s)     == [op |-> op, id |-> 0, ok |-> TRUE, slot |-> s]
Poll            == Todo("poll", None)
Launch(s)       == Todo("launch", s)

Do(items) == work' = items \o Tail(work)

\* Mistake: the retry of a deferred launch is left out.
NoRetry(s) == <<>>

(* retry_after_cancelled_launch, retry_after_failed_process_termination and *)
(* the ends of the termination handlers: whether the slot still wants a     *)
(* launch is for LaunchSlot to see.                                         *)
Retry(s) == <<Launch(s)>>

\* Mistake: the stop is entered but the worker is not asked.
TerminateUnsent(pid, kind, s, queue) ==
  /\ cmds' = queue
  /\ stops' = IF pid = 0 \/ \E x \in stops : x.id = pid THEN stops
              ELSE stops \cup {[id |-> pid, kind |-> kind, slot |-> s]}

\* Mistake: a stop already pending is asked for again.
TerminateAgain(pid, kind, s, queue) ==
  IF pid = 0
  THEN stops' = stops /\ cmds' = queue
  ELSE /\ stops' = stops \cup {[id |-> pid, kind |-> kind, slot |-> s]}
       /\ cmds' = Append(queue, Cmd("terminate", pid))

\* request_process_termination: a pid whose stop is pending is left alone.
Terminate(pid, kind, s, queue) ==
  IF pid = 0 \/ \E x \in stops : x.id = pid
  THEN stops' = stops /\ cmds' = queue
  ELSE /\ stops' = stops \cup {[id |-> pid, kind |-> kind, slot |-> s]}
       /\ cmds' = Append(queue, Cmd("terminate", pid))

\* request_process_spawn: record the launch, index it, poll at once.
Spawn(s, sl, rest) ==
  LET r == Len(launch) + 1 IN
  /\ launch' = Append(launch,
                      [slot |-> s, spec |-> sl[s].want, rev |-> sl[s].rev])
  /\ app' = Append(app, "queued")
  /\ pending' = pending \cup {r}
  /\ slot' = [sl EXCEPT ![s] = [@ EXCEPT
                 !.idx = r, !.token = IF s \in Panes THEN r ELSE sl[s].token]]
  /\ cmds' = Append(cmds, Cmd("spawn", r))
  /\ work' = <<Poll>> \o rest
  /\ UNCHANGED <<unconfirmed, cancelled, stops, ustops, evts, alive>>

\* Mistake: the running process is not stopped.
StopNothing(s, queue) == stops' = stops /\ cmds' = queue

StopRunning(s, queue) == Terminate(RunningPid(s), "slot", s, queue)

\* Mistake: a request is cancelled without having been pending.
Cancel(r) == {r}

\* cancel_pending_process_launch: what enters cancelled_process_launches
CancelPending(r) == {r} \cap pending

(* Cancel the launch in flight, cancel the unconfirmed launch, terminate    *)
(* the running process of slot s (apply_provider_snapshot,                  *)
(* apply_native_pane_host_plan, switch_pane_to_surf_ace,                    *)
(* dismiss_shell_overlay; cancel_pending_process_launch).                   *)
ReleaseChild(s) ==
  LET r == slot[s].idx
      u == slot[s].ureq
      stopU == u \in unconfirmed /\ ~ \E x \in ustops : x.id = u
  IN
  /\ pending' = pending \ {r}
  /\ cancelled' = cancelled \cup CancelPending(r)
  /\ unconfirmed' = unconfirmed \ {u}
  /\ ustops' = IF stopU
               THEN ustops \cup {[id |-> u, kind |-> "stale", slot |-> s]}
               ELSE ustops
  /\ StopRunning(s, IF stopU THEN Append(cmds, Cmd("terminateUnconfirmed", u))
                              ELSE cmds)
  /\ UNCHANGED <<launch, children, evts>>

-----------------------------------------------------------------------------
(* Applying one drained event: apply_process_controller_event.  Each handler *)
(* takes the head of `work`.                                                 *)

Applying(op) == work # <<>> /\ Head(work).op = op
Subject == Head(work).id

\* Mistake: a program that started too late is left alone.
LeaveLate(r) == stops' = stops /\ cmds' = cmds

\* A start nobody waits for any more: its program is stopped.
StopLate(r) == Terminate(r, "stale", launch[r].slot, cmds)

SpawnStarted ==
  /\ Applying("started")
  /\ LET r == Subject
         s == launch[r].slot
     IN
     \/ /\ r \in pending /\ IsCurrent(r)
        /\ slot' = [ClearIndex(slot, r) EXCEPT ![s] = [@ EXCEPT
                      !.st = "launching", !.pid = r, !.ureq = 0, !.token = r]]
        /\ pending' = pending \ {r}
        /\ UNCHANGED <<cancelled, stops, cmds>>
     \/ /\ r \in pending /\ ~IsCurrent(r)
        /\ slot' = ClearIndex(slot, r)
        /\ pending' = pending \ {r}
        /\ StopLate(r)
        /\ UNCHANGED cancelled
     \/ /\ r \in cancelled
        /\ cancelled' = cancelled \ {r}
        /\ StopLate(r)
        /\ UNCHANGED <<slot, pending>>
  /\ Do(<<>>)
  /\ UNCHANGED <<panes, provided, overlay, running, launch, unconfirmed,
                 ustops, evts, children, ops>>

(* A launch whose start could not be confirmed.  A cancelled or an outdated *)
(* one is dropped: it is not stopped and nothing is retried.                *)
SpawnUnconfirmed ==
  /\ Applying("unconfirmed")
  /\ LET r == Subject
         s == launch[r].slot
     IN
     \/ /\ r \in pending /\ IsCurrent(r)
        /\ slot' = [ClearIndex(slot, r) EXCEPT ![s] = [@ EXCEPT
                      !.st = "launching", !.pid = 0, !.ureq = r, !.token = r]]
        /\ pending' = pending \ {r}
        /\ unconfirmed' = unconfirmed \cup {r}
        /\ UNCHANGED cancelled
     \/ /\ r \in pending /\ ~IsCurrent(r)
        /\ slot' = ClearIndex(slot, r)
        /\ pending' = pending \ {r}
        /\ UNCHANGED <<cancelled, unconfirmed>>
     \/ /\ r \in cancelled
        /\ cancelled' = cancelled \ {r}
        /\ UNCHANGED <<slot, pending, unconfirmed>>
  /\ Do(<<>>)
  /\ UNCHANGED <<panes, provided, overlay, running, launch, stops, ustops,
                 cmds, evts, children, ops>>

SpawnFailed ==
  /\ Applying("failed")
  /\ LET r == Subject
         s == launch[r].slot
     IN
     \/ /\ r \in pending /\ IsCurrent(r)
        /\ slot' = [ClearIndex(slot, r) EXCEPT ![s] = [@ EXCEPT
                      !.st = "failed", !.pid = 0, !.ureq = 0, !.token = 0]]
        /\ pending' = pending \ {r}
        /\ Do(<<>>)
        /\ UNCHANGED cancelled
     \/ /\ r \in pending /\ ~IsCurrent(r)
        /\ slot' = ClearIndex(slot, r)
        /\ pending' = pending \ {r}
        /\ Do(<<>>)
        /\ UNCHANGED cancelled
     \/ /\ r \in cancelled
        /\ cancelled' = cancelled \ {r}
        /\ Do(Retry(s))
        /\ UNCHANGED <<slot, pending>>
  /\ UNCHANGED <<panes, provided, overlay, running, launch, unconfirmed,
                 stops, ustops, cmds, evts, children, ops>>

\* Mistake: only a slot whose window is not there yet sees the exit.
ExitedUnattached ==
  /\ Applying("exited")
  /\ slot' = [s \in Slots |->
                IF slot[s].st = "launching" /\ slot[s].pid = Subject
                THEN [slot[s] EXCEPT !.st = "exited"] ELSE slot[s]]
  /\ Do(<<>>)
  /\ UNCHANGED <<panes, provided, overlay, running, tables, cmds, evts,
                 children, ops>>

\* record_process_exit_with_observation
Exited ==
  /\ Applying("exited")
  /\ slot' = [s \in Slots |->
                IF RunningPid(s) = Subject
                THEN [slot[s] EXCEPT !.st = "exited"] ELSE slot[s]]
  /\ Do(<<>>)
  /\ UNCHANGED <<panes, provided, overlay, running, tables, cmds, evts,
                 children, ops>>

(* Terminated: apply_process_termination_success, or, when the worker did   *)
(* not know the pid and no slot saw it exit,                                *)
(* apply_process_termination_failure; then the deferred launch is retried.  *)
Terminated ==
  /\ Applying("terminated")
  /\ \E x \in stops :
       LET s == x.slot
           gone == Head(work).ok \/ HasExited(x.id)
           here == x.kind = "slot" /\ (s \in Panes => s \in panes)
           clear == \/ KnownPid(s) = x.id
                    \/ slot[s].st = "waiting"
       IN
       /\ x.id = Subject
       /\ stops' = stops \ {x}
       /\ slot' = IF here /\ ~gone
                  THEN [slot EXCEPT ![s] = [@ EXCEPT !.st = "failed",
                                              !.pid = 0, !.token = 0]]
                  ELSE IF here /\ clear
                  THEN [slot EXCEPT ![s] = [@ EXCEPT !.st = Rest(s),
                                              !.pid = 0, !.token = 0]]
                  ELSE slot
       /\ Do(Retry(s))
  /\ UNCHANGED <<panes, provided, overlay, running, launch, pending,
                 unconfirmed, cancelled, ustops, cmds, evts, children, ops>>

(* apply_unconfirmed_process_termination_success, whatever the result was,  *)
(* with clear_stale_unconfirmed_launch_state for a cancelled launch.        *)
TerminatedUnconfirmed ==
  /\ Applying("terminatedUnconfirmed")
  /\ \E x \in ustops :
       LET s == x.slot
           r == x.id
           stale == /\ slot[s].st \in Live /\ slot[s].pid = 0
                    /\ s # Shell => slot[s].token = r
           clear == IF x.kind = "slot" THEN slot[s].ureq = r ELSE stale
       IN
       /\ r = Subject
       /\ ustops' = ustops \ {x}
       /\ unconfirmed' = unconfirmed \ {r}
       /\ slot' = IF clear
                  THEN [slot EXCEPT ![s] = [@ EXCEPT !.st = Rest(s),
                          !.pid = 0, !.token = 0,
                          !.ureq = IF s \in Panes \/ slot[s].ureq = r
                                   THEN 0 ELSE slot[s].ureq]]
                  ELSE slot
       /\ Do(Retry(s))
  /\ UNCHANGED <<panes, provided, overlay, running, launch, pending,
                 cancelled, stops, cmds, evts, children, ops>>

\* UnconfirmedExited: ignored unless the launch is still the slot's own.
UnconfirmedExited ==
  /\ Applying("unconfirmedExited")
  /\ unconfirmed' = unconfirmed \ {Subject}
  /\ LET s == launch[Subject].slot IN
     slot' = IF Subject \in unconfirmed /\ slot[s].ureq = Subject
             THEN [slot EXCEPT ![s] = [@ EXCEPT !.st = "exited",
                                         !.pid = 0, !.ureq = 0]]
             ELSE slot
  /\ Do(<<>>)
  /\ UNCHANGED <<panes, provided, overlay, running, launch, pending,
                 cancelled, stops, ustops, cmds, evts, children, ops>>

\* poll_processes: drain the channel, apply before anything else.
PollProcesses ==
  /\ Applying("poll")
  /\ Do(evts)
  /\ evts' = <<>>
  /\ UNCHANGED <<slots, tables, cmds, children, ops>>

-----------------------------------------------------------------------------
(* Launching a slot: launch_configured_main_app_if_runtime_ready,           *)
(* launch_native_pane_hosts for one pane, and open_shell_overlay as the     *)
(* retries call it, for a role the overlay still holds.                     *)

MayLaunch(s) ==
  /\ ~Stopping(s)
  /\ s = Main  => running /\ slot[s].st \notin Live /\ slot[s].idx = 0
  /\ s \in Panes => s \in panes /\ slot[s].st \notin Live /\ slot[s].idx = 0
  /\ s = Shell => overlay = Shell
  /\ slot[s].want # None

LaunchSlot ==
  /\ Applying("launch")
  /\ LET s == Head(work).slot IN
     \/ /\ MayLaunch(s)
        /\ Spawn(s, slot, Tail(work))
     \/ /\ ~MayLaunch(s)
        /\ slot' = IF /\ s = Main
                      /\ \/ slot[s].want # None /\ ~running
                                                /\ slot[s].st \notin Live
                         \/ slot[s].want = None /\ running
                   THEN [slot EXCEPT ![s] = [@ EXCEPT !.st = Rest(s), !.pid = 0]]
                   ELSE slot
        /\ Do(<<>>)
        /\ UNCHANGED <<tables, cmds, evts, children>>
  /\ UNCHANGED <<panes, provided, overlay, running, ops>>

-----------------------------------------------------------------------------
(* Requests.  Each takes the mutex, so `work` is empty.                     *)

Request(kind) ==
  /\ work = <<>>
  /\ kind \in Requests
  /\ ops < MaxOps
  /\ ops' = ops + 1

(* terminate_running_main_app_process: an unconfirmed main app is stopped   *)
(* as such and nothing else is looked at.                                   *)
TerminateMain ==
  LET u == slot[Main].ureq
      r == slot[Main].idx
      again == \E x \in ustops : x.id = u
  IN
  IF u # 0
  THEN /\ ustops' = IF again THEN ustops
                    ELSE ustops \cup {[id |-> u, kind |-> "slot", slot |-> Main]}
       /\ cmds' = IF again THEN cmds
                  ELSE Append(cmds, Cmd("terminateUnconfirmed", u))
       /\ UNCHANGED <<launch, pending, unconfirmed, cancelled, stops, evts,
                      children>>
  ELSE ReleaseChild(Main)

\* pending_main_app_stop as it reads after TerminateMain
MainStopping ==
  \/ Stopping(Main)
  \/ slot[Main].ureq # 0
  \/ slot[Main].idx \in pending
  \/ RunningPid(Main) # 0

\* The index fields of the main slot after TerminateMain.
MainReleased == IF slot[Main].ureq # 0 THEN slot
                ELSE [slot EXCEPT ![Main] = [@ EXCEPT !.idx = 0]]

SelectMainApp(intent) ==
  /\ Request("selectMain")
  /\ TerminateMain
  /\ slot' = IF MainStopping
             THEN [MainReleased EXCEPT ![Main] = [@ EXCEPT !.want = intent]]
             ELSE [MainReleased EXCEPT ![Main] = [@ EXCEPT !.want = intent,
                     !.st = "waiting", !.pid = 0, !.token = 0]]
  /\ work' = <<Launch(Main), Poll>>
  /\ UNCHANGED <<panes, provided, overlay, running>>

(* mark_runtime_starting, mark_host_runtime_start_requested,                *)
(* mark_runtime_failed, mark_runtime_stopped                                *)
ResetRuntime ==
  /\ Request("runtime")
  /\ TerminateMain
  /\ slot' = IF MainStopping THEN MainReleased
             ELSE [MainReleased EXCEPT ![Main] = [@ EXCEPT !.st = Rest(Main),
                     !.pid = 0, !.token = 0, !.ureq = 0]]
  /\ running' = FALSE
  /\ work' = <<Poll>>
  /\ UNCHANGED <<panes, provided, overlay>>

\* mark_runtime_running, at the end of a runtime start
RuntimeRunning ==
  /\ Request("runtime")
  /\ ~running
  /\ running' = TRUE
  /\ work' = <<Launch(Main)>>
  /\ UNCHANGED <<slot, panes, provided, overlay, tables, cmds, evts, children>>

\* toggle_shell_overlay when nothing of it is running or starting
OpenShell ==
  /\ Request("toggle")
  /\ slot[Shell].idx = 0 /\ slot[Shell].st \notin Live
  /\ slot[Shell].want # None
  /\ overlay \in {None, Shell}
  /\ overlay' = Shell
  /\ work' = <<Launch(Shell)>>
  /\ UNCHANGED <<slot, panes, provided, running, tables, cmds, evts, children>>

\* toggle_shell_overlay otherwise: dismiss_shell_overlay
DismissShell ==
  /\ Request("toggle")
  /\ slot[Shell].idx # 0 \/ slot[Shell].st \in Live
  /\ ReleaseChild(Shell)
  /\ LET kept == \/ RunningPid(Shell) # 0
                 \/ Stopping(Shell)
                 \/ slot[Shell].idx \in pending
                 \/ slot[Shell].ureq \in unconfirmed
     IN
     slot' = [slot EXCEPT ![Shell] = [@ EXCEPT
       !.st  = IF kept THEN slot[Shell].st ELSE "absent",
       !.pid = IF kept THEN slot[Shell].pid ELSE 0,
       !.idx = 0, !.ureq = 0]]
  /\ overlay' = IF overlay = Shell THEN None ELSE overlay
  /\ work' = <<Poll>>
  /\ UNCHANGED <<panes, provided, running>>

\* Mistake: the program of the old identity goes on.
HostPlanKeepsProgram(p, spec, rev) ==
  /\ slot' = [slot EXCEPT ![p] = [@ EXCEPT !.want = spec, !.rev = rev]]
  /\ panes' = panes \cup {p}
  /\ UNCHANGED <<tables, cmds, evts, children>>

(* apply_native_pane_host_plan for one pane: a changed identity releases    *)
(* the program that runs, a new revision alone does not.                    *)
HostPlan(p, spec, rev) ==
  IF p \in panes /\ slot[p].want # spec
  THEN /\ ReleaseChild(p)
       /\ slot' = [slot EXCEPT ![p] = [@ EXCEPT
            !.st = IF RunningPid(p) = 0 THEN "absent" ELSE slot[p].st,
            !.pid = RunningPid(p),
            !.idx = 0, !.ureq = 0, !.token = 0,
            !.want = spec, !.rev = rev]]
       /\ UNCHANGED panes
  ELSE /\ slot' = [slot EXCEPT ![p] = [@ EXCEPT !.want = spec, !.rev = rev]]
       /\ panes' = panes \cup {p}
       /\ UNCHANGED <<tables, cmds, evts, children>>

\* native_pane.host and native_pane.update
NativePaneHost(p, spec, rev) ==
  /\ Request("host")
  /\ HostPlan(p, spec, rev)
  /\ work' = <<Poll, Launch(p)>>
  /\ UNCHANGED <<provided, overlay, running>>

NativePaneUpdate(p, spec, rev) ==
  /\ Request("update")
  /\ HostPlan(p, spec, rev)
  /\ work' = <<Poll>>
  /\ UNCHANGED <<provided, overlay, running>>

\* launch_native_pane_hosts as a request of its own
LaunchNativePaneHost(p) ==
  /\ Request("launchHosts")
  /\ p \in panes /\ slot[p].want # None
  /\ work' = <<Launch(p)>>
  /\ UNCHANGED <<slots, tables, cmds, evts, children>>

(* switch_pane_to_external_native.  Unlike launch_native_pane_hosts it does *)
(* not look at the stops in flight.                                         *)
SwitchToExternal(p, spec) ==
  /\ Request("switchExternal")
  /\ p \in panes
  /\ slot[p].st \notin Live /\ slot[p].idx = 0
  /\ overlay \in {None, p}
  /\ overlay' = p
  /\ Spawn(p, [slot EXCEPT ![p] = [@ EXCEPT !.want = spec, !.st = "absent",
                                             !.pid = 0]], <<>>)
  /\ UNCHANGED <<panes, provided, running>>

ToSurfAce(p) ==
  /\ ReleaseChild(p)
  /\ slot' = [slot EXCEPT
       ![p] = [Vacant EXCEPT
                 !.st = IF RunningPid(p) = 0 THEN "absent" ELSE slot[p].st,
                 !.pid = RunningPid(p)]]
  /\ overlay' = IF overlay = p THEN None ELSE overlay

\* switch_pane_to_surf_ace
SwitchToSurfAce(p) ==
  /\ Request("switchSurfAce")
  /\ p \in panes
  /\ ToSurfAce(p)
  /\ work' = <<Poll>>
  /\ UNCHANGED <<panes, provided, running>>

\* native_pane.release: as above, and a pane no provider owns is removed
NativePaneRelease(p) ==
  /\ Request("release")
  /\ p \in panes
  /\ ToSurfAce(p)
  /\ work' = <<Poll, Todo("removePane", p)>>
  /\ UNCHANGED <<panes, provided, running>>

RemoveReleasedPane ==
  /\ Applying("removePane")
  /\ LET p == Head(work).slot IN
     IF p \in provided
     THEN UNCHANGED <<slot, panes, overlay>>
     ELSE /\ panes' = panes \ {p}
          /\ slot' = [slot EXCEPT ![p] = Vacant]
          /\ overlay' = IF overlay = p THEN None ELSE overlay
  /\ Do(<<>>)
  /\ UNCHANGED <<provided, running, tables, cmds, evts, children, ops>>

(* apply_provider_snapshot: the incoming panes replace the old ones; every  *)
(* removed pane releases its program first, in no particular order.         *)
ApplyProviderSnapshot(incoming) ==
  /\ Request("snapshot")
  /\ panes' = panes \cup incoming
  /\ provided' = incoming
  /\ \E order \in SetToSeqs(panes \ incoming) :
       work' = [i \in DOMAIN order |-> Todo("dropPane", order[i])] \o <<Poll>>
  /\ UNCHANGED <<slot, overlay, running, tables, cmds, evts, children>>

DropPane ==
  /\ Applying("dropPane")
  /\ LET p == Head(work).slot IN
     /\ ReleaseChild(p)
     /\ slot' = [slot EXCEPT ![p] = Vacant]
     /\ panes' = panes \ {p}
     /\ overlay' = IF overlay = p THEN None ELSE overlay
  /\ Do(<<>>)
  /\ UNCHANGED <<provided, running, ops>>

\* get_status, poll_processes, and every redraw of a running runtime
PollRequest ==
  /\ work = <<>>
  /\ work' = <<Poll>>
  /\ UNCHANGED <<slots, tables, cmds, evts, children, ops>>

-----------------------------------------------------------------------------
(* Window callbacks of the runtime                                          *)

(* A client maps its window.  It is matched by the launch pid, a descendant *)
(* of it or the launch token, and its own pid replaces the launch pid.  The *)
(* runtime reads the expected binding under one lock and attaches under a   *)
(* second one, so a request can come in between: main app and pane attach   *)
(* even while their stop is pending.                                        *)
Attach(s) ==
  /\ work = <<>>
  /\ \/ slot[s].st = "launching"
     \/ slot[s].st = "exited" /\ s # Shell /\ slot[s].token # 0 /\ Wrappers
  /\ s \in Panes => s \in panes /\ slot[s].want # None
  /\ s = Shell => overlay = Shell /\ slot[s].pid # 0 /\ ~Stopping(s)
  /\ \E c \in {slot[s].pid, -ReqOf(slot[s].pid)} :
       /\ c < 0 => Wrappers /\ s # Shell
       /\ slot[s].st = "exited" => c <= 0
       /\ slot' = [slot EXCEPT ![s] = [@ EXCEPT !.st = "attached", !.pid = c]]
  /\ UNCHANGED <<panes, provided, overlay, running, tables, cmds, evts,
                 children, work, ops>>

\* The window goes away and the process is expected to map another one.
Detach(s) ==
  /\ work = <<>>
  /\ slot[s].st = "attached"
  /\ s = Shell => overlay = Shell /\ ~Stopping(s)
  /\ slot' = [slot EXCEPT ![s] = [@ EXCEPT !.st = "launching"]]
  /\ UNCHANGED <<panes, provided, overlay, running, tables, cmds, evts,
                 children, work, ops>>

(* runtime_recover_overlay_binding_for_existing_surface: process control    *)
(* reported failure but the window's owner, which the worker has given up,  *)
(* is still alive.                                                          *)
RecoverOverlay(r) ==
  /\ Request("recover")
  /\ overlay # None
  /\ slot[overlay].st = "failed"
  /\ r \in alive /\ app[r] = "gone" /\ launch[r].slot = overlay
  /\ slot' = [slot EXCEPT ![overlay] = [@ EXCEPT !.st = "attached", !.pid = r]]
  /\ UNCHANGED <<panes, provided, overlay, running, tables, cmds, evts,
                 children, work>>

-----------------------------------------------------------------------------
(* The worker thread (process_worker over SystemdProcessManager): app[r] is *)
(* "queued" until the command is taken, then "tracked" or "unconfirmed"     *)
(* while the manager has a table entry, "reported" when the exit has been   *)
(* sent and the entry is not removed yet, and "gone".                       *)

NextCmd(op) == cmds # <<>> /\ Head(cmds).op = op

WorkerSpawn ==
  /\ NextCmd("spawn")
  /\ LET r == Head(cmds).id IN
     \E outcome \in Outcomes :
       /\ app' = [app EXCEPT ![r] = CASE outcome = "started" -> "tracked"
                                      [] outcome = "unconfirmed" -> "unconfirmed"
                                      [] outcome = "failed" -> "gone"]
       /\ alive' = IF outcome = "failed" THEN alive ELSE alive \cup {r}
       /\ evts' = Append(evts, Evt(outcome, r, TRUE))
  /\ cmds' = Tail(cmds)
  /\ UNCHANGED <<slots, tables, work, ops>>

(* terminate: an unknown pid is an error.  When `systemctl stop` fails the  *)
(* entry is dropped, the answer is Ok and the program may go on.            *)
WorkerTerminate ==
  /\ NextCmd("terminate")
  /\ LET p == Head(cmds).id
         known == p > 0 /\ app[p] \in {"tracked", "reported"}
     IN
     /\ evts' = Append(evts, Evt("terminated", p, known))
     /\ app' = IF known THEN [app EXCEPT ![p] = "gone"] ELSE app
     /\ \/ alive' = IF known THEN alive \ {p} ELSE alive
        \/ StopMayFail /\ known /\ UNCHANGED alive
  /\ cmds' = Tail(cmds)
  /\ UNCHANGED <<slots, tables, work, ops>>

WorkerTerminateUnconfirmed ==
  /\ NextCmd("terminateUnconfirmed")
  /\ LET r == Head(cmds).id
         known == app[r] = "unconfirmed"
     IN
     /\ evts' = Append(evts, Evt("terminatedUnconfirmed", r, known))
     /\ app' = IF known THEN [app EXCEPT ![r] = "gone"] ELSE app
     /\ \/ alive' = IF known THEN alive \ {r} ELSE alive
        \/ StopMayFail /\ known /\ UNCHANGED alive
  /\ cmds' = Tail(cmds)
  /\ UNCHANGED <<slots, tables, work, ops>>

\* reap_exited: report an exit once, drop the entry then or later.
ReapStarted(r) ==
  /\ app[r] = "tracked" /\ r \notin alive
  /\ app' = [app EXCEPT ![r] = "reported"]
  /\ evts' = Append(evts, Evt("exited", r, TRUE))
  /\ UNCHANGED <<slots, tables, cmds, work, ops, alive>>

ReapReported(r) ==
  /\ app[r] = "reported"
  /\ app' = [app EXCEPT ![r] = "gone"]
  /\ UNCHANGED <<slots, tables, cmds, evts, work, ops, alive>>

ReapUnconfirmed(r) ==
  /\ app[r] = "unconfirmed" /\ r \notin alive
  /\ app' = [app EXCEPT ![r] = "gone"]
  /\ evts' = Append(evts, Evt("unconfirmedExited", r, TRUE))
  /\ UNCHANGED <<slots, tables, cmds, work, ops, alive>>

\* A program ends by itself.
AppExits(r) ==
  /\ r \in alive
  /\ alive' = alive \ {r}
  /\ UNCHANGED <<slots, tables, cmds, evts, work, ops, app>>

-----------------------------------------------------------------------------
Init ==
  /\ slot \in {[s \in Slots |-> IF s = Shell THEN [Vacant EXCEPT !.want = spec]
                                             ELSE Vacant] : spec \in Specs}
  /\ panes = {} /\ provided = {} /\ overlay = None /\ running = FALSE
  /\ launch = <<>> /\ app = <<>> /\ alive = {}
  /\ pending = {} /\ unconfirmed = {} /\ cancelled = {}
  /\ stops = {} /\ ustops = {}
  /\ cmds = <<>> /\ evts = <<>> /\ work = <<>>
  /\ ops = 0

\* One step of whoever holds the mutex.
Step ==
  \/ SpawnStarted \/ SpawnUnconfirmed \/ SpawnFailed
  \/ Exited \/ Terminated \/ TerminatedUnconfirmed \/ UnconfirmedExited
  \/ PollProcesses \/ LaunchSlot
  \/ RemoveReleasedPane \/ DropPane

RequestStep ==
  \/ \E i \in Specs : SelectMainApp(i)
  \/ ResetRuntime \/ RuntimeRunning
  \/ OpenShell \/ DismissShell
  \/ \E p \in Panes, spec \in Specs, rev \in 0..MaxRevision :
       NativePaneHost(p, spec, rev) \/ NativePaneUpdate(p, spec, rev)
  \/ \E p \in Panes : \/ NativePaneRelease(p)
                      \/ LaunchNativePaneHost(p)
                      \/ SwitchToSurfAce(p)
                      \/ \E spec \in Specs : SwitchToExternal(p, spec)
  \/ \E incoming \in SUBSET Panes : ApplyProviderSnapshot(incoming)
  \/ \E r \in DOMAIN app : RecoverOverlay(r)

Window == \E s \in Slots : Attach(s) \/ Detach(s)

Worker ==
  \/ WorkerSpawn \/ WorkerTerminate \/ WorkerTerminateUnconfirmed
  \/ \E r \in DOMAIN app : ReapStarted(r) \/ ReapReported(r) \/ ReapUnconfirmed(r)

Next ==
  \/ Step \/ RequestStep \/ PollRequest \/ Window \/ Worker
  \/ \E r \in DOMAIN app : AppExits(r)

Spec == Init /\ [][Next]_vars

\* The holder of the mutex finishes, the worker runs, someone polls.
Fairness == WF_vars(Step) /\ WF_vars(Worker) /\ WF_vars(PollRequest)

FairSpec == Spec /\ Fairness

-----------------------------------------------------------------------------
(* Type invariant *)

SlotRecord == [want : Specs \cup {None}, rev : Nat,
               st : {"absent", "waiting", "launching", "attached", "failed",
                     "exited"},
               pid : Int, idx : Nat, ureq : Nat, token : Nat]

Stop == [id : Int, kind : {"slot", "stale"}, slot : Slots]

EvtOps == {"started", "unconfirmed", "failed", "exited", "terminated",
           "terminatedUnconfirmed", "unconfirmedExited"}

EvtRecord  == [op : EvtOps, id : Int, ok : BOOLEAN, slot : {None}]
TodoRecord == [op : {"poll"}, id : {0}, ok : {TRUE}, slot : {None}]
              \cup [op : {"launch"}, id : {0}, ok : {TRUE}, slot : Slots]
              \cup [op : {"removePane", "dropPane"}, id : {0}, ok : {TRUE},
                    slot : Panes]
WorkRecord == EvtRecord \cup TodoRecord
CmdRecord  == [op : {"spawn", "terminate", "terminateUnconfirmed"}, id : Int]
Launched   == [slot : Slots, spec : Specs, rev : Nat]
SpawnsLogged(queue) ==
  \A i \in DOMAIN queue : queue[i].op = "spawn" => queue[i].id \in DOMAIN launch
AppStates  == {"queued", "tracked", "reported", "unconfirmed", "gone"}

\* Every variable has its type, and the tables name requests that were made.
TypeOK ==
  /\ slot \in [Slots -> SlotRecord]
  /\ panes \subseteq Panes /\ provided \subseteq Panes
  /\ overlay \in Panes \cup {Shell, None}
  /\ running \in BOOLEAN
  /\ launch \in Seq(Launched)
  /\ app \in Seq(AppStates) /\ Len(app) = Len(launch)
  /\ alive \subseteq DOMAIN launch
  /\ pending \subseteq DOMAIN launch
  /\ unconfirmed \subseteq DOMAIN launch
  /\ cancelled \subseteq DOMAIN launch
  /\ stops \subseteq Stop /\ ustops \subseteq Stop
  /\ cmds \in Seq(CmdRecord) /\ SpawnsLogged(cmds)
  /\ evts \in Seq(EvtRecord)
  /\ work \in Seq(WorkRecord)
  /\ ops \in Nat

-----------------------------------------------------------------------------
(* Safety *)

\* Is an event of this kind about id still undelivered?
Undelivered(op, id) ==
  \/ \E i \in DOMAIN evts : evts[i].op = op /\ evts[i].id = id
  \/ \E i \in DOMAIN work : work[i].op = op /\ work[i].id = id

(* The per-slot launch index and the table of pending launches are each     *)
(* other's inverse: no launch in flight is unreachable from its slot, and   *)
(* no slot waits for a launch nobody remembers                              *)
(* (request_process_spawn, clear_pending_launch_index).                     *)
IndexNamesPending ==
  \A s \in Slots : slot[s].idx # 0 =>
    slot[s].idx \in pending /\ launch[slot[s].idx].slot = s
PendingIsIndexed ==
  \A r \in pending : slot[launch[r].slot].idx = r
LaunchIndexExact == IndexNamesPending /\ PendingIsIndexed

(* The same for launches whose start is unconfirmed.  A main app being      *)
(* stopped keeps its index until the answer comes.                          *)
UnconfirmedIndexExact ==
  /\ \A s \in Slots : slot[s].ureq # 0 =>
       /\ slot[s].ureq \in unconfirmed
       /\ launch[slot[s].ureq].slot = s
       /\ slot[s].st \in Live /\ slot[s].pid = 0
  /\ \A r \in unconfirmed : slot[launch[r].slot].ureq = r

(* Every answer to a termination finds the stop that asked for it, and no   *)
(* pid is asked about twice, so the fallback for an unsolicited answer      *)
(* (record_process_termination_failure) never blames a slot.                *)
AnswersAreAwaited ==
  LET asked(id) == {i \in DOMAIN cmds : cmds[i] = Cmd("terminate", id)}
      told(q, id) == {i \in DOMAIN q : q[i].op = "terminated" /\ q[i].id = id}
  IN \A p \in {cmds[i].id : i \in DOMAIN cmds} \cup {x.id : x \in stops}
              \cup {evts[i].id : i \in DOMAIN evts}
              \cup {work[i].id : i \in DOMAIN work} :
       Cardinality(asked(p)) + Cardinality(told(evts, p))
         + Cardinality(told(work, p)) = Cardinality({x \in stops : x.id = p})

(* A program the worker manages and has told the state about is either the  *)
(* running process of its slot or being stopped: replacing, cancelling and  *)
(* releasing never lose track of a child.                                   *)
NoOrphan ==
  \A r \in DOMAIN app :
    app[r] = "tracked" /\ ~Undelivered("started", r) =>
      \/ RunningPid(launch[r].slot) = r
      \/ \E x \in stops : x.id = r

(* No program is lost, neither one that was started nor one that may have   *)
(* been.                                                                    *)
NothingIsLost == NoOrphan /\ UnconfirmedIndexExact

(* A program that is running and is not being stopped was launched for its  *)
(* slot and for what that slot wants now.                                   *)
RunsWhatIsWanted ==
  \A s \in Slots :
    LET p == RunningPid(s) IN
    p # 0 /\ ~Stopping(s) => /\ launch[ReqOf(p)].slot = s
                             /\ launch[ReqOf(p)].spec = slot[s].want

(* With nothing left to apply, a slot that says it runs a process runs one  *)
(* the worker still manages or one being stopped: an exit is recorded.      *)
NoDeadProcessShown ==
  work = <<>> /\ evts = <<>> =>
    \A s \in Slots : RunningPid(s) > 0 =>
      app[RunningPid(s)] = "tracked" \/ \E x \in stops : x.id = RunningPid(s)

\* All launches so far were of one slot.
OneSlot == \A q, r \in DOMAIN launch : launch[q].slot = launch[r].slot

(* The poll a launch makes in the middle of a batch of events cannot take   *)
(* an exit ahead of its start as long as only one slot launches: its own    *)
(* start would have to wait in that batch (request_process_spawn).          *)
LoneSlotShowsLiveProgram == OneSlot => NoDeadProcessShown

(* The shell runs unstopped only while it holds the single overlay role.    *)
ShellHoldsOverlayRole ==
  slot[Shell].st \in Live /\ ~Stopping(Shell) => overlay = Shell

(* A shell launch is never asked for while another one is in flight, and    *)
(* never while one is being stopped, although open_shell_overlay does not   *)
(* look at the launch index itself; a launch is made before anything else   *)
(* of the agenda.                                                           *)
ShellStopsBeforeLaunch == Stopping(Shell) => slot[Shell].idx = 0
ShellLaunchIsNext ==
  \A i \in DOMAIN work : work[i] = Launch(Shell) => i = 1 /\ slot[Shell].idx = 0
OneShellLaunch == ShellStopsBeforeLaunch /\ ShellLaunchIsNext

(* A pane about to be removed has no launch in flight and can get none: the *)
(* poll in between may retry it, but it wants nothing any more.             *)
RemovedPaneIsIdle ==
  \A i \in DOMAIN work : work[i].op = "removePane" =>
    slot[work[i].slot].want = None /\ slot[work[i].slot].idx = 0

\* What makes the two index invariants inductive.
IndexInv == TypeOK /\ LaunchIndexExact /\ OneShellLaunch /\ RemovedPaneIsIdle

(* A launch that had to wait for a stop is not forgotten: once the mutex is *)
(* free and nothing of the slot is in flight, a wanted main app is not left *)
(* waiting for a runtime that runs, a shell overlay that holds the role is  *)
(* not left absent.                                                         *)
DeferredLaunchHappens ==
  work = <<>> =>
    /\ running /\ slot[Main].idx = 0 /\ ~Stopping(Main) =>
         slot[Main].st # "waiting"
    /\ overlay = Shell /\ slot[Shell].idx = 0 /\ ~Stopping(Shell) =>
         slot[Shell].st # "absent"

(* The same for a pane whose host was asked for with native_pane.host.      *)
HostedPaneIsLaunched ==
  work = <<>> =>
    \A p \in panes :
      slot[p].want # None /\ slot[p].idx = 0 /\ ~Stopping(p) =>
        slot[p].st # "absent"

(* Whatever is wanted and had to wait is launched in the end of the agenda. *)
WantedIsLaunched == HostedPaneIsLaunched /\ DeferredLaunchHappens

(* Once the worker has answered everything, no program of a pane that was   *)
(* given back to Surf Ace, or removed, is left in the worker's care:        *)
(* release terminates what runs.  One whose start was not confirmed in time *)
(* is: its launch is dropped, or its late start is not told.                *)
ReleasedPaneRunsNothing ==
  work = <<>> /\ cmds = <<>> /\ evts = <<>> =>
    \A r \in DOMAIN app :
      launch[r].slot \in Panes /\ slot[launch[r].slot].want = None =>
        app[r] # "tracked"

(* Nothing runs for a slot that lost its right to it: a pane given back, a  *)
(* shell whose overlay role went to a pane.                                 *)
OnlyOwnersRun == ReleasedPaneRunsNothing /\ ShellHoldsOverlayRole

-----------------------------------------------------------------------------
(* Liveness *)

(* Every stop is answered, every launch is decided, every deferral ends.    *)
StopsEnd    == \A s \in Slots : Stopping(s) ~> ~Stopping(s)
LaunchesEnd == \A s \in Slots : slot[s].idx # 0 ~> slot[s].idx = 0
MainComesUp == (slot[Main].st = "waiting" /\ running)
                 ~> (slot[Main].st # "waiting" \/ ~running)
RequestsEnd == StopsEnd /\ LaunchesEnd /\ MainComesUp
=============================================================================
