---------------------------- MODULE ProcessManager ----------------------------
(***************************************************************************)
(* The process controller of the compositor (src/src/process_manager.rs):  *)
(* a worker thread that takes commands from a channel, starts each child   *)
(* in a transient systemd unit with a supervisor of its own (the session   *)
(* of src/src/child_supervisor.rs), falls back to a start without one,     *)
(* reaps what ended, and answers on a second channel.                      *)
(*                                                                         *)
(* The worker blocks in a start while the supervisor, systemd, the         *)
(* `systemd-run --wait` client and the programs go on.  Requests are       *)
(* numbered as the controller numbers them; a unit name is named by its    *)
(* slot (every child is taken to have the same basename, the case in which *)
(* names can collide).  Process ids are reused as the kernel allows: one   *)
(* is free again when its program was reaped.                              *)
(***************************************************************************)
EXTENDS Integers, Sequences, FiniteSets, SequencesExt, FiniteSetsExt

CONSTANTS
  MaxRequests,  \* bound: spawn requests
  Pids,         \* process ids
  MaxSlot,      \* the largest unit slot a name has room for
  MainRequests, \* requests with SURF_ACE_COMPOSITOR_MAIN_APP=1
  Scenarios     \* what may go wrong together, and the units left from before

FaultKinds == {"unit", "accept", "hello", "write", "late", "exec", "unobserved",
               "stop", "crash", "shutdown"}

Requests  == 1..MaxRequests
UnitSlots == 0..MaxSlot
NoSlot    == -1

ASSUME ConstantsAssumption ==
  /\ MaxRequests \in Nat /\ MaxSlot \in Nat
  /\ Pids \subseteq Nat \ (Requests \cup {0}) /\ IsFiniteSet(Pids)
  /\ MainRequests \subseteq Requests
  /\ Scenarios \subseteq [faults : SUBSET FaultKinds, left : SUBSET UnitSlots]

VARIABLES
  faults,   \* the kinds of faults that may happen in this behaviour
  asked,    \* spawn requests made so far
  cmds,     \* channel to the worker
  evts,     \* channel from the worker
  told,     \* per process id and request: the last answer the compositor drained
  shutdown, \* the controller was dropped
  worker,   \* where the worker thread is
  children, \* SystemdProcessManager.children, by process id
  unconf,   \* keys of unconfirmed_children
  name,     \* per request: the slot in its unit's name
  unit,     \* per slot: whose unit exists under that name
  sup,      \* per request: the supervisor process
  client,   \* per request: the systemd-run client the worker holds
  link,     \* per request: the control socket of the supervisor
  pipe,     \* per request: supervisor events on the socket
  program,  \* per request: its process
  starts    \* per request: how often its program was started

answers  == <<evts, told>>
tables   == <<children, unconf, name>>
process  == <<program, starts>>
outside  == <<unit, sup, client, link, pipe, process>>
vars     == <<faults, asked, cmds, answers, shutdown, worker, tables, outside>>

-----------------------------------------------------------------------------
(* Helpers *)

NoChild   == [req |-> 0, name |-> NoSlot, unitless |-> FALSE, reader |-> FALSE,
              reported |-> FALSE, closed |-> FALSE]
NoProgram == [pid |-> 0, st |-> "none", in |-> "none"]

Idle == [at |-> "idle", req |-> 0, tried |-> {}, collided |-> NoSlot,
         todo |-> {}, late |-> {}]

Cmd(op, id) == [op |-> op, id |-> id]
Evt(op, id) == [op |-> op, id |-> id, req |-> 0]
Started(p, r) == [op |-> "started", id |-> p, req |-> r]
NoNews == Evt("nothing", 0)

\* The last answer about x, a process id or a request, drained or not.
News(x) ==
  LET about == {i \in DOMAIN evts : x \in {evts[i].id, evts[i].req}}
  IN IF about = {} THEN told[x] ELSE evts[Max(about)]

At(place) == worker.at = place
Tracked(p) == children[p].req # 0

\* reap_exited looks at every entry that is there when the round starts.
ReapRound(entries, late) ==
  LET todo == {p \in Pids : entries[p].req # 0} IN
  IF todo = {} /\ late = {} THEN Idle
  ELSE [Idle EXCEPT !.at = "reap", !.todo = todo, !.late = late]

Runs(r) == program[r].st = "runs"

\* Process ids are handed out in order; one is free again when it was reaped.
Used(p) == told[p] # NoNews \/ \E i \in DOMAIN evts : evts[i].id = p
FreePid(p) ==
  /\ \A r \in Requests : program[r].pid # p
  /\ \A q \in Pids : q < p => Used(q) \/ \E r \in Requests : program[r].pid = q

\* The program of r is started with process id p, in its unit or without one.
Start(r, p, place) ==
  /\ FreePid(p)
  /\ program' = [program EXCEPT ![r] = [pid |-> p, st |-> "runs", in |-> place]]
  /\ starts' = [starts EXCEPT ![r] = @ + 1]

\* Mistake: a child whose exit was reported lends its slot.
OccupiedByLiving == {children[p].name : p \in {q \in Pids : Tracked(q) /\ ~children[q].reported}}

\* occupied_slots: the names of `children`; unconfirmed ones do not count.
Occupied == {children[p].name : p \in {q \in Pids : Tracked(q)}}

\* next_candidate_slot, as a set of at most one slot
Candidate(main, occupied, tried) ==
  LET free == UnitSlots \ (occupied \cup tried) IN
  IF main /\ 0 \in free THEN {0}
  ELSE IF free \ {0} = {} THEN {} ELSE {Min(free \ {0})}

\* process_worker: a start that replaced an entry tells that one's end first.
StartAnswer(p, r) ==
  IF Tracked(p) THEN <<Evt("exited", p), Started(p, r)>> ELSE <<Started(p, r)>>

(* The worker answers and goes on to reap; when the controller was dropped  *)
(* it does not answer and its thread ends.                                  *)
Answer(said, entries, late) ==
  /\ evts' = IF shutdown THEN evts ELSE evts \o said
  /\ worker' = IF shutdown THEN [Idle EXCEPT !.at = "down"]
               ELSE ReapRound(entries, late)
  /\ children' = entries /\ unconf' = late

\* replace_stale_pid_tracking
Track(p, r, entry) ==
  Answer(StartAnswer(p, r), [children EXCEPT ![p] = entry], unconf)

Failed(r) == Answer(<<Evt("failed", r)>>, children, unconf)

\* Mistake: the unconfirmed child is not kept.
UnconfirmedUnkept(r) == Answer(<<Evt("unconfirmed", r)>>, children, unconf)

Unconfirmed(r) == Answer(<<Evt("unconfirmed", r)>>, children, unconf \cup {r})

\* start_unitless: the program becomes a child of the compositor itself.
StartUnitless(r, slot) ==
  \/ \E p \in Pids :
       /\ Start(r, p, "compositor")
       /\ Track(p, r, [NoChild EXCEPT !.req = r, !.name = slot,
                         !.unitless = TRUE, !.closed = TRUE])
  \/ /\ "exec" \in faults
     /\ Failed(r)
     /\ UNCHANGED process

\* The unit of r ends: its supervisor is gone, and the program if it is in it.
EndUnit(r) ==
  /\ unit' = [s \in UnitSlots |-> IF unit[s] = r THEN 0 ELSE unit[s]]
  /\ sup' = [sup EXCEPT ![r] = "gone"]
  /\ program' = IF program[r].in = "unit"
                THEN [program EXCEPT ![r] = NoProgram] ELSE program
  /\ UNCHANGED starts

(* systemctl_stop takes a name and stops whatever unit has it; it fails     *)
(* when there is none.                                                      *)
StopWorks(s) == unit[s] # 0
StopFails(s) == unit[s] = 0 \/ "stop" \in faults
StopUnit(s)  == EndUnit(unit[s])

-----------------------------------------------------------------------------
(* The compositor: LocalProcessController and its caller *)

AskSpawn ==
  /\ ~shutdown /\ asked < MaxRequests
  /\ asked' = asked + 1
  /\ cmds' = Append(cmds, Cmd("spawn", asked + 1))
  /\ UNCHANGED <<answers, shutdown, worker, tables, outside>>

\* A stop was asked for and its answer was not drained (pending_process_stops).
StopPending(op, id, answer) ==
  \/ Cmd(op, id) \in ToSet(cmds)
  \/ Evt(answer, id) \in ToSet(evts)

AskTerminate(p) ==
  /\ ~shutdown
  /\ told[p].op = "started"
  /\ ~StopPending("terminate", p, "terminated")
  /\ cmds' = Append(cmds, Cmd("terminate", p))
  /\ UNCHANGED <<asked, answers, shutdown, worker, tables, outside>>

AskTerminateUnconfirmed(r) ==
  /\ ~shutdown
  /\ told[r].op = "unconfirmed"
  /\ ~StopPending("terminateUnconfirmed", r, "terminatedUnconfirmed")
  /\ cmds' = Append(cmds, Cmd("terminateUnconfirmed", r))
  /\ UNCHANGED <<asked, answers, shutdown, worker, tables, outside>>

\* poll_events
PollEvents ==
  /\ ~shutdown /\ evts # <<>>
  /\ told' = [x \in Pids \cup Requests |-> News(x)]
  /\ evts' = <<>>
  /\ UNCHANGED <<asked, cmds, shutdown, worker, tables, outside>>

\* The controller is dropped.
DropController ==
  /\ "shutdown" \in faults /\ ~shutdown
  /\ shutdown' = TRUE
  /\ cmds' = Append(cmds, Cmd("shutdown", 0))
  /\ UNCHANGED <<asked, answers, worker, tables, outside>>

-----------------------------------------------------------------------------
(* The worker takes commands: process_worker *)

NextCmd(op) == At("idle") /\ cmds # <<>> /\ Head(cmds).op = op

TakeSpawn ==
  /\ NextCmd("spawn")
  /\ cmds' = Tail(cmds)
  /\ worker' = IF shutdown THEN worker
               ELSE [Idle EXCEPT !.at = "choose", !.req = Head(cmds).id]
  /\ UNCHANGED <<asked, answers, shutdown, tables, outside>>

(* terminate.  A program without supervisor is killed with its group; when  *)
(* a unit cannot be stopped its entry is dropped all the same.              *)
Terminate ==
  /\ NextCmd("terminate")
  /\ LET p == Head(cmds).id
         r == children[p].req
         entry == children[p]
     IN
     /\ Answer(<<Evt("terminated", p)>>, [children EXCEPT ![p] = NoChild], unconf)
     /\ \/ /\ ~Tracked(p)
           /\ UNCHANGED <<unit, sup, process, client>>
        \/ /\ Tracked(p) /\ entry.unitless
           /\ program' = [program EXCEPT ![r] = NoProgram]
           /\ UNCHANGED <<unit, sup, starts, client>>
        \/ /\ Tracked(p) /\ ~entry.unitless /\ StopFails(entry.name)
           /\ UNCHANGED <<unit, sup, process, client>>
        \/ /\ Tracked(p) /\ ~entry.unitless /\ StopWorks(entry.name)
           /\ StopUnit(entry.name)
           /\ client' = [client EXCEPT ![r] = "ended"]
  /\ cmds' = Tail(cmds)
  /\ UNCHANGED <<asked, told, shutdown, name, link, pipe>>

TerminateUnconfirmed ==
  /\ NextCmd("terminateUnconfirmed")
  /\ LET r == Head(cmds).id IN
     /\ Answer(<<Evt("terminatedUnconfirmed", r)>>, children, unconf \ {r})
     /\ \/ /\ r \notin unconf \/ StopFails(name[r])
           /\ UNCHANGED <<unit, sup, process, client>>
        \/ /\ r \in unconf /\ StopWorks(name[r])
           /\ StopUnit(name[r])
           /\ client' = [client EXCEPT ![r] = "ended"]
  /\ cmds' = Tail(cmds)
  /\ UNCHANGED <<asked, told, shutdown, name, link, pipe>>

TakeShutdown ==
  /\ NextCmd("shutdown")
  /\ cmds' = Tail(cmds)
  /\ worker' = [Idle EXCEPT !.at = "down"]
  /\ UNCHANGED <<asked, answers, shutdown, tables, outside>>

\* Nothing came for 25 ms.
TimeOut ==
  /\ At("idle") /\ cmds = <<>>
  /\ unconf # {} \/ \E p \in Pids : Tracked(p)
  /\ worker' = ReapRound(children, unconf)
  /\ UNCHANGED <<asked, cmds, answers, shutdown, tables, outside>>

-----------------------------------------------------------------------------
(* A start: SystemdProcessManager::spawn and start_unit *)

\* No slot left, no unit name or no unit: the program starts without one.
StartWithoutUnit ==
  /\ At("choose")
  /\ LET r == worker.req
         candidate == Candidate(r \in MainRequests, Occupied, worker.tried)
     IN
     \E slot \in {NoSlot} \cup UnitSlots :
       /\ \/ candidate = {} /\ slot = worker.collided
          \/ "unit" \in faults /\ slot \in candidate \cup {NoSlot}
       /\ StartUnitless(r, slot)
  /\ UNCHANGED <<asked, cmds, told, shutdown, name, unit, sup, client, link, pipe>>

(* systemd-run is started for the next candidate slot; the name may be that *)
(* of a unit the table does not know, and then the next slot is tried.      *)
RunUnit ==
  /\ At("choose")
  /\ LET r == worker.req IN
     \E slot \in Candidate(r \in MainRequests, Occupied, worker.tried) :
       \/ /\ unit[slot] # 0
          /\ worker' = [worker EXCEPT !.tried = @ \cup {slot}, !.collided = slot]
          /\ UNCHANGED <<name, unit, sup, client>>
       \/ /\ unit[slot] = 0
          /\ worker' = [worker EXCEPT !.at = "accept"]
          /\ name' = [name EXCEPT ![r] = slot]
          /\ unit' = [unit EXCEPT ![slot] = r]
          /\ sup' = [sup EXCEPT ![r] = "starting"]
          /\ client' = [client EXCEPT ![r] = "waits"]
  /\ UNCHANGED <<asked, cmds, answers, shutdown, children, unconf, link, pipe,
                 process>>

(* The supervisor cannot be reached or does not speak: the client is        *)
(* killed and the program started without a unit.  Only a connection that   *)
(* timed out has its unit stopped, and only when the description is ours.   *)
GiveUpOnSupervisor ==
  /\ At("accept")
  /\ LET r == worker.req IN
     /\ \/ link[r] = "none" /\ client[r] = "ended"
        \/ "accept" \in faults
        \/ link[r] = "open" /\ "hello" \in faults
     /\ client' = [client EXCEPT ![r] = "ended"]
     /\ StartUnitless(r, name[r])
  /\ UNCHANGED <<asked, cmds, told, shutdown, name, unit, sup, link, pipe>>

AcceptTimeOut ==
  /\ At("accept")
  /\ LET r == worker.req IN
     /\ sup[r] = "starting"
     /\ client' = [client EXCEPT ![r] = "ended"]
     /\ \/ /\ unit' = [unit EXCEPT ![name[r]] = 0]
           /\ sup' = [sup EXCEPT ![r] = "gone"]
        \/ "stop" \in faults /\ UNCHANGED <<unit, sup>>
     /\ StartUnitless(r, name[r])
  /\ UNCHANGED <<asked, cmds, told, shutdown, name, link, pipe>>

\* The hello was read; the launch request is written.
SendRequest ==
  /\ At("accept")
  /\ LET r == worker.req IN
     /\ link[r] = "open"
     /\ \/ /\ sup[r] = "connected"
           /\ link' = [link EXCEPT ![r] = "request"]
           /\ worker' = [worker EXCEPT !.at = "started"]
           /\ UNCHANGED <<evts, children, unconf>>
        \/ /\ sup[r] = "gone" \/ "write" \in faults
           /\ Unconfirmed(r)
           /\ UNCHANGED link
  /\ UNCHANGED <<asked, cmds, told, shutdown, name, unit, sup, client, pipe, process>>

(* Mistake: a supervisor that does not report in time is taken to have      *)
(* started nothing.                                                         *)
LateIsFailed(r) == Failed(r) /\ UNCHANGED process

\* Mistake: the same, and the program is started without it.
LateIsUnitless(r) == StartUnitless(r, name[r])

NotReported(r) == Unconfirmed(r) /\ UNCHANGED process

\* The first event of the supervisor, or none in ten seconds.
HearStart ==
  /\ At("started")
  /\ LET r == worker.req IN
     \/ /\ pipe[r] # <<>> /\ Head(pipe[r]).op = "started"
        /\ \E reader \in {TRUE, "unobserved" \notin faults} :
             Track(Head(pipe[r]).pid, r,
                   [NoChild EXCEPT !.req = r, !.name = name[r], !.reader = reader])
        /\ pipe' = [pipe EXCEPT ![r] = Tail(@)]
        /\ UNCHANGED process
     \/ /\ pipe[r] # <<>> /\ Head(pipe[r]).op = "startFailed"
        /\ client[r] = "ended"
        /\ Failed(r)
        /\ pipe' = [pipe EXCEPT ![r] = Tail(@)]
        /\ UNCHANGED process
     \/ /\ pipe[r] = <<>>
        /\ sup[r] = "gone" \/ "late" \in faults
        /\ NotReported(r)
        /\ UNCHANGED pipe
  /\ UNCHANGED <<asked, cmds, told, shutdown, name, unit, sup, client, link>>

-----------------------------------------------------------------------------
(* Reaping: reap_exited *)

\* The round goes on with what is left of it.
GoOn(todo, late) ==
  worker' = IF todo = {} /\ late = {} THEN Idle
            ELSE [worker EXCEPT !.todo = todo, !.late = late]

ReapUnitless(p) ==
  /\ At("reap") /\ p \in worker.todo /\ children[p].unitless
  /\ LET r == children[p].req
         dead == program[r].st = "zombie"
     IN
     /\ evts' = IF dead THEN Append(evts, Evt("exited", p)) ELSE evts
     /\ children' = IF dead THEN [children EXCEPT ![p] = NoChild] ELSE children
     /\ program' = IF dead THEN [program EXCEPT ![r] = NoProgram] ELSE program
  /\ GoOn(worker.todo \ {p}, worker.late)
  /\ UNCHANGED <<asked, cmds, told, shutdown, unconf, name, unit, sup, client,
                 link, pipe, starts>>

\* Mistake: only the end of the supervisor counts as the end of the program.
ExitOnlyFinal(got) == FALSE

ExitHeard(got) == \E i \in DOMAIN got : got[i].op = "exited"

(* What the event reader (read_events) has passed on is taken, here all     *)
(* that is on the socket.  The exit is reported as soon as the supervisor   *)
(* tells it, or when its unit ended without telling; the entry stays until  *)
(* the unit ended.                                                          *)
ReapUnit(p) ==
  /\ At("reap") /\ p \in worker.todo /\ ~children[p].unitless
  /\ LET entry == children[p]
         r == entry.req
         got == IF entry.reader THEN pipe[r] ELSE <<>>
         closed == entry.closed \/ ~entry.reader \/ sup[r] = "gone"
         over == client[r] = "ended" /\ closed
         reported == entry.reported \/ ExitHeard(got) \/ over
     IN
     /\ evts' = IF reported /\ ~entry.reported
                THEN Append(evts, Evt("exited", p)) ELSE evts
     /\ children' = [children EXCEPT ![p] =
                       IF over THEN NoChild
                       ELSE [entry EXCEPT !.reported = reported, !.closed = closed]]
     /\ pipe' = [pipe EXCEPT ![r] = IF entry.reader THEN <<>> ELSE @]
  /\ GoOn(worker.todo \ {p}, worker.late)
  /\ UNCHANGED <<asked, cmds, told, shutdown, unconf, name, unit, sup, client,
                 link, process>>

ReapUnconfirmed(r) ==
  /\ At("reap") /\ worker.todo = {} /\ r \in worker.late
  /\ LET over == client[r] = "ended" IN
     /\ evts' = IF over THEN Append(evts, Evt("unconfirmedExited", r)) ELSE evts
     /\ unconf' = IF over THEN unconf \ {r} ELSE unconf
  /\ GoOn({}, worker.late \ {r})
  /\ UNCHANGED <<asked, cmds, told, shutdown, children, name, outside>>

-----------------------------------------------------------------------------
(* The supervisor of a unit: run_supervisor_session *)

Sends(r, op, pid) == pipe' = [pipe EXCEPT ![r] = Append(@, [op |-> op, pid |-> pid])]

\* The worker listens only as long as it waits for this supervisor.
SupervisorConnects(r) ==
  /\ sup[r] = "starting"
  /\ IF At("accept") /\ worker.req = r
     THEN /\ sup' = [sup EXCEPT ![r] = "connected"]
          /\ link' = [link EXCEPT ![r] = "open"]
          /\ UNCHANGED <<unit, process>>
     ELSE EndUnit(r) /\ UNCHANGED link
  /\ UNCHANGED <<asked, cmds, answers, shutdown, worker, tables, client, pipe>>

SupervisorStarts(r) ==
  /\ sup[r] = "connected" /\ link[r] = "request"
  /\ \/ \E p \in Pids :
          /\ Start(r, p, "unit")
          /\ Sends(r, "started", p)
          /\ sup' = [sup EXCEPT ![r] = "supervises"]
          /\ UNCHANGED unit
     \/ /\ "exec" \in faults
        /\ Sends(r, "startFailed", 0)
        /\ EndUnit(r)
  /\ UNCHANGED <<asked, cmds, answers, shutdown, worker, tables, client, link>>

\* No request in ten seconds, or the worker hung up: nothing is started.
SupervisorGivesUp(r) ==
  /\ sup[r] = "connected" /\ link[r] = "open"
  /\ EndUnit(r)
  /\ UNCHANGED <<asked, cmds, answers, shutdown, worker, tables, client, link, pipe>>

\* finish_child: the program is reaped, its log pumps may still run.
SupervisorReaps(r) ==
  /\ sup[r] = "supervises" /\ program[r].st = "zombie" /\ program[r].in = "unit"
  /\ program' = [program EXCEPT ![r] = NoProgram]
  /\ sup' = [sup EXCEPT ![r] = "drains"]
  /\ Sends(r, "exited", 0)
  /\ UNCHANGED <<asked, cmds, answers, shutdown, worker, tables, unit, client,
                 link, starts>>

\* The pumps are done: Finished is sent and nothing looks at it but logs.
SupervisorFinishes(r) ==
  /\ sup[r] = "drains"
  /\ EndUnit(r)
  /\ UNCHANGED <<asked, cmds, answers, shutdown, worker, tables, client, link, pipe>>

\* The supervisor dies; systemd ends the rest of its control group.
SupervisorCrashes(r) ==
  /\ "crash" \in faults
  /\ sup[r] \in {"starting", "connected", "supervises", "drains"}
  /\ EndUnit(r)
  /\ UNCHANGED <<asked, cmds, answers, shutdown, worker, tables, client, link, pipe>>

\* `systemd-run --wait` sees its unit end.
ClientEnds(r) ==
  /\ client[r] = "waits" /\ sup[r] = "gone"
  /\ client' = [client EXCEPT ![r] = "ended"]
  /\ UNCHANGED <<asked, cmds, answers, shutdown, worker, tables, unit, sup, link,
                 pipe, process>>

\* A program ends by itself and waits to be reaped.
ProgramExits(r) ==
  /\ Runs(r)
  /\ program' = [program EXCEPT ![r].st = "zombie"]
  /\ UNCHANGED <<asked, cmds, answers, shutdown, worker, tables, unit, sup, client,
                 link, pipe, starts>>

-----------------------------------------------------------------------------
Init ==
  /\ \E scenario \in Scenarios :
       /\ faults = scenario.faults
       /\ unit = [s \in UnitSlots |-> IF s \in scenario.left THEN -1 ELSE 0]
  /\ asked = 0 /\ cmds = <<>> /\ evts = <<>> /\ shutdown = FALSE
  /\ told = [x \in Pids \cup Requests |-> NoNews]
  /\ worker = Idle
  /\ children = [p \in Pids |-> NoChild] /\ unconf = {}
  /\ name = [r \in Requests |-> NoSlot]
  /\ sup = [r \in Requests |-> "none"]
  /\ client = [r \in Requests |-> "none"]
  /\ link = [r \in Requests |-> "none"]
  /\ pipe = [r \in Requests |-> <<>>]
  /\ program = [r \in Requests |-> NoProgram]
  /\ starts = [r \in Requests |-> 0]

Compositor ==
  \/ AskSpawn \/ PollEvents \/ DropController
  \/ \E p \in Pids : AskTerminate(p)
  \/ \E r \in Requests : AskTerminateUnconfirmed(r)

Worker ==
  \/ TakeSpawn \/ Terminate \/ TerminateUnconfirmed \/ TakeShutdown \/ TimeOut
  \/ StartWithoutUnit \/ RunUnit \/ GiveUpOnSupervisor \/ AcceptTimeOut
  \/ SendRequest \/ HearStart
  \/ \E p \in Pids : ReapUnitless(p) \/ ReapUnit(p)
  \/ \E r \in Requests : ReapUnconfirmed(r)

Supervisor(r) ==
  \/ SupervisorConnects(r) \/ SupervisorStarts(r) \/ SupervisorGivesUp(r)
  \/ SupervisorReaps(r)

Next ==
  /\ \/ Compositor \/ Worker
     \/ \E r \in Requests :
          \/ Supervisor(r) \/ SupervisorFinishes(r) \/ SupervisorCrashes(r)
          \/ ClientEnds(r) \/ ProgramExits(r)
  /\ UNCHANGED faults

Spec == Init /\ [][Next]_vars

(* Threads and processes run; nothing makes a program, its log pumps or a   *)
(* caller come to an end.                                                   *)
Fairness ==
  /\ WF_vars(Worker /\ UNCHANGED faults)
  /\ WF_vars((\E r \in Requests : Supervisor(r) \/ ClientEnds(r)) /\ UNCHANGED faults)

FairSpec == Spec /\ Fairness

-----------------------------------------------------------------------------
(* Type invariant *)

SupStates == {"none", "starting", "connected", "supervises", "drains", "gone"}
Places    == {"idle", "choose", "accept", "started", "reap", "down"}

TypeOK ==
  /\ asked \in 0..MaxRequests /\ shutdown \in BOOLEAN
  /\ worker \in [at : Places, req : 0..MaxRequests, tried : SUBSET UnitSlots,
                 collided : {NoSlot} \cup UnitSlots, todo : SUBSET Pids,
                 late : SUBSET Requests]
  /\ \A p \in Pids : children[p] \in
       [req : 0..MaxRequests, name : {NoSlot} \cup UnitSlots, unitless : BOOLEAN,
        reader : BOOLEAN, reported : BOOLEAN, closed : BOOLEAN]
  /\ unconf \subseteq Requests
  /\ name \in [Requests -> {NoSlot} \cup UnitSlots]
  /\ unit \in [UnitSlots -> -1..MaxRequests]
  /\ sup \in [Requests -> SupStates]
  /\ client \in [Requests -> {"none", "waits", "ended"}]
  /\ link \in [Requests -> {"none", "open", "request"}]
  /\ program \in [Requests -> [pid : {0} \cup Pids, st : {"none", "runs", "zombie"},
                             in : {"none", "unit", "compositor"}]]
  /\ starts \in [Requests -> Nat]

-----------------------------------------------------------------------------
(* Safety *)

(* The program of a request is started once: neither a handshake that broke *)
(* nor a start without supervisor leaves a second copy that runs or will    *)
(* run (start_unit, start_unitless, the supervisor's request timeout).      *)
OneCopy == \A r \in Requests : starts[r] <= 1

(* The unit a managed child would be stopped by is its own or gone, never   *)
(* one that got the same name later: slots stay taken until the entry goes. *)
StopsOwnUnit ==
  \A p \in Pids : Tracked(p) /\ ~children[p].unitless =>
    unit[children[p].name] \in {children[p].req, 0}

(* The compositor knows processes by their id.  The last thing it was told  *)
(* of an id whose program runs and is managed is the start of that program: *)
(* the end of an older program with the same id never comes after it.       *)
LatestNewsOfRunning ==
  \A p \in Pids :
    LET r == children[p].req
    IN Tracked(p) /\ ~At("down") /\ Runs(r) => News(p) = Started(p, r)

(* The books of the manager are right: of children, of units and of what    *)
(* was told of their process ids.                                           *)
UnitsAreWhole == TypeOK /\ StopsOwnUnit /\ LatestNewsOfRunning

\* Who looks after the program of r.
Attended(r) ==
  \/ \E p \in Pids : children[p].req = r
  \/ r \in unconf
  \/ worker.req = r
  \/ At("down")

(* A running program is out of the manager's sight only after the answer to *)
(* a request to stop it, a stop that failed: no fallback, no broken         *)
(* handshake, no program that starts late and no reused process id lets go  *)
(* of one.                                                                  *)
Unattended(r) == Runs(r) /\ ~Attended(r)

LostOnlyByStop ==
  [][\A r \in Requests :
       Unattended(r)' /\ ~Unattended(r) =>
         \/ NextCmd("terminate") /\ children[Head(cmds).id].req = r
         \/ NextCmd("terminateUnconfirmed") /\ Head(cmds).id = r
         \/ News(r).op = "terminatedUnconfirmed"]_vars

-----------------------------------------------------------------------------
(* What the controller promises *)

Answered(r) == News(r) # NoNews

\* A program of r may still come: the supervisor has the request.
MayStart(r) == sup[r] = "connected" /\ link[r] = "request"

PhaseOf(r) ==
  IF r > asked THEN "new"
  ELSE IF ~Answered(r) THEN "asked"
  ELSE IF \E p \in Pids : children[p].req = r /\ ~children[p].reported THEN "managed"
  ELSE IF r \in unconf THEN "unconfirmed"
  ELSE IF Runs(r) \/ MayStart(r) THEN "abandoned" ELSE "ended"

ProgramOf(r) == IF Runs(r) THEN "runs" ELSE IF starts[r] = 0 THEN "none" ELSE "dead"

Contract == INSTANCE ChildControl WITH
  phase <- [r \in Requests |-> PhaseOf(r)],
  program <- [r \in Requests |-> ProgramOf(r)]

\* The worker, with systemd and the supervisors, keeps the promise.
ImplementsChildControl == Contract!Spec

-----------------------------------------------------------------------------
(* Liveness *)

\* Every spawn request is answered unless the controller is dropped.
SpawnsAreAnswered ==
  \A r \in Requests : asked >= r ~> (Answered(r) \/ shutdown)

(* The end of a managed program is reported although its supervisor may     *)
(* drain logs for ever, as long as its events can be read.                  *)
Unreported(r) ==
  /\ ~Runs(r)
  /\ \E p \in Pids : /\ children[p].req = r /\ ~children[p].reported
                     /\ children[p].reader \/ children[p].unitless
ExitsAreReported == \A r \in Requests : Unreported(r) ~> (~Unreported(r) \/ shutdown)

\* The controller owes an answer to every spawn and the news of every end.
AllIsReported == SpawnsAreAnswered /\ ExitsAreReported
=============================================================================
