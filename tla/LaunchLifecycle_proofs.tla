----------------------- MODULE LaunchLifecycle_proofs -----------------------
(***************************************************************************)
(* Machine-checked facts about LaunchLifecycle, for any panes, specs,      *)
(* request kinds, bounds and order of answers: type correctness, that the  *)
(* per-slot launch index and the table of pending launches stay each       *)
(* other's inverse, that the shell never has two launches, that every      *)
(* answer to a termination meets the one stop that asked for it, that no   *)
(* program is lost, that what runs is what its slot wants, that a slot     *)
(* without the right to run anything runs nothing, and that what is wanted *)
(* is launched.                                                            *)
(*                                                                         *)
(* IndexInv is the inductive invariant of the two about launches: answers, *)
(* stops, releases and launches each have a lemma, and every action is one *)
(* of them.  Awaited, with the types, is that of the answers: it counts    *)
(* commands, answers and stops of one pid, step by step.  Kept, with both, *)
(* is that of the programs: what a slot, the stops, the commands and the   *)
(* answers under way know of every child, slot by slot.  Wants adds what a *)
(* slot runs and was launched for, ShellRole what the overlay role is to   *)
(* the shell, Pursued who is to be launched and why that will happen.      *)
(***************************************************************************)
EXTENDS LaunchLifecycle, SequenceTheorems, FunctionTheorems, FiniteSetTheorems, TLAPS

-----------------------------------------------------------------------------
(* Slot records                                                             *)

States == {"absent", "waiting", "launching", "attached", "failed", "exited"}

(* Updating several fields of one slot's record keeps the slots typed; one  *)
(* lemma for each combination of fields the handlers set together.          *)

\* What a stop that is over, an exit or a window changes.
LEMMA StateUpdate ==
  ASSUME NEW sl \in [Slots -> SlotRecord], NEW s \in Slots,
         NEW st \in States, NEW pid \in Int
  PROVE  [sl EXCEPT ![s] = [@ EXCEPT !.st = st,
            !.pid = pid]] \in [Slots -> SlotRecord]
BY ZenonT(60) DEF SlotRecord, States

\* An answered stop.
LEMMA StopUpdate ==
  ASSUME NEW sl \in [Slots -> SlotRecord], NEW s \in Slots,
         NEW st \in States, NEW pid \in Int, NEW token \in Nat
  PROVE  [sl EXCEPT ![s] = [@ EXCEPT !.st = st, !.pid = pid,
            !.token = token]] \in [Slots -> SlotRecord]
BY ZenonT(60) DEF SlotRecord, States

\* An answered stop of an unconfirmed launch.
LEMMA UnconfirmedStopUpdate ==
  ASSUME NEW sl \in [Slots -> SlotRecord], NEW s \in Slots,
         NEW st \in States, NEW pid \in Int, NEW token \in Nat,
         NEW ureq \in Nat
  PROVE  [sl EXCEPT ![s] = [@ EXCEPT !.st = st, !.pid = pid,
            !.token = token, !.ureq = ureq]] \in [Slots -> SlotRecord]
BY ZenonT(60) DEF SlotRecord, States

\* The exit of an unconfirmed launch.
LEMMA UnconfirmedExitUpdate ==
  ASSUME NEW sl \in [Slots -> SlotRecord], NEW s \in Slots,
         NEW st \in States, NEW pid \in Int, NEW ureq \in Nat
  PROVE  [sl EXCEPT ![s] = [@ EXCEPT !.st = st, !.pid = pid,
            !.ureq = ureq]] \in [Slots -> SlotRecord]
BY ZenonT(60) DEF SlotRecord, States

\* The answer to a launch.
LEMMA OutcomeUpdate ==
  ASSUME NEW sl \in [Slots -> SlotRecord], NEW s \in Slots,
         NEW st \in States, NEW pid \in Int, NEW ureq \in Nat,
         NEW token \in Nat
  PROVE  [sl EXCEPT ![s] = [@ EXCEPT !.st = st, !.pid = pid, !.ureq = ureq,
            !.token = token]] \in [Slots -> SlotRecord]
BY ZenonT(60) DEF SlotRecord, States

\* A launch request.
LEMMA IndexUpdate ==
  ASSUME NEW sl \in [Slots -> SlotRecord], NEW s \in Slots, NEW idx \in Nat,
         NEW token \in Nat
  PROVE  [sl EXCEPT ![s] = [@ EXCEPT !.idx = idx,
            !.token = token]] \in [Slots -> SlotRecord]
BY DEF SlotRecord, States

\* Clearing both launch indexes.
LEMMA ClearUpdate ==
  ASSUME NEW sl \in [Slots -> SlotRecord], NEW s \in Slots, NEW idx \in Nat,
         NEW ureq \in Nat
  PROVE  [sl EXCEPT ![s] = [@ EXCEPT !.idx = idx,
            !.ureq = ureq]] \in [Slots -> SlotRecord]
BY ZenonT(60) DEF SlotRecord, States

\* Dismissing the shell.
LEMMA DismissUpdate ==
  ASSUME NEW sl \in [Slots -> SlotRecord], NEW s \in Slots,
         NEW st \in States, NEW pid \in Int, NEW idx \in Nat,
         NEW ureq \in Nat
  PROVE  [sl EXCEPT ![s] = [@ EXCEPT !.st = st, !.pid = pid, !.idx = idx,
            !.ureq = ureq]] \in [Slots -> SlotRecord]
BY ZenonT(60) DEF SlotRecord, States

\* Selecting a main app.
LEMMA SelectUpdate ==
  ASSUME NEW sl \in [Slots -> SlotRecord], NEW s \in Slots,
         NEW want \in Specs \cup {None}, NEW st \in States, NEW pid \in Int,
         NEW token \in Nat
  PROVE  [sl EXCEPT ![s] = [@ EXCEPT !.want = want, !.st = st, !.pid = pid,
            !.token = token]] \in [Slots -> SlotRecord]
BY ZenonT(60) DEF SlotRecord, States

\* A host plan of an unchanged identity.
LEMMA HostUpdate ==
  ASSUME NEW sl \in [Slots -> SlotRecord], NEW s \in Slots,
         NEW want \in Specs \cup {None}, NEW rev \in Nat
  PROVE  [sl EXCEPT ![s] = [@ EXCEPT !.want = want,
            !.rev = rev]] \in [Slots -> SlotRecord]
BY ZenonT(60) DEF SlotRecord, States

\* Switching a pane to an external program.
LEMMA SwitchUpdate ==
  ASSUME NEW sl \in [Slots -> SlotRecord], NEW s \in Slots,
         NEW want \in Specs \cup {None}, NEW st \in States, NEW pid \in Int
  PROVE  [sl EXCEPT ![s] = [@ EXCEPT !.want = want, !.st = st,
            !.pid = pid]] \in [Slots -> SlotRecord]
BY ZenonT(60) DEF SlotRecord, States

\* A host plan of a changed identity.
LEMMA IdentityUpdate ==
  ASSUME NEW sl \in [Slots -> SlotRecord], NEW s \in Slots, NEW st \in States,
         NEW pid \in Int, NEW want \in Specs, NEW rev \in Nat
  PROVE  [sl EXCEPT ![s] = [@ EXCEPT !.st = st, !.pid = pid,
            !.idx = 0, !.ureq = 0, !.token = 0,
            !.want = want, !.rev = rev]] \in [Slots -> SlotRecord]
BY ZenonT(60) DEF SlotRecord, States

\* The record the state keeps for a slot that runs nothing.
LEMMA VacantType == Vacant \in SlotRecord
BY DEF Vacant, SlotRecord

LEMMA RecordUpdate ==
  ASSUME NEW old \in SlotRecord, NEW st \in States, NEW pid \in Int
  PROVE  [old EXCEPT !.st = st, !.pid = pid] \in SlotRecord
BY DEF SlotRecord, States

\* Replacing one slot's record by a typed one keeps the slots typed.
LEMMA SlotUpdate ==
  ASSUME NEW sl \in [Slots -> SlotRecord], NEW s \in Slots, NEW rec \in SlotRecord
  PROVE  /\ [sl EXCEPT ![s] = rec] \in [Slots -> SlotRecord]
         /\ [sl EXCEPT ![s] = rec][s] = rec
         /\ \A q \in Slots \ {s} : [sl EXCEPT ![s] = rec][q] = sl[q]
OBVIOUS

-----------------------------------------------------------------------------
(* The helpers keep the types of the queues and tables                      *)

\* A handler that ends with an agenda of typed items leaves a typed agenda.
LEMMA DoType ==
  ASSUME TypeOK, work # <<>>, NEW items \in Seq(WorkRecord), Do(items)
  PROVE  work' \in Seq(WorkRecord)
BY HeadTailProperties, ConcatProperties, Zenon DEF TypeOK, Do

\* A command that is no spawn can be sent at any time.
LEMMA SendType ==
  ASSUME NEW queue \in Seq(CmdRecord), SpawnsLogged(queue),
         NEW op \in {"terminate", "terminateUnconfirmed"}, NEW id \in Int
  PROVE  /\ Append(queue, Cmd(op, id)) \in Seq(CmdRecord)
         /\ SpawnsLogged(Append(queue, Cmd(op, id)))
<1>1. Cmd(op, id) \in CmdRecord /\ Cmd(op, id).op # "spawn"
  BY DEF Cmd, CmdRecord
<1>2. QED
  BY <1>1, AppendProperties DEF SpawnsLogged

\* Asking for a termination keeps the stop table and the channel typed.
LEMMA TerminateType ==
  ASSUME TypeOK, NEW pid \in Int, NEW kind \in {"slot", "stale"},
         NEW s \in Slots, NEW queue \in Seq(CmdRecord), SpawnsLogged(queue),
         Terminate(pid, kind, s, queue)
  PROVE  stops' \subseteq Stop /\ cmds' \in Seq(CmdRecord) /\ SpawnsLogged(cmds')
<1>1. [id |-> pid, kind |-> kind, slot |-> s] \in Stop
  BY DEF Stop
<1>2. QED
  BY <1>1, SendType DEF Terminate, TypeOK

\* The process a slot runs is named by an integer.
LEMMA RunningPidType ==
  ASSUME TypeOK, NEW s \in Slots
  PROVE  RunningPid(s) \in Int
BY DEF TypeOK, RunningPid, SlotRecord

\* Releasing a slot's child keeps every table typed.
LEMMA ReleaseChildType ==
  ASSUME TypeOK, NEW s \in Slots, ReleaseChild(s)
  PROVE  /\ pending' \subseteq DOMAIN launch
         /\ cancelled' \subseteq DOMAIN launch
         /\ unconfirmed' \subseteq DOMAIN launch
         /\ stops' \subseteq Stop /\ ustops' \subseteq Stop
         /\ cmds' \in Seq(CmdRecord) /\ SpawnsLogged(cmds')
         /\ UNCHANGED <<launch, app, alive, evts>>
<1> DEFINE u == slot[s].ureq
           stopU == u \in unconfirmed /\ ~ \E x \in ustops : x.id = u
           queue == IF stopU THEN Append(cmds, Cmd("terminateUnconfirmed", u))
                             ELSE cmds
<1>1. u \in Int
  BY DEF TypeOK, SlotRecord
<1>2. queue \in Seq(CmdRecord) /\ SpawnsLogged(queue)
  BY <1>1, SendType DEF TypeOK
<1>3. stops' \subseteq Stop /\ cmds' \in Seq(CmdRecord) /\ SpawnsLogged(cmds')
  <2>1. Terminate(RunningPid(s), "slot", s, queue)
    BY DEF ReleaseChild, StopRunning
  <2>2. QED
    BY <1>2, <2>1, RunningPidType, TerminateType
<1>4. ustops' \subseteq Stop
  <2>1. [id |-> u, kind |-> "stale", slot |-> s] \in Stop
    BY <1>1 DEF Stop
  <2>2. QED
    BY <2>1 DEF ReleaseChild, TypeOK
<1>5. QED
  BY <1>3, <1>4 DEF ReleaseChild, CancelPending, TypeOK, children

\* A launch: the request log and the worker's table grow together.
LEMMA SpawnType ==
  ASSUME TypeOK, NEW s \in Slots, NEW sl \in [Slots -> SlotRecord],
         sl[s].want # None, NEW rest \in Seq(WorkRecord), Spawn(s, sl, rest)
  PROVE  /\ slot' \in [Slots -> SlotRecord]
         /\ launch' \in Seq(Launched)
         /\ app' \in Seq(AppStates) /\ Len(app') = Len(launch')
         /\ alive' \subseteq DOMAIN launch'
         /\ pending' \subseteq DOMAIN launch'
         /\ unconfirmed' \subseteq DOMAIN launch'
         /\ cancelled' \subseteq DOMAIN launch'
         /\ stops' \subseteq Stop /\ ustops' \subseteq Stop
         /\ cmds' \in Seq(CmdRecord) /\ SpawnsLogged(cmds)'
         /\ evts' \in Seq(EvtRecord)
         /\ work' \in Seq(WorkRecord)
<1> DEFINE r == Len(launch) + 1
           entry == [slot |-> s, spec |-> sl[s].want, rev |-> sl[s].rev]
<1>1. entry \in Launched
  BY DEF Launched, SlotRecord
<1>2. r \in Nat /\ launch' = Append(launch, entry)
  BY LenProperties DEF Spawn, TypeOK
<1>3. /\ launch' \in Seq(Launched) /\ Len(launch') = r
      /\ DOMAIN launch' = DOMAIN launch \cup {r}
  BY <1>1, <1>2, AppendProperties, LenProperties DEF TypeOK
<1>4. app' \in Seq(AppStates) /\ Len(app') = Len(launch')
  <2>1. "queued" \in AppStates
    BY DEF AppStates
  <2>2. QED
    BY <1>3, <2>1, AppendProperties DEF Spawn, TypeOK
<1>5. slot' \in [Slots -> SlotRecord]
  <2>1. (IF s \in Panes THEN r ELSE sl[s].token) \in Nat
    BY <1>2 DEF SlotRecord
  <2>2. slot' = [sl EXCEPT ![s] = [@ EXCEPT
                   !.idx = r, !.token = IF s \in Panes THEN r ELSE sl[s].token]]
    BY DEF Spawn
  <2>3. QED
    BY <1>2, <2>1, <2>2, IndexUpdate, Zenon
<1>6. cmds' \in Seq(CmdRecord) /\ SpawnsLogged(cmds)'
  <2>1. Cmd("spawn", r) \in CmdRecord /\ Cmd("spawn", r).id = r
    BY <1>2 DEF Cmd, CmdRecord
  <2>2. cmds' = Append(cmds, Cmd("spawn", r))
    BY DEF Spawn
  <2>3. QED
    BY <1>3, <2>1, <2>2, AppendProperties DEF TypeOK, SpawnsLogged
<1>7. work' \in Seq(WorkRecord)
  <2>1. Poll \in WorkRecord
    BY DEF Poll, Todo, WorkRecord, TodoRecord
  <2>2. <<Poll>> \in Seq(WorkRecord)
    BY <2>1
  <2>3. QED
    BY <2>2, ConcatProperties DEF Spawn
<1>8. QED
  BY <1>3, <1>4, <1>5, <1>6, <1>7 DEF Spawn, TypeOK

-----------------------------------------------------------------------------
(* The steps of the mutex holder keep the types                             *)

\* The agenda items handlers leave behind are typed.
LEMMA TodoType ==
  /\ Poll \in WorkRecord
  /\ \A s \in Slots : Launch(s) \in WorkRecord
  /\ \A p \in Panes : /\ Todo("removePane", p) \in WorkRecord
                      /\ Todo("dropPane", p) \in WorkRecord
  /\ <<>> \in Seq(WorkRecord)
  /\ <<Poll>> \in Seq(WorkRecord)
  /\ \A s \in Slots : Retry(s) \in Seq(WorkRecord)
  /\ \A a, b \in WorkRecord : <<a>> \in Seq(WorkRecord) /\ <<a, b>> \in Seq(WorkRecord)
<1>1. \A a, b \in WorkRecord : <<a>> \in Seq(WorkRecord) /\ <<a, b>> \in Seq(WorkRecord)
  OBVIOUS
<1>2. /\ Poll \in WorkRecord
      /\ \A s \in Slots : Launch(s) \in WorkRecord
      /\ \A p \in Panes : /\ Todo("removePane", p) \in WorkRecord
                          /\ Todo("dropPane", p) \in WorkRecord
  BY DEF Poll, Launch, Todo, WorkRecord, TodoRecord
<1>3. QED
  BY <1>1, <1>2 DEF Retry

\* A logged request belongs to a slot.
LEMMA LaunchedType ==
  ASSUME TypeOK, NEW r \in DOMAIN launch
  PROVE  /\ r \in Nat \ {0} /\ launch[r] \in Launched
         /\ launch[r].slot \in Slots /\ launch[r].spec \in Specs
<1>1. launch[r] \in Launched /\ r \in Nat \ {0}
  BY ElementOfSeq, LenProperties DEF TypeOK
<1>2. QED
  BY <1>1 DEF Launched

\* Clearing the indexes of a request keeps the slots typed.
LEMMA ClearIndexType ==
  ASSUME NEW sl \in [Slots -> SlotRecord], NEW r \in Nat,
         launch[r].slot \in Slots
  PROVE  ClearIndex(sl, r) \in [Slots -> SlotRecord]
<1> DEFINE s == launch[r].slot
           idx  == IF sl[s].idx = r THEN 0 ELSE sl[s].idx
           ureq == IF sl[s].ureq = r THEN 0 ELSE sl[s].ureq
<1>1. sl[s] \in SlotRecord
  OBVIOUS
<1>2. idx \in Nat /\ ureq \in Nat
  BY <1>1 DEF SlotRecord
<1>3. QED
  BY <1>2, ClearUpdate, Zenon DEF ClearIndex

\* The answer to a launch clears its index and sets the outcome.
LEMMA OutcomeType ==
  ASSUME TypeOK, NEW r \in DOMAIN launch, NEW st \in States, NEW pid \in Int,
         NEW ureq \in Nat, NEW token \in Nat
  PROVE  [ClearIndex(slot, r) EXCEPT ![launch[r].slot] = [@ EXCEPT
            !.st = st, !.pid = pid, !.ureq = ureq, !.token = token]]
              \in [Slots -> SlotRecord]
<1>1. launch[r].slot \in Slots /\ ClearIndex(slot, r) \in [Slots -> SlotRecord]
  BY LaunchedType, ClearIndexType DEF TypeOK
<1>2. QED
  BY <1>1, OutcomeUpdate, Zenon

\* What a slot falls back to is a lifecycle state.
LEMMA RestType ==
  ASSUME NEW s
  PROVE  Rest(s) \in States
BY DEF Rest, States

LEMMA SpawnStartedType ==
  ASSUME TypeOK, SpawnStarted
  PROVE  TypeOK'
<1> DEFINE r == Subject
           s == launch[r].slot
<1>1. r \in DOMAIN launch
  BY DEF SpawnStarted, TypeOK
<1>2. s \in Slots /\ r \in Nat /\ ClearIndex(slot, r) \in [Slots -> SlotRecord]
  BY <1>1, LaunchedType, ClearIndexType DEF TypeOK
<1>3. slot' \in [Slots -> SlotRecord]
  <2>1. [ClearIndex(slot, r) EXCEPT ![s] = [@ EXCEPT
           !.st = "launching", !.pid = r, !.ureq = 0, !.token = r]]
              \in [Slots -> SlotRecord]
    <3>1. {0, r} \subseteq Nat /\ {0, r} \subseteq Int
             /\ "launching" \in States /\ "failed" \in States
      BY <1>2 DEF States
    <3>2. QED
      BY <1>1, <3>1, OutcomeType, Zenon
  <2>2. QED
    BY <1>2, <2>1 DEF SpawnStarted, TypeOK
<1>4. stops' \subseteq Stop /\ cmds' \in Seq(CmdRecord) /\ SpawnsLogged(cmds')
  <2>1. CASE StopLate(r)
    BY <1>2, <2>1, TerminateType DEF TypeOK, StopLate
  <2>2. CASE UNCHANGED <<stops, cmds>>
    BY <2>2 DEF TypeOK
  <2>3. QED
    BY <2>1, <2>2 DEF SpawnStarted
<1>5. work' \in Seq(WorkRecord)
  BY TodoType, DoType DEF SpawnStarted, Applying
<1>6. QED
  BY <1>3, <1>4, <1>5 DEF SpawnStarted, TypeOK, SpawnsLogged, children

LEMMA SpawnUnconfirmedType ==
  ASSUME TypeOK, SpawnUnconfirmed
  PROVE  TypeOK'
<1> DEFINE r == Subject
           s == launch[r].slot
<1>1. r \in DOMAIN launch
  BY DEF SpawnUnconfirmed, TypeOK
<1>2. s \in Slots /\ r \in Nat /\ ClearIndex(slot, r) \in [Slots -> SlotRecord]
  BY <1>1, LaunchedType, ClearIndexType DEF TypeOK
<1>3. slot' \in [Slots -> SlotRecord]
  <2>1. [ClearIndex(slot, r) EXCEPT ![s] = [@ EXCEPT
           !.st = "launching", !.pid = 0, !.ureq = r, !.token = r]]
              \in [Slots -> SlotRecord]
    <3>1. {0, r} \subseteq Nat /\ {0, r} \subseteq Int
             /\ "launching" \in States /\ "failed" \in States
      BY <1>2 DEF States
    <3>2. QED
      BY <1>1, <3>1, OutcomeType, Zenon
  <2>2. QED
    BY <1>2, <2>1 DEF SpawnUnconfirmed, TypeOK
<1>4. work' \in Seq(WorkRecord)
  BY TodoType, DoType DEF SpawnUnconfirmed, Applying
<1>5. QED
  BY <1>1, <1>3, <1>4 DEF SpawnUnconfirmed, TypeOK, SpawnsLogged, children

LEMMA SpawnFailedType ==
  ASSUME TypeOK, SpawnFailed
  PROVE  TypeOK'
<1> DEFINE r == Subject
           s == launch[r].slot
<1>1. r \in DOMAIN launch
  BY DEF SpawnFailed, TypeOK
<1>2. s \in Slots /\ r \in Nat /\ ClearIndex(slot, r) \in [Slots -> SlotRecord]
  BY <1>1, LaunchedType, ClearIndexType DEF TypeOK
<1>3. slot' \in [Slots -> SlotRecord]
  <2>1. [ClearIndex(slot, r) EXCEPT ![s] = [@ EXCEPT
           !.st = "failed", !.pid = 0, !.ureq = 0, !.token = 0]]
              \in [Slots -> SlotRecord]
    <3>1. {0, r} \subseteq Nat /\ {0, r} \subseteq Int
             /\ "launching" \in States /\ "failed" \in States
      BY <1>2 DEF States
    <3>2. QED
      BY <1>1, <3>1, OutcomeType, Zenon
  <2>2. QED
    BY <1>2, <2>1 DEF SpawnFailed, TypeOK
<1>4. work' \in Seq(WorkRecord)
  BY <1>2, TodoType, DoType DEF SpawnFailed, Applying
<1>5. QED
  BY <1>1, <1>3, <1>4 DEF SpawnFailed, TypeOK, SpawnsLogged, children

LEMMA ExitedType ==
  ASSUME TypeOK, Exited
  PROVE  TypeOK'
<1>1. slot' \in [Slots -> SlotRecord]
  BY ZenonT(60) DEF Exited, TypeOK, SlotRecord
<1>2. work' \in Seq(WorkRecord)
  BY TodoType, DoType DEF Exited, Applying
<1>3. QED
  BY <1>1, <1>2 DEF Exited, TypeOK, SpawnsLogged, children, tables

LEMMA TerminatedType ==
  ASSUME TypeOK, Terminated
  PROVE  TypeOK'
<1>1. PICK x \in stops :
        /\ stops' = stops \ {x}
        /\ \/ slot' = [slot EXCEPT ![x.slot] = [@ EXCEPT !.st = "failed",
                                                   !.pid = 0, !.token = 0]]
           \/ slot' = [slot EXCEPT ![x.slot] = [@ EXCEPT !.st = Rest(x.slot),
                                                   !.pid = 0, !.token = 0]]
           \/ slot' = slot
        /\ Do(Retry(x.slot))
  BY Zenon DEF Terminated
<1> DEFINE s == x.slot
<1>2. s \in Slots
  BY DEF TypeOK, Stop
<1>3. slot \in [Slots -> SlotRecord] /\ 0 \in Int /\ 0 \in Nat
  BY DEF TypeOK
<1>4. "failed" \in States /\ Rest(s) \in States
  BY RestType DEF States
<1>5. slot' \in [Slots -> SlotRecord]
  <2>1. \A st \in States :
          [slot EXCEPT ![s] = [@ EXCEPT !.st = st, !.pid = 0, !.token = 0]]
             \in [Slots -> SlotRecord]
    BY <1>2, <1>3, StopUpdate, Zenon
  <2>2. QED
    BY <1>1, <1>3, <1>4, <2>1
<1>6. work' \in Seq(WorkRecord)
  BY <1>1, <1>2, TodoType, DoType DEF Terminated, Applying
<1>7. QED
  BY <1>1, <1>5, <1>6 DEF Terminated, TypeOK, SpawnsLogged, children

LEMMA TerminatedUnconfirmedType ==
  ASSUME TypeOK, TerminatedUnconfirmed
  PROVE  TypeOK'
<1>1. PICK x \in ustops :
        /\ ustops' = ustops \ {x}
        /\ unconfirmed' = unconfirmed \ {x.id}
        /\ \/ slot' = [slot EXCEPT ![x.slot] = [@ EXCEPT !.st = Rest(x.slot),
                          !.pid = 0, !.token = 0,
                          !.ureq = IF x.slot \in Panes \/ slot[x.slot].ureq = x.id
                                   THEN 0 ELSE slot[x.slot].ureq]]
           \/ slot' = slot
        /\ Do(Retry(x.slot))
  BY Zenon DEF TerminatedUnconfirmed
<1> DEFINE s == x.slot
           ureq == IF s \in Panes \/ slot[s].ureq = x.id THEN 0 ELSE slot[s].ureq
<1>2. s \in Slots
  BY DEF TypeOK, Stop
<1>3. slot \in [Slots -> SlotRecord] /\ 0 \in Int /\ 0 \in Nat
  BY DEF TypeOK
<1>4. ureq \in Nat /\ Rest(s) \in States
  BY <1>2, <1>3, RestType DEF SlotRecord
<1>5. slot' \in [Slots -> SlotRecord]
  <2>1. [slot EXCEPT ![s] = [@ EXCEPT !.st = Rest(s), !.pid = 0, !.token = 0,
                                      !.ureq = ureq]] \in [Slots -> SlotRecord]
    BY <1>2, <1>3, <1>4, UnconfirmedStopUpdate, Zenon
  <2>2. QED
    BY <1>1, <1>3, <2>1
<1>6. work' \in Seq(WorkRecord)
  BY <1>1, <1>2, TodoType, DoType DEF TerminatedUnconfirmed, Applying
<1>7. QED
  BY <1>1, <1>5, <1>6 DEF TerminatedUnconfirmed, TypeOK, SpawnsLogged, children

LEMMA UnconfirmedExitedType ==
  ASSUME TypeOK, UnconfirmedExited
  PROVE  TypeOK'
<1> DEFINE s == launch[Subject].slot
<1>1. slot' \in [Slots -> SlotRecord]
  <2>1. CASE Subject \in unconfirmed /\ slot[s].ureq = Subject
    <3>1. slot' = [slot EXCEPT ![s] = [@ EXCEPT !.st = "exited",
                                         !.pid = 0, !.ureq = 0]]
      BY <2>1 DEF UnconfirmedExited
    <3>2. s \in Slots
      BY <2>1, LaunchedType DEF TypeOK
    <3>3. slot \in [Slots -> SlotRecord] /\ 0 \in Int /\ 0 \in Nat
      BY DEF TypeOK
    <3>4. "exited" \in States
      BY DEF States
    <3>5. QED
      BY <3>1, <3>2, <3>3, <3>4, UnconfirmedExitUpdate, Zenon
  <2>2. CASE ~(Subject \in unconfirmed /\ slot[s].ureq = Subject)
    BY <2>2 DEF UnconfirmedExited, TypeOK
  <2>3. QED
    BY <2>1, <2>2
<1>2. work' \in Seq(WorkRecord)
  BY TodoType, DoType DEF UnconfirmedExited, Applying
<1>3. QED
  BY <1>1, <1>2 DEF UnconfirmedExited, TypeOK, SpawnsLogged, children

LEMMA PollProcessesType ==
  ASSUME TypeOK, PollProcesses
  PROVE  TypeOK'
<1>1. evts \in Seq(WorkRecord)
  BY SeqMonotonic DEF TypeOK, WorkRecord
<1>2. work' \in Seq(WorkRecord)
  BY <1>1, DoType DEF PollProcesses, Applying
<1>3. QED
  BY <1>2 DEF PollProcesses, TypeOK, SpawnsLogged, children, tables, slots

LEMMA LaunchSlotType ==
  ASSUME TypeOK, LaunchSlot
  PROVE  TypeOK'
<1> DEFINE s == Head(work).slot
<1>1. s \in Slots
  <2>1. Head(work) \in WorkRecord
    BY HeadTailProperties DEF TypeOK, LaunchSlot, Applying
  <2>2. QED
    BY <2>1 DEF LaunchSlot, Applying, WorkRecord, EvtRecord, TodoRecord, EvtOps
<1>2. Tail(work) \in Seq(WorkRecord)
  BY HeadTailProperties DEF TypeOK, LaunchSlot, Applying
<1>3. CASE MayLaunch(s)
  <2>1. Spawn(s, slot, Tail(work)) /\ slot[s].want # None
    BY <1>3 DEF LaunchSlot, MayLaunch
  <2>2. QED
    BY <1>1, <1>2, <2>1, SpawnType DEF LaunchSlot, TypeOK
<1>4. CASE ~MayLaunch(s)
  <2>1. slot' \in [Slots -> SlotRecord]
    <3>1. \/ slot' = [slot EXCEPT ![s] = [@ EXCEPT !.st = Rest(s), !.pid = 0]]
          \/ slot' = slot
      BY <1>4 DEF LaunchSlot
    <3>2. slot \in [Slots -> SlotRecord] /\ 0 \in Int /\ Rest(s) \in States
      BY RestType DEF TypeOK
    <3>3. [slot EXCEPT ![s] = [@ EXCEPT !.st = Rest(s), !.pid = 0]]
             \in [Slots -> SlotRecord]
      BY <1>1, <3>2, StateUpdate, Zenon
    <3>4. QED
      BY <3>1, <3>2, <3>3
  <2>2. work' \in Seq(WorkRecord)
    BY <1>4, TodoType, DoType DEF LaunchSlot, Applying
  <2>3. QED
    BY <1>4, <2>1, <2>2 DEF LaunchSlot, TypeOK, SpawnsLogged, children, tables
<1>5. QED
  BY <1>3, <1>4

LEMMA RemoveReleasedPaneType ==
  ASSUME TypeOK, RemoveReleasedPane
  PROVE  TypeOK'
<1> DEFINE p == Head(work).slot
<1>1. p \in Panes
  <2>1. Head(work) \in WorkRecord
    BY HeadTailProperties DEF TypeOK, RemoveReleasedPane, Applying
  <2>2. QED
    BY <2>1 DEF RemoveReleasedPane, Applying, WorkRecord, EvtRecord,
                TodoRecord, EvtOps
<1>2. work' \in Seq(WorkRecord)
  BY TodoType, DoType DEF RemoveReleasedPane, Applying
<1>3. [slot EXCEPT ![p] = Vacant] \in [Slots -> SlotRecord]
  BY <1>1, VacantType, SlotUpdate DEF TypeOK, Slots
<1>4. slot' \in [Slots -> SlotRecord] /\ panes' \subseteq Panes
        /\ overlay' \in Panes \cup {Shell, None}
  BY <1>3 DEF RemoveReleasedPane, TypeOK
<1>5. QED
  BY <1>2, <1>4 DEF RemoveReleasedPane, TypeOK, SpawnsLogged, children, tables

LEMMA DropPaneType ==
  ASSUME TypeOK, DropPane
  PROVE  TypeOK'
<1> DEFINE p == Head(work).slot
<1>1. p \in Panes /\ p \in Slots
  <2>1. Head(work) \in WorkRecord
    BY HeadTailProperties DEF TypeOK, DropPane, Applying
  <2>2. QED
    BY <2>1 DEF DropPane, Applying, WorkRecord, EvtRecord, TodoRecord, EvtOps,
                Slots
<1>2. work' \in Seq(WorkRecord)
  BY TodoType, DoType DEF DropPane, Applying
<1>3. slot' \in [Slots -> SlotRecord]
  BY <1>1, VacantType, SlotUpdate DEF TypeOK, DropPane
<1>4. ReleaseChild(p)
  BY DEF DropPane
<1>5. /\ pending' \subseteq DOMAIN launch /\ cancelled' \subseteq DOMAIN launch
      /\ unconfirmed' \subseteq DOMAIN launch
      /\ stops' \subseteq Stop /\ ustops' \subseteq Stop
      /\ cmds' \in Seq(CmdRecord) /\ SpawnsLogged(cmds')
      /\ UNCHANGED <<launch, app, alive, evts>>
  BY <1>1, <1>4, ReleaseChildType
<1>6. QED
  BY <1>2, <1>3, <1>5 DEF DropPane, TypeOK, SpawnsLogged

-----------------------------------------------------------------------------
(* Requests keep the types                                                  *)

\* Giving up the main app, as a launch in flight or as an unconfirmed one.
LEMMA TerminateMainType ==
  ASSUME TypeOK, TerminateMain
  PROVE  /\ pending' \subseteq DOMAIN launch
         /\ cancelled' \subseteq DOMAIN launch
         /\ unconfirmed' \subseteq DOMAIN launch
         /\ stops' \subseteq Stop /\ ustops' \subseteq Stop
         /\ cmds' \in Seq(CmdRecord) /\ SpawnsLogged(cmds')
         /\ UNCHANGED <<launch, app, alive, evts>>
<1> DEFINE u == slot[Main].ureq
<1>1. Main \in Slots /\ u \in Int
  BY DEF Slots, TypeOK, SlotRecord
<1>2. CASE u = 0
  BY <1>1, <1>2, ReleaseChildType DEF TerminateMain
<1>3. CASE u # 0
  <2>1. [id |-> u, kind |-> "slot", slot |-> Main] \in Stop
    BY <1>1 DEF Stop
  <2>2. cmds' \in Seq(CmdRecord) /\ SpawnsLogged(cmds')
    BY <1>1, <1>3, SendType DEF TerminateMain, TypeOK
  <2>3. QED
    BY <1>3, <2>1, <2>2 DEF TerminateMain, TypeOK, children
<1>4. QED
  BY <1>2, <1>3

LEMMA MainReleasedType ==
  ASSUME TypeOK
  PROVE  MainReleased \in [Slots -> SlotRecord]
<1>1. Main \in Slots
  BY DEF Slots
<1>2. QED
  BY <1>1, ZenonT(60) DEF MainReleased, TypeOK, SlotRecord

LEMMA SelectMainAppType ==
  ASSUME TypeOK, NEW intent \in Specs, SelectMainApp(intent)
  PROVE  TypeOK'
<1>1. slot' \in [Slots -> SlotRecord]
  <2>1. /\ Main \in Slots /\ MainReleased \in [Slots -> SlotRecord]
        /\ 0 \in Int /\ 0 \in Nat /\ "waiting" \in States
    BY MainReleasedType DEF Slots, States
  <2>2. [MainReleased EXCEPT ![Main] = [@ EXCEPT !.want = intent,
           !.st = "waiting", !.pid = 0, !.token = 0]] \in [Slots -> SlotRecord]
    BY <2>1, SelectUpdate, Zenon
  <2>3. [MainReleased EXCEPT ![Main] = [@ EXCEPT !.want = intent]]
           \in [Slots -> SlotRecord]
    <3> HIDE DEF MainReleased
    <3>1. QED
      BY <2>1 DEF SlotRecord
  <2>4. QED
    BY <2>2, <2>3 DEF SelectMainApp
<1>2. work' \in Seq(WorkRecord)
  BY TodoType DEF SelectMainApp, Slots
<1>3. QED
  BY <1>1, <1>2, TerminateMainType, SMTT(60) DEF SelectMainApp, Request, TypeOK, SpawnsLogged

LEMMA ResetRuntimeType ==
  ASSUME TypeOK, ResetRuntime
  PROVE  TypeOK'
<1>1. slot' \in [Slots -> SlotRecord]
  <2>1. /\ Main \in Slots /\ MainReleased \in [Slots -> SlotRecord]
        /\ 0 \in Int /\ 0 \in Nat /\ Rest(Main) \in States
    BY MainReleasedType, RestType DEF Slots
  <2>2. [MainReleased EXCEPT ![Main] = [@ EXCEPT !.st = Rest(Main), !.pid = 0,
           !.token = 0, !.ureq = 0]] \in [Slots -> SlotRecord]
    BY <2>1, UnconfirmedStopUpdate, Zenon
  <2>3. QED
    BY <2>1, <2>2 DEF ResetRuntime
<1>2. work' \in Seq(WorkRecord)
  BY TodoType DEF ResetRuntime
<1>3. QED
  <2>1. TerminateMain /\ running' \in BOOLEAN
    BY DEF ResetRuntime
  <2>2. QED
    BY <1>1, <1>2, <2>1, TerminateMainType, SMTT(60)
       DEF ResetRuntime, Request, TypeOK, SpawnsLogged

LEMMA RuntimeRunningType ==
  ASSUME TypeOK, RuntimeRunning
  PROVE  TypeOK'
<1>1. work' \in Seq(WorkRecord)
  BY TodoType DEF RuntimeRunning, Slots
<1>2. QED
  BY <1>1 DEF RuntimeRunning, Request, TypeOK, SpawnsLogged, tables, children

LEMMA OpenShellType ==
  ASSUME TypeOK, OpenShell
  PROVE  TypeOK'
<1>1. work' \in Seq(WorkRecord)
  BY TodoType DEF OpenShell, Slots
<1>2. QED
  BY <1>1 DEF OpenShell, Request, TypeOK, SpawnsLogged, tables, children, Slots

LEMMA DismissShellType ==
  ASSUME TypeOK, DismissShell
  PROVE  TypeOK'
<1> DEFINE kept == \/ RunningPid(Shell) # 0
                   \/ Stopping(Shell)
                   \/ slot[Shell].idx \in pending
                   \/ slot[Shell].ureq \in unconfirmed
<1>0. Shell \in Slots
  BY DEF Slots
<1>1. slot' = [slot EXCEPT ![Shell] = [@ EXCEPT
                 !.st  = IF kept THEN slot[Shell].st ELSE "absent",
                 !.pid = IF kept THEN slot[Shell].pid ELSE 0,
                 !.idx = 0, !.ureq = 0]]
  BY Zenon DEF DismissShell
<1> HIDE DEF kept
<1>2. slot' \in [Slots -> SlotRecord]
  <2>1. /\ slot \in [Slots -> SlotRecord] /\ 0 \in Nat
        /\ (IF kept THEN slot[Shell].st ELSE "absent") \in States
        /\ (IF kept THEN slot[Shell].pid ELSE 0) \in Int
    BY <1>0 DEF TypeOK, SlotRecord, States
  <2>2. QED
    BY <1>0, <1>1, <2>1, DismissUpdate, Zenon
<1>3. work' \in Seq(WorkRecord)
  BY TodoType DEF DismissShell
<1>4. ReleaseChild(Shell)
  BY DEF DismissShell
<1>5. /\ pending' \subseteq DOMAIN launch /\ cancelled' \subseteq DOMAIN launch
      /\ unconfirmed' \subseteq DOMAIN launch
      /\ stops' \subseteq Stop /\ ustops' \subseteq Stop
      /\ cmds' \in Seq(CmdRecord) /\ SpawnsLogged(cmds')
      /\ UNCHANGED <<launch, app, alive, evts>>
  BY <1>0, <1>4, ReleaseChildType
<1>6. QED
  BY <1>2, <1>3, <1>5 DEF DismissShell, Request, TypeOK, SpawnsLogged

\* Hosting a pane, whether its identity changed or not.
LEMMA HostPlanType ==
  ASSUME TypeOK, NEW p \in Panes, NEW spec \in Specs, NEW rev \in Nat,
         HostPlan(p, spec, rev)
  PROVE  /\ slot' \in [Slots -> SlotRecord]
         /\ panes' \subseteq Panes
         /\ pending' \subseteq DOMAIN launch
         /\ cancelled' \subseteq DOMAIN launch
         /\ unconfirmed' \subseteq DOMAIN launch
         /\ stops' \subseteq Stop /\ ustops' \subseteq Stop
         /\ cmds' \in Seq(CmdRecord) /\ SpawnsLogged(cmds')
         /\ UNCHANGED <<launch, app, alive, evts>>
<1>1. p \in Slots /\ slot \in [Slots -> SlotRecord] /\ spec \in Specs \cup {None}
  BY DEF Slots, TypeOK
<1>2. CASE p \in panes /\ slot[p].want # spec
  <2>1. /\ ReleaseChild(p) /\ UNCHANGED panes
        /\ slot' = [slot EXCEPT ![p] = [@ EXCEPT
             !.st = IF RunningPid(p) = 0 THEN "absent" ELSE slot[p].st,
             !.pid = RunningPid(p),
             !.idx = 0, !.ureq = 0, !.token = 0,
             !.want = spec, !.rev = rev]]
    BY <1>2 DEF HostPlan
  <2>2. /\ (IF RunningPid(p) = 0 THEN "absent" ELSE slot[p].st) \in States
        /\ RunningPid(p) \in Int /\ 0 \in Nat
    BY <1>1, RunningPidType DEF SlotRecord, States
  <2>3. slot' \in [Slots -> SlotRecord]
    <3> DEFINE st  == IF RunningPid(p) = 0 THEN "absent" ELSE slot[p].st
               pid == RunningPid(p)
    <3>1. slot' = [slot EXCEPT ![p] = [@ EXCEPT !.st = st, !.pid = pid,
                     !.idx = 0, !.ureq = 0, !.token = 0,
                     !.want = spec, !.rev = rev]]
      BY <2>1
    <3> HIDE DEF st, pid
    <3>2. st \in States /\ pid \in Int
      BY <2>2 DEF st, pid
    <3>3. QED
      BY <1>1, <3>1, <3>2, IdentityUpdate, Zenon
  <2>4. QED
    BY <1>1, <2>1, <2>3, ReleaseChildType DEF TypeOK
<1>3. CASE ~(p \in panes /\ slot[p].want # spec)
  <2>1. /\ slot' = [slot EXCEPT ![p] = [@ EXCEPT !.want = spec, !.rev = rev]]
        /\ panes' = panes \cup {p}
        /\ UNCHANGED <<tables, cmds, evts, children>>
    BY <1>3 DEF HostPlan
  <2>2. slot' \in [Slots -> SlotRecord]
    BY <1>1, <2>1, HostUpdate, Zenon
  <2>3. QED
    BY <2>1, <2>2 DEF TypeOK, tables, children
<1>4. QED
  BY <1>2, <1>3

LEMMA NativePaneHostType ==
  ASSUME TypeOK, NEW p \in Panes, NEW spec \in Specs, NEW rev \in Nat,
         NativePaneHost(p, spec, rev) \/ NativePaneUpdate(p, spec, rev)
  PROVE  TypeOK'
<1>1. work' \in Seq(WorkRecord)
  <2>1. work' = <<Poll, Launch(p)>> \/ work' = <<Poll>>
    BY DEF NativePaneHost, NativePaneUpdate
  <2>2. <<Poll, Launch(p)>> \in Seq(WorkRecord)
    BY TodoType DEF Slots
  <2>3. QED
    BY <2>1, <2>2, TodoType
<1>2. HostPlan(p, spec, rev)
  BY DEF NativePaneHost, NativePaneUpdate
<1>3. /\ ops' \in Nat /\ UNCHANGED <<provided, overlay, running>>
  BY DEF NativePaneHost, NativePaneUpdate, Request, TypeOK
<1>4. QED
  BY <1>1, <1>2, <1>3, HostPlanType DEF TypeOK, SpawnsLogged

LEMMA LaunchNativePaneHostType ==
  ASSUME TypeOK, NEW p \in Panes, LaunchNativePaneHost(p)
  PROVE  TypeOK'
<1>1. work' \in Seq(WorkRecord)
  BY TodoType DEF LaunchNativePaneHost, Slots
<1>2. QED
  BY <1>1 DEF LaunchNativePaneHost, Request, TypeOK, SpawnsLogged, tables,
              children, slots

LEMMA SwitchToExternalType ==
  ASSUME TypeOK, ConstantsAssumption, NEW p \in Panes, NEW spec \in Specs,
         SwitchToExternal(p, spec)
  PROVE  TypeOK'
<1> DEFINE sl == [slot EXCEPT ![p] = [@ EXCEPT !.want = spec, !.st = "absent",
                                               !.pid = 0]]
<1>1. /\ p \in Slots /\ slot \in [Slots -> SlotRecord] /\ 0 \in Int
      /\ "absent" \in States /\ spec \in Specs \cup {None}
  BY DEF Slots, TypeOK, States
<1>2. sl \in [Slots -> SlotRecord]
  BY <1>1, SwitchUpdate, Zenon
<1>3. sl[p].want # None
  BY <1>1 DEF ConstantsAssumption, SlotRecord
<1>4. Spawn(p, sl, <<>>)
  BY DEF SwitchToExternal
<1> HIDE DEF sl
<1>5. <<>> \in Seq(WorkRecord)
  OBVIOUS
<1>6. /\ slot' \in [Slots -> SlotRecord]
      /\ launch' \in Seq(Launched)
      /\ app' \in Seq(AppStates) /\ Len(app') = Len(launch')
      /\ alive' \subseteq DOMAIN launch'
      /\ pending' \subseteq DOMAIN launch'
      /\ unconfirmed' \subseteq DOMAIN launch'
      /\ cancelled' \subseteq DOMAIN launch'
      /\ stops' \subseteq Stop /\ ustops' \subseteq Stop
      /\ cmds' \in Seq(CmdRecord) /\ SpawnsLogged(cmds)'
      /\ evts' \in Seq(EvtRecord)
      /\ work' \in Seq(WorkRecord)
  BY <1>1, <1>2, <1>3, <1>4, <1>5, SpawnType, Zenon
<1>7. /\ panes' \subseteq Panes /\ provided' \subseteq Panes
      /\ overlay' \in Panes \cup {Shell, None} /\ running' \in BOOLEAN /\ ops' \in Nat
  BY <1>1 DEF SwitchToExternal, Request, TypeOK
<1>8. QED
  BY <1>6, <1>7 DEF TypeOK

\* Giving a pane back to Surf Ace.
LEMMA ToSurfAceType ==
  ASSUME TypeOK, NEW p \in Panes, ToSurfAce(p)
  PROVE  /\ slot' \in [Slots -> SlotRecord]
         /\ overlay' \in Panes \cup {Shell, None}
         /\ pending' \subseteq DOMAIN launch
         /\ cancelled' \subseteq DOMAIN launch
         /\ unconfirmed' \subseteq DOMAIN launch
         /\ stops' \subseteq Stop /\ ustops' \subseteq Stop
         /\ cmds' \in Seq(CmdRecord) /\ SpawnsLogged(cmds')
         /\ UNCHANGED <<launch, app, alive, evts>>
<1>1. p \in Slots /\ slot \in [Slots -> SlotRecord] /\ ReleaseChild(p)
  BY DEF Slots, TypeOK, ToSurfAce
<1>2. /\ (IF RunningPid(p) = 0 THEN "absent" ELSE slot[p].st) \in States
      /\ RunningPid(p) \in Int
  BY <1>1, RunningPidType DEF SlotRecord, States
<1>3. [Vacant EXCEPT !.st = IF RunningPid(p) = 0 THEN "absent" ELSE slot[p].st,
                     !.pid = RunningPid(p)] \in SlotRecord
  BY <1>2, VacantType, RecordUpdate, Zenon
<1>4. slot' \in [Slots -> SlotRecord]
  BY <1>1, <1>3, SlotUpdate, Zenon DEF ToSurfAce
<1>5. overlay' \in Panes \cup {Shell, None}
  BY DEF ToSurfAce, TypeOK
<1>6. QED
  BY <1>1, <1>4, <1>5, ReleaseChildType

LEMMA SwitchToSurfAceType ==
  ASSUME TypeOK, NEW p \in Panes, SwitchToSurfAce(p) \/ NativePaneRelease(p)
  PROVE  TypeOK'
<1>1. work' \in Seq(WorkRecord)
  <2>1. work' = <<Poll, Todo("removePane", p)>> \/ work' = <<Poll>>
    BY DEF SwitchToSurfAce, NativePaneRelease
  <2>2. <<Poll, Todo("removePane", p)>> \in Seq(WorkRecord)
    BY TodoType
  <2>3. QED
    BY <2>1, <2>2, TodoType
<1>2. /\ ToSurfAce(p) /\ ops' \in Nat /\ UNCHANGED <<panes, provided, running>>
  BY DEF SwitchToSurfAce, NativePaneRelease, Request, TypeOK
<1>3. QED
  BY <1>1, <1>2, ToSurfAceType DEF TypeOK, SpawnsLogged

LEMMA ApplyProviderSnapshotType ==
  ASSUME TypeOK, ConstantsAssumption, NEW incoming \in SUBSET Panes,
         ApplyProviderSnapshot(incoming)
  PROVE  TypeOK'
<1> DEFINE old == panes \ incoming
<1>1. PICK order \in SetToSeqs(old) :
        work' = [i \in DOMAIN order |-> Todo("dropPane", order[i])] \o <<Poll>>
  BY DEF ApplyProviderSnapshot
<1>2. IsFiniteSet(old) /\ old \subseteq Panes
  BY FS_Subset DEF ConstantsAssumption, TypeOK
<1>3. Cardinality(old) \in Nat /\ order \in [1..Cardinality(old) -> old]
  BY <1>2, FS_CardinalityType DEF SetToSeqs
<1>4. [i \in DOMAIN order |-> Todo("dropPane", order[i])] \in Seq(WorkRecord)
  <2>1. DOMAIN order = 1..Cardinality(old)
    BY <1>3
  <2>2. \A i \in 1..Cardinality(old) : Todo("dropPane", order[i]) \in WorkRecord
    BY <1>2, <1>3, TodoType
  <2> HIDE DEF old
  <2>3. QED
    BY <1>3, <2>1, <2>2, IsASeq
<1>5. work' \in Seq(WorkRecord)
  BY <1>1, <1>4, TodoType, ConcatProperties
<1>6. QED
  BY <1>5, SMTT(60) DEF ApplyProviderSnapshot, Request, TypeOK, SpawnsLogged, tables, children

-----------------------------------------------------------------------------
(* Windows, the worker and the programs keep the types                      *)

LEMMA AttachType ==
  ASSUME TypeOK, NEW s \in Slots, Attach(s)
  PROVE  TypeOK'
<1>1. PICK c \in {slot[s].pid, -ReqOf(slot[s].pid)} :
        slot' = [slot EXCEPT ![s] = [@ EXCEPT !.st = "attached", !.pid = c]]
  BY DEF Attach
<1>2. /\ slot \in [Slots -> SlotRecord] /\ "attached" \in States
      /\ slot[s].pid \in Int
  BY DEF TypeOK, States, SlotRecord
<1>3. c \in Int
  BY <1>2 DEF ReqOf
<1>4. slot' \in [Slots -> SlotRecord]
  BY <1>1, <1>2, <1>3, StateUpdate, Zenon
<1>5. QED
  BY <1>4 DEF Attach, TypeOK, SpawnsLogged, tables, children

LEMMA DetachType ==
  ASSUME TypeOK, NEW s \in Slots, Detach(s)
  PROVE  TypeOK'
<1>1. slot' \in [Slots -> SlotRecord]
  BY ZenonT(60) DEF Detach, TypeOK, SlotRecord
<1>2. QED
  BY <1>1 DEF Detach, TypeOK, SpawnsLogged, tables, children

LEMMA RecoverOverlayType ==
  ASSUME TypeOK, NEW r \in DOMAIN app, RecoverOverlay(r)
  PROVE  TypeOK'
<1>1. /\ slot \in [Slots -> SlotRecord] /\ "attached" \in States
      /\ r \in Int /\ overlay \in Slots
  BY LenProperties DEF TypeOK, States, RecoverOverlay, Slots
<1>2. slot' = [slot EXCEPT ![overlay] = [@ EXCEPT !.st = "attached", !.pid = r]]
  BY DEF RecoverOverlay
<1>3. slot' \in [Slots -> SlotRecord]
  BY <1>1, <1>2, StateUpdate, Zenon
<1>4. QED
  BY <1>3 DEF RecoverOverlay, Request, TypeOK, SpawnsLogged, tables, children

\* Changing what the worker knows of one child.
LEMMA AppUpdate ==
  ASSUME TypeOK, NEW r, NEW known \in AppStates
  PROVE  /\ [app EXCEPT ![r] = known] \in Seq(AppStates)
         /\ Len([app EXCEPT ![r] = known]) = Len(app)
         /\ DOMAIN [app EXCEPT ![r] = known] = DOMAIN app
<1>1. CASE r \in 1..Len(app)
  BY <1>1, ExceptSeq, LenProperties DEF TypeOK
<1>2. CASE r \notin 1..Len(app)
  <2>1. app \in [1..Len(app) -> AppStates]
    BY LenProperties DEF TypeOK
  <2>2. [app EXCEPT ![r] = known] = app
    BY <1>2, <2>1
  <2>3. QED
    BY <2>2 DEF TypeOK
<1>3. QED
  BY <1>1, <1>2

\* Sending an event, and taking a command.
LEMMA ChannelType ==
  ASSUME TypeOK
  PROVE  /\ \A op \in EvtOps, id \in Int, ok \in BOOLEAN :
              Append(evts, Evt(op, id, ok)) \in Seq(EvtRecord)
         /\ cmds # <<>> => /\ Tail(cmds) \in Seq(CmdRecord)
                           /\ SpawnsLogged(Tail(cmds))
                           /\ Head(cmds).id \in Int
                           /\ Head(cmds).op = "spawn" => Head(cmds).id \in DOMAIN launch
<1>1. \A op \in EvtOps, id \in Int, ok \in BOOLEAN : Evt(op, id, ok) \in EvtRecord
  BY DEF Evt, EvtRecord
<1>2. \A op \in EvtOps, id \in Int, ok \in BOOLEAN :
         Append(evts, Evt(op, id, ok)) \in Seq(EvtRecord)
  BY <1>1, AppendProperties DEF TypeOK
<1>3. ASSUME cmds # <<>>
      PROVE  /\ Tail(cmds) \in Seq(CmdRecord)
             /\ SpawnsLogged(Tail(cmds))
             /\ Head(cmds).id \in Int
             /\ Head(cmds).op = "spawn" => Head(cmds).id \in DOMAIN launch
  <2>1. /\ Tail(cmds) \in Seq(CmdRecord) /\ Head(cmds) \in CmdRecord
        /\ Len(Tail(cmds)) = Len(cmds) - 1
        /\ \A i \in 1..Len(Tail(cmds)) : Tail(cmds)[i] = cmds[i + 1]
        /\ 1 \in DOMAIN cmds /\ Head(cmds) = cmds[1]
    BY <1>3, HeadTailProperties, LenProperties DEF TypeOK
  <2>2. SpawnsLogged(Tail(cmds))
    BY <2>1, LenProperties DEF SpawnsLogged, TypeOK
  <2>3. QED
    BY <2>1, <2>2 DEF CmdRecord, TypeOK, SpawnsLogged
<1>4. QED
  BY <1>2, <1>3

LEMMA WorkerSpawnType ==
  ASSUME TypeOK, ConstantsAssumption, WorkerSpawn
  PROVE  TypeOK'
<1> DEFINE r == Head(cmds).id
<1>1. r \in Int /\ r \in DOMAIN launch
  BY ChannelType DEF WorkerSpawn, NextCmd
<1>2. PICK outcome \in Outcomes :
        /\ app' = [app EXCEPT ![r] = CASE outcome = "started" -> "tracked"
                                       [] outcome = "unconfirmed" -> "unconfirmed"
                                       [] outcome = "failed" -> "gone"]
        /\ alive' = IF outcome = "failed" THEN alive ELSE alive \cup {r}
        /\ evts' = Append(evts, Evt(outcome, r, TRUE))
  BY DEF WorkerSpawn
<1>3. outcome \in {"started", "unconfirmed", "failed"}
  BY DEF ConstantsAssumption
<1>4. evts' \in Seq(EvtRecord)
  BY <1>1, <1>2, <1>3, ChannelType DEF EvtOps
<1>5. \E known \in AppStates : app' = [app EXCEPT ![r] = known]
  BY <1>2, <1>3 DEF AppStates
<1>6. app' \in Seq(AppStates) /\ Len(app') = Len(app)
  BY <1>5, AppUpdate, SMTT(60)
<1>7. cmds' \in Seq(CmdRecord) /\ SpawnsLogged(cmds')
  BY ChannelType DEF WorkerSpawn, NextCmd
<1>8. alive' \subseteq DOMAIN launch
  BY <1>1, <1>2 DEF TypeOK
<1>9. QED
  BY <1>4, <1>6, <1>7, <1>8 DEF WorkerSpawn, TypeOK, SpawnsLogged, slots, tables

LEMMA WorkerTerminateType ==
  ASSUME TypeOK, WorkerTerminate \/ WorkerTerminateUnconfirmed
  PROVE  TypeOK'
<1> DEFINE r == Head(cmds).id
<1>1. r \in Int /\ cmds' \in Seq(CmdRecord) /\ SpawnsLogged(cmds')
  BY ChannelType DEF WorkerTerminate, WorkerTerminateUnconfirmed, NextCmd
<1>2. evts' \in Seq(EvtRecord)
  BY <1>1, ChannelType DEF WorkerTerminate, WorkerTerminateUnconfirmed, EvtOps
<1>3. app' = [app EXCEPT ![r] = "gone"] \/ app' = app
  BY DEF WorkerTerminate, WorkerTerminateUnconfirmed
<1>4. app' \in Seq(AppStates) /\ Len(app') = Len(app)
  BY <1>3, AppUpdate, SMTT(60) DEF AppStates, TypeOK
<1>5. alive' \subseteq alive
  BY DEF WorkerTerminate, WorkerTerminateUnconfirmed
<1>6. QED
  BY <1>1, <1>2, <1>4, <1>5 DEF WorkerTerminate, WorkerTerminateUnconfirmed,
     TypeOK, SpawnsLogged, slots, tables

LEMMA ReapType ==
  ASSUME TypeOK, NEW r \in DOMAIN app,
         ReapStarted(r) \/ ReapReported(r) \/ ReapUnconfirmed(r) \/ AppExits(r)
  PROVE  TypeOK'
<1>1. r \in Int
  BY LenProperties DEF TypeOK
<1>2. evts' \in Seq(EvtRecord)
  BY <1>1, ChannelType DEF ReapStarted, ReapReported, ReapUnconfirmed, AppExits,
     EvtOps, TypeOK
<1>3. (\E known \in AppStates : app' = [app EXCEPT ![r] = known]) \/ app' = app
  BY DEF ReapStarted, ReapReported, ReapUnconfirmed, AppExits, AppStates
<1>4. app' \in Seq(AppStates) /\ Len(app') = Len(app)
  <2>1. CASE \E known \in AppStates : app' = [app EXCEPT ![r] = known]
    BY <2>1, AppUpdate
  <2>2. CASE app' = app
    BY <2>2 DEF TypeOK
  <2>3. QED
    BY <1>3, <2>1, <2>2
<1>5. alive' \subseteq alive
  BY DEF ReapStarted, ReapReported, ReapUnconfirmed, AppExits
<1>6. QED
  BY <1>2, <1>4, <1>5 DEF ReapStarted, ReapReported, ReapUnconfirmed, AppExits,
     TypeOK, SpawnsLogged, slots, tables

LEMMA PollRequestType ==
  ASSUME TypeOK, PollRequest
  PROVE  TypeOK'
<1>1. work' \in Seq(WorkRecord)
  BY TodoType DEF PollRequest
<1>2. QED
  BY <1>1 DEF PollRequest, TypeOK, SpawnsLogged, slots, tables, children

-----------------------------------------------------------------------------
(* Type correctness                                                         *)

LEMMA InitType == ASSUME Init PROVE TypeOK
<1>1. slot \in [Slots -> SlotRecord]
  BY VacantType DEF Init, Vacant, SlotRecord
<1>2. \A q : q = <<>> => /\ q \in Seq(Launched) /\ q \in Seq(AppStates)
                          /\ q \in Seq(CmdRecord) /\ q \in Seq(EvtRecord)
                          /\ q \in Seq(WorkRecord) /\ DOMAIN q = {}
  OBVIOUS
<1>3. QED
  BY <1>1, <1>2 DEF Init, TypeOK, SpawnsLogged

LEMMA NextType == ASSUME ConstantsAssumption, TypeOK, [Next]_vars PROVE TypeOK'
<1>1. CASE Step
  BY <1>1, SpawnStartedType, SpawnUnconfirmedType, SpawnFailedType, ExitedType,
     TerminatedType, TerminatedUnconfirmedType, UnconfirmedExitedType,
     PollProcessesType, LaunchSlotType, RemoveReleasedPaneType, DropPaneType
     DEF Step
<1>2. CASE RequestStep
  <2>1. CASE \E i \in Specs : SelectMainApp(i)
    BY <2>1, SelectMainAppType
  <2>2. CASE \/ ResetRuntime \/ RuntimeRunning \/ OpenShell \/ DismissShell
    BY <2>2, ResetRuntimeType, RuntimeRunningType, OpenShellType, DismissShellType
  <2>3. CASE \E p \in Panes, spec \in Specs, rev \in 0..MaxRevision :
               NativePaneHost(p, spec, rev) \/ NativePaneUpdate(p, spec, rev)
    BY <2>3, NativePaneHostType DEF ConstantsAssumption
  <2>4. CASE \E p \in Panes : \/ NativePaneRelease(p)
                              \/ LaunchNativePaneHost(p)
                              \/ SwitchToSurfAce(p)
                              \/ \E spec \in Specs : SwitchToExternal(p, spec)
    BY <2>4, SwitchToSurfAceType, LaunchNativePaneHostType, SwitchToExternalType
  <2>5. CASE \E incoming \in SUBSET Panes : ApplyProviderSnapshot(incoming)
    BY <2>5, ApplyProviderSnapshotType
  <2>6. CASE \E r \in DOMAIN app : RecoverOverlay(r)
    BY <2>6, RecoverOverlayType
  <2>7. QED
    BY <1>2, <2>1, <2>2, <2>3, <2>4, <2>5, <2>6 DEF RequestStep
<1>3. CASE Window
  BY <1>3, AttachType, DetachType DEF Window
<1>4. CASE Worker
  BY <1>4, WorkerSpawnType, WorkerTerminateType, ReapType DEF Worker
<1>5. CASE PollRequest
  BY <1>5, PollRequestType
<1>6. CASE \E r \in DOMAIN app : AppExits(r)
  BY <1>6, ReapType
<1>7. CASE UNCHANGED vars
  BY <1>7 DEF vars, slots, tables, children, TypeOK, SpawnsLogged
<1>8. QED
  BY <1>1, <1>2, <1>3, <1>4, <1>5, <1>6, <1>7 DEF Next

(* Every variable of the launch lifecycle keeps its type, and the tables,   *)
(* commands and worker entries only name requests that were made.           *)
THEOREM TypeCorrect == Spec => []TypeOK
<1>1. Init => TypeOK
  BY InitType
<1>2. TypeOK /\ [Next]_vars => TypeOK'
  BY ConstantsAssumption, NextType
<1>3. QED
  BY <1>1, <1>2, PTL DEF Spec

-----------------------------------------------------------------------------
(* The launch index and the table of pending launches                       *)

\* A step that touches no index and no launch.
LEMMA IndexKept ==
  ASSUME TypeOK, LaunchIndexExact, UNCHANGED <<launch, pending>>,
         \A s \in Slots : slot'[s].idx = slot[s].idx
  PROVE  LaunchIndexExact'
BY LaunchedType DEF LaunchIndexExact, IndexNamesPending, PendingIsIndexed, TypeOK

\* An answer to request r: its index is cleared and it is pending no more.
LEMMA IndexAnswered ==
  ASSUME TypeOK, LaunchIndexExact, NEW r \in pending,
         UNCHANGED launch, pending' = pending \ {r},
         slot'[launch[r].slot].idx = 0,
         \A s \in Slots \ {launch[r].slot} : slot'[s].idx = slot[s].idx
  PROVE  LaunchIndexExact'
<1>1. r \in DOMAIN launch /\ launch[r].slot \in Slots
  BY LaunchedType DEF TypeOK
<1>2. \A q \in pending : launch[q].slot \in Slots
  BY LaunchedType DEF TypeOK
<1>3. IndexNamesPending'
  <2>1. ASSUME NEW s \in Slots, slot'[s].idx # 0
        PROVE  slot'[s].idx \in pending' /\ launch[slot'[s].idx].slot = s
    BY <1>1, <2>1 DEF LaunchIndexExact, IndexNamesPending
  <2>2. QED
    BY <2>1 DEF IndexNamesPending
<1>4. PendingIsIndexed'
  BY <1>1, <1>2 DEF LaunchIndexExact, PendingIsIndexed
<1>5. QED
  BY <1>3, <1>4 DEF LaunchIndexExact

\* A slot gives up its launch in flight.
LEMMA IndexReleased ==
  ASSUME TypeOK, LaunchIndexExact, NEW s \in Slots,
         UNCHANGED launch, pending' = pending \ {slot[s].idx},
         slot'[s].idx = 0,
         \A q \in Slots \ {s} : slot'[q].idx = slot[q].idx
  PROVE  LaunchIndexExact'
<1>1. \A q \in pending : launch[q].slot \in Slots /\ q # 0
  BY LaunchedType DEF TypeOK
<1>2. IndexNamesPending'
  <2>1. ASSUME NEW q \in Slots, slot'[q].idx # 0
        PROVE  slot'[q].idx \in pending' /\ launch[slot'[q].idx].slot = q
    BY <2>1 DEF LaunchIndexExact, IndexNamesPending
  <2>2. QED
    BY <2>1 DEF IndexNamesPending
<1>3. PendingIsIndexed'
  BY <1>1 DEF LaunchIndexExact, PendingIsIndexed
<1>4. QED
  BY <1>2, <1>3 DEF LaunchIndexExact

\* A slot with no launch in flight makes one.
LEMMA IndexLaunched ==
  ASSUME TypeOK, LaunchIndexExact, NEW s \in Slots, slot[s].idx = 0,
         NEW sl \in [Slots -> SlotRecord], NEW rest, Spawn(s, sl, rest),
         \A q \in Slots \ {s} : sl[q] = slot[q]
  PROVE  /\ LaunchIndexExact'
         /\ \A q \in Slots \ {s} : slot'[q] = slot[q]
         /\ \A r \in DOMAIN launch : launch'[r] = launch[r]
<1> DEFINE r == Len(launch) + 1
<1>1. /\ DOMAIN launch' = 1..r /\ DOMAIN launch = 1..Len(launch)
      /\ \A q \in DOMAIN launch : launch'[q] = launch[q]
      /\ launch'[r].slot = s
  <2> DEFINE entry == [slot |-> s, spec |-> sl[s].want, rev |-> sl[s].rev]
  <2>1. launch' = Append(launch, entry)
    BY DEF Spawn
  <2>2. launch \in Seq(Launched \cup {entry}) /\ entry.slot = s
    BY SeqMonotonic DEF TypeOK
  <2> HIDE DEF entry
  <2>3. QED
    BY <2>1, <2>2, AppendProperties, LenProperties
<1>2. r \in Nat \ {0} /\ r \notin DOMAIN launch
  BY <1>1, LenProperties DEF TypeOK
<1>3. /\ slot'[s].idx = r
      /\ \A q \in Slots \ {s} : slot'[q] = slot[q]
  BY <1>2 DEF Spawn, SlotRecord
<1>4. pending' = pending \cup {r} /\ pending \subseteq DOMAIN launch
  BY DEF Spawn, TypeOK
<1>5. \A q \in pending : launch[q].slot \in Slots /\ q # 0
  BY LaunchedType DEF TypeOK
<1>6. LaunchIndexExact'
  <2> HIDE DEF r
  <2>1. IndexNamesPending'
    BY <1>1, <1>2, <1>3, <1>4 DEF LaunchIndexExact, IndexNamesPending
  <2>2. PendingIsIndexed'
    BY <1>1, <1>2, <1>3, <1>4, <1>5 DEF LaunchIndexExact, PendingIsIndexed
  <2>3. QED
    BY <2>1, <2>2 DEF LaunchIndexExact
<1>7. QED
  BY <1>1, <1>3, <1>6

-----------------------------------------------------------------------------
(* The agenda                                                               *)

\* A pane to be removed is a pane.
LEMMA AgendaPanes ==
  ASSUME TypeOK
  PROVE  \A i \in DOMAIN work :
           work[i].op = "removePane" => work[i].slot \in Panes
<1>1. \A i \in DOMAIN work : work[i] \in WorkRecord
  BY LenProperties DEF TypeOK
<1>2. QED
  BY <1>1 DEF WorkRecord, TodoRecord, EvtRecord, EvtOps

\* What a handler may leave on the agenda.
LEMMA AgendaKept ==
  ASSUME TypeOK, ShellLaunchIsNext, RemovedPaneIsIdle, work # <<>>,
         NEW items \in Seq(WorkRecord), Do(items),
         \A i \in DOMAIN items : items[i].op # "removePane",
         \A i \in DOMAIN items : items[i] = Launch(Shell) =>
                                   i = 1 /\ slot'[Shell].idx = 0,
         \A p \in Panes : slot[p].want = None /\ slot[p].idx = 0 =>
                            slot'[p].want = None /\ slot'[p].idx = 0
  PROVE  ShellLaunchIsNext' /\ RemovedPaneIsIdle'
<1>1. /\ DOMAIN work' = 1..(Len(items) + Len(work) - 1)
      /\ DOMAIN items = 1..Len(items) /\ DOMAIN work = 1..Len(work)
      /\ Len(items) \in Nat /\ Len(work) \in Nat
      /\ \A i \in DOMAIN work' :
           IF i <= Len(items) THEN work'[i] = items[i]
           ELSE work'[i] = work[i - Len(items) + 1]
  <2>1. /\ Tail(work) \in Seq(WorkRecord) /\ Len(Tail(work)) = Len(work) - 1
        /\ \A i \in 1..Len(Tail(work)) : Tail(work)[i] = work[i + 1]
    BY HeadTailProperties DEF TypeOK
  <2>2. /\ work' \in Seq(WorkRecord)
        /\ Len(work') = Len(items) + Len(Tail(work))
        /\ \A i \in 1..(Len(items) + Len(Tail(work))) :
             work'[i] = IF i <= Len(items) THEN items[i]
                        ELSE Tail(work)[i - Len(items)]
    BY <2>1, ConcatProperties DEF Do
  <2>3. /\ DOMAIN items = 1..Len(items) /\ Len(items) \in Nat
        /\ DOMAIN work = 1..Len(work) /\ Len(work) \in Nat
        /\ DOMAIN work' = 1..Len(work')
    BY <2>2, LenProperties DEF TypeOK
  <2>4. DOMAIN work' = 1..(Len(items) + Len(work) - 1)
    BY <2>1, <2>2, <2>3
  <2>5. ASSUME NEW i \in DOMAIN work', ~(i <= Len(items))
        PROVE  work'[i] = work[i - Len(items) + 1]
    <3>1. /\ i \in 1..(Len(items) + Len(Tail(work)))
          /\ i - Len(items) \in 1..Len(Tail(work))
      BY <2>1, <2>3, <2>4, <2>5
    <3>2. work'[i] = Tail(work)[i - Len(items)]
      BY <2>2, <2>5, <3>1
    <3>3. QED
      BY <2>1, <3>1, <3>2
  <2>6. QED
    BY <2>1, <2>2, <2>3, <2>4, <2>5
<1>2. \A i \in DOMAIN work : work[i].op = "removePane" => work[i].slot \in Panes
  BY AgendaPanes
<1>3. ShellLaunchIsNext'
  BY <1>1 DEF ShellLaunchIsNext, Launch, Todo
<1>4. RemovedPaneIsIdle'
  BY <1>1, <1>2 DEF RemovedPaneIsIdle
<1>5. QED
  BY <1>3, <1>4

\* No new stop for the shell.
LEMMA ShellStopsKept ==
  ASSUME TypeOK, ShellStopsBeforeLaunch,
         stops' \subseteq stops \cup {x \in stops' : x.slot # Shell},
         ustops' \subseteq ustops \cup {x \in ustops' : x.slot # Shell},
         cancelled' \subseteq cancelled \cup {r \in cancelled' : launch[r].slot # Shell},
         UNCHANGED launch,
         slot'[Shell].idx = slot[Shell].idx
  PROVE  ShellStopsBeforeLaunch'
BY DEF ShellStopsBeforeLaunch, Stopping

-----------------------------------------------------------------------------
(* Kinds of steps                                                           *)

\* What the invariant says beside the types.
Indexed == LaunchIndexExact /\ OneShellLaunch /\ RemovedPaneIsIdle

\* A step of the worker, of a program or of a window.
LEMMA OutsideIndexed ==
  ASSUME TypeOK, Indexed,
         UNCHANGED <<launch, pending, cancelled, stops, ustops, work>>,
         \A s \in Slots : slot'[s].idx = slot[s].idx /\ slot'[s].want = slot[s].want
  PROVE  Indexed'
<1>1. LaunchIndexExact'
  BY IndexKept DEF Indexed
<1>2. ShellStopsBeforeLaunch' /\ ShellLaunchIsNext'
  BY DEF Indexed, OneShellLaunch, ShellStopsBeforeLaunch, ShellLaunchIsNext,
     Stopping, Slots
<1>3. \A i \in DOMAIN work : work[i].op = "removePane" => work[i].slot \in Panes
  BY AgendaPanes
<1>4. RemovedPaneIsIdle'
  BY <1>3 DEF Indexed, RemovedPaneIsIdle, Slots
<1>5. QED
  BY <1>1, <1>2, <1>4 DEF Indexed, OneShellLaunch

\* The answer to a spawn request.
LEMMA AnswerIndexed ==
  ASSUME TypeOK, Indexed, work # <<>>, NEW r \in DOMAIN launch, NEW items,
         UNCHANGED <<launch, ustops>>, Do(items),
         items = <<>> \/ items = Retry(launch[r].slot),
         \A s \in Slots : slot'[s].want = slot[s].want,
         \A s \in Slots \ {launch[r].slot} : slot'[s].idx = slot[s].idx,
         stops' \subseteq stops \cup {x \in stops' : x.slot = launch[r].slot},
         \/ /\ r \in pending /\ pending' = pending \ {r}
            /\ slot'[launch[r].slot].idx = 0
            /\ cancelled' = cancelled /\ items = <<>>
         \/ /\ r \in cancelled /\ cancelled' = cancelled \ {r}
            /\ UNCHANGED <<slot, pending>>
  PROVE  Indexed'
<1> DEFINE s == launch[r].slot
<1>1. s \in Slots
  BY LaunchedType DEF TypeOK
<1>2. r \in cancelled /\ s = Shell => slot[Shell].idx = 0
  BY DEF Indexed, OneShellLaunch, ShellStopsBeforeLaunch, Stopping
<1>3. LaunchIndexExact'
  <2>1. CASE r \in pending /\ pending' = pending \ {r} /\ slot'[s].idx = 0
    BY <2>1, IndexAnswered DEF Indexed
  <2>2. CASE UNCHANGED <<slot, pending>>
    BY <2>2, IndexKept DEF Indexed
  <2>3. QED
    BY <2>1, <2>2
<1>4. slot'[Shell].idx = slot[Shell].idx \/ slot'[Shell].idx = 0
  BY <1>1 DEF Slots
<1>5. ShellStopsBeforeLaunch'
  <2>1. CASE s = Shell
    <3>1. slot'[Shell].idx = 0
      BY <2>1, <1>2
    <3>2. QED
      BY <3>1 DEF ShellStopsBeforeLaunch
  <2>2. CASE s # Shell
    BY <2>2, ShellStopsKept DEF Indexed, OneShellLaunch, Slots
  <2>3. QED
    BY <2>1, <2>2
<1>6. /\ items \in Seq(WorkRecord)
      /\ \A i \in DOMAIN items : items[i] = Launch(s) /\ i = 1
                                /\ r \in cancelled /\ slot' = slot
  <2>1. CASE items = <<>>
    BY <2>1
  <2>2. CASE items = Retry(s) /\ items # <<>>
    BY <2>2, <1>1, TodoType DEF Retry
  <2>3. QED
    BY <2>1, <2>2
<1>7. \A p \in Panes : slot'[p].idx = slot[p].idx \/ slot'[p].idx = 0
  BY <1>1 DEF Slots
<1>8. ShellLaunchIsNext' /\ RemovedPaneIsIdle'
  <2>1. \A i \in DOMAIN items : items[i].op # "removePane"
    BY <1>6 DEF Launch, Todo
  <2>2. ASSUME NEW i \in DOMAIN items, items[i] = Launch(Shell)
        PROVE  i = 1 /\ slot'[Shell].idx = 0
    BY <2>2, <1>6, <1>2 DEF Launch, Todo
  <2>3. QED
    BY <1>6, <1>7, <2>1, <2>2, AgendaKept DEF Indexed, OneShellLaunch, Slots
<1>9. QED
  BY <1>3, <1>5, <1>8 DEF Indexed, OneShellLaunch

\* The answer to a stop, an exit, an agenda entry that changes no index.
LEMMA EndIndexed ==
  ASSUME TypeOK, Indexed, work # <<>>, NEW items,
         UNCHANGED <<launch, pending, cancelled>>, Do(items),
         items \in Seq(WorkRecord),
         \A i \in DOMAIN items : items[i].op # "removePane",
         \A i \in DOMAIN items :
            items[i] = Launch(Shell) => i = 1 /\ Stopping(Shell),
         \A s \in Slots : slot'[s].want = slot[s].want
                           /\ slot'[s].idx = slot[s].idx,
         stops' \subseteq stops, ustops' \subseteq ustops
  PROVE  Indexed'
<1>1. LaunchIndexExact'
  BY IndexKept DEF Indexed
<1>2. ShellStopsBeforeLaunch'
  BY ShellStopsKept DEF Indexed, OneShellLaunch, Slots
<1>3. ASSUME NEW i \in DOMAIN items, items[i] = Launch(Shell)
      PROVE  i = 1 /\ slot'[Shell].idx = 0
  BY <1>3 DEF Indexed, OneShellLaunch, ShellStopsBeforeLaunch, Slots
<1>4. ShellLaunchIsNext' /\ RemovedPaneIsIdle'
  BY <1>3, AgendaKept DEF Indexed, OneShellLaunch, Slots
<1>5. QED
  BY <1>1, <1>2, <1>4 DEF Indexed, OneShellLaunch

\* A slot gives up its launch and its program.
LEMMA ReleaseIndexed ==
  ASSUME TypeOK, Indexed, NEW s \in Slots, ReleaseChild(s),
         slot'[s].idx = 0,
         \A q \in Slots \ {s} : slot'[q].idx = slot[q].idx
  PROVE  LaunchIndexExact' /\ ShellStopsBeforeLaunch'
<1>1. LaunchIndexExact'
  BY IndexReleased DEF Indexed, ReleaseChild
<1>2. ShellStopsBeforeLaunch'
  <2>1. CASE s = Shell
    BY <2>1 DEF ShellStopsBeforeLaunch
  <2>2. CASE s # Shell
    <3>1. stops' \subseteq stops \cup {x \in stops' : x.slot # Shell}
      BY <2>2 DEF ReleaseChild, StopRunning, Terminate
    <3>2. ustops' \subseteq ustops \cup {x \in ustops' : x.slot # Shell}
      BY <2>2 DEF ReleaseChild
    <3>3. slot[s].idx \in pending => launch[slot[s].idx].slot = s
      BY DEF Indexed, LaunchIndexExact, IndexNamesPending, TypeOK
    <3>4. cancelled' \subseteq cancelled
                              \cup {r \in cancelled' : launch[r].slot # Shell}
      BY <2>2, <3>3 DEF ReleaseChild, CancelPending
    <3>5. UNCHANGED launch
      BY DEF ReleaseChild
    <3>6. QED
      BY <2>2, <3>1, <3>2, <3>4, <3>5, ShellStopsKept
         DEF Indexed, OneShellLaunch, Slots
  <2>3. QED
    BY <2>1, <2>2
<1>3. QED
  BY <1>1, <1>2

-----------------------------------------------------------------------------
(* Answers and exits                                                        *)

LEMMA NoItems == /\ <<>> \in Seq(WorkRecord)
                 /\ \A i \in DOMAIN <<>> : FALSE
OBVIOUS

\* Clearing the index of a pending request.
LEMMA Cleared ==
  ASSUME TypeOK, Indexed, NEW r \in pending
  PROVE  /\ r \in DOMAIN launch /\ launch[r].slot \in Slots
         /\ ClearIndex(slot, r) \in [Slots -> SlotRecord]
         /\ ClearIndex(slot, r)[launch[r].slot].idx = 0
         /\ \A s \in Slots : ClearIndex(slot, r)[s].want = slot[s].want
         /\ \A s \in Slots \ {launch[r].slot} : ClearIndex(slot, r)[s] = slot[s]
<1>1. r \in DOMAIN launch /\ launch[r].slot \in Slots
  BY LaunchedType DEF TypeOK
<1>2. slot[launch[r].slot].idx = r
  BY DEF Indexed, LaunchIndexExact, PendingIsIndexed
<1>3. ClearIndex(slot, r) \in [Slots -> SlotRecord]
  BY <1>1, ClearIndexType DEF TypeOK
<1>4. QED
  BY <1>1, <1>2, <1>3 DEF ClearIndex, TypeOK, SlotRecord

LEMMA SpawnStartedIndexed ==
  ASSUME TypeOK, Indexed, SpawnStarted
  PROVE  Indexed'
<1> DEFINE r == Subject
           s == launch[r].slot
<1>1. work # <<>> /\ Do(<<>>) /\ UNCHANGED <<launch, ustops>>
  BY DEF SpawnStarted, Applying
<1>2. CASE /\ r \in pending /\ IsCurrent(r)
           /\ slot' = [ClearIndex(slot, r) EXCEPT ![s] = [@ EXCEPT
                         !.st = "launching", !.pid = r, !.ureq = 0, !.token = r]]
           /\ pending' = pending \ {r}
           /\ UNCHANGED <<cancelled, stops, cmds>>
  <2>1. /\ slot'[s].idx = 0
        /\ \A q \in Slots : slot'[q].want = slot[q].want
        /\ \A q \in Slots \ {s} : slot'[q].idx = slot[q].idx
        /\ r \in DOMAIN launch
    BY <1>2, Cleared DEF SlotRecord
  <2>2. QED
    BY <1>1, <1>2, <2>1, AnswerIndexed
<1>3. CASE /\ r \in pending /\ ~IsCurrent(r)
           /\ slot' = ClearIndex(slot, r)
           /\ pending' = pending \ {r}
           /\ StopLate(r)
           /\ UNCHANGED cancelled
  <2>1. /\ slot'[s].idx = 0
        /\ \A q \in Slots : slot'[q].want = slot[q].want
        /\ \A q \in Slots \ {s} : slot'[q].idx = slot[q].idx
        /\ r \in DOMAIN launch
    BY <1>3, Cleared
  <2>2. stops' \subseteq stops \cup {x \in stops' : x.slot = s}
    BY <1>3 DEF StopLate, Terminate
  <2>3. QED
    BY <1>1, <1>3, <2>1, <2>2, AnswerIndexed
<1>4. CASE /\ r \in cancelled
           /\ cancelled' = cancelled \ {r}
           /\ StopLate(r)
           /\ UNCHANGED <<slot, pending>>
  <2>1. r \in DOMAIN launch
    BY <1>4 DEF TypeOK
  <2>2. stops' \subseteq stops \cup {x \in stops' : x.slot = s}
    BY <1>4 DEF StopLate, Terminate
  <2>3. QED
    BY <1>1, <1>4, <2>1, <2>2, AnswerIndexed
<1>5. QED
  BY <1>2, <1>3, <1>4 DEF SpawnStarted

LEMMA SpawnUnconfirmedIndexed ==
  ASSUME TypeOK, Indexed, SpawnUnconfirmed
  PROVE  Indexed'
<1> DEFINE r == Subject
           s == launch[r].slot
<1>1. work # <<>> /\ Do(<<>>) /\ UNCHANGED <<launch, stops, ustops>>
  BY DEF SpawnUnconfirmed, Applying
<1>2. CASE r \in pending
  <2>2. r \in DOMAIN launch /\ s \in Slots
    BY <1>2, Cleared
  <2>3. CASE slot' = [ClearIndex(slot, r) EXCEPT ![s] = [@ EXCEPT
                 !.st = "launching", !.pid = 0, !.ureq = r, !.token = r]]
             /\ pending' = pending \ {r} /\ UNCHANGED cancelled
    <3>1. /\ slot'[s].idx = 0
          /\ \A q \in Slots : slot'[q].want = slot[q].want
          /\ \A q \in Slots \ {s} : slot'[q].idx = slot[q].idx
      BY <1>2, <2>3, Cleared DEF SlotRecord
    <3>2. QED
      BY <1>1, <1>2, <2>2, <2>3, <3>1, AnswerIndexed
  <2>4. CASE slot' = ClearIndex(slot, r)
             /\ pending' = pending \ {r} /\ UNCHANGED cancelled
    <3>1. /\ slot'[s].idx = 0
          /\ \A q \in Slots : slot'[q].want = slot[q].want
          /\ \A q \in Slots \ {s} : slot'[q].idx = slot[q].idx
      BY <1>2, <2>4, Cleared
    <3>2. QED
      BY <1>1, <1>2, <2>2, <2>4, <3>1, AnswerIndexed
  <2>5. CASE r \in cancelled /\ cancelled' = cancelled \ {r}
                            /\ UNCHANGED <<slot, pending>>
    BY <1>1, <2>2, <2>5, AnswerIndexed
  <2>6. QED
    BY <1>2, <2>3, <2>4, <2>5 DEF SpawnUnconfirmed
<1>3. CASE r \notin pending
  <2>1. /\ r \in cancelled /\ cancelled' = cancelled \ {r}
        /\ UNCHANGED <<slot, pending>>
    BY <1>3 DEF SpawnUnconfirmed
  <2>2. r \in DOMAIN launch
    BY <2>1 DEF TypeOK
  <2>3. QED
    BY <1>1, <2>1, <2>2, AnswerIndexed
<1>4. QED
  BY <1>2, <1>3

LEMMA SpawnFailedIndexed ==
  ASSUME TypeOK, Indexed, SpawnFailed
  PROVE  Indexed'
<1> DEFINE r == Subject
           s == launch[r].slot
<1>1. work # <<>> /\ UNCHANGED <<launch, stops, ustops>>
  BY DEF SpawnFailed, Applying
<1>2. CASE /\ r \in pending /\ IsCurrent(r)
           /\ slot' = [ClearIndex(slot, r) EXCEPT ![s] = [@ EXCEPT
                         !.st = "failed", !.pid = 0, !.ureq = 0, !.token = 0]]
           /\ pending' = pending \ {r}
           /\ Do(<<>>)
           /\ UNCHANGED cancelled
  <2>1. /\ slot'[s].idx = 0
        /\ \A q \in Slots : slot'[q].want = slot[q].want
        /\ \A q \in Slots \ {s} : slot'[q].idx = slot[q].idx
        /\ r \in DOMAIN launch
    BY <1>2, Cleared DEF SlotRecord
  <2>2. QED
    BY <1>1, <1>2, <2>1, AnswerIndexed
<1>3. CASE /\ r \in pending /\ ~IsCurrent(r)
           /\ slot' = ClearIndex(slot, r)
           /\ pending' = pending \ {r}
           /\ Do(<<>>)
           /\ UNCHANGED cancelled
  <2>1. /\ slot'[s].idx = 0
        /\ \A q \in Slots : slot'[q].want = slot[q].want
        /\ \A q \in Slots \ {s} : slot'[q].idx = slot[q].idx
        /\ r \in DOMAIN launch
    BY <1>3, Cleared
  <2>2. QED
    BY <1>1, <1>3, <2>1, AnswerIndexed
<1>4. CASE /\ r \in cancelled
           /\ cancelled' = cancelled \ {r}
           /\ Do(Retry(s))
           /\ UNCHANGED <<slot, pending>>
  <2>1. r \in DOMAIN launch
    BY <1>4 DEF TypeOK
  <2>2. QED
    BY <1>1, <1>4, <2>1, AnswerIndexed
<1>5. QED
  BY <1>2, <1>3, <1>4 DEF SpawnFailed

LEMMA ExitedIndexed ==
  ASSUME TypeOK, Indexed, Exited
  PROVE  Indexed'
<1>1. \A s \in Slots : slot'[s].want = slot[s].want /\ slot'[s].idx = slot[s].idx
  BY DEF Exited, TypeOK, SlotRecord
<1>2. /\ work # <<>> /\ Do(<<>>)
      /\ UNCHANGED <<launch, pending, cancelled, stops, ustops>>
  BY DEF Exited, Applying, tables
<1>3. QED
  BY <1>1, <1>2, NoItems, EndIndexed

\* The retry of a slot that was being stopped.
LEMMA RetryItems ==
  ASSUME TypeOK, NEW s \in Slots, Stopping(s)
  PROVE  /\ Retry(s) \in Seq(WorkRecord)
         /\ \A i \in DOMAIN Retry(s) : Retry(s)[i].op # "removePane"
         /\ \A i \in DOMAIN Retry(s) :
              Retry(s)[i] = Launch(Shell) => i = 1 /\ Stopping(Shell)
BY TodoType DEF Retry, Launch, Todo

LEMMA TerminatedIndexed ==
  ASSUME TypeOK, Indexed, Terminated
  PROVE  Indexed'
<1>1. PICK x \in stops :
        LET s == x.slot
            gone == Head(work).ok \/ HasExited(x.id)
            here == x.kind = "slot" /\ (s \in Panes => s \in panes)
            clear == \/ KnownPid(s) = x.id
                     \/ slot[s].st = "waiting"
        IN
        /\ x.id = Subject
        /\ stops' = stops \ {x}
        /\ slot' = IF here /\ ~gone
                   THEN [slot EXCEPT ![s] = [@ EXCEPT !.st = "failed",
                                               !.pid = 0, !.token = 0]]
                   ELSE IF here /\ clear
                   THEN [slot EXCEPT ![s] = [@ EXCEPT !.st = Rest(s),
                                               !.pid = 0, !.token = 0]]
                   ELSE slot
        /\ Do(Retry(s))
  BY DEF Terminated
<1>2. x.slot \in Slots /\ Stopping(x.slot)
  BY DEF TypeOK, Stop, Stopping
<1>3. \A s \in Slots : slot'[s].want = slot[s].want /\ slot'[s].idx = slot[s].idx
  BY <1>1, ZenonT(60) DEF TypeOK, SlotRecord
<1>4. /\ work # <<>> /\ UNCHANGED <<launch, pending, cancelled, ustops>>
      /\ stops' \subseteq stops /\ Do(Retry(x.slot))
  BY <1>1 DEF Terminated, Applying
<1>5. QED
  BY <1>2, <1>3, <1>4, RetryItems, EndIndexed

LEMMA TerminatedUnconfirmedIndexed ==
  ASSUME TypeOK, Indexed, TerminatedUnconfirmed
  PROVE  Indexed'
<1>1. PICK x \in ustops :
        LET s == x.slot
            r == x.id
            stale == /\ slot[s].st \in Live /\ slot[s].pid = 0
                     /\ s # Shell => slot[s].token = r
            clear == IF x.kind = "slot" THEN slot[s].ureq = r ELSE stale
        IN
        /\ r = Subject
        /\ ustops' = ustops \ {x}
        /\ unconfirmed' = unconfirmed \ {r}
        /\ slot' = IF clear
                   THEN [slot EXCEPT ![s] = [@ EXCEPT !.st = Rest(s),
                           !.pid = 0, !.token = 0,
                           !.ureq = IF s \in Panes \/ slot[s].ureq = r
                                    THEN 0 ELSE slot[s].ureq]]
                   ELSE slot
        /\ Do(Retry(s))
  BY DEF TerminatedUnconfirmed
<1>2. x.slot \in Slots /\ Stopping(x.slot)
  BY DEF TypeOK, Stop, Stopping
<1>3. \A s \in Slots : slot'[s].want = slot[s].want /\ slot'[s].idx = slot[s].idx
  BY <1>1, ZenonT(60) DEF TypeOK, SlotRecord
<1>4. /\ work # <<>> /\ UNCHANGED <<launch, pending, cancelled, stops>>
      /\ ustops' \subseteq ustops /\ Do(Retry(x.slot))
  BY <1>1 DEF TerminatedUnconfirmed, Applying
<1>5. QED
  BY <1>2, <1>3, <1>4, RetryItems, EndIndexed

LEMMA UnconfirmedExitedIndexed ==
  ASSUME TypeOK, Indexed, UnconfirmedExited
  PROVE  Indexed'
<1>1. \A s \in Slots : slot'[s].want = slot[s].want /\ slot'[s].idx = slot[s].idx
  BY ZenonT(60) DEF UnconfirmedExited, TypeOK, SlotRecord
<1>2. /\ work # <<>> /\ Do(<<>>)
      /\ UNCHANGED <<launch, pending, cancelled, stops, ustops>>
  BY DEF UnconfirmedExited, Applying
<1>3. QED
  BY <1>1, <1>2, NoItems, EndIndexed

LEMMA PollProcessesIndexed ==
  ASSUME TypeOK, Indexed, PollProcesses
  PROVE  Indexed'
<1>1. /\ evts \in Seq(WorkRecord)
      /\ \A i \in DOMAIN evts : evts[i].op \in EvtOps
  <2>1. evts \in Seq(WorkRecord)
    BY SeqMonotonic DEF TypeOK, WorkRecord
  <2>2. \A i \in DOMAIN evts : evts[i] \in EvtRecord
    BY LenProperties DEF TypeOK
  <2>3. QED
    BY <2>1, <2>2 DEF EvtRecord
<1>2. \A i \in DOMAIN evts : evts[i].op # "removePane" /\ evts[i] # Launch(Shell)
  BY <1>1 DEF EvtOps, Launch, Todo
<1>3. /\ work # <<>> /\ Do(evts) /\ slot' = slot
      /\ UNCHANGED <<launch, pending, cancelled, stops, ustops>>
  BY DEF PollProcesses, Applying, slots, tables
<1>4. QED
  BY <1>1, <1>2, <1>3, EndIndexed

-----------------------------------------------------------------------------
(* Launches                                                                 *)

\* What is at the head of the agenda.
LEMMA HeadOfAgenda ==
  ASSUME TypeOK, work # <<>>
  PROVE  /\ 1 \in DOMAIN work /\ Head(work) = work[1]
         /\ Head(work).op = "launch" => /\ Head(work).slot \in Slots
                                        /\ Head(work) = Launch(Head(work).slot)
         /\ Head(work).op \in {"removePane", "dropPane"} =>
                                        Head(work).slot \in Panes
<1>1. 1 \in DOMAIN work /\ Head(work) = work[1] /\ Head(work) \in WorkRecord
  BY HeadTailProperties, LenProperties, EmptySeq DEF TypeOK
<1>2. QED
  BY <1>1 DEF WorkRecord, TodoRecord, EvtRecord, EvtOps, Launch, Todo

\* A launch made by slot s, which has none.
LEMMA LaunchIndexed ==
  ASSUME TypeOK, Indexed, NEW s \in Slots, slot[s].idx = 0,
         s = Shell => ~Stopping(Shell),
         NEW sl \in [Slots -> SlotRecord], NEW rest, Spawn(s, sl, rest),
         \A q \in Slots \ {s} : sl[q] = slot[q]
  PROVE  LaunchIndexExact' /\ ShellStopsBeforeLaunch'
<1>1. /\ LaunchIndexExact'
      /\ \A q \in Slots \ {s} : slot'[q] = slot[q]
      /\ \A r \in DOMAIN launch : launch'[r] = launch[r]
  BY IndexLaunched DEF Indexed
<1>2. Stopping(Shell)' => Stopping(Shell)
  BY <1>1 DEF Stopping, Spawn, TypeOK
<1>3. ShellStopsBeforeLaunch'
  <2>1. CASE s = Shell
    BY <2>1, <1>2 DEF ShellStopsBeforeLaunch
  <2>2. CASE s # Shell
    BY <2>2, <1>1, <1>2 DEF Indexed, OneShellLaunch, ShellStopsBeforeLaunch, Slots
  <2>3. QED
    BY <2>1, <2>2
<1>4. QED
  BY <1>1, <1>3

LEMMA PollItem == /\ <<Poll>> \in Seq(WorkRecord)
                  /\ \A i \in DOMAIN <<Poll>> : /\ <<Poll>>[i].op # "removePane"
                                               /\ <<Poll>>[i] # Launch(Shell)
<1>1. <<Poll>> \in Seq(WorkRecord)
  BY TodoType
<1>2. Poll.op = "poll" /\ Launch(Shell).op = "launch"
  BY DEF Poll, Launch, Todo
<1>3. \A e : DOMAIN <<e>> = {1} /\ <<e>>[1] = e
  OBVIOUS
<1>4. QED
  BY <1>1, <1>2, <1>3

LEMMA LaunchSlotIndexed ==
  ASSUME TypeOK, Indexed, LaunchSlot
  PROVE  Indexed'
<1> DEFINE s == Head(work).slot
<1>1. /\ work # <<>> /\ s \in Slots
      /\ work[1] = Launch(s) /\ 1 \in DOMAIN work
  BY HeadOfAgenda DEF LaunchSlot, Applying
<1>2. CASE MayLaunch(s) /\ Spawn(s, slot, Tail(work))
  <2>1. slot[s].idx = 0 /\ (s = Shell => ~Stopping(Shell))
    BY <1>1, <1>2 DEF MayLaunch, Slots, Indexed, OneShellLaunch, ShellLaunchIsNext
  <2>2. /\ LaunchIndexExact' /\ ShellStopsBeforeLaunch'
        /\ \A q \in Slots \ {s} : slot'[q] = slot[q]
    BY <1>1, <1>2, <2>1, LaunchIndexed, IndexLaunched DEF TypeOK, Indexed
  <2>3. Do(<<Poll>>)
    BY <1>2 DEF Spawn, Do
  <2>4. \A p \in Panes : slot[p].want = None => slot'[p] = slot[p]
    <3>1. slot[s].want # None
      BY <1>2 DEF MayLaunch
    <3>2. QED
      BY <2>2, <3>1 DEF Slots
  <2>5. ShellLaunchIsNext' /\ RemovedPaneIsIdle'
    <3>1. ShellLaunchIsNext /\ RemovedPaneIsIdle
      BY DEF Indexed, OneShellLaunch
    <3> DEFINE items == <<Poll>>
    <3>2. /\ items \in Seq(WorkRecord)
          /\ \A i \in DOMAIN items : /\ items[i].op # "removePane"
                                    /\ items[i] # Launch(Shell)
          /\ Do(items)
      BY <2>3, PollItem
    <3>3. \A p \in Panes : slot[p].want = None /\ slot[p].idx = 0 =>
                             slot'[p].want = None /\ slot'[p].idx = 0
      BY <2>4
    <3> HIDE DEF items
    <3>4. QED
      BY <1>1, <3>1, <3>2, <3>3, AgendaKept
  <2>6. QED
    BY <2>2, <2>5 DEF Indexed, OneShellLaunch
<1>3. CASE ~MayLaunch(s)
  <2>1. /\ Do(<<>>) /\ UNCHANGED <<launch, pending, cancelled, stops, ustops>>
        /\ slot' = slot \/ slot' = [slot EXCEPT ![s] = [@ EXCEPT
                                       !.st = Rest(s), !.pid = 0]]
    BY <1>3 DEF LaunchSlot, tables
  <2>2. \A q \in Slots : slot'[q].want = slot[q].want /\ slot'[q].idx = slot[q].idx
    <3> DEFINE st == Rest(s)
    <3>1. CASE slot' = [slot EXCEPT ![s] = [@ EXCEPT !.st = st, !.pid = 0]]
      <4> HIDE DEF st, s
      <4>1. QED
        BY <1>1, <3>1 DEF TypeOK, SlotRecord
    <3>2. QED
      BY <2>1, <3>1
  <2>3. QED
    BY <1>1, <2>1, <2>2, NoItems, EndIndexed
<1>4. QED
  BY <1>2, <1>3 DEF LaunchSlot

-----------------------------------------------------------------------------
(* The rest of the agenda: panes that go                                    *)

LEMMA RemoveReleasedPaneIndexed ==
  ASSUME ConstantsAssumption, TypeOK, Indexed, RemoveReleasedPane
  PROVE  Indexed'
<1> DEFINE p == Head(work).slot
<1>1. /\ work # <<>> /\ p \in Panes /\ p \in Slots
      /\ slot[p].want = None /\ slot[p].idx = 0
  BY HeadOfAgenda DEF RemoveReleasedPane, Applying, Slots, Indexed,
     RemovedPaneIsIdle
<1>2. /\ Do(<<>>) /\ UNCHANGED <<launch, pending, cancelled, stops, ustops>>
      /\ slot' = slot \/ slot' = [slot EXCEPT ![p] = Vacant]
  BY DEF RemoveReleasedPane, tables
<1>3. \A q \in Slots : slot'[q].want = slot[q].want /\ slot'[q].idx = slot[q].idx
  BY <1>1, <1>2, SMTT(60) DEF TypeOK, Vacant
<1>4. QED
  BY <1>1, <1>2, <1>3, NoItems, EndIndexed

LEMMA DropPaneIndexed ==
  ASSUME ConstantsAssumption, TypeOK, Indexed, DropPane
  PROVE  Indexed'
<1> DEFINE p == Head(work).slot
<1>1. /\ work # <<>> /\ p \in Panes /\ p \in Slots /\ p # Shell
  BY HeadOfAgenda DEF DropPane, Applying, Slots, ConstantsAssumption
<1>2. /\ Do(<<>>) /\ ReleaseChild(p) /\ slot' = [slot EXCEPT ![p] = Vacant]
  BY DEF DropPane
<1>3. /\ slot'[p].idx = 0 /\ slot'[p].want = None
      /\ \A q \in Slots \ {p} : slot'[q] = slot[q]
  BY <1>1, <1>2 DEF TypeOK, Vacant
<1>4. LaunchIndexExact' /\ ShellStopsBeforeLaunch'
  BY <1>1, <1>2, <1>3, ReleaseIndexed
<1>5. \A q \in Panes : slot[q].want = None /\ slot[q].idx = 0 =>
                         slot'[q].want = None /\ slot'[q].idx = 0
  BY <1>3 DEF Slots
<1>6. ShellLaunchIsNext' /\ RemovedPaneIsIdle'
  BY <1>1, <1>2, <1>5, NoItems, AgendaKept DEF Indexed, OneShellLaunch
<1>7. QED
  BY <1>4, <1>6 DEF Indexed, OneShellLaunch

-----------------------------------------------------------------------------
(* Requests                                                                 *)

\* A request starts the agenda anew.
LEMMA AgendaStarted ==
  ASSUME \A i \in DOMAIN work' : work'[i].op # "removePane",
         \A i \in DOMAIN work' : work'[i] = Launch(Shell) =>
                                   i = 1 /\ slot'[Shell].idx = 0
  PROVE  ShellLaunchIsNext' /\ RemovedPaneIsIdle'
BY DEF ShellLaunchIsNext, RemovedPaneIsIdle, Launch, Todo

LEMMA AgendaEntries ==
  /\ Poll.op = "poll"
  /\ \A s : Launch(s).op = "launch" /\ Launch(s).slot = s
BY DEF Poll, Launch, Todo

\* Agendas of one and of two entries, none a launch of the shell.
LEMMA OneEntry ==
  ASSUME NEW e, work' = <<e>>, e.op \in {"poll", "launch"},
         e.op = "poll" \/ e.slot # Shell
  PROVE  ShellLaunchIsNext' /\ RemovedPaneIsIdle'
<1>1. DOMAIN work' = {1} /\ work'[1] = e
  OBVIOUS
<1>2. e # Launch(Shell)
  BY AgendaEntries
<1>3. QED
  BY <1>1, <1>2, AgendaStarted

LEMMA TwoEntries ==
  ASSUME NEW e, NEW f, work' = <<e, f>>,
         {e.op, f.op} \subseteq {"poll", "launch"},
         e.op = "poll" \/ e.slot # Shell,
         f.op = "poll" \/ f.slot # Shell
  PROVE  ShellLaunchIsNext' /\ RemovedPaneIsIdle'
<1>1. DOMAIN work' = {1, 2} /\ work'[1] = e /\ work'[2] = f
  OBVIOUS
<1>2. e # Launch(Shell) /\ f # Launch(Shell)
  BY AgendaEntries
<1>3. QED
  BY <1>1, <1>2, AgendaStarted

LEMMA TerminateMainIndexed ==
  ASSUME TypeOK, Indexed, TerminateMain,
         \A q \in Slots : slot'[q].idx = MainReleased[q].idx
  PROVE  LaunchIndexExact' /\ ShellStopsBeforeLaunch'
<1>1. Main \in Slots /\ Main # Shell /\ Shell \in Slots
  BY DEF Slots, Main, Shell
<1>2. CASE slot[Main].ureq # 0
  <2>1. /\ UNCHANGED <<launch, pending, cancelled, stops>>
        /\ ustops' \subseteq ustops \cup {x \in ustops' : x.slot # Shell}
    BY <1>1, <1>2 DEF TerminateMain
  <2>2. \A q \in Slots : slot'[q].idx = slot[q].idx
    BY <1>2 DEF MainReleased
  <2>3. LaunchIndexExact'
    BY <2>1, <2>2, IndexKept DEF Indexed
  <2>4. ShellStopsBeforeLaunch'
    BY <1>1, <2>1, <2>2, ShellStopsKept DEF Indexed, OneShellLaunch
  <2>5. QED
    BY <2>3, <2>4
<1>3. CASE slot[Main].ureq = 0
  <2>1. ReleaseChild(Main)
    BY <1>3 DEF TerminateMain
  <2>2. /\ slot'[Main].idx = 0
        /\ \A q \in Slots \ {Main} : slot'[q].idx = slot[q].idx
    BY <1>1, <1>3 DEF MainReleased, TypeOK, SlotRecord
  <2>3. QED
    BY <1>1, <2>1, <2>2, ReleaseIndexed
<1>4. QED
  BY <1>2, <1>3

LEMMA SelectMainAppIndexed ==
  ASSUME TypeOK, Indexed, NEW intent \in Specs, SelectMainApp(intent)
  PROVE  Indexed'
<1>1. \A q \in Slots : slot'[q].idx = MainReleased[q].idx
  BY MainReleasedType DEF SelectMainApp, SlotRecord
<1>2. LaunchIndexExact' /\ ShellStopsBeforeLaunch'
  BY <1>1, TerminateMainIndexed DEF SelectMainApp
<1>3. ShellLaunchIsNext' /\ RemovedPaneIsIdle'
  BY AgendaEntries, TwoEntries DEF SelectMainApp, Main, Shell
<1>4. QED
  BY <1>2, <1>3 DEF Indexed, OneShellLaunch

LEMMA ResetRuntimeIndexed ==
  ASSUME TypeOK, Indexed, ResetRuntime
  PROVE  Indexed'
<1>1. \A q \in Slots : slot'[q].idx = MainReleased[q].idx
  BY MainReleasedType DEF ResetRuntime, SlotRecord
<1>2. LaunchIndexExact' /\ ShellStopsBeforeLaunch'
  BY <1>1, TerminateMainIndexed DEF ResetRuntime
<1>3. ShellLaunchIsNext' /\ RemovedPaneIsIdle'
  BY AgendaEntries, OneEntry DEF ResetRuntime
<1>4. QED
  BY <1>2, <1>3 DEF Indexed, OneShellLaunch

\* Requests that touch neither slots nor tables.
LEMMA UntouchedIndexed ==
  ASSUME TypeOK, Indexed, ShellLaunchIsNext', RemovedPaneIsIdle',
         UNCHANGED <<slot, launch, pending, cancelled, stops, ustops>>
  PROVE  Indexed'
<1>1. LaunchIndexExact'
  BY IndexKept DEF Indexed
<1>2. ShellStopsBeforeLaunch'
  BY DEF Indexed, OneShellLaunch, ShellStopsBeforeLaunch, Stopping
<1>3. QED
  BY <1>1, <1>2 DEF Indexed, OneShellLaunch

LEMMA RuntimeRunningIndexed ==
  ASSUME TypeOK, Indexed, RuntimeRunning
  PROVE  Indexed'
<1>1. ShellLaunchIsNext' /\ RemovedPaneIsIdle'
  BY AgendaEntries, OneEntry DEF RuntimeRunning, Main, Shell
<1>2. QED
  BY <1>1, UntouchedIndexed DEF RuntimeRunning, tables

LEMMA OpenShellIndexed ==
  ASSUME TypeOK, Indexed, OpenShell
  PROVE  Indexed'
<1>1. DOMAIN work' = {1} /\ work'[1] = Launch(Shell)
  BY DEF OpenShell
<1>2. ShellLaunchIsNext' /\ RemovedPaneIsIdle'
  BY <1>1, AgendaStarted, AgendaEntries DEF OpenShell
<1>3. QED
  BY <1>2, UntouchedIndexed DEF OpenShell, tables

LEMMA DismissShellIndexed ==
  ASSUME TypeOK, Indexed, DismissShell
  PROVE  Indexed'
<1>1. /\ Shell \in Slots
      /\ slot'[Shell].idx = 0
      /\ \A q \in Slots \ {Shell} : slot'[q].idx = slot[q].idx
  BY DEF DismissShell, TypeOK, SlotRecord, Slots
<1>2. LaunchIndexExact' /\ ShellStopsBeforeLaunch'
  BY <1>1, ReleaseIndexed DEF DismissShell
<1>3. ShellLaunchIsNext' /\ RemovedPaneIsIdle'
  BY AgendaEntries, OneEntry DEF DismissShell
<1>4. QED
  BY <1>2, <1>3 DEF Indexed, OneShellLaunch

\* native_pane.host and native_pane.update
LEMMA NativePaneHostIndexed ==
  ASSUME ConstantsAssumption, TypeOK, Indexed,
         NEW p \in Panes, NEW spec, NEW rev,
         NativePaneHost(p, spec, rev) \/ NativePaneUpdate(p, spec, rev)
  PROVE  Indexed'
<1>1. p \in Slots /\ p # Shell
  BY DEF Slots, ConstantsAssumption
<1>2. HostPlan(p, spec, rev)
  BY DEF NativePaneHost, NativePaneUpdate
<1>3. LaunchIndexExact' /\ ShellStopsBeforeLaunch'
  <2>1. CASE p \in panes /\ slot[p].want # spec
    <3>1. ReleaseChild(p)
      BY <1>2, <2>1 DEF HostPlan
    <3>2. /\ slot'[p].idx = 0
          /\ \A q \in Slots \ {p} : slot'[q].idx = slot[q].idx
      <4> DEFINE st  == IF RunningPid(p) = 0 THEN "absent" ELSE slot[p].st
                 pid == RunningPid(p)
      <4>1. slot' = [slot EXCEPT ![p] = [@ EXCEPT !.st = st, !.pid = pid,
                       !.idx = 0, !.ureq = 0, !.token = 0,
                       !.want = spec, !.rev = rev]]
        BY <1>2, <2>1 DEF HostPlan
      <4> HIDE DEF st, pid
      <4>2. QED
        BY <1>1, <4>1 DEF TypeOK, SlotRecord
    <3>3. QED
      BY <1>1, <3>1, <3>2, ReleaseIndexed
  <2>2. CASE ~(p \in panes /\ slot[p].want # spec)
    <3>1. /\ slot' = [slot EXCEPT ![p] = [@ EXCEPT !.want = spec, !.rev = rev]]
          /\ UNCHANGED <<launch, pending, cancelled, stops, ustops>>
      BY <1>2, <2>2 DEF HostPlan, tables
    <3>2. \A q \in Slots : slot'[q].idx = slot[q].idx
      BY <1>1, <3>1 DEF TypeOK, SlotRecord
    <3>3. LaunchIndexExact'
      BY <3>1, <3>2, IndexKept DEF Indexed
    <3>4. ShellStopsBeforeLaunch'
      BY <3>1, <3>2, ShellStopsKept DEF Indexed, OneShellLaunch, Slots
    <3>5. QED
      BY <3>3, <3>4
  <2>3. QED
    BY <2>1, <2>2
<1>4. ShellLaunchIsNext' /\ RemovedPaneIsIdle'
  BY <1>1, AgendaEntries, OneEntry, TwoEntries DEF NativePaneHost, NativePaneUpdate
<1>5. QED
  BY <1>3, <1>4 DEF Indexed, OneShellLaunch

LEMMA LaunchNativePaneHostIndexed ==
  ASSUME ConstantsAssumption, TypeOK, Indexed, NEW p \in Panes,
         LaunchNativePaneHost(p)
  PROVE  Indexed'
<1>1. ShellLaunchIsNext' /\ RemovedPaneIsIdle'
  BY AgendaEntries, OneEntry DEF LaunchNativePaneHost, ConstantsAssumption
<1>2. QED
  BY <1>1, UntouchedIndexed DEF LaunchNativePaneHost, tables, slots

LEMMA SwitchToExternalIndexed ==
  ASSUME ConstantsAssumption, TypeOK, Indexed, NEW p \in Panes,
         NEW spec \in Specs, SwitchToExternal(p, spec)
  PROVE  Indexed'
<1> DEFINE sl == [slot EXCEPT ![p] = [@ EXCEPT !.want = spec, !.st = "absent",
                                               !.pid = 0]]
<1>1. /\ p \in Slots /\ p # Shell /\ slot \in [Slots -> SlotRecord]
      /\ 0 \in Int /\ "absent" \in States /\ spec \in Specs \cup {None}
  BY DEF Slots, TypeOK, States, ConstantsAssumption
<1>2. sl \in [Slots -> SlotRecord]
  BY <1>1, SwitchUpdate, Zenon
<1>3. \A q \in Slots \ {p} : sl[q] = slot[q]
  BY <1>1
<1>4. slot[p].idx = 0 /\ Spawn(p, sl, <<>>)
  BY DEF SwitchToExternal
<1> HIDE DEF sl
<1>5. LaunchIndexExact' /\ ShellStopsBeforeLaunch'
  BY <1>1, <1>2, <1>3, <1>4, LaunchIndexed
<1>6. work' = <<Poll>>
  BY <1>4 DEF Spawn
<1>7. ShellLaunchIsNext' /\ RemovedPaneIsIdle'
  BY <1>6, AgendaEntries, OneEntry
<1>8. QED
  BY <1>5, <1>7 DEF Indexed, OneShellLaunch

\* switch_pane_to_surf_ace and native_pane.release
LEMMA SwitchToSurfAceIndexed ==
  ASSUME ConstantsAssumption, TypeOK, Indexed, NEW p \in Panes,
         SwitchToSurfAce(p) \/ NativePaneRelease(p)
  PROVE  Indexed'
<1>1. p \in Slots /\ p # Shell /\ ToSurfAce(p)
  BY DEF Slots, ConstantsAssumption, SwitchToSurfAce, NativePaneRelease
<1>2. /\ ReleaseChild(p)
      /\ slot'[p].idx = 0 /\ slot'[p].want = None
      /\ \A q \in Slots \ {p} : slot'[q].idx = slot[q].idx
  BY <1>1 DEF ToSurfAce, TypeOK, Vacant
<1>3. LaunchIndexExact' /\ ShellStopsBeforeLaunch'
  BY <1>1, <1>2, ReleaseIndexed
<1>4. ShellLaunchIsNext' /\ RemovedPaneIsIdle'
  <2>1. CASE work' = <<Poll>>
    BY <2>1, AgendaEntries, OneEntry
  <2>2. CASE work' = <<Poll, Todo("removePane", p)>>
    <3> DEFINE last == Todo("removePane", p)
    <3>1. last.op = "removePane" /\ last.slot = p
      BY DEF Todo
    <3> HIDE DEF last
    <3>2. DOMAIN work' = {1, 2} /\ work'[1] = Poll /\ work'[2] = last
      BY <2>2 DEF last
    <3>3. \A i \in DOMAIN work' : work'[i] # Launch(Shell)
      BY <3>1, <3>2, AgendaEntries
    <3>4. \A i \in DOMAIN work' : work'[i].op = "removePane" => work'[i].slot = p
      BY <3>1, <3>2, AgendaEntries
    <3>5. QED
      BY <1>2, <3>3, <3>4 DEF ShellLaunchIsNext, RemovedPaneIsIdle, Launch, Todo
  <2>3. QED
    BY <2>1, <2>2 DEF SwitchToSurfAce, NativePaneRelease
<1>5. QED
  BY <1>3, <1>4 DEF Indexed, OneShellLaunch

\* The agenda of a snapshot.
LEMMA SnapshotAgenda ==
  ASSUME ConstantsAssumption, TypeOK, NEW incoming \in SUBSET Panes,
         ApplyProviderSnapshot(incoming)
  PROVE  \A i \in DOMAIN work' : work'[i].op \in {"dropPane", "poll"}
<1> DEFINE old == panes \ incoming
           Entries == {e \in WorkRecord : e.op \in {"dropPane", "poll"}}
<1>1. PICK order \in SetToSeqs(old) :
        work' = [i \in DOMAIN order |-> Todo("dropPane", order[i])] \o <<Poll>>
  BY DEF ApplyProviderSnapshot
<1>2. IsFiniteSet(old) /\ old \subseteq Panes
  BY FS_Subset DEF ConstantsAssumption, TypeOK
<1>3. Cardinality(old) \in Nat /\ order \in [1..Cardinality(old) -> old]
  BY <1>2, FS_CardinalityType DEF SetToSeqs
<1>4. [i \in DOMAIN order |-> Todo("dropPane", order[i])] \in Seq(Entries)
  <2>1. DOMAIN order = 1..Cardinality(old)
    BY <1>3
  <2>2. \A i \in 1..Cardinality(old) : Todo("dropPane", order[i]) \in Entries
    BY <1>2, <1>3, TodoType DEF Todo
  <2> HIDE DEF old, Entries
  <2>3. QED
    BY <1>3, <2>1, <2>2, IsASeq
<1>5. Poll \in Entries
  BY TodoType, AgendaEntries DEF Poll, Todo, WorkRecord, TodoRecord
<1>6. \A i \in DOMAIN work' : work'[i] \in Entries
  <2> HIDE DEF Entries
  <2>1. <<Poll>> \in Seq(Entries)
    BY <1>5
  <2>2. work' \in Seq(Entries)
    BY <1>1, <1>4, <2>1, ConcatProperties
  <2>3. QED
    BY <2>2, LenProperties
<1>7. QED
  BY <1>6

LEMMA ApplyProviderSnapshotIndexed ==
  ASSUME ConstantsAssumption, TypeOK, Indexed, NEW incoming \in SUBSET Panes,
         ApplyProviderSnapshot(incoming)
  PROVE  Indexed'
<1>1. \A i \in DOMAIN work' : work'[i].op \notin {"removePane", "launch"}
  BY SnapshotAgenda
<1>2. ShellLaunchIsNext' /\ RemovedPaneIsIdle'
  BY <1>1, AgendaStarted, AgendaEntries
<1>3. QED
  BY <1>2, UntouchedIndexed DEF ApplyProviderSnapshot, tables

LEMMA PollRequestIndexed ==
  ASSUME TypeOK, Indexed, PollRequest
  PROVE  Indexed'
<1>1. ShellLaunchIsNext' /\ RemovedPaneIsIdle'
  BY AgendaEntries, OneEntry DEF PollRequest
<1>2. QED
  BY <1>1, UntouchedIndexed DEF PollRequest, tables, slots

-----------------------------------------------------------------------------
(* Windows, the worker and the programs                                     *)

LEMMA WindowIndexed ==
  ASSUME TypeOK, Indexed, NEW s \in Slots, Attach(s) \/ Detach(s)
  PROVE  Indexed'
<1>1. \A q \in Slots : slot'[q].idx = slot[q].idx /\ slot'[q].want = slot[q].want
  <2>1. CASE Attach(s)
    <3>1. PICK c : slot' = [slot EXCEPT ![s] = [@ EXCEPT !.st = "attached",
                                                       !.pid = c]]
      BY <2>1 DEF Attach
    <3>2. QED
      BY <3>1 DEF TypeOK, SlotRecord
  <2>2. CASE Detach(s)
    BY <2>2 DEF Detach, TypeOK, SlotRecord
  <2>3. QED
    BY <2>1, <2>2
<1>2. QED
  BY <1>1, OutsideIndexed DEF Attach, Detach, tables

LEMMA RecoverOverlayIndexed ==
  ASSUME TypeOK, Indexed, NEW r \in DOMAIN app, RecoverOverlay(r)
  PROVE  Indexed'
<1>1. \A q \in Slots : slot'[q].idx = slot[q].idx /\ slot'[q].want = slot[q].want
  BY DEF RecoverOverlay, TypeOK, SlotRecord
<1>2. QED
  BY <1>1, OutsideIndexed DEF RecoverOverlay, tables

LEMMA WorkerIndexed ==
  ASSUME TypeOK, Indexed, Worker \/ \E r \in DOMAIN app : AppExits(r)
  PROVE  Indexed'
<1>1. UNCHANGED <<slot, launch, pending, cancelled, stops, ustops, work>>
  BY DEF Worker, WorkerSpawn, WorkerTerminate, WorkerTerminateUnconfirmed,
     ReapStarted, ReapReported, ReapUnconfirmed, AppExits, slots, tables
<1>2. QED
  BY <1>1, OutsideIndexed

-----------------------------------------------------------------------------
(* The invariant                                                            *)

LEMMA InitIndexed == ASSUME Init PROVE Indexed
<1>1. \A s \in Slots : slot[s].idx = 0
  BY DEF Init, Vacant
<1>2. DOMAIN work = {} /\ pending = {} /\ Shell \in Slots
  BY DEF Init, Slots
<1>3. QED
  BY <1>1, <1>2 DEF Indexed, LaunchIndexExact, IndexNamesPending,
     PendingIsIndexed, OneShellLaunch, ShellStopsBeforeLaunch,
     ShellLaunchIsNext, RemovedPaneIsIdle

LEMMA NextIndexed ==
  ASSUME ConstantsAssumption, TypeOK, Indexed, [Next]_vars
  PROVE  Indexed'
<1>1. CASE Step
  BY <1>1, SpawnStartedIndexed, SpawnUnconfirmedIndexed, SpawnFailedIndexed,
     ExitedIndexed, TerminatedIndexed, TerminatedUnconfirmedIndexed,
     UnconfirmedExitedIndexed, PollProcessesIndexed, LaunchSlotIndexed,
     RemoveReleasedPaneIndexed, DropPaneIndexed DEF Step
<1>2. CASE RequestStep
  <2>1. CASE \E i \in Specs : SelectMainApp(i)
    BY <2>1, SelectMainAppIndexed
  <2>2. CASE \/ ResetRuntime \/ RuntimeRunning \/ OpenShell \/ DismissShell
    BY <2>2, ResetRuntimeIndexed, RuntimeRunningIndexed, OpenShellIndexed,
       DismissShellIndexed
  <2>3. CASE \E p \in Panes, spec \in Specs, rev \in 0..MaxRevision :
               NativePaneHost(p, spec, rev) \/ NativePaneUpdate(p, spec, rev)
    BY <2>3, NativePaneHostIndexed
  <2>4. CASE \E p \in Panes : \/ NativePaneRelease(p)
                              \/ LaunchNativePaneHost(p)
                              \/ SwitchToSurfAce(p)
                              \/ \E spec \in Specs : SwitchToExternal(p, spec)
    BY <2>4, SwitchToSurfAceIndexed, LaunchNativePaneHostIndexed,
       SwitchToExternalIndexed
  <2>5. CASE \E incoming \in SUBSET Panes : ApplyProviderSnapshot(incoming)
    BY <2>5, ApplyProviderSnapshotIndexed
  <2>6. CASE \E r \in DOMAIN app : RecoverOverlay(r)
    BY <2>6, RecoverOverlayIndexed
  <2>7. QED
    BY <1>2, <2>1, <2>2, <2>3, <2>4, <2>5, <2>6 DEF RequestStep
<1>3. CASE Window
  BY <1>3, WindowIndexed DEF Window
<1>4. CASE Worker \/ \E r \in DOMAIN app : AppExits(r)
  BY <1>4, WorkerIndexed
<1>5. CASE PollRequest
  BY <1>5, PollRequestIndexed
<1>6. CASE UNCHANGED vars
  BY <1>6, OutsideIndexed DEF vars, slots, tables
<1>7. QED
  BY <1>1, <1>2, <1>3, <1>4, <1>5, <1>6 DEF Next

(* The inductive invariant: types, the index of every slot against the      *)
(* table of pending launches, the shell's single launch, and panes about to *)
(* be removed.                                                              *)
THEOREM IndexInvariant == Spec => []IndexInv
<1>1. Init => IndexInv
  BY InitType, InitIndexed DEF IndexInv, Indexed
<1>2. IndexInv /\ [Next]_vars => IndexInv'
  BY ConstantsAssumption, NextType, NextIndexed DEF IndexInv, Indexed
<1>3. QED
  BY <1>1, <1>2, PTL DEF Spec

(* No launch in flight is unreachable from its slot and no slot waits for a *)
(* launch nobody remembers, whatever is cancelled, replaced or answered late *)
(* (request_process_spawn, clear_pending_launch_index,                      *)
(* cancel_pending_process_launch).                                          *)
THEOREM LaunchIndexSafe == Spec => []LaunchIndexExact
<1>1. IndexInv => LaunchIndexExact
  BY DEF IndexInv
<1>2. QED
  BY <1>1, IndexInvariant, PTL

(* A shell launch is never asked for while one is in flight or being        *)
(* stopped, though open_shell_overlay does not look at the launch index.    *)
THEOREM OneShellLaunchSafe == Spec => []OneShellLaunch
<1>1. IndexInv => OneShellLaunch
  BY DEF IndexInv
<1>2. QED
  BY <1>1, IndexInvariant, PTL

-----------------------------------------------------------------------------
(* Counting what is on a channel                                            *)

\* Where in q an element of E stands, and how many there are.
Hits(q, E)  == {i \in DOMAIN q : q[i] \in E}
Count(q, E) == Cardinality(Hits(q, E))

LEMMA CountType ==
  ASSUME NEW S, NEW q \in Seq(S), NEW E
  PROVE  IsFiniteSet(Hits(q, E)) /\ Count(q, E) \in Nat
<1>1. IsFiniteSet(DOMAIN q) /\ Hits(q, E) \in SUBSET (DOMAIN q)
  BY LenProperties, FS_Interval DEF Hits
<1>2. IsFiniteSet(Hits(q, E))
  BY <1>1, FS_Subset
<1>3. QED
  BY <1>2, FS_CardinalityType DEF Count

LEMMA CountNone ==
  ASSUME NEW q, NEW E, \A i \in DOMAIN q : q[i] \notin E
  PROVE  Count(q, E) = 0
<1>1. Hits(q, E) = {}
  BY DEF Hits
<1>2. QED
  BY <1>1, FS_EmptySet DEF Count

LEMMA CountAppend ==
  ASSUME NEW S, NEW q \in Seq(S), NEW e \in S, NEW E
  PROVE  Count(Append(q, e), E) = IF e \in E THEN Count(q, E) + 1 ELSE Count(q, E)
<1> DEFINE n == Len(q) + 1
<1>1. /\ Len(q) \in Nat /\ DOMAIN q = 1..Len(q)
      /\ DOMAIN Append(q, e) = 1..n
      /\ \A i \in 1..Len(q) : Append(q, e)[i] = q[i]
      /\ Append(q, e)[n] = e
  BY AppendProperties, LenProperties
<1>2. n \notin Hits(q, E)
  BY <1>1 DEF Hits
<1>3. Hits(Append(q, e), E) = IF e \in E THEN Hits(q, E) \cup {n} ELSE Hits(q, E)
  BY <1>1 DEF Hits
<1>4. IsFiniteSet(Hits(q, E))
  BY CountType
<1> HIDE DEF n
<1>5. e \in E => Cardinality(Hits(q, E) \cup {n}) = Cardinality(Hits(q, E)) + 1
  BY <1>2, <1>4, FS_AddElement
<1>6. QED
  BY <1>3, <1>5 DEF Count

\* Moved by n places, the same hits.
LEMMA CountShift ==
  ASSUME NEW H \in SUBSET Int, IsFiniteSet(H), NEW n \in Int
  PROVE  /\ IsFiniteSet({i + n : i \in H})
         /\ Cardinality({i + n : i \in H}) = Cardinality(H)
<1> DEFINE M == {i + n : i \in H}
           f == [i \in H |-> i + n]
<1>1. f \in [H -> M]
  OBVIOUS
<1>2. \A a, b \in H : f[a] = f[b] => a = b
  OBVIOUS
<1>3. \A t \in M : \E i \in H : f[i] = t
  OBVIOUS
<1> HIDE DEF M, f
<1>4. f \in Bijection(H, M)
  BY <1>1, <1>2, <1>3, Fun_IsBij
<1>5. ExistsBijection(H, M)
  BY <1>4, Fun_ExistsBij
<1>6. QED
  BY <1>5, FS_Bijection DEF M

LEMMA CountConcat ==
  ASSUME NEW S, NEW p \in Seq(S), NEW q \in Seq(S), NEW E
  PROVE  Count(p \o q, E) = Count(p, E) + Count(q, E)
<1> DEFINE n == Len(p)
           M == {i + n : i \in Hits(q, E)}
<1>0. n \in Int
  BY LenProperties
<1>1. /\ n \in Nat /\ Len(q) \in Nat
      /\ DOMAIN p = 1..n /\ DOMAIN q = 1..Len(q)
      /\ DOMAIN (p \o q) = 1..(n + Len(q))
      /\ \A i \in 1..(n + Len(q)) :
           (p \o q)[i] = IF i <= n THEN p[i] ELSE q[i - n]
  BY ConcatProperties, LenProperties
<1>2. IsFiniteSet(Hits(p, E)) /\ IsFiniteSet(Hits(q, E))
  BY CountType
<1>3. Hits(p \o q, E) = Hits(p, E) \cup M
  <2>1. \A i \in Hits(p \o q, E) : i \in Hits(p, E) \cup M
    <3> SUFFICES ASSUME NEW i \in Hits(p \o q, E), i \notin Hits(p, E)
                 PROVE  i \in M
      OBVIOUS
    <3>1. i \in 1..(n + Len(q)) /\ i > n /\ q[i - n] \in E
      BY <1>1 DEF Hits
    <3>2. i - n \in Hits(q, E) /\ i = (i - n) + n
      BY <1>1, <3>1 DEF Hits
    <3>3. QED
      BY <3>2
  <2>2. \A i \in Hits(p, E) : i \in Hits(p \o q, E)
    BY <1>1 DEF Hits
  <2>3. \A i \in M : i \in Hits(p \o q, E)
    <3> SUFFICES ASSUME NEW j \in Hits(q, E) PROVE j + n \in Hits(p \o q, E)
      OBVIOUS
    <3>1. j \in 1..Len(q) /\ q[j] \in E
      BY <1>1 DEF Hits
    <3>2. j + n \in 1..(n + Len(q)) /\ ~(j + n <= n) /\ (j + n) - n = j
      BY <1>1, <3>1
    <3>3. QED
      BY <1>1, <3>1, <3>2 DEF Hits
  <2>4. QED
    BY <2>1, <2>2, <2>3
<1>4. Hits(p, E) \cap M = {}
  BY <1>1 DEF Hits
<1>5. Hits(q, E) \in SUBSET Int
  BY <1>1 DEF Hits
<1>6. IsFiniteSet(M) /\ Cardinality(M) = Cardinality(Hits(q, E))
  BY <1>2, <1>5, <1>0, CountShift, Zenon
<1> HIDE DEF M, n
<1>7. Cardinality(Hits(p, E) \cup M) =
        Cardinality(Hits(p, E)) + Cardinality(M) - Cardinality({})
  <2>1. IsFiniteSet(Hits(p, E)) /\ IsFiniteSet(M)
    BY <1>2, <1>6
  <2>2. Cardinality(Hits(p, E) \cup M) =
          Cardinality(Hits(p, E)) + Cardinality(M) - Cardinality(Hits(p, E) \cap M)
    BY <2>1, FS_Union, Zenon
  <2>3. QED
    BY <1>4, <2>2
<1>8. Count(p, E) \in Nat /\ Count(q, E) \in Nat
  BY CountType
<1>9. QED
  BY <1>3, <1>6, <1>7, <1>8, FS_EmptySet DEF Count

LEMMA CountTail ==
  ASSUME NEW S, NEW q \in Seq(S), q # <<>>, NEW E
  PROVE  Count(q, E) = Count(Tail(q), E) + IF Head(q) \in E THEN 1 ELSE 0
<1> DEFINE M == {i + 1 : i \in Hits(Tail(q), E)}
<1>1. /\ Len(q) \in Nat \ {0} /\ DOMAIN q = 1..Len(q) /\ Head(q) = q[1]
      /\ DOMAIN Tail(q) = 1..(Len(q) - 1)
      /\ \A i \in 1..(Len(q) - 1) : Tail(q)[i] = q[i + 1]
  BY HeadTailProperties, LenProperties, EmptySeq
<1>2. Tail(q) \in Seq(S)
  BY HeadTailProperties
<1>3. IsFiniteSet(Hits(Tail(q), E)) /\ Count(Tail(q), E) \in Nat
  BY <1>2, CountType
<1>4. Hits(q, E) = IF Head(q) \in E THEN M \cup {1} ELSE M
  <2>1. \A i \in Hits(q, E) : (i = 1 /\ Head(q) \in E) \/ i \in M
    <3> SUFFICES ASSUME NEW i \in Hits(q, E), i # 1 PROVE i \in M
      BY <1>1 DEF Hits
    <3>1. i - 1 \in 1..(Len(q) - 1) /\ i = (i - 1) + 1 /\ q[i] \in E
      BY <1>1 DEF Hits
    <3>2. i - 1 \in Hits(Tail(q), E)
      BY <1>1, <3>1 DEF Hits
    <3>3. QED
      BY <3>1, <3>2
  <2>2. \A i \in M : i \in Hits(q, E)
    <3> SUFFICES ASSUME NEW j \in Hits(Tail(q), E) PROVE j + 1 \in Hits(q, E)
      OBVIOUS
    <3>1. j \in 1..(Len(q) - 1) /\ q[j + 1] \in E
      BY <1>1 DEF Hits
    <3>2. QED
      BY <1>1, <3>1 DEF Hits
  <2>3. Head(q) \in E => 1 \in Hits(q, E)
    BY <1>1 DEF Hits
  <2>4. QED
    BY <2>1, <2>2, <2>3
<1>5. 1 \notin M /\ Hits(Tail(q), E) \in SUBSET Int
  BY <1>1 DEF Hits
<1>6. IsFiniteSet(M) /\ Cardinality(M) = Count(Tail(q), E)
  <2>1. 1 \in Int
    OBVIOUS
  <2>2. IsFiniteSet(M) /\ Cardinality(M) = Cardinality(Hits(Tail(q), E))
    BY <1>3, <1>5, <2>1, CountShift, Zenon
  <2>3. QED
    BY <2>2 DEF Count
<1> HIDE DEF M
<1>7. Cardinality(M \cup {1}) = Cardinality(M) + 1
  BY <1>5, <1>6, FS_AddElement, Zenon
<1>8. QED
  BY <1>3, <1>4, <1>6, <1>7 DEF Count

-----------------------------------------------------------------------------
(* Stops, the commands that ask for them and the answers                    *)

Asking(p)   == {Cmd("terminate", p)}
Answers(p)  == {e \in WorkRecord : e.op = "terminated" /\ e.id = p}
StopsFor(p) == {x \in stops : x.id = p}

\* Pid p is being stopped at most once, and exactly then its termination is
\* asked for or answered somewhere, once.
Balanced(p) ==
  /\ IsFiniteSet(StopsFor(p)) /\ Cardinality(StopsFor(p)) <= 1
  /\ Count(cmds, Asking(p)) + Count(evts, Answers(p)) + Count(work, Answers(p))
       = Cardinality(StopsFor(p))

Awaited == \A p \in Int : Balanced(p)

\* The step enters a stop for p exactly when it asks for one.
Matched(p) ==
  /\ IsFiniteSet(StopsFor(p)') /\ Cardinality(StopsFor(p)') <= 1
  /\ Cardinality(StopsFor(p)') + Count(cmds, Asking(p))
       = Cardinality(StopsFor(p)) + Count(cmds', Asking(p))

\* What is counted are numbers.
LEMMA BalanceTypes ==
  ASSUME TypeOK, NEW p \in Int
  PROVE  /\ Count(cmds, Asking(p)) \in Nat /\ Count(evts, Answers(p)) \in Nat
         /\ Count(work, Answers(p)) \in Nat
         /\ IsFiniteSet(StopsFor(p)) => Cardinality(StopsFor(p)) \in Nat
BY CountType, FS_CardinalityType DEF TypeOK

\* A step that matches stops and commands and moves no answer.
LEMMA StaysBalanced ==
  ASSUME TypeOK, TypeOK', NEW p \in Int, Balanced(p), Matched(p),
         Count(evts', Answers(p)) = Count(evts, Answers(p)),
         Count(work', Answers(p)) = Count(work, Answers(p))
  PROVE  Balanced(p)'
<1>1. Cardinality(StopsFor(p)) \in Nat /\ Cardinality(StopsFor(p)') \in Nat
  BY FS_CardinalityType DEF Balanced, Matched
<1>2. /\ Count(cmds, Asking(p)) \in Nat /\ Count(cmds', Asking(p)) \in Nat
      /\ Count(evts, Answers(p)) \in Nat /\ Count(work, Answers(p)) \in Nat
  BY CountType DEF TypeOK
<1>3. Count(cmds', Asking(p)) + Count(evts', Answers(p)) + Count(work', Answers(p))
        = Cardinality(StopsFor(p)')
  BY <1>1, <1>2 DEF Balanced, Matched
<1>4. QED
  BY <1>3 DEF Balanced, Matched

LEMMA NothingSent ==
  ASSUME NEW p \in Int, Balanced(p), UNCHANGED <<stops, cmds>>
  PROVE  Matched(p)
BY DEF Balanced, Matched, StopsFor

\* A command that asks for no termination.
LEMMA SendsOther ==
  ASSUME NEW queue \in Seq(CmdRecord), NEW p \in Int, NEW id \in Int,
         NEW op \in {"spawn", "terminateUnconfirmed"}
  PROVE  /\ Append(queue, Cmd(op, id)) \in Seq(CmdRecord)
         /\ Count(Append(queue, Cmd(op, id)), Asking(p)) = Count(queue, Asking(p))
<1>1. Cmd(op, id) \in CmdRecord /\ Cmd(op, id) \notin Asking(p)
  BY DEF Cmd, CmdRecord, Asking
<1>2. QED
  BY <1>1, AppendProperties, CountAppend

\* request_process_termination asks once for each stop it enters.
LEMMA TerminateMatched ==
  ASSUME TypeOK, NEW p \in Int, Balanced(p), NEW pid \in Int,
         NEW kind, NEW s, NEW queue \in Seq(CmdRecord),
         Count(queue, Asking(p)) = Count(cmds, Asking(p)),
         Terminate(pid, kind, s, queue)
  PROVE  Matched(p)
<1> DEFINE x == [id |-> pid, kind |-> kind, slot |-> s]
           known == pid = 0 \/ \E y \in stops : y.id = pid
<1>1. Count(cmds, Asking(p)) \in Nat /\ Cardinality(StopsFor(p)) \in Nat
  BY BalanceTypes DEF Balanced
<1>2. CASE known
  BY <1>1, <1>2 DEF Terminate, Balanced, Matched, StopsFor
<1>3. CASE ~known
  <2>1. stops' = stops \cup {x} /\ cmds' = Append(queue, Cmd("terminate", pid))
    BY <1>3 DEF Terminate
  <2>2. Cmd("terminate", pid) \in CmdRecord
    BY DEF Cmd, CmdRecord
  <2>3. Cmd("terminate", pid) \in Asking(p) <=> pid = p
    BY DEF Cmd, Asking
  <2>4. Count(cmds', Asking(p)) =
          IF pid = p THEN Count(cmds, Asking(p)) + 1 ELSE Count(cmds, Asking(p))
    <3>1. Count(Append(queue, Cmd("terminate", pid)), Asking(p)) =
            IF Cmd("terminate", pid) \in Asking(p)
            THEN Count(queue, Asking(p)) + 1 ELSE Count(queue, Asking(p))
      BY <2>2, CountAppend
    <3>2. QED
      BY <2>1, <2>3, <3>1, Zenon
  <2>5. CASE pid = p
    <3>1. StopsFor(p) = {} /\ StopsFor(p)' = {x}
      BY <1>3, <2>1, <2>5 DEF StopsFor
    <3>2. /\ Cardinality(StopsFor(p)) = 0
          /\ IsFiniteSet(StopsFor(p)') /\ Cardinality(StopsFor(p)') = 1
      <4> HIDE DEF x
      <4>1. QED
        BY <3>1, FS_EmptySet, FS_Singleton
    <3>3. QED
      BY <1>1, <2>4, <2>5, <3>2 DEF Matched
  <2>6. CASE pid # p
    <3>1. StopsFor(p)' = StopsFor(p)
      BY <2>1, <2>6 DEF StopsFor
    <3>2. QED
      BY <1>1, <2>4, <2>6, <3>1 DEF Matched, Balanced
  <2>7. QED
    BY <2>5, <2>6
<1>4. QED
  BY <1>2, <1>3

LEMMA ReleaseMatched ==
  ASSUME TypeOK, NEW p \in Int, Balanced(p), NEW s \in Slots, ReleaseChild(s)
  PROVE  Matched(p)
<1> DEFINE u == slot[s].ureq
           stopU == u \in unconfirmed /\ ~ \E x \in ustops : x.id = u
           queue == IF stopU THEN Append(cmds, Cmd("terminateUnconfirmed", u))
                             ELSE cmds
<1>1. u \in Int /\ cmds \in Seq(CmdRecord)
  BY DEF TypeOK, SlotRecord
<1>2. queue \in Seq(CmdRecord) /\ Count(queue, Asking(p)) = Count(cmds, Asking(p))
  BY <1>1, SendsOther
<1>3. Terminate(RunningPid(s), "slot", s, queue)
  BY DEF ReleaseChild, StopRunning
<1> HIDE DEF queue
<1>4. QED
  BY <1>2, <1>3, RunningPidType, TerminateMatched, Zenon

LEMMA TerminateMainMatched ==
  ASSUME TypeOK, NEW p \in Int, Balanced(p), TerminateMain
  PROVE  Matched(p)
<1> DEFINE u == slot[Main].ureq
<1>1. Main \in Slots /\ u \in Int /\ cmds \in Seq(CmdRecord)
  BY DEF TypeOK, SlotRecord, Slots
<1>2. CASE u # 0
  <2>1. stops' = stops /\ (\/ cmds' = cmds
                           \/ cmds' = Append(cmds, Cmd("terminateUnconfirmed", u)))
    BY <1>2 DEF TerminateMain
  <2>2. Count(Append(cmds, Cmd("terminateUnconfirmed", u)), Asking(p))
          = Count(cmds, Asking(p))
    BY <1>1, SendsOther
  <2> HIDE DEF u
  <2>3. Count(cmds', Asking(p)) = Count(cmds, Asking(p))
    BY <2>1, <2>2, Zenon
  <2>4. QED
    BY <2>1, <2>3 DEF Matched, Balanced, StopsFor
<1>3. CASE u = 0
  BY <1>1, <1>3, ReleaseMatched DEF TerminateMain
<1>4. QED
  BY <1>2, <1>3

-----------------------------------------------------------------------------
(* The agenda                                                               *)

\* What is left to do, as opposed to what was answered.
LEMMA TodoItems ==
  /\ \A e \in TodoRecord, p \in Int : e \notin Answers(p)
  /\ Poll \in TodoRecord
  /\ \A s \in Slots : Launch(s) \in TodoRecord
  /\ \A p \in Panes : /\ Todo("removePane", p) \in TodoRecord
                      /\ Todo("dropPane", p) \in TodoRecord
  /\ \A a, b \in TodoRecord : /\ <<a>> \in Seq(TodoRecord)
                              /\ <<a, b>> \in Seq(TodoRecord)
<1>1. \A a, b \in TodoRecord : <<a>> \in Seq(TodoRecord) /\ <<a, b>> \in Seq(TodoRecord)
  OBVIOUS
<1>2. \A e \in TodoRecord, p \in Int : e \notin Answers(p)
  BY DEF TodoRecord, Answers
<1>3. QED
  BY <1>1, <1>2 DEF Poll, Launch, Todo, TodoRecord

\* Entries that are no answers count for none.
LEMMA TodosCountNone ==
  ASSUME NEW items \in Seq(TodoRecord), NEW p \in Int
  PROVE  Count(items, Answers(p)) = 0
<1>1. \A i \in DOMAIN items : items[i] \in TodoRecord
  BY LenProperties
<1>2. \A i \in DOMAIN items : items[i] \notin Answers(p)
  BY <1>1, TodoItems
<1>3. QED
  BY <1>2, CountNone

LEMMA RetryCountsNone ==
  ASSUME NEW s \in Slots, NEW p \in Int
  PROVE  /\ Retry(s) \in Seq(WorkRecord) /\ Count(Retry(s), Answers(p)) = 0
         /\ <<>> \in Seq(WorkRecord) /\ Count(<<>>, Answers(p)) = 0
<1>1. Retry(s) \in Seq(TodoRecord) /\ <<>> \in Seq(TodoRecord)
  BY TodoItems DEF Retry
<1>2. QED
  BY <1>1, TodosCountNone, TodoType

\* A request starts its agenda with things to do.
LEMMA AgendaStartsQuiet ==
  ASSUME work = <<>>, work' \in Seq(TodoRecord), NEW p \in Int
  PROVE  Count(work', Answers(p)) = Count(work, Answers(p))
<1>1. <<>> \in Seq(TodoRecord)
  OBVIOUS
<1>2. QED
  BY <1>1, TodosCountNone

\* The head of the agenda gives way to other items.
LEMMA HeadReplaced ==
  ASSUME TypeOK, NEW p \in Int, work # <<>>,
         NEW items \in Seq(WorkRecord), work' = items \o Tail(work)
  PROVE  Count(work', Answers(p)) =
           Count(items, Answers(p)) + Count(work, Answers(p))
             - (IF Head(work) \in Answers(p) THEN 1 ELSE 0)
<1> DEFINE h == IF Head(work) \in Answers(p) THEN 1 ELSE 0
<1>1. work \in Seq(WorkRecord) /\ Tail(work) \in Seq(WorkRecord)
  BY HeadTailProperties DEF TypeOK
<1>2. /\ Count(items, Answers(p)) \in Nat /\ Count(Tail(work), Answers(p)) \in Nat
      /\ h \in {0, 1}
  BY <1>1, CountType
<1>3. Count(work, Answers(p)) = Count(Tail(work), Answers(p)) + h
  BY <1>1, CountTail
<1>4. Count(items \o Tail(work), Answers(p))
        = Count(items, Answers(p)) + Count(Tail(work), Answers(p))
  BY <1>1, CountConcat
<1> HIDE DEF h
<1>5. Count(work', Answers(p)) = Count(items, Answers(p)) + Count(work, Answers(p)) - h
  <2>1. Count(work', Answers(p)) = Count(items \o Tail(work), Answers(p))
    OBVIOUS
  <2>2. QED
    BY <1>2, <1>3, <1>4, <2>1
<1>6. QED
  BY <1>5 DEF h

\* What is done was no answer to a termination and leaves none.
LEMMA HandledQuietly ==
  ASSUME TypeOK, NEW p \in Int, work # <<>>, Head(work).op # "terminated",
         NEW items \in Seq(WorkRecord), Count(items, Answers(p)) = 0,
         work' = items \o Tail(work)
  PROVE  Count(work', Answers(p)) = Count(work, Answers(p))
<1>1. Head(work) \notin Answers(p)
  BY DEF Answers
<1>2. Count(work, Answers(p)) \in Nat
  BY BalanceTypes
<1>3. Count(work', Answers(p)) =
        Count(items, Answers(p)) + Count(work, Answers(p))
          - (IF Head(work) \in Answers(p) THEN 1 ELSE 0)
  BY HeadReplaced, Zenon
<1>4. QED
  BY <1>1, <1>2, <1>3

-----------------------------------------------------------------------------
(* Every step keeps the balance                                             *)

\* A drained event that is no answer to a termination, and the other steps
\* of the mutex holder that finish their item.
LEMMA AppliedBalanced ==
  ASSUME TypeOK, TypeOK', NEW p \in Int, Balanced(p), Matched(p),
         work # <<>>, Head(work).op # "terminated",
         Do(<<>>) \/ \E s \in Slots : Do(Retry(s)),
         UNCHANGED evts
  PROVE  Balanced(p)'
<1>1. PICK items \in Seq(WorkRecord) :
        Count(items, Answers(p)) = 0 /\ work' = items \o Tail(work)
  <2>1. Main \in Slots
    BY DEF Slots
  <2>2. QED
    BY <2>1, RetryCountsNone, Zenon DEF Do
<1>2. Count(work', Answers(p)) = Count(work, Answers(p))
  BY <1>1, HandledQuietly
<1>3. QED
  BY <1>2, StaysBalanced

LEMMA SpawnStartedBalanced ==
  ASSUME TypeOK, TypeOK', NEW p \in Int, Balanced(p), SpawnStarted
  PROVE  Balanced(p)'
<1>1. Subject \in pending \cup cancelled
  BY DEF SpawnStarted
<1>2. Subject \in Int /\ cmds \in Seq(CmdRecord)
  BY <1>1, LaunchedType DEF TypeOK
<1>3. Matched(p)
  <2>1. CASE UNCHANGED <<stops, cmds>>
    BY <2>1, NothingSent
  <2>2. CASE Terminate(Subject, "stale", launch[Subject].slot, cmds)
    BY <1>2, <2>2, TerminateMatched
  <2>3. QED
    BY <2>1, <2>2, Zenon DEF SpawnStarted, StopLate
<1>4. QED
  BY <1>3, AppliedBalanced DEF SpawnStarted, Applying

LEMMA AnswersBalanced ==
  ASSUME TypeOK, TypeOK', NEW p \in Int, Balanced(p),
         \/ SpawnUnconfirmed \/ SpawnFailed \/ Exited
         \/ TerminatedUnconfirmed \/ UnconfirmedExited
  PROVE  Balanced(p)'
<1>1. Matched(p)
  <2>1. UNCHANGED <<stops, cmds>>
    BY ZenonT(60) DEF SpawnUnconfirmed, SpawnFailed, Exited, TerminatedUnconfirmed,
           UnconfirmedExited, tables
  <2>2. QED
    BY <2>1, NothingSent, SMTT(60)
<1>2. work # <<>> /\ Head(work).op # "terminated" /\ UNCHANGED evts
  BY DEF SpawnUnconfirmed, SpawnFailed, Exited, TerminatedUnconfirmed,
         UnconfirmedExited, Applying
<1>3. Do(<<>>) \/ \E s \in Slots : Do(Retry(s))
  <2>1. CASE SpawnFailed
    <3>1. Subject \in cancelled => launch[Subject].slot \in Slots
      BY LaunchedType DEF TypeOK
    <3>2. QED
      BY <2>1, <3>1, Zenon DEF SpawnFailed
  <2>2. CASE TerminatedUnconfirmed
    <3>1. \A x \in ustops : x.slot \in Slots
      BY DEF TypeOK, Stop
    <3>2. QED
      BY <2>2, <3>1, Zenon DEF TerminatedUnconfirmed
  <2>3. CASE SpawnUnconfirmed \/ Exited \/ UnconfirmedExited
    BY <2>3, Zenon DEF SpawnUnconfirmed, Exited, UnconfirmedExited
  <2>4. QED
    BY <2>1, <2>2, <2>3
<1>4. QED
  BY <1>1, <1>2, <1>3, AppliedBalanced

LEMMA TerminatedBalanced ==
  ASSUME TypeOK, TypeOK', NEW p \in Int, Balanced(p), Terminated
  PROVE  Balanced(p)'
<1>1. PICK x \in stops : /\ x.id = Subject /\ stops' = stops \ {x}
                         /\ Do(Retry(x.slot))
  BY DEF Terminated
<1>2. /\ work # <<>> /\ Head(work).op = "terminated" /\ UNCHANGED <<cmds, evts>>
  BY DEF Terminated, Applying
<1>3. x.slot \in Slots /\ Head(work) \in WorkRecord
  BY <1>2, HeadTailProperties DEF TypeOK, Stop
<1>4. Head(work) \in Answers(p) <=> x.id = p
  BY <1>1, <1>2, <1>3 DEF Answers, Subject
<1>5. Count(work', Answers(p)) =
        Count(Retry(x.slot), Answers(p)) + Count(work, Answers(p))
          - (IF Head(work) \in Answers(p) THEN 1 ELSE 0)
  BY <1>1, <1>2, <1>3, RetryCountsNone, HeadReplaced, Zenon DEF Do
<1>6. Count(Retry(x.slot), Answers(p)) = 0
  BY <1>3, RetryCountsNone
<1>7. /\ Count(cmds, Asking(p)) \in Nat /\ Count(evts, Answers(p)) \in Nat
      /\ Count(work, Answers(p)) \in Nat /\ Cardinality(StopsFor(p)) \in Nat
  BY BalanceTypes DEF Balanced
<1>8. CASE x.id = p
  <2>1. x \in StopsFor(p) /\ StopsFor(p)' = StopsFor(p) \ {x}
    BY <1>1, <1>8 DEF StopsFor
  <2>2. /\ IsFiniteSet(StopsFor(p)')
        /\ Cardinality(StopsFor(p)') = Cardinality(StopsFor(p)) - 1
    BY <2>1, FS_RemoveElement DEF Balanced
  <2>3. Count(work', Answers(p)) = Count(work, Answers(p)) - 1
    BY <1>4, <1>5, <1>6, <1>7, <1>8
  <2>4. QED
    BY <1>2, <1>7, <2>2, <2>3 DEF Balanced
<1>9. CASE x.id # p
  <2>1. StopsFor(p)' = StopsFor(p)
    BY <1>1, <1>9 DEF StopsFor
  <2>2. Count(work', Answers(p)) = Count(work, Answers(p))
    BY <1>4, <1>5, <1>6, <1>7, <1>9
  <2>3. QED
    BY <1>2, <2>1, <2>2 DEF Balanced
<1>10. QED
  BY <1>8, <1>9

LEMMA PollProcessesBalanced ==
  ASSUME TypeOK, TypeOK', NEW p \in Int, Balanced(p), PollProcesses
  PROVE  Balanced(p)'
<1>1. /\ work # <<>> /\ Head(work).op = "poll" /\ work' = evts \o Tail(work)
      /\ evts' = <<>> /\ UNCHANGED <<stops, cmds>>
  BY DEF PollProcesses, Applying, Do, tables
<1>2. evts \in Seq(WorkRecord)
  BY DEF TypeOK, WorkRecord
<1>3. Head(work) \notin Answers(p)
  BY <1>1 DEF Answers
<1>4. Count(work, Answers(p)) \in Nat /\ Count(evts, Answers(p)) \in Nat
  BY BalanceTypes
<1>5. Count(work', Answers(p)) = Count(evts, Answers(p)) + Count(work, Answers(p))
  <2>1. Count(work', Answers(p)) =
          Count(evts, Answers(p)) + Count(work, Answers(p))
            - (IF Head(work) \in Answers(p) THEN 1 ELSE 0)
    BY <1>1, <1>2, HeadReplaced, Zenon
  <2>2. QED
    BY <1>3, <1>4, <2>1
<1>6. Main \in Slots
  BY DEF Slots
<1>7. Count(evts', Answers(p)) = 0
  BY <1>1, <1>6, RetryCountsNone
<1>8. StopsFor(p)' = StopsFor(p) /\ Count(cmds', Asking(p)) = Count(cmds, Asking(p))
  BY <1>1 DEF StopsFor
<1>9. Count(cmds, Asking(p)) \in Nat /\ Cardinality(StopsFor(p)) \in Nat
  BY BalanceTypes DEF Balanced
<1>10. QED
  BY <1>4, <1>5, <1>7, <1>8, <1>9 DEF Balanced

\* A launch: one command, none that stops anything.
LEMMA SpawnSends ==
  ASSUME TypeOK, NEW p \in Int, Balanced(p), NEW s, NEW sl, NEW rest,
         Spawn(s, sl, rest)
  PROVE  Matched(p) /\ UNCHANGED evts
<1> DEFINE r == Len(launch) + 1
<1>1. r \in Int /\ cmds \in Seq(CmdRecord)
  BY LenProperties DEF TypeOK
<1>2. cmds' = Append(cmds, Cmd("spawn", r)) /\ UNCHANGED <<stops, evts>>
  BY DEF Spawn
<1> HIDE DEF r
<1>3. Count(Append(cmds, Cmd("spawn", r)), Asking(p)) = Count(cmds, Asking(p))
  BY <1>1, SendsOther
<1>4. Count(cmds', Asking(p)) = Count(cmds, Asking(p))
  BY <1>2, <1>3, Zenon
<1>5. QED
  BY <1>2, <1>4 DEF Matched, Balanced, StopsFor

LEMMA LaunchSlotBalanced ==
  ASSUME TypeOK, TypeOK', NEW p \in Int, Balanced(p), LaunchSlot
  PROVE  Balanced(p)'
<1> DEFINE s == Head(work).slot
<1>1. work # <<>> /\ Head(work).op # "terminated"
  BY DEF LaunchSlot, Applying
<1>2. CASE Spawn(s, slot, Tail(work))
  <2>1. Matched(p) /\ UNCHANGED evts
    BY <1>2, SpawnSends
  <2>2. <<Poll>> \in Seq(WorkRecord) /\ <<Poll>> \in Seq(TodoRecord)
    BY TodoItems, TodoType
  <2>3. work' = <<Poll>> \o Tail(work)
    BY <1>2 DEF Spawn
  <2>4. Count(<<Poll>>, Answers(p)) = 0
    BY <2>2, TodosCountNone
  <2>5. Count(work', Answers(p)) = Count(work, Answers(p))
    BY <1>1, <2>2, <2>3, <2>4, HandledQuietly, Zenon
  <2>6. QED
    BY <2>1, <2>5, StaysBalanced
<1>3. CASE Do(<<>>) /\ UNCHANGED <<tables, cmds, evts>>
  <2>1. Matched(p)
    BY <1>3, NothingSent DEF tables
  <2>2. QED
    BY <1>1, <1>3, <2>1, AppliedBalanced
<1>4. QED
  BY <1>2, <1>3, Zenon DEF LaunchSlot

LEMMA PaneRemovalBalanced ==
  ASSUME TypeOK, TypeOK', NEW p \in Int, Balanced(p),
         RemoveReleasedPane \/ DropPane
  PROVE  Balanced(p)'
<1>1. /\ work # <<>> /\ Head(work).op # "terminated" /\ Do(<<>>)
      /\ Head(work).op = "dropPane" \/ UNCHANGED <<tables, cmds, evts>>
  BY DEF RemoveReleasedPane, DropPane, Applying
<1>2. Matched(p) /\ UNCHANGED evts
  <2>1. CASE UNCHANGED <<tables, cmds, evts>>
    BY <2>1, NothingSent DEF tables
  <2>2. CASE DropPane
    <3>1. Head(work).slot \in Slots /\ ReleaseChild(Head(work).slot)
      BY <1>1, <2>2, HeadOfAgenda DEF DropPane, Applying, Slots
    <3>2. UNCHANGED evts
      BY <3>1 DEF ReleaseChild
    <3>3. QED
      BY <3>1, <3>2, ReleaseMatched
  <2>3. QED
    BY <2>1, <2>2 DEF RemoveReleasedPane
<1>3. QED
  BY <1>1, <1>2, AppliedBalanced

\* A request, once its stops and commands match.
LEMMA RequestBalanced ==
  ASSUME TypeOK, TypeOK', NEW p \in Int, Balanced(p), Matched(p),
         work = <<>>, work' \in Seq(TodoRecord), UNCHANGED evts
  PROVE  Balanced(p)'
<1>1. Count(work', Answers(p)) = Count(work, Answers(p))
  BY AgendaStartsQuiet
<1>2. QED
  BY <1>1, StaysBalanced

LEMMA MainRequestsBalanced ==
  ASSUME TypeOK, TypeOK', NEW p \in Int, Balanced(p),
         (\E i \in Specs : SelectMainApp(i)) \/ ResetRuntime
  PROVE  Balanced(p)'
<1>1. work = <<>> /\ TerminateMain
  BY DEF SelectMainApp, ResetRuntime, Request
<1>2. Matched(p)
  BY <1>1, TerminateMainMatched
<1>3. UNCHANGED evts
  BY <1>1 DEF TerminateMain, ReleaseChild
<1>4. work' \in Seq(TodoRecord)
  <2>1. work' = <<Launch(Main), Poll>> \/ work' = <<Poll>>
    BY DEF SelectMainApp, ResetRuntime
  <2>2. QED
    BY <2>1, TodoItems DEF Slots
<1>5. QED
  BY <1>1, <1>2, <1>3, <1>4, RequestBalanced

LEMMA QuietRequestsBalanced ==
  ASSUME TypeOK, TypeOK', NEW p \in Int, Balanced(p),
         \/ RuntimeRunning \/ OpenShell \/ PollRequest
         \/ \E q \in Panes : LaunchNativePaneHost(q)
  PROVE  Balanced(p)'
<1>1. work = <<>> /\ UNCHANGED <<stops, cmds, evts>>
  BY DEF RuntimeRunning, OpenShell, PollRequest, LaunchNativePaneHost, Request,
         tables
<1>2. work' \in Seq(TodoRecord)
  <2>1. work' = <<Poll>> \/ \E s \in Slots : work' = <<Launch(s)>>
    BY DEF RuntimeRunning, OpenShell, PollRequest, LaunchNativePaneHost, Slots
  <2>2. QED
    BY <2>1, TodoItems
<1>3. Matched(p)
  BY <1>1, NothingSent
<1>4. QED
  BY <1>1, <1>2, <1>3, RequestBalanced

LEMMA DismissShellBalanced ==
  ASSUME TypeOK, TypeOK', NEW p \in Int, Balanced(p), DismissShell
  PROVE  Balanced(p)'
<1>1. work = <<>> /\ ReleaseChild(Shell) /\ work' = <<Poll>> /\ Shell \in Slots
  BY DEF DismissShell, Request, Slots
<1>2. Matched(p) /\ UNCHANGED evts
  <2>1. UNCHANGED evts
    BY <1>1 DEF ReleaseChild
  <2>2. QED
    BY <1>1, <2>1, ReleaseMatched
<1>3. work' \in Seq(TodoRecord)
  BY <1>1, TodoItems
<1>4. QED
  BY <1>1, <1>2, <1>3, RequestBalanced

LEMMA HostPlanBalanced ==
  ASSUME TypeOK, TypeOK', NEW p \in Int, Balanced(p),
         NEW q \in Panes, NEW spec \in Specs, NEW rev \in Nat,
         NativePaneHost(q, spec, rev) \/ NativePaneUpdate(q, spec, rev)
  PROVE  Balanced(p)'
<1>1. /\ work = <<>> /\ HostPlan(q, spec, rev) /\ q \in Slots
      /\ work' = <<Poll, Launch(q)>> \/ work' = <<Poll>>
  BY DEF NativePaneHost, NativePaneUpdate, Request, Slots
<1>2. ReleaseChild(q) \/ UNCHANGED <<tables, cmds, evts>>
  BY <1>1 DEF HostPlan
<1>3. Matched(p) /\ UNCHANGED evts
  <2>1. CASE UNCHANGED <<tables, cmds, evts>>
    BY <2>1, NothingSent DEF tables
  <2>2. CASE ReleaseChild(q)
    <3>1. UNCHANGED evts
      BY <2>2 DEF ReleaseChild
    <3>2. QED
      BY <1>1, <2>2, <3>1, ReleaseMatched
  <2>3. QED
    BY <1>2, <2>1, <2>2
<1>4. work' \in Seq(TodoRecord)
  BY <1>1, TodoItems
<1>5. QED
  BY <1>1, <1>3, <1>4, RequestBalanced

LEMMA SwitchBalanced ==
  ASSUME TypeOK, TypeOK', NEW p \in Int, Balanced(p), NEW q \in Panes,
         \/ NativePaneRelease(q) \/ SwitchToSurfAce(q)
         \/ \E spec \in Specs : SwitchToExternal(q, spec)
  PROVE  Balanced(p)'
<1>1. CASE NativePaneRelease(q) \/ SwitchToSurfAce(q)
  <2>1. /\ work = <<>> /\ ReleaseChild(q) /\ q \in Slots
        /\ work' = <<Poll, Todo("removePane", q)>> \/ work' = <<Poll>>
    BY <1>1 DEF NativePaneRelease, SwitchToSurfAce, ToSurfAce, Request, Slots
  <2>2. UNCHANGED evts
    BY <2>1 DEF ReleaseChild
  <2>3. Matched(p)
    BY <2>1, ReleaseMatched
  <2>4. work' \in Seq(TodoRecord)
    BY <2>1, TodoItems
  <2>5. QED
    BY <2>1, <2>2, <2>3, <2>4, RequestBalanced
<1>2. CASE \E spec \in Specs : SwitchToExternal(q, spec)
  <2>1. PICK sl : work = <<>> /\ Spawn(q, sl, <<>>)
    BY <1>2 DEF SwitchToExternal, Request
  <2>2. Matched(p) /\ UNCHANGED evts
    BY <2>1, SpawnSends
  <2>3. work' = <<Poll>> \o <<>> /\ <<Poll>> \in Seq(TodoRecord)
    BY <2>1, TodoItems DEF Spawn
  <2>4. work' \in Seq(TodoRecord)
    BY <2>3, ConcatEmptySeq
  <2>5. QED
    BY <2>1, <2>2, <2>4, RequestBalanced
<1>3. QED
  BY <1>1, <1>2

LEMMA SnapshotBalanced ==
  ASSUME ConstantsAssumption, TypeOK, TypeOK', NEW p \in Int, Balanced(p),
         NEW incoming \in SUBSET Panes, ApplyProviderSnapshot(incoming)
  PROVE  Balanced(p)'
<1> DEFINE old == panes \ incoming
<1>1. PICK order \in SetToSeqs(old) :
        work' = [i \in DOMAIN order |-> Todo("dropPane", order[i])] \o <<Poll>>
  BY DEF ApplyProviderSnapshot
<1>2. IsFiniteSet(old) /\ old \subseteq Panes
  BY FS_Subset DEF ConstantsAssumption, TypeOK
<1>3. Cardinality(old) \in Nat /\ order \in [1..Cardinality(old) -> old]
  BY <1>2, FS_CardinalityType DEF SetToSeqs
<1>4. [i \in DOMAIN order |-> Todo("dropPane", order[i])] \in Seq(TodoRecord)
  <2>1. DOMAIN order = 1..Cardinality(old)
    BY <1>3
  <2>2. \A i \in 1..Cardinality(old) : Todo("dropPane", order[i]) \in TodoRecord
    BY <1>2, <1>3, TodoItems
  <2> HIDE DEF old
  <2>3. QED
    BY <1>3, <2>1, <2>2, IsASeq
<1>5. work' \in Seq(TodoRecord)
  <2>1. <<Poll>> \in Seq(TodoRecord)
    BY TodoItems
  <2>2. QED
    BY <1>1, <1>4, <2>1, ConcatProperties
<1>6. work = <<>> /\ UNCHANGED <<stops, cmds, evts>>
  BY DEF ApplyProviderSnapshot, Request, tables
<1>7. Matched(p)
  BY <1>6, NothingSent
<1>8. QED
  BY <1>5, <1>6, <1>7, RequestBalanced

\* Nothing is asked, told or stopped.
LEMMA ElsewhereBalanced ==
  ASSUME NEW p \in Int, Balanced(p), UNCHANGED <<stops, cmds, evts, work>>
  PROVE  Balanced(p)'
BY DEF Balanced, StopsFor

\* The worker takes a command and answers it.
LEMMA WorkerAnswers ==
  ASSUME TypeOK, TypeOK', NEW p \in Int, Balanced(p), cmds # <<>>,
         cmds' = Tail(cmds), NEW e \in EvtRecord, evts' = Append(evts, e),
         Head(cmds) \in Asking(p) <=> e \in Answers(p),
         UNCHANGED <<stops, work>>
  PROVE  Balanced(p)'
<1> DEFINE c == IF Head(cmds) \in Asking(p) THEN 1 ELSE 0
<1>1. cmds \in Seq(CmdRecord) /\ evts \in Seq(EvtRecord)
  BY DEF TypeOK
<1>2. Count(cmds, Asking(p)) = Count(Tail(cmds), Asking(p)) + c
  BY <1>1, CountTail
<1>3. Count(Append(evts, e), Answers(p)) =
        IF e \in Answers(p) THEN Count(evts, Answers(p)) + 1
                            ELSE Count(evts, Answers(p))
  BY <1>1, CountAppend
<1>4. /\ Tail(cmds) \in Seq(CmdRecord)
      /\ Count(Tail(cmds), Asking(p)) \in Nat /\ Count(evts, Answers(p)) \in Nat
      /\ Count(work, Answers(p)) \in Nat /\ c \in {0, 1}
      /\ Cardinality(StopsFor(p)) \in Nat
  <2>1. Tail(cmds) \in Seq(CmdRecord)
    BY <1>1, HeadTailProperties
  <2>2. QED
    BY <2>1, CountType, BalanceTypes DEF Balanced
<1>5. Count(Append(evts, e), Answers(p)) = Count(evts, Answers(p)) + c
  BY <1>3, <1>4
<1> HIDE DEF c
<1>6. Count(Tail(cmds), Asking(p)) + Count(Append(evts, e), Answers(p))
        + Count(work, Answers(p)) = Cardinality(StopsFor(p))
  BY <1>2, <1>4, <1>5 DEF Balanced
<1>7. QED
  BY <1>6, Zenon DEF Balanced, StopsFor

LEMMA WorkerBalanced ==
  ASSUME TypeOK, TypeOK', NEW p \in Int, Balanced(p),
         WorkerSpawn \/ WorkerTerminate \/ WorkerTerminateUnconfirmed
  PROVE  Balanced(p)'
<1>1. /\ cmds # <<>> /\ cmds' = Tail(cmds) /\ UNCHANGED <<stops, work>>
  BY DEF WorkerSpawn, WorkerTerminate, WorkerTerminateUnconfirmed, NextCmd,
         tables
<1>2. Head(cmds) \in CmdRecord
  BY <1>1, HeadTailProperties DEF TypeOK
<1>3. PICK e \in EvtRecord :
        /\ evts' = Append(evts, e)
        /\ e.id = Head(cmds).id
        /\ e.op = "terminated" <=> Head(cmds).op = "terminate"
  <2>1. \A op \in EvtOps, id \in Int, ok \in BOOLEAN :
          /\ Evt(op, id, ok) \in EvtRecord /\ Evt(op, id, ok).op = op
          /\ Evt(op, id, ok).id = id
    BY DEF Evt, EvtRecord
  <2>2. Head(cmds).id \in Int
    BY <1>2 DEF CmdRecord
  <2>3. CASE WorkerSpawn
    <3>1. PICK outcome \in Outcomes :
            evts' = Append(evts, Evt(outcome, Head(cmds).id, TRUE))
      BY <2>3 DEF WorkerSpawn
    <3>2. outcome \in EvtOps /\ outcome # "terminated"
      BY ConstantsAssumption DEF ConstantsAssumption, EvtOps
    <3>3. Head(cmds).op = "spawn"
      BY <2>3 DEF WorkerSpawn, NextCmd
    <3>4. /\ Evt(outcome, Head(cmds).id, TRUE) \in EvtRecord
          /\ Evt(outcome, Head(cmds).id, TRUE).op # "terminated"
          /\ Evt(outcome, Head(cmds).id, TRUE).id = Head(cmds).id
      BY <2>2, <3>2 DEF Evt, EvtRecord
    <3>5. Head(cmds).op # "terminate"
      BY <3>3
    <3>6. QED
      BY <3>1, <3>4, <3>5, Zenon
  <2>4. CASE WorkerTerminate
    <3>1. PICK known \in BOOLEAN :
            evts' = Append(evts, Evt("terminated", Head(cmds).id, known))
      BY <2>4 DEF WorkerTerminate
    <3>2. Head(cmds).op = "terminate" /\ "terminated" \in EvtOps
      BY <2>4 DEF WorkerTerminate, NextCmd, EvtOps
    <3>3. QED
      BY <2>1, <2>2, <3>1, <3>2
  <2>5. CASE WorkerTerminateUnconfirmed
    <3>1. PICK known \in BOOLEAN :
            evts' = Append(evts, Evt("terminatedUnconfirmed", Head(cmds).id, known))
      BY <2>5 DEF WorkerTerminateUnconfirmed
    <3>2. /\ Head(cmds).op = "terminateUnconfirmed"
          /\ "terminatedUnconfirmed" \in EvtOps
      BY <2>5 DEF WorkerTerminateUnconfirmed, NextCmd, EvtOps
    <3>3. QED
      BY <2>1, <2>2, <3>1, <3>2
  <2>6. QED
    BY <2>3, <2>4, <2>5
<1>4. Head(cmds) \in Asking(p) <=> Head(cmds).op = "terminate" /\ Head(cmds).id = p
  BY <1>2 DEF Asking, Cmd, CmdRecord
<1>5. e \in Answers(p) <=> e.op = "terminated" /\ e.id = p
  BY DEF Answers, WorkRecord
<1>6. QED
  BY <1>1, <1>3, <1>4, <1>5, WorkerAnswers

\* An exit is told unasked, and is no answer.
LEMMA ReapBalanced ==
  ASSUME TypeOK, TypeOK', NEW p \in Int, Balanced(p), NEW r \in DOMAIN app,
         \/ ReapStarted(r) \/ ReapReported(r) \/ ReapUnconfirmed(r) \/ AppExits(r)
  PROVE  Balanced(p)'
<1>1. UNCHANGED <<stops, cmds, work>>
  BY DEF ReapStarted, ReapReported, ReapUnconfirmed, AppExits, tables
<1>2. CASE UNCHANGED evts
  BY <1>1, <1>2, ElsewhereBalanced
<1>3. CASE ReapStarted(r) \/ ReapUnconfirmed(r)
  <2>1. PICK op \in {"exited", "unconfirmedExited"} :
          evts' = Append(evts, Evt(op, r, TRUE))
    BY <1>3 DEF ReapStarted, ReapUnconfirmed
  <2>2. r \in Int /\ evts \in Seq(EvtRecord)
    BY LenProperties DEF TypeOK
  <2>3. Evt(op, r, TRUE) \in EvtRecord /\ Evt(op, r, TRUE) \notin Answers(p)
    BY <2>2 DEF Evt, EvtRecord, EvtOps, Answers
  <2>4. Count(Append(evts, Evt(op, r, TRUE)), Answers(p)) = Count(evts, Answers(p))
    BY <2>2, <2>3, CountAppend, ZenonT(60)
  <2>5. Count(evts', Answers(p)) = Count(evts, Answers(p))
    BY <2>1, <2>4, Zenon
  <2>6. QED
    BY <1>1, <2>5, NothingSent, StaysBalanced
<1>4. QED
  BY <1>2, <1>3 DEF ReapReported, AppExits

LEMMA InitAwaited == ASSUME Init PROVE Awaited
<1> SUFFICES ASSUME NEW p \in Int PROVE Balanced(p)
  BY DEF Awaited
<1>1. StopsFor(p) = {} /\ cmds = <<>> /\ evts = <<>> /\ work = <<>>
  BY DEF Init, StopsFor
<1>2. \A E : Count(<<>>, E) = 0
  BY CountNone
<1>3. QED
  BY <1>1, <1>2, FS_EmptySet DEF Balanced

LEMMA NextAwaited ==
  ASSUME ConstantsAssumption, TypeOK, TypeOK', Awaited, [Next]_vars
  PROVE  Awaited'
<1> SUFFICES ASSUME NEW p \in Int PROVE Balanced(p)'
  BY DEF Awaited
<1>0. Balanced(p)
  BY DEF Awaited
<1>1. CASE Step
  BY <1>0, <1>1, SpawnStartedBalanced, AnswersBalanced, TerminatedBalanced,
     PollProcessesBalanced, LaunchSlotBalanced, PaneRemovalBalanced DEF Step
<1>2. CASE RequestStep
  <2>1. CASE (\E i \in Specs : SelectMainApp(i)) \/ ResetRuntime
    BY <1>0, <2>1, MainRequestsBalanced
  <2>2. CASE \/ RuntimeRunning \/ OpenShell
             \/ \E q \in Panes : LaunchNativePaneHost(q)
    BY <1>0, <2>2, QuietRequestsBalanced
  <2>3. CASE DismissShell
    BY <1>0, <2>3, DismissShellBalanced
  <2>4. CASE \E q \in Panes, spec \in Specs, rev \in 0..MaxRevision :
               NativePaneHost(q, spec, rev) \/ NativePaneUpdate(q, spec, rev)
    BY <1>0, <2>4, HostPlanBalanced DEF ConstantsAssumption
  <2>5. CASE \E q \in Panes : \/ NativePaneRelease(q) \/ SwitchToSurfAce(q)
                              \/ \E spec \in Specs : SwitchToExternal(q, spec)
    BY <1>0, <2>5, SwitchBalanced
  <2>6. CASE \E incoming \in SUBSET Panes : ApplyProviderSnapshot(incoming)
    BY <1>0, <2>6, SnapshotBalanced
  <2>7. CASE \E r \in DOMAIN app : RecoverOverlay(r)
    BY <1>0, <2>7, ElsewhereBalanced DEF RecoverOverlay, tables
  <2>8. QED
    BY <1>2, <2>1, <2>2, <2>3, <2>4, <2>5, <2>6, <2>7 DEF RequestStep
<1>3. CASE Window
  BY <1>0, <1>3, ElsewhereBalanced DEF Window, Attach, Detach, tables
<1>4. CASE Worker \/ \E r \in DOMAIN app : AppExits(r)
  BY <1>0, <1>4, WorkerBalanced, ReapBalanced DEF Worker
<1>5. CASE PollRequest
  BY <1>0, <1>5, QuietRequestsBalanced
<1>6. CASE UNCHANGED vars
  BY <1>0, <1>6, ElsewhereBalanced DEF vars, tables
<1>7. QED
  BY <1>1, <1>2, <1>3, <1>4, <1>5, <1>6 DEF Next

(* Every answer to a termination meets the stop that asked for it, whatever *)
(* the panes and however long the run: for every pid, the commands still to *)
(* be taken and the answers still to be applied are together as many as its *)
(* stops, which are never more than one (request_process_termination,       *)
(* record_process_termination_failure).                                     *)
THEOREM EveryAnswerIsAwaited == Spec => []AnswersAreAwaited
<1>1. Init => TypeOK /\ Awaited
  BY InitType, InitAwaited
<1>2. TypeOK /\ Awaited /\ [Next]_vars => TypeOK' /\ Awaited'
  BY ConstantsAssumption, NextType, NextAwaited
<1>3. TypeOK /\ Awaited => AnswersAreAwaited
  <2> SUFFICES ASSUME TypeOK, Awaited,
                      NEW p \in {cmds[i].id : i \in DOMAIN cmds}
                                \cup {x.id : x \in stops}
                                \cup {evts[i].id : i \in DOMAIN evts}
                                \cup {work[i].id : i \in DOMAIN work}
               PROVE  LET asked(id) == {i \in DOMAIN cmds :
                                          cmds[i] = Cmd("terminate", id)}
                          told(q, id) == {i \in DOMAIN q :
                                            q[i].op = "terminated" /\ q[i].id = id}
                      IN  Cardinality(asked(p)) + Cardinality(told(evts, p))
                            + Cardinality(told(work, p))
                              = Cardinality({x \in stops : x.id = p})
    BY DEF AnswersAreAwaited
  <2>1. /\ \A i \in DOMAIN cmds : cmds[i] \in CmdRecord
        /\ \A i \in DOMAIN evts : evts[i] \in EvtRecord
        /\ \A i \in DOMAIN work : work[i] \in WorkRecord
    BY LenProperties DEF TypeOK
  <2>2. p \in Int
    <3>1. \A e \in TodoRecord : e.id \in Int
      <4> SUFFICES ASSUME NEW e \in TodoRecord PROVE e.id = 0
        OBVIOUS
      <4>1. QED
        BY Zenon DEF TodoRecord
    <3>2. /\ \A c \in CmdRecord : c.id \in Int
          /\ \A e \in EvtRecord : e.id \in Int
          /\ \A x \in stops : x.id \in Int
      BY DEF TypeOK, Stop, CmdRecord, EvtRecord
    <3>3. QED
      BY <2>1, <3>1, <3>2 DEF WorkRecord
  <2>3. Hits(cmds, Asking(p)) = {i \in DOMAIN cmds : cmds[i] = Cmd("terminate", p)}
    BY DEF Hits, Asking
  <2>4. /\ Hits(evts, Answers(p)) =
             {i \in DOMAIN evts : evts[i].op = "terminated" /\ evts[i].id = p}
        /\ Hits(work, Answers(p)) =
             {i \in DOMAIN work : work[i].op = "terminated" /\ work[i].id = p}
    BY <2>1 DEF Hits, Answers, WorkRecord
  <2>5. Balanced(p)
    BY <2>2 DEF Awaited
  <2>6. QED
    BY <2>3, <2>4, <2>5 DEF Balanced, Count, StopsFor
<1>4. QED
  BY <1>1, <1>2, <1>3, PTL DEF Spec

-----------------------------------------------------------------------------
(* Children: no program is lost                                             *)

\* The worker has taken the command to start p, and p runs no more.
Begun(p) == p \in DOMAIN app /\ app[p] # "queued"
Ended(p) == p \in DOMAIN app /\ app[p] \notin {"queued", "tracked"}

\* A program is started once, and stopped only after that.
CmdTrue(queue, i) ==
  /\ queue[i].op = "spawn" =>
       /\ queue[i].id \in DOMAIN app /\ app[queue[i].id] = "queued"
       /\ \A j \in DOMAIN queue :
            queue[j].op = "spawn" /\ queue[j].id = queue[i].id => j = i
  /\ queue[i].op = "terminate" => Begun(queue[i].id)
CmdsTrue == \A i \in DOMAIN cmds : CmdTrue(cmds, i)

\* What the worker said is so.
EventTrue(e) ==
  /\ e.op = "started" => Begun(e.id)
  /\ e.op \in {"terminated", "exited"} => Ended(e.id)
EventsTrue == /\ \A i \in DOMAIN evts : EventTrue(evts[i])
              /\ \A i \in DOMAIN work : EventTrue(work[i])

\* Stops name programs that were begun, and their slots.
StopsOwned ==
  /\ \A x \in stops : Begun(x.id) /\ x.slot = launch[x.id].slot
  /\ \A x \in ustops :
       /\ x.id \in DOMAIN launch /\ x.id \notin pending
       /\ x.slot = launch[x.id].slot
       /\ x.kind = "stale" => x.slot # Main /\ x.id \notin unconfirmed
       /\ x.kind = "slot" => x.slot = Main /\ slot[Main].ureq \in {0, x.id}

\* A main app nobody asked for does not run.
MainWanted == slot[Main].want = None => slot[Main].st \notin Live

\* Program p is being stopped, or does not run in the worker's care.
Handled(p) == p # 0 /\ app[p] = "tracked" => \E x \in stops : x.id = p

\* The agenda holds the launch of the shell, or the removal of pane s.
Retiring(s) ==
  \E i \in DOMAIN work : \/ work[i].op = "removePane" /\ work[i].slot = s
                         \/ s = Shell /\ work[i] = Launch(s)

\* Slot s waits for the end of one launch, or for its own.
Taken(s) == slot[s].idx # 0 \/ Stopping(s) \/ Retiring(s)

\* A program of slot s is on its way out.
Ending(s) == \/ \E x \in stops : x.slot = s
             \/ \E x \in ustops : x.slot = s /\ s # Main
             \/ \E r \in cancelled : launch[r].slot = s

PidOwned(s) == slot[s].pid # 0 => /\ Begun(slot[s].pid)
                                  /\ launch[slot[s].pid].slot = s
TakenIsHandled(s) == Taken(s) => Handled(RunningPid(s))
StoppingIsIdle(s) == Stopping(s) => slot[s].idx = 0
UnconfirmedIsAlone(s) ==
  slot[s].ureq # 0 => slot[s].idx = 0 /\ ~Retiring(s) /\ ~Ending(s)
UnconfirmedIsNamed(s) ==
  /\ slot[s].ureq # 0 => /\ slot[s].ureq \in unconfirmed
                         /\ launch[slot[s].ureq].slot = s
                         /\ slot[s].st \in Live /\ slot[s].pid = 0
  /\ \A r \in unconfirmed : launch[r].slot = s => slot[s].ureq = r
KnowsProgram(s) ==
  \A r \in DOMAIN app :
    app[r] = "tracked" /\ launch[r].slot = s /\ ~Undelivered("started", r) =>
      RunningPid(s) = r \/ Handled(r)

\* What a slot knows of its programs.
ProgramsKnown(s) == PidOwned(s) /\ TakenIsHandled(s) /\ KnowsProgram(s)
StartsKnown(s) ==
  StoppingIsIdle(s) /\ UnconfirmedIsAlone(s) /\ UnconfirmedIsNamed(s)

Kept == /\ CmdsTrue /\ EventsTrue /\ StopsOwned /\ MainWanted
        /\ \A s \in Slots : ProgramsKnown(s) /\ StartsKnown(s)

LEMMA KeptLosesNothing ==
  ASSUME TypeOK, Kept
  PROVE  NothingIsLost
<1>1. /\ DOMAIN app = DOMAIN launch
      /\ \A r \in DOMAIN launch : launch[r].slot \in Slots /\ r \in Nat \ {0}
  BY LaunchedType, LenProperties DEF TypeOK
<1>2. NoOrphan
  <2> SUFFICES ASSUME NEW r \in DOMAIN app, app[r] = "tracked",
                      ~Undelivered("started", r)
               PROVE  \/ RunningPid(launch[r].slot) = r
                      \/ \E x \in stops : x.id = r
    BY DEF NoOrphan
  <2>1. RunningPid(launch[r].slot) = r \/ Handled(r)
    BY <1>1 DEF Kept, ProgramsKnown, KnowsProgram
  <2>2. QED
    BY <1>1, <2>1 DEF Handled
<1>3. UnconfirmedIndexExact
  BY <1>1 DEF Kept, StartsKnown, UnconfirmedIsNamed, UnconfirmedIndexExact, TypeOK
<1>4. QED
  BY <1>2, <1>3 DEF NothingIsLost

-----------------------------------------------------------------------------
(* What a step of the mutex holder leaves as it is                          *)

\* The request log grows by launches the worker has still to be told of.
Grows ==
  /\ \A r \in DOMAIN launch : /\ r \in DOMAIN launch'
                              /\ launch'[r] = launch[r] /\ app'[r] = app[r]
  /\ \A r \in DOMAIN launch' : r \in DOMAIN launch \/ app'[r] = "queued"

LEMMA Unchanged ==
  ASSUME UNCHANGED <<launch, app>>
  PROVE  Grows
BY DEF Grows

LEMMA Logged ==
  ASSUME TypeOK
  PROVE  /\ DOMAIN app = DOMAIN launch
         /\ \A r \in DOMAIN launch : launch[r].slot \in Slots /\ r \in Nat \ {0}
BY LaunchedType, LenProperties DEF TypeOK

LEMMA BegunGrows ==
  ASSUME TypeOK, TypeOK', Grows
  PROVE  /\ \A p : Begun(p) => Begun(p)'
         /\ \A p : Ended(p) => Ended(p)'
         /\ DOMAIN app = DOMAIN launch /\ DOMAIN app' = DOMAIN launch'
         /\ \A r \in DOMAIN launch : launch[r].slot \in Slots /\ r \in Nat \ {0}
         /\ \A r \in DOMAIN launch' : launch'[r].slot \in Slots /\ r \in Nat \ {0}
<1>1. /\ DOMAIN app = DOMAIN launch
      /\ \A r \in DOMAIN launch : launch[r].slot \in Slots /\ r \in Nat \ {0}
  BY Logged
<1>2. /\ DOMAIN app' = DOMAIN launch'
      /\ \A r \in DOMAIN launch' : launch'[r].slot \in Slots /\ r \in Nat \ {0}
  <2>1. \A r \in DOMAIN launch' : launch'[r] \in Launched /\ r \in Nat \ {0}
    BY ElementOfSeq, LenProperties DEF TypeOK
  <2>2. QED
    BY <2>1, LenProperties DEF TypeOK, Launched
<1>3. QED
  BY <1>1, <1>2 DEF Begun, Ended, Grows

\* Stops are taken off the table when the program has ended, and no start
\* but that of q is delivered.
Careful(q) ==
  /\ Grows
  /\ \A x \in stops : x \in stops' \/ Ended(x.id)
  /\ \A r : Undelivered("started", r) /\ r # q => Undelivered("started", r)'

\* Program p is handled after the step.
HandledNext(p) == p # 0 /\ app'[p] = "tracked" => \E x \in stops' : x.id = p

\* A program that was handled still is.
LEMMA HandledStays ==
  ASSUME TypeOK, TypeOK', NEW q, Careful(q),
         NEW p \in DOMAIN launch \cup {0}, Handled(p)
  PROVE  HandledNext(p)
BY BegunGrows DEF Careful, Handled, HandledNext, Ended, Grows

\* The program a slot runs is in the log.
LEMMA RunningLogged ==
  ASSUME TypeOK, NEW s \in Slots, PidOwned(s)
  PROVE  /\ RunningPid(s) \in DOMAIN launch \cup {0}
         /\ RunningPid(s) # 0 => RunningPid(s) = slot[s].pid
BY Logged DEF PidOwned, RunningPid, Begun

\* The programs of a slot that keeps its program, or gives up one that is
\* handled, and that waits for something new only when what it runs is.
LEMMA ProgramStep ==
  ASSUME TypeOK, TypeOK', NEW q, Careful(q), NEW s \in Slots, ProgramsKnown(s),
         q \in DOMAIN launch /\ launch[q].slot = s =>
           RunningPid(s)' = q \/ HandledNext(q),
         \/ slot'[s].pid \in {0, slot[s].pid}
         \/ Begun(slot'[s].pid) /\ launch[slot'[s].pid].slot = s,
         \/ RunningPid(s)' = RunningPid(s)
         \/ Handled(RunningPid(s)) \/ HandledNext(RunningPid(s)),
         Taken(s)' => \/ HandledNext(RunningPid(s)')
                      \/ RunningPid(s)' = RunningPid(s) /\ Taken(s)
                      \/ RunningPid(s)' = RunningPid(s) /\ Handled(RunningPid(s))
  PROVE  ProgramsKnown(s)'
<1>1. RunningPid(s) \in DOMAIN launch \cup {0}
  BY RunningLogged DEF ProgramsKnown
<1>2. Handled(RunningPid(s)) => HandledNext(RunningPid(s))
  BY <1>1, HandledStays
<1>3. PidOwned(s)'
  BY BegunGrows DEF ProgramsKnown, PidOwned, Careful, Grows, Begun
<1>4. TakenIsHandled(s)'
  <2>1. Taken(s)' => HandledNext(RunningPid(s)')
    BY <1>2 DEF ProgramsKnown, TakenIsHandled
  <2>2. QED
    BY <2>1 DEF TakenIsHandled, HandledNext, Handled
<1>5. KnowsProgram(s)'
  <2> SUFFICES ASSUME NEW r \in DOMAIN app', app'[r] = "tracked",
                      launch'[r].slot = s, ~Undelivered("started", r)'
               PROVE  RunningPid(s)' = r \/ HandledNext(r)
    BY DEF KnowsProgram, HandledNext, Handled
  <2>1. /\ r \in DOMAIN launch /\ r \in DOMAIN app /\ app[r] = "tracked"
        /\ launch[r].slot = s
    BY BegunGrows DEF Careful, Grows
  <2>2. CASE r = q
    BY <2>1, <2>2
  <2>3. CASE r # q
    <3>1. RunningPid(s) = r \/ Handled(r)
      BY <2>1, <2>3 DEF ProgramsKnown, KnowsProgram, Careful
    <3>2. Handled(r) => HandledNext(r)
      BY <2>1, HandledStays
    <3>3. RunningPid(s) = r => RunningPid(s)' = r \/ HandledNext(r)
      BY <1>2
    <3>4. QED
      BY <3>1, <3>2, <3>3
  <2>4. QED
    BY <2>2, <2>3
<1>6. QED
  BY <1>3, <1>4, <1>5 DEF ProgramsKnown

\* No stop and no cancellation of slot s is new.
StopsQuiet(s) ==
  /\ \A x \in stops'  : x.slot = s => x \in stops
  /\ \A x \in ustops' : x.slot = s => x \in ustops
  /\ \A r \in cancelled' : launch'[r].slot = s => r \in cancelled

LEMMA QuietStops ==
  ASSUME TypeOK, TypeOK', Grows, NEW s \in Slots, StopsQuiet(s)
  PROVE  /\ Stopping(s)' => Stopping(s)
         /\ Ending(s)' => Ending(s)
<1>1. \A r \in cancelled' : launch'[r].slot = s =>
        r \in cancelled /\ launch[r].slot = s
  BY DEF StopsQuiet, Grows, TypeOK
<1>2. QED
  BY <1>1 DEF StopsQuiet, Stopping, Ending

\* The unconfirmed launches of slot s stay what they are.
UnconfirmedQuiet(s) ==
  \A r \in DOMAIN launch' : launch'[r].slot = s =>
    (r \in unconfirmed' <=> r \in unconfirmed)

\* A slot the step does not touch, and of which it begins nothing.
LEMMA SlotUntouched ==
  ASSUME TypeOK, TypeOK', NEW q, Careful(q), NEW s \in Slots,
         ProgramsKnown(s), StartsKnown(s), StopsQuiet(s), UnconfirmedQuiet(s),
         q \in DOMAIN launch /\ launch[q].slot = s => HandledNext(q),
         slot'[s].pid = slot[s].pid, slot'[s].st = slot[s].st,
         slot'[s].idx = slot[s].idx, slot'[s].ureq = slot[s].ureq,
         Retiring(s)' => Retiring(s)
  PROVE  ProgramsKnown(s)' /\ StartsKnown(s)'
<1>1. RunningPid(s)' = RunningPid(s)
  BY DEF RunningPid
<1>2. /\ Stopping(s)' => Stopping(s)
      /\ Ending(s)' => Ending(s)
  BY QuietStops DEF Careful
<1>3. Taken(s)' => Taken(s)
  BY <1>2 DEF Taken
<1>4. ProgramsKnown(s)'
  BY <1>1, <1>3, ProgramStep
<1>5. StoppingIsIdle(s)' /\ UnconfirmedIsAlone(s)'
  BY <1>2 DEF StartsKnown, StoppingIsIdle, UnconfirmedIsAlone
<1>6. UnconfirmedIsNamed(s)'
  <2>1. /\ \A r \in unconfirmed' : r \in DOMAIN launch'
        /\ \A r \in unconfirmed : /\ r \in DOMAIN launch'
                                  /\ launch'[r] = launch[r] /\ r # 0
    BY BegunGrows DEF TypeOK, Careful, Grows
  <2>2. QED
    BY <2>1 DEF StartsKnown, UnconfirmedIsNamed, UnconfirmedQuiet
<1>7. QED
  BY <1>4, <1>5, <1>6 DEF StartsKnown

-----------------------------------------------------------------------------
(* Commands and stops                                                       *)

Clean(queue) == \A i \in DOMAIN queue : CmdTrue(queue, i)

\* A command that may be sent.
LEMMA CleanAppend ==
  ASSUME NEW queue \in Seq(CmdRecord), Clean(queue), NEW c \in CmdRecord,
         c.op = "spawn" =>
           /\ c.id \in DOMAIN app /\ app[c.id] = "queued"
           /\ \A j \in DOMAIN queue : queue[j].op = "spawn" => queue[j].id # c.id,
         c.op = "terminate" => Begun(c.id)
  PROVE  Append(queue, c) \in Seq(CmdRecord) /\ Clean(Append(queue, c))
<1> DEFINE next == Append(queue, c)
<1>1. /\ next \in Seq(CmdRecord) /\ DOMAIN next = 1..(Len(queue) + 1)
      /\ DOMAIN queue = 1..Len(queue) /\ Len(queue) \in Nat
      /\ next[Len(queue) + 1] = c
      /\ \A i \in DOMAIN queue : next[i] = queue[i]
  BY AppendProperties, LenProperties
<1> HIDE DEF next
<1>2. ASSUME NEW i \in DOMAIN next PROVE CmdTrue(next, i)
  <2>1. CASE i \in DOMAIN queue
    BY <1>1, <2>1 DEF Clean, CmdTrue
  <2>2. CASE i = Len(queue) + 1
    BY <1>1, <2>2 DEF CmdTrue
  <2>3. QED
    BY <1>1, <1>2, <2>1, <2>2
<1>3. QED
  BY <1>1, <1>2 DEF Clean, next

\* What was clean before the log grew is clean after it.
LEMMA CleanStays ==
  ASSUME TypeOK, TypeOK', Grows, Clean(cmds')
  PROVE  CmdsTrue'
<1>1. \A p : p \in DOMAIN app => p \in DOMAIN app' /\ app'[p] = app[p]
  BY BegunGrows DEF Grows
<1>2. \A i \in DOMAIN cmds' : CmdTrue(cmds, i)'
  BY <1>1 DEF Clean, CmdTrue, Begun
<1>3. QED
  BY <1>2 DEF CmdsTrue

\* Asking for the termination of a program that was begun.
LEMMA TerminateOwned ==
  ASSUME NEW pid \in Int, NEW kind, NEW s, NEW queue \in Seq(CmdRecord),
         Clean(queue), pid # 0 => Begun(pid), Terminate(pid, kind, s, queue)
  PROVE  /\ Clean(cmds') /\ stops \subseteq stops'
         /\ \A x \in stops' : x \in stops \/ (x.id = pid /\ pid # 0 /\ x.slot = s)
         /\ pid # 0 => \E x \in stops' : x.id = pid
<1>1. CASE pid = 0 \/ \E x \in stops : x.id = pid
  <2>1. stops' = stops /\ cmds' = queue
    BY <1>1 DEF Terminate
  <2>2. Clean(cmds')
    BY <2>1, Zenon
  <2>3. QED
    BY <1>1, <2>1, <2>2
<1>2. CASE ~(pid = 0 \/ \E x \in stops : x.id = pid)
  <2> DEFINE x == [id |-> pid, kind |-> kind, slot |-> s]
  <2>1. stops' = stops \cup {x} /\ cmds' = Append(queue, Cmd("terminate", pid))
    BY <1>2 DEF Terminate
  <2>2. /\ Cmd("terminate", pid) \in CmdRecord /\ Cmd("terminate", pid).id = pid
        /\ Cmd("terminate", pid).op = "terminate"
    BY DEF Cmd, CmdRecord
  <2>3. Clean(Append(queue, Cmd("terminate", pid)))
    BY <1>2, <2>2, CleanAppend
  <2>4. x.id = pid /\ x.slot = s
    OBVIOUS
  <2> HIDE DEF x
  <2>5. Clean(cmds')
    BY <2>1, <2>3, Zenon
  <2>6. QED
    BY <1>2, <2>1, <2>4, <2>5
<1>3. QED
  BY <1>1, <1>2

\* The stops of a step that adds stops of its slot only.
LEMMA StopsStay ==
  ASSUME TypeOK, TypeOK', Grows, StopsOwned,
         \A x \in stops' : \/ x \in stops
                           \/ Begun(x.id) /\ x.slot = launch[x.id].slot,
         \A x \in ustops' :
           \/ x \in ustops
           \/ /\ x.id \in DOMAIN launch /\ x.id \notin pending'
              /\ x.slot = launch[x.id].slot
              /\ x.kind = "stale" => x.slot # Main /\ x.id \notin unconfirmed'
              /\ x.kind = "slot" => x.slot = Main /\ slot'[Main].ureq \in {0, x.id},
         \A r \in pending' : r \in pending \/ r \notin DOMAIN launch,
         \A r \in unconfirmed' : r \in unconfirmed \/ r \in pending,
         \/ slot'[Main].ureq \in {0, slot[Main].ureq}
         \/ \A x \in ustops' : x.slot # Main
  PROVE  StopsOwned'
<1>1. \A x \in stops' : Begun(x.id)' /\ x.slot = launch'[x.id].slot
  BY BegunGrows DEF StopsOwned, Grows, Begun
<1>2. ASSUME NEW x \in ustops'
      PROVE  /\ x.id \in DOMAIN launch' /\ x.id \notin pending'
             /\ x.slot = launch'[x.id].slot
             /\ x.kind = "stale" => x.slot # Main /\ x.id \notin unconfirmed'
             /\ x.kind = "slot" => x.slot = Main /\ slot'[Main].ureq \in {0, x.id}
  <2>1. CASE x \in ustops
    BY <2>1 DEF StopsOwned, Grows
  <2>2. CASE x \notin ustops
    BY <2>2 DEF Grows
  <2>3. QED
    BY <2>1, <2>2
<1>3. QED
  BY <1>1, <1>2 DEF StopsOwned

-----------------------------------------------------------------------------
(* Events and the agenda                                                    *)

\* Items take the place of the head of the agenda.
LEMMA AgendaAfter ==
  ASSUME TypeOK, work # <<>>, NEW items \in Seq(WorkRecord), Do(items)
  PROVE  /\ \A i \in DOMAIN work' : \/ \E j \in DOMAIN items : work'[i] = items[j]
                                    \/ \E j \in DOMAIN work : work'[i] = work[j]
         /\ \A j \in DOMAIN items : \E i \in DOMAIN work' : work'[i] = items[j]
         /\ \A j \in DOMAIN work :
              j = 1 \/ \E i \in DOMAIN work' : work'[i] = work[j]
<1> DEFINE rest == Tail(work)
<1>1. /\ rest \in Seq(WorkRecord) /\ Len(rest) = Len(work) - 1
      /\ \A i \in 1..Len(rest) : rest[i] = work[i + 1]
      /\ DOMAIN work = 1..Len(work) /\ Len(work) \in Nat
      /\ DOMAIN items = 1..Len(items) /\ Len(items) \in Nat
  BY HeadTailProperties, LenProperties DEF TypeOK
<1>2. work' = items \o rest
  BY DEF Do
<1> HIDE DEF rest
<1>3. /\ DOMAIN work' = 1..(Len(items) + Len(rest))
      /\ \A i \in 1..Len(items) : work'[i] = items[i]
      /\ \A i \in 1..Len(rest) : work'[i + Len(items)] = rest[i]
  <2>1. /\ work' \in Seq(WorkRecord)
        /\ Len(work') = Len(items) + Len(rest)
        /\ \A i \in 1..(Len(items) + Len(rest)) :
             work'[i] = IF i <= Len(items) THEN items[i] ELSE rest[i - Len(items)]
    BY <1>1, <1>2, ConcatProperties
  <2>2. ASSUME NEW i \in 1..Len(rest) PROVE work'[i + Len(items)] = rest[i]
    <3>1. /\ i + Len(items) \in 1..(Len(items) + Len(rest))
          /\ ~(i + Len(items) <= Len(items)) /\ (i + Len(items)) - Len(items) = i
      BY <1>1
    <3>2. QED
      BY <2>1, <3>1
  <2>3. QED
    BY <1>1, <2>1, <2>2, LenProperties, SMTT(60)
<1>4. ASSUME NEW i \in DOMAIN work'
      PROVE  \/ \E j \in DOMAIN items : work'[i] = items[j]
             \/ \E j \in DOMAIN work : work'[i] = work[j]
  <2>1. CASE i <= Len(items)
    BY <1>1, <1>3, <2>1
  <2>2. CASE ~(i <= Len(items))
    <3>1. /\ i - Len(items) \in 1..Len(rest) /\ (i - Len(items)) + Len(items) = i
          /\ i - Len(items) + 1 \in DOMAIN work
      BY <1>1, <1>3, <2>2
    <3>2. work'[i] = work[i - Len(items) + 1]
      BY <1>1, <1>3, <3>1
    <3>3. QED
      BY <3>1, <3>2
  <2>3. QED
    BY <2>1, <2>2
<1>5. ASSUME NEW j \in DOMAIN items PROVE \E i \in DOMAIN work' : work'[i] = items[j]
  BY <1>1, <1>3
<1>6. ASSUME NEW j \in DOMAIN work, j # 1
      PROVE  \E i \in DOMAIN work' : work'[i] = work[j]
  <2>1. j - 1 \in 1..Len(rest) /\ (j - 1) + 1 = j
    BY <1>1, <1>6
  <2>2. (j - 1) + Len(items) \in DOMAIN work' /\ work'[(j - 1) + Len(items)] = work[j]
    BY <1>1, <1>3, <2>1
  <2>3. QED
    BY <2>2
<1>7. QED
  BY <1>4, <1>5, <1>6

\* An agenda entry asks nothing of the log.
LEMMA TodosTrue ==
  ASSUME NEW e, e.op \in {"poll", "launch", "removePane", "dropPane"}
  PROVE  EventTrue(e) /\ e.op # "started"
BY DEF EventTrue

\* After a handler: its event is gone, the launches it asks for are due.
LEMMA AgendaTrue ==
  ASSUME TypeOK, TypeOK', EventsTrue, Grows, work # <<>>, evts' = evts,
         NEW items \in Seq(WorkRecord), Do(items),
         \A j \in DOMAIN items : items[j].op \in {"poll", "launch"}
  PROVE  /\ EventsTrue'
         /\ \A r : Undelivered("started", r)
                     /\ (Head(work).op # "started" \/ r # Subject)
                   => Undelivered("started", r)'
         /\ \A t \in Slots :
              Retiring(t)' => \/ Retiring(t)
                              \/ /\ t = Shell
                                 /\ \E j \in DOMAIN items : items[j] = Launch(Shell)
<1>1. /\ \A i \in DOMAIN work' : \/ \E j \in DOMAIN items : work'[i] = items[j]
                                 \/ \E j \in DOMAIN work : work'[i] = work[j]
      /\ \A j \in DOMAIN work :
           j = 1 \/ \E i \in DOMAIN work' : work'[i] = work[j]
  BY AgendaAfter
<1>2. /\ \A p : Begun(p) => Begun(p)'
      /\ \A p : Ended(p) => Ended(p)'
  BY BegunGrows
<1>3. EventsTrue'
  <2>1. \A e : EventTrue(e) => /\ e.op = "started" => Begun(e.id)'
                               /\ e.op \in {"terminated", "exited"} => Ended(e.id)'
    BY <1>2 DEF EventTrue
  <2>2. \A i \in DOMAIN evts' : EventTrue(evts[i])'
    BY <2>1 DEF EventsTrue, EventTrue
  <2>3. ASSUME NEW i \in DOMAIN work' PROVE EventTrue(work[i])'
    <3>1. CASE \E j \in DOMAIN items : work'[i] = items[j]
      BY <3>1 DEF EventTrue
    <3>2. CASE \E j \in DOMAIN work : work'[i] = work[j]
      BY <2>1, <3>2 DEF EventsTrue, EventTrue
    <3>3. QED
      BY <1>1, <3>1, <3>2
  <2>4. QED
    BY <2>2, <2>3 DEF EventsTrue
<1>4. ASSUME NEW r, Undelivered("started", r),
             Head(work).op # "started" \/ r # Subject
      PROVE  Undelivered("started", r)'
  <2>1. work[1] = Head(work)
    BY DEF TypeOK
  <2>2. CASE \E i \in DOMAIN evts : evts[i].op = "started" /\ evts[i].id = r
    BY <2>2 DEF Undelivered
  <2>3. CASE \E i \in DOMAIN work : work[i].op = "started" /\ work[i].id = r
    <3>1. PICK j \in DOMAIN work : work[j].op = "started" /\ work[j].id = r
      BY <2>3
    <3>2. j # 1
      BY <1>4, <2>1, <3>1 DEF Subject
    <3>3. \E i \in DOMAIN work' : work'[i].op = "started" /\ work'[i].id = r
      BY <1>1, <3>1, <3>2
    <3>4. QED
      BY <3>3 DEF Undelivered
  <2>4. QED
    BY <1>4, <2>2, <2>3 DEF Undelivered
<1>5. ASSUME NEW t \in Slots, Retiring(t)'
      PROVE  \/ Retiring(t)
             \/ /\ t = Shell
                /\ \E j \in DOMAIN items : items[j] = Launch(Shell)
  <2>1. PICK i \in DOMAIN work' : \/ work'[i].op = "removePane" /\ work'[i].slot = t
                                  \/ t = Shell /\ work'[i] = Launch(t)
    BY <1>5 DEF Retiring, Launch, Todo
  <2>2. CASE \E j \in DOMAIN items : work'[i] = items[j]
    BY <2>1, <2>2
  <2>3. CASE \E j \in DOMAIN work : work'[i] = work[j]
    BY <2>1, <2>3 DEF Retiring
  <2>4. QED
    BY <1>1, <2>2, <2>3
<1>6. QED
  BY <1>3, <1>4, <1>5

\* A request starts with an empty agenda.
LEMMA AgendaOpened ==
  ASSUME TypeOK, TypeOK', EventsTrue, Grows, work = <<>>, evts' = evts,
         \A i \in DOMAIN work' :
           work'[i].op \in {"poll", "launch", "removePane", "dropPane"}
  PROVE  /\ EventsTrue'
         /\ \A r : Undelivered("started", r) => Undelivered("started", r)'
<1>1. /\ \A p : Begun(p) => Begun(p)'
      /\ \A p : Ended(p) => Ended(p)'
  BY BegunGrows
<1>2. \A i \in DOMAIN evts' : EventTrue(evts[i])'
  BY <1>1 DEF EventsTrue, EventTrue
<1>3. \A i \in DOMAIN work' : EventTrue(work[i])'
  BY DEF EventTrue
<1>4. QED
  BY <1>2, <1>3 DEF EventsTrue, Undelivered

-----------------------------------------------------------------------------
(* A step leaves most slots alone                                           *)

Untouched(t) ==
  /\ StopsQuiet(t) /\ UnconfirmedQuiet(t)
  /\ slot'[t].pid = slot[t].pid /\ slot'[t].st = slot[t].st
  /\ slot'[t].idx = slot[t].idx /\ slot'[t].ureq = slot[t].ureq
  /\ Retiring(t)' => Retiring(t)

LEMMA KeptAround ==
  ASSUME TypeOK, TypeOK', Kept, NEW q, Careful(q), NEW s \in Slots,
         q \in DOMAIN launch => launch[q].slot = s,
         CmdsTrue', EventsTrue', StopsOwned', MainWanted',
         ProgramsKnown(s)' /\ StartsKnown(s)',
         \A t \in Slots \ {s} : Untouched(t)
  PROVE  Kept'
<1>1. ASSUME NEW t \in Slots \ {s} PROVE ProgramsKnown(t)' /\ StartsKnown(t)'
  BY SlotUntouched DEF Kept, Untouched
<1>2. QED
  BY <1>1 DEF Kept

\* A step that leaves every slot alone.
LEMMA KeptAll ==
  ASSUME TypeOK, TypeOK', Kept, Careful(0),
         CmdsTrue', EventsTrue', StopsOwned', MainWanted',
         \A t \in Slots : Untouched(t)
  PROVE  Kept'
<1>1. 0 \notin DOMAIN launch
  BY Logged
<1>2. ASSUME NEW t \in Slots PROVE ProgramsKnown(t)' /\ StartsKnown(t)'
  BY <1>1, SlotUntouched DEF Kept, Untouched
<1>3. QED
  BY <1>2 DEF Kept

-----------------------------------------------------------------------------
(* Giving a child up                                                        *)

\* Nothing that waits for its answer is in doubt.
LEMMA UnconfirmedIsNotPending ==
  ASSUME TypeOK, LaunchIndexExact, Kept
  PROVE  \A r \in unconfirmed : r \notin pending /\ r # 0
<1>1. \A r \in unconfirmed : launch[r].slot \in Slots /\ r # 0
  BY Logged DEF TypeOK
<1>2. \A r \in unconfirmed :
        /\ slot[launch[r].slot].ureq = r
        /\ slot[launch[r].slot].ureq # 0 => slot[launch[r].slot].idx = 0
  BY <1>1 DEF Kept, StartsKnown, UnconfirmedIsNamed, UnconfirmedIsAlone
<1>3. QED
  BY <1>1, <1>2 DEF LaunchIndexExact, PendingIsIndexed

\* What ReleaseChild sends and enters.
LEMMA ReleaseOwned ==
  ASSUME TypeOK, Kept, NEW s \in Slots, ReleaseChild(s)
  PROVE  /\ Clean(cmds') /\ stops \subseteq stops'
         /\ \A x \in stops' : \/ x \in stops
                              \/ /\ x.id = RunningPid(s) /\ Begun(x.id)
                                 /\ x.slot = s /\ launch[x.id].slot = s
         /\ HandledNext(RunningPid(s))
<1> DEFINE u == slot[s].ureq
           stopU == u \in unconfirmed /\ ~ \E x \in ustops : x.id = u
           queue == IF stopU THEN Append(cmds, Cmd("terminateUnconfirmed", u))
                             ELSE cmds
<1>1. u \in Int /\ cmds \in Seq(CmdRecord) /\ Clean(cmds)
  BY DEF TypeOK, SlotRecord, Kept, CmdsTrue, Clean
<1>2. queue \in Seq(CmdRecord) /\ Clean(queue)
  <2>1. /\ Cmd("terminateUnconfirmed", u) \in CmdRecord
        /\ Cmd("terminateUnconfirmed", u).op = "terminateUnconfirmed"
    BY <1>1 DEF Cmd, CmdRecord
  <2> DEFINE c == Cmd("terminateUnconfirmed", u)
             next == Append(cmds, c)
  <2> HIDE DEF c, Clean
  <2>2. next \in Seq(CmdRecord) /\ Clean(next)
    BY <1>1, <2>1, CleanAppend DEF c
  <2> HIDE DEF next, u
  <2>3. stopU => queue = next
    BY DEF next, c
  <2>4. CASE stopU
    <3> HIDE DEF queue, stopU
    <3>1. QED
      BY <2>2, <2>3, <2>4, Zenon
  <2>5. CASE ~stopU
    BY <1>1, <2>5
  <2>6. QED
    BY <2>4, <2>5
<1>3. Terminate(RunningPid(s), "slot", s, queue)
  BY DEF ReleaseChild, StopRunning
<1>4. /\ RunningPid(s) \in Int
      /\ RunningPid(s) # 0 => Begun(RunningPid(s)) /\ launch[RunningPid(s)].slot = s
  BY RunningPidType, RunningLogged DEF Kept, ProgramsKnown, PidOwned
<1> HIDE DEF queue
<1>5. /\ Clean(cmds') /\ stops \subseteq stops'
      /\ \A x \in stops' : \/ x \in stops
                           \/ (x.id = RunningPid(s) /\ RunningPid(s) # 0 /\ x.slot = s)
      /\ RunningPid(s) # 0 => \E x \in stops' : x.id = RunningPid(s)
  BY <1>2, <1>3, <1>4, TerminateOwned, Zenon
<1>6. QED
  BY <1>4, <1>5 DEF HandledNext

\* Giving up the child of slot s, whose index fields are cleared.
LEMMA ReleaseKept ==
  ASSUME TypeOK, TypeOK', LaunchIndexExact, Kept, NEW s \in Slots, ReleaseChild(s),
         s = Main => slot[Main].ureq = 0,
         slot'[s].idx = 0, slot'[s].ureq = 0,
         slot'[s].pid \in {0, slot[s].pid}, RunningPid(s)' \in {0, RunningPid(s)},
         \A t \in Slots \ {s} :
           /\ slot'[t].pid = slot[t].pid /\ slot'[t].st = slot[t].st
           /\ slot'[t].idx = slot[t].idx /\ slot'[t].ureq = slot[t].ureq
           /\ Retiring(t)' => Retiring(t),
         EventsTrue', MainWanted',
         \A r : Undelivered("started", r) => Undelivered("started", r)'
  PROVE  Kept'
<1> DEFINE i == slot[s].idx
           u == slot[s].ureq
<1>1. /\ UNCHANGED <<launch, app>> /\ pending' = pending \ {i}
      /\ cancelled' \subseteq cancelled \cup ({i} \cap pending)
      /\ unconfirmed' = unconfirmed \ {u}
      /\ ustops' \subseteq ustops \cup
           {x \in {[id |-> u, kind |-> "stale", slot |-> s]} : u \in unconfirmed}
  BY DEF ReleaseChild, CancelPending, children
<1>2. /\ Clean(cmds') /\ stops \subseteq stops'
      /\ \A x \in stops' : \/ x \in stops
                           \/ /\ x.id = RunningPid(s) /\ Begun(x.id)
                              /\ x.slot = s /\ launch[x.id].slot = s
      /\ HandledNext(RunningPid(s))
  BY ReleaseOwned
<1>3. Grows /\ Careful(0)
  BY <1>1, <1>2, Unchanged DEF Careful
<1>4. 0 \notin DOMAIN launch
  BY Logged
<1>5. /\ i \in pending => i # 0 /\ launch[i].slot = s
      /\ u \in unconfirmed => /\ u # 0 /\ u \notin pending
                              /\ launch[u].slot = s /\ s # Main
  BY <1>4, UnconfirmedIsNotPending, SMTT(60)
     DEF LaunchIndexExact, IndexNamesPending, Kept, StartsKnown,
         UnconfirmedIsNamed, TypeOK
<1>6. ProgramsKnown(s)'
  <2>1. Taken(s)' => HandledNext(RunningPid(s)')
    BY <1>2 DEF HandledNext
  <2>2. ProgramsKnown(s)
    BY DEF Kept
  <2>3. QED
    BY <1>2, <1>3, <1>4, <2>1, <2>2, ProgramStep
<1>7. StartsKnown(s)'
  <2>1. StoppingIsIdle(s)' /\ UnconfirmedIsAlone(s)'
    BY DEF StoppingIsIdle, UnconfirmedIsAlone
  <2>2. \A r \in unconfirmed' : launch'[r].slot # s
    BY <1>1 DEF Kept, StartsKnown, UnconfirmedIsNamed
  <2>3. QED
    BY <2>1, <2>2 DEF StartsKnown, UnconfirmedIsNamed
<1>8. StopsOwned'
  <2>1. \A x \in stops' : \/ x \in stops
                          \/ Begun(x.id) /\ x.slot = launch[x.id].slot
    BY <1>2
  <2>2. ASSUME NEW x \in ustops', x \notin ustops
        PROVE  /\ x.id \in DOMAIN launch /\ x.id \notin pending'
               /\ x.slot = launch[x.id].slot
               /\ x.kind = "stale" => x.slot # Main /\ x.id \notin unconfirmed'
               /\ x.kind # "slot"
    <3>1. /\ u \in unconfirmed /\ x.id = u /\ x.kind = "stale" /\ x.slot = s
      BY <1>1, <2>2
    <3>2. QED
      BY <1>1, <1>5, <3>1 DEF TypeOK
  <2>3. slot'[Main].ureq \in {0, slot[Main].ureq}
    BY DEF Slots
  <2>4. \A r \in pending' : r \in pending
    BY <1>1
  <2>5. \A r \in unconfirmed' : r \in unconfirmed
    BY <1>1
  <2>6. StopsOwned
    BY DEF Kept
  <2> HIDE DEF i, u
  <2>7. QED
    BY <1>3, <2>1, <2>2, <2>3, <2>4, <2>5, <2>6, StopsStay
<1>9. ASSUME NEW t \in Slots \ {s} PROVE Untouched(t)
  <2>1. StopsQuiet(t)
    BY <1>1, <1>2, <1>5 DEF StopsQuiet
  <2>2. UnconfirmedQuiet(t)
    BY <1>1, <1>5 DEF UnconfirmedQuiet
  <2>3. QED
    BY <2>1, <2>2 DEF Untouched
<1>10. CmdsTrue'
  BY <1>2, <1>3, CleanStays
<1>11. QED
  BY <1>3, <1>4, <1>6, <1>7, <1>8, <1>9, <1>10, KeptAround

\* What slot s knows of its starts, when they stay what they are.
LEMMA StartsStep ==
  ASSUME TypeOK, TypeOK', Grows, NEW s \in Slots, StartsKnown(s),
         StopsQuiet(s), UnconfirmedQuiet(s),
         slot'[s].idx = slot[s].idx, slot'[s].ureq = slot[s].ureq,
         slot[s].ureq # 0 => /\ slot'[s].st \in Live /\ slot'[s].pid = 0
                             /\ Retiring(s)' => Retiring(s)
  PROVE  StartsKnown(s)'
<1>1. /\ Stopping(s)' => Stopping(s)
      /\ Ending(s)' => Ending(s)
  BY QuietStops
<1>2. StoppingIsIdle(s)' /\ UnconfirmedIsAlone(s)'
  BY <1>1 DEF StartsKnown, StoppingIsIdle, UnconfirmedIsAlone
<1>3. UnconfirmedIsNamed(s)'
  <2>1. /\ \A r \in unconfirmed' : r \in DOMAIN launch'
        /\ \A r \in unconfirmed : /\ r \in DOMAIN launch'
                                  /\ launch'[r] = launch[r] /\ r # 0
    BY BegunGrows DEF TypeOK, Grows
  <2>2. QED
    BY <2>1 DEF StartsKnown, UnconfirmedIsNamed, UnconfirmedQuiet
<1>4. QED
  BY <1>2, <1>3 DEF StartsKnown

\* A step that leaves the tables and the worker alone.
LEMMA QuietTables ==
  ASSUME TypeOK, TypeOK', Kept, UNCHANGED <<tables, cmds, children>>,
         slot'[Main].ureq \in {0, slot[Main].ureq},
         \A r : Undelivered("started", r) => Undelivered("started", r)'
  PROVE  /\ Careful(0) /\ CmdsTrue' /\ StopsOwned'
         /\ \A t \in Slots : StopsQuiet(t) /\ UnconfirmedQuiet(t)
<1>1. UNCHANGED <<launch, pending, unconfirmed, cancelled, stops, ustops, cmds, app>>
  BY DEF tables, children
<1>2. Careful(0)
  BY <1>1, Unchanged DEF Careful
<1>3. CmdsTrue'
  BY <1>1 DEF Kept, CmdsTrue, CmdTrue, Begun
<1>4. StopsOwned'
  BY <1>1 DEF Kept, StopsOwned, Begun
<1>5. \A t \in Slots : StopsQuiet(t) /\ UnconfirmedQuiet(t)
  BY <1>1 DEF StopsQuiet, UnconfirmedQuiet
<1>6. QED
  BY <1>2, <1>3, <1>4, <1>5

\* Such a step, with the agenda told what to do next, and what each slot
\* runs and asks for as it was.
LEMMA QuietKept ==
  ASSUME TypeOK, TypeOK', Kept, UNCHANGED <<tables, cmds, children>>,
         EventsTrue', MainWanted',
         \A r : Undelivered("started", r) => Undelivered("started", r)',
         \A t \in Slots :
           /\ slot'[t].pid = slot[t].pid /\ slot'[t].st = slot[t].st
           /\ slot'[t].idx = slot[t].idx /\ slot'[t].ureq = slot[t].ureq
           /\ Retiring(t)' => Retiring(t)
  PROVE  Kept'
<1>1. /\ Careful(0) /\ CmdsTrue' /\ StopsOwned'
      /\ \A t \in Slots : StopsQuiet(t) /\ UnconfirmedQuiet(t)
  BY QuietTables DEF Slots
<1>2. QED
  BY <1>1, KeptAll DEF Untouched

\* An agenda that launches no shell and removes no pane t.
LEMMA NothingDue ==
  ASSUME NEW t,
         \A i \in DOMAIN work' :
           \/ work'[i].op \in {"poll", "dropPane"}
           \/ work'[i].op = "launch" /\ (work'[i].slot # Shell \/ t # Shell)
           \/ work'[i].op = "removePane" /\ work'[i].slot # t
  PROVE  ~Retiring(t)'
BY DEF Retiring, Launch, Todo

LEMMA OpenedWith ==
  ASSUME TypeOK, TypeOK', Kept, UNCHANGED <<launch, app>>, work = <<>>,
         evts' = evts, NEW e, NEW f, work' \in {<<e>>, <<e, f>>},
         {e.op, f.op} \subseteq {"poll", "launch", "removePane"}
  PROVE  /\ EventsTrue'
         /\ \A r : Undelivered("started", r) => Undelivered("started", r)'
         /\ \A t \in Slots :
              Retiring(t)' => \/ e = Launch(Shell) /\ t = Shell
                              \/ f = Launch(Shell) /\ t = Shell
                              \/ e.op = "removePane" /\ e.slot = t
                              \/ f.op = "removePane" /\ f.slot = t
<1>1. /\ \A i \in DOMAIN work' : work'[i] \in {e, f}
      /\ Grows
  BY Unchanged
<1>2. \A i \in DOMAIN work' :
        work'[i].op \in {"poll", "launch", "removePane", "dropPane"}
  BY <1>1
<1>3. EventsTrue /\ Grows
  BY <1>1 DEF Kept
<1>4. EventsTrue'
  BY <1>2, <1>3, AgendaOpened
<1>5. \A r : Undelivered("started", r) => Undelivered("started", r)'
  BY <1>2, <1>3, AgendaOpened
<1>6. ASSUME NEW t \in Slots, Retiring(t)'
      PROVE  \/ e = Launch(Shell) /\ t = Shell
             \/ f = Launch(Shell) /\ t = Shell
             \/ e.op = "removePane" /\ e.slot = t
             \/ f.op = "removePane" /\ f.slot = t
  <2>1. PICK i \in DOMAIN work' : \/ work'[i].op = "removePane" /\ work'[i].slot = t
                                  \/ t = Shell /\ work'[i] = Launch(t)
    BY <1>6 DEF Retiring, Launch, Todo
  <2>2. QED
    BY <1>1, <2>1
<1>7. QED
  BY <1>4, <1>5, <1>6

LEMMA DropPaneKept ==
  ASSUME ConstantsAssumption, TypeOK, TypeOK', LaunchIndexExact, Kept, DropPane
  PROVE  Kept'
<1>0. PICK p : p = Head(work).slot
  OBVIOUS
<1>1. /\ work # <<>> /\ Head(work).op = "dropPane"
      /\ ReleaseChild(p) /\ slot' = [slot EXCEPT ![p] = Vacant] /\ Do(<<>>)
  BY <1>0 DEF DropPane, Applying
<1>2. p \in Panes /\ p \in Slots /\ p # Main /\ Main \in Slots
  BY <1>0, <1>1, HeadOfAgenda DEF ConstantsAssumption, Slots
<1>3. evts' = evts /\ Grows
  BY <1>1, Unchanged DEF ReleaseChild, children
<1>4. /\ EventsTrue'
      /\ \A r : Undelivered("started", r) => Undelivered("started", r)'
      /\ \A t \in Slots : Retiring(t)' => Retiring(t)
  <2>1. <<>> \in Seq(WorkRecord) /\ \A j \in DOMAIN <<>> : FALSE
    BY NoItems
  <2>2. EventsTrue
    BY DEF Kept
  <2>3. \A j \in DOMAIN <<>> : <<>>[j].op \in {"poll", "launch"}
    BY <2>1
  <2>4. QED
    BY <1>1, <1>3, <2>1, <2>2, <2>3, AgendaTrue
<1>5. slot'[p] = Vacant /\ \A t \in Slots \ {p} : slot'[t] = slot[t]
  BY <1>1, <1>2 DEF TypeOK
<1>6. /\ slot'[p].idx = 0 /\ slot'[p].ureq = 0
      /\ slot'[p].pid = 0 /\ slot'[p].st \notin Live
  BY <1>5 DEF Vacant, Live
<1>7. RunningPid(p)' = 0
  BY <1>6 DEF RunningPid
<1>8. MainWanted'
  BY <1>2, <1>5 DEF Kept, MainWanted
<1>9. QED
  BY <1>1, <1>2, <1>4, <1>5, <1>6, <1>7, <1>8, ReleaseKept

\* Polling is all that is left to do.
LEMMA OpenedWithPoll ==
  ASSUME TypeOK, TypeOK', Kept, UNCHANGED <<launch, app>>, work = <<>>,
         evts' = evts, work' = <<Poll>>
  PROVE  /\ EventsTrue'
         /\ \A r : Undelivered("started", r) => Undelivered("started", r)'
         /\ \A t \in Slots : ~Retiring(t)'
<1>1. Poll.op = "poll" /\ Poll # Launch(Shell)
  BY DEF Poll, Launch, Todo
<1>2. /\ EventsTrue'
      /\ \A r : Undelivered("started", r) => Undelivered("started", r)'
      /\ \A t \in Slots : Retiring(t)' => \/ Poll = Launch(Shell)
                                          \/ Poll.op = "removePane"
  BY <1>1, OpenedWith
<1>3. QED
  BY <1>1, <1>2

LEMMA DismissShellKept ==
  ASSUME ConstantsAssumption, TypeOK, TypeOK', LaunchIndexExact, Kept, DismissShell
  PROVE  Kept'
<1> DEFINE kept == \/ RunningPid(Shell) # 0
                   \/ Stopping(Shell)
                   \/ slot[Shell].idx \in pending
                   \/ slot[Shell].ureq \in unconfirmed
<1>1. /\ work = <<>> /\ work' = <<Poll>> /\ ReleaseChild(Shell)
      /\ slot' = [slot EXCEPT ![Shell] = [@ EXCEPT
           !.st  = IF kept THEN slot[Shell].st ELSE "absent",
           !.pid = IF kept THEN slot[Shell].pid ELSE 0,
           !.idx = 0, !.ureq = 0]]
  BY DEF DismissShell, Request
<1> HIDE DEF kept
<1>2. Shell \in Slots /\ Main \in Slots /\ Shell # Main
  BY DEF Slots, Main, Shell
<1>3. /\ \A t \in Slots \ {Shell} : slot'[t] = slot[t]
      /\ slot'[Shell].idx = 0 /\ slot'[Shell].ureq = 0
      /\ \/ slot'[Shell].pid = slot[Shell].pid /\ slot'[Shell].st = slot[Shell].st
         \/ slot'[Shell].pid = 0 /\ slot'[Shell].st = "absent"
  BY <1>1, <1>2 DEF TypeOK, SlotRecord
<1>4. RunningPid(Shell)' \in {0, RunningPid(Shell)}
  BY <1>3 DEF RunningPid, Live
<1>5. UNCHANGED <<launch, app>> /\ evts' = evts
  BY <1>1 DEF ReleaseChild, children
<1>6. /\ EventsTrue'
      /\ \A r : Undelivered("started", r) => Undelivered("started", r)'
      /\ \A t \in Slots : ~Retiring(t)'
  BY <1>1, <1>5, OpenedWithPoll
<1>7. MainWanted'
  BY <1>2, <1>3 DEF Kept, MainWanted
<1>8. QED
  BY <1>1, <1>2, <1>3, <1>4, <1>6, <1>7, ReleaseKept

\* Giving the pane's program up, in a request; a removal may be due.
LEMMA PaneReleaseKept ==
  ASSUME ConstantsAssumption, TypeOK, TypeOK', LaunchIndexExact, Kept,
         NEW p \in Panes, ReleaseChild(p),
         slot'[p].idx = 0, slot'[p].ureq = 0,
         slot'[p].pid = RunningPid(p),
         slot'[p].st = IF RunningPid(p) = 0 THEN "absent" ELSE slot[p].st,
         \A t \in Slots \ {p} : slot'[t] = slot[t],
         work = <<>>, evts' = evts, NEW e, work' \in {<<Poll>>, <<Poll, e>>},
         (e.op = "removePane" /\ e.slot = p) \/ e = Launch(p)
  PROVE  Kept'
<1>1. p \in Slots /\ Main \in Slots /\ p # Main /\ p # Shell
  BY DEF Slots, ConstantsAssumption
<1>2. slot'[p].pid \in {0, slot[p].pid} /\ RunningPid(p)' \in {0, RunningPid(p)}
  BY DEF RunningPid, Live
<1>3. UNCHANGED <<launch, app>>
  BY DEF ReleaseChild, children
<1>4. /\ Poll.op = "poll" /\ Poll # Launch(Shell)
      /\ Launch(p).op = "launch" /\ Launch(p) # Launch(Shell)
      /\ Launch(Shell).op = "launch"
  BY <1>1 DEF Poll, Launch, Todo
<1>5. /\ EventsTrue'
      /\ \A r : Undelivered("started", r) => Undelivered("started", r)'
      /\ \A t \in Slots : Retiring(t)' => e.op = "removePane" /\ e.slot = t
  <2>1. {Poll.op, e.op} \subseteq {"poll", "launch", "removePane"} /\ e # Launch(Shell)
    BY <1>4
  <2>2. /\ EventsTrue'
        /\ \A r : Undelivered("started", r) => Undelivered("started", r)'
        /\ \A t \in Slots :
              Retiring(t)' => \/ Poll = Launch(Shell) /\ t = Shell
                              \/ e = Launch(Shell) /\ t = Shell
                              \/ Poll.op = "removePane" /\ Poll.slot = t
                              \/ e.op = "removePane" /\ e.slot = t
    BY <1>3, <2>1, OpenedWith
  <2>3. QED
    BY <1>4, <2>1, <2>2
<1>6. ASSUME NEW t \in Slots \ {p} PROVE ~Retiring(t)'
  BY <1>4, <1>5
<1>7. MainWanted'
  BY <1>1 DEF Kept, MainWanted
<1>8. QED
  BY <1>1, <1>2, <1>5, <1>6, <1>7, ReleaseKept

LEMMA ToSurfAceKept ==
  ASSUME ConstantsAssumption, TypeOK, TypeOK', LaunchIndexExact, Kept,
         NEW p \in Panes, SwitchToSurfAce(p) \/ NativePaneRelease(p)
  PROVE  Kept'
<1> DEFINE e == Todo("removePane", p)
<1>1. /\ work = <<>> /\ work' \in {<<Poll>>, <<Poll, e>>} /\ ReleaseChild(p)
      /\ slot' = [slot EXCEPT
           ![p] = [Vacant EXCEPT
                     !.st = IF RunningPid(p) = 0 THEN "absent" ELSE slot[p].st,
                     !.pid = RunningPid(p)]]
  BY DEF SwitchToSurfAce, NativePaneRelease, ToSurfAce, Request
<1>2. e.op = "removePane" /\ e.slot = p
  BY DEF Todo
<1> HIDE DEF e
<1>3. evts' = evts /\ p \in Slots
  BY <1>1 DEF ReleaseChild, Slots
<1>4. /\ slot'[p].idx = 0 /\ slot'[p].ureq = 0
      /\ slot'[p].pid = RunningPid(p)
      /\ slot'[p].st = IF RunningPid(p) = 0 THEN "absent" ELSE slot[p].st
      /\ \A t \in Slots \ {p} : slot'[t] = slot[t]
  BY <1>1, <1>3 DEF TypeOK, Vacant
<1>5. QED
  BY <1>1, <1>2, <1>3, <1>4, PaneReleaseKept

\* native_pane.host and native_pane.update
LEMMA HostKept ==
  ASSUME ConstantsAssumption, TypeOK, TypeOK', LaunchIndexExact, Kept,
         NEW p \in Panes, NEW spec \in Specs, NEW rev,
         NativePaneHost(p, spec, rev) \/ NativePaneUpdate(p, spec, rev)
  PROVE  Kept'
<1>1. /\ work = <<>> /\ work' \in {<<Poll>>, <<Poll, Launch(p)>>}
      /\ HostPlan(p, spec, rev)
  BY DEF NativePaneHost, NativePaneUpdate, Request
<1>2. p \in Slots /\ p # Main /\ p # Shell /\ Main \in Slots
  BY DEF Slots, ConstantsAssumption
<1>3. CASE p \in panes /\ slot[p].want # spec
  <2>1. /\ ReleaseChild(p)
        /\ slot' = [slot EXCEPT ![p] = [@ EXCEPT
            !.st = IF RunningPid(p) = 0 THEN "absent" ELSE slot[p].st,
            !.pid = RunningPid(p),
            !.idx = 0, !.ureq = 0, !.token = 0,
            !.want = spec, !.rev = rev]]
    BY <1>1, <1>3 DEF HostPlan
  <2>2. evts' = evts
    BY <2>1 DEF ReleaseChild
  <2>3. /\ slot'[p].idx = 0 /\ slot'[p].ureq = 0
        /\ slot'[p].pid = RunningPid(p)
        /\ slot'[p].st = IF RunningPid(p) = 0 THEN "absent" ELSE slot[p].st
        /\ \A t \in Slots \ {p} : slot'[t] = slot[t]
    BY <1>2, <2>1 DEF TypeOK, SlotRecord
  <2>4. QED
    BY <1>1, <2>1, <2>2, <2>3, PaneReleaseKept
<1>4. CASE ~(p \in panes /\ slot[p].want # spec)
  <2>1. /\ slot' = [slot EXCEPT ![p] = [@ EXCEPT !.want = spec, !.rev = rev]]
        /\ UNCHANGED <<tables, cmds, evts, children>>
    BY <1>1, <1>4 DEF HostPlan
  <2>2. \A t \in Slots :
           /\ slot'[t].pid = slot[t].pid /\ slot'[t].st = slot[t].st
           /\ slot'[t].idx = slot[t].idx /\ slot'[t].ureq = slot[t].ureq
           /\ t # p => slot'[t] = slot[t]
    <3>1. \A t \in Slots \ {p} : slot'[t] = slot[t]
      BY <1>2, <2>1 DEF TypeOK
    <3>2. slot'[p] = [slot[p] EXCEPT !.want = spec, !.rev = rev]
      BY <1>2, <2>1 DEF TypeOK
    <3>3. /\ slot'[p].pid = slot[p].pid /\ slot'[p].st = slot[p].st
          /\ slot'[p].idx = slot[p].idx /\ slot'[p].ureq = slot[p].ureq
      BY <1>2, <3>2 DEF TypeOK, SlotRecord
    <3>4. QED
      BY <3>1, <3>3
  <2>3. MainWanted'
    BY <1>2, <2>2 DEF Kept, MainWanted
  <2>4. UNCHANGED <<launch, app>> /\ evts' = evts
    BY <2>1 DEF tables, children
  <2>5. /\ Poll.op = "poll" /\ Poll # Launch(Shell)
        /\ Launch(p).op = "launch" /\ Launch(p) # Launch(Shell)
    BY <1>2 DEF Poll, Launch, Todo
  <2>6. /\ EventsTrue'
        /\ \A r : Undelivered("started", r) => Undelivered("started", r)'
        /\ \A t \in Slots : ~Retiring(t)'
    <3>1. {Poll.op, Launch(p).op} \subseteq {"poll", "launch", "removePane"}
      BY <2>5
    <3>2. /\ EventsTrue'
          /\ \A r : Undelivered("started", r) => Undelivered("started", r)'
          /\ \A t \in Slots :
                Retiring(t)' => \/ Poll = Launch(Shell) /\ t = Shell
                                \/ Launch(p) = Launch(Shell) /\ t = Shell
                                \/ Poll.op = "removePane" /\ Poll.slot = t
                                \/ Launch(p).op = "removePane" /\ Launch(p).slot = t
      BY <1>1, <2>4, <3>1, OpenedWith
    <3>3. QED
      BY <2>5, <3>2
  <2>7. QED
    BY <2>1, <2>2, <2>3, <2>4, <2>6, QuietKept
<1>5. QED
  BY <1>3, <1>4

-----------------------------------------------------------------------------
(* Requests that look at no child                                           *)

LEMMA QuietRequestsKept ==
  ASSUME ConstantsAssumption, TypeOK, TypeOK', Kept,
         \/ RuntimeRunning
         \/ PollRequest
         \/ \E p \in Panes : LaunchNativePaneHost(p)
  PROVE  Kept'
<1>1. /\ UNCHANGED <<slot, tables, cmds, evts, children>> /\ work = <<>>
      /\ \E e \in {Poll} \cup {Launch(s) : s \in Slots \ {Shell}} : work' = <<e>>
  BY DEF RuntimeRunning, PollRequest, LaunchNativePaneHost, Request, slots,
         ConstantsAssumption, Slots, Main, Shell
<1>2. PICK e \in {Poll} \cup {Launch(s) : s \in Slots \ {Shell}} : work' = <<e>>
  BY <1>1
<1>3. e.op \in {"poll", "launch"} /\ e # Launch(Shell)
  BY DEF Poll, Launch, Todo
<1>4. /\ EventsTrue'
      /\ \A r : Undelivered("started", r) => Undelivered("started", r)'
      /\ \A t \in Slots : ~Retiring(t)'
  <2>1. /\ UNCHANGED <<launch, app>>
        /\ {e.op, e.op} \subseteq {"poll", "launch", "removePane"}
    BY <1>1, <1>3 DEF tables, children
  <2>2. /\ EventsTrue'
        /\ \A r : Undelivered("started", r) => Undelivered("started", r)'
        /\ \A t \in Slots :
              Retiring(t)' => \/ e = Launch(Shell) /\ t = Shell
                              \/ e = Launch(Shell) /\ t = Shell
                              \/ e.op = "removePane" /\ e.slot = t
                              \/ e.op = "removePane" /\ e.slot = t
    BY <1>1, <1>2, <2>1, OpenedWith
  <2>3. QED
    BY <1>3, <2>2
<1>5. MainWanted'
  BY <1>1 DEF Kept, MainWanted
<1>6. QED
  BY <1>1, <1>4, <1>5, QuietKept

LEMMA SnapshotKept ==
  ASSUME ConstantsAssumption, TypeOK, TypeOK', Kept, NEW incoming \in SUBSET Panes,
         ApplyProviderSnapshot(incoming)
  PROVE  Kept'
<1>1. /\ UNCHANGED <<slot, tables, cmds, evts, children>> /\ work = <<>>
      /\ UNCHANGED <<launch, app>>
  BY DEF ApplyProviderSnapshot, Request, tables, children
<1>2. \A i \in DOMAIN work' : work'[i].op \in {"dropPane", "poll"}
  BY SnapshotAgenda
<1>3. Grows /\ EventsTrue
  BY <1>1, Unchanged DEF Kept
<1>4. \A i \in DOMAIN work' :
        work'[i].op \in {"poll", "launch", "removePane", "dropPane"}
  BY <1>2
<1>5. /\ EventsTrue'
      /\ \A r : Undelivered("started", r) => Undelivered("started", r)'
  BY <1>1, <1>3, <1>4, AgendaOpened
<1>6. \A t \in Slots : ~Retiring(t)'
  BY <1>2, NothingDue
<1>7. MainWanted'
  BY <1>1 DEF Kept, MainWanted
<1>8. QED
  BY <1>1, <1>5, <1>6, <1>7, QuietKept

\* A slot without an unconfirmed launch changes hands, the tables do not.
LEMMA OneSlotKept ==
  ASSUME TypeOK, TypeOK', Kept, UNCHANGED <<tables, cmds, children>>,
         NEW s \in Slots,
         slot'[s].idx = slot[s].idx, slot'[s].ureq = slot[s].ureq,
         slot[s].ureq # 0 => /\ slot'[s].st \in Live /\ slot'[s].pid = 0
                             /\ Retiring(s)' => Retiring(s),
         \/ slot'[s].pid \in {0, slot[s].pid}
         \/ Begun(slot'[s].pid) /\ launch[slot'[s].pid].slot = s,
         \/ RunningPid(s)' = RunningPid(s)
         \/ Handled(RunningPid(s)),
         Taken(s)' => \/ HandledNext(RunningPid(s)')
                      \/ RunningPid(s)' = RunningPid(s) /\ Taken(s),
         \A t \in Slots \ {s} :
           /\ slot'[t].pid = slot[t].pid /\ slot'[t].st = slot[t].st
           /\ slot'[t].idx = slot[t].idx /\ slot'[t].ureq = slot[t].ureq
           /\ Retiring(t)' => Retiring(t),
         EventsTrue', MainWanted',
         \A r : Undelivered("started", r) => Undelivered("started", r)'
  PROVE  Kept'
<1>1. slot'[Main].ureq = slot[Main].ureq
  BY DEF Slots
<1>2. /\ Careful(0) /\ CmdsTrue' /\ StopsOwned'
      /\ \A t \in Slots : StopsQuiet(t) /\ UnconfirmedQuiet(t)
  BY <1>1, QuietTables
<1>3. 0 \notin DOMAIN launch
  BY Logged
<1>4. ProgramsKnown(s) /\ StartsKnown(s)
  BY DEF Kept
<1>5. ProgramsKnown(s)'
  BY <1>2, <1>3, <1>4, ProgramStep
<1>6. StartsKnown(s)'
  BY <1>2, <1>4, StartsStep DEF Careful
<1>7. \A t \in Slots \ {s} : Untouched(t)
  BY <1>2 DEF Untouched
<1>8. QED
  BY <1>2, <1>3, <1>5, <1>6, <1>7, KeptAround

LEMMA OpenShellKept ==
  ASSUME ConstantsAssumption, TypeOK, TypeOK', Kept, OpenShell
  PROVE  Kept'
<1>1. /\ UNCHANGED <<slot, tables, cmds, evts, children>> /\ work = <<>>
      /\ UNCHANGED <<launch, app>> /\ work' = <<Launch(Shell)>>
      /\ slot[Shell].st \notin Live
  BY DEF OpenShell, Request, tables, children
<1>2. Shell \in Slots /\ Main \in Slots
  BY DEF Slots
<1>3. slot[Shell].ureq = 0
  BY <1>1, <1>2 DEF Kept, StartsKnown, UnconfirmedIsNamed
<1>4. RunningPid(Shell) = 0 /\ RunningPid(Shell)' = 0
  BY <1>1 DEF RunningPid
<1>5. Launch(Shell).op = "launch"
  BY AgendaEntries
<1>6. /\ EventsTrue'
      /\ \A r : Undelivered("started", r) => Undelivered("started", r)'
      /\ \A t \in Slots : Retiring(t)' => t = Shell
  <2>1. {Launch(Shell).op, Launch(Shell).op} \subseteq {"poll", "launch", "removePane"}
    BY <1>5
  <2>2. /\ EventsTrue'
        /\ \A r : Undelivered("started", r) => Undelivered("started", r)'
        /\ \A t \in Slots :
              Retiring(t)' => \/ Launch(Shell) = Launch(Shell) /\ t = Shell
                              \/ Launch(Shell) = Launch(Shell) /\ t = Shell
                              \/ Launch(Shell).op = "removePane" /\ Launch(Shell).slot = t
                              \/ Launch(Shell).op = "removePane" /\ Launch(Shell).slot = t
    BY <1>1, <2>1, OpenedWith
  <2>3. QED
    BY <1>5, <2>2
<1>7. MainWanted'
  BY <1>1 DEF Kept, MainWanted
<1>8. HandledNext(RunningPid(Shell)') /\ Handled(RunningPid(Shell))
  BY <1>4 DEF HandledNext, Handled
<1>9. QED
  BY <1>1, <1>2, <1>3, <1>4, <1>6, <1>7, <1>8, OneSlotKept

-----------------------------------------------------------------------------
(* Windows come and go                                                      *)

\* Nothing is said and nothing is done.
LEMMA StandStill ==
  ASSUME TypeOK, TypeOK', Kept, UNCHANGED <<launch, app, evts, work>>
  PROVE  /\ EventsTrue'
         /\ \A r : Undelivered("started", r) => Undelivered("started", r)'
         /\ \A t \in Slots : Retiring(t)' => Retiring(t)
<1>1. /\ \A p : Begun(p) => Begun(p)'
      /\ \A p : Ended(p) => Ended(p)'
  BY BegunGrows, Unchanged
<1>2. EventsTrue'
  BY <1>1 DEF Kept, EventsTrue, EventTrue
<1>3. QED
  BY <1>2 DEF Undelivered, Retiring, Launch, Todo

\* What no step changes keeps its truth.
LEMMA KeptUnchanged ==
  ASSUME Kept, UNCHANGED <<slot, tables, cmds, evts, work, app>>
  PROVE  Kept'
<1>1. UNCHANGED <<slot, launch, pending, unconfirmed, cancelled, stops, ustops,
                  cmds, evts, work, app>>
  BY DEF tables
<1>2. CmdsTrue' /\ EventsTrue' /\ StopsOwned' /\ MainWanted'
  BY <1>1 DEF Kept, CmdsTrue, CmdTrue, EventsTrue, EventTrue, StopsOwned, Begun,
              Ended, MainWanted
<1>3. ASSUME NEW s \in Slots PROVE ProgramsKnown(s)'
  <2>1. /\ RunningPid(s)' = RunningPid(s)
        /\ Taken(s)' => Taken(s)
        /\ \A p : Handled(p) => HandledNext(p)
        /\ \A r : Undelivered("started", r) => Undelivered("started", r)'
    BY <1>1 DEF RunningPid, Taken, Stopping, Retiring, Handled, HandledNext,
                Undelivered, Launch, Todo
  <2>2. ProgramsKnown(s)
    BY DEF Kept
  <2>3. PidOwned(s)'
    BY <1>1, <2>2 DEF ProgramsKnown, PidOwned, Begun
  <2>4. TakenIsHandled(s)'
    BY <2>1, <2>2 DEF ProgramsKnown, TakenIsHandled, Handled, HandledNext
  <2>5. KnowsProgram(s)'
    BY <1>1, <2>1, <2>2 DEF ProgramsKnown, KnowsProgram, Handled, HandledNext
  <2>6. QED
    BY <2>3, <2>4, <2>5 DEF ProgramsKnown
<1>4. ASSUME NEW s \in Slots PROVE StartsKnown(s)'
  <2>1. /\ Stopping(s)' => Stopping(s)
        /\ Ending(s)' => Ending(s)
        /\ Retiring(s)' => Retiring(s)
    BY <1>1 DEF Stopping, Ending, Retiring, Launch, Todo
  <2>2. QED
    BY <1>1, <2>1 DEF Kept, StartsKnown, StoppingIsIdle, UnconfirmedIsAlone,
                      UnconfirmedIsNamed
<1>5. QED
  BY <1>2, <1>3, <1>4 DEF Kept

\* A window keeps its slot's program.
LEMMA WindowKept ==
  ASSUME TypeOK, TypeOK', Kept, Wrappers = FALSE, NEW s \in Slots,
         Attach(s) \/ Detach(s)
  PROVE  Kept'
<1>1. UNCHANGED <<tables, cmds, evts, children, work>> /\ UNCHANGED <<launch, app>>
  BY DEF Attach, Detach, tables, children
<1>2. ProgramsKnown(s) /\ StartsKnown(s) /\ slot[s].pid \in Int
  BY DEF Kept, TypeOK, SlotRecord
<1>3. slot[s].pid >= 0
  <2>1. slot[s].pid # 0 => slot[s].pid \in DOMAIN launch
    BY <1>2, Logged DEF ProgramsKnown, PidOwned, Begun
  <2>2. \A r \in DOMAIN launch : r \in Nat
    BY Logged
  <2>3. QED
    BY <1>2, <2>1, <2>2
<1>4. /\ slot[s].st \in Live
      /\ \E st \in Live : slot' = [slot EXCEPT ![s] = [@ EXCEPT
                                     !.st = st, !.pid = slot[s].pid]]
  <2>1. CASE Attach(s)
    <3>1. PICK c \in {slot[s].pid, -ReqOf(slot[s].pid)} :
            /\ c < 0 => Wrappers
            /\ slot' = [slot EXCEPT ![s] = [@ EXCEPT !.st = "attached", !.pid = c]]
      BY <2>1 DEF Attach
    <3>2. c = slot[s].pid
      BY <1>2, <1>3, <3>1 DEF ReqOf
    <3>3. QED
      BY <2>1, <3>1, <3>2 DEF Attach, Live
  <2>2. CASE Detach(s)
    <3>1. /\ slot[s].st = "attached"
          /\ slot' = [slot EXCEPT ![s] = [@ EXCEPT !.st = "launching"]]
      BY <2>2 DEF Detach
    <3>2. [slot[s] EXCEPT !.st = "launching"]
            = [slot[s] EXCEPT !.st = "launching", !.pid = slot[s].pid]
      BY DEF TypeOK, SlotRecord
    <3>3. QED
      BY <3>1, <3>2 DEF Live, TypeOK
  <2>3. QED
    BY <2>1, <2>2
<1>5. /\ slot'[s].pid = slot[s].pid /\ slot'[s].st \in Live
      /\ slot'[s].idx = slot[s].idx /\ slot'[s].ureq = slot[s].ureq
      /\ slot'[s].want = slot[s].want
      /\ \A t \in Slots \ {s} : slot'[t] = slot[t]
  BY <1>4 DEF TypeOK, SlotRecord
<1>6. RunningPid(s)' = RunningPid(s)
  BY <1>4, <1>5 DEF RunningPid
<1>7. /\ EventsTrue'
      /\ \A r : Undelivered("started", r) => Undelivered("started", r)'
      /\ \A t \in Slots : Retiring(t)' => Retiring(t)
  BY <1>1, StandStill
<1>8. MainWanted'
  BY <1>4, <1>5 DEF Kept, MainWanted, Slots
<1>9. /\ \A t \in Slots : StopsQuiet(t)
      /\ Taken(s)' => Taken(s)
  BY <1>1, <1>5, <1>7 DEF StopsQuiet, Taken, Stopping, tables
<1>10. slot[s].ureq # 0 => /\ slot'[s].st \in Live /\ slot'[s].pid = 0
                           /\ Retiring(s)' => Retiring(s)
  BY <1>2, <1>5, <1>7 DEF StartsKnown, UnconfirmedIsNamed
<1>11. QED
  BY <1>1, <1>5, <1>6, <1>7, <1>8, <1>9, <1>10, OneSlotKept

\* An overlay that failed takes back a window whose program was given up.
LEMMA RecoverOverlayKept ==
  ASSUME ConstantsAssumption, TypeOK, TypeOK', Kept,
         NEW r \in DOMAIN app, RecoverOverlay(r)
  PROVE  Kept'
<1>1. /\ UNCHANGED <<tables, cmds, evts, children, work>>
      /\ UNCHANGED <<launch, app>>
  BY DEF RecoverOverlay, tables, children
<1>2. PICK s \in Slots \ {Main} : s = overlay
  BY DEF RecoverOverlay, TypeOK, ConstantsAssumption, Slots, Main, Shell
<1>3. /\ slot[s].st = "failed" /\ app[r] = "gone" /\ launch[r].slot = s
      /\ slot' = [slot EXCEPT ![s] = [@ EXCEPT !.st = "attached", !.pid = r]]
  BY <1>2 DEF RecoverOverlay
<1>4. /\ slot'[s].pid = r
      /\ slot'[s].idx = slot[s].idx /\ slot'[s].ureq = slot[s].ureq
      /\ slot'[s].want = slot[s].want
      /\ \A t \in Slots \ {s} : slot'[t] = slot[t]
  BY <1>3 DEF TypeOK, SlotRecord
<1>5. Begun(r) /\ RunningPid(s) = 0
  BY <1>3 DEF Begun, RunningPid, Live
<1>6. Handled(RunningPid(s)) /\ HandledNext(RunningPid(s)')
  <2>1. RunningPid(s)' \in {0, r}
    BY <1>4 DEF RunningPid
  <2>2. QED
    BY <1>1, <1>3, <1>5, <2>1 DEF Handled, HandledNext
<1>7. slot[s].ureq = 0
  BY <1>3 DEF Kept, StartsKnown, UnconfirmedIsNamed, Live
<1>8. /\ EventsTrue'
      /\ \A q : Undelivered("started", q) => Undelivered("started", q)'
      /\ \A t \in Slots : Retiring(t)' => Retiring(t)
  BY <1>1, StandStill
<1>9. MainWanted'
  BY <1>3, <1>4 DEF Kept, MainWanted, Slots
<1>10. QED
  BY <1>1, <1>3, <1>4, <1>5, <1>6, <1>7, <1>8, <1>9, OneSlotKept

-----------------------------------------------------------------------------
(* Launching                                                                *)

\* What request_process_spawn enters and sends.
LEMMA SpawnLogged ==
  ASSUME TypeOK, CmdsTrue, NEW s \in Slots,
         NEW sl \in [Slots -> SlotRecord], NEW rest, Spawn(s, sl, rest)
  PROVE  /\ Grows /\ CmdsTrue'
         /\ Len(launch) + 1 \notin DOMAIN launch /\ Len(launch) + 1 # 0
         /\ \A r \in DOMAIN launch' :
              r \in DOMAIN launch \/ (r = Len(launch) + 1 /\ launch'[r].slot = s)
<1> DEFINE q == Len(launch) + 1
           c == Cmd("spawn", q)
           entry == [slot |-> s, spec |-> sl[s].want, rev |-> sl[s].rev]
<1>1. /\ DOMAIN launch' = 1..q /\ DOMAIN launch = 1..Len(launch)
      /\ \A r \in DOMAIN launch : launch'[r] = launch[r]
      /\ launch'[q].slot = s
  <2>1. launch' = Append(launch, entry)
    BY DEF Spawn
  <2>2. launch \in Seq(Launched \cup {entry}) /\ entry.slot = s
    BY SeqMonotonic DEF TypeOK
  <2> HIDE DEF entry
  <2>3. QED
    BY <2>1, <2>2, AppendProperties, LenProperties
<1>2. /\ DOMAIN app' = 1..q /\ DOMAIN app = DOMAIN launch
      /\ \A r \in DOMAIN app : app'[r] = app[r]
      /\ app'[q] = "queued"
  <2>1. app' = Append(app, "queued") /\ "queued" \in AppStates
    BY DEF Spawn, AppStates
  <2>2. app \in Seq(AppStates) /\ Len(app) = Len(launch)
    BY DEF TypeOK
  <2>3. QED
    BY <2>1, <2>2, AppendProperties, LenProperties
<1>3. q \in Nat \ {0} /\ q \notin DOMAIN launch /\ Len(launch) \in Nat
  BY <1>1, LenProperties DEF TypeOK
<1>4. /\ \A r \in DOMAIN launch' : r \in DOMAIN launch \/ r = q
      /\ \A r \in DOMAIN launch : r \in DOMAIN launch'
      /\ DOMAIN app' = DOMAIN launch'
  BY <1>1, <1>2, <1>3
<1> HIDE DEF q
<1>5. Grows
  BY <1>1, <1>2, <1>4 DEF Grows
<1>6. /\ DOMAIN cmds' = 1..(Len(cmds) + 1) /\ DOMAIN cmds = 1..Len(cmds)
      /\ Len(cmds) \in Nat
      /\ cmds'[Len(cmds) + 1] = c /\ \A i \in DOMAIN cmds : cmds'[i] = cmds[i]
  <2>1. cmds' = Append(cmds, c) /\ c \in CmdRecord
    BY <1>3 DEF Spawn, Cmd, CmdRecord, q
  <2> HIDE DEF c
  <2>2. QED
    BY <2>1, AppendProperties, LenProperties DEF TypeOK
<1>7. c.op = "spawn" /\ c.id = q
  BY DEF Cmd
<1>8. \A i \in DOMAIN cmds :
        cmds[i].op \in {"spawn", "terminate"} =>
          cmds[i].id \in DOMAIN app /\ cmds[i].id # q
  BY <1>2, <1>3 DEF CmdsTrue, CmdTrue, Begun
<1>9. ASSUME NEW i \in DOMAIN cmds' PROVE CmdTrue(cmds, i)'
  <2>1. CASE i \in DOMAIN cmds
    <3>1. cmds[i].op = "spawn" =>
            \A j \in DOMAIN cmds' : cmds'[j].op = "spawn" /\ cmds'[j].id = cmds'[i].id
                                      => j = i
      BY <1>6, <1>7, <1>8, <2>1 DEF CmdsTrue, CmdTrue
    <3>2. CmdTrue(cmds, i)
      BY <2>1 DEF CmdsTrue
    <3>3. QED
      BY <1>2, <1>1, <1>4, <1>6, <2>1, <3>1, <3>2 DEF CmdTrue, Begun
  <2>2. CASE i = Len(cmds) + 1
    <3>1. \A j \in DOMAIN cmds' : cmds'[j].op = "spawn" /\ cmds'[j].id = q => j = i
      BY <1>6, <1>7, <1>8, <2>2
    <3>2. q \in DOMAIN app' /\ app'[q] = "queued"
      BY <1>2, <1>3 DEF q
    <3>3. QED
      BY <1>6, <1>7, <2>2, <3>1, <3>2 DEF CmdTrue
  <2>3. QED
    BY <1>6, <1>9, <2>1, <2>2
<1>10. CmdsTrue'
  BY <1>9 DEF CmdsTrue
<1>11. QED
  BY <1>1, <1>3, <1>4, <1>5, <1>10 DEF q

LEMMA LaunchMade ==
  ASSUME ConstantsAssumption, TypeOK, TypeOK', Indexed, Kept,
         Applying("launch"), NEW s \in Slots, s = Head(work).slot, MayLaunch(s),
         Spawn(s, slot, Tail(work))
  PROVE  Kept'
<1>1. /\ Grows /\ CmdsTrue'
      /\ \A r \in DOMAIN launch' :
           r \in DOMAIN launch \/ (r \notin DOMAIN launch /\ launch'[r].slot = s)
      /\ \A r \in pending' : r \in pending \/ r \notin DOMAIN launch
  <2>1. /\ Grows /\ CmdsTrue'
        /\ Len(launch) + 1 \notin DOMAIN launch /\ Len(launch) + 1 # 0
        /\ \A r \in DOMAIN launch' :
             r \in DOMAIN launch \/ (r = Len(launch) + 1 /\ launch'[r].slot = s)
    BY SpawnLogged DEF Kept, TypeOK
  <2>2. pending' = pending \cup {Len(launch) + 1}
    BY DEF Spawn
  <2>3. QED
    BY <2>1, <2>2
<1>2. /\ UNCHANGED <<unconfirmed, cancelled, stops, ustops, evts>>
      /\ Do(<<Poll>>) /\ work # <<>> /\ Head(work).op = "launch"
  BY SMTT(60) DEF Spawn, Do, Applying
<1>3. /\ slot'[s].pid = slot[s].pid /\ slot'[s].st = slot[s].st
      /\ slot'[s].ureq = slot[s].ureq /\ slot'[s].want = slot[s].want
      /\ \A t \in Slots \ {s} : slot'[t] = slot[t]
  BY SMTT(60) DEF Spawn, TypeOK, SlotRecord
<1>4. /\ EventsTrue'
      /\ \A r : Undelivered("started", r) => Undelivered("started", r)'
      /\ \A t \in Slots : Retiring(t)' => Retiring(t)
  <2>1. EventsTrue
    BY DEF Kept
  <2>2. Poll.op = "poll" /\ Poll # Launch(Shell) /\ <<Poll>> \in Seq(WorkRecord)
    BY TodoType DEF Poll, Launch, Todo
  <2> DEFINE items == <<Poll>>
  <2>3. \A j \in DOMAIN items : items[j] = Poll
    OBVIOUS
  <2>4. items \in Seq(WorkRecord) /\ Do(items)
    BY <1>2, <2>2
  <2> HIDE DEF items
  <2>5. \A j \in DOMAIN items : items[j].op \in {"poll", "launch"}
    BY <2>2, <2>3
  <2>6. /\ EventsTrue'
        /\ \A r : Undelivered("started", r)
                    /\ (Head(work).op # "started" \/ r # Subject)
                  => Undelivered("started", r)'
        /\ \A t \in Slots :
              Retiring(t)' => \/ Retiring(t)
                              \/ /\ t = Shell
                                 /\ \E j \in DOMAIN items : items[j] = Launch(Shell)
    BY <1>1, <1>2, <2>1, <2>4, <2>5, AgendaTrue
  <2>7. QED
    BY <1>2, <2>2, <2>3, <2>6
<1>5. Careful(0) /\ 0 \notin DOMAIN launch
  BY <1>1, <1>2, <1>4, Logged DEF Careful
<1>6. ~Stopping(s) /\ (s # Shell => slot[s].st \notin Live)
  BY DEF MayLaunch, Slots
<1>7. s = Shell => Retiring(s)
  <2>1. 1 \in DOMAIN work /\ Head(work) = work[1] /\ Head(work) = Launch(s)
    BY <1>2, HeadOfAgenda
  <2>2. QED
    BY <2>1 DEF Retiring
<1>8. slot[s].ureq = 0
  BY <1>6, <1>7 DEF Kept, StartsKnown, UnconfirmedIsAlone, UnconfirmedIsNamed
<1>9. Handled(RunningPid(s)) /\ ProgramsKnown(s)
  <2>1. CASE s # Shell
    BY <1>6, <2>1 DEF RunningPid, Handled, Kept
  <2>2. CASE s = Shell
    BY <1>7, <2>2 DEF Kept, ProgramsKnown, TakenIsHandled, Taken
  <2>3. QED
    BY <2>1, <2>2
<1>10. RunningPid(s)' = RunningPid(s)
  BY <1>3 DEF RunningPid
<1>11. ProgramsKnown(s)'
  BY <1>3, <1>5, <1>9, <1>10, ProgramStep
<1>12. \A t \in Slots : StopsQuiet(t) /\ UnconfirmedQuiet(t)
  <2>1. \A r \in cancelled : launch'[r] = launch[r]
    BY <1>1 DEF Grows, TypeOK
  <2>2. QED
    BY <1>2, <2>1 DEF StopsQuiet, UnconfirmedQuiet
<1>13. StartsKnown(s)'
  <2>1. ~Stopping(s)'
    BY <1>1, <1>6, <1>12, QuietStops
  <2>2. \A r \in unconfirmed' : launch'[r].slot # s
    <3>1. \A r \in unconfirmed : r \in DOMAIN launch /\ launch'[r] = launch[r] /\ r # 0
      BY <1>1, Logged DEF Grows, TypeOK
    <3>2. QED
      BY <1>2, <1>8, <3>1 DEF Kept, StartsKnown, UnconfirmedIsNamed
  <2>3. QED
    BY <1>3, <1>8, <2>1, <2>2
       DEF StartsKnown, StoppingIsIdle, UnconfirmedIsAlone, UnconfirmedIsNamed
<1>14. StopsOwned'
  <2>1. slot'[Main].ureq = slot[Main].ureq
    BY <1>3 DEF Slots
  <2>2. StopsOwned
    BY DEF Kept
  <2>3. QED
    BY <1>1, <1>2, <2>1, <2>2, StopsStay
<1>15. MainWanted'
  BY <1>3 DEF Kept, MainWanted, Slots
<1>16. \A t \in Slots \ {s} : Untouched(t)
  BY <1>3, <1>4, <1>12 DEF Untouched
<1>17. QED
  BY <1>1, <1>4, <1>5, <1>11, <1>13, <1>14, <1>15, <1>16, KeptAround

\* A handler that leaves nothing behind but the rest of the agenda.
LEMMA AgendaDone ==
  ASSUME TypeOK, TypeOK', Kept, UNCHANGED <<launch, app, evts>>, work # <<>>, Do(<<>>)
  PROVE  /\ EventsTrue'
         /\ \A r : Undelivered("started", r)
                     /\ (Head(work).op # "started" \/ r # Subject)
                   => Undelivered("started", r)'
         /\ \A t \in Slots : Retiring(t)' => Retiring(t)
<1>1. <<>> \in Seq(WorkRecord) /\ \A j \in DOMAIN <<>> : FALSE
  BY NoItems
<1>2. EventsTrue /\ Grows
  BY Unchanged DEF Kept
<1>3. \A j \in DOMAIN <<>> : <<>>[j].op \in {"poll", "launch"}
  BY <1>1
<1>4. QED
  BY <1>1, <1>2, <1>3, AgendaTrue

LEMMA LaunchSlotKept ==
  ASSUME ConstantsAssumption, TypeOK, TypeOK', Indexed, Kept, LaunchSlot
  PROVE  Kept'
<1>1. work # <<>> /\ Head(work).op = "launch"
  BY DEF LaunchSlot, Applying
<1>2. PICK s \in Slots : s = Head(work).slot
  BY <1>1, HeadOfAgenda
<1>3. CASE MayLaunch(s) /\ Spawn(s, slot, Tail(work))
  BY <1>2, <1>3, LaunchMade DEF LaunchSlot
<1>4. CASE ~(MayLaunch(s) /\ Spawn(s, slot, Tail(work)))
  <2>1. /\ slot' = IF /\ s = Main
                      /\ \/ slot[s].want # None /\ ~running /\ slot[s].st \notin Live
                         \/ slot[s].want = None /\ running
                   THEN [slot EXCEPT ![s] = [@ EXCEPT !.st = Rest(s), !.pid = 0]]
                   ELSE slot
        /\ Do(<<>>) /\ UNCHANGED <<tables, cmds, evts, children>>
    BY <1>2, <1>4 DEF LaunchSlot
  <2>2. UNCHANGED <<launch, app>>
    BY <2>1 DEF tables, children
  <2>3. /\ EventsTrue'
        /\ \A r : Undelivered("started", r) => Undelivered("started", r)'
        /\ \A t \in Slots : Retiring(t)' => Retiring(t)
    BY <1>1, <2>1, <2>2, AgendaDone
  <2>4. CASE slot' = slot
    <3>1. MainWanted'
      BY <2>4 DEF Kept, MainWanted
    <3>2. QED
      BY <2>1, <2>3, <2>4, <3>1, QuietKept
  <2>5. CASE slot' # slot
    <3>1. /\ s = Main /\ slot[s].st \notin Live
          /\ slot' = [slot EXCEPT ![s] = [@ EXCEPT !.st = Rest(s), !.pid = 0]]
      BY <2>1, <2>5 DEF Kept, MainWanted
    <3>2. /\ slot'[s].pid = 0 /\ slot'[s].st = Rest(s)
          /\ slot'[s].idx = slot[s].idx /\ slot'[s].ureq = slot[s].ureq
          /\ \A t \in Slots \ {s} : slot'[t] = slot[t]
      BY <3>1 DEF TypeOK, SlotRecord
    <3>3. Rest(s) \notin Live
      BY DEF Rest, Live
    <3>4. RunningPid(s) = 0 /\ RunningPid(s)' = 0
      BY <3>1, <3>2, <3>3 DEF RunningPid
    <3>5. HandledNext(RunningPid(s)') /\ Handled(RunningPid(s))
      BY <3>4 DEF HandledNext, Handled
    <3>6. slot[s].ureq = 0
      BY <3>1 DEF Kept, StartsKnown, UnconfirmedIsNamed
    <3>7. MainWanted'
      BY <3>1, <3>2, <3>3 DEF MainWanted
    <3>8. QED
      BY <2>1, <2>3, <3>2, <3>4, <3>5, <3>6, <3>7, OneSlotKept
  <2>6. QED
    BY <2>4, <2>5
<1>5. QED
  BY <1>3, <1>4

\* A pane taken away had given up its program already.
LEMMA RemoveReleasedPaneKept ==
  ASSUME ConstantsAssumption, TypeOK, TypeOK', Indexed, Kept, RemoveReleasedPane
  PROVE  Kept'
<1>1. /\ work # <<>> /\ Head(work).op = "removePane" /\ Do(<<>>)
      /\ UNCHANGED <<tables, cmds, evts, children>> /\ UNCHANGED <<launch, app>>
  BY DEF RemoveReleasedPane, Applying, tables, children
<1>2. PICK p \in Panes : p = Head(work).slot
  BY <1>1, HeadOfAgenda
<1>3. p \in Slots /\ p # Main /\ Main \in Slots
  BY DEF Slots, ConstantsAssumption
<1>4. 1 \in DOMAIN work /\ work[1].op = "removePane" /\ work[1].slot = p
  BY <1>1, <1>2, HeadOfAgenda
<1>5. Retiring(p) /\ slot[p].idx = 0
  BY <1>4 DEF Retiring, Indexed, RemovedPaneIsIdle
<1>6. slot[p].ureq = 0 /\ Handled(RunningPid(p))
  BY <1>3, <1>5 DEF Kept, StartsKnown, UnconfirmedIsAlone, ProgramsKnown,
                    TakenIsHandled, Taken
<1>7. /\ EventsTrue'
      /\ \A r : Undelivered("started", r) => Undelivered("started", r)'
      /\ \A t \in Slots : Retiring(t)' => Retiring(t)
  BY <1>1, AgendaDone
<1>8. CASE p \in provided
  <2>1. slot' = slot
    BY <1>2, <1>8 DEF RemoveReleasedPane
  <2>2. MainWanted'
    BY <2>1 DEF Kept, MainWanted
  <2>3. QED
    BY <1>1, <1>7, <2>1, <2>2, QuietKept
<1>9. CASE p \notin provided
  <2>1. slot' = [slot EXCEPT ![p] = Vacant]
    BY <1>2, <1>9 DEF RemoveReleasedPane
  <2>2. slot'[p] = Vacant /\ \A t \in Slots \ {p} : slot'[t] = slot[t]
    BY <1>3, <2>1 DEF TypeOK
  <2>3. /\ slot'[p].pid = 0 /\ slot'[p].st \notin Live
        /\ slot'[p].idx = slot[p].idx /\ slot'[p].ureq = slot[p].ureq
    BY <1>5, <1>6, <2>2 DEF Vacant, Live
  <2>4. RunningPid(p)' = 0
    BY <2>3 DEF RunningPid
  <2>5. HandledNext(RunningPid(p)')
    BY <2>4 DEF HandledNext
  <2>6. MainWanted'
    BY <1>3, <2>2 DEF Kept, MainWanted
  <2>7. QED
    BY <1>1, <1>3, <1>6, <1>7, <2>2, <2>3, <2>5, <2>6, OneSlotKept
<1>10. QED
  BY <1>8, <1>9

\* The exit of a program is seen by every slot that runs it.
LEMMA ExitedKept ==
  ASSUME TypeOK, TypeOK', Kept, Exited
  PROVE  Kept'
<1>1. /\ work # <<>> /\ Head(work).op = "exited" /\ Do(<<>>)
      /\ UNCHANGED <<tables, cmds, evts, children>> /\ UNCHANGED <<launch, app>>
  BY DEF Exited, Applying, tables, children
<1>2. PICK p : p = Subject
  OBVIOUS
<1>3. Ended(p)
  <2>1. 1 \in DOMAIN work /\ Head(work) = work[1]
    BY <1>1, HeadOfAgenda
  <2>2. QED
    BY <1>1, <1>2, <2>1 DEF Kept, EventsTrue, EventTrue, Subject
<1>4. p # 0 /\ Handled(p)
  BY <1>3, Logged DEF Ended, Handled
<1>5. /\ EventsTrue'
      /\ \A r : Undelivered("started", r) => Undelivered("started", r)'
      /\ \A t \in Slots : Retiring(t)' => Retiring(t)
  BY <1>1, AgendaDone
<1>6. ASSUME NEW t \in Slots
      PROVE  slot'[t] = IF RunningPid(t) = p THEN [slot[t] EXCEPT !.st = "exited"]
                        ELSE slot[t]
  BY <1>2 DEF Exited
<1>7. ASSUME NEW t \in Slots
      PROVE  /\ slot'[t].pid = slot[t].pid /\ slot'[t].want = slot[t].want
             /\ slot'[t].idx = slot[t].idx /\ slot'[t].ureq = slot[t].ureq
             /\ slot'[t].st = IF RunningPid(t) = p THEN "exited" ELSE slot[t].st
  BY <1>6 DEF TypeOK, SlotRecord
<1>8. /\ Careful(0) /\ CmdsTrue' /\ StopsOwned'
      /\ \A t \in Slots : StopsQuiet(t) /\ UnconfirmedQuiet(t)
  BY <1>1, <1>5, <1>7, QuietTables DEF Slots
<1>9. ASSUME NEW t \in Slots PROVE ProgramsKnown(t)' /\ StartsKnown(t)'
  <2>1. ProgramsKnown(t) /\ StartsKnown(t) /\ 0 \notin DOMAIN launch
    BY Logged DEF Kept
  <2>2. RunningPid(t)' = IF RunningPid(t) = p THEN 0 ELSE RunningPid(t)
    BY <1>7 DEF RunningPid, Live
  <2>3. RunningPid(t)' = RunningPid(t) \/ (Handled(RunningPid(t)) /\ RunningPid(t)' = 0)
    BY <1>4, <2>2
  <2>4. Taken(t)' => Taken(t)
    BY <1>1, <1>5, <1>7 DEF Taken, Stopping, tables
  <2>5. RunningPid(t)' = 0 => HandledNext(RunningPid(t)')
    BY DEF HandledNext
  <2>6. ProgramsKnown(t)'
    BY <1>7, <1>8, <2>1, <2>3, <2>4, <2>5, ProgramStep
  <2>7. slot[t].ureq # 0 => slot[t].pid = 0 /\ slot'[t].st \in Live
    BY <1>4, <1>7, <2>1 DEF StartsKnown, UnconfirmedIsNamed, RunningPid
  <2>8. StartsKnown(t)'
    BY <1>5, <1>7, <1>8, <2>1, <2>7, StartsStep DEF Careful
  <2>9. QED
    BY <2>6, <2>8
<1>10. MainWanted'
  BY <1>7 DEF Kept, MainWanted, Slots, Live
<1>11. QED
  BY <1>5, <1>8, <1>9, <1>10 DEF Kept

\* Drained events are applied before anything else.
LEMMA PollProcessesKept ==
  ASSUME TypeOK, TypeOK', Kept, PollProcesses
  PROVE  Kept'
<1>1. /\ work # <<>> /\ Head(work).op = "poll" /\ Do(evts) /\ evts' = <<>>
      /\ UNCHANGED <<slot, tables, cmds, children>> /\ UNCHANGED <<launch, app>>
  BY DEF PollProcesses, Applying, tables, children, slots
<1>2. /\ evts \in Seq(WorkRecord)
      /\ \A j \in DOMAIN evts : evts[j].op \in EvtOps
  <2>1. EvtRecord \subseteq WorkRecord /\ evts \in Seq(EvtRecord)
    BY DEF WorkRecord, TypeOK
  <2>2. evts \in Seq(WorkRecord)
    BY <2>1, SeqMonotonic
  <2>3. \A j \in DOMAIN evts : evts[j] \in EvtRecord
    BY <2>1, LenProperties
  <2>4. QED
    BY <2>2, <2>3 DEF EvtRecord
<1>3. /\ \A i \in DOMAIN work' : \/ \E j \in DOMAIN evts : work'[i] = evts[j]
                                 \/ \E j \in DOMAIN work : work'[i] = work[j]
      /\ \A j \in DOMAIN evts : \E i \in DOMAIN work' : work'[i] = evts[j]
      /\ \A j \in DOMAIN work :
           j = 1 \/ \E i \in DOMAIN work' : work'[i] = work[j]
  BY <1>1, <1>2, AgendaAfter
<1>4. /\ \A p : Begun(p) => Begun(p)'
      /\ \A p : Ended(p) => Ended(p)'
  BY <1>1, BegunGrows, Unchanged
<1>5. EventsTrue'
  <2>1. ASSUME NEW i \in DOMAIN work' PROVE EventTrue(work[i])'
    <3>1. PICK e : work'[i] = e /\ EventTrue(e)
      BY <1>3 DEF Kept, EventsTrue
    <3>2. QED
      BY <1>4, <3>1 DEF EventTrue
  <2>2. DOMAIN evts' = {}
    BY <1>1
  <2>3. QED
    BY <2>1, <2>2 DEF EventsTrue
<1>6. ASSUME NEW r, Undelivered("started", r) PROVE Undelivered("started", r)'
  <2>1. work[1].op = "poll"
    BY <1>1, HeadOfAgenda
  <2>2. \E i \in DOMAIN work' : work'[i].op = "started" /\ work'[i].id = r
    BY <1>3, <1>6, <2>1 DEF Undelivered
  <2>3. QED
    BY <2>2 DEF Undelivered
<1>7. ASSUME NEW t \in Slots, Retiring(t)' PROVE Retiring(t)
  <2>1. PICK i \in DOMAIN work' : \/ work'[i].op = "removePane" /\ work'[i].slot = t
                                  \/ t = Shell /\ work'[i] = Launch(t)
    BY <1>7 DEF Retiring, Launch, Todo
  <2>2. ~ \E j \in DOMAIN evts : work'[i] = evts[j]
    BY <1>2, <2>1, AgendaEntries DEF EvtOps
  <2>3. QED
    BY <1>3, <2>1, <2>2 DEF Retiring
<1>8. MainWanted'
  BY <1>1 DEF Kept, MainWanted
<1>9. QED
  BY <1>1, <1>5, <1>6, <1>7, <1>8, QuietKept

-----------------------------------------------------------------------------
(* The answers to a launch                                                  *)

\* A slot whose launch is in flight runs nothing it would lose.
LEMMA PendingFacts ==
  ASSUME TypeOK, Indexed, Kept, NEW r \in pending
  PROVE  LET s == launch[r].slot IN
         /\ s \in Slots /\ r # 0 /\ slot[s].idx = r /\ slot[s].ureq = 0
         /\ ~Stopping(s) /\ ~Retiring(s) /\ Handled(RunningPid(s)) /\ Taken(s)
         /\ \A u \in unconfirmed : launch[u].slot # s
<1> DEFINE s == launch[r].slot
<1>1. s \in Slots /\ r # 0
  BY Logged DEF TypeOK
<1>2. slot[s].idx = r
  BY DEF Indexed, LaunchIndexExact, PendingIsIndexed
<1>3. Taken(s)
  BY <1>1, <1>2 DEF Taken
<1>4. ProgramsKnown(s) /\ StartsKnown(s)
  BY <1>1 DEF Kept
<1>5. ~Stopping(s) /\ slot[s].ureq = 0
  BY <1>1, <1>2, <1>4 DEF StartsKnown, StoppingIsIdle, UnconfirmedIsAlone
<1>6. \A u \in unconfirmed : u # 0
  BY Logged DEF TypeOK
<1>7. \A u \in unconfirmed : launch[u].slot # s
  BY <1>4, <1>5, <1>6 DEF StartsKnown, UnconfirmedIsNamed
<1>8. ~Retiring(s)
  BY <1>1, <1>2 DEF Retiring, Indexed, RemovedPaneIsIdle, OneShellLaunch,
                    ShellLaunchIsNext
<1>9. Handled(RunningPid(s))
  BY <1>3, <1>4 DEF ProgramsKnown, TakenIsHandled
<1>10. QED
  BY <1>1, <1>2, <1>3, <1>5, <1>7, <1>8, <1>9

\* An answer concerns the slot of the launch it answers.
LEMMA AnswerKept ==
  ASSUME TypeOK, TypeOK', Kept, NEW q, Careful(q), NEW s \in Slots,
         q \in DOMAIN launch => launch[q].slot = s,
         UNCHANGED <<launch, app>>, ustops' \subseteq ustops,
         pending' \subseteq pending, cancelled' \subseteq cancelled,
         \A x \in stops' : \/ x \in stops
                           \/ Begun(x.id) /\ x.slot = s /\ launch[x.id].slot = s,
         \A u \in unconfirmed : u \in unconfirmed' \/ launch[u].slot = s,
         \A u \in unconfirmed' : \/ u \in unconfirmed
                                 \/ u \in pending /\ launch[u].slot = s,
         \/ slot'[Main].ureq \in {0, slot[Main].ureq}
         \/ \A x \in ustops' : x.slot # Main,
         \A t \in Slots \ {s} : slot'[t] = slot[t],
         \A t \in Slots \ {s} : Retiring(t)' => Retiring(t),
         CmdsTrue', EventsTrue', MainWanted', ProgramsKnown(s)', StartsKnown(s)'
  PROVE  Kept'
<1>1. StopsOwned'
  <2>1. StopsOwned /\ Grows
    BY DEF Kept, Careful
  <2>2. \A x \in stops' : \/ x \in stops
                          \/ Begun(x.id) /\ x.slot = launch[x.id].slot
    OBVIOUS
  <2>3. /\ \A x \in ustops' : x \in ustops
        /\ \A r \in pending' : r \in pending
        /\ \A r \in unconfirmed' : r \in unconfirmed \/ r \in pending
    OBVIOUS
  <2>4. QED
    BY <2>1, <2>2, <2>3, StopsStay
<1>2. ASSUME NEW t \in Slots \ {s} PROVE Untouched(t)
  <2>1. StopsQuiet(t)
    BY DEF StopsQuiet
  <2>2. UnconfirmedQuiet(t)
    BY DEF UnconfirmedQuiet
  <2>3. QED
    BY <2>1, <2>2 DEF Untouched
<1>3. QED
  BY <1>1, <1>2, KeptAround

\* After the answer the slot has no launch in flight and none unconfirmed.
LEMMA StartsOver ==
  ASSUME TypeOK, Kept, NEW s \in Slots, UNCHANGED launch,
         slot'[s].idx = 0, slot'[s].ureq = 0,
         \A u \in unconfirmed' : launch[u].slot # s
  PROVE  StartsKnown(s)'
BY DEF StartsKnown, StoppingIsIdle, UnconfirmedIsAlone, UnconfirmedIsNamed

\* The answer is about the current launch of slot s.
LEMMA CurrentIsWanted ==
  ASSUME ConstantsAssumption, TypeOK, NEW r \in DOMAIN launch, IsCurrent(r)
  PROVE  slot[launch[r].slot].want # None
<1>1. launch[r].spec \in Specs
  BY LaunchedType
<1>2. QED
  BY <1>1 DEF IsCurrent, ConstantsAssumption

\* The launch index is cleared and nothing else.
LEMMA ClearedFields ==
  ASSUME TypeOK, Indexed, Kept, NEW r \in pending, NEW s \in Slots,
         s = launch[r].slot, slot' = ClearIndex(slot, r)
  PROVE  /\ slot'[s].st = slot[s].st /\ slot'[s].pid = slot[s].pid
         /\ slot'[s].ureq = 0 /\ slot'[s].idx = 0 /\ slot'[s].want = slot[s].want
         /\ \A t \in Slots \ {s} : slot'[t] = slot[t]
<1>1. slot[s].idx = r /\ slot[s].ureq = 0 /\ r # 0
  BY PendingFacts
<1>2. slot' = [slot EXCEPT ![s] = [slot[s] EXCEPT !.idx = 0, !.ureq = 0]]
  BY <1>1 DEF ClearIndex
<1>3. QED
  BY <1>2 DEF TypeOK, SlotRecord

\* An answer nobody waits for any more clears the index of its slot; the
\* program it speaks of, if there is one, is handled.
LEMMA OutdatedKept ==
  ASSUME TypeOK, TypeOK', Indexed, Kept, NEW q, Careful(q),
         NEW r \in pending, q \in {0, r},
         slot' = ClearIndex(slot, r), pending' = pending \ {r},
         UNCHANGED <<launch, app, unconfirmed, cancelled, ustops>>,
         \A x \in stops' : \/ x \in stops
                           \/ /\ Begun(x.id) /\ x.slot = launch[r].slot
                              /\ launch[x.id].slot = launch[r].slot,
         q = r => HandledNext(r),
         CmdsTrue', EventsTrue', \A t \in Slots : Retiring(t)' => Retiring(t)
  PROVE  Kept'
<1>1. PICK s \in Slots : s = launch[r].slot
  BY PendingFacts
<1>2. /\ slot'[s].st = slot[s].st /\ slot'[s].pid = slot[s].pid
      /\ slot'[s].ureq = 0 /\ slot'[s].idx = 0 /\ slot'[s].want = slot[s].want
      /\ \A t \in Slots \ {s} : slot'[t] = slot[t]
  BY <1>1, ClearedFields
<1>3. RunningPid(s)' = RunningPid(s)
  BY <1>2 DEF RunningPid
<1>4. Taken(s) /\ \A u \in unconfirmed : launch[u].slot # s
  BY <1>1, PendingFacts
<1>5. 0 \notin DOMAIN launch /\ ProgramsKnown(s)
  BY Logged DEF Kept
<1>6. q \in DOMAIN launch => launch[q].slot = s /\ HandledNext(q)
  BY <1>1, <1>5
<1>7. ProgramsKnown(s)'
  BY <1>2, <1>3, <1>4, <1>5, <1>6, ProgramStep
<1>8. StartsKnown(s)'
  BY <1>2, <1>4, StartsOver
<1>9. slot'[Main].ureq \in {0, slot[Main].ureq}
  BY <1>2 DEF Slots
<1>10. MainWanted'
  BY <1>2 DEF Kept, MainWanted, Slots
<1>11. \A x \in stops' : \/ x \in stops
                         \/ Begun(x.id) /\ x.slot = s /\ launch[x.id].slot = s
  BY <1>1
<1>12. pending' \subseteq pending /\ cancelled' \subseteq cancelled
  OBVIOUS
<1>13. unconfirmed \subseteq unconfirmed' /\ \A u \in unconfirmed' : u \in unconfirmed
  OBVIOUS
<1>14. QED
  BY <1>2, <1>6, <1>7, <1>8, <1>9, <1>10, <1>11, <1>12, <1>13, AnswerKept

\* The same for a launch that was cancelled: no slot has changed.
LEMMA CancelledKept ==
  ASSUME TypeOK, TypeOK', Kept, NEW q, Careful(q),
         NEW r \in cancelled, q \in {0, r},
         UNCHANGED <<slot, pending, launch, app, unconfirmed, ustops>>,
         cancelled' \subseteq cancelled,
         \A x \in stops' : \/ x \in stops
                           \/ /\ Begun(x.id) /\ x.slot = launch[r].slot
                              /\ launch[x.id].slot = launch[r].slot,
         q = r => HandledNext(r),
         CmdsTrue', EventsTrue',
         \A t \in Slots : Retiring(t)' => Retiring(t) \/ t = launch[r].slot
  PROVE  Kept'
<1>1. PICK s \in Slots : s = launch[r].slot
  BY Logged DEF TypeOK
<1>2. Stopping(s) /\ Ending(s)
  BY <1>1 DEF Stopping, Ending
<1>3. RunningPid(s)' = RunningPid(s)
  BY DEF RunningPid
<1>4. 0 \notin DOMAIN launch /\ ProgramsKnown(s) /\ StartsKnown(s) /\ Taken(s)
  BY <1>2, Logged DEF Kept, Taken
<1>5. slot[s].ureq = 0 /\ slot[s].idx = 0
  BY <1>2, <1>4 DEF StartsKnown, StoppingIsIdle, UnconfirmedIsAlone
<1>6. q \in DOMAIN launch => launch[q].slot = s /\ HandledNext(q)
  BY <1>1, <1>4
<1>7. ProgramsKnown(s)'
  BY <1>3, <1>4, <1>6, ProgramStep
<1>8. \A u \in unconfirmed' : launch[u].slot # s
  <2>1. \A u \in unconfirmed : u # 0
    BY Logged DEF TypeOK
  <2>2. QED
    BY <1>4, <1>5, <2>1 DEF StartsKnown, UnconfirmedIsNamed
<1>9. StartsKnown(s)'
  BY <1>5, <1>8, StartsOver
<1>10. MainWanted'
  BY DEF Kept, MainWanted
<1>11. \A x \in stops' : \/ x \in stops
                         \/ Begun(x.id) /\ x.slot = s /\ launch[x.id].slot = s
  BY <1>1
<1>12. pending' \subseteq pending /\ unconfirmed \subseteq unconfirmed'
  OBVIOUS
<1>13. \A t \in Slots \ {s} : Retiring(t)' => Retiring(t)
  BY <1>1
<1>14. QED
  BY <1>6, <1>7, <1>9, <1>10, <1>11, <1>12, <1>13, AnswerKept

\* The answer to the current launch: the slot runs r, may be running it, or
\* runs nothing.
LEMMA CurrentKept ==
  ASSUME ConstantsAssumption, TypeOK, TypeOK', Indexed, Kept, NEW q, Careful(q),
         NEW r \in pending, IsCurrent(r), NEW s \in Slots, s = launch[r].slot,
         slot'[s].idx = 0, slot'[s].want = slot[s].want,
         \A t \in Slots \ {s} : slot'[t] = slot[t],
         \/ slot'[s].pid = 0 /\ q = 0
         \/ slot'[s].pid = r /\ slot'[s].st \in Live /\ Begun(r) /\ q = r,
         \/ slot'[s].ureq = 0 /\ UNCHANGED unconfirmed
         \/ /\ slot'[s].ureq = r /\ unconfirmed' = unconfirmed \cup {r}
            /\ slot'[s].st \in Live /\ slot'[s].pid = 0,
         UNCHANGED <<launch, app, stops, ustops, cancelled>>,
         pending' = pending \ {r}, CmdsTrue', EventsTrue',
         \A t \in Slots : Retiring(t)' => Retiring(t)
  PROVE  Kept'
<1>1. /\ r # 0 /\ slot[s].idx = r /\ slot[s].ureq = 0
      /\ ~Stopping(s) /\ ~Retiring(s) /\ Handled(RunningPid(s))
      /\ \A u \in unconfirmed : launch[u].slot # s
  BY PendingFacts
<1>2. ~Stopping(s)' /\ ~Retiring(s)' /\ ~Ending(s)'
  <2>1. ~Stopping(s)'
    BY <1>1 DEF Stopping
  <2>2. ~Ending(s)'
    BY <2>1 DEF Ending, Stopping
  <2>3. QED
    BY <1>1, <2>1, <2>2
<1>3. 0 \notin DOMAIN launch /\ r \in DOMAIN launch /\ ProgramsKnown(s)
  BY Logged DEF Kept, TypeOK
<1>4. /\ q \in DOMAIN launch => launch[q].slot = s /\ RunningPid(s)' = q
      /\ ~Taken(s)'
  <2>1. slot'[s].pid = 0 \/ RunningPid(s)' = r
    BY DEF RunningPid
  <2>2. ~Taken(s)'
    BY <1>2 DEF Taken
  <2>3. QED
    BY <1>1, <1>3, <2>1, <2>2
<1>5. ProgramsKnown(s)'
  <2>1. \/ slot'[s].pid \in {0, slot[s].pid}
        \/ Begun(slot'[s].pid) /\ launch[slot'[s].pid].slot = s
    OBVIOUS
  <2>2. QED
    BY <1>1, <1>3, <1>4, <2>1, ProgramStep
<1>6. StartsKnown(s)'
  <2>1. StoppingIsIdle(s)' /\ UnconfirmedIsAlone(s)'
    BY <1>2 DEF StoppingIsIdle, UnconfirmedIsAlone
  <2>2. UnconfirmedIsNamed(s)'
    BY <1>1 DEF UnconfirmedIsNamed
  <2>3. QED
    BY <2>1, <2>2 DEF StartsKnown
<1>7. \/ slot'[Main].ureq \in {0, slot[Main].ureq}
      \/ \A x \in ustops' : x.slot # Main
  <2>1. CASE s = Main
    BY <1>1, <2>1 DEF Stopping
  <2>2. CASE s # Main
    BY <2>2 DEF Slots
  <2>3. QED
    BY <2>1, <2>2
<1>8. MainWanted'
  <2>1. slot[s].want # None
    BY <1>3, CurrentIsWanted
  <2>2. CASE s = Main
    BY <2>1, <2>2 DEF MainWanted
  <2>3. CASE s # Main
    BY <2>3 DEF Kept, MainWanted, Slots
  <2>4. QED
    BY <2>2, <2>3
<1>9. /\ pending' \subseteq pending /\ cancelled' \subseteq cancelled
      /\ unconfirmed \subseteq unconfirmed'
      /\ \A u \in unconfirmed' : \/ u \in unconfirmed
                                 \/ u \in pending /\ launch[u].slot = s
      /\ \A x \in stops' : x \in stops
  OBVIOUS
<1>10. \A t \in Slots \ {s} : Retiring(t)' => Retiring(t)
  OBVIOUS
<1>11. q \in DOMAIN launch => launch[q].slot = s
  BY <1>4
<1>12. QED
  BY <1>5, <1>6, <1>7, <1>8, <1>9, <1>10, <1>11, AnswerKept

\* Commands that were not sent are still true.
LEMMA NothingSentTrue ==
  ASSUME Kept, UNCHANGED <<cmds, app>>
  PROVE  CmdsTrue'
BY DEF Kept, CmdsTrue, CmdTrue, Begun

\* The event applied, and the request it is about.
LEMMA EventApplied ==
  ASSUME TypeOK, TypeOK', Kept, work # <<>>
  PROVE  EventTrue(Head(work))
<1>1. 1 \in DOMAIN work /\ Head(work) = work[1]
  BY HeadOfAgenda
<1>2. QED
  BY <1>1 DEF Kept, EventsTrue

LEMMA SpawnStartedKept ==
  ASSUME ConstantsAssumption, TypeOK, TypeOK', Indexed, Kept, SpawnStarted
  PROVE  Kept'
<1>1. /\ work # <<>> /\ Head(work).op = "started" /\ Do(<<>>)
      /\ UNCHANGED <<launch, unconfirmed, ustops, evts, children>>
      /\ UNCHANGED <<launch, app, evts>>
  BY DEF SpawnStarted, Applying, children
<1>2. PICK r : r = Subject
  OBVIOUS
<1>3. Begun(r)
  BY <1>1, <1>2, EventApplied DEF EventTrue, Subject
<1>4. r \in DOMAIN launch /\ r # 0 /\ r \in Int
  BY <1>3, Logged DEF Begun
<1>5. PICK s \in Slots : s = launch[r].slot
  BY <1>4, Logged
<1>6. /\ EventsTrue'
      /\ \A p : Undelivered("started", p) /\ p # r => Undelivered("started", p)'
      /\ \A t \in Slots : Retiring(t)' => Retiring(t)
  BY <1>1, <1>2, AgendaDone
<1>7. Grows
  BY <1>1, Unchanged
<1>8. ASSUME StopLate(r)
      PROVE  /\ CmdsTrue' /\ Careful(r) /\ HandledNext(r)
             /\ \A x \in stops' : \/ x \in stops
                                  \/ /\ Begun(x.id) /\ x.slot = s
                                     /\ launch[x.id].slot = s
  <2>1. Terminate(r, "stale", s, cmds) /\ cmds \in Seq(CmdRecord) /\ Clean(cmds)
    BY <1>5, <1>8 DEF StopLate, TypeOK, Kept, CmdsTrue, Clean
  <2>2. /\ Clean(cmds') /\ stops \subseteq stops'
        /\ \A x \in stops' : x \in stops \/ (x.id = r /\ r # 0 /\ x.slot = s)
        /\ r # 0 => \E x \in stops' : x.id = r
    BY <1>3, <1>4, <2>1, TerminateOwned
  <2>3. CmdsTrue'
    BY <1>7, <2>2, CleanStays
  <2>4. Careful(r)
    BY <1>6, <1>7, <2>2 DEF Careful
  <2>5. HandledNext(r)
    BY <1>4, <2>2 DEF HandledNext
  <2>6. QED
    BY <1>3, <1>5, <2>2, <2>3, <2>4, <2>5
<1>9. CASE /\ r \in pending /\ IsCurrent(r)
           /\ slot' = [ClearIndex(slot, r) EXCEPT ![s] = [@ EXCEPT
                         !.st = "launching", !.pid = r, !.ureq = 0, !.token = r]]
           /\ pending' = pending \ {r}
           /\ UNCHANGED <<cancelled, stops, cmds>>
  <2>1. /\ slot'[s].st = "launching" /\ slot'[s].pid = r /\ slot'[s].ureq = 0
        /\ slot'[s].idx = 0 /\ slot'[s].want = slot[s].want
        /\ \A t \in Slots \ {s} : slot'[t] = slot[t]
    BY <1>5, <1>9, Cleared DEF SlotRecord
  <2>2. CmdsTrue' /\ Careful(r) /\ "launching" \in Live
    BY <1>1, <1>6, <1>7, <1>9, NothingSentTrue DEF Careful, Live
  <2>3. QED
    BY <1>1, <1>3, <1>5, <1>6, <1>9, <2>1, <2>2, CurrentKept
<1>10. CASE /\ r \in pending /\ ~IsCurrent(r)
            /\ slot' = ClearIndex(slot, r)
            /\ pending' = pending \ {r}
            /\ StopLate(r)
            /\ UNCHANGED cancelled
  BY <1>1, <1>5, <1>6, <1>8, <1>10, OutdatedKept
<1>11. CASE /\ r \in cancelled
            /\ cancelled' = cancelled \ {r}
            /\ StopLate(r)
            /\ UNCHANGED <<slot, pending>>
  BY <1>1, <1>5, <1>6, <1>8, <1>11, CancelledKept
<1>12. QED
  BY <1>2, <1>5, <1>9, <1>10, <1>11 DEF SpawnStarted

\* A handler that asks for the launch of slot s again.
LEMMA AgendaRetried ==
  ASSUME TypeOK, TypeOK', Kept, UNCHANGED <<launch, app, evts>>, work # <<>>,
         Head(work).op # "started", NEW s \in Slots, Do(Retry(s))
  PROVE  /\ EventsTrue'
         /\ \A r : Undelivered("started", r) => Undelivered("started", r)'
         /\ \A t \in Slots : Retiring(t)' => Retiring(t) \/ t = s
<1> DEFINE items == Retry(s)
<1>1. /\ items \in Seq(WorkRecord)
      /\ \A j \in DOMAIN items : items[j] = Launch(s)
  BY TodoType DEF Retry
<1>2. Launch(s).op = "launch" /\ (Launch(s) = Launch(Shell) => s = Shell)
  BY DEF Launch, Todo
<1>3. EventsTrue /\ Grows
  BY Unchanged DEF Kept
<1> HIDE DEF items
<1>4. \A j \in DOMAIN items : items[j].op \in {"poll", "launch"}
  BY <1>1, <1>2
<1>5. Do(items)
  BY DEF items
<1>6. /\ EventsTrue'
      /\ \A r : Undelivered("started", r)
                  /\ (Head(work).op # "started" \/ r # Subject)
                => Undelivered("started", r)'
      /\ \A t \in Slots :
            Retiring(t)' => \/ Retiring(t)
                            \/ /\ t = Shell
                               /\ \E j \in DOMAIN items : items[j] = Launch(Shell)
  BY <1>1, <1>3, <1>4, <1>5, AgendaTrue
<1>7. QED
  BY <1>1, <1>2, <1>6

LEMMA SpawnUnconfirmedKept ==
  ASSUME ConstantsAssumption, TypeOK, TypeOK', Indexed, Kept, SpawnUnconfirmed
  PROVE  Kept'
<1>1. /\ work # <<>> /\ Head(work).op = "unconfirmed" /\ Do(<<>>)
      /\ UNCHANGED <<launch, app, evts, stops, ustops, cmds>>
  BY DEF SpawnUnconfirmed, Applying, children
<1>2. PICK r : r = Subject
  OBVIOUS
<1>3. /\ EventsTrue'
      /\ \A p : Undelivered("started", p) => Undelivered("started", p)'
      /\ \A t \in Slots : Retiring(t)' => Retiring(t)
  BY <1>1, AgendaDone
<1>4. Careful(0) /\ CmdsTrue'
  BY <1>1, <1>3, Unchanged, NothingSentTrue DEF Careful
<1>5. \A q \in DOMAIN launch : q # 0
  BY Logged
<1>6. CASE /\ r \in pending /\ IsCurrent(r)
           /\ slot' = [ClearIndex(slot, r) EXCEPT ![launch[r].slot] = [@ EXCEPT
                         !.st = "launching", !.pid = 0, !.ureq = r, !.token = r]]
           /\ pending' = pending \ {r}
           /\ unconfirmed' = unconfirmed \cup {r}
           /\ UNCHANGED cancelled
  <2>1. PICK s \in Slots : s = launch[r].slot
    BY <1>6, Cleared
  <2>2. /\ slot'[s].st = "launching" /\ slot'[s].pid = 0 /\ slot'[s].ureq = r
        /\ slot'[s].idx = 0 /\ slot'[s].want = slot[s].want
        /\ \A t \in Slots \ {s} : slot'[t] = slot[t]
    BY <1>6, <2>1, Cleared DEF SlotRecord
  <2>3. "launching" \in Live
    BY DEF Live
  <2>4. QED
    BY <1>1, <1>3, <1>4, <1>6, <2>1, <2>2, <2>3, CurrentKept
<1>7. CASE /\ r \in pending /\ ~IsCurrent(r)
           /\ slot' = ClearIndex(slot, r)
           /\ pending' = pending \ {r}
           /\ UNCHANGED <<cancelled, unconfirmed>>
  <2>1. 0 = r => HandledNext(r)
    BY <1>5, <1>7 DEF TypeOK
  <2>2. QED
    BY <1>1, <1>3, <1>4, <1>7, <2>1, OutdatedKept
<1>8. CASE /\ r \in cancelled
           /\ cancelled' = cancelled \ {r}
           /\ UNCHANGED <<slot, pending, unconfirmed>>
  <2>1. 0 = r => HandledNext(r)
    BY <1>5, <1>8 DEF TypeOK
  <2>2. QED
    BY <1>1, <1>3, <1>4, <1>8, <2>1, CancelledKept
<1>9. QED
  BY <1>2, <1>6, <1>7, <1>8 DEF SpawnUnconfirmed

LEMMA SpawnFailedKept ==
  ASSUME ConstantsAssumption, TypeOK, TypeOK', Indexed, Kept, SpawnFailed
  PROVE  Kept'
<1>1. /\ work # <<>> /\ Head(work).op = "failed"
      /\ UNCHANGED <<launch, app, evts, stops, ustops, cmds, unconfirmed>>
  BY DEF SpawnFailed, Applying, children
<1>2. PICK r : r = Subject
  OBVIOUS
<1>3. ASSUME Do(<<>>)
      PROVE  /\ EventsTrue' /\ Careful(0)
             /\ \A t \in Slots : Retiring(t)' => Retiring(t)
  BY <1>1, <1>3, AgendaDone, Unchanged DEF Careful
<1>4. CmdsTrue'
  BY <1>1, NothingSentTrue
<1>5. \A q \in DOMAIN launch : q # 0
  BY Logged
<1>6. CASE /\ r \in pending /\ IsCurrent(r) /\ Do(<<>>)
           /\ slot' = [ClearIndex(slot, r) EXCEPT ![launch[r].slot] = [@ EXCEPT
                         !.st = "failed", !.pid = 0, !.ureq = 0, !.token = 0]]
           /\ pending' = pending \ {r}
           /\ UNCHANGED cancelled
  <2>1. PICK s \in Slots : s = launch[r].slot
    BY <1>6, Cleared
  <2>2. /\ slot'[s].st = "failed" /\ slot'[s].pid = 0 /\ slot'[s].ureq = 0
        /\ slot'[s].idx = 0 /\ slot'[s].want = slot[s].want
        /\ \A t \in Slots \ {s} : slot'[t] = slot[t]
    BY <1>6, <2>1, Cleared DEF SlotRecord
  <2>3. QED
    BY <1>1, <1>3, <1>4, <1>6, <2>1, <2>2, CurrentKept
<1>7. CASE /\ r \in pending /\ ~IsCurrent(r) /\ Do(<<>>)
           /\ slot' = ClearIndex(slot, r)
           /\ pending' = pending \ {r}
           /\ UNCHANGED cancelled
  <2>1. 0 = r => HandledNext(r)
    BY <1>5, <1>7 DEF TypeOK
  <2>2. QED
    BY <1>1, <1>3, <1>4, <1>7, <2>1, OutdatedKept
<1>8. CASE /\ r \in cancelled /\ Do(Retry(launch[r].slot))
           /\ cancelled' = cancelled \ {r}
           /\ UNCHANGED <<slot, pending>>
  <2>1. 0 = r => HandledNext(r)
    BY <1>5, <1>8 DEF TypeOK
  <2>2. launch[r].slot \in Slots
    BY <1>8, Logged DEF TypeOK
  <2>3. /\ EventsTrue'
        /\ \A p : Undelivered("started", p) => Undelivered("started", p)'
        /\ \A t \in Slots : Retiring(t)' => Retiring(t) \/ t = launch[r].slot
    BY <1>1, <1>8, <2>2, AgendaRetried
  <2>4. Careful(0)
    BY <1>1, <2>3, Unchanged DEF Careful
  <2>5. QED
    BY <1>1, <1>4, <1>8, <2>1, <2>3, <2>4, CancelledKept
<1>9. QED
  BY <1>2, <1>6, <1>7, <1>8 DEF SpawnFailed

-----------------------------------------------------------------------------
(* The answers to a termination                                             *)

\* A slot whose stop is answered waited for it, and gives up what it ran or
\* keeps it, handled.
LEMMA StopAnswered ==
  ASSUME TypeOK, TypeOK', Kept, Careful(0), NEW s \in Slots, Stopping(s),
         UNCHANGED <<launch, app, pending, cancelled>>,
         stops' \subseteq stops, ustops' \subseteq ustops,
         unconfirmed' \subseteq unconfirmed,
         \A u \in unconfirmed : u \in unconfirmed' \/ launch[u].slot = s,
         \A u \in unconfirmed' : launch[u].slot # s,
         slot'[s].idx = slot[s].idx, slot'[s].ureq = 0,
         slot'[s].want = slot[s].want,
         \/ slot'[s].pid = slot[s].pid /\ slot'[s].st = slot[s].st
         \/ slot'[s].pid = 0 /\ slot'[s].st \notin Live,
         \A t \in Slots \ {s} : slot'[t] = slot[t],
         \A t \in Slots \ {s} : Retiring(t)' => Retiring(t),
         CmdsTrue', EventsTrue'
  PROVE  Kept'
<1>1. ProgramsKnown(s) /\ StartsKnown(s) /\ Taken(s) /\ 0 \notin DOMAIN launch
  BY Logged DEF Kept, Taken
<1>2. slot[s].idx = 0 /\ Handled(RunningPid(s))
  BY <1>1 DEF StartsKnown, StoppingIsIdle, ProgramsKnown, TakenIsHandled
<1>3. RunningPid(s)' \in {0, RunningPid(s)}
  BY DEF RunningPid
<1>4. Taken(s)' => \/ HandledNext(RunningPid(s)')
                   \/ RunningPid(s)' = RunningPid(s) /\ Taken(s)
  BY <1>1, <1>3 DEF HandledNext
<1>5. slot'[s].pid \in {0, slot[s].pid}
  OBVIOUS
<1>6. ProgramsKnown(s)'
  BY <1>1, <1>2, <1>4, <1>5, ProgramStep
<1>7. StartsKnown(s)'
  BY <1>2, StartsOver
<1>8. slot'[Main].ureq \in {0, slot[Main].ureq}
  BY DEF Slots
<1>9. MainWanted'
  BY DEF Kept, MainWanted, Slots
<1>10. /\ pending' \subseteq pending /\ cancelled' \subseteq cancelled
       /\ \A u \in unconfirmed' : u \in unconfirmed
       /\ \A x \in stops' : x \in stops
  OBVIOUS
<1>11. QED
  BY <1>1, <1>6, <1>7, <1>8, <1>9, <1>10, AnswerKept

LEMMA TerminatedKept ==
  ASSUME TypeOK, TypeOK', Kept, Terminated
  PROVE  Kept'
<1>1. /\ work # <<>> /\ Head(work).op = "terminated"
      /\ UNCHANGED <<launch, app, evts, cmds, pending, unconfirmed, cancelled, ustops>>
  BY DEF Terminated, Applying, children
<1>2. PICK x \in stops :
        /\ x.id = Subject /\ stops' = stops \ {x} /\ Do(Retry(x.slot))
        /\ \/ slot' = [slot EXCEPT ![x.slot] = [@ EXCEPT !.st = "failed",
                                                  !.pid = 0, !.token = 0]]
           \/ slot' = [slot EXCEPT ![x.slot] = [@ EXCEPT !.st = Rest(x.slot),
                                                  !.pid = 0, !.token = 0]]
           \/ slot' = slot
  BY DEF Terminated
<1>3. PICK s \in Slots : s = x.slot
  BY DEF TypeOK, Stop
<1>4. Ended(x.id)
  BY <1>1, <1>2, EventApplied DEF EventTrue, Subject
<1>5. /\ EventsTrue'
      /\ \A p : Undelivered("started", p) => Undelivered("started", p)'
      /\ \A t \in Slots : Retiring(t)' => Retiring(t) \/ t = s
  BY <1>1, <1>2, <1>3, AgendaRetried
<1>6. Careful(0) /\ CmdsTrue'
  BY <1>1, <1>2, <1>4, <1>5, Unchanged, NothingSentTrue DEF Careful
<1>7. Stopping(s) /\ Ending(s)
  BY <1>3 DEF Stopping, Ending
<1>8. slot[s].ureq = 0 /\ \A u \in unconfirmed : launch[u].slot # s
  <2>1. StartsKnown(s)
    BY DEF Kept
  <2>2. slot[s].ureq = 0
    BY <1>7, <2>1 DEF StartsKnown, UnconfirmedIsAlone
  <2>3. \A u \in unconfirmed : u # 0
    BY Logged DEF TypeOK
  <2>4. QED
    BY <2>1, <2>2, <2>3 DEF StartsKnown, UnconfirmedIsNamed
<1>9. /\ slot'[s].idx = slot[s].idx /\ slot'[s].ureq = slot[s].ureq
      /\ slot'[s].want = slot[s].want
      /\ \/ slot'[s].pid = slot[s].pid /\ slot'[s].st = slot[s].st
         \/ slot'[s].pid = 0 /\ slot'[s].st \in {"failed", Rest(s)}
      /\ \A t \in Slots \ {s} : slot'[t] = slot[t]
  <2>1. CASE slot' = slot
    BY <2>1
  <2>2. CASE slot' = [slot EXCEPT ![s] = [@ EXCEPT !.st = "failed",
                                            !.pid = 0, !.token = 0]]
    BY <2>2 DEF TypeOK, SlotRecord
  <2>3. CASE slot' = [slot EXCEPT ![s] = [@ EXCEPT !.st = Rest(s),
                                            !.pid = 0, !.token = 0]]
    BY <2>3 DEF TypeOK, SlotRecord
  <2>4. QED
    BY <1>2, <1>3, <2>1, <2>2, <2>3
<1>10. "failed" \notin Live /\ Rest(s) \notin Live
  BY DEF Rest, Live
<1>11. \A t \in Slots \ {s} : Retiring(t)' => Retiring(t)
  BY <1>5
<1>12. stops' \subseteq stops
  BY <1>2
<1>13. QED
  BY <1>1, <1>5, <1>6, <1>7, <1>8, <1>9, <1>10, <1>11, <1>12, StopAnswered

LEMMA TerminatedUnconfirmedKept ==
  ASSUME TypeOK, TypeOK', Kept, TerminatedUnconfirmed
  PROVE  Kept'
<1>1. /\ work # <<>> /\ Head(work).op = "terminatedUnconfirmed"
      /\ UNCHANGED <<launch, app, evts, cmds, pending, cancelled, stops>>
  BY DEF TerminatedUnconfirmed, Applying, children
<1>2. PICK x \in ustops :
        /\ ustops' = ustops \ {x} /\ unconfirmed' = unconfirmed \ {x.id}
        /\ Do(Retry(x.slot))
        /\ \/ /\ x.kind = "slot" => slot[x.slot].ureq = x.id
              /\ slot' = [slot EXCEPT ![x.slot] = [@ EXCEPT !.st = Rest(x.slot),
                   !.pid = 0, !.token = 0,
                   !.ureq = IF x.slot \in Panes \/ slot[x.slot].ureq = x.id
                            THEN 0 ELSE slot[x.slot].ureq]]
           \/ /\ x.kind = "slot" => slot[x.slot].ureq # x.id
              /\ slot' = slot
  BY DEF TerminatedUnconfirmed
<1>3. PICK s \in Slots : s = x.slot
  BY DEF TypeOK, Stop
<1>4. /\ x.id \in DOMAIN launch /\ launch[x.id].slot = s /\ x.id # 0
      /\ x.kind = "stale" => s # Main
      /\ x.kind = "slot" => s = Main /\ slot[s].ureq \in {0, x.id}
      /\ x.kind \in {"slot", "stale"}
  BY <1>3, Logged DEF Kept, StopsOwned, TypeOK, Stop
<1>5. /\ EventsTrue'
      /\ \A p : Undelivered("started", p) => Undelivered("started", p)'
      /\ \A t \in Slots : Retiring(t)' => Retiring(t) \/ t = s
  BY <1>1, <1>2, <1>3, AgendaRetried
<1>6. Careful(0) /\ CmdsTrue'
  BY <1>1, <1>5, Unchanged, NothingSentTrue DEF Careful
<1>7. Stopping(s) /\ (s # Main => Ending(s)) /\ StartsKnown(s)
  BY <1>3 DEF Stopping, Ending, Kept
<1>8. slot[s].ureq # 0 => x.kind = "slot" /\ slot[s].ureq = x.id
  BY <1>4, <1>7 DEF StartsKnown, UnconfirmedIsAlone
<1>9. \A u \in unconfirmed' : launch[u].slot # s
  <2>1. \A u \in unconfirmed : u # 0
    BY Logged DEF TypeOK
  <2>2. \A u \in unconfirmed : launch[u].slot = s => u = x.id
    BY <1>7, <1>8, <2>1 DEF StartsKnown, UnconfirmedIsNamed
  <2>3. QED
    BY <1>2, <2>2
<1>10. /\ slot'[s].idx = slot[s].idx /\ slot'[s].ureq = 0
       /\ slot'[s].want = slot[s].want
       /\ \/ slot'[s].pid = slot[s].pid /\ slot'[s].st = slot[s].st
          \/ slot'[s].pid = 0 /\ slot'[s].st = Rest(s)
       /\ \A t \in Slots \ {s} : slot'[t] = slot[t]
  <2>1. CASE slot' = slot /\ (x.kind = "slot" => slot[s].ureq # x.id)
    <3>1. slot[s].ureq = 0
      BY <1>8, <2>1
    <3>2. QED
      BY <2>1, <3>1
  <2>2. CASE slot' = [slot EXCEPT ![s] = [@ EXCEPT !.st = Rest(s),
                        !.pid = 0, !.token = 0, !.ureq = 0]]
    BY <2>2 DEF TypeOK, SlotRecord
  <2>3. (IF s \in Panes \/ slot[s].ureq = x.id THEN 0 ELSE slot[s].ureq) = 0
    BY <1>8
  <2>4. QED
    BY <1>2, <1>3, <2>1, <2>2, <2>3
<1>11. Rest(s) \notin Live
  BY DEF Rest, Live
<1>12. \A t \in Slots \ {s} : Retiring(t)' => Retiring(t)
  BY <1>5
<1>13. /\ stops' \subseteq stops /\ ustops' \subseteq ustops
       /\ unconfirmed' \subseteq unconfirmed
       /\ \A u \in unconfirmed : u \in unconfirmed' \/ launch[u].slot = s
  BY <1>1, <1>2, <1>4
<1>14. QED
  BY <1>1, <1>5, <1>6, <1>7, <1>9, <1>10, <1>11, <1>12, <1>13, StopAnswered

\* A launch in doubt has ended by itself.
LEMMA UnconfirmedExitedKept ==
  ASSUME TypeOK, TypeOK', Kept, UnconfirmedExited
  PROVE  Kept'
<1>1. /\ work # <<>> /\ Head(work).op = "unconfirmedExited" /\ Do(<<>>)
      /\ UNCHANGED <<launch, app, evts, cmds, pending, cancelled, stops, ustops>>
      /\ UNCHANGED children
  BY DEF UnconfirmedExited, Applying, children
<1>2. PICK r : r = Subject
  OBVIOUS
<1>3. /\ EventsTrue'
      /\ \A p : Undelivered("started", p) => Undelivered("started", p)'
      /\ \A t \in Slots : Retiring(t)' => Retiring(t)
  BY <1>1, AgendaDone
<1>4. Careful(0) /\ CmdsTrue' /\ 0 \notin DOMAIN launch
  BY <1>1, <1>3, Unchanged, NothingSentTrue, Logged DEF Careful
<1>5. CASE r \notin unconfirmed
  <2>1. slot' = slot /\ unconfirmed' = unconfirmed
    BY <1>2, <1>5 DEF UnconfirmedExited
  <2>2. UNCHANGED <<tables, cmds, children>>
    BY <1>1, <2>1 DEF tables
  <2>3. MainWanted'
    BY <2>1 DEF Kept, MainWanted
  <2>4. QED
    BY <1>3, <2>1, <2>2, <2>3, QuietKept
<1>6. CASE r \in unconfirmed
  <2>1. PICK s \in Slots : s = launch[r].slot
    BY <1>6, Logged DEF TypeOK
  <2>2. ProgramsKnown(s) /\ StartsKnown(s) /\ r # 0
    BY <1>4, <1>6 DEF Kept, TypeOK
  <2>3. slot[s].ureq = r /\ slot[s].pid = 0 /\ slot[s].idx = 0
    BY <1>6, <2>1, <2>2 DEF StartsKnown, UnconfirmedIsNamed, UnconfirmedIsAlone
  <2>4. slot' = [slot EXCEPT ![s] = [@ EXCEPT !.st = "exited", !.pid = 0, !.ureq = 0]]
    BY <1>2, <1>6, <2>1, <2>3 DEF UnconfirmedExited
  <2>5. /\ slot'[s].st = "exited" /\ slot'[s].pid = 0
        /\ slot'[s].ureq = 0 /\ slot'[s].idx = 0
        /\ \A t \in Slots \ {s} : slot'[t] = slot[t]
    BY <2>3, <2>4 DEF TypeOK, SlotRecord
  <2>6. RunningPid(s) = 0 /\ RunningPid(s)' = 0
    BY <2>3, <2>5 DEF RunningPid
  <2>7. HandledNext(RunningPid(s)') /\ slot'[s].pid \in {0, slot[s].pid}
    BY <2>5, <2>6 DEF HandledNext
  <2>8. ProgramsKnown(s)'
    BY <1>4, <2>2, <2>6, <2>7, ProgramStep
  <2>9. unconfirmed' = unconfirmed \ {r}
    BY <1>2 DEF UnconfirmedExited
  <2>10. \A u \in unconfirmed' : launch[u].slot # s
    BY <2>2, <2>3, <2>9 DEF StartsKnown, UnconfirmedIsNamed
  <2>11. StartsKnown(s)'
    BY <1>1, <2>5, <2>10, StartsOver
  <2>12. slot'[Main].ureq \in {0, slot[Main].ureq}
    BY <2>5 DEF Slots
  <2>13. MainWanted'
    BY <2>5 DEF Kept, MainWanted, Slots, Live
  <2>14. /\ ustops' \subseteq ustops /\ pending' \subseteq pending
         /\ cancelled' \subseteq cancelled /\ \A x \in stops' : x \in stops
         /\ \A u \in unconfirmed' : u \in unconfirmed
         /\ \A u \in unconfirmed : u \in unconfirmed' \/ launch[u].slot = s
    BY <1>1, <2>1, <2>9
  <2>15. QED
    BY <1>1, <1>3, <1>4, <2>5, <2>8, <2>11, <2>12, <2>13, <2>14, AnswerKept
<1>7. QED
  BY <1>5, <1>6

-----------------------------------------------------------------------------
(* Replacing the main app                                                   *)

\* An unconfirmed main app is asked to end and stays what it is.
LEMMA MainInDoubtKept ==
  ASSUME ConstantsAssumption, TypeOK, TypeOK', Indexed, Kept, TerminateMain,
         slot[Main].ureq # 0,
         slot'[Main].pid = slot[Main].pid, slot'[Main].st = slot[Main].st,
         slot'[Main].idx = slot[Main].idx, slot'[Main].ureq = slot[Main].ureq,
         \A t \in Slots \ {Main} : slot'[t] = slot[t],
         EventsTrue', MainWanted', \A t \in Slots : ~Retiring(t)',
         \A r : Undelivered("started", r) => Undelivered("started", r)'
  PROVE  Kept'
<1> DEFINE u == slot[Main].ureq
           c == Cmd("terminateUnconfirmed", u)
<1>1. /\ UNCHANGED <<launch, app, pending, unconfirmed, cancelled, stops>>
      /\ \A x \in ustops' :
           \/ x \in ustops
           \/ x.id = u /\ x.kind = "slot" /\ x.slot = Main
      /\ cmds' = cmds \/ cmds' = Append(cmds, c)
  BY DEF TerminateMain, children
<1>2. Main \in Slots
  BY DEF Slots
<1>3. /\ ProgramsKnown(Main) /\ StartsKnown(Main)
      /\ slot[Main].idx = 0 /\ slot[Main].pid = 0
      /\ u \in unconfirmed /\ launch[u].slot = Main /\ ~Ending(Main)
  BY <1>2 DEF Kept, StartsKnown, UnconfirmedIsAlone, UnconfirmedIsNamed
<1>4. u \notin pending /\ u \in DOMAIN launch /\ 0 \notin DOMAIN launch
  BY <1>3, UnconfirmedIsNotPending, Logged DEF Indexed, TypeOK
<1>5. Careful(0)
  BY <1>1, Unchanged DEF Careful
<1>6. CmdsTrue'
  <2>1. /\ c \in CmdRecord /\ c.op = "terminateUnconfirmed"
        /\ cmds \in Seq(CmdRecord) /\ Clean(cmds)
    BY DEF Cmd, CmdRecord, TypeOK, SlotRecord, Slots, Kept, CmdsTrue, Clean
  <2> HIDE DEF c
  <2>2. Clean(Append(cmds, c))
    BY <2>1, CleanAppend
  <2>3. Clean(cmds')
    BY <1>1, <2>1, <2>2, Zenon
  <2>4. QED
    BY <1>5, <2>3, CleanStays DEF Careful
<1>7. StopsOwned'
  <2>1. \A x \in ustops' :
          \/ x \in ustops
          \/ /\ x.id \in DOMAIN launch /\ x.id \notin pending'
             /\ x.slot = launch[x.id].slot
             /\ x.kind # "stale" /\ x.slot = Main /\ slot'[Main].ureq \in {0, x.id}
    BY <1>1, <1>3, <1>4
  <2>2. /\ \A x \in stops' : x \in stops
        /\ \A r \in pending' : r \in pending
        /\ \A r \in unconfirmed' : r \in unconfirmed
        /\ slot'[Main].ureq \in {0, slot[Main].ureq}
        /\ StopsOwned /\ Grows
    BY <1>1, Unchanged DEF Kept
  <2> HIDE DEF u
  <2>3. QED
    BY <2>1, <2>2, StopsStay
<1>8. RunningPid(Main) = 0 /\ RunningPid(Main)' = 0
  BY <1>3 DEF RunningPid
<1>9. ProgramsKnown(Main)'
  <2>1. HandledNext(RunningPid(Main)')
    BY <1>8 DEF HandledNext
  <2>2. QED
    BY <1>2, <1>3, <1>4, <1>5, <1>8, <2>1, ProgramStep
<1>10. StartsKnown(Main)'
  <2>1. ~Ending(Main)'
    BY <1>1, <1>3 DEF Ending
  <2>2. StoppingIsIdle(Main)' /\ UnconfirmedIsAlone(Main)'
    BY <1>2, <1>3, <2>1 DEF StoppingIsIdle, UnconfirmedIsAlone
  <2>3. UnconfirmedIsNamed(Main)'
    BY <1>1, <1>3 DEF StartsKnown, UnconfirmedIsNamed
  <2>4. QED
    BY <2>2, <2>3 DEF StartsKnown
<1>11. ASSUME NEW t \in Slots \ {Main} PROVE Untouched(t)
  <2>1. StopsQuiet(t) /\ UnconfirmedQuiet(t)
    BY <1>1 DEF StopsQuiet, UnconfirmedQuiet
  <2>2. QED
    BY <2>1 DEF Untouched
<1>12. QED
  BY <1>2, <1>4, <1>5, <1>6, <1>7, <1>9, <1>10, <1>11, KeptAround

LEMMA MainRequestsKept ==
  ASSUME ConstantsAssumption, TypeOK, TypeOK', Indexed, Kept,
         ResetRuntime \/ \E intent \in Specs : SelectMainApp(intent)
  PROVE  Kept'
<1>1. /\ work = <<>> /\ TerminateMain
      /\ work' \in {<<Poll>>, <<Launch(Main), Poll>>}
  BY DEF ResetRuntime, SelectMainApp, Request
<1>2. Main \in Slots /\ Main # Shell
  BY DEF Slots, Main, Shell
<1>3. UNCHANGED <<launch, app>> /\ evts' = evts
  BY <1>1 DEF TerminateMain, ReleaseChild, children
<1>4. /\ EventsTrue'
      /\ \A r : Undelivered("started", r) => Undelivered("started", r)'
      /\ \A t \in Slots : ~Retiring(t)'
  <2>1. /\ Poll.op = "poll" /\ Poll # Launch(Shell)
        /\ Launch(Main).op = "launch" /\ Launch(Main) # Launch(Shell)
    BY <1>2 DEF Poll, Launch, Todo
  <2>2. PICK e : e \in {Poll, Launch(Main)} /\ work' \in {<<e>>, <<e, Poll>>}
    BY <1>1
  <2>3. {e.op, Poll.op} \subseteq {"poll", "launch", "removePane"}
    BY <2>1, <2>2
  <2>4. /\ EventsTrue'
        /\ \A r : Undelivered("started", r) => Undelivered("started", r)'
        /\ \A t \in Slots :
              Retiring(t)' => \/ e = Launch(Shell) /\ t = Shell
                              \/ Poll = Launch(Shell) /\ t = Shell
                              \/ e.op = "removePane" /\ e.slot = t
                              \/ Poll.op = "removePane" /\ Poll.slot = t
    BY <1>1, <1>3, <2>2, <2>3, OpenedWith
  <2>5. QED
    BY <2>1, <2>2, <2>4
<1>5. MainStopping \/ RunningPid(Main) = 0
  BY DEF MainStopping
<1>6. /\ \A t \in Slots \ {Main} : slot'[t] = slot[t]
      /\ slot'[Main].want \in {slot[Main].want} \cup Specs
      /\ slot'[Main].idx = MainReleased[Main].idx
      /\ \/ /\ slot'[Main].pid = slot[Main].pid /\ slot'[Main].st = slot[Main].st
            /\ slot'[Main].ureq = slot[Main].ureq
            /\ slot'[Main].want # None \/ slot'[Main].want = slot[Main].want
         \/ /\ slot[Main].ureq = 0 /\ slot'[Main].ureq = 0
            /\ slot'[Main].pid = 0 /\ slot'[Main].st \notin Live
  <2>1. slot \in [Slots -> SlotRecord] /\ MainReleased \in [Slots -> SlotRecord]
    BY MainReleasedType DEF TypeOK
  <2>2. /\ \A t \in Slots \ {Main} : MainReleased[t] = slot[t]
        /\ MainReleased[Main].pid = slot[Main].pid
        /\ MainReleased[Main].st = slot[Main].st
        /\ MainReleased[Main].ureq = slot[Main].ureq
        /\ MainReleased[Main].want = slot[Main].want
    BY <1>2, <2>1 DEF MainReleased, SlotRecord
  <2>3. ~MainStopping => slot[Main].ureq = 0
    BY DEF MainStopping
  <2>4. Rest(Main) \notin Live /\ "waiting" \notin Live
    BY DEF Rest, Live
  <2>5. CASE ResetRuntime /\ MainStopping
    BY <2>2, <2>5 DEF ResetRuntime
  <2>6. CASE ResetRuntime /\ ~MainStopping
    <3>1. PICK f : f = MainReleased
      OBVIOUS
    <3>2. slot' = [f EXCEPT ![Main] = [f[Main] EXCEPT !.st = Rest(Main),
                     !.pid = 0, !.token = 0, !.ureq = 0]]
      BY <2>6, <3>1 DEF ResetRuntime
    <3>3. f \in [Slots -> SlotRecord]
      BY <2>1, <3>1
    <3>4. \A t \in Slots \ {Main} : slot'[t] = f[t]
      BY <3>2, <3>3
    <3>5. slot'[Main] = [f[Main] EXCEPT !.st = Rest(Main),
                     !.pid = 0, !.token = 0, !.ureq = 0]
      BY <1>2, <3>2, <3>3
    <3>6. /\ slot'[Main].want = f[Main].want /\ slot'[Main].idx = f[Main].idx
          /\ slot'[Main].st = Rest(Main) /\ slot'[Main].pid = 0
          /\ slot'[Main].ureq = 0
      <4>1. f[Main] \in SlotRecord
        BY <1>2, <3>3
      <4>2. QED
        BY <3>5, <4>1 DEF SlotRecord
    <3>7. QED
      BY <2>2, <2>3, <2>4, <2>6, <3>1, <3>4, <3>6
  <2>7. ASSUME NEW intent \in Specs, SelectMainApp(intent), MainStopping
        PROVE  /\ \A t \in Slots \ {Main} : slot'[t] = slot[t]
               /\ slot'[Main].want = intent
               /\ slot'[Main].idx = MainReleased[Main].idx
               /\ slot'[Main].pid = slot[Main].pid /\ slot'[Main].st = slot[Main].st
               /\ slot'[Main].ureq = slot[Main].ureq
    <3>1. slot' = [MainReleased EXCEPT ![Main] = [@ EXCEPT !.want = intent]]
      BY <2>7 DEF SelectMainApp
    <3>2. QED
      BY <1>2, <2>1, <2>2, <3>1 DEF SlotRecord
  <2>8. ASSUME NEW intent \in Specs, SelectMainApp(intent), ~MainStopping
        PROVE  /\ \A t \in Slots \ {Main} : slot'[t] = slot[t]
               /\ slot'[Main].want = intent
               /\ slot'[Main].idx = MainReleased[Main].idx
               /\ slot[Main].ureq = 0 /\ slot'[Main].ureq = 0
               /\ slot'[Main].pid = 0 /\ slot'[Main].st \notin Live
    <3>1. PICK f : f = MainReleased
      OBVIOUS
    <3>2. slot' = [f EXCEPT ![Main] = [f[Main] EXCEPT !.want = intent,
                     !.st = "waiting", !.pid = 0, !.token = 0]]
      BY <2>8, <3>1 DEF SelectMainApp
    <3>3. f \in [Slots -> SlotRecord]
      BY <2>1, <3>1
    <3>4. \A t \in Slots \ {Main} : slot'[t] = f[t]
      BY <3>2, <3>3
    <3>5. slot'[Main] = [f[Main] EXCEPT !.want = intent, !.st = "waiting",
                     !.pid = 0, !.token = 0]
      BY <1>2, <3>2, <3>3
    <3>6. /\ slot'[Main].want = intent /\ slot'[Main].idx = f[Main].idx
          /\ slot'[Main].st = "waiting" /\ slot'[Main].pid = 0
          /\ slot'[Main].ureq = f[Main].ureq
      <4>1. f[Main] \in SlotRecord
        BY <1>2, <3>3
      <4>2. QED
        BY <3>5, <4>1 DEF SlotRecord
    <3>7. QED
      BY <2>2, <2>3, <2>4, <2>8, <3>1, <3>4, <3>6
  <2>9. \A intent \in Specs : intent # None
    BY DEF ConstantsAssumption
  <2>10. QED
    BY <2>5, <2>6, <2>7, <2>8, <2>9
<1>7. MainWanted'
  BY <1>6 DEF Kept, MainWanted
<1>8. CASE slot[Main].ureq # 0
  <2>1. slot'[Main].idx = slot[Main].idx
    BY <1>6, <1>8 DEF MainReleased
  <2>2. QED
    BY <1>1, <1>4, <1>6, <1>7, <1>8, <2>1, MainInDoubtKept
<1>9. CASE slot[Main].ureq = 0
  <2>1. ReleaseChild(Main)
    BY <1>1, <1>9 DEF TerminateMain
  <2>2. slot'[Main].idx = 0 /\ slot'[Main].ureq = 0
    BY <1>2, <1>6, <1>9 DEF MainReleased, TypeOK, SlotRecord
  <2>3. /\ slot'[Main].pid \in {0, slot[Main].pid}
        /\ RunningPid(Main)' \in {0, RunningPid(Main)}
    BY <1>6 DEF RunningPid
  <2>4. LaunchIndexExact
    BY DEF Indexed
  <2>5. QED
    BY <1>2, <1>4, <1>6, <1>7, <1>9, <2>1, <2>2, <2>3, <2>4, ReleaseKept
<1>10. QED
  BY <1>8, <1>9

-----------------------------------------------------------------------------
(* The worker: it takes a command and tells what came of it                 *)

\* What began has begun, what ended has ended.
Onward == /\ DOMAIN app' = DOMAIN app
          /\ \A p : Begun(p) => Begun(p)'
          /\ \A p : Ended(p) => Ended(p)'

\* Event e is true after the step.
EventTrueNext(e) ==
  /\ e.op = "started" => e.id \in DOMAIN app' /\ app'[e.id] # "queued"
  /\ e.op \in {"terminated", "exited"} =>
       e.id \in DOMAIN app' /\ app'[e.id] \notin {"queued", "tracked"}

LEMMA EventTold ==
  ASSUME TypeOK, TypeOK', EventsTrue, Onward, NEW e \in EvtRecord,
         evts' = Append(evts, e), work' = work, EventTrueNext(e)
  PROVE  /\ EventsTrue'
         /\ \A op, r : Undelivered(op, r) => Undelivered(op, r)'
         /\ Undelivered(e.op, e.id)'
<1>1. /\ DOMAIN evts = 1..Len(evts) /\ DOMAIN evts' = 1..(Len(evts) + 1)
      /\ Len(evts) \in Nat /\ evts'[Len(evts) + 1] = e
      /\ \A i \in DOMAIN evts : i \in DOMAIN evts' /\ evts'[i] = evts[i]
  BY AppendProperties, LenProperties DEF TypeOK
<1>2. ASSUME NEW f, EventTrue(f) PROVE EventTrueNext(f)
  BY <1>2 DEF EventTrue, EventTrueNext, Onward, Begun, Ended
<1>3. \A i \in DOMAIN work' : EventTrueNext(work'[i])
  BY <1>2 DEF EventsTrue
<1>4. ASSUME NEW i \in DOMAIN evts' PROVE EventTrueNext(evts'[i])
  <2>1. CASE i \in DOMAIN evts
    <3>1. EventTrue(evts[i])
      BY <2>1 DEF EventsTrue
    <3>2. QED
      BY <1>1, <1>2, <2>1, <3>1
  <2>2. CASE i = Len(evts) + 1
    BY <1>1, <2>2
  <2>3. QED
    BY <1>1, <1>4, <2>1, <2>2
<1>5. EventsTrue'
  BY <1>3, <1>4 DEF EventsTrue, EventTrue, EventTrueNext, Begun, Ended
<1>6. ASSUME NEW op, NEW r, Undelivered(op, r) PROVE Undelivered(op, r)'
  BY <1>1, <1>6 DEF Undelivered
<1>7. Undelivered(e.op, e.id)'
  BY <1>1 DEF Undelivered
<1>8. QED
  BY <1>5, <1>6, <1>7

LEMMA CommandTaken ==
  ASSUME TypeOK, TypeOK', CmdsTrue, Onward, cmds # <<>>, cmds' = Tail(cmds),
         \A p \in DOMAIN app : app[p] = "queued" =>
           \/ app'[p] = "queued"
           \/ Head(cmds).op = "spawn" /\ p = Head(cmds).id
  PROVE  CmdsTrue'
<1>1. /\ DOMAIN cmds = 1..Len(cmds) /\ Len(cmds) \in Nat \ {0}
      /\ DOMAIN cmds' = 1..(Len(cmds) - 1) /\ Head(cmds) = cmds[1]
      /\ \A i \in DOMAIN cmds' : cmds'[i] = cmds[i + 1] /\ i + 1 \in DOMAIN cmds
  BY HeadTailProperties, LenProperties, EmptySeq DEF TypeOK
<1>2. SUFFICES ASSUME NEW i \in DOMAIN cmds'
               PROVE  /\ cmds'[i].op = "spawn" =>
                           /\ cmds'[i].id \in DOMAIN app'
                           /\ app'[cmds'[i].id] = "queued"
                           /\ \A j \in DOMAIN cmds' :
                                cmds'[j].op = "spawn" /\ cmds'[j].id = cmds'[i].id
                                  => j = i
                      /\ cmds'[i].op = "terminate" =>
                           cmds'[i].id \in DOMAIN app' /\ app'[cmds'[i].id] # "queued"
  BY DEF CmdsTrue, CmdTrue, Begun
<1>3. /\ i + 1 \in DOMAIN cmds /\ 1 \in DOMAIN cmds /\ i + 1 # 1
      /\ cmds'[i] = cmds[i + 1]
  BY <1>1
<1>4. CmdTrue(cmds, i + 1) /\ CmdTrue(cmds, 1)
  BY <1>3 DEF CmdsTrue
<1>5. cmds'[i].op = "terminate" =>
        cmds'[i].id \in DOMAIN app' /\ app'[cmds'[i].id] # "queued"
  BY <1>3, <1>4 DEF CmdTrue, Onward, Begun
<1>6. ASSUME cmds'[i].op = "spawn"
      PROVE  /\ cmds'[i].id \in DOMAIN app' /\ app'[cmds'[i].id] = "queued"
             /\ \A j \in DOMAIN cmds' :
                  cmds'[j].op = "spawn" /\ cmds'[j].id = cmds'[i].id => j = i
  <2>1. /\ cmds'[i].id \in DOMAIN app /\ app[cmds'[i].id] = "queued"
        /\ \A j \in DOMAIN cmds :
             cmds[j].op = "spawn" /\ cmds[j].id = cmds'[i].id => j = i + 1
    BY <1>3, <1>4, <1>6 DEF CmdTrue
  <2>2. ~(Head(cmds).op = "spawn" /\ cmds'[i].id = Head(cmds).id)
    BY <1>1, <1>3, <2>1
  <2>3. \A j \in DOMAIN cmds' :
          cmds'[j].op = "spawn" /\ cmds'[j].id = cmds'[i].id => j = i
    <3>1. ASSUME NEW j \in DOMAIN cmds', cmds'[j].op = "spawn",
                 cmds'[j].id = cmds'[i].id
          PROVE  j + 1 = i + 1
      BY <1>1, <2>1, <3>1
    <3>2. QED
      BY <1>1, <3>1
  <2>4. QED
    BY <2>1, <2>2, <2>3 DEF Onward
<1>7. QED
  BY <1>5, <1>6

LEMMA WorkerKeeps ==
  ASSUME TypeOK, TypeOK', Kept, UNCHANGED <<slots, tables>>, Onward,
         CmdsTrue', EventsTrue',
         \A r : Undelivered("started", r) => Undelivered("started", r)',
         \A r \in DOMAIN app : app'[r] = "tracked" =>
           \/ app[r] = "tracked"
           \/ ~Begun(r) /\ Undelivered("started", r)',
         work' = work
  PROVE  Kept'
<1>1. UNCHANGED <<slot, launch, pending, unconfirmed, cancelled, stops, ustops>>
  BY DEF slots, tables
<1>2. StopsOwned' /\ MainWanted'
  BY <1>1 DEF Kept, StopsOwned, MainWanted, Onward
<1>3. ASSUME NEW p, Handled(p), p # 0 => Begun(p) PROVE Handled(p)'
  BY <1>1, <1>3 DEF Handled, Begun
<1>4. ASSUME NEW s \in Slots PROVE ProgramsKnown(s)'
  <2>1. ProgramsKnown(s) /\ RunningPid(s)' = RunningPid(s)
    BY <1>1 DEF Kept, RunningPid
  <2>2. PidOwned(s)'
    BY <1>1, <2>1 DEF ProgramsKnown, PidOwned, Onward
  <2>3. TakenIsHandled(s)'
    <3>1. Taken(s)' = Taken(s)
      BY <1>1 DEF Taken, Stopping, Retiring
    <3>2. RunningPid(s) # 0 => Begun(RunningPid(s))
      BY <2>1 DEF ProgramsKnown, PidOwned, RunningPid
    <3>3. Taken(s) => Handled(RunningPid(s))
      BY <2>1 DEF ProgramsKnown, TakenIsHandled
    <3>4. PICK p : p = RunningPid(s)
      OBVIOUS
    <3>5. Taken(s) => Handled(p)'
      BY <1>3, <3>2, <3>3, <3>4
    <3>6. RunningPid(s)' = p
      BY <2>1, <3>4
    <3>7. QED
      BY <3>1, <3>5, <3>6 DEF TakenIsHandled, Handled
  <2>4. KnowsProgram(s)'
    <3> SUFFICES ASSUME NEW r \in DOMAIN app', app'[r] = "tracked",
                        launch[r].slot = s, ~Undelivered("started", r)'
                 PROVE  RunningPid(s) = r \/ Handled(r)'
      BY <1>1, <2>1 DEF KnowsProgram
    <3>1. r \in DOMAIN app /\ app[r] = "tracked" /\ ~Undelivered("started", r)
      BY DEF Onward
    <3>2. RunningPid(s) = r \/ Handled(r)
      BY <2>1, <3>1 DEF ProgramsKnown, KnowsProgram
    <3>3. Begun(r)
      BY <3>1 DEF Begun
    <3>4. QED
      BY <1>3, <3>2, <3>3
  <2>5. QED
    BY <2>2, <2>3, <2>4 DEF ProgramsKnown
<1>5. ASSUME NEW s \in Slots PROVE StartsKnown(s)'
  <2>1. StartsKnown(s)
    BY DEF Kept
  <2>2. StartsKnown(s)' = StartsKnown(s)
    BY <1>1 DEF StartsKnown, StoppingIsIdle, UnconfirmedIsAlone,
                UnconfirmedIsNamed, Stopping, Ending, Retiring
  <2>3. QED
    BY <2>1, <2>2
<1>6. QED
  BY <1>2, <1>4, <1>5 DEF Kept

LEMMA EventMade ==
  ASSUME NEW op \in EvtOps, NEW id \in Int, NEW ok \in BOOLEAN
  PROVE  /\ Evt(op, id, ok) \in EvtRecord
         /\ Evt(op, id, ok).op = op /\ Evt(op, id, ok).id = id
<1>1. Evt(op, id, ok) = [op |-> op, id |-> id, ok |-> ok, slot |-> None]
  BY DEF Evt
<1>2. [op |-> op, id |-> id, ok |-> ok, slot |-> None] \in EvtRecord
  BY DEF EvtRecord
<1>3. QED
  BY <1>1, <1>2

LEMMA EventMadeWell ==
  ASSUME NEW op \in EvtOps, NEW id \in Int
  PROVE  /\ Evt(op, id, TRUE) \in EvtRecord
         /\ Evt(op, id, TRUE).op = op /\ Evt(op, id, TRUE).id = id
<1>1. TRUE \in BOOLEAN
  OBVIOUS
<1>2. QED
  BY <1>1, EventMade, Zenon

LEMMA WorkerSpawnKept ==
  ASSUME ConstantsAssumption, TypeOK, TypeOK', Kept, WorkerSpawn
  PROVE  Kept'
<1>1. /\ cmds # <<>> /\ Head(cmds).op = "spawn" /\ cmds' = Tail(cmds)
      /\ UNCHANGED <<slots, tables, work>>
  BY DEF WorkerSpawn, NextCmd
<1>2. PICK r : r = Head(cmds).id
  OBVIOUS
<1>3. PICK outcome \in {"started", "unconfirmed", "failed"} :
        /\ app' = [app EXCEPT ![r] = CASE outcome = "started" -> "tracked"
                                       [] outcome = "unconfirmed" -> "unconfirmed"
                                       [] outcome = "failed" -> "gone"]
        /\ evts' = Append(evts, Evt(outcome, r, TRUE))
  BY <1>2 DEF WorkerSpawn, ConstantsAssumption
<1>4. r \in DOMAIN app /\ app[r] = "queued"
  <2>1. 1 \in DOMAIN cmds /\ Head(cmds) = cmds[1]
    BY <1>1, EmptySeq, HeadTailProperties, LenProperties DEF TypeOK
  <2>2. QED
    BY <1>1, <1>2, <2>1 DEF Kept, CmdsTrue, CmdTrue
<1>5. /\ DOMAIN app' = DOMAIN app
      /\ \A p \in DOMAIN app : p # r => app'[p] = app[p]
      /\ app'[r] \in {"tracked", "unconfirmed", "gone"}
      /\ app'[r] = "tracked" => outcome = "started"
  BY <1>3, <1>4 DEF TypeOK
<1>6. Onward
  BY <1>4, <1>5 DEF Onward, Begun, Ended
<1>7. CmdsTrue'
  BY <1>1, <1>2, <1>5, <1>6, CommandTaken DEF Kept
<1>8. PICK e \in EvtRecord : /\ e = Evt(outcome, r, TRUE)
                             /\ e.op = outcome /\ e.id = r
  <2>1. outcome \in EvtOps /\ r \in Int
    BY <1>4, LenProperties DEF EvtOps, TypeOK
  <2>2. QED
    BY <2>1, EventMadeWell, Zenon
<1>9. EventTrueNext(e)
  BY <1>4, <1>5, <1>8 DEF EventTrueNext
<1>10. /\ EventsTrue'
       /\ \A op, p : Undelivered(op, p) => Undelivered(op, p)'
       /\ Undelivered(e.op, e.id)'
  BY <1>1, <1>3, <1>6, <1>8, <1>9, EventTold DEF Kept
<1>11. \A p \in DOMAIN app : app'[p] = "tracked" =>
         \/ app[p] = "tracked"
         \/ ~Begun(p) /\ Undelivered("started", p)'
  BY <1>4, <1>5, <1>8, <1>10 DEF Begun
<1>12. QED
  BY <1>1, <1>6, <1>7, <1>10, <1>11, WorkerKeeps

LEMMA WorkerAnswerKept ==
  ASSUME ConstantsAssumption, TypeOK, TypeOK', Kept,
         WorkerTerminate \/ WorkerTerminateUnconfirmed
  PROVE  Kept'
<1>1. /\ cmds # <<>> /\ cmds' = Tail(cmds) /\ Head(cmds).op # "spawn"
      /\ UNCHANGED <<slots, tables, work>>
  BY DEF WorkerTerminate, WorkerTerminateUnconfirmed, NextCmd
<1>2. PICK r : r = Head(cmds).id
  OBVIOUS
<1>3. 1 \in DOMAIN cmds /\ Head(cmds) = cmds[1] /\ r \in Int
  <2>1. /\ 1 \in DOMAIN cmds /\ Head(cmds) = cmds[1]
        /\ Head(cmds) \in CmdRecord
    BY <1>1, EmptySeq, HeadTailProperties, LenProperties DEF TypeOK
  <2>2. QED
    BY <1>2, <2>1 DEF CmdRecord
<1>4. Head(cmds).op = "terminate" => Begun(r)
  BY <1>2, <1>3 DEF Kept, CmdsTrue, CmdTrue
<1>5. /\ DOMAIN app \subseteq Nat \ {0}
      /\ app \in [DOMAIN app -> AppStates]
  BY LenProperties DEF TypeOK
<1>6. PICK op \in {"terminated", "terminatedUnconfirmed"}, ok \in BOOLEAN :
        /\ evts' = Append(evts, Evt(op, r, ok))
        /\ app' \in {app, [app EXCEPT ![r] = "gone"]}
        /\ app' # app => r \in DOMAIN app /\ app[r] # "queued"
        /\ op = "terminated" => /\ Begun(r)
                                /\ \/ app' = [app EXCEPT ![r] = "gone"]
                                   \/ Ended(r)
  <2>1. CASE WorkerTerminate
    <3> DEFINE known == r > 0 /\ app[r] \in {"tracked", "reported"}
    <3>1. /\ evts' = Append(evts, Evt("terminated", r, known))
          /\ app' = IF known THEN [app EXCEPT ![r] = "gone"] ELSE app
          /\ Begun(r)
      BY <1>2, <1>4, <2>1 DEF WorkerTerminate, NextCmd
    <3>2. ~known => Ended(r)
      BY <1>5, <3>1 DEF Begun, Ended, AppStates
    <3>3. r \in DOMAIN app /\ app[r] # "queued" /\ known \in BOOLEAN
      BY <3>1 DEF Begun
    <3> HIDE DEF known
    <3>4. QED
      BY <3>1, <3>2, <3>3
  <2>2. CASE WorkerTerminateUnconfirmed
    <3> DEFINE known == app[r] = "unconfirmed"
    <3>1. /\ evts' = Append(evts, Evt("terminatedUnconfirmed", r, known))
          /\ app' = IF known THEN [app EXCEPT ![r] = "gone"] ELSE app
      BY <1>2, <2>2 DEF WorkerTerminateUnconfirmed, NextCmd
    <3>2. app' # app => r \in DOMAIN app /\ app[r] # "queued"
      BY <1>5, <3>1
    <3>3. known \in BOOLEAN
      OBVIOUS
    <3> HIDE DEF known
    <3>4. QED
      BY <3>1, <3>2, <3>3
  <2>3. QED
    BY <2>1, <2>2
<1>7. /\ DOMAIN app' = DOMAIN app
      /\ \A p \in DOMAIN app : \/ app'[p] = app[p]
                               \/ /\ p = r /\ app'[p] = "gone"
                                  /\ app[p] # "queued"
  BY <1>5, <1>6
<1>8. Onward
  BY <1>7 DEF Onward, Begun, Ended
<1>9. CmdsTrue'
  BY <1>1, <1>7, <1>8, CommandTaken DEF Kept
<1>10. PICK e \in EvtRecord : /\ e = Evt(op, r, ok)
                              /\ e.op = op /\ e.id = r
  <2>1. op \in EvtOps
    BY DEF EvtOps
  <2>2. QED
    BY <1>3, <2>1, EventMade
<1>11. EventTrueNext(e)
  BY <1>5, <1>6, <1>7, <1>10 DEF EventTrueNext, Begun, Ended
<1>12. /\ EventsTrue'
       /\ \A p, q : Undelivered(p, q) => Undelivered(p, q)'
  BY <1>1, <1>6, <1>8, <1>10, <1>11, EventTold DEF Kept
<1>13. \A p \in DOMAIN app : app'[p] = "tracked" => app[p] = "tracked"
  BY <1>7
<1>14. QED
  BY <1>1, <1>8, <1>9, <1>12, <1>13, WorkerKeeps

LEMMA ReapKept ==
  ASSUME ConstantsAssumption, TypeOK, TypeOK', Kept, NEW r \in DOMAIN app,
         ReapStarted(r) \/ ReapReported(r) \/ ReapUnconfirmed(r)
  PROVE  Kept'
<1>1. /\ UNCHANGED <<slots, tables, work>> /\ cmds' = cmds
      /\ app[r] \in {"tracked", "reported", "unconfirmed"}
      /\ app' \in {[app EXCEPT ![r] = "reported"], [app EXCEPT ![r] = "gone"]}
      /\ \/ evts' = evts
         \/ \E op \in {"exited", "unconfirmedExited"} :
              evts' = Append(evts, Evt(op, r, TRUE))
  BY DEF ReapStarted, ReapReported, ReapUnconfirmed
<1>2. /\ DOMAIN app' = DOMAIN app /\ app'[r] \in {"reported", "gone"}
      /\ \A p \in DOMAIN app : p # r => app'[p] = app[p]
  BY <1>1 DEF TypeOK
<1>3. Onward
  BY <1>1, <1>2 DEF Onward, Begun, Ended
<1>4. CmdsTrue'
  <2>1. ASSUME NEW i \in DOMAIN cmds PROVE CmdTrue(cmds, i)'
    <3>1. CmdTrue(cmds, i)
      BY DEF Kept, CmdsTrue
    <3>2. QED
      BY <1>1, <1>2, <1>3, <3>1 DEF CmdTrue, Onward
  <2>2. QED
    BY <1>1, <2>1 DEF CmdsTrue
<1>5. /\ EventsTrue'
      /\ \A op, p : Undelivered(op, p) => Undelivered(op, p)'
  <2>1. CASE evts' = evts
    <3>1. \A i \in DOMAIN evts' : EventTrue(evts[i])
      BY <2>1 DEF Kept, EventsTrue
    <3>2. \A i \in DOMAIN work : EventTrue(work[i])
      BY DEF Kept, EventsTrue
    <3>3. EventsTrue'
      BY <1>1, <1>3, <2>1, <3>1, <3>2 DEF EventsTrue, EventTrue, Onward
    <3>4. \A op, p : Undelivered(op, p) => Undelivered(op, p)'
      BY <1>1, <2>1 DEF Undelivered
    <3>5. QED
      BY <3>3, <3>4
  <2>2. CASE \E op \in {"exited", "unconfirmedExited"} :
               evts' = Append(evts, Evt(op, r, TRUE))
    <3>1. PICK op \in {"exited", "unconfirmedExited"} :
            evts' = Append(evts, Evt(op, r, TRUE))
      BY <2>2
    <3>2. r \in Int
      BY LenProperties DEF TypeOK
    <3>3. PICK e \in EvtRecord : /\ e = Evt(op, r, TRUE)
                                 /\ e.op = op /\ e.id = r
      <4>1. op \in EvtOps
        BY DEF EvtOps
      <4>2. QED
        BY <3>2, <4>1, EventMadeWell, Zenon
    <3>4. EventTrueNext(e)
      BY <1>2, <3>3 DEF EventTrueNext
    <3>5. QED
      BY <1>1, <1>3, <3>1, <3>3, <3>4, EventTold DEF Kept
  <2>3. QED
    BY <1>1, <2>1, <2>2
<1>6. \A p \in DOMAIN app : app'[p] = "tracked" => app[p] = "tracked"
  BY <1>2
<1>7. QED
  BY <1>1, <1>3, <1>4, <1>5, <1>6, WorkerKeeps

-----------------------------------------------------------------------------
(* No program is lost                                                       *)

LEMMA InitKept ==
  ASSUME ConstantsAssumption, Init
  PROVE  Kept
<1>1. /\ launch = <<>> /\ app = <<>> /\ cmds = <<>> /\ evts = <<>> /\ work = <<>>
      /\ pending = {} /\ unconfirmed = {} /\ cancelled = {}
      /\ stops = {} /\ ustops = {}
  BY DEF Init
<1>2. /\ DOMAIN app = {} /\ DOMAIN cmds = {} /\ DOMAIN evts = {} /\ DOMAIN work = {}
  BY <1>1, EmptySeq
<1>3. ASSUME NEW s \in Slots
      PROVE  /\ slot[s].st = "absent" /\ slot[s].pid = 0
             /\ slot[s].idx = 0 /\ slot[s].ureq = 0
  BY DEF Init, Vacant
<1>4. CmdsTrue /\ EventsTrue /\ StopsOwned
  BY <1>1, <1>2 DEF CmdsTrue, EventsTrue, StopsOwned
<1>5. MainWanted
  <2>1. Main \in Slots
    BY DEF Slots
  <2>2. QED
    BY <1>3, <2>1 DEF MainWanted, Live
<1>6. ASSUME NEW s \in Slots PROVE ProgramsKnown(s) /\ StartsKnown(s)
  <2>1. ~Taken(s) /\ ~Stopping(s)
    BY <1>1, <1>2, <1>3 DEF Taken, Stopping, Retiring
  <2>2. ProgramsKnown(s)
    BY <1>2, <1>3, <2>1 DEF ProgramsKnown, PidOwned, TakenIsHandled, KnowsProgram
  <2>3. StartsKnown(s)
    BY <1>1, <1>3, <2>1 DEF StartsKnown, StoppingIsIdle, UnconfirmedIsAlone,
                            UnconfirmedIsNamed
  <2>4. QED
    BY <2>2, <2>3
<1>7. QED
  BY <1>4, <1>5, <1>6 DEF Kept

\* No descendant takes a window over, and no pane is given to a program from
\* outside Surf Ace.
OwnWindows == Wrappers = FALSE /\ "switchExternal" \notin Requests

LEMMA NextKept ==
  ASSUME ConstantsAssumption, OwnWindows, TypeOK, TypeOK', Indexed, Kept,
         [Next]_vars
  PROVE  Kept'
<1>1. LaunchIndexExact
  BY DEF Indexed
<1>2. CASE Step
  BY <1>1, <1>2, SpawnStartedKept, SpawnUnconfirmedKept, SpawnFailedKept,
     ExitedKept, TerminatedKept, TerminatedUnconfirmedKept,
     UnconfirmedExitedKept, PollProcessesKept, LaunchSlotKept,
     RemoveReleasedPaneKept, DropPaneKept DEF Step
<1>3. CASE RequestStep
  <2>1. CASE ResetRuntime \/ \E i \in Specs : SelectMainApp(i)
    BY <2>1, MainRequestsKept
  <2>2. CASE RuntimeRunning
    BY <2>2, QuietRequestsKept
  <2>3. CASE OpenShell \/ DismissShell
    BY <1>1, <2>3, OpenShellKept, DismissShellKept
  <2>4. CASE \E p \in Panes, spec \in Specs, rev \in 0..MaxRevision :
               NativePaneHost(p, spec, rev) \/ NativePaneUpdate(p, spec, rev)
    BY <1>1, <2>4, HostKept
  <2>5. CASE \E p \in Panes : NativePaneRelease(p) \/ SwitchToSurfAce(p)
    BY <1>1, <2>5, ToSurfAceKept
  <2>6. CASE \E p \in Panes : LaunchNativePaneHost(p)
    BY <2>6, QuietRequestsKept
  <2>7. ASSUME NEW p \in Panes, NEW spec \in Specs PROVE ~SwitchToExternal(p, spec)
    BY DEF SwitchToExternal, Request, OwnWindows
  <2>8. CASE \E incoming \in SUBSET Panes : ApplyProviderSnapshot(incoming)
    BY <2>8, SnapshotKept
  <2>9. CASE \E r \in DOMAIN app : RecoverOverlay(r)
    BY <2>9, RecoverOverlayKept
  <2>10. QED
    BY <1>3, <2>1, <2>2, <2>3, <2>4, <2>5, <2>6, <2>7, <2>8, <2>9 DEF RequestStep
<1>4. CASE PollRequest
  BY <1>4, QuietRequestsKept
<1>5. CASE Window
  BY <1>5, WindowKept DEF Window, OwnWindows
<1>6. CASE Worker
  BY <1>6, WorkerSpawnKept, WorkerAnswerKept, ReapKept DEF Worker
<1>7. CASE \/ \E r \in DOMAIN app : AppExits(r)
           \/ UNCHANGED vars
  <2>1. UNCHANGED <<slot, tables, cmds, evts, work, app>>
    BY <1>7 DEF AppExits, vars, slots, children
  <2>2. QED
    BY <2>1, KeptUnchanged
<1>8. QED
  BY <1>2, <1>3, <1>4, <1>5, <1>6, <1>7 DEF Next

(* Replacing, cancelling, releasing, late answers and exits never lose      *)
(* track of a child: whatever the worker manages and has told about runs in *)
(* its slot or is being stopped, and every launch that may have started is  *)
(* named by its slot (apply_process_controller_event and the releases).     *)
THEOREM NoProgramIsLost == OwnWindows /\ Spec => []NothingIsLost
<1> DEFINE KInv == IndexInv /\ Kept
<1>1. OwnWindows /\ Init => KInv
  BY ConstantsAssumption, InitType, InitIndexed, InitKept DEF IndexInv, Indexed
<1>2. OwnWindows /\ KInv /\ [Next]_vars => KInv'
  <2> SUFFICES ASSUME OwnWindows, IndexInv, Kept, [Next]_vars
               PROVE  IndexInv' /\ Kept'
    OBVIOUS
  <2>1. TypeOK' /\ Indexed' /\ TypeOK /\ Indexed
    BY ConstantsAssumption, NextType, NextIndexed DEF IndexInv, Indexed
  <2>2. Kept'
    BY ConstantsAssumption, <2>1, NextKept
  <2>3. QED
    BY <2>1, <2>2 DEF IndexInv, Indexed
<1>3. KInv => NothingIsLost
  BY KeptLosesNothing DEF IndexInv
<1>4. OwnWindows = TRUE \/ OwnWindows = FALSE
  BY DEF OwnWindows
<1> HIDE DEF KInv
<1>5. CASE OwnWindows
  <2>1. Init => KInv
    BY <1>1, <1>5
  <2>2. KInv /\ [Next]_vars => KInv'
    BY <1>2, <1>5
  <2>3. QED
    BY <1>3, <2>1, <2>2, PTL DEF Spec
<1>6. QED
  BY <1>5

-----------------------------------------------------------------------------
(* What runs is what is wanted                                              *)

\* The programs of slot s are never put back by recover_overlay.
Fresh(s) == s # Shell \/ "recover" \notin Requests

\* Launches nobody answered.
Unanswered == pending \cup cancelled

PidDecided(s) == Fresh(s) => slot[s].pid \notin Unanswered

\* A stop is of a launch that was answered; a late start was never shown.
StopDecided(x) ==
  Fresh(x.slot) => /\ x.id \notin Unanswered
                   /\ x.kind = "stale" => slot[x.slot].pid # x.id

\* What the shell runs is never changed.
ShellSame ==
  /\ overlay \in {None, Shell}
  /\ \A r \in DOMAIN launch :
       launch[r].slot = Shell => launch[r].spec = slot[Shell].want

\* A pane that is not there runs nothing.
OutsideIdle == \A p \in Panes \ panes : slot[p].st \notin Live

WantKnown(s) ==
  s # Shell /\ RunningPid(s) # 0 =>
    \/ launch[RunningPid(s)].spec = slot[s].want
    \/ \E x \in stops : x.id = RunningPid(s)

Wants == /\ pending \cap cancelled = {} /\ ShellSame /\ OutsideIdle
         /\ \A s \in Slots : PidDecided(s) /\ WantKnown(s)
         /\ \A x \in stops : StopDecided(x)

\* The request log keeps what is in it.
LogGrows == \A r \in DOMAIN launch : r \in DOMAIN launch' /\ launch'[r] = launch[r]

LEMMA WantsStep ==
  ASSUME TypeOK, TypeOK', Kept, Wants, LogGrows,
         \A r \in pending' : r \in pending \/ r \notin DOMAIN launch,
         \A r \in cancelled' : r \in Unanswered,
         pending' \cap cancelled' = {}, ShellSame', OutsideIdle',
         \A x \in stops' :
           \/ x \in stops
           \/ x.kind = "slot" /\ x.id # 0 /\ x.id = slot[x.slot].pid
           \/ /\ x.kind = "stale" /\ x.id \in Unanswered
              /\ x.id \notin pending' \cup cancelled'
              /\ \A s \in Slots : slot'[s].pid = slot[s].pid,
         \A s \in Slots :
           \/ slot'[s].pid \in {0, slot[s].pid} \/ ~Fresh(s)
           \/ /\ slot'[s].pid \in pending
              /\ slot'[s].pid \notin pending' \cup cancelled'
              /\ stops' = stops,
         \A s \in Slots \ {Shell} :
           LET p == RunningPid(s)' IN
             p # 0 => \/ launch'[p].spec = slot'[s].want
                      \/ /\ p = RunningPid(s) /\ slot'[s].want = slot[s].want
                         /\ \A x \in stops : x.id = p => x \in stops'
                      \/ \E x \in stops' : x.id = p
  PROVE  Wants'
<1>1. /\ \A r \in DOMAIN launch' : r # 0
      /\ \A r \in pending' \cup cancelled' : r # 0
      /\ \A r \in DOMAIN launch : r # 0
  <2>1. \A r \in DOMAIN launch' : r # 0
    BY LenProperties DEF TypeOK
  <2>2. \A r \in DOMAIN launch : r # 0
    BY LenProperties DEF TypeOK
  <2>3. QED
    BY <2>1, <2>2 DEF TypeOK
<1>2. ASSUME NEW p, Begun(p), p \notin Unanswered
      PROVE  p # 0 /\ p \notin pending' \cup cancelled'
  <2>1. p \in DOMAIN launch
    BY <1>2, Logged DEF Begun
  <2>2. QED
    BY <1>1, <1>2, <2>1 DEF Unanswered
<1>3. ASSUME NEW s \in Slots PROVE PidOwned(s) /\ PidDecided(s) /\ WantKnown(s)
  BY DEF Kept, ProgramsKnown, Wants
<1>4. ASSUME NEW s \in Slots, Fresh(s) PROVE slot'[s].pid \notin pending' \cup cancelled'
  <2>1. CASE slot'[s].pid = slot[s].pid
    BY <1>1, <1>2, <1>3, <1>4, <2>1 DEF PidOwned, PidDecided
  <2>2. CASE slot'[s].pid = 0
    BY <1>1, <2>2
  <2>3. QED
    BY <1>4, <2>1, <2>2
<1>5. ASSUME NEW x \in stops', Fresh(x.slot)
      PROVE  /\ x.id \notin pending' \cup cancelled'
             /\ x.kind = "stale" => slot'[x.slot].pid # x.id
  <2>1. x.slot \in Slots /\ (x.kind = "slot" => x.kind # "stale")
    BY DEF TypeOK, Stop
  <2>2. CASE x \in stops
    <3>1. Begun(x.id) /\ StopDecided(x)
      BY <2>2 DEF Kept, StopsOwned, Wants
    <3>2. x.id # 0 /\ x.id \notin pending' \cup cancelled'
      BY <1>2, <1>5, <3>1 DEF StopDecided
    <3>3. x.id \notin Unanswered /\ (x.kind = "stale" => slot[x.slot].pid # x.id)
      BY <1>5, <3>1 DEF StopDecided
    <3>4. x.kind = "stale" => slot'[x.slot].pid # x.id
      BY <1>5, <2>1, <3>2, <3>3 DEF Unanswered
    <3>5. QED
      BY <3>2, <3>4
  <2>3. CASE x.kind = "slot" /\ x.id # 0 /\ x.id = slot[x.slot].pid
    BY <1>2, <1>3, <1>5, <2>1, <2>3 DEF PidOwned, PidDecided
  <2>4. CASE /\ x.kind = "stale" /\ x.id \in Unanswered
             /\ x.id \notin pending' \cup cancelled'
             /\ \A s \in Slots : slot'[s].pid = slot[s].pid
    BY <1>3, <1>5, <2>1, <2>4 DEF PidDecided
  <2>5. QED
    BY <2>2, <2>3, <2>4
<1>6. ASSUME NEW s \in Slots PROVE WantKnown(s)'
  <2>1. SUFFICES ASSUME s # Shell, RunningPid(s)' # 0
                 PROVE  \/ launch'[RunningPid(s)'].spec = slot'[s].want
                        \/ \E x \in stops' : x.id = RunningPid(s)'
    BY DEF WantKnown
  <2>2. PICK p : p = RunningPid(s)'
    OBVIOUS
  <2>3. CASE /\ p = RunningPid(s) /\ slot'[s].want = slot[s].want
             /\ \A x \in stops : x.id = p => x \in stops'
    <3>1. launch[p].spec = slot[s].want \/ \E x \in stops : x.id = p
      BY <1>3, <2>1, <2>2, <2>3 DEF WantKnown
    <3>2. p \in DOMAIN launch
      BY <1>3, <2>1, <2>2, <2>3, RunningLogged
    <3>3. QED
      BY <2>2, <2>3, <3>1, <3>2 DEF LogGrows
  <2>4. QED
    BY <2>1, <2>2, <2>3
<1>7. QED
  BY <1>4, <1>5, <1>6 DEF Wants, PidDecided, StopDecided, Unanswered

LEMMA WantedRuns ==
  ASSUME TypeOK, Kept, Wants
  PROVE  RunsWhatIsWanted
<1> SUFFICES ASSUME NEW s \in Slots, RunningPid(s) # 0, ~Stopping(s)
             PROVE  /\ launch[ReqOf(RunningPid(s))].slot = s
                    /\ launch[ReqOf(RunningPid(s))].spec = slot[s].want
  BY DEF RunsWhatIsWanted
<1>1. PICK p : p = RunningPid(s)
  OBVIOUS
<1>2. p \in DOMAIN launch /\ launch[p].slot = s
  BY <1>1, RunningLogged DEF Kept, ProgramsKnown, PidOwned
<1>3. ReqOf(p) = p
  <2>1. p \in Nat
    BY <1>2, LenProperties DEF TypeOK
  <2>2. QED
    BY <2>1 DEF ReqOf
<1>4. \A x \in stops : x.id # p
  BY <1>2 DEF Stopping, Kept, StopsOwned
<1>5. launch[p].spec = slot[s].want
  BY <1>1, <1>2, <1>4 DEF Wants, WantKnown, ShellSame
<1>6. QED
  BY <1>1, <1>2, <1>3, <1>5

\* A step that touches none of this.
LEMMA WantsUnchanged ==
  ASSUME Wants, UNCHANGED <<slot, panes, overlay, launch, pending, cancelled, stops>>
  PROVE  Wants'
BY DEF Wants, ShellSame, OutsideIdle, PidDecided, WantKnown, StopDecided, Unanswered,
       RunningPid

\* Slots that keep their program or lose it, and keep wanting what they run.
LEMMA WantsQuiet ==
  ASSUME TypeOK, TypeOK', Kept, Wants, UNCHANGED <<launch, stops>>,
         pending' \subseteq pending, cancelled' \subseteq cancelled,
         ShellSame', OutsideIdle',
         \A t \in Slots :
           \/ slot'[t] = slot[t]
           \/ /\ slot'[t].pid \in {0, slot[t].pid}
              /\ RunningPid(t)' \in {0, RunningPid(t)}
              /\ RunningPid(t)' # 0 => slot'[t].want = slot[t].want
  PROVE  Wants'
<1>1. LogGrows
  BY DEF LogGrows
<1>2. ASSUME NEW t \in Slots
      PROVE  /\ slot'[t].pid \in {0, slot[t].pid}
             /\ RunningPid(t)' \in {0, RunningPid(t)}
             /\ RunningPid(t)' # 0 => slot'[t].want = slot[t].want
  <2>1. slot'[t] = slot[t] => RunningPid(t)' = RunningPid(t)
    BY DEF RunningPid
  <2>2. QED
    BY <2>1
<1>3. pending' \cap cancelled' = {}
  BY DEF Wants
<1>4. QED
  BY <1>1, <1>2, <1>3, WantsStep DEF Unanswered

\* Giving up the child of slot s.
LEMMA WantsReleased ==
  ASSUME TypeOK, TypeOK', Kept, Wants, NEW s \in Slots, ReleaseChild(s),
         ShellSame', OutsideIdle',
         slot'[s].pid \in {0, slot[s].pid}, RunningPid(s)' \in {0, RunningPid(s)},
         \A t \in Slots \ {s} : slot'[t] = slot[t]
  PROVE  Wants'
<1> DEFINE i == slot[s].idx
<1>1. /\ UNCHANGED launch /\ pending' = pending \ {i}
      /\ cancelled' = cancelled \cup ({i} \cap pending)
  BY DEF ReleaseChild, CancelPending
<1>2. \E queue : Terminate(RunningPid(s), "slot", s, queue)
  BY DEF ReleaseChild, StopRunning
<1>3. PICK p : p = RunningPid(s)
  OBVIOUS
<1>4. p # 0 => p = slot[s].pid
  BY <1>3 DEF RunningPid
<1>5. /\ stops \subseteq stops'
      /\ \A x \in stops' : \/ x \in stops
                           \/ x.kind = "slot" /\ x.id # 0 /\ x.id = p /\ x.slot = s
      /\ p # 0 => \E x \in stops' : x.id = p
  <2>1. CASE stops' = stops /\ (p # 0 => \E x \in stops : x.id = p)
    BY <2>1
  <2>2. CASE p # 0 /\ stops' = stops \cup {[id |-> p, kind |-> "slot", slot |-> s]}
    <3>1. PICK y : y = [id |-> p, kind |-> "slot", slot |-> s]
      OBVIOUS
    <3>2. y.id = p /\ y.kind = "slot" /\ y.slot = s
      BY <3>1
    <3>3. stops' = stops \cup {y}
      BY <2>2, <3>1
    <3>4. QED
      BY <2>2, <3>2, <3>3
  <2>3. QED
    BY <1>2, <1>3, <2>1, <2>2 DEF Terminate
<1>6. LogGrows /\ pending' \cap cancelled' = {}
  BY <1>1 DEF LogGrows, Wants
<1>7. \A x \in stops' :
        x \in stops \/ (x.kind = "slot" /\ x.id # 0 /\ x.id = slot[x.slot].pid)
  BY <1>4, <1>5
<1>8. ASSUME NEW t \in Slots, RunningPid(t)' # 0
      PROVE  \/ /\ RunningPid(t)' = RunningPid(t) /\ slot'[t].want = slot[t].want
                /\ \A x \in stops : x.id = RunningPid(t)' => x \in stops'
             \/ \E x \in stops' : x.id = RunningPid(t)'
  <2>1. CASE t = s
    <3>1. RunningPid(s)' # 0
      BY <1>8, <2>1 DEF RunningPid
    <3>2. RunningPid(s)' = p /\ p # 0
      BY <1>3, <3>1
    <3>3. \E x \in stops' : x.id = RunningPid(s)'
      BY <1>5, <3>2
    <3>4. \E x \in stops' : x.id = RunningPid(t)'
      BY <2>1, <3>3 DEF RunningPid
    <3>5. QED
      BY <3>4
  <2>2. CASE t # s
    BY <1>5, <2>2 DEF RunningPid
  <2>3. QED
    BY <2>1, <2>2
<1>9. /\ \A r \in pending' : r \in pending
      /\ \A r \in cancelled' : r \in Unanswered
  BY <1>1 DEF Unanswered
<1>10. \A t \in Slots : slot'[t].pid \in {0, slot[t].pid}
  OBVIOUS
<1>11. QED
  BY <1>6, <1>7, <1>8, <1>9, <1>10, WantsStep

-----------------------------------------------------------------------------
(* Requests and releases                                                    *)

\* The overlay role is the shell's or nobody's.
LEMMA NoPaneOverlay ==
  ASSUME ConstantsAssumption, Wants, NEW p \in Panes
  PROVE  overlay # p
BY DEF Wants, ShellSame, ConstantsAssumption, Slots

\* The shell's want and its launches are left alone.
LEMMA ShellStays ==
  ASSUME TypeOK, Wants, UNCHANGED launch, slot'[Shell].want = slot[Shell].want,
         overlay' \in {None, Shell, overlay}
  PROVE  ShellSame'
BY DEF Wants, ShellSame

LEMMA DropPaneWants ==
  ASSUME ConstantsAssumption, TypeOK, TypeOK', Kept, Wants, DropPane
  PROVE  Wants'
<1>1. PICK p : p = Head(work).slot
  OBVIOUS
<1>2. /\ work # <<>> /\ Head(work).op = "dropPane"
      /\ ReleaseChild(p) /\ slot' = [slot EXCEPT ![p] = Vacant]
      /\ panes' = panes \ {p} /\ overlay' \in {None, overlay}
  BY <1>1 DEF DropPane, Applying
<1>3. p \in Panes /\ p \in Slots /\ p # Shell /\ Shell \in Slots
  BY <1>1, <1>2, HeadOfAgenda DEF ConstantsAssumption, Slots
<1>4. slot'[p] = Vacant /\ \A t \in Slots \ {p} : slot'[t] = slot[t]
  BY <1>2, <1>3 DEF TypeOK
<1>5. slot'[p].pid = 0 /\ slot'[p].st \notin Live
  BY <1>4 DEF Vacant, Live
<1>6. RunningPid(p)' = 0
  BY <1>5 DEF RunningPid
<1>7. ShellSame'
  BY <1>2, <1>3, <1>4, ShellStays DEF ReleaseChild
<1>8. OutsideIdle'
  BY <1>2, <1>4, <1>5 DEF Wants, OutsideIdle, Slots
<1>9. QED
  BY <1>2, <1>3, <1>4, <1>5, <1>6, <1>7, <1>8, WantsReleased

LEMMA DismissShellWants ==
  ASSUME ConstantsAssumption, TypeOK, TypeOK', Kept, Wants, DismissShell
  PROVE  Wants'
<1> DEFINE kept == \/ RunningPid(Shell) # 0
                   \/ Stopping(Shell)
                   \/ slot[Shell].idx \in pending
                   \/ slot[Shell].ureq \in unconfirmed
<1>1. /\ ReleaseChild(Shell) /\ panes' = panes /\ overlay' \in {None, overlay}
      /\ slot' = [slot EXCEPT ![Shell] = [@ EXCEPT
           !.st  = IF kept THEN slot[Shell].st ELSE "absent",
           !.pid = IF kept THEN slot[Shell].pid ELSE 0,
           !.idx = 0, !.ureq = 0]]
  BY DEF DismissShell
<1> HIDE DEF kept
<1>2. Shell \in Slots /\ Shell \notin Panes
  BY DEF Slots, ConstantsAssumption
<1>3. /\ \A t \in Slots \ {Shell} : slot'[t] = slot[t]
      /\ slot'[Shell].want = slot[Shell].want
      /\ \/ slot'[Shell].pid = slot[Shell].pid /\ slot'[Shell].st = slot[Shell].st
         \/ slot'[Shell].pid = 0 /\ slot'[Shell].st = "absent"
  BY <1>1, <1>2 DEF TypeOK, SlotRecord
<1>4. RunningPid(Shell)' \in {0, RunningPid(Shell)}
  BY <1>3 DEF RunningPid, Live
<1>5. ShellSame'
  BY <1>1, <1>3, ShellStays DEF ReleaseChild
<1>6. OutsideIdle'
  BY <1>1, <1>2, <1>3 DEF Wants, OutsideIdle, Slots
<1>7. QED
  BY <1>1, <1>2, <1>3, <1>4, <1>5, <1>6, WantsReleased

LEMMA ToSurfAceWants ==
  ASSUME ConstantsAssumption, TypeOK, TypeOK', Kept, Wants,
         NEW p \in Panes, SwitchToSurfAce(p) \/ NativePaneRelease(p)
  PROVE  Wants'
<1>1. /\ ReleaseChild(p) /\ panes' = panes /\ overlay' \in {None, overlay}
      /\ p \in panes
      /\ slot' = [slot EXCEPT
           ![p] = [Vacant EXCEPT
                     !.st = IF RunningPid(p) = 0 THEN "absent" ELSE slot[p].st,
                     !.pid = RunningPid(p)]]
  BY DEF SwitchToSurfAce, NativePaneRelease, ToSurfAce
<1>2. p \in Slots /\ p # Shell /\ Shell \in Slots
  BY DEF Slots, ConstantsAssumption
<1>3. /\ slot'[p].pid = RunningPid(p)
      /\ slot'[p].st = IF RunningPid(p) = 0 THEN "absent" ELSE slot[p].st
      /\ \A t \in Slots \ {p} : slot'[t] = slot[t]
  BY <1>1, <1>2 DEF TypeOK, Vacant
<1>4. slot'[p].pid \in {0, slot[p].pid} /\ RunningPid(p)' \in {0, RunningPid(p)}
  BY <1>3 DEF RunningPid, Live
<1>5. ShellSame'
  BY <1>1, <1>2, <1>3, ShellStays DEF ReleaseChild
<1>6. OutsideIdle'
  BY <1>1, <1>3 DEF Wants, OutsideIdle, Slots
<1>7. QED
  BY <1>1, <1>2, <1>3, <1>4, <1>5, <1>6, WantsReleased

LEMMA HostWants ==
  ASSUME ConstantsAssumption, TypeOK, TypeOK', Kept, Wants,
         NEW p \in Panes, NEW spec \in Specs, NEW rev,
         NativePaneHost(p, spec, rev) \/ NativePaneUpdate(p, spec, rev)
  PROVE  Wants'
<1>1. HostPlan(p, spec, rev) /\ overlay' = overlay
  BY DEF NativePaneHost, NativePaneUpdate
<1>2. p \in Slots /\ p # Shell /\ Shell \in Slots
  BY DEF Slots, ConstantsAssumption
<1>3. CASE p \in panes /\ slot[p].want # spec
  <2>1. /\ ReleaseChild(p) /\ panes' = panes
        /\ slot' = [slot EXCEPT ![p] = [@ EXCEPT
            !.st = IF RunningPid(p) = 0 THEN "absent" ELSE slot[p].st,
            !.pid = RunningPid(p),
            !.idx = 0, !.ureq = 0, !.token = 0,
            !.want = spec, !.rev = rev]]
    BY <1>1, <1>3 DEF HostPlan
  <2>2. /\ slot'[p].pid = RunningPid(p)
        /\ slot'[p].st = IF RunningPid(p) = 0 THEN "absent" ELSE slot[p].st
        /\ \A t \in Slots \ {p} : slot'[t] = slot[t]
    BY <1>2, <2>1 DEF TypeOK, SlotRecord
  <2>3. slot'[p].pid \in {0, slot[p].pid} /\ RunningPid(p)' \in {0, RunningPid(p)}
    BY <2>2 DEF RunningPid, Live
  <2>4. ShellSame'
    BY <1>1, <1>2, <2>1, <2>2, ShellStays DEF ReleaseChild
  <2>5. OutsideIdle'
    BY <1>3, <2>1, <2>2 DEF Wants, OutsideIdle, Slots
  <2>6. QED
    BY <1>2, <2>1, <2>2, <2>3, <2>4, <2>5, WantsReleased
<1>4. CASE ~(p \in panes /\ slot[p].want # spec)
  <2>1. /\ slot' = [slot EXCEPT ![p] = [@ EXCEPT !.want = spec, !.rev = rev]]
        /\ UNCHANGED <<launch, stops, pending, cancelled>> /\ panes' = panes \cup {p}
    BY <1>1, <1>4 DEF HostPlan, tables
  <2>2. \A t \in Slots \ {p} : slot'[t] = slot[t]
    BY <1>2, <2>1 DEF TypeOK
  <2>3. /\ slot'[p].pid = slot[p].pid /\ slot'[p].st = slot[p].st
        /\ slot'[p].want = spec
    <3>1. slot'[p] = [slot[p] EXCEPT !.want = spec, !.rev = rev]
      BY <1>2, <2>1 DEF TypeOK
    <3>2. QED
      BY <1>2, <3>1 DEF TypeOK, SlotRecord
  <2>4. RunningPid(p)' = RunningPid(p)
    BY <2>3 DEF RunningPid
  <2>5. RunningPid(p) # 0 => slot'[p].want = slot[p].want
    BY <1>4, <2>3 DEF RunningPid, Wants, OutsideIdle
  <2>6. ShellSame'
    BY <1>1, <1>2, <2>1, <2>2, ShellStays
  <2>7. OutsideIdle'
    BY <2>1, <2>2 DEF Wants, OutsideIdle, Slots
  <2>8. ASSUME NEW t \in Slots
        PROVE  \/ slot'[t] = slot[t]
               \/ /\ slot'[t].pid \in {0, slot[t].pid}
                  /\ RunningPid(t)' \in {0, RunningPid(t)}
                  /\ RunningPid(t)' # 0 => slot'[t].want = slot[t].want
    BY <2>2, <2>3, <2>5 DEF RunningPid
  <2>9. QED
    BY <2>1, <2>6, <2>7, <2>8, WantsQuiet
<1>5. QED
  BY <1>3, <1>4

LEMMA MainRequestsWants ==
  ASSUME ConstantsAssumption, TypeOK, TypeOK', Kept, Wants,
         ResetRuntime \/ \E intent \in Specs : SelectMainApp(intent)
  PROVE  Wants'
<1>1. TerminateMain /\ UNCHANGED <<panes, overlay>>
  BY DEF ResetRuntime, SelectMainApp
<1>2. Main \in Slots /\ Main # Shell /\ Shell \in Slots /\ Main \notin Panes
  BY DEF Slots, Main, Shell, ConstantsAssumption
<1>3. PICK f : f = MainReleased
  OBVIOUS
<1>4. f \in [Slots -> SlotRecord]
  BY <1>3, MainReleasedType DEF TypeOK
<1>5. /\ \A t \in Slots \ {Main} : f[t] = slot[t]
      /\ f[Main].pid = slot[Main].pid /\ f[Main].st = slot[Main].st
      /\ f[Main].want = slot[Main].want
  BY <1>2, <1>3 DEF MainReleased, TypeOK, SlotRecord
<1>6. /\ \A t \in Slots \ {Main} : slot'[t] = f[t]
      /\ \/ slot'[Main].pid = f[Main].pid /\ slot'[Main].st = f[Main].st
         \/ slot'[Main].pid = 0 /\ slot'[Main].st \notin Live
  <2>1. f[Main] \in SlotRecord /\ Rest(Main) \notin Live /\ "waiting" \notin Live
    BY <1>2, <1>4 DEF Rest, Live
  <2>2. CASE ResetRuntime
    <3>1. slot' = f \/ slot' = [f EXCEPT ![Main] = [f[Main] EXCEPT !.st = Rest(Main),
                     !.pid = 0, !.token = 0, !.ureq = 0]]
      BY <1>3, <2>2 DEF ResetRuntime
    <3>2. \A t \in Slots \ {Main} : slot'[t] = f[t]
      BY <1>4, <3>1
    <3>3. slot'[Main] = f[Main] \/ slot'[Main] = [f[Main] EXCEPT !.st = Rest(Main),
                     !.pid = 0, !.token = 0, !.ureq = 0]
      BY <1>2, <1>4, <3>1
    <3>4. /\ \/ slot'[Main].pid = f[Main].pid /\ slot'[Main].st = f[Main].st
             \/ slot'[Main].pid = 0 /\ slot'[Main].st \notin Live
          /\ slot'[Main].want = f[Main].want
      BY <2>1, <3>3 DEF SlotRecord
    <3>5. QED
      BY <3>2, <3>4
  <2>3. ASSUME NEW intent \in Specs, SelectMainApp(intent)
        PROVE  /\ \A t \in Slots \ {Main} : slot'[t] = f[t]
               /\ \/ slot'[Main].pid = f[Main].pid /\ slot'[Main].st = f[Main].st
                  \/ slot'[Main].pid = 0 /\ slot'[Main].st \notin Live
               /\ slot'[Main].want = intent
    <3>1. \/ slot' = [f EXCEPT ![Main] = [f[Main] EXCEPT !.want = intent]]
          \/ slot' = [f EXCEPT ![Main] = [f[Main] EXCEPT !.want = intent,
                        !.st = "waiting", !.pid = 0, !.token = 0]]
      BY <1>3, <2>3 DEF SelectMainApp
    <3>2. \A t \in Slots \ {Main} : slot'[t] = f[t]
      BY <1>4, <3>1
    <3>3. \/ slot'[Main] = [f[Main] EXCEPT !.want = intent]
          \/ slot'[Main] = [f[Main] EXCEPT !.want = intent,
                        !.st = "waiting", !.pid = 0, !.token = 0]
      BY <1>2, <1>4, <3>1
    <3>4. /\ \/ slot'[Main].pid = f[Main].pid /\ slot'[Main].st = f[Main].st
             \/ slot'[Main].pid = 0 /\ slot'[Main].st \notin Live
          /\ slot'[Main].want = intent
      BY <2>1, <3>3 DEF SlotRecord
    <3>5. QED
      BY <3>2, <3>4
  <2>4. CASE \E intent \in Specs : SelectMainApp(intent)
    <3>1. /\ \A t \in Slots \ {Main} : slot'[t] = f[t]
          /\ \/ slot'[Main].pid = f[Main].pid /\ slot'[Main].st = f[Main].st
             \/ slot'[Main].pid = 0 /\ slot'[Main].st \notin Live
      BY <2>3, <2>4
    <3>2. QED
      BY <3>1
  <2>5. QED
    BY <2>2, <2>4
<1>7. /\ slot'[Main].pid \in {0, slot[Main].pid}
      /\ RunningPid(Main)' \in {0, RunningPid(Main)}
  BY <1>5, <1>6 DEF RunningPid
<1>8. \A t \in Slots \ {Main} : slot'[t] = slot[t]
  BY <1>5, <1>6
<1>9. OutsideIdle'
  BY <1>1, <1>2, <1>8 DEF Wants, OutsideIdle, Slots
<1>10. CASE slot[Main].ureq # 0
  <2>1. UNCHANGED <<launch, pending, cancelled, stops>>
    BY <1>1, <1>10 DEF TerminateMain
  <2>2. RunningPid(Main) = 0
    BY <1>2, <1>10 DEF Kept, StartsKnown, UnconfirmedIsNamed, RunningPid
  <2>3. ShellSame'
    BY <1>1, <1>2, <1>8, <2>1, ShellStays
  <2>4. ASSUME NEW t \in Slots
        PROVE  \/ slot'[t] = slot[t]
               \/ /\ slot'[t].pid \in {0, slot[t].pid}
                  /\ RunningPid(t)' \in {0, RunningPid(t)}
                  /\ RunningPid(t)' # 0 => slot'[t].want = slot[t].want
    <3>1. CASE t = Main
      <4>1. RunningPid(Main)' = 0
        BY <1>7, <2>2
      <4>2. RunningPid(t)' = 0
        BY <3>1, <4>1 DEF RunningPid
      <4>3. QED
        BY <1>7, <3>1, <4>2
    <3>2. QED
      BY <1>8, <3>1
  <2>5. QED
    BY <1>9, <2>1, <2>3, <2>4, WantsQuiet
<1>11. CASE slot[Main].ureq = 0
  <2>1. ReleaseChild(Main)
    BY <1>1, <1>11 DEF TerminateMain
  <2>2. ShellSame'
    BY <1>1, <1>2, <1>8, <2>1, ShellStays DEF ReleaseChild
  <2>3. QED
    BY <1>2, <1>7, <1>8, <1>9, <2>1, <2>2, WantsReleased
<1>12. QED
  BY <1>10, <1>11

-----------------------------------------------------------------------------
(* The answers                                                              *)

\* The answer to the current launch: the slot runs it, or nothing.
LEMMA CurrentWants ==
  ASSUME TypeOK, TypeOK', Kept, Wants, NEW r \in pending, IsCurrent(r),
         NEW s \in Slots, s = launch[r].slot, Shell \in Slots,
         slot'[s].want = slot[s].want, slot'[s].pid \in {0, r},
         \A t \in Slots \ {s} : slot'[t] = slot[t],
         UNCHANGED <<launch, panes, overlay, cancelled, stops>>,
         pending' = pending \ {r}
  PROVE  Wants'
<1>1. /\ slot[s].want = launch[r].spec /\ (s \in Panes => s \in panes)
      /\ r \notin pending' \cup cancelled' /\ LogGrows
  BY DEF IsCurrent, Wants, LogGrows
<1>2. ShellSame'
  BY ShellStays
<1>3. OutsideIdle'
  BY <1>1 DEF Wants, OutsideIdle, Slots
<1>4. ASSUME NEW t \in Slots, RunningPid(t)' # 0
      PROVE  \/ launch'[RunningPid(t)'].spec = slot'[t].want
             \/ RunningPid(t)' = RunningPid(t) /\ slot'[t].want = slot[t].want
  <2>1. CASE t = s
    <3>1. RunningPid(t)' = r
      BY <1>4, <2>1 DEF RunningPid
    <3>2. QED
      BY <1>1, <2>1, <3>1
  <2>2. CASE t # s
    BY <2>2 DEF RunningPid
  <2>3. QED
    BY <2>1, <2>2
<1>5. ASSUME NEW t \in Slots
      PROVE  \/ slot'[t].pid \in {0, slot[t].pid}
             \/ slot'[t].pid \in pending /\ slot'[t].pid \notin pending' \cup cancelled'
  BY <1>1
<1>6. /\ pending' \cap cancelled' = {}
      /\ \A p \in pending' : p \in pending
      /\ \A p \in cancelled' : p \in Unanswered
      /\ stops' = stops
  BY DEF Wants, Unanswered
<1>7. QED
  BY <1>1, <1>2, <1>3, <1>4, <1>5, <1>6, WantsStep

\* An answer nobody waits for any more.
LEMMA LateWants ==
  ASSUME TypeOK, TypeOK', Kept, Wants, NEW r \in Unanswered, Shell \in Slots,
         UNCHANGED <<launch, panes, overlay>>,
         pending' \subseteq pending \ {r}, cancelled' \subseteq cancelled \ {r},
         stops \subseteq stops',
         \A x \in stops' : x \in stops \/ (x.kind = "stale" /\ x.id = r),
         \A t \in Slots : /\ slot'[t].pid = slot[t].pid /\ slot'[t].st = slot[t].st
                          /\ slot'[t].want = slot[t].want
  PROVE  Wants'
<1>1. ShellSame'
  BY ShellStays
<1>2. OutsideIdle'
  BY DEF Wants, OutsideIdle, Slots
<1>3. \A t \in Slots : RunningPid(t)' = RunningPid(t) /\ slot'[t].want = slot[t].want
  BY DEF RunningPid
<1>4. /\ pending' \cap cancelled' = {} /\ r \notin pending' \cup cancelled'
      /\ \A p \in pending' : p \in pending
      /\ \A p \in cancelled' : p \in Unanswered
      /\ \A x \in stops : x \in stops'
  BY DEF Wants, Unanswered
<1>5. \A x \in stops' : \/ x \in stops
                        \/ /\ x.kind = "stale" /\ x.id \in Unanswered
                           /\ x.id \notin pending' \cup cancelled'
  BY <1>4
<1>6. LogGrows
  BY DEF LogGrows
<1>7. QED
  BY <1>1, <1>2, <1>3, <1>4, <1>5, <1>6, WantsStep

LEMMA SpawnStartedWants ==
  ASSUME ConstantsAssumption, TypeOK, TypeOK', Indexed, Kept, Wants, SpawnStarted
  PROVE  Wants'
<1>1. UNCHANGED <<launch, panes, overlay>> /\ Shell \in Slots
  BY DEF SpawnStarted, Slots
<1>2. PICK r : r = Subject
  OBVIOUS
<1>3. PICK s : s = launch[r].slot
  OBVIOUS
<1>4. ASSUME StopLate(r)
      PROVE  /\ stops \subseteq stops'
             /\ \A x \in stops' : x \in stops \/ (x.kind = "stale" /\ x.id = r)
  <2>1. PICK y : y = [id |-> r, kind |-> "stale", slot |-> s]
    OBVIOUS
  <2>2. y.id = r /\ y.kind = "stale"
    BY <2>1
  <2>3. stops' = stops \/ stops' = stops \cup {y}
    BY <1>3, <1>4, <2>1 DEF StopLate, Terminate
  <2>4. QED
    BY <2>2, <2>3
<1>5. CASE /\ r \in pending /\ IsCurrent(r)
           /\ slot' = [ClearIndex(slot, r) EXCEPT ![s] = [@ EXCEPT
                         !.st = "launching", !.pid = r, !.ureq = 0, !.token = r]]
           /\ pending' = pending \ {r}
           /\ UNCHANGED <<cancelled, stops, cmds>>
  <2>1. /\ s \in Slots /\ slot'[s].pid = r /\ slot'[s].want = slot[s].want
        /\ \A t \in Slots \ {s} : slot'[t] = slot[t]
    BY <1>3, <1>5, Cleared DEF SlotRecord
  <2>2. QED
    BY <1>1, <1>3, <1>5, <2>1, CurrentWants
<1>6. CASE /\ r \in pending /\ ~IsCurrent(r)
           /\ slot' = ClearIndex(slot, r)
           /\ pending' = pending \ {r}
           /\ StopLate(r)
           /\ UNCHANGED cancelled
  <2>1. s \in Slots
    BY <1>3, <1>6, Cleared
  <2>2. \A t \in Slots : /\ slot'[t].pid = slot[t].pid /\ slot'[t].st = slot[t].st
                         /\ slot'[t].want = slot[t].want
    BY <1>3, <1>6, <2>1, ClearedFields
  <2>3. /\ r \in Unanswered /\ pending' \subseteq pending \ {r}
        /\ cancelled' \subseteq cancelled \ {r}
    BY <1>6 DEF Unanswered, Wants
  <2>4. QED
    BY <1>1, <1>4, <1>6, <2>2, <2>3, LateWants
<1>7. CASE /\ r \in cancelled
           /\ cancelled' = cancelled \ {r}
           /\ StopLate(r)
           /\ UNCHANGED <<slot, pending>>
  <2>1. /\ r \in Unanswered /\ pending' \subseteq pending \ {r}
        /\ cancelled' \subseteq cancelled \ {r}
    BY <1>7 DEF Unanswered, Wants
  <2>2. QED
    BY <1>1, <1>4, <1>7, <2>1, LateWants
<1>8. QED
  BY <1>2, <1>3, <1>5, <1>6, <1>7 DEF SpawnStarted

LEMMA NotStartedWants ==
  ASSUME ConstantsAssumption, TypeOK, TypeOK', Indexed, Kept, Wants,
         SpawnUnconfirmed \/ SpawnFailed
  PROVE  Wants'
<1>1. /\ UNCHANGED <<launch, panes, overlay, stops>> /\ Shell \in Slots
      /\ \A x \in stops' : x \in stops
  BY DEF SpawnUnconfirmed, SpawnFailed, Slots
<1>2. PICK r : r = Subject
  OBVIOUS
<1>3. PICK s : s = launch[r].slot
  OBVIOUS
<1>4. CASE /\ r \in pending /\ IsCurrent(r)
           /\ \/ slot' = [ClearIndex(slot, r) EXCEPT ![s] = [@ EXCEPT
                    !.st = "launching", !.pid = 0, !.ureq = r, !.token = r]]
              \/ slot' = [ClearIndex(slot, r) EXCEPT ![s] = [@ EXCEPT
                    !.st = "failed", !.pid = 0, !.ureq = 0, !.token = 0]]
           /\ pending' = pending \ {r}
           /\ UNCHANGED cancelled
  <2>1. PICK f : f = ClearIndex(slot, r)
    OBVIOUS
  <2>2. /\ s \in Slots /\ f \in [Slots -> SlotRecord] /\ f[s].want = slot[s].want
        /\ \A t \in Slots \ {s} : f[t] = slot[t]
    BY <1>3, <1>4, <2>1, Cleared
  <2>3. /\ \A t \in Slots \ {s} : slot'[t] = f[t]
        /\ \/ slot'[s] = [f[s] EXCEPT !.st = "launching", !.pid = 0, !.ureq = r,
                                      !.token = r]
           \/ slot'[s] = [f[s] EXCEPT !.st = "failed", !.pid = 0, !.ureq = 0,
                                      !.token = 0]
    BY <1>4, <2>1, <2>2
  <2>4. slot'[s].pid = 0 /\ slot'[s].want = slot[s].want
    BY <2>2, <2>3 DEF SlotRecord
  <2>5. QED
    BY <1>1, <1>3, <1>4, <2>2, <2>3, <2>4, CurrentWants
<1>5. CASE /\ r \in pending
           /\ slot' = ClearIndex(slot, r)
           /\ pending' = pending \ {r}
           /\ UNCHANGED cancelled
  <2>1. s \in Slots
    BY <1>3, <1>5, Cleared
  <2>2. \A t \in Slots : /\ slot'[t].pid = slot[t].pid /\ slot'[t].st = slot[t].st
                         /\ slot'[t].want = slot[t].want
    BY <1>3, <1>5, <2>1, ClearedFields
  <2>3. /\ r \in Unanswered /\ pending' \subseteq pending \ {r}
        /\ cancelled' \subseteq cancelled \ {r}
    BY <1>5 DEF Unanswered, Wants
  <2>4. QED
    BY <1>1, <2>2, <2>3, LateWants
<1>6. CASE /\ r \in cancelled
           /\ cancelled' = cancelled \ {r}
           /\ UNCHANGED <<slot, pending>>
  <2>1. /\ r \in Unanswered /\ pending' \subseteq pending \ {r}
        /\ cancelled' \subseteq cancelled \ {r}
    BY <1>6 DEF Unanswered, Wants
  <2>2. QED
    BY <1>1, <1>6, <2>1, LateWants
<1>7. CASE SpawnUnconfirmed
  BY <1>2, <1>3, <1>4, <1>5, <1>6, <1>7 DEF SpawnUnconfirmed
<1>8. CASE SpawnFailed
  BY <1>2, <1>3, <1>4, <1>5, <1>6, <1>8 DEF SpawnFailed
<1>9. QED
  BY <1>7, <1>8

LEMMA ExitedWants ==
  ASSUME TypeOK, TypeOK', Kept, Wants, Exited
  PROVE  Wants'
<1>1. UNCHANGED <<panes, overlay, launch, pending, cancelled, stops>> /\ Shell \in Slots
  BY DEF Exited, tables, Slots
<1>2. ASSUME NEW t \in Slots
      PROVE  \/ slot'[t] = slot[t]
             \/ slot'[t] = [slot[t] EXCEPT !.st = "exited"]
  BY DEF Exited
<1>3. ASSUME NEW t \in Slots
      PROVE  /\ slot'[t].pid = slot[t].pid /\ slot'[t].want = slot[t].want
             /\ slot'[t].st = slot[t].st \/ slot'[t].st = "exited"
  BY <1>2, SMTT(60) DEF TypeOK, SlotRecord
<1>4. "exited" \notin Live
  BY DEF Live
<1>5. \A t \in Slots : RunningPid(t)' \in {0, RunningPid(t)}
  BY <1>3, <1>4 DEF RunningPid
<1>6. ShellSame'
  BY <1>1, <1>3, ShellStays
<1>7. OutsideIdle'
  BY <1>1, <1>3, <1>4 DEF Wants, OutsideIdle, Slots
<1>8. QED
  BY <1>1, <1>3, <1>5, <1>6, <1>7, WantsQuiet

\* A slot that gives up an unconfirmed program, or what it ran.
LEMMA IdleWants ==
  ASSUME TypeOK, TypeOK', Kept, Wants, NEW s \in Slots, Shell \in Slots,
         UNCHANGED <<panes, launch, pending, cancelled, stops>>,
         overlay' \in {None, Shell, overlay},
         slot'[s].pid = 0, slot'[s].st \notin Live,
         s = Shell => slot'[s].want = slot[s].want,
         \A t \in Slots \ {s} : slot'[t] = slot[t]
  PROVE  Wants'
<1>1. RunningPid(s)' = 0
  BY DEF RunningPid
<1>2. ShellSame'
  BY ShellStays
<1>3. OutsideIdle'
  BY DEF Wants, OutsideIdle, Slots
<1>4. ASSUME NEW t \in Slots
      PROVE  \/ slot'[t] = slot[t]
             \/ /\ slot'[t].pid \in {0, slot[t].pid}
                /\ RunningPid(t)' \in {0, RunningPid(t)}
                /\ RunningPid(t)' # 0 => slot'[t].want = slot[t].want
  <2>1. CASE t = s
    <3>1. RunningPid(t)' = 0
      BY <1>1, <2>1 DEF RunningPid
    <3>2. QED
      BY <2>1, <3>1
  <2>2. QED
    BY <2>1
<1>5. QED
  BY <1>2, <1>3, <1>4, WantsQuiet

\* A step that changes no slot.
LEMMA SlotsSameWants ==
  ASSUME TypeOK, TypeOK', Kept, Wants, Shell \in Slots,
         UNCHANGED <<slot, launch, pending, cancelled, stops>>,
         panes \subseteq panes', overlay' \in {None, Shell, overlay}
  PROVE  Wants'
<1>1. ShellSame'
  BY ShellStays
<1>2. OutsideIdle'
  BY DEF Wants, OutsideIdle, Slots
<1>3. QED
  BY <1>1, <1>2, WantsQuiet

LEMMA UnconfirmedExitedWants ==
  ASSUME TypeOK, TypeOK', Kept, Wants, UnconfirmedExited
  PROVE  Wants'
<1>1. UNCHANGED <<panes, overlay, launch, pending, cancelled, stops>> /\ Shell \in Slots
  BY DEF UnconfirmedExited, Slots
<1>2. PICK r : r = Subject
  OBVIOUS
<1>3. CASE slot' = slot
  BY <1>1, <1>3, SlotsSameWants
<1>4. CASE r \in unconfirmed /\ slot' # slot
  <2>1. PICK s \in Slots : s = launch[r].slot
    BY <1>4, Logged DEF TypeOK
  <2>2. slot' = [slot EXCEPT ![s] = [@ EXCEPT !.st = "exited", !.pid = 0, !.ureq = 0]]
    BY <1>2, <1>4, <2>1 DEF UnconfirmedExited
  <2>3. /\ slot'[s].st = "exited" /\ slot'[s].pid = 0 /\ slot'[s].want = slot[s].want
        /\ \A t \in Slots \ {s} : slot'[t] = slot[t]
    BY <2>2 DEF TypeOK, SlotRecord
  <2>4. slot'[s].st \notin Live
    BY <2>3 DEF Live
  <2>5. QED
    BY <1>1, <2>3, <2>4, IdleWants
<1>5. QED
  BY <1>2, <1>3, <1>4 DEF UnconfirmedExited

LEMMA TerminatedUnconfirmedWants ==
  ASSUME TypeOK, TypeOK', Kept, Wants, TerminatedUnconfirmed
  PROVE  Wants'
<1>1. UNCHANGED <<panes, overlay, launch, pending, cancelled, stops>> /\ Shell \in Slots
  BY DEF TerminatedUnconfirmed, Slots
<1>2. PICK x \in ustops :
        \/ slot' = [slot EXCEPT ![x.slot] = [@ EXCEPT !.st = Rest(x.slot),
             !.pid = 0, !.token = 0,
             !.ureq = IF x.slot \in Panes \/ slot[x.slot].ureq = x.id
                      THEN 0 ELSE slot[x.slot].ureq]]
        \/ slot' = slot
  BY DEF TerminatedUnconfirmed
<1>6. PICK s \in Slots : s = x.slot
  BY DEF TypeOK, Stop
<1>7. PICK u : u = IF s \in Panes \/ slot[s].ureq = x.id THEN 0 ELSE slot[s].ureq
  OBVIOUS
<1>8. \/ slot' = [slot EXCEPT ![s] = [@ EXCEPT !.st = Rest(s), !.pid = 0,
                                      !.token = 0, !.ureq = u]]
      \/ slot' = slot
  BY <1>2, <1>6, <1>7, Zenon
<1>3. CASE slot' = slot
  BY <1>1, <1>3, SlotsSameWants
<1>4. CASE slot' = [slot EXCEPT ![s] = [@ EXCEPT !.st = Rest(s), !.pid = 0,
                                          !.token = 0, !.ureq = u]]
  <2>1. /\ slot'[s].st = Rest(s) /\ slot'[s].pid = 0 /\ slot'[s].want = slot[s].want
        /\ \A t \in Slots \ {s} : slot'[t] = slot[t]
    BY <1>4 DEF TypeOK, SlotRecord
  <2>2. slot'[s].st \notin Live
    BY <2>1 DEF Rest, Live
  <2>3. QED
    BY <1>1, <2>1, <2>2, IdleWants
<1>5. QED
  BY <1>3, <1>4, <1>8

\* The stop that ends is that of the program its slot gives up.
LEMMA TerminatedWants ==
  ASSUME TypeOK, TypeOK', Kept, Wants, Terminated
  PROVE  Wants'
<1>1. UNCHANGED <<panes, overlay, launch, pending, cancelled>> /\ Shell \in Slots
  BY DEF Terminated, Slots
<1>2. PICK x \in stops :
        /\ stops' = stops \ {x}
        /\ \/ slot' = [slot EXCEPT ![x.slot] = [@ EXCEPT !.st = "failed",
                                                  !.pid = 0, !.token = 0]]
           \/ slot' = [slot EXCEPT ![x.slot] = [@ EXCEPT !.st = Rest(x.slot),
                                                  !.pid = 0, !.token = 0]]
           \/ /\ slot' = slot
              /\ ~(/\ x.kind = "slot" /\ (x.slot \in Panes => x.slot \in panes)
                   /\ KnownPid(x.slot) = x.id)
  BY Zenon DEF Terminated
<1>3. PICK s \in Slots : s = x.slot
  BY DEF TypeOK, Stop
<1>4. /\ slot'[s].want = slot[s].want
      /\ \/ slot'[s].pid = 0 /\ slot'[s].st \in {"failed", Rest(s)}
         \/ /\ slot'[s].pid = slot[s].pid /\ slot'[s].st = slot[s].st
            /\ ~(/\ x.kind = "slot" /\ (x.slot \in Panes => x.slot \in panes)
                 /\ KnownPid(x.slot) = x.id)
      /\ \A t \in Slots \ {s} : slot'[t] = slot[t]
  <2>1. CASE /\ slot' = slot
             /\ ~(/\ x.kind = "slot" /\ (x.slot \in Panes => x.slot \in panes)
                  /\ KnownPid(x.slot) = x.id)
    BY <2>1
  <2>2. CASE slot' = [slot EXCEPT ![s] = [@ EXCEPT !.st = "failed",
                                            !.pid = 0, !.token = 0]]
    BY <2>2 DEF TypeOK, SlotRecord
  <2>3. CASE slot' = [slot EXCEPT ![s] = [@ EXCEPT !.st = Rest(s),
                                            !.pid = 0, !.token = 0]]
    BY <2>3 DEF TypeOK, SlotRecord
  <2>4. QED
    BY <1>2, <1>3, <2>1, <2>2, <2>3
<1>5. "failed" \notin Live /\ Rest(s) \notin Live
  BY DEF Rest, Live
<1>6. ASSUME NEW t \in Slots
      PROVE  /\ slot'[t].pid \in {0, slot[t].pid}
             /\ RunningPid(t)' \in {0, RunningPid(t)}
             /\ slot'[t].want = slot[t].want
  BY <1>4, <1>5 DEF RunningPid
<1>7. ASSUME NEW t \in Slots \ {Shell}, RunningPid(t)' # 0
      PROVE  RunningPid(t) # x.id
  <2>1. SUFFICES ASSUME RunningPid(t) = x.id PROVE FALSE
    OBVIOUS
  <2>2. /\ slot[t].st \in Live /\ slot[t].pid = x.id /\ x.id # 0
        /\ slot'[t].st \in Live /\ slot'[t].pid # 0
    BY <1>6, <1>7, <2>1 DEF RunningPid
  <2>3. launch[x.id].slot = t /\ launch[x.id].slot = x.slot
    BY <2>2 DEF Kept, ProgramsKnown, PidOwned, StopsOwned
  <2>4. t = s /\ x.slot = t
    BY <1>3, <2>3
  <2>5. x.kind = "slot"
    BY <2>2, <2>4 DEF Wants, StopDecided, Fresh, TypeOK, Stop
  <2>6. (x.slot \in Panes => x.slot \in panes) /\ KnownPid(x.slot) = x.id
    BY <2>2, <2>4 DEF Wants, OutsideIdle, KnownPid
  <2>7. slot'[s].pid = 0
    BY <1>4, <2>5, <2>6
  <2>8. QED
    BY <2>2, <2>4, <2>7
<1>8. ShellSame'
  BY <1>1, <1>6, ShellStays
<1>9. OutsideIdle'
  BY <1>1, <1>4, <1>5 DEF Wants, OutsideIdle, Slots
<1>10. /\ LogGrows /\ pending' \cap cancelled' = {}
       /\ \A r \in pending' : r \in pending
       /\ \A r \in cancelled' : r \in Unanswered
       /\ \A y \in stops' : y \in stops
       /\ \A y \in stops : y.id # x.id => y \in stops'
  BY <1>1, <1>2 DEF LogGrows, Wants, Unanswered
<1>11. ASSUME NEW t \in Slots \ {Shell}, RunningPid(t)' # 0
       PROVE  /\ RunningPid(t)' = RunningPid(t) /\ slot'[t].want = slot[t].want
              /\ \A y \in stops : y.id = RunningPid(t)' => y \in stops'
  BY <1>6, <1>7, <1>10, <1>11
<1>12. QED
  BY <1>6, <1>8, <1>9, <1>10, <1>11, WantsStep

-----------------------------------------------------------------------------
(* Launching, and the end of the agenda                                     *)

LEMMA LaunchSlotWants ==
  ASSUME ConstantsAssumption, TypeOK, TypeOK', Kept, Wants, LaunchSlot
  PROVE  Wants'
<1>1. /\ work # <<>> /\ Head(work).op = "launch" /\ UNCHANGED <<panes, overlay>>
      /\ Shell \in Slots /\ Main \notin Panes /\ Shell # Main
  BY DEF LaunchSlot, Applying, Slots, ConstantsAssumption, Main, Shell
<1>2. PICK s \in Slots : s = Head(work).slot
  BY <1>1, HeadOfAgenda
<1>3. CASE MayLaunch(s) /\ Spawn(s, slot, Tail(work))
  <2>1. /\ Len(launch) + 1 \notin DOMAIN launch
        /\ \A r \in DOMAIN launch' :
             r \in DOMAIN launch \/ (r = Len(launch) + 1 /\ launch'[r].slot = s)
        /\ Grows
    BY <1>3, SpawnLogged DEF Kept, TypeOK
  <2>2. /\ UNCHANGED <<cancelled, stops>> /\ pending' = pending \cup {Len(launch) + 1}
    BY <1>3 DEF Spawn
  <2>3. /\ slot'[s].pid = slot[s].pid /\ slot'[s].st = slot[s].st
        /\ slot'[s].want = slot[s].want
        /\ \A t \in Slots \ {s} : slot'[t] = slot[t]
    BY <1>3 DEF Spawn, TypeOK, SlotRecord
  <2>4. ASSUME NEW t \in Slots
        PROVE  /\ slot'[t].pid = slot[t].pid /\ slot'[t].st = slot[t].st
               /\ slot'[t].want = slot[t].want
    BY <2>3
  <2>5. LogGrows
    BY <2>1 DEF LogGrows, Grows
  <2>6. launch'[Len(launch) + 1].spec = slot[s].want
    <3>1. PICK e : e = [slot |-> s, spec |-> slot[s].want, rev |-> slot[s].rev]
      OBVIOUS
    <3>2. e.spec = slot[s].want /\ launch' = Append(launch, e)
      BY <1>3, <3>1 DEF Spawn
    <3>3. launch \in Seq(Launched \cup {e})
      BY SeqMonotonic DEF TypeOK
    <3>4. launch'[Len(launch) + 1] = e
      BY <3>2, <3>3, AppendProperties
    <3>5. QED
      BY <3>2, <3>4
  <2>7. ShellSame'
    <3>1. ASSUME NEW r \in DOMAIN launch', launch'[r].slot = Shell
          PROVE  launch'[r].spec = slot'[Shell].want
      <4>1. CASE r \in DOMAIN launch
        BY <1>1, <2>4, <2>5, <3>1, <4>1 DEF Wants, ShellSame, LogGrows
      <4>2. CASE r = Len(launch) + 1 /\ launch'[r].slot = s
        BY <1>1, <2>4, <2>6, <3>1, <4>2
      <4>3. QED
        BY <2>1, <4>1, <4>2
    <3>2. QED
      BY <1>1, <3>1 DEF Wants, ShellSame
  <2>8. OutsideIdle'
    BY <1>1, <2>4 DEF Wants, OutsideIdle, Slots
  <2>9. /\ \A r \in pending' : r \in pending \/ r \notin DOMAIN launch
        /\ \A r \in cancelled' : r \in Unanswered
        /\ pending' \cap cancelled' = {}
    BY <2>1, <2>2 DEF Unanswered, Wants, TypeOK
  <2>10. \A t \in Slots : RunningPid(t)' = RunningPid(t)
    BY <2>4 DEF RunningPid
  <2>11. QED
    BY <2>2, <2>4, <2>5, <2>7, <2>8, <2>9, <2>10, WantsStep
<1>4. CASE ~(MayLaunch(s) /\ Spawn(s, slot, Tail(work)))
  <2>1. /\ \/ slot' = slot
           \/ /\ s = Main
              /\ slot' = [slot EXCEPT ![s] = [@ EXCEPT !.st = Rest(s), !.pid = 0]]
        /\ UNCHANGED <<launch, pending, cancelled, stops>>
    BY <1>2, <1>4 DEF LaunchSlot, tables
  <2>2. CASE slot' = slot
    BY <1>1, <2>1, <2>2, SlotsSameWants
  <2>3. CASE s = Main /\ slot' = [slot EXCEPT ![s] = [@ EXCEPT !.st = Rest(s), !.pid = 0]]
    <3>1. /\ slot'[s].st = Rest(s) /\ slot'[s].pid = 0 /\ s # Shell
          /\ \A t \in Slots \ {s} : slot'[t] = slot[t]
      BY <1>1, <2>3 DEF TypeOK, SlotRecord
    <3>2. slot'[s].st \notin Live
      BY <3>1 DEF Rest, Live
    <3>3. QED
      BY <1>1, <2>1, <3>1, <3>2, IdleWants
  <2>4. QED
    BY <2>1, <2>2, <2>3
<1>5. QED
  BY <1>3, <1>4

LEMMA RemoveReleasedPaneWants ==
  ASSUME ConstantsAssumption, TypeOK, TypeOK', Kept, Wants, RemoveReleasedPane
  PROVE  Wants'
<1>1. /\ work # <<>> /\ Head(work).op = "removePane" /\ Shell \in Slots
      /\ UNCHANGED <<launch, pending, cancelled, stops>>
  BY DEF RemoveReleasedPane, Applying, Slots, tables
<1>2. PICK p \in Panes : p = Head(work).slot
  BY <1>1, HeadOfAgenda
<1>3. p \in Slots /\ p # Shell
  BY DEF Slots, ConstantsAssumption
<1>4. CASE p \in provided
  <2>1. UNCHANGED <<slot, panes, overlay>>
    BY <1>2, <1>4 DEF RemoveReleasedPane
  <2>2. QED
    BY <1>1, <2>1, SlotsSameWants
<1>5. CASE p \notin provided
  <2>1. /\ panes' = panes \ {p} /\ slot' = [slot EXCEPT ![p] = Vacant]
        /\ overlay' \in {None, overlay}
    BY <1>2, <1>5 DEF RemoveReleasedPane
  <2>2. slot'[p] = Vacant /\ \A t \in Slots \ {p} : slot'[t] = slot[t]
    BY <1>3, <2>1 DEF TypeOK
  <2>3. slot'[p].pid = 0 /\ slot'[p].st \notin Live
    BY <2>2 DEF Vacant, Live
  <2>4. RunningPid(p)' = 0
    BY <2>3 DEF RunningPid
  <2>5. ShellSame'
    BY <1>1, <1>3, <2>1, <2>2, ShellStays
  <2>6. OutsideIdle'
    BY <2>1, <2>2, <2>3 DEF Wants, OutsideIdle, Slots
  <2>7. ASSUME NEW t \in Slots
        PROVE  \/ slot'[t] = slot[t]
               \/ /\ slot'[t].pid \in {0, slot[t].pid}
                  /\ RunningPid(t)' \in {0, RunningPid(t)}
                  /\ RunningPid(t)' # 0 => slot'[t].want = slot[t].want
    <3>1. CASE t = p
      <4>1. RunningPid(t)' = 0
        BY <2>4, <3>1 DEF RunningPid
      <4>2. QED
        BY <2>3, <3>1, <4>1
    <3>2. QED
      BY <2>2, <3>1
  <2>8. QED
    BY <1>1, <2>5, <2>6, <2>7, WantsQuiet
<1>6. QED
  BY <1>4, <1>5

-----------------------------------------------------------------------------
(* Windows, and the step                                                    *)

LEMMA WindowWants ==
  ASSUME TypeOK, TypeOK', Kept, Wants, Wrappers = FALSE, NEW s \in Slots,
         Attach(s) \/ Detach(s)
  PROVE  Wants'
<1>1. /\ UNCHANGED <<panes, overlay, launch, pending, cancelled, stops>>
      /\ Shell \in Slots
  BY DEF Attach, Detach, tables, Slots
<1>2. slot[s].pid \in Int /\ slot[s].pid >= 0
  <2>1. slot[s].pid \in Int /\ (slot[s].pid # 0 => slot[s].pid \in DOMAIN launch)
    BY Logged DEF Kept, ProgramsKnown, PidOwned, Begun, TypeOK, SlotRecord
  <2>2. QED
    BY <2>1, Logged
<1>3. slot[s].st \in Live /\ (s \in Panes => s \in panes)
  BY DEF Attach, Detach, Live, Wants, OutsideIdle
<1>4. \E st \in Live : slot' = [slot EXCEPT ![s] = [@ EXCEPT
                                  !.st = st, !.pid = slot[s].pid]]
  <2>1. CASE Attach(s)
    <3>1. PICK c \in {slot[s].pid, -ReqOf(slot[s].pid)} :
            /\ c < 0 => Wrappers
            /\ slot' = [slot EXCEPT ![s] = [@ EXCEPT !.st = "attached", !.pid = c]]
      BY <2>1 DEF Attach
    <3>2. c = slot[s].pid
      BY <1>2, <3>1 DEF ReqOf
    <3>3. QED
      BY <3>1, <3>2 DEF Live
  <2>2. CASE Detach(s)
    <3>1. slot' = [slot EXCEPT ![s] = [@ EXCEPT !.st = "launching"]]
      BY <2>2 DEF Detach
    <3>2. [slot[s] EXCEPT !.st = "launching"]
            = [slot[s] EXCEPT !.st = "launching", !.pid = slot[s].pid]
      BY DEF TypeOK, SlotRecord
    <3>3. QED
      BY <3>1, <3>2 DEF Live, TypeOK
  <2>3. QED
    BY <2>1, <2>2
<1>5. /\ slot'[s].pid = slot[s].pid /\ slot'[s].st \in Live
      /\ slot'[s].want = slot[s].want
      /\ \A t \in Slots \ {s} : slot'[t] = slot[t]
  BY <1>4 DEF TypeOK, SlotRecord
<1>6. ASSUME NEW t \in Slots
      PROVE  /\ slot'[t].pid = slot[t].pid /\ slot'[t].want = slot[t].want
             /\ RunningPid(t)' = RunningPid(t)
  BY <1>3, <1>5 DEF RunningPid
<1>7. ShellSame'
  BY <1>1, <1>6, ShellStays
<1>8. OutsideIdle'
  BY <1>1, <1>3, <1>5 DEF Wants, OutsideIdle, Slots
<1>9. QED
  BY <1>1, <1>6, <1>7, <1>8, WantsQuiet

\* The overlay that takes a window back is the shell.
LEMMA RecoverOverlayWants ==
  ASSUME ConstantsAssumption, TypeOK, TypeOK', Kept, Wants,
         NEW r \in DOMAIN app, RecoverOverlay(r)
  PROVE  Wants'
<1>1. /\ UNCHANGED <<panes, overlay, launch, pending, cancelled, stops>>
      /\ Shell \in Slots /\ Shell \notin Panes /\ "recover" \in Requests
  BY DEF RecoverOverlay, Request, tables, Slots, ConstantsAssumption
<1>2. overlay = Shell
  BY DEF RecoverOverlay, Wants, ShellSame
<1>3. slot' = [slot EXCEPT ![Shell] = [@ EXCEPT !.st = "attached", !.pid = r]]
  BY <1>2 DEF RecoverOverlay
<1>4. /\ slot'[Shell].want = slot[Shell].want
      /\ \A t \in Slots \ {Shell} : slot'[t] = slot[t]
  BY <1>1, <1>3 DEF TypeOK, SlotRecord
<1>5. \A t \in Slots \ {Shell} : RunningPid(t)' = RunningPid(t)
  BY <1>4 DEF RunningPid
<1>6. ShellSame'
  BY <1>1, <1>4, ShellStays
<1>7. OutsideIdle'
  BY <1>1, <1>4 DEF Wants, OutsideIdle, Slots
<1>8. \A t \in Slots : slot'[t].pid \in {0, slot[t].pid} \/ ~Fresh(t)
  BY <1>1, <1>4 DEF Fresh
<1>9. /\ LogGrows /\ pending' \cap cancelled' = {}
      /\ \A q \in pending' : q \in pending
      /\ \A q \in cancelled' : q \in Unanswered
      /\ \A x \in stops' : x \in stops
      /\ \A x \in stops : x \in stops'
  BY <1>1 DEF LogGrows, Wants, Unanswered
<1>10. QED
  BY <1>4, <1>5, <1>6, <1>7, <1>8, <1>9, WantsStep

LEMMA InitWants ==
  ASSUME ConstantsAssumption, Init
  PROVE  Wants
<1>1. /\ launch = <<>> /\ pending = {} /\ cancelled = {} /\ stops = {}
      /\ panes = {} /\ overlay = None
  BY DEF Init
<1>2. \A s \in Slots : slot[s].st = "absent" /\ slot[s].pid = 0
  BY DEF Init, Vacant
<1>3. \A s \in Slots : RunningPid(s) = 0
  BY <1>2 DEF RunningPid, Live
<1>4. ShellSame
  BY <1>1, EmptySeq DEF ShellSame
<1>5. OutsideIdle
  BY <1>2 DEF OutsideIdle, Slots, Live
<1>6. QED
  BY <1>1, <1>3, <1>4, <1>5 DEF Wants, PidDecided, WantKnown, Unanswered

LEMMA NextWants ==
  ASSUME ConstantsAssumption, OwnWindows, TypeOK, TypeOK', Indexed, Kept, Wants,
         [Next]_vars
  PROVE  Wants'
<1>1. Shell \in Slots
  BY DEF Slots
<1>2. CASE Step
  <2>1. CASE PollProcesses
    <3>1. UNCHANGED <<slot, panes, overlay, launch, pending, cancelled, stops>>
      BY <2>1 DEF PollProcesses, slots, tables
    <3>2. QED
      BY <3>1, WantsUnchanged
  <2>2. QED
    BY <1>2, <2>1, SpawnStartedWants, NotStartedWants, ExitedWants, TerminatedWants,
       TerminatedUnconfirmedWants, UnconfirmedExitedWants, LaunchSlotWants,
       RemoveReleasedPaneWants, DropPaneWants DEF Step
<1>3. CASE RequestStep
  <2>1. CASE ResetRuntime \/ \E i \in Specs : SelectMainApp(i)
    BY <2>1, MainRequestsWants
  <2>2. CASE RuntimeRunning \/ \E p \in Panes : LaunchNativePaneHost(p)
    <3>1. UNCHANGED <<slot, panes, overlay, launch, pending, cancelled, stops>>
      BY <2>2 DEF RuntimeRunning, LaunchNativePaneHost, slots, tables
    <3>2. QED
      BY <3>1, WantsUnchanged
  <2>3. CASE OpenShell \/ \E incoming \in SUBSET Panes : ApplyProviderSnapshot(incoming)
    <3>1. /\ UNCHANGED <<slot, launch, pending, cancelled, stops>>
          /\ panes \subseteq panes' /\ overlay' \in {Shell, overlay}
      BY <2>3 DEF OpenShell, ApplyProviderSnapshot, tables
    <3>2. QED
      BY <1>1, <3>1, SlotsSameWants
  <2>4. CASE DismissShell
    BY <2>4, DismissShellWants
  <2>5. CASE \E p \in Panes, spec \in Specs, rev \in 0..MaxRevision :
               NativePaneHost(p, spec, rev) \/ NativePaneUpdate(p, spec, rev)
    BY <2>5, HostWants
  <2>6. CASE \E p \in Panes : NativePaneRelease(p) \/ SwitchToSurfAce(p)
    BY <2>6, ToSurfAceWants
  <2>7. ASSUME NEW p \in Panes, NEW spec \in Specs PROVE ~SwitchToExternal(p, spec)
    BY DEF SwitchToExternal, Request, OwnWindows
  <2>8. CASE \E r \in DOMAIN app : RecoverOverlay(r)
    BY <2>8, RecoverOverlayWants
  <2>9. QED
    BY <1>3, <2>1, <2>2, <2>3, <2>4, <2>5, <2>6, <2>7, <2>8 DEF RequestStep
<1>4. CASE Window
  BY <1>4, WindowWants DEF Window, OwnWindows
<1>5. CASE \/ PollRequest \/ Worker \/ UNCHANGED vars
           \/ \E r \in DOMAIN app : AppExits(r)
  <2>1. UNCHANGED <<slot, panes, overlay, launch, pending, cancelled, stops>>
    BY <1>5 DEF PollRequest, Worker, WorkerSpawn, WorkerTerminate,
       WorkerTerminateUnconfirmed, ReapStarted, ReapReported, ReapUnconfirmed,
       AppExits, vars, slots, tables
  <2>2. QED
    BY <2>1, WantsUnchanged
<1>6. QED
  BY <1>2, <1>3, <1>4, <1>5 DEF Next

(* A program that runs and is not being stopped was launched for its slot   *)
(* and for what that slot wants now: a changed want ends the program of the *)
(* old one, a late answer never brings it back                              *)
(* (pending_process_launch_is_current, apply_native_pane_host_plan).        *)
THEOREM RunsWhatIsWantedSafe == OwnWindows /\ Spec => []RunsWhatIsWanted
<1> DEFINE WInv == IndexInv /\ Kept /\ Wants
<1>1. OwnWindows /\ Init => WInv
  BY ConstantsAssumption, InitType, InitIndexed, InitKept, InitWants
     DEF IndexInv, Indexed
<1>2. OwnWindows /\ WInv /\ [Next]_vars => WInv'
  <2> SUFFICES ASSUME OwnWindows, IndexInv, Kept, Wants, [Next]_vars
               PROVE  IndexInv' /\ Kept' /\ Wants'
    OBVIOUS
  <2>1. TypeOK' /\ Indexed' /\ TypeOK /\ Indexed
    BY ConstantsAssumption, NextType, NextIndexed DEF IndexInv, Indexed
  <2>2. Kept' /\ Wants'
    BY ConstantsAssumption, <2>1, NextKept, NextWants
  <2>3. QED
    BY <2>1, <2>2 DEF IndexInv, Indexed
<1>3. WInv => RunsWhatIsWanted
  BY WantedRuns DEF IndexInv
<1>4. OwnWindows = TRUE \/ OwnWindows = FALSE
  BY DEF OwnWindows
<1> HIDE DEF WInv
<1>5. CASE OwnWindows
  <2>1. Init => WInv
    BY <1>1, <1>5
  <2>2. WInv /\ [Next]_vars => WInv'
    BY <1>2, <1>5
  <2>3. QED
    BY <1>3, <2>1, <2>2, PTL DEF Spec
<1>6. QED
  BY <1>5

-----------------------------------------------------------------------------
(* Nothing runs for a slot that lost its right to it                        *)

\* What the shell runs, or may be running, is asked to end.
Leaving ==
  \/ /\ slot[Shell].pid # 0
     /\ \E x \in stops : x.id = slot[Shell].pid /\ x.kind = "slot"
  \/ slot[Shell].pid = 0 /\ \E x \in ustops : x.slot = Shell

\* The shell is launched for the role it holds; without the role it leaves.
ShellRole ==
  /\ slot[Shell].idx # 0 => overlay = Shell
  /\ slot[Shell].st \in Live /\ overlay # Shell => Leaving
  /\ slot[Shell].st \in Live /\ slot[Shell].pid = 0 =>
       slot[Shell].ureq # 0 \/ \E x \in ustops : x.slot = Shell

\* The shell's program goes on, ends, or has the role.
LEMMA RoleStep ==
  ASSUME ShellRole, slot'[Shell].idx # 0 => overlay' = Shell,
         \/ slot'[Shell].st \notin Live
         \/ overlay' = Shell /\ (slot'[Shell].pid # 0 \/ slot'[Shell].ureq # 0)
         \/ /\ overlay' \in {overlay, Shell} /\ slot[Shell].st \in Live
            /\ slot'[Shell].pid = slot[Shell].pid
            /\ slot'[Shell].ureq = slot[Shell].ureq
            /\ slot[Shell].pid # 0 =>
                 \A x \in stops :
                   x.kind = "slot" /\ x.id = slot[Shell].pid => x \in stops'
            /\ slot[Shell].pid = 0 =>
                 \A x \in ustops : x.slot = Shell => x \in ustops'
  PROVE  ShellRole'
BY DEF ShellRole, Leaving

\* A step that leaves the shell alone, or opens it.
LEMMA RoleQuiet ==
  ASSUME ShellRole, slot'[Shell] = slot[Shell], overlay' \in {overlay, Shell},
         stops \subseteq stops', ustops \subseteq ustops'
  PROVE  ShellRole'
BY DEF ShellRole, Leaving

LEMMA RoleHolds ==
  ASSUME TypeOK, Kept, Wants, Shell \in Slots, ShellRole
  PROVE  ShellHoldsOverlayRole
<1> SUFFICES ASSUME slot[Shell].st \in Live, overlay # Shell PROVE Stopping(Shell)
  BY DEF ShellHoldsOverlayRole
<1>1. Leaving
  BY DEF ShellRole
<1>2. CASE slot[Shell].pid # 0 /\ \E x \in stops : x.id = slot[Shell].pid
  <2>1. PICK x \in stops : x.id = slot[Shell].pid
    BY <1>2
  <2>2. x.slot = Shell
    BY <1>2, <2>1 DEF Kept, StopsOwned, ProgramsKnown, PidOwned
  <2>3. QED
    BY <2>2 DEF Stopping
<1>3. QED
  BY <1>1, <1>2 DEF Leaving, Stopping

\* With nothing on the way nothing is being stopped.
LEMMA ReleasedIsIdle ==
  ASSUME ConstantsAssumption, TypeOK, Awaited, Kept, Wants
  PROVE  ReleasedPaneRunsNothing
<1> SUFFICES ASSUME work = <<>>, cmds = <<>>, evts = <<>>,
                    NEW r \in DOMAIN app, launch[r].slot \in Panes,
                    slot[launch[r].slot].want = None, app[r] = "tracked"
             PROVE  FALSE
  BY DEF ReleasedPaneRunsNothing
<1>1. PICK s \in Slots \ {Shell} : s = launch[r].slot
  BY DEF Slots, ConstantsAssumption
<1>2. /\ r \in DOMAIN launch /\ r # 0 /\ r \in Int /\ launch[r].spec \in Specs
  BY Logged, LaunchedType DEF TypeOK
<1>3. ~\E x \in stops : x.id = r
  <2>1. Count(cmds, Asking(r)) = 0 /\ Count(evts, Answers(r)) = 0
        /\ Count(work, Answers(r)) = 0
    BY CountNone
  <2>2. IsFiniteSet(StopsFor(r)) /\ Cardinality(StopsFor(r)) = 0
    BY <1>2, <2>1 DEF Awaited, Balanced
  <2>3. StopsFor(r) = {}
    BY <2>2, FS_EmptySet
  <2>4. QED
    BY <2>3 DEF StopsFor
<1>4. ~Undelivered("started", r)
  BY EmptySeq DEF Undelivered
<1>5. RunningPid(s) = r
  BY <1>1, <1>2, <1>3, <1>4 DEF Kept, ProgramsKnown, KnowsProgram, Handled
<1>6. launch[r].spec = slot[s].want
  BY <1>1, <1>2, <1>3, <1>5 DEF Wants, WantKnown
<1>7. QED
  BY <1>1, <1>2, <1>6 DEF ConstantsAssumption

LEMMA DismissShellRole ==
  ASSUME TypeOK, TypeOK', Kept, Wants, ShellRole, Shell \in Slots,
         "recover" \notin Requests, DismissShell
  PROVE  ShellRole'
<1> DEFINE kept == \/ RunningPid(Shell) # 0
                   \/ Stopping(Shell)
                   \/ slot[Shell].idx \in pending
                   \/ slot[Shell].ureq \in unconfirmed
<1>1. /\ ReleaseChild(Shell) /\ overlay' = None
      /\ slot' = [slot EXCEPT ![Shell] = [@ EXCEPT
           !.st  = IF kept THEN slot[Shell].st ELSE "absent",
           !.pid = IF kept THEN slot[Shell].pid ELSE 0,
           !.idx = 0, !.ureq = 0]]
  BY DEF DismissShell, Wants, ShellSame
<1> HIDE DEF kept
<1>2. /\ slot'[Shell].idx = 0
      /\ \/ slot'[Shell].pid = slot[Shell].pid /\ slot'[Shell].st = slot[Shell].st
         \/ slot'[Shell].pid = 0 /\ slot'[Shell].st = "absent"
  BY <1>1 DEF TypeOK, SlotRecord
<1>3. CASE slot'[Shell].st \notin Live
  BY <1>2, <1>3 DEF ShellRole
<1>4. CASE slot'[Shell].st \in Live
  <2>1. slot'[Shell].pid = slot[Shell].pid /\ slot[Shell].st \in Live
    BY <1>2, <1>4 DEF Live
  <2>2. CASE slot[Shell].pid # 0
    <3>1. PICK p : p = slot[Shell].pid
      OBVIOUS
    <3>2. RunningPid(Shell) = p
      BY <2>1, <3>1 DEF RunningPid
    <3>3. \E queue : Terminate(p, "slot", Shell, queue)
      BY <1>1, <3>2 DEF ReleaseChild, StopRunning
    <3>4. \E x \in stops' : x.id = p /\ x.kind = "slot"
      <4>1. CASE \E x \in stops : x.id = p
        <5>1. PICK x \in stops : x.id = p
          BY <4>1
        <5>2. x.slot = Shell
          BY <2>2, <3>1, <5>1 DEF Kept, StopsOwned, ProgramsKnown, PidOwned
        <5>3. x.kind \in {"slot", "stale"} /\ x.kind # "stale"
          BY <3>1, <5>1, <5>2 DEF Wants, StopDecided, Fresh, TypeOK, Stop
        <5>4. stops' = stops
          BY <3>3, <4>1 DEF Terminate
        <5>5. QED
          BY <5>1, <5>3, <5>4
      <4>2. CASE ~\E x \in stops : x.id = p
        <5>1. PICK y : y = [id |-> p, kind |-> "slot", slot |-> Shell]
          OBVIOUS
        <5>2. stops' = stops \cup {y} /\ y.id = p /\ y.kind = "slot"
          BY <2>2, <3>1, <3>3, <4>2, <5>1 DEF Terminate
        <5>3. QED
          BY <5>2
      <4>3. QED
        BY <4>1, <4>2
    <3>5. QED
      BY <1>2, <2>1, <2>2, <3>1, <3>4 DEF ShellRole, Leaving
  <2>3. CASE slot[Shell].pid = 0
    <3>1. \E x \in ustops' : x.slot = Shell
      <4>1. CASE \E x \in ustops : x.slot = Shell
        BY <1>1, <4>1 DEF ReleaseChild
      <4>2. CASE slot[Shell].ureq # 0
        <5>1. PICK u : u = slot[Shell].ureq
          OBVIOUS
        <5>2. u \in unconfirmed /\ launch[u].slot = Shell
          BY <4>2, <5>1 DEF Kept, StartsKnown, UnconfirmedIsNamed
        <5>3. CASE \E x \in ustops : x.id = u
          BY <4>1, <5>2, <5>3 DEF Kept, StopsOwned
        <5>4. CASE ~\E x \in ustops : x.id = u
          <6>1. PICK y : y = [id |-> u, kind |-> "stale", slot |-> Shell]
            OBVIOUS
          <6>2. ustops' = ustops \cup {y} /\ y.slot = Shell
            BY <1>1, <5>1, <5>2, <5>4, <6>1 DEF ReleaseChild
          <6>3. QED
            BY <6>2
        <5>5. QED
          BY <5>3, <5>4
      <4>3. QED
        BY <2>1, <2>3, <4>1, <4>2 DEF ShellRole
    <3>2. QED
      BY <1>2, <2>1, <2>3, <3>1 DEF ShellRole, Leaving
  <2>4. QED
    BY <2>2, <2>3
<1>5. QED
  BY <1>3, <1>4

\* Stops are only added by a release.
LEMMA ReleaseAdds ==
  ASSUME NEW s, ReleaseChild(s)
  PROVE  stops \subseteq stops' /\ ustops \subseteq ustops'
BY DEF ReleaseChild, StopRunning, Terminate

\* What is done to panes and to the main app leaves the shell alone.
LEMMA ElsewhereRole ==
  ASSUME ConstantsAssumption, TypeOK, TypeOK', Wants, ShellRole,
         \/ DropPane \/ RemoveReleasedPane
         \/ \E p \in Panes : SwitchToSurfAce(p) \/ NativePaneRelease(p)
         \/ \E p \in Panes, spec \in Specs, rev \in 0..MaxRevision :
              NativePaneHost(p, spec, rev) \/ NativePaneUpdate(p, spec, rev)
         \/ ResetRuntime \/ \E i \in Specs : SelectMainApp(i)
  PROVE  ShellRole'
<1>1. /\ Shell \in Slots /\ Main \in Slots /\ Main # Shell
      /\ \A p \in Panes : p \in Slots /\ p # Shell /\ overlay # p
  BY NoPaneOverlay DEF Slots, ConstantsAssumption, Main, Shell
<1>2. CASE DropPane \/ RemoveReleasedPane
  <2>1. work # <<>> /\ Head(work).op \in {"dropPane", "removePane"}
    BY <1>2 DEF DropPane, RemoveReleasedPane, Applying
  <2>2. PICK p \in Panes : p = Head(work).slot
    BY <2>1, HeadOfAgenda
  <2>3. \/ slot' = slot
        \/ slot' = [slot EXCEPT ![p] = Vacant]
    BY <1>2, <2>2 DEF DropPane, RemoveReleasedPane
  <2>4. slot'[Shell] = slot[Shell]
    BY <1>1, <2>3 DEF TypeOK
  <2>5. overlay' = overlay
    BY <1>1, <1>2, <2>2 DEF DropPane, RemoveReleasedPane
  <2>6. stops \subseteq stops' /\ ustops \subseteq ustops'
    BY <1>2, ReleaseAdds DEF DropPane, RemoveReleasedPane, tables
  <2>7. QED
    BY <2>4, <2>5, <2>6, RoleQuiet
<1>3. CASE \E p \in Panes : SwitchToSurfAce(p) \/ NativePaneRelease(p)
  <2>1. PICK p \in Panes : ToSurfAce(p)
    BY <1>3 DEF SwitchToSurfAce, NativePaneRelease
  <2>2. ReleaseChild(p) /\ overlay' = overlay /\ slot'[Shell] = slot[Shell]
    BY <1>1, <2>1 DEF ToSurfAce, TypeOK
  <2>3. QED
    BY <2>2, ReleaseAdds, RoleQuiet
<1>4. CASE \E p \in Panes, spec \in Specs, rev \in 0..MaxRevision :
             NativePaneHost(p, spec, rev) \/ NativePaneUpdate(p, spec, rev)
  <2>1. PICK p \in Panes, spec \in Specs, rev \in 0..MaxRevision :
               HostPlan(p, spec, rev) /\ overlay' = overlay
    BY <1>4 DEF NativePaneHost, NativePaneUpdate
  <2>2. slot'[Shell] = slot[Shell]
    BY <1>1, <2>1 DEF HostPlan, TypeOK
  <2>3. ReleaseChild(p) \/ UNCHANGED <<stops, ustops>>
    BY <2>1 DEF HostPlan, tables
  <2>4. QED
    BY <2>1, <2>2, <2>3, ReleaseAdds, RoleQuiet
<1>5. CASE ResetRuntime \/ \E i \in Specs : SelectMainApp(i)
  <2>1. TerminateMain /\ overlay' = overlay
    BY <1>5 DEF ResetRuntime, SelectMainApp
  <2>2. stops \subseteq stops' /\ ustops \subseteq ustops'
    BY <2>1, ReleaseAdds DEF TerminateMain
  <2>3. PICK f : f = MainReleased
    OBVIOUS
  <2>4. f \in [Slots -> SlotRecord] /\ f[Shell] = slot[Shell]
    BY <1>1, <2>3, MainReleasedType DEF TypeOK, MainReleased
  <2>5. \E rec : slot' = f \/ slot' = [f EXCEPT ![Main] = rec]
    BY <1>5, <2>3 DEF ResetRuntime, SelectMainApp
  <2>6. slot'[Shell] = slot[Shell]
    BY <1>1, <2>4, <2>5
  <2>7. QED
    BY <2>1, <2>2, <2>6, RoleQuiet
<1>6. QED
  BY <1>2, <1>3, <1>4, <1>5

\* The answers to a launch.
LEMMA AnsweredRole ==
  ASSUME ConstantsAssumption, TypeOK, TypeOK', Indexed, Kept, Wants, ShellRole,
         SpawnStarted \/ SpawnUnconfirmed \/ SpawnFailed
  PROVE  ShellRole'
<1>1. UNCHANGED <<overlay, ustops>> /\ Shell \in Slots
  BY DEF SpawnStarted, SpawnUnconfirmed, SpawnFailed, Slots
<1>2. stops \subseteq stops'
  BY DEF SpawnStarted, SpawnUnconfirmed, SpawnFailed, StopLate, Terminate
<1>3. PICK r : r = Subject
  OBVIOUS
<1>4. CASE slot'[Shell] = slot[Shell]
  BY <1>1, <1>2, <1>4, RoleQuiet
<1>5. CASE r \in pending /\ slot' = ClearIndex(slot, r)
  <2>1. PICK s \in Slots : s = launch[r].slot
    BY <1>5, Cleared
  <2>2. /\ slot'[s].st = slot[s].st /\ slot'[s].pid = slot[s].pid
        /\ slot'[s].ureq = 0 /\ slot'[s].idx = 0
        /\ \A t \in Slots \ {s} : slot'[t] = slot[t]
    BY <1>5, <2>1, ClearedFields
  <2>3. slot[s].ureq = 0
    BY <1>5, <2>1, PendingFacts
  <2>4. CASE s = Shell
    BY <1>1, <1>2, <2>2, <2>3, <2>4, RoleStep
  <2>5. CASE s # Shell
    BY <1>1, <1>4, <2>2, <2>5
  <2>6. QED
    BY <2>4, <2>5
<1>6. CASE \E p \in {0, r}, u \in {0, r}, st \in {"launching", "failed"}, k \in Nat :
             /\ r \in pending
             /\ slot' = [ClearIndex(slot, r) EXCEPT ![launch[r].slot] = [@ EXCEPT
                          !.st = st, !.pid = p, !.ureq = u, !.token = k]]
             /\ st = "failed" \/ p = r \/ u = r
  <2>1. PICK s \in Slots : s = launch[r].slot
    BY <1>6, Cleared
  <2>2. PICK f : f = ClearIndex(slot, r)
    OBVIOUS
  <2>3. /\ f \in [Slots -> SlotRecord] /\ f[s].idx = 0 /\ r # 0 /\ slot[s].idx = r
        /\ \A t \in Slots \ {s} : f[t] = slot[t]
    BY <1>6, <2>1, <2>2, Cleared, PendingFacts
  <2>4. PICK p \in {0, r}, u \in {0, r}, st \in {"launching", "failed"}, k \in Nat :
             /\ slot' = [f EXCEPT ![s] = [f[s] EXCEPT
                          !.st = st, !.pid = p, !.ureq = u, !.token = k]]
             /\ st = "failed" \/ p = r \/ u = r
    BY <1>6, <2>1, <2>2, Zenon
  <2>5. /\ \A t \in Slots \ {s} : slot'[t] = slot[t]
        /\ slot'[s] = [f[s] EXCEPT !.st = st, !.pid = p, !.ureq = u, !.token = k]
    BY <2>3, <2>4
  <2>6. /\ slot'[s].idx = 0 /\ slot'[s].st = st
        /\ slot'[s].pid = p /\ slot'[s].ureq = u
    <3>1. PICK g : g = f[s]
      OBVIOUS
    <3>2. g \in SlotRecord /\ g.idx = 0
      BY <2>3, <3>1
    <3>3. slot'[s] = [g EXCEPT !.st = st, !.pid = p, !.ureq = u, !.token = k]
      BY <2>5, <3>1
    <3>4. QED
      BY <3>2, <3>3 DEF SlotRecord
  <2>7. CASE s = Shell
    <3>1. overlay' = Shell
      BY <1>1, <2>3, <2>7 DEF ShellRole
    <3>2. slot'[Shell].st \notin Live \/ slot'[Shell].pid # 0 \/ slot'[Shell].ureq # 0
      BY <2>3, <2>4, <2>6, <2>7 DEF Live
    <3>3. QED
      BY <2>6, <2>7, <3>1, <3>2, RoleStep
  <2>8. CASE s # Shell
    BY <1>1, <1>4, <2>5, <2>8
  <2>9. QED
    BY <2>7, <2>8
<1>7. r \in pending => r \in Nat
  BY Logged, SMTT(60) DEF TypeOK
<1>8. CASE SpawnStarted
  BY <1>3, <1>4, <1>5, <1>6, <1>7, <1>8, ZenonT(60) DEF SpawnStarted
<1>9. CASE SpawnUnconfirmed
  BY <1>3, <1>4, <1>5, <1>6, <1>7, <1>9, ZenonT(60) DEF SpawnUnconfirmed
<1>10. CASE SpawnFailed
  BY <1>3, <1>4, <1>5, <1>6, <1>7, <1>10 DEF SpawnFailed
<1>11. QED
  BY <1>8, <1>9, <1>10

\* The end of a stop the shell waits for ends what the shell says it runs.
LEMMA TerminatedRole ==
  ASSUME ConstantsAssumption, TypeOK, TypeOK', Kept, ShellRole, Terminated
  PROVE  ShellRole'
<1>1. UNCHANGED <<overlay, ustops>> /\ Shell \in Slots /\ Shell \notin Panes
  BY DEF Terminated, Slots, ConstantsAssumption
<1>2. PICK x \in stops :
        /\ stops' = stops \ {x}
        /\ \/ slot' = [slot EXCEPT ![x.slot] = [@ EXCEPT !.st = "failed",
                                                  !.pid = 0, !.token = 0]]
           \/ slot' = [slot EXCEPT ![x.slot] = [@ EXCEPT !.st = Rest(x.slot),
                                                  !.pid = 0, !.token = 0]]
           \/ /\ slot' = slot
              /\ ~(/\ x.kind = "slot" /\ (x.slot \in Panes => x.slot \in panes)
                   /\ KnownPid(x.slot) = x.id)
  BY Zenon DEF Terminated
<1>3. PICK s \in Slots : s = x.slot
  BY DEF TypeOK, Stop
<1>4. /\ slot'[s].idx = slot[s].idx /\ slot'[s].ureq = slot[s].ureq
      /\ \/ slot'[s].st \in {"failed", Rest(s)}
         \/ /\ slot'[s].pid = slot[s].pid /\ slot'[s].st = slot[s].st
            /\ ~(/\ x.kind = "slot" /\ (s \in Panes => s \in panes)
                 /\ KnownPid(s) = x.id)
      /\ \A t \in Slots \ {s} : slot'[t] = slot[t]
  <2>1. CASE /\ slot' = slot
             /\ ~(/\ x.kind = "slot" /\ (s \in Panes => s \in panes)
                  /\ KnownPid(s) = x.id)
    BY <2>1
  <2>2. CASE slot' = [slot EXCEPT ![s] = [@ EXCEPT !.st = "failed",
                                            !.pid = 0, !.token = 0]]
    BY <2>2 DEF TypeOK, SlotRecord
  <2>3. CASE slot' = [slot EXCEPT ![s] = [@ EXCEPT !.st = Rest(s),
                                            !.pid = 0, !.token = 0]]
    BY <2>3 DEF TypeOK, SlotRecord
  <2>4. QED
    BY <1>2, <1>3, <2>1, <2>2, <2>3
<1>5. "failed" \notin Live /\ Rest(s) \notin Live
  BY DEF Rest, Live
<1>6. slot'[Shell].idx # 0 => overlay' = Shell
  BY <1>1, <1>4 DEF ShellRole
<1>7. CASE slot'[Shell].st \notin Live
  BY <1>6, <1>7, RoleStep
<1>8. CASE slot'[Shell].st \in Live
  <2>1. /\ slot'[Shell].pid = slot[Shell].pid /\ slot'[Shell].st = slot[Shell].st
        /\ slot'[Shell].ureq = slot[Shell].ureq
    BY <1>1, <1>4, <1>5, <1>8
  <2>2. ASSUME slot[Shell].pid # 0, x.kind = "slot", x.id = slot[Shell].pid
        PROVE  FALSE
    <3>1. x.slot = Shell
      BY <1>1, <2>2 DEF Kept, StopsOwned, ProgramsKnown, PidOwned
    <3>2. KnownPid(s) = x.id /\ s = Shell
      BY <1>3, <1>8, <2>1, <2>2, <3>1 DEF KnownPid
    <3>3. QED
      BY <1>1, <1>4, <1>5, <1>8, <2>2, <3>2
  <2>3. slot[Shell].pid # 0 =>
          \A y \in stops : y.kind = "slot" /\ y.id = slot[Shell].pid => y \in stops'
    BY <1>2, <2>2
  <2>4. slot[Shell].pid = 0 => \A y \in ustops : y.slot = Shell => y \in ustops'
    BY <1>1
  <2>5. overlay' \in {overlay, Shell} /\ slot[Shell].st \in Live
    BY <1>1, <1>8, <2>1
  <2>6. QED
    BY <1>6, <2>1, <2>3, <2>4, <2>5, RoleStep
<1>9. QED
  BY <1>7, <1>8

LEMMA TerminatedUnconfirmedRole ==
  ASSUME ConstantsAssumption, TypeOK, TypeOK', Kept, ShellRole, TerminatedUnconfirmed
  PROVE  ShellRole'
<1>1. UNCHANGED <<overlay, stops>> /\ Shell \in Slots /\ Main # Shell
  BY DEF TerminatedUnconfirmed, Slots, Main, Shell
<1>2. PICK x \in ustops :
        /\ ustops' = ustops \ {x}
        /\ \/ slot' = [slot EXCEPT ![x.slot] = [@ EXCEPT !.st = Rest(x.slot),
                !.pid = 0, !.token = 0,
                !.ureq = IF x.slot \in Panes \/ slot[x.slot].ureq = x.id
                         THEN 0 ELSE slot[x.slot].ureq]]
           \/ /\ slot' = slot
              /\ ~(IF x.kind = "slot" THEN slot[x.slot].ureq = x.id
                   ELSE /\ slot[x.slot].st \in Live /\ slot[x.slot].pid = 0
                        /\ x.slot # Shell => slot[x.slot].token = x.id)
  BY Zenon DEF TerminatedUnconfirmed
<1>3. PICK s \in Slots : s = x.slot
  BY DEF TypeOK, Stop
<1>4. PICK u : u = IF s \in Panes \/ slot[s].ureq = x.id THEN 0 ELSE slot[s].ureq
  OBVIOUS
<1>5. CASE slot' = [slot EXCEPT ![s] = [@ EXCEPT !.st = Rest(s), !.pid = 0,
                                          !.token = 0, !.ureq = u]]
  <2>1. /\ slot'[s].st = Rest(s) /\ slot'[s].idx = slot[s].idx
        /\ \A t \in Slots \ {s} : slot'[t] = slot[t]
    BY <1>5 DEF TypeOK, SlotRecord
  <2>2. Rest(s) \notin Live
    BY DEF Rest, Live
  <2>3. CASE s = Shell
    BY <1>1, <2>1, <2>2, <2>3, RoleStep DEF ShellRole
  <2>4. CASE s # Shell
    <3>1. slot'[Shell] = slot[Shell]
      BY <1>1, <2>1, <2>4
    <3>2. \A y \in ustops : y.slot = Shell => y \in ustops'
      BY <1>2, <1>3, <2>4
    <3>3. QED
      BY <1>1, <3>1, <3>2, RoleStep DEF ShellRole
  <2>5. QED
    BY <2>3, <2>4
<1>6. CASE /\ slot' = slot
           /\ ~(IF x.kind = "slot" THEN slot[s].ureq = x.id
                ELSE /\ slot[s].st \in Live /\ slot[s].pid = 0
                     /\ s # Shell => slot[s].token = x.id)
  <2>1. ASSUME slot[Shell].st \in Live, slot[Shell].pid = 0, x.slot = Shell
        PROVE  FALSE
    <3>1. x.kind # "slot" /\ s = Shell
      BY <1>1, <1>3, <2>1 DEF Kept, StopsOwned
    <3>2. QED
      BY <1>6, <2>1, <3>1
  <2>2. slot[Shell].st \in Live /\ slot[Shell].pid = 0 =>
          \A y \in ustops : y.slot = Shell => y \in ustops'
    BY <1>2, <2>1
  <2>3. QED
    BY <1>1, <1>6, <2>2, RoleStep DEF ShellRole
<1>7. QED
  BY <1>2, <1>3, <1>4, <1>5, <1>6, Zenon

LEMMA ExitRole ==
  ASSUME TypeOK, TypeOK', ShellRole, Exited \/ UnconfirmedExited
  PROVE  ShellRole'
<1>1. UNCHANGED <<overlay, stops, ustops>> /\ Shell \in Slots
  BY DEF Exited, UnconfirmedExited, tables, Slots
<1>2. \/ slot'[Shell] = slot[Shell]
      \/ slot'[Shell].st = "exited" /\ slot'[Shell].idx = slot[Shell].idx
  <2>1. CASE Exited
    <3>1. \/ slot'[Shell] = slot[Shell]
          \/ slot'[Shell] = [slot[Shell] EXCEPT !.st = "exited"]
      BY <1>1, <2>1 DEF Exited
    <3>2. QED
      BY <1>1, <3>1 DEF TypeOK, SlotRecord
  <2>2. CASE UnconfirmedExited
    <3>1. PICK s : \/ slot' = slot
                   \/ slot' = [slot EXCEPT ![s] = [@ EXCEPT !.st = "exited",
                                                     !.pid = 0, !.ureq = 0]]
      BY <2>2 DEF UnconfirmedExited
    <3>2. \/ slot'[Shell] = slot[Shell]
          \/ slot'[Shell] = [slot[Shell] EXCEPT !.st = "exited", !.pid = 0, !.ureq = 0]
      BY <1>1, <3>1 DEF TypeOK
    <3>3. QED
      BY <1>1, <3>2 DEF TypeOK, SlotRecord
  <2>3. QED
    BY <2>1, <2>2
<1>3. "exited" \notin Live
  BY DEF Live
<1>4. QED
  BY <1>1, <1>2, <1>3, RoleStep, RoleQuiet DEF ShellRole

LEMMA LaunchSlotRole ==
  ASSUME TypeOK, TypeOK', ShellRole, LaunchSlot
  PROVE  ShellRole'
<1>1. /\ UNCHANGED <<overlay, stops, ustops>> /\ Shell \in Slots /\ Shell # Main
      /\ work # <<>> /\ Head(work).op = "launch"
  BY DEF LaunchSlot, Applying, Spawn, tables, Slots, Main, Shell
<1>2. PICK s \in Slots : s = Head(work).slot
  BY <1>1, HeadOfAgenda
<1>3. CASE MayLaunch(s) /\ Spawn(s, slot, Tail(work))
  <2>1. /\ slot'[s].pid = slot[s].pid /\ slot'[s].st = slot[s].st
        /\ slot'[s].ureq = slot[s].ureq
        /\ \A t \in Slots \ {s} : slot'[t] = slot[t]
    BY <1>3 DEF Spawn, TypeOK, SlotRecord
  <2>2. CASE s = Shell
    <3>1. overlay' = Shell
      BY <1>1, <1>3, <2>2 DEF MayLaunch
    <3>2. QED
      BY <1>1, <2>1, <2>2, <3>1, RoleStep
  <2>3. CASE s # Shell
    BY <1>1, <2>1, <2>3, RoleQuiet
  <2>4. QED
    BY <2>2, <2>3
<1>4. CASE ~(MayLaunch(s) /\ Spawn(s, slot, Tail(work)))
  <2>1. \/ slot' = slot
        \/ s = Main /\ \E rec : slot' = [slot EXCEPT ![s] = rec]
    BY <1>2, <1>4 DEF LaunchSlot
  <2>2. slot'[Shell] = slot[Shell]
    BY <1>1, <2>1 DEF TypeOK
  <2>3. QED
    BY <1>1, <2>2, RoleQuiet
<1>5. QED
  BY <1>3, <1>4

LEMMA WindowRole ==
  ASSUME TypeOK, TypeOK', Kept, ShellRole, NEW s \in Slots, Attach(s) \/ Detach(s)
  PROVE  ShellRole'
<1>1. UNCHANGED <<overlay, stops, ustops>> /\ Shell \in Slots
  BY DEF Attach, Detach, tables, Slots
<1>2. CASE s # Shell
  <2>1. \E rec : slot' = [slot EXCEPT ![s] = rec]
    BY DEF Attach, Detach
  <2>2. slot'[Shell] = slot[Shell]
    BY <1>1, <1>2, <2>1 DEF TypeOK
  <2>3. QED
    BY <1>1, <2>2, RoleQuiet
<1>3. CASE s = Shell /\ Attach(s)
  <2>1. overlay' = Shell /\ slot[Shell].pid # 0
    BY <1>1, <1>3 DEF Attach
  <2>2. PICK c \in {slot[Shell].pid, -ReqOf(slot[Shell].pid)} :
          slot' = [slot EXCEPT ![Shell] = [@ EXCEPT !.st = "attached", !.pid = c]]
    BY <1>3 DEF Attach
  <2>3. c # 0
    <3>1. slot[Shell].pid \in Int \ {0}
      BY <1>1, <2>1 DEF TypeOK, SlotRecord
    <3>2. QED
      BY <2>2, <3>1 DEF ReqOf
  <2>4. slot'[Shell].pid = c
    BY <1>1, <2>2 DEF TypeOK, SlotRecord
  <2>5. QED
    BY <2>1, <2>3, <2>4, RoleStep
<1>4. CASE s = Shell /\ Detach(s)
  <2>1. /\ slot[Shell].st = "attached"
        /\ slot' = [slot EXCEPT ![Shell] = [@ EXCEPT !.st = "launching"]]
    BY <1>4 DEF Detach
  <2>2. /\ slot'[Shell].pid = slot[Shell].pid /\ slot'[Shell].idx = slot[Shell].idx
        /\ slot'[Shell].ureq = slot[Shell].ureq /\ slot[Shell].st \in Live
    BY <1>1, <2>1 DEF TypeOK, SlotRecord, Live
  <2>3. QED
    BY <1>1, <2>2, RoleStep DEF ShellRole
<1>5. QED
  BY <1>2, <1>3, <1>4

LEMMA NextRole ==
  ASSUME ConstantsAssumption, OwnWindows, "recover" \notin Requests,
         TypeOK, TypeOK', Indexed, Kept, Wants, ShellRole, [Next]_vars
  PROVE  ShellRole'
<1>1. Shell \in Slots
  BY DEF Slots
<1>2. CASE Step
  <2>1. CASE PollProcesses
    <3>1. UNCHANGED <<slot, overlay, stops, ustops>>
      BY <2>1 DEF PollProcesses, slots, tables
    <3>2. QED
      BY <3>1, RoleQuiet
  <2>2. QED
    BY <1>2, <2>1, AnsweredRole, ExitRole, TerminatedRole, TerminatedUnconfirmedRole,
       LaunchSlotRole, ElsewhereRole DEF Step
<1>3. CASE RequestStep
  <2>1. CASE \/ ResetRuntime \/ \E i \in Specs : SelectMainApp(i)
             \/ \E p \in Panes : NativePaneRelease(p) \/ SwitchToSurfAce(p)
             \/ \E p \in Panes, spec \in Specs, rev \in 0..MaxRevision :
                  NativePaneHost(p, spec, rev) \/ NativePaneUpdate(p, spec, rev)
    BY <2>1, ElsewhereRole
  <2>2. CASE \/ RuntimeRunning \/ OpenShell
             \/ \E p \in Panes : LaunchNativePaneHost(p)
             \/ \E incoming \in SUBSET Panes : ApplyProviderSnapshot(incoming)
    <3>1. UNCHANGED <<slot, stops, ustops>> /\ overlay' \in {overlay, Shell}
      BY <2>2 DEF RuntimeRunning, OpenShell, LaunchNativePaneHost,
                  ApplyProviderSnapshot, slots, tables
    <3>2. QED
      BY <3>1, RoleQuiet
  <2>3. CASE DismissShell
    BY <1>1, <2>3, DismissShellRole
  <2>4. ASSUME NEW p \in Panes, NEW spec \in Specs PROVE ~SwitchToExternal(p, spec)
    BY DEF SwitchToExternal, Request, OwnWindows
  <2>5. ASSUME NEW r PROVE ~RecoverOverlay(r)
    BY DEF RecoverOverlay, Request
  <2>6. QED
    BY <1>3, <2>1, <2>2, <2>3, <2>4, <2>5 DEF RequestStep
<1>4. CASE Window
  BY <1>4, WindowRole DEF Window
<1>5. CASE \/ PollRequest \/ Worker \/ UNCHANGED vars
           \/ \E r \in DOMAIN app : AppExits(r)
  <2>1. UNCHANGED <<slot, overlay, stops, ustops>>
    BY <1>5 DEF PollRequest, Worker, WorkerSpawn, WorkerTerminate,
       WorkerTerminateUnconfirmed, ReapStarted, ReapReported, ReapUnconfirmed,
       AppExits, vars, slots, tables
  <2>2. QED
    BY <2>1, RoleQuiet
<1>6. QED
  BY <1>2, <1>3, <1>4, <1>5 DEF Next

(* Nothing runs for a slot that lost its right to it.  A pane given back    *)
(* or removed ends what it runs, and a shell whose overlay role was taken   *)
(* away is being stopped (native_pane.release, dismiss_shell_overlay);      *)
(* recover_overlay could show a shell again whose stop is already under way *)
(* as that of a late start, so it is left out.                              *)
THEOREM OnlyOwnersRunSafe ==
  OwnWindows /\ "recover" \notin Requests /\ Spec => []OnlyOwnersRun
<1> DEFINE NoRecovery == OwnWindows /\ "recover" \notin Requests
           RInv == IndexInv /\ Awaited /\ Kept /\ Wants /\ ShellRole
<1>1. NoRecovery /\ Init => RInv
  <2>1. Init => ShellRole
    BY DEF Init, ShellRole, Vacant, Slots, Live
  <2>2. QED
    BY <2>1, ConstantsAssumption, InitType, InitIndexed, InitAwaited, InitKept,
       InitWants DEF IndexInv, Indexed
<1>2. NoRecovery /\ RInv /\ [Next]_vars => RInv'
  <2> SUFFICES ASSUME NoRecovery, IndexInv, Awaited, Kept, Wants, ShellRole, [Next]_vars
               PROVE  IndexInv' /\ Awaited' /\ Kept' /\ Wants' /\ ShellRole'
    OBVIOUS
  <2>1. TypeOK' /\ Indexed' /\ TypeOK /\ Indexed
    BY ConstantsAssumption, NextType, NextIndexed DEF IndexInv, Indexed
  <2>2. Awaited' /\ Kept' /\ Wants' /\ ShellRole'
    BY ConstantsAssumption, <2>1, NextAwaited, NextKept, NextWants, NextRole
  <2>3. QED
    BY <2>1, <2>2 DEF IndexInv, Indexed
<1>3. RInv => OnlyOwnersRun
  BY ConstantsAssumption, RoleHolds, ReleasedIsIdle DEF IndexInv, OnlyOwnersRun, Slots
<1>4. NoRecovery = TRUE \/ NoRecovery = FALSE
  OBVIOUS
<1>5. OwnWindows /\ "recover" \notin Requests => NoRecovery
  OBVIOUS
<1> HIDE DEF RInv, NoRecovery
<1>6. CASE NoRecovery
  <2>1. Init => RInv
    BY <1>1, <1>6
  <2>2. RInv /\ [Next]_vars => RInv'
    BY <1>2, <1>6
  <2>3. QED
    BY <1>3, <2>1, <2>2, PTL DEF Spec
<1>7. CASE ~NoRecovery
  BY <1>5, <1>7, SMTT(60)
<1>8. QED
  BY <1>6, <1>7

-----------------------------------------------------------------------------
(* What is wanted is launched                                               *)

\* Starts are confirmed or fail, and a plan that waits comes with its launch.
Assured == /\ OwnWindows /\ "unconfirmed" \notin Outcomes
           /\ "update" \notin Requests /\ MaxRevision = 0

\* Slot s is to run a program and shows no trace of one.
Due(s) ==
  /\ s = Main => running /\ slot[s].st = "waiting"
  /\ s = Shell => overlay = Shell /\ slot[s].st = "absent"
  /\ s \in Panes => s \in panes /\ slot[s].want # None /\ slot[s].st = "absent"

OnAgenda(s) == \E i \in DOMAIN work : work[i] = Launch(s)

DueIsAwaited(s) == Due(s) => slot[s].idx # 0 \/ Stopping(s) \/ OnAgenda(s)

\* Nobody reports, or remembers, a start in doubt.
NoDoubt == /\ unconfirmed = {}
           /\ \A i \in DOMAIN evts : evts[i].op # "unconfirmed"
           /\ \A i \in DOMAIN work : work[i].op # "unconfirmed"

\* A slot waits for a launch of what it wants.
AllCurrent == \A r \in pending : IsCurrent(r)

\* There is one revision; a pane that is not there wants nothing, the shell does.
WantsFixed == /\ \A s \in Slots : slot[s].rev = 0
              /\ \A p \in Panes \ panes : slot[p].want = None
              /\ slot[Shell].want # None

Pursued == /\ NoDoubt /\ AllCurrent /\ WantsFixed
           /\ \A s \in Slots : DueIsAwaited(s)

\* The launch slot s waits for stays the one it wants.
SameLaunch(s) ==
  /\ slot'[s].idx = slot[s].idx /\ slot'[s].want = slot[s].want
  /\ slot'[s].rev = slot[s].rev /\ slot'[s].token = slot[s].token
  /\ s = Main /\ running => running'
  /\ s \in Panes /\ s \in panes => s \in panes'

LEMMA PursuedStep ==
  ASSUME TypeOK, TypeOK', Indexed', Pursued, NoDoubt', WantsFixed', LogGrows,
         pending' \subseteq pending,
         \A s \in Slots : slot'[s].idx = 0 \/ SameLaunch(s),
         \A s \in Slots : DueIsAwaited(s)'
  PROVE  Pursued'
<1> SUFFICES ASSUME NEW r \in pending' PROVE IsCurrent(r)'
  BY DEF Pursued, AllCurrent
<1>1. PICK s \in Slots : s = launch[r].slot
  BY Logged DEF TypeOK
<1>2. /\ r \in DOMAIN launch /\ r # 0 /\ launch'[r] = launch[r] /\ IsCurrent(r)
      /\ slot'[s].idx = r
  BY <1>1, Logged DEF LogGrows, TypeOK, Pursued, AllCurrent, Indexed,
     LaunchIndexExact, PendingIsIndexed
<1>3. SameLaunch(s)
  BY <1>2
<1>4. QED
  BY <1>1, <1>2, <1>3 DEF IsCurrent, SameLaunch

LEMMA StoppingStays ==
  ASSUME TypeOK, LogGrows, stops \subseteq stops', ustops \subseteq ustops',
         cancelled \subseteq cancelled', NEW s, Stopping(s)
  PROVE  Stopping(s)'
BY DEF Stopping, LogGrows, TypeOK

\* A slot the step leaves alone.
LEMMA StillAwaited ==
  ASSUME NEW s, DueIsAwaited(s), slot'[s] = slot[s], Stopping(s) => Stopping(s)',
         OnAgenda(s) => OnAgenda(s)', Due(s)' => Due(s)
  PROVE  DueIsAwaited(s)'
BY DEF DueIsAwaited, OnAgenda, Stopping

\* Nothing became due by a step that only takes rights away.
LEMMA DueBefore ==
  ASSUME ConstantsAssumption, NEW s, slot'[s].st = slot[s].st,
         slot'[s].want = slot[s].want,
         s = Main => running' \in {running, FALSE},
         s = Shell => overlay' \in {overlay, None},
         s \in Panes => panes' \subseteq panes,
         Due(s)'
  PROVE  Due(s)
BY DEF Due, ConstantsAssumption, Slots

\* A request opens an agenda of its own.
LEMMA DoubtlessRequest ==
  ASSUME NoDoubt, work = <<>>, evts' = evts, unconfirmed' \subseteq unconfirmed,
         \A i \in DOMAIN work' :
           work'[i].op \in {"poll", "launch", "removePane", "dropPane"}
  PROVE  NoDoubt'
BY DEF NoDoubt

LEMMA EmptyAgenda ==
  ASSUME work = <<>>, NEW s
  PROVE  ~OnAgenda(s)
BY EmptySeq DEF OnAgenda

LEMMA OpenedAgenda ==
  ASSUME NEW e, NEW f, work' \in {<<e>>, <<e, f>>}
  PROVE  /\ \A i \in DOMAIN work' : work'[i] \in {e, f}
         /\ \E i \in DOMAIN work' : work'[i] = e
         /\ work' = <<e, f>> => \E i \in DOMAIN work' : work'[i] = f
<1>1. CASE work' = <<e>>
  BY <1>1
<1>2. CASE work' = <<e, f>>
  BY <1>2
<1>3. QED
  BY <1>1, <1>2

\* The head of the agenda is done and replaced by what it leads to.
LEMMA AgendaReplaced ==
  ASSUME TypeOK, NoDoubt, work # <<>>, NEW items \in Seq(WorkRecord), Do(items),
         \A i \in DOMAIN items : items[i].op # "unconfirmed",
         \/ evts' = evts
         \/ evts' = <<>>,
         unconfirmed' \subseteq unconfirmed
  PROVE  /\ NoDoubt'
         /\ \A t : OnAgenda(t) /\ Head(work) # Launch(t) => OnAgenda(t)'
         /\ \A j \in DOMAIN items : \E i \in DOMAIN work' : work'[i] = items[j]
<1>1. /\ \A i \in DOMAIN work' : \/ \E j \in DOMAIN items : work'[i] = items[j]
                                 \/ \E j \in DOMAIN work : work'[i] = work[j]
      /\ \A j \in DOMAIN items : \E i \in DOMAIN work' : work'[i] = items[j]
      /\ \A j \in DOMAIN work :
           j = 1 \/ \E i \in DOMAIN work' : work'[i] = work[j]
  BY AgendaAfter
<1>2. \A i \in DOMAIN work' : work'[i].op # "unconfirmed"
  BY <1>1 DEF NoDoubt
<1>3. \A i \in DOMAIN evts' : evts'[i].op # "unconfirmed"
  BY EmptySeq DEF NoDoubt
<1>4. unconfirmed' = {}
  BY DEF NoDoubt
<1>5. Head(work) = work[1]
  BY HeadOfAgenda
<1>6. ASSUME NEW t, OnAgenda(t), Head(work) # Launch(t) PROVE OnAgenda(t)'
  <2>1. PICK j \in DOMAIN work : work[j] = Launch(t)
    BY <1>6 DEF OnAgenda
  <2>2. PICK i \in DOMAIN work' : work'[i] = work[j]
    BY <1>1, <1>5, <1>6, <2>1
  <2>3. QED
    BY <2>1, <2>2 DEF OnAgenda
<1>7. QED
  BY <1>1, <1>2, <1>3, <1>4, <1>6 DEF NoDoubt

\* Nothing follows the head of the agenda.
LEMMA AgendaPopped ==
  ASSUME TypeOK, NoDoubt, work # <<>>, Do(<<>>), evts' = evts,
         unconfirmed' \subseteq unconfirmed
  PROVE  /\ NoDoubt'
         /\ \A t : OnAgenda(t) /\ Head(work) # Launch(t) => OnAgenda(t)'
         /\ Head(work).op # "launch" => \A t : OnAgenda(t) => OnAgenda(t)'
<1>1. <<>> \in Seq(WorkRecord) /\ \A i \in DOMAIN <<>> : FALSE
  BY EmptySeq
<1>2. /\ NoDoubt'
      /\ \A t : OnAgenda(t) /\ Head(work) # Launch(t) => OnAgenda(t)'
  BY <1>1, AgendaReplaced
<1>3. \A t : Launch(t).op = "launch"
  BY DEF Launch, Todo
<1>4. QED
  BY <1>2, <1>3
-----------------------------------------------------------------------------
(* Requests                                                                 *)

\* Slot s gives up its child and is not due; the others are left alone.
LEMMA ReleasePursued ==
  ASSUME ConstantsAssumption, TypeOK, TypeOK', Indexed', Pursued, NoDoubt',
         NEW s \in Slots, ReleaseChild(s), slot'[s].idx = 0, slot'[s].rev = 0,
         s = Shell => slot'[s].want # None,
         s \in Panes /\ s \notin panes' => slot'[s].want = None,
         DueIsAwaited(s)',
         \A t \in Slots \ {s} : slot'[t] = slot[t],
         s # Main => running' = running, running' \in {running, FALSE},
         overlay' \in {overlay, None},
         \A p \in Panes \ {s} : p \in panes' <=> p \in panes,
         \A t \in Slots \ {s} : OnAgenda(t) => OnAgenda(t)'
  PROVE  Pursued'
<1>1. /\ LogGrows /\ pending' \subseteq pending /\ stops \subseteq stops'
      /\ ustops \subseteq ustops' /\ cancelled \subseteq cancelled'
  BY ReleaseAdds DEF ReleaseChild, LogGrows
<1>2. WantsFixed'
  <2>1. Shell \in Slots /\ Panes \subseteq Slots
    BY DEF Slots
  <2>2. \A t \in Slots : slot'[t].rev = 0
    BY DEF Pursued, WantsFixed
  <2>3. slot'[Shell].want # None
    BY <2>1 DEF Pursued, WantsFixed
  <2>4. \A p \in Panes \ panes' : slot'[p].want = None
    BY <2>1 DEF Pursued, WantsFixed
  <2>5. QED
    BY <2>2, <2>3, <2>4 DEF WantsFixed
<1>3. ASSUME NEW t \in Slots PROVE slot'[t].idx = 0 \/ SameLaunch(t)
  BY DEF SameLaunch
<1>4. ASSUME NEW t \in Slots PROVE DueIsAwaited(t)'
  <2>1. CASE t = s
    BY <2>1
  <2>2. CASE t # s
    <3>1. DueIsAwaited(t)
      BY DEF Pursued
    <3>2. Stopping(t) => Stopping(t)'
      BY <1>1, StoppingStays
    <3>3. Due(t)' => Due(t)
      <4>1. t \in Panes /\ Due(t)' => t \in panes
        BY <2>2 DEF Due
      <4>2. QED
        BY <2>2, <4>1 DEF Due, ConstantsAssumption, Slots
    <3>4. QED
      BY <2>2, <3>1, <3>2, <3>3, StillAwaited
  <2>3. QED
    BY <2>1, <2>2
<1>5. QED
  BY <1>1, <1>2, <1>3, <1>4, PursuedStep

LEMMA NotDue ==
  ASSUME NEW s, ~Due(s)'
  PROVE  DueIsAwaited(s)'
BY DEF DueIsAwaited

LEMMA ToSurfAcePursued ==
  ASSUME ConstantsAssumption, TypeOK, TypeOK', Indexed', Pursued,
         NEW p \in Panes, SwitchToSurfAce(p) \/ NativePaneRelease(p)
  PROVE  Pursued'
<1>1. /\ ToSurfAce(p) /\ work = <<>> /\ UNCHANGED <<panes, running>> /\ p \in panes
      /\ work' \in {<<Poll>>, <<Poll, Todo("removePane", p)>>}
  BY DEF SwitchToSurfAce, NativePaneRelease, Request
<1>2. /\ p \in Slots /\ p # Shell /\ p # Main
  BY DEF Slots, ConstantsAssumption
<1>3. /\ ReleaseChild(p) /\ overlay' \in {overlay, None}
      /\ evts' = evts /\ unconfirmed' \subseteq unconfirmed
  BY <1>1 DEF ToSurfAce, ReleaseChild
<1>4. /\ slot'[p].idx = 0 /\ slot'[p].rev = 0 /\ slot'[p].want = None
      /\ \A t \in Slots \ {p} : slot'[t] = slot[t]
  BY <1>1, <1>2 DEF ToSurfAce, Vacant, TypeOK
<1>5. NoDoubt'
  <2>1. PICK f : f = Todo("removePane", p)
    OBVIOUS
  <2>2. Poll.op = "poll" /\ f.op = "removePane"
    BY <2>1 DEF Poll, Todo
  <2>3. \A i \in DOMAIN work' : work'[i] \in {Poll, f}
    BY <1>1, <2>1, OpenedAgenda
  <2>4. QED
    BY <1>1, <1>3, <2>2, <2>3, DoubtlessRequest DEF Pursued
<1>6. DueIsAwaited(p)'
  BY <1>4, NotDue DEF Due
<1>7. \A t \in Slots : ~OnAgenda(t)
  BY <1>1, EmptyAgenda
<1>8. QED
  BY <1>1, <1>2, <1>3, <1>4, <1>5, <1>6, <1>7, ReleasePursued

LEMMA DismissShellPursued ==
  ASSUME ConstantsAssumption, TypeOK, TypeOK', Indexed', Wants, Pursued, DismissShell
  PROVE  Pursued'
<1>1. /\ Shell \in Slots /\ Shell \notin Panes /\ Shell # Main /\ None # Shell
  BY DEF Slots, ConstantsAssumption, Main, Shell
<1>2. /\ ReleaseChild(Shell) /\ overlay' = None /\ work = <<>> /\ work' = <<Poll>>
      /\ UNCHANGED <<panes, running, evts>> /\ unconfirmed' \subseteq unconfirmed
  BY DEF DismissShell, Request, ReleaseChild, Wants, ShellSame
<1>3. PICK st, pid : slot' = [slot EXCEPT ![Shell] = [slot[Shell] EXCEPT
        !.st = st, !.pid = pid, !.idx = 0, !.ureq = 0]]
  BY DEF DismissShell
<1>4. /\ slot'[Shell].idx = 0 /\ slot'[Shell].rev = slot[Shell].rev
      /\ slot'[Shell].want = slot[Shell].want
      /\ \A t \in Slots \ {Shell} : slot'[t] = slot[t]
  BY <1>1, <1>3 DEF TypeOK, SlotRecord
<1>5. NoDoubt'
  <2>1. Poll.op = "poll"
    BY DEF Poll, Todo
  <2>2. QED
    BY <1>2, <2>1, DoubtlessRequest DEF Pursued
<1>6. DueIsAwaited(Shell)'
  BY <1>1, <1>2, NotDue DEF Due
<1>7. \A t \in Slots : ~OnAgenda(t)
  BY <1>2, EmptyAgenda
<1>8. slot'[Shell].rev = 0 /\ slot'[Shell].want # None
  BY <1>1, <1>4 DEF Pursued, WantsFixed
<1>9. QED
  BY <1>1, <1>2, <1>4, <1>5, <1>6, <1>7, <1>8, ReleasePursued

LEMMA DropPanePursued ==
  ASSUME ConstantsAssumption, TypeOK, TypeOK', Indexed', Pursued, DropPane
  PROVE  Pursued'
<1>1. PICK p : p = Head(work).slot
  OBVIOUS
<1>2. /\ work # <<>> /\ Head(work).op = "dropPane" /\ Do(<<>>)
      /\ ReleaseChild(p) /\ slot' = [slot EXCEPT ![p] = Vacant]
      /\ panes' = panes \ {p} /\ overlay' \in {None, overlay}
      /\ UNCHANGED <<running, evts>> /\ unconfirmed' \subseteq unconfirmed
  BY <1>1 DEF DropPane, Applying, ReleaseChild
<1>3. p \in Panes /\ p \in Slots /\ p # Shell /\ p # Main
  BY <1>1, <1>2, HeadOfAgenda DEF ConstantsAssumption, Slots
<1>4. slot'[p] = Vacant /\ \A t \in Slots \ {p} : slot'[t] = slot[t]
  BY <1>2, <1>3 DEF TypeOK
<1>5. slot'[p].idx = 0 /\ slot'[p].rev = 0 /\ slot'[p].want = None
  BY <1>4 DEF Vacant
<1>6. NoDoubt' /\ \A t : OnAgenda(t) => OnAgenda(t)'
  BY <1>2, AgendaPopped DEF Pursued, Launch, Todo
<1>7. DueIsAwaited(p)'
  BY <1>3, <1>5, NotDue DEF Due
<1>8. QED
  BY <1>2, <1>3, <1>4, <1>5, <1>6, <1>7, ReleasePursued

\* No launch is asked for or given up; whoever becomes due is on the agenda.
LEMMA KeepsPursued ==
  ASSUME ConstantsAssumption, TypeOK, TypeOK', Indexed', Pursued, NoDoubt',
         UNCHANGED <<launch, pending, cancelled, stops, ustops>>,
         panes \subseteq panes', running => running',
         \A t \in Slots :
           /\ slot'[t].idx = slot[t].idx /\ slot'[t].want = slot[t].want
           /\ slot'[t].rev = slot[t].rev /\ slot'[t].token = slot[t].token,
         \A t \in Slots : Due(t)' => Due(t) \/ OnAgenda(t)',
         \A t \in Slots : OnAgenda(t) => OnAgenda(t)'
  PROVE  Pursued'
<1>1. LogGrows
  BY DEF LogGrows
<1>2. WantsFixed'
  BY DEF Pursued, WantsFixed, Slots
<1>3. ASSUME NEW t \in Slots PROVE SameLaunch(t)
  BY DEF SameLaunch
<1>4. ASSUME NEW t \in Slots PROVE DueIsAwaited(t)'
  <2>1. DueIsAwaited(t)
    BY DEF Pursued
  <2>2. Stopping(t) => Stopping(t)'
    BY DEF Stopping
  <2>3. CASE Due(t)
    BY <2>1, <2>2, <2>3 DEF DueIsAwaited
  <2>4. CASE ~Due(t)
    BY <2>4 DEF DueIsAwaited
  <2>5. QED
    BY <2>3, <2>4
<1>5. QED
  BY <1>1, <1>2, <1>3, <1>4, PursuedStep

LEMMA OpenShellPursued ==
  ASSUME ConstantsAssumption, TypeOK, TypeOK', Indexed', Pursued,
         \/ OpenShell \/ RuntimeRunning \/ PollRequest
         \/ \E p \in Panes : LaunchNativePaneHost(p)
  PROVE  Pursued'
<1>1. /\ UNCHANGED <<slot, panes, launch, pending, cancelled, stops, ustops, evts,
                     unconfirmed>>
      /\ work = <<>>
      /\ \/ overlay' = overlay /\ running' = running
         \/ work' = <<Launch(Shell)>> /\ running' = running
         \/ work' = <<Launch(Main)>> /\ overlay' = overlay
      /\ \/ work' = <<Poll>>
         \/ \E s \in Slots : work' = <<Launch(s)>>
  BY DEF OpenShell, RuntimeRunning, PollRequest, LaunchNativePaneHost, Request,
         tables, slots, Slots
<1>2. NoDoubt'
  <2>1. PICK e : e.op \in {"poll", "launch"} /\ work' = <<e>>
    BY <1>1 DEF Poll, Launch, Todo
  <2>2. \A i \in DOMAIN work' :
          work'[i].op \in {"poll", "launch", "removePane", "dropPane"}
    BY <2>1
  <2>3. NoDoubt /\ work = <<>> /\ evts' = evts /\ unconfirmed' = unconfirmed
    BY <1>1 DEF Pursued
  <2>4. QED
    BY <2>2, <2>3, DoubtlessRequest
<1>3. ASSUME NEW t \in Slots, Due(t)' PROVE Due(t) \/ OnAgenda(t)'
  <2>1. CASE \/ overlay' = overlay /\ running' = running
             \/ running' = running /\ t # Shell
             \/ overlay' = overlay /\ t # Main
    BY <1>1, <1>3, <2>1 DEF Due
  <2>2. CASE work' = <<Launch(t)>>
    <3>1. PICK e : e = Launch(t)
      OBVIOUS
    <3>2. 1 \in DOMAIN work' /\ work'[1] = e
      BY <2>2, <3>1
    <3>3. QED
      BY <3>1, <3>2 DEF OnAgenda
  <2>3. CASE work' = <<Launch(Shell)>> /\ running' = running
    BY <2>1, <2>2, <2>3
  <2>4. CASE work' = <<Launch(Main)>> /\ overlay' = overlay
    BY <2>1, <2>2, <2>4
  <2>5. QED
    BY <1>1, <2>1, <2>3, <2>4
<1>4. \A t \in Slots : ~OnAgenda(t)
  BY <1>1, EmptyAgenda
<1>5. running => running'
  BY DEF OpenShell, RuntimeRunning, PollRequest, LaunchNativePaneHost, slots
<1>6. QED
  BY <1>1, <1>2, <1>3, <1>4, <1>5, KeepsPursued

LEMMA SnapshotPursued ==
  ASSUME ConstantsAssumption, TypeOK, TypeOK', Indexed', Pursued,
         NEW incoming \in SUBSET Panes, ApplyProviderSnapshot(incoming)
  PROVE  Pursued'
<1>1. /\ UNCHANGED <<slot, overlay, running, launch, pending, cancelled, stops,
                     ustops, evts, unconfirmed>>
      /\ work = <<>> /\ panes' = panes \cup incoming
  BY DEF ApplyProviderSnapshot, Request, tables
<1>2. NoDoubt'
  <2>1. \A i \in DOMAIN work' : work'[i].op \in {"dropPane", "poll"}
    BY SnapshotAgenda
  <2>2. QED
    BY <1>1, <2>1, DoubtlessRequest DEF Pursued
<1>3. ASSUME NEW t \in Slots, Due(t)' PROVE Due(t)
  <2>1. t \in Panes => t \in panes
    BY <1>1, <1>3 DEF Due, Pursued, WantsFixed
  <2>2. QED
    BY <1>1, <1>3, <2>1 DEF Due
<1>4. \A t \in Slots : ~OnAgenda(t)
  BY <1>1, EmptyAgenda
<1>5. QED
  BY <1>1, <1>2, <1>3, <1>4, KeepsPursued

LEMMA HostPursued ==
  ASSUME ConstantsAssumption, MaxRevision = 0, TypeOK, TypeOK', Indexed, Indexed',
         Pursued, NEW p \in Panes, NEW spec \in Specs, NEW rev \in 0..MaxRevision,
         NativePaneHost(p, spec, rev)
  PROVE  Pursued'
<1>1. /\ HostPlan(p, spec, rev) /\ work = <<>> /\ work' = <<Poll, Launch(p)>>
      /\ UNCHANGED <<overlay, running>> /\ rev = 0
  BY DEF NativePaneHost, Request
<1>2. /\ p \in Slots /\ p # Shell /\ p # Main /\ spec # None
  BY DEF Slots, ConstantsAssumption
<1>3. \A t \in Slots : ~OnAgenda(t)
  BY <1>1, EmptyAgenda
<1>4. evts' = evts /\ unconfirmed' \subseteq unconfirmed
  BY <1>1 DEF HostPlan, ReleaseChild, tables
<1>5. NoDoubt' /\ OnAgenda(p)'
  <2>1. PICK f : f = Launch(p)
    OBVIOUS
  <2>2. Poll.op = "poll" /\ f.op = "launch"
    BY <2>1 DEF Poll, Launch, Todo
  <2>3. /\ \A i \in DOMAIN work' : work'[i] \in {Poll, f}
        /\ \E i \in DOMAIN work' : work'[i] = f
    BY <1>1, <2>1, OpenedAgenda
  <2>4. QED
    BY <1>1, <1>4, <2>1, <2>2, <2>3, DoubtlessRequest DEF Pursued, OnAgenda
<1>6. DueIsAwaited(p)'
  BY <1>5 DEF DueIsAwaited
<1>7. CASE p \in panes /\ slot[p].want # spec
  <2>1. ReleaseChild(p) /\ UNCHANGED panes
    BY <1>1, <1>7 DEF HostPlan
  <2>2. PICK st : slot' = [slot EXCEPT ![p] = [slot[p] EXCEPT
            !.st = st, !.pid = RunningPid(p), !.idx = 0, !.ureq = 0, !.token = 0,
            !.want = spec, !.rev = rev]]
    BY <1>1, <1>7 DEF HostPlan
  <2>3. /\ slot'[p].idx = 0 /\ slot'[p].rev = 0 /\ slot'[p].want = spec
        /\ \A t \in Slots \ {p} : slot'[t] = slot[t]
    BY <1>1, <1>2, <2>2 DEF TypeOK, SlotRecord
  <2>4. QED
    BY <1>1, <1>2, <1>3, <1>5, <1>6, <1>7, <2>1, <2>3, ReleasePursued
<1>8. CASE ~(p \in panes /\ slot[p].want # spec)
  <2>1. /\ slot' = [slot EXCEPT ![p] = [slot[p] EXCEPT !.want = spec, !.rev = rev]]
        /\ panes' = panes \cup {p}
        /\ UNCHANGED <<launch, pending, cancelled, stops, ustops>>
    BY <1>1, <1>8 DEF HostPlan, tables
  <2>2. /\ slot'[p].idx = slot[p].idx /\ slot'[p].rev = 0 /\ slot'[p].want = spec
        /\ slot'[p].token = slot[p].token
        /\ \A t \in Slots \ {p} : slot'[t] = slot[t]
    BY <1>1, <1>2, <2>1 DEF TypeOK, SlotRecord
  <2>3. slot'[p].idx = 0 \/ SameLaunch(p)
    <3>1. CASE p \in panes
      BY <1>1, <1>2, <1>8, <2>1, <2>2, <3>1 DEF SameLaunch, Pursued, WantsFixed
    <3>2. CASE p \notin panes
      BY <1>2, <2>2, <3>2 DEF Indexed, LaunchIndexExact, IndexNamesPending, Pursued,
                              AllCurrent, IsCurrent
    <3>3. QED
      BY <3>1, <3>2
  <2>4. \A t \in Slots : slot'[t].idx = 0 \/ SameLaunch(t)
    BY <1>1, <2>1, <2>2, <2>3 DEF SameLaunch
  <2>5. WantsFixed'
    BY <1>1, <1>2, <2>1, <2>2 DEF Pursued, WantsFixed, Slots
  <2>6. LogGrows
    BY <2>1 DEF LogGrows
  <2>7. ASSUME NEW t \in Slots PROVE DueIsAwaited(t)'
    <3>1. CASE t = p
      BY <1>6, <3>1
    <3>2. CASE t # p
      <4>1. Due(t)' => Due(t)
        BY <1>1, <2>1, <2>2, <3>2 DEF Due
      <4>2. Stopping(t) => Stopping(t)'
        BY <2>1 DEF Stopping
      <4>3. DueIsAwaited(t)
        BY DEF Pursued
      <4>4. QED
        BY <1>3, <2>2, <3>2, <4>1, <4>2, <4>3, StillAwaited
    <3>3. QED
      BY <3>1, <3>2
  <2>8. QED
    BY <1>5, <2>1, <2>4, <2>5, <2>6, <2>7, PursuedStep
<1>9. QED
  BY <1>7, <1>8

LEMMA MainRequestsPursued ==
  ASSUME ConstantsAssumption, TypeOK, TypeOK', Indexed', Kept, Pursued,
         ResetRuntime \/ \E intent \in Specs : SelectMainApp(intent)
  PROVE  Pursued'
<1>1. /\ Main \in Slots /\ Main # Shell /\ Main \notin Panes
      /\ TerminateMain /\ work = <<>> /\ UNCHANGED <<panes, overlay>>
  BY DEF Slots, Main, Shell, ConstantsAssumption, ResetRuntime, SelectMainApp, Request
<1>2. slot[Main].ureq = 0
  BY <1>1 DEF Kept, StartsKnown, UnconfirmedIsNamed, Pursued, NoDoubt
<1>3. ReleaseChild(Main)
  BY <1>1, <1>2 DEF TerminateMain
<1>4. evts' = evts /\ unconfirmed' \subseteq unconfirmed
  BY <1>3 DEF ReleaseChild
<1>5. PICK f : f = MainReleased
  OBVIOUS
<1>6. /\ f \in [Slots -> SlotRecord] /\ f[Main].idx = 0
      /\ f[Main].rev = slot[Main].rev
      /\ \A t \in Slots \ {Main} : f[t] = slot[t]
  <2>1. f \in [Slots -> SlotRecord]
    BY <1>5, MainReleasedType DEF TypeOK
  <2>2. PICK g \in SlotRecord : g = slot[Main]
    BY <1>1 DEF TypeOK
  <2>3. f = [slot EXCEPT ![Main] = [g EXCEPT !.idx = 0]]
    BY <1>2, <1>5, <2>2 DEF MainReleased
  <2>4. f[Main] = [g EXCEPT !.idx = 0] /\ \A t \in Slots \ {Main} : f[t] = slot[t]
    BY <1>1, <2>3 DEF TypeOK
  <2>5. f[Main].idx = 0 /\ f[Main].rev = g.rev
    BY <2>2, <2>4 DEF SlotRecord
  <2>6. QED
    BY <2>1, <2>2, <2>4, <2>5
<1>7. \A t \in Slots : ~OnAgenda(t)
  BY <1>1, EmptyAgenda
<1>8. CASE ResetRuntime
  <2>1. \/ slot' = f
        \/ slot' = [f EXCEPT ![Main] = [f[Main] EXCEPT !.st = Rest(Main),
                     !.pid = 0, !.token = 0, !.ureq = 0]]
    BY <1>5, <1>8 DEF ResetRuntime
  <2>2. /\ slot'[Main].idx = 0 /\ slot'[Main].rev = slot[Main].rev
        /\ \A t \in Slots \ {Main} : slot'[t] = slot[t]
    <3>1. PICK g \in SlotRecord : g = f[Main]
      BY <1>1, <1>6
    <3>2. \A t \in Slots \ {Main} : slot'[t] = f[t]
      BY <1>6, <2>1
    <3>3. \/ slot'[Main] = g
          \/ slot'[Main] = [g EXCEPT !.st = Rest(Main), !.pid = 0, !.token = 0,
                                     !.ureq = 0]
      BY <1>1, <1>6, <2>1, <3>1
    <3>4. slot'[Main].idx = g.idx /\ slot'[Main].rev = g.rev
      BY <3>1, <3>3 DEF SlotRecord
    <3>5. QED
      BY <1>6, <3>1, <3>2, <3>4
  <2>3. work' = <<Poll>> /\ running' = FALSE
    BY <1>8 DEF ResetRuntime
  <2>4. NoDoubt'
    <3>1. Poll.op = "poll"
      BY DEF Poll, Todo
    <3>2. QED
      BY <1>1, <1>4, <2>3, <3>1, DoubtlessRequest DEF Pursued
  <2>5. DueIsAwaited(Main)'
    BY <2>3, NotDue DEF Due
  <2>6. slot'[Main].rev = 0
    BY <1>1, <2>2 DEF Pursued, WantsFixed
  <2>7. running' \in {running, FALSE}
    BY <2>3
  <2>8. QED
    BY <1>1, <1>3, <1>7, <2>2, <2>4, <2>5, <2>6, <2>7, ReleasePursued
<1>9. CASE \E intent \in Specs : SelectMainApp(intent)
  <2>1. PICK intent \in Specs :
          \/ slot' = [f EXCEPT ![Main] = [f[Main] EXCEPT !.want = intent]]
          \/ slot' = [f EXCEPT ![Main] = [f[Main] EXCEPT !.want = intent,
                        !.st = "waiting", !.pid = 0, !.token = 0]]
    BY <1>5, <1>9 DEF SelectMainApp
  <2>2. /\ slot'[Main].idx = 0 /\ slot'[Main].rev = slot[Main].rev
        /\ \A t \in Slots \ {Main} : slot'[t] = slot[t]
    <3>1. PICK g \in SlotRecord : g = f[Main]
      BY <1>1, <1>6
    <3>2. \A t \in Slots \ {Main} : slot'[t] = f[t]
      BY <1>6, <2>1
    <3>3. \/ slot'[Main] = [g EXCEPT !.want = intent]
          \/ slot'[Main] = [g EXCEPT !.want = intent, !.st = "waiting",
                                    !.pid = 0, !.token = 0]
      BY <1>1, <1>6, <2>1, <3>1
    <3>4. slot'[Main].idx = g.idx /\ slot'[Main].rev = g.rev
      BY <3>1, <3>3 DEF SlotRecord
    <3>5. QED
      BY <1>6, <3>1, <3>2, <3>4
  <2>3. work' = <<Launch(Main), Poll>> /\ running' = running
    BY <1>9 DEF SelectMainApp
  <2>4. NoDoubt' /\ OnAgenda(Main)'
    <3>1. PICK e : e = Launch(Main)
      OBVIOUS
    <3>2. Poll.op = "poll" /\ e.op = "launch"
      BY <3>1 DEF Poll, Launch, Todo
    <3>3. /\ \A i \in DOMAIN work' : work'[i] \in {e, Poll}
          /\ \E i \in DOMAIN work' : work'[i] = e
      BY <2>3, <3>1, OpenedAgenda
    <3>4. QED
      BY <1>1, <1>4, <3>1, <3>2, <3>3, DoubtlessRequest DEF Pursued, OnAgenda
  <2>5. DueIsAwaited(Main)'
    BY <2>4 DEF DueIsAwaited
  <2>6. slot'[Main].rev = 0
    BY <1>1, <2>2 DEF Pursued, WantsFixed
  <2>7. running' \in {running, FALSE}
    BY <2>3
  <2>8. QED
    BY <1>1, <1>3, <1>7, <2>2, <2>3, <2>4, <2>5, <2>6, <2>7, ReleasePursued
<1>10. QED
  BY <1>8, <1>9

-----------------------------------------------------------------------------
(* Windows, programs and the worker                                         *)

\* Slots take another state than the one of a slot that waits.
LEMMA MovedPursued ==
  ASSUME ConstantsAssumption, TypeOK, TypeOK', Indexed', Pursued, NoDoubt',
         UNCHANGED <<panes, overlay, launch, pending, cancelled, stops, ustops>>,
         running' = running,
         \A t \in Slots :
           \/ slot'[t] = slot[t]
           \/ \E st \in {"launching", "attached", "exited"}, pid \in Int :
                slot'[t] = [slot[t] EXCEPT !.st = st, !.pid = pid],
         \A t \in Slots : OnAgenda(t) => OnAgenda(t)'
  PROVE  Pursued'
<1>1. ASSUME NEW t \in Slots
      PROVE  /\ slot'[t].idx = slot[t].idx /\ slot'[t].want = slot[t].want
             /\ slot'[t].rev = slot[t].rev /\ slot'[t].token = slot[t].token
             /\ slot'[t].st = slot[t].st
                  \/ slot'[t].st \in {"launching", "attached", "exited"}
  <2>1. CASE slot'[t] = slot[t]
    BY <2>1
  <2>2. ASSUME NEW st \in {"launching", "attached", "exited"}, NEW pid \in Int,
               slot'[t] = [slot[t] EXCEPT !.st = st, !.pid = pid]
        PROVE  /\ slot'[t].idx = slot[t].idx /\ slot'[t].want = slot[t].want
               /\ slot'[t].rev = slot[t].rev /\ slot'[t].token = slot[t].token
               /\ slot'[t].st = st
    <3>1. PICK g \in SlotRecord : g = slot[t]
      BY DEF TypeOK
    <3>2. slot'[t] = [g EXCEPT !.st = st, !.pid = pid]
      BY <2>2, <3>1
    <3>3. /\ slot'[t].idx = g.idx /\ slot'[t].want = g.want
          /\ slot'[t].rev = g.rev /\ slot'[t].token = g.token /\ slot'[t].st = st
      BY <3>1, <3>2 DEF SlotRecord
    <3>4. QED
      BY <3>1, <3>3, ZenonT(60)
  <2>3. QED
    BY <2>1, <2>2
<1>2. ASSUME NEW t \in Slots, Due(t)' PROVE Due(t)
  <2>1. slot'[t].st \in {"waiting", "absent"}
    BY <1>2, ZenonT(60) DEF Due, Slots
  <2>2. slot'[t].st = slot[t].st
    BY <1>1, <2>1
  <2>3. QED
    BY <1>1, <1>2, <2>2 DEF Due
<1>3. running => running'
  OBVIOUS
<1>4. QED
  BY <1>1, <1>2, <1>3, KeepsPursued, ZenonT(60)

LEMMA WindowPursued ==
  ASSUME ConstantsAssumption, TypeOK, TypeOK', Indexed', Pursued,
         NEW s \in Slots, Attach(s) \/ Detach(s)
  PROVE  Pursued'
<1>1. /\ UNCHANGED <<panes, overlay, launch, pending, cancelled, stops, ustops,
                     unconfirmed, evts, work>>
  BY DEF Attach, Detach, tables
<1>2. running' = running
  BY DEF Attach, Detach
<1>3. \E st \in {"launching", "attached"}, pid \in Int :
        slot' = [slot EXCEPT ![s] = [slot[s] EXCEPT !.st = st, !.pid = pid]]
  <2>1. slot[s] \in SlotRecord /\ slot[s].pid \in Int
    BY DEF TypeOK, SlotRecord
  <2>2. CASE Attach(s)
    <3>1. PICK c \in {slot[s].pid, -ReqOf(slot[s].pid)} :
            slot' = [slot EXCEPT ![s] = [slot[s] EXCEPT !.st = "attached", !.pid = c]]
      BY <2>2 DEF Attach
    <3>2. c \in Int
      BY <2>1, <3>1 DEF ReqOf
    <3>3. QED
      BY <3>1, <3>2
  <2>3. CASE Detach(s)
    <3>1. slot' = [slot EXCEPT ![s] = [slot[s] EXCEPT !.st = "launching"]]
      BY <2>3 DEF Detach
    <3>2. slot[s] = [slot[s] EXCEPT !.pid = slot[s].pid]
      BY <2>1 DEF SlotRecord
    <3>3. [slot[s] EXCEPT !.st = "launching"] =
            [slot[s] EXCEPT !.st = "launching", !.pid = slot[s].pid]
      BY <2>1 DEF SlotRecord
    <3>4. QED
      BY <2>1, <3>1, <3>3
  <2>4. QED
    BY <2>2, <2>3
<1>4. ASSUME NEW t \in Slots
      PROVE  \/ slot'[t] = slot[t]
             \/ \E st \in {"launching", "attached", "exited"}, pid \in Int :
                  slot'[t] = [slot[t] EXCEPT !.st = st, !.pid = pid]
  BY <1>3 DEF TypeOK
<1>5. NoDoubt'
  BY <1>1 DEF Pursued, NoDoubt
<1>6. \A t \in Slots : OnAgenda(t) => OnAgenda(t)'
  BY <1>1 DEF OnAgenda
<1>7. QED
  BY <1>1, <1>2, <1>4, <1>5, <1>6, MovedPursued

LEMMA RecoverOverlayPursued ==
  ASSUME ConstantsAssumption, TypeOK, TypeOK', Indexed', Pursued,
         NEW r \in DOMAIN app, RecoverOverlay(r)
  PROVE  Pursued'
<1>1. /\ UNCHANGED <<panes, overlay, launch, pending, cancelled, stops, ustops,
                     unconfirmed, evts, work>>
  BY DEF RecoverOverlay, tables
<1>2. running' = running
  BY DEF RecoverOverlay
<1>3. /\ slot' = [slot EXCEPT ![overlay] = [slot[overlay] EXCEPT
                    !.st = "attached", !.pid = r]]
      /\ r \in Int
  BY Logged DEF RecoverOverlay, TypeOK
<1>4. ASSUME NEW t \in Slots
      PROVE  \/ slot'[t] = slot[t]
             \/ \E st \in {"launching", "attached", "exited"}, pid \in Int :
                  slot'[t] = [slot[t] EXCEPT !.st = st, !.pid = pid]
  BY <1>3 DEF TypeOK
<1>5. NoDoubt'
  BY <1>1 DEF Pursued, NoDoubt
<1>6. \A t \in Slots : OnAgenda(t) => OnAgenda(t)'
  BY <1>1 DEF OnAgenda
<1>7. QED
  BY <1>1, <1>2, <1>4, <1>5, <1>6, MovedPursued

\* The worker and the programs only say something.
LEMMA ElsewherePursued ==
  ASSUME ConstantsAssumption, "unconfirmed" \notin Outcomes, TypeOK, TypeOK', Indexed',
         Pursued,
         Worker \/ (\E r \in DOMAIN app : AppExits(r)) \/ UNCHANGED vars
  PROVE  Pursued'
<1>1. /\ UNCHANGED <<panes, overlay, launch, pending, cancelled, stops, ustops,
                     unconfirmed, work, slot>>
      /\ \/ evts' = evts
         \/ \E e : e.op # "unconfirmed" /\ evts' = Append(evts, e)
  BY DEF Worker, WorkerSpawn, WorkerTerminate, WorkerTerminateUnconfirmed,
     ReapStarted, ReapReported, ReapUnconfirmed, AppExits, vars, slots, tables, Evt
<1>2. running' = running
  BY DEF Worker, WorkerSpawn, WorkerTerminate, WorkerTerminateUnconfirmed,
     ReapStarted, ReapReported, ReapUnconfirmed, AppExits, vars, slots
<1>3. NoDoubt'
  <2>1. \A i \in DOMAIN evts' : evts'[i].op # "unconfirmed"
    <3>1. CASE evts' = evts
      BY <3>1 DEF Pursued, NoDoubt
    <3>2. ASSUME NEW e, e.op # "unconfirmed", evts' = Append(evts, e)
          PROVE  \A i \in DOMAIN evts' : evts'[i].op # "unconfirmed"
      <4>1. evts \in Seq(EvtRecord \cup {e})
        BY SeqMonotonic DEF TypeOK
      <4>2. QED
        BY <3>2, <4>1, AppendProperties DEF Pursued, NoDoubt
    <3>3. QED
      BY <1>1, <3>1, <3>2
  <2>2. QED
    BY <1>1, <2>1 DEF Pursued, NoDoubt
<1>4. \A t \in Slots : OnAgenda(t) => OnAgenda(t)'
  BY <1>1 DEF OnAgenda
<1>5. QED
  BY <1>1, <1>2, <1>3, <1>4, MovedPursued

-----------------------------------------------------------------------------
(* The agenda                                                               *)

\* What slot s waited for came; the others are left alone.
LEMMA AnsweredPursued ==
  ASSUME TypeOK, TypeOK', Indexed', Pursued, NoDoubt', NEW s \in Slots, LogGrows,
         pending' \subseteq pending, UNCHANGED <<panes, overlay>>, running' = running,
         slot'[s].idx = 0 \/ SameLaunch(s),
         slot'[s].want = slot[s].want, slot'[s].rev = slot[s].rev,
         \A t \in Slots \ {s} : slot'[t] = slot[t],
         \A t \in Slots \ {s} : Stopping(t) => Stopping(t)',
         \A t \in Slots \ {s} : OnAgenda(t) => OnAgenda(t)',
         DueIsAwaited(s)'
  PROVE  Pursued'
<1>1. ASSUME NEW t \in Slots
      PROVE  /\ slot'[t].want = slot[t].want /\ slot'[t].rev = slot[t].rev
             /\ slot'[t].idx = 0 \/ SameLaunch(t)
  BY DEF SameLaunch
<1>2. WantsFixed'
  BY <1>1 DEF Pursued, WantsFixed, Slots
<1>3. ASSUME NEW t \in Slots PROVE DueIsAwaited(t)'
  <2>1. CASE t = s
    BY <2>1
  <2>2. CASE t # s
    <3>1. Due(t)' => Due(t)
      BY <2>2 DEF Due
    <3>2. QED
      BY <2>2, <3>1, StillAwaited DEF Pursued
  <2>3. QED
    BY <2>1, <2>2
<1>4. QED
  BY <1>1, <1>2, <1>3, PursuedStep

\* A slot in one of these states has had its launch.
LEMMA DecidedIsNotDue ==
  ASSUME NEW s \in Slots, slot'[s].st \in {"launching", "attached", "failed", "exited"}
  PROVE  DueIsAwaited(s)'
BY DEF DueIsAwaited, Due, Slots

LEMMA ExitsPursued ==
  ASSUME ConstantsAssumption, TypeOK, TypeOK', Indexed', Pursued,
         Exited \/ UnconfirmedExited
  PROVE  Pursued'
<1>1. /\ UNCHANGED <<panes, overlay, launch, pending, cancelled, stops, ustops, evts>>
      /\ work # <<>> /\ Do(<<>>) /\ Head(work).op \in {"exited", "unconfirmedExited"}
      /\ unconfirmed' \subseteq unconfirmed
  BY DEF Exited, UnconfirmedExited, Applying, tables
<1>2. running' = running
  BY DEF Exited, UnconfirmedExited
<1>3. NoDoubt' /\ \A t : OnAgenda(t) => OnAgenda(t)'
  BY <1>1, AgendaPopped DEF Pursued
<1>4. ASSUME NEW t \in Slots
      PROVE  \/ slot'[t] = slot[t]
             \/ \E st \in {"launching", "attached", "exited"}, pid \in Int :
                  slot'[t] = [slot[t] EXCEPT !.st = st, !.pid = pid]
  <2>1. CASE UnconfirmedExited
    <3>1. unconfirmed = {}
      BY DEF Pursued, NoDoubt
    <3>2. slot' = slot
      BY <2>1, <3>1 DEF UnconfirmedExited
    <3>3. QED
      BY <3>2
  <2>2. CASE Exited
    <3>1. slot'[t] = slot[t] \/ slot'[t] = [slot[t] EXCEPT !.st = "exited"]
      BY <2>2 DEF Exited
    <3>2. PICK g \in SlotRecord : g = slot[t]
      BY DEF TypeOK
    <3>3. [g EXCEPT !.st = "exited"] = [g EXCEPT !.st = "exited", !.pid = g.pid]
          /\ g.pid \in Int
      BY <3>2 DEF SlotRecord
    <3>4. QED
      BY <3>1, <3>2, <3>3
  <2>3. QED
    BY <2>1, <2>2
<1>5. QED
  BY <1>1, <1>2, <1>3, <1>4, MovedPursued

LEMMA PollProcessesPursued ==
  ASSUME ConstantsAssumption, TypeOK, TypeOK', Indexed', Pursued, PollProcesses
  PROVE  Pursued'
<1>1. /\ UNCHANGED <<slot, panes, overlay, launch, pending, cancelled, stops, ustops>>
      /\ work # <<>> /\ Do(evts) /\ Head(work).op = "poll" /\ evts' = <<>>
      /\ unconfirmed' = unconfirmed
  BY DEF PollProcesses, Applying, tables, slots
<1>2. running' = running
  BY DEF PollProcesses, slots
<1>3. evts \in Seq(WorkRecord)
  BY SeqMonotonic DEF TypeOK, WorkRecord
<1>4. /\ NoDoubt'
      /\ \A t : OnAgenda(t) /\ Head(work) # Launch(t) => OnAgenda(t)'
  BY <1>1, <1>3, AgendaReplaced DEF Pursued, NoDoubt
<1>5. \A t : Head(work) # Launch(t)
  BY <1>1 DEF Launch, Todo
<1>6. QED
  BY <1>1, <1>2, <1>4, <1>5, MovedPursued

LEMMA RemoveReleasedPanePursued ==
  ASSUME ConstantsAssumption, TypeOK, TypeOK', Indexed', Pursued, RemoveReleasedPane
  PROVE  Pursued'
<1>1. PICK p : p = Head(work).slot
  OBVIOUS
<1>2. /\ UNCHANGED <<launch, pending, cancelled, stops, ustops, evts, unconfirmed>>
      /\ work # <<>> /\ Do(<<>>) /\ Head(work).op = "removePane"
  BY DEF RemoveReleasedPane, Applying, tables
<1>3. running' = running
  BY DEF RemoveReleasedPane
<1>4. p \in Panes /\ p \in Slots /\ p # Shell /\ p # Main
  BY <1>1, <1>2, HeadOfAgenda DEF ConstantsAssumption, Slots
<1>5. NoDoubt' /\ \A t : OnAgenda(t) => OnAgenda(t)'
  BY <1>2, AgendaPopped DEF Pursued
<1>6. CASE p \in provided
  <2>1. UNCHANGED <<slot, panes, overlay>>
    BY <1>1, <1>6 DEF RemoveReleasedPane
  <2>2. QED
    BY <1>2, <1>3, <1>5, <2>1, MovedPursued
<1>7. CASE p \notin provided
  <2>1. /\ slot' = [slot EXCEPT ![p] = Vacant] /\ panes' = panes \ {p}
        /\ overlay' \in {overlay, None}
    BY <1>1, <1>7 DEF RemoveReleasedPane
  <2>2. slot'[p] = Vacant /\ \A t \in Slots \ {p} : slot'[t] = slot[t]
    BY <1>4, <2>1 DEF TypeOK
  <2>3. slot'[p].idx = 0 /\ slot'[p].rev = 0 /\ slot'[p].want = None
    BY <2>2 DEF Vacant
  <2>4. WantsFixed'
    BY <1>4, <2>1, <2>2, <2>3 DEF Pursued, WantsFixed, Slots
  <2>5. LogGrows
    BY <1>2 DEF LogGrows
  <2>6. ASSUME NEW t \in Slots PROVE slot'[t].idx = 0 \/ SameLaunch(t)
    BY <1>3, <2>1, <2>2, <2>3 DEF SameLaunch
  <2>7. ASSUME NEW t \in Slots PROVE DueIsAwaited(t)'
    <3>1. CASE t = p
      BY <1>4, <2>3, <3>1, NotDue DEF Due
    <3>2. CASE t # p
      <4>1. Due(t)' => Due(t)
        BY <1>3, <2>1, <2>2, <3>2 DEF Due, ConstantsAssumption, Slots
      <4>2. Stopping(t) => Stopping(t)'
        BY <1>2 DEF Stopping
      <4>3. QED
        BY <1>5, <2>2, <3>2, <4>1, <4>2, StillAwaited DEF Pursued
    <3>3. QED
      BY <3>1, <3>2
  <2>8. QED
    BY <1>2, <1>5, <2>4, <2>5, <2>6, <2>7, PursuedStep
<1>8. QED
  BY <1>6, <1>7

\* The retry of slot s is next.
LEMMA RetriedAgenda ==
  ASSUME TypeOK, NoDoubt, work # <<>>, Head(work).op # "launch", NEW s \in Slots,
         Do(Retry(s)), evts' = evts, unconfirmed' \subseteq unconfirmed
  PROVE  NoDoubt' /\ OnAgenda(s)' /\ \A t : OnAgenda(t) => OnAgenda(t)'
<1>1. PICK e : e = Launch(s)
  OBVIOUS
<1>2. e \in WorkRecord /\ e.op = "launch"
  BY <1>1, TodoItems DEF WorkRecord, Launch, Todo
<1>3. PICK items : items = <<e>>
  OBVIOUS
<1>4. /\ items \in Seq(WorkRecord) /\ 1 \in DOMAIN items /\ items[1] = e
      /\ \A i \in DOMAIN items : items[i].op # "unconfirmed"
  BY <1>2, <1>3
<1>5. Do(items)
  BY <1>1, <1>3 DEF Retry
<1>6. /\ NoDoubt'
      /\ \A t : OnAgenda(t) /\ Head(work) # Launch(t) => OnAgenda(t)'
      /\ \E i \in DOMAIN work' : work'[i] = e
  BY <1>4, <1>5, AgendaReplaced
<1>7. \A t : Head(work) # Launch(t)
  BY DEF Launch, Todo
<1>8. QED
  BY <1>1, <1>6, <1>7 DEF OnAgenda

-----------------------------------------------------------------------------
(* The answers                                                              *)

\* The current launch is answered with one of the states of a decided slot.
LEMMA DecidedPursued ==
  ASSUME TypeOK, TypeOK', Indexed, Indexed', Pursued, NoDoubt', NEW r \in pending,
         NEW st \in {"launching", "failed"}, NEW pid, NEW token, NEW s,
         s = launch[r].slot,
         slot' = [ClearIndex(slot, r) EXCEPT ![s] = [@ EXCEPT
                    !.st = st, !.pid = pid, !.ureq = 0, !.token = token]],
         UNCHANGED <<panes, overlay, launch, cancelled, stops, ustops>>,
         running' = running, pending' = pending \ {r},
         \A t \in Slots : OnAgenda(t) => OnAgenda(t)'
  PROVE  Pursued'
<1>1. PICK f : f = ClearIndex(slot, r)
  OBVIOUS
<1>2. /\ s \in Slots /\ f \in [Slots -> SlotRecord] /\ f[s].idx = 0
      /\ f[s].want = slot[s].want /\ f[s].rev = slot[s].rev
      /\ \A t \in Slots \ {s} : f[t] = slot[t]
  <2>1. PICK g \in SlotRecord : g = slot[s]
    BY Cleared DEF TypeOK
  <2>2. \E i, u : f = [slot EXCEPT ![s] = [g EXCEPT !.idx = i, !.ureq = u]]
    BY <1>1, <2>1 DEF ClearIndex
  <2>3. f[s].rev = g.rev
    BY <2>1, <2>2, Cleared DEF TypeOK, SlotRecord
  <2>4. QED
    BY <1>1, <2>1, <2>3, Cleared
<1>3. slot' = [f EXCEPT ![s] = [f[s] EXCEPT
                 !.st = st, !.pid = pid, !.ureq = 0, !.token = token]]
  BY <1>1, Zenon
<1>4. PICK g \in SlotRecord : g = f[s]
  BY <1>2
<1>5. /\ slot'[s] = [g EXCEPT !.st = st, !.pid = pid, !.ureq = 0, !.token = token]
      /\ \A t \in Slots \ {s} : slot'[t] = slot[t]
  BY <1>2, <1>3, <1>4
<1>6. /\ slot'[s].st = st /\ slot'[s].idx = g.idx /\ slot'[s].want = g.want
      /\ slot'[s].rev = g.rev
  <2>1. PICK h : h = [g EXCEPT !.st = st, !.pid = pid, !.ureq = 0, !.token = token]
    OBVIOUS
  <2>2. h.st = st /\ h.idx = g.idx /\ h.want = g.want /\ h.rev = g.rev
    BY <1>4, <2>1 DEF SlotRecord
  <2>3. slot'[s] = h
    BY <1>5, <2>1
  <2>4. QED
    BY <2>2, <2>3
<1>7. slot'[s].idx = 0 /\ slot'[s].want = slot[s].want /\ slot'[s].rev = slot[s].rev
  BY <1>2, <1>4, <1>6
<1>8. DueIsAwaited(s)'
  BY <1>2, <1>6, DecidedIsNotDue
<1>9. LogGrows /\ \A t : Stopping(t) => Stopping(t)'
  BY DEF LogGrows, Stopping
<1>10. QED
  BY <1>2, <1>5, <1>7, <1>8, <1>9, AnsweredPursued

LEMMA SpawnStartedPursued ==
  ASSUME ConstantsAssumption, TypeOK, TypeOK', Indexed, Indexed', Kept, Wants, Pursued,
         SpawnStarted
  PROVE  Pursued'
<1>1. PICK r : r = Subject
  OBVIOUS
<1>2. /\ UNCHANGED <<panes, overlay, launch, ustops, evts, unconfirmed>>
      /\ work # <<>> /\ Do(<<>>) /\ Head(work).op = "started"
  BY DEF SpawnStarted, Applying
<1>3. running' = running
  BY DEF SpawnStarted
<1>4. NoDoubt' /\ \A t : OnAgenda(t) => OnAgenda(t)'
  BY <1>2, AgendaPopped DEF Pursued
<1>5. r \in pending => IsCurrent(r)
  BY DEF Pursued, AllCurrent
<1>6. CASE r \in pending
  <2>1. PICK s : s = launch[r].slot
    OBVIOUS
  <2>2. CASE /\ slot' = [ClearIndex(slot, r) EXCEPT ![s] = [@ EXCEPT
                           !.st = "launching", !.pid = r, !.ureq = 0, !.token = r]]
             /\ pending' = pending \ {r}
             /\ UNCHANGED <<cancelled, stops>>
    BY <1>2, <1>3, <1>4, <1>6, <2>1, <2>2, DecidedPursued
  <2>3. IsCurrent(r)
    BY <1>5, <1>6
  <2>4. /\ slot' = [ClearIndex(slot, r) EXCEPT ![s] = [@ EXCEPT
                       !.st = "launching", !.pid = r, !.ureq = 0, !.token = r]]
        /\ pending' = pending \ {r} /\ cancelled' = cancelled /\ stops' = stops
    <3>1. r \notin cancelled
      BY <1>6 DEF Wants
    <3>2. QED
      BY <1>1, <1>6, <2>1, <2>3, <3>1, Zenon DEF SpawnStarted
  <2>5. QED
    BY <2>2, <2>4
<1>7. CASE r \in cancelled /\ r \notin pending
  <2>1. /\ cancelled' = cancelled \ {r} /\ UNCHANGED <<slot, pending>> /\ StopLate(r)
    BY <1>1, <1>7 DEF SpawnStarted
  <2>2. PICK s \in Slots : s = launch[r].slot
    BY <1>7, Logged DEF TypeOK
  <2>3. r \in DOMAIN launch /\ r # 0
    BY <1>7, Logged DEF TypeOK
  <2>4. /\ stops \subseteq stops'
        /\ \E x \in stops' : x.slot = s
    <3>1. CASE \E x \in stops : x.id = r
      <4>1. PICK x \in stops : x.id = r
        BY <3>1
      <4>2. x.slot = s
        BY <2>2, <4>1 DEF Kept, StopsOwned
      <4>3. stops' = stops
        BY <2>1, <3>1 DEF StopLate, Terminate
      <4>4. QED
        BY <4>1, <4>2, <4>3
    <3>2. CASE ~\E x \in stops : x.id = r
      <4>1. PICK y : y = [id |-> r, kind |-> "stale", slot |-> s]
        OBVIOUS
      <4>2. stops' = stops \cup {y} /\ y.slot = s
        BY <2>1, <2>2, <2>3, <3>2, <4>1 DEF StopLate, Terminate
      <4>3. QED
        BY <4>2
    <3>3. QED
      BY <3>1, <3>2
  <2>5. Stopping(s)'
    BY <2>4 DEF Stopping
  <2>6. DueIsAwaited(s)'
    BY <2>5 DEF DueIsAwaited
  <2>7. \A t \in Slots \ {s} : Stopping(t) => Stopping(t)'
    BY <1>2, <2>1, <2>2, <2>4 DEF Stopping
  <2>8. LogGrows
    BY <1>2 DEF LogGrows
  <2>9. SameLaunch(s)
    BY <1>2, <1>3, <2>1 DEF SameLaunch
  <2>10. QED
    BY <1>2, <1>3, <1>4, <2>1, <2>6, <2>7, <2>8, <2>9, AnsweredPursued
<1>8. QED
  BY <1>1, <1>6, <1>7 DEF SpawnStarted

LEMMA SpawnFailedPursued ==
  ASSUME ConstantsAssumption, TypeOK, TypeOK', Indexed, Indexed', Kept, Pursued,
         SpawnFailed
  PROVE  Pursued'
<1>1. PICK r : r = Subject
  OBVIOUS
<1>2. /\ UNCHANGED <<panes, overlay, launch, stops, ustops, evts, unconfirmed>>
      /\ work # <<>> /\ Head(work).op = "failed"
  BY DEF SpawnFailed, Applying
<1>3. running' = running
  BY DEF SpawnFailed
<1>4. r \in pending => IsCurrent(r)
  BY DEF Pursued, AllCurrent
<1>5. PICK s : s = launch[r].slot
  OBVIOUS
<1>6. \/ /\ r \in pending /\ Do(<<>>)
         /\ slot' = [ClearIndex(slot, r) EXCEPT ![s] = [@ EXCEPT
                       !.st = "failed", !.pid = 0, !.ureq = 0, !.token = 0]]
         /\ pending' = pending \ {r} /\ cancelled' = cancelled
      \/ /\ r \in cancelled /\ cancelled' = cancelled \ {r} /\ Do(Retry(s))
         /\ slot' = slot /\ pending' = pending
  BY <1>1, <1>4, <1>5, Zenon DEF SpawnFailed
<1>7. CASE /\ r \in pending /\ Do(<<>>)
           /\ slot' = [ClearIndex(slot, r) EXCEPT ![s] = [@ EXCEPT
                         !.st = "failed", !.pid = 0, !.ureq = 0, !.token = 0]]
           /\ pending' = pending \ {r} /\ cancelled' = cancelled
  <2>1. NoDoubt' /\ \A t : OnAgenda(t) => OnAgenda(t)'
    BY <1>2, <1>7, AgendaPopped DEF Pursued
  <2>2. QED
    BY <1>2, <1>3, <1>5, <1>7, <2>1, DecidedPursued
<1>8. CASE /\ r \in cancelled /\ cancelled' = cancelled \ {r} /\ Do(Retry(s))
           /\ slot' = slot /\ pending' = pending
  <2>1. s \in Slots
    BY <1>5, <1>8, Logged DEF TypeOK
  <2>2. NoDoubt' /\ OnAgenda(s)' /\ \A t : OnAgenda(t) => OnAgenda(t)'
    BY <1>2, <1>8, <2>1, RetriedAgenda DEF Pursued
  <2>3. DueIsAwaited(s)'
    BY <2>2 DEF DueIsAwaited
  <2>4. \A t \in Slots \ {s} : Stopping(t) => Stopping(t)'
    BY <1>2, <1>5, <1>8 DEF Stopping
  <2>5. LogGrows /\ SameLaunch(s)
    BY <1>2, <1>3, <1>8 DEF LogGrows, SameLaunch
  <2>6. QED
    BY <1>2, <1>3, <1>8, <2>1, <2>2, <2>3, <2>4, <2>5, AnsweredPursued
<1>9. QED
  BY <1>6, <1>7, <1>8

\* A stop ended: slot x.slot is retried.
LEMMA StopEndedPursued ==
  ASSUME ConstantsAssumption, TypeOK, TypeOK', Indexed, Indexed', Kept, Pursued,
         NEW x \in stops \cup ustops, NEW st, NEW token, NEW u,
         UNCHANGED <<panes, overlay, launch, pending, cancelled, evts>>,
         work # <<>>, Head(work).op # "launch", unconfirmed' \subseteq unconfirmed,
         running' = running,
         \/ stops' = stops \ {x} /\ ustops' = ustops
         \/ ustops' = ustops \ {x} /\ stops' = stops,
         Do(Retry(x.slot)),
         \/ slot' = slot
         \/ slot' = [slot EXCEPT ![x.slot] = [slot[x.slot] EXCEPT
                       !.st = st, !.pid = 0, !.token = token, !.ureq = u]]
         \/ slot' = [slot EXCEPT ![x.slot] = [slot[x.slot] EXCEPT
                       !.st = st, !.pid = 0, !.token = token]]
  PROVE  Pursued'
<1>1. PICK s \in Slots : s = x.slot
  BY DEF TypeOK, Stop
<1>2. slot[s].idx = 0
  BY <1>1 DEF Stopping, Kept, StartsKnown, StoppingIsIdle
<1>3. /\ slot'[s].idx = 0 /\ slot'[s].want = slot[s].want /\ slot'[s].rev = slot[s].rev
      /\ \A t \in Slots \ {s} : slot'[t] = slot[t]
  <2>1. PICK g \in SlotRecord : g = slot[s]
    BY DEF TypeOK
  <2>2. \/ slot' = slot
        \/ slot' = [slot EXCEPT ![s] = [g EXCEPT
                      !.st = st, !.pid = 0, !.token = token, !.ureq = u]]
        \/ slot' = [slot EXCEPT ![s] = [g EXCEPT !.st = st, !.pid = 0, !.token = token]]
    BY <1>1, <2>1
  <2>3. \A t \in Slots \ {s} : slot'[t] = slot[t]
    BY <2>2 DEF TypeOK
  <2>4. \/ slot'[s] = g
        \/ slot'[s] = [g EXCEPT !.st = st, !.pid = 0, !.token = token, !.ureq = u]
        \/ slot'[s] = [g EXCEPT !.st = st, !.pid = 0, !.token = token]
    BY <2>1, <2>2 DEF TypeOK
  <2>5. slot'[s].idx = g.idx /\ slot'[s].want = g.want /\ slot'[s].rev = g.rev
    BY <2>1, <2>4 DEF SlotRecord
  <2>6. QED
    BY <1>2, <2>1, <2>3, <2>5
<1>4. NoDoubt' /\ OnAgenda(s)' /\ \A t : OnAgenda(t) => OnAgenda(t)'
  BY <1>1, RetriedAgenda DEF Pursued
<1>5. DueIsAwaited(s)'
  BY <1>4 DEF DueIsAwaited
<1>6. \A t \in Slots \ {s} : Stopping(t) => Stopping(t)'
  BY <1>1 DEF Stopping
<1>7. LogGrows
  BY SMTT(60) DEF LogGrows
<1>8. QED
  BY <1>3, <1>4, <1>5, <1>6, <1>7, AnsweredPursued

LEMMA TerminatedPursued ==
  ASSUME ConstantsAssumption, TypeOK, TypeOK', Indexed, Indexed', Kept, Pursued,
         Terminated
  PROVE  Pursued'
<1>1. /\ UNCHANGED <<panes, overlay, launch, pending, cancelled, ustops, evts>>
      /\ work # <<>> /\ Head(work).op = "terminated" /\ unconfirmed' = unconfirmed
  BY DEF Terminated, Applying
<1>2. running' = running
  BY DEF Terminated
<1>3. PICK x \in stops :
        /\ stops' = stops \ {x} /\ Do(Retry(x.slot))
        /\ \/ slot' = [slot EXCEPT ![x.slot] = [@ EXCEPT !.st = "failed",
                                                  !.pid = 0, !.token = 0]]
           \/ slot' = [slot EXCEPT ![x.slot] = [@ EXCEPT !.st = Rest(x.slot),
                                                  !.pid = 0, !.token = 0]]
           \/ slot' = slot
  BY Zenon DEF Terminated
<1>4. PICK st :
        \/ slot' = [slot EXCEPT ![x.slot] = [slot[x.slot] EXCEPT
                      !.st = st, !.pid = 0, !.token = 0]]
        \/ slot' = slot
  BY <1>3, ZenonT(60)
<1>5. QED
  BY <1>1, <1>2, <1>3, <1>4, StopEndedPursued

LEMMA TerminatedUnconfirmedPursued ==
  ASSUME ConstantsAssumption, TypeOK, TypeOK', Indexed, Indexed', Kept, Pursued,
         TerminatedUnconfirmed
  PROVE  Pursued'
<1>1. /\ UNCHANGED <<panes, overlay, launch, pending, cancelled, stops, evts>>
      /\ work # <<>> /\ Head(work).op = "terminatedUnconfirmed"
      /\ unconfirmed' \subseteq unconfirmed
  BY DEF TerminatedUnconfirmed, Applying
<1>2. running' = running
  BY DEF TerminatedUnconfirmed
<1>3. PICK x \in ustops :
        /\ ustops' = ustops \ {x} /\ Do(Retry(x.slot))
        /\ \/ slot' = [slot EXCEPT ![x.slot] = [@ EXCEPT !.st = Rest(x.slot),
                !.pid = 0, !.token = 0,
                !.ureq = IF x.slot \in Panes \/ slot[x.slot].ureq = x.id
                         THEN 0 ELSE slot[x.slot].ureq]]
           \/ slot' = slot
  BY Zenon DEF TerminatedUnconfirmed
<1>4. PICK st : st = Rest(x.slot)
  OBVIOUS
<1>5. PICK u : u = IF x.slot \in Panes \/ slot[x.slot].ureq = x.id
                   THEN 0 ELSE slot[x.slot].ureq
  OBVIOUS
<1>6. \/ slot' = [slot EXCEPT ![x.slot] = [slot[x.slot] EXCEPT
                     !.st = st, !.pid = 0, !.token = 0, !.ureq = u]]
      \/ slot' = slot
  BY <1>3, <1>4, <1>5, Zenon
<1>7. x \in stops \cup ustops /\ ustops' = ustops \ {x} /\ Do(Retry(x.slot))
  BY <1>3
<1>8. QED
  BY <1>1, <1>2, <1>6, <1>7, StopEndedPursued

-----------------------------------------------------------------------------
(* The launches                                                             *)

LEMMA NewLaunchPursued ==
  ASSUME ConstantsAssumption, TypeOK, TypeOK', Indexed, Pursued, NEW s \in Slots,
         work # <<>>, Head(work) = Launch(s), MayLaunch(s),
         Spawn(s, slot, Tail(work)), UNCHANGED <<panes, overlay>>, running' = running
  PROVE  Pursued'
<1>1. PICK r : r = Len(launch) + 1
  OBVIOUS
<1>2. slot[s].idx = 0
  BY HeadOfAgenda DEF MayLaunch, Slots, Indexed, OneShellLaunch, ShellLaunchIsNext
<1>3. /\ LaunchIndexExact' /\ \A t \in Slots \ {s} : slot'[t] = slot[t]
      /\ \A q \in DOMAIN launch : launch'[q] = launch[q]
  BY <1>2, IndexLaunched DEF TypeOK, Indexed
<1>4. PICK g \in SlotRecord : g = slot[s]
  BY DEF TypeOK
<1>5. /\ slot'[s].idx = r /\ slot'[s].want = g.want /\ slot'[s].rev = g.rev
      /\ s \in Panes => slot'[s].token = r
  <2>1. PICK token : token = IF s \in Panes THEN r ELSE slot[s].token
    OBVIOUS
  <2>2. slot' = [slot EXCEPT ![s] = [slot[s] EXCEPT !.idx = r, !.token = token]]
    BY <1>1, <2>1, Zenon DEF Spawn
  <2>3. slot'[s] = [g EXCEPT !.idx = r, !.token = token]
    BY <1>4, <2>2 DEF TypeOK
  <2>4. QED
    BY <1>4, <2>1, <2>3 DEF SlotRecord
<1>6. /\ r \in Nat \ {0} /\ r \notin DOMAIN launch /\ DOMAIN launch = 1..Len(launch)
      /\ launch'[r] = [slot |-> s, spec |-> g.want, rev |-> g.rev]
      /\ DOMAIN launch \subseteq DOMAIN launch'
  <2>1. PICK entry : entry = [slot |-> s, spec |-> g.want, rev |-> g.rev]
    OBVIOUS
  <2>2. launch' = Append(launch, entry)
    BY <1>4, <2>1 DEF Spawn
  <2>3. launch \in Seq(Launched \cup {entry}) /\ entry \in Launched \cup {entry}
    BY LaunchedType, SeqMonotonic DEF TypeOK
  <2>4. /\ Len(launch) \in Nat /\ DOMAIN launch = 1..Len(launch)
        /\ launch'[r] = entry /\ DOMAIN launch' = 1..(Len(launch) + 1)
    BY <1>1, <2>2, <2>3, LenProperties, AppendProperties
  <2>5. QED
    BY <1>1, <2>1, <2>4
<1>7. /\ UNCHANGED <<cancelled, stops, ustops, evts, unconfirmed>> /\ Do(<<Poll>>)
      /\ pending' = pending \cup {r}
  BY <1>1 DEF Spawn, Do
<1>8. LogGrows
  BY <1>3, <1>6, <1>7 DEF LogGrows, TypeOK
<1>9. NoDoubt' /\ \A t \in Slots \ {s} : OnAgenda(t) => OnAgenda(t)'
  <2>1. PICK items : items = <<Poll>>
    OBVIOUS
  <2>2. /\ items \in Seq(WorkRecord) /\ Do(items)
        /\ \A i \in DOMAIN items : items[i].op # "unconfirmed"
    BY <1>7, <2>1, PollItem DEF Poll, Todo
  <2>3. /\ NoDoubt'
        /\ \A t : OnAgenda(t) /\ Head(work) # Launch(t) => OnAgenda(t)'
    BY <1>7, <2>2, AgendaReplaced DEF Pursued
  <2>4. \A t : Launch(t).slot = t
    BY DEF Launch, Todo
  <2>5. QED
    BY <2>3, <2>4
<1>10. AllCurrent'
  <2> SUFFICES ASSUME NEW q \in pending' PROVE IsCurrent(q)'
    BY DEF AllCurrent
  <2>1. CASE q = r
    <3>1. launch'[q].slot = s /\ launch'[q].spec = g.want /\ launch'[q].rev = g.rev
      BY <1>6, <2>1
    <3>2. /\ s = Main => running'
          /\ s \in Panes => s \in panes'
      BY DEF MayLaunch
    <3>3. QED
      BY <1>5, <2>1, <3>1, <3>2 DEF IsCurrent
  <2>2. CASE q # r
    <3>1. q \in pending /\ q \in DOMAIN launch
      BY <1>7, <2>2 DEF TypeOK
    <3>2. PICK t \in Slots : t = launch[q].slot
      BY <3>1, Logged DEF TypeOK
    <3>3. IsCurrent(q) /\ slot[t].idx = q /\ q # 0
      BY <1>6, <3>1, <3>2 DEF Pursued, AllCurrent, IsCurrent
    <3>4. slot'[t] = slot[t] /\ launch'[q] = launch[q]
      BY <1>2, <1>3, <3>1, <3>2, <3>3
    <3>5. QED
      BY <3>2, <3>3, <3>4 DEF IsCurrent
  <2>3. QED
    BY <2>1, <2>2
<1>11. WantsFixed'
  BY <1>3, <1>4, <1>5 DEF Pursued, WantsFixed, Slots
<1>12. ASSUME NEW t \in Slots PROVE DueIsAwaited(t)'
  <2>1. CASE t = s
    BY <1>5, <1>6, <2>1 DEF DueIsAwaited
  <2>2. CASE t # s
    <3>1. Stopping(t) => Stopping(t)'
      BY <1>7, <1>8, StoppingStays
    <3>2. Due(t)' => Due(t)
      BY <1>3, <2>2 DEF Due
    <3>3. QED
      BY <1>3, <1>9, <2>2, <3>1, <3>2, StillAwaited DEF Pursued
  <2>3. QED
    BY <2>1, <2>2
<1>13. QED
  BY <1>9, <1>10, <1>11, <1>12 DEF Pursued

\* A slot due for a launch that nothing delays may launch.
LEMMA DueMayLaunch ==
  ASSUME ConstantsAssumption, TypeOK, Pursued, NEW s \in Slots, Due(s),
         slot[s].idx = 0, ~Stopping(s), s = Main => slot[s].want # None
  PROVE  MayLaunch(s)
<1>1. "waiting" \notin Live /\ "absent" \notin Live
  BY DEF Live
<1>2. s = Shell => slot[s].want # None
  BY DEF Pursued, WantsFixed
<1>3. s \in {Main, Shell} \cup Panes
  BY DEF Slots
<1>4. QED
  BY <1>1, <1>2, <1>3 DEF Due, MayLaunch, ConstantsAssumption, Main, Shell

LEMMA LaunchSlotPursued ==
  ASSUME ConstantsAssumption, TypeOK, TypeOK', Indexed, Indexed', Pursued, LaunchSlot
  PROVE  Pursued'
<1>1. UNCHANGED <<panes, overlay>> /\ work # <<>> /\ Head(work).op = "launch"
  BY DEF LaunchSlot, Applying
<1>2. running' = running
  BY DEF LaunchSlot
<1>3. PICK s \in Slots : s = Head(work).slot /\ Head(work) = Launch(s)
  BY <1>1, HeadOfAgenda
<1>4. CASE MayLaunch(s) /\ Spawn(s, slot, Tail(work))
  BY <1>1, <1>2, <1>3, <1>4, NewLaunchPursued
<1>5. CASE ~(MayLaunch(s) /\ Spawn(s, slot, Tail(work)))
  <2>1. /\ UNCHANGED <<launch, pending, unconfirmed, cancelled, stops, ustops, evts>>
        /\ ~MayLaunch(s) /\ Do(<<>>)
    BY <1>3, <1>5 DEF LaunchSlot, tables
  <2>2. \/ slot' = slot /\ (s = Main /\ running => slot[s].want # None)
        \/ /\ s = Main
           /\ running => slot[s].want = None
           /\ slot' = [slot EXCEPT ![s] = [@ EXCEPT !.st = Rest(s), !.pid = 0]]
    BY <1>3, <2>1, Zenon DEF LaunchSlot
  <2>3. PICK g \in SlotRecord : g = slot[s]
    BY DEF TypeOK
  <2>4. PICK st : st = Rest(s)
    OBVIOUS
  <2>5. /\ slot'[s] = g \/ slot'[s] = [g EXCEPT !.st = st, !.pid = 0]
        /\ \A t \in Slots \ {s} : slot'[t] = slot[t]
    BY <2>2, <2>3, <2>4 DEF TypeOK
  <2>6. /\ slot'[s].idx = g.idx /\ slot'[s].want = g.want /\ slot'[s].rev = g.rev
        /\ slot'[s].token = g.token
    BY <2>3, <2>5 DEF SlotRecord
  <2>7. SameLaunch(s) /\ LogGrows /\ \A t : Stopping(t) => Stopping(t)'
    BY <1>1, <1>2, <2>1, <2>3, <2>6 DEF SameLaunch, LogGrows, Stopping
  <2>8. NoDoubt' /\ \A t \in Slots \ {s} : OnAgenda(t) => OnAgenda(t)'
    <3>1. /\ NoDoubt'
          /\ \A t : OnAgenda(t) /\ Head(work) # Launch(t) => OnAgenda(t)'
      BY <1>1, <2>1, AgendaPopped DEF Pursued
    <3>2. \A t : Launch(t).slot = t
      BY DEF Launch, Todo
    <3>3. QED
      BY <1>3, <3>1, <3>2
  <2>9. ASSUME Due(s)' PROVE Due(s) /\ (s = Main => slot[s].want # None)
    <3>1. CASE slot' = slot /\ (s = Main /\ running => slot[s].want # None)
      BY <1>1, <1>2, <2>9, <3>1 DEF Due
    <3>2. CASE /\ s = Main
               /\ running => slot[s].want = None
               /\ slot' = [slot EXCEPT ![s] = [@ EXCEPT !.st = Rest(s), !.pid = 0]]
      <4>1. slot'[s].st = Rest(s)
        BY <2>3, <3>2 DEF TypeOK, SlotRecord
      <4>2. QED
        BY <1>2, <2>9, <3>2, <4>1 DEF Due, Rest
    <3>3. QED
      BY <2>2, <3>1, <3>2
  <2>10. DueIsAwaited(s)'
    <3> SUFFICES ASSUME Due(s)' PROVE slot[s].idx # 0 \/ Stopping(s)
      BY <2>3, <2>6, <2>7 DEF DueIsAwaited
    <3>1. QED
      BY <2>1, <2>9, DueMayLaunch
  <2>11. QED
    BY <1>1, <1>2, <2>1, <2>3, <2>5, <2>6, <2>7, <2>8, <2>10, AnsweredPursued
<1>6. QED
  BY <1>4, <1>5

-----------------------------------------------------------------------------
(* The theorem                                                              *)

LEMMA InitPursued ==
  ASSUME ConstantsAssumption, Init
  PROVE  Pursued
<1>1. /\ panes = {} /\ overlay = None /\ running = FALSE /\ evts = <<>> /\ work = <<>>
      /\ pending = {} /\ unconfirmed = {}
  BY DEF Init
<1>2. DOMAIN evts = {} /\ DOMAIN work = {}
  BY <1>1, EmptySeq
<1>3. NoDoubt /\ AllCurrent
  BY <1>1, <1>2 DEF NoDoubt, AllCurrent
<1>4. /\ \A s \in Slots : slot[s].rev = 0
      /\ \A p \in Panes : slot[p].want = None
      /\ slot[Shell].want \in Specs
  BY DEF Init, Vacant, Slots, ConstantsAssumption
<1>5. WantsFixed
  BY <1>4 DEF WantsFixed, ConstantsAssumption
<1>6. ASSUME NEW s \in Slots PROVE DueIsAwaited(s)
  BY <1>1 DEF DueIsAwaited, Due, Slots, ConstantsAssumption
<1>7. QED
  BY <1>3, <1>5, <1>6 DEF Pursued

LEMMA NextPursued ==
  ASSUME ConstantsAssumption, Assured, TypeOK, TypeOK', Indexed, Indexed', Kept, Wants,
         Pursued, [Next]_vars
  PROVE  Pursued'
<1>1. /\ OwnWindows /\ "unconfirmed" \notin Outcomes /\ "update" \notin Requests
      /\ MaxRevision = 0
  BY DEF Assured
<1>2. CASE Step
  <2>1. ~SpawnUnconfirmed
    <3>1. work # <<>> => Head(work).op # "unconfirmed"
      BY HeadOfAgenda DEF Pursued, NoDoubt
    <3>2. QED
      BY <3>1 DEF SpawnUnconfirmed, Applying
  <2>2. QED
    BY <1>2, <2>1, SpawnStartedPursued, SpawnFailedPursued, ExitsPursued,
       TerminatedPursued, TerminatedUnconfirmedPursued, PollProcessesPursued,
       LaunchSlotPursued, RemoveReleasedPanePursued, DropPanePursued DEF Step
<1>3. CASE RequestStep
  <2>1. CASE ResetRuntime \/ \E i \in Specs : SelectMainApp(i)
    BY <2>1, MainRequestsPursued
  <2>2. CASE RuntimeRunning \/ OpenShell \/ \E p \in Panes : LaunchNativePaneHost(p)
    BY <2>2, OpenShellPursued
  <2>3. CASE DismissShell
    BY <2>3, DismissShellPursued
  <2>4. CASE \E p \in Panes, spec \in Specs, rev \in 0..MaxRevision :
               NativePaneHost(p, spec, rev)
    BY <1>1, <2>4, HostPursued
  <2>5. ASSUME NEW p \in Panes, NEW spec \in Specs
        PROVE  /\ ~SwitchToExternal(p, spec)
               /\ \A rev \in 0..MaxRevision : ~NativePaneUpdate(p, spec, rev)
    BY <1>1 DEF SwitchToExternal, NativePaneUpdate, Request, OwnWindows
  <2>6. CASE \E p \in Panes : NativePaneRelease(p) \/ SwitchToSurfAce(p)
    BY <2>6, ToSurfAcePursued
  <2>7. CASE \E incoming \in SUBSET Panes : ApplyProviderSnapshot(incoming)
    BY <2>7, SnapshotPursued
  <2>8. CASE \E r \in DOMAIN app : RecoverOverlay(r)
    BY <2>8, RecoverOverlayPursued
  <2>9. QED
    BY <1>3, <2>1, <2>2, <2>3, <2>4, <2>5, <2>6, <2>7, <2>8 DEF RequestStep
<1>4. CASE PollRequest
  BY <1>4, OpenShellPursued
<1>5. CASE Window
  BY <1>5, WindowPursued DEF Window
<1>6. CASE Worker \/ (\E r \in DOMAIN app : AppExits(r)) \/ UNCHANGED vars
  BY <1>1, <1>6, ElsewherePursued
<1>7. QED
  BY <1>2, <1>3, <1>4, <1>5, <1>6 DEF Next

LEMMA PursuedIsLaunched ==
  ASSUME ConstantsAssumption, TypeOK, Pursued
  PROVE  WantedIsLaunched
<1> SUFFICES ASSUME work = <<>> PROVE WantedIsLaunched
  BY DEF WantedIsLaunched, HostedPaneIsLaunched, DeferredLaunchHappens
<1>1. ASSUME NEW s \in Slots, slot[s].idx = 0, ~Stopping(s) PROVE ~Due(s)
  BY <1>1, EmptyAgenda DEF Pursued, DueIsAwaited
<1>2. /\ Main \in Slots /\ Main \notin Panes /\ Main # Shell
      /\ Shell \in Slots /\ Shell \notin Panes /\ panes \subseteq Panes
      /\ \A p \in Panes : p \in Slots /\ p # Main /\ p # Shell
  BY DEF Slots, Main, Shell, ConstantsAssumption, TypeOK
<1>3. HostedPaneIsLaunched
  BY <1>1, <1>2 DEF HostedPaneIsLaunched, Due
<1>4. DeferredLaunchHappens
  BY <1>1, <1>2 DEF DeferredLaunchHappens, Due
<1>5. QED
  BY <1>3, <1>4 DEF WantedIsLaunched

(* What is wanted is launched: a main app of a runtime that runs, the shell *)
(* with its overlay role, a pane with a host plan are never left without a  *)
(* program once the holder of the mutex is done and no launch and no stop   *)
(* of the slot is in flight: every stop that ends retries the slot          *)
(* (retry_after_failed_process_termination, retry_after_cancelled_launch    *)
(* and the successes).  A start that stays unconfirmed, a plan that comes   *)
(* without a launch (native_pane.update) and a failed start outdated by a   *)
(* later revision are not retried by the code, so they are left out.        *)
THEOREM WantedIsLaunchedSafe == Assured /\ Spec => []WantedIsLaunched
<1> DEFINE LInv == IndexInv /\ Kept /\ Wants /\ Pursued
<1>1. Assured /\ Init => LInv
  BY ConstantsAssumption, InitType, InitIndexed, InitKept, InitWants, InitPursued
     DEF IndexInv, Indexed
<1>2. Assured /\ LInv /\ [Next]_vars => LInv'
  <2> SUFFICES ASSUME Assured, IndexInv, Kept, Wants, Pursued, [Next]_vars
               PROVE  IndexInv' /\ Kept' /\ Wants' /\ Pursued'
    OBVIOUS
  <2>1. TypeOK' /\ Indexed' /\ TypeOK /\ Indexed /\ OwnWindows
    BY ConstantsAssumption, NextType, NextIndexed DEF IndexInv, Indexed, Assured
  <2>2. Kept' /\ Wants' /\ Pursued'
    BY ConstantsAssumption, <2>1, NextKept, NextWants, NextPursued
  <2>3. QED
    BY <2>1, <2>2 DEF IndexInv, Indexed
<1>3. LInv => WantedIsLaunched
  BY ConstantsAssumption, PursuedIsLaunched DEF IndexInv
<1>4. Assured = TRUE \/ Assured = FALSE
  BY DEF Assured
<1> HIDE DEF LInv
<1>5. CASE Assured
  <2>1. Init => LInv
    BY <1>1, <1>5
  <2>2. LInv /\ [Next]_vars => LInv'
    BY <1>2, <1>5
  <2>3. QED
    BY <1>3, <2>1, <2>2, PTL DEF Spec
<1>6. QED
  BY <1>5

=============================================================================
