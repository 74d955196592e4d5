-------------------------- MODULE LaunchExits_proofs --------------------------
(***************************************************************************)
(* Proofs about the exits LaunchLifecycle tells, for any panes, programs   *)
(* and number of requests: an exit that is applied before the start it     *)
(* ends would be lost, and the slot would show a dead program for ever.    *)
(*                                                                         *)
(* A poll that is made while older events still wait is the one thing that *)
(* changes their order, and a launch is what makes it.  As long as only    *)
(* one slot was ever launched, no start can wait at that moment: its own   *)
(* launch would be in flight, or the stop of a cancelled one.              *)
(***************************************************************************)
EXTENDS LaunchLifecycle_proofs

\* Does event e answer a launch?
Answering(e) == e.op \in {"started", "unconfirmed", "failed"}

\* An answer is given once, to a launch that waits for it.
AnswerDue(e) == Answering(e) => e.id \in Unanswered /\ Begun(e.id)

Awaits == \A r \in DOMAIN app : app[r] = "queued" => r \in Unanswered

AnswersDue == /\ \A i \in DOMAIN work : AnswerDue(work[i])
              /\ \A i \in DOMAIN evts : AnswerDue(evts[i])

AnsweredOnce ==
  /\ \A i, j \in DOMAIN work :
       Answering(work[i]) /\ Answering(work[j]) /\ work[i].id = work[j].id => i = j
  /\ \A i, j \in DOMAIN evts :
       Answering(evts[i]) /\ Answering(evts[j]) /\ evts[i].id = evts[j].id => i = j
  /\ \A i \in DOMAIN work, j \in DOMAIN evts :
       Answering(work[i]) /\ Answering(evts[j]) => work[i].id # evts[j].id

\* Is the exit of r among the elements of q after the i-th?
ExitAfter(q, i, r) == \E j \in DOMAIN q : j > i /\ q[j].op = "exited" /\ q[j].id = r

\* A started program is managed, or its exit comes after its start.
StartsBeforeExits ==
  /\ \A i \in DOMAIN evts : evts[i].op = "started" =>
       app[evts[i].id] = "tracked" \/ ExitAfter(evts, i, evts[i].id)
  /\ \A i \in DOMAIN work : work[i].op = "started" =>
       \/ app[work[i].id] = "tracked"
       \/ ExitAfter(work, i, work[i].id) \/ ExitAfter(evts, 0, work[i].id)

\* No start waits for the events of a poll to be applied.
PollsAreLast ==
  \A i, j \in DOMAIN work : i < j /\ work[i].op = "poll" => work[j].op # "started"

\* What slot s shows is managed, told to have ended, or being stopped.
Shows(s) == LET r == RunningPid(s) IN
  r # 0 => app[r] = "tracked" \/ Undelivered("exited", r) \/ \E x \in stops : x.id = r

InOrder == StartsBeforeExits /\ PollsAreLast /\ \A s \in Slots : Shows(s)

\* The inductive invariant of the exits
ExitInv == Awaits /\ AnswersDue /\ AnsweredOnce /\ (OneSlot => InOrder)

\* With nothing left to apply only the first and the last are possible.
LEMMA ExitsAreSeen ==
  ASSUME TypeOK, Kept, ExitInv, OneSlot
  PROVE  NoDeadProcessShown
<1> SUFFICES ASSUME work = <<>>, evts = <<>>, NEW s \in Slots, RunningPid(s) > 0
             PROVE  \/ app[RunningPid(s)] = "tracked"
                    \/ \E x \in stops : x.id = RunningPid(s)
  BY DEF NoDeadProcessShown
<1>1. ~Undelivered("exited", RunningPid(s))
  BY DEF Undelivered
<1>2. RunningPid(s) # 0 /\ Shows(s)
  <2>1. RunningPid(s) \in Int
    BY RunningPidType
  <2>2. QED
    BY <2>1 DEF ExitInv, InOrder
<1>3. QED
  BY <1>1, <1>2 DEF Shows

\* The event that is applied next is the first of the agenda.
LEMMA AgendaShift ==
  ASSUME TypeOK, work # <<>>, NEW items \in Seq(WorkRecord), Do(items)
  PROVE  /\ Head(work) = work[1] /\ 1 \in DOMAIN work
         /\ Len(items) \in Nat /\ DOMAIN work \subseteq Nat \ {0} /\ DOMAIN work' \subseteq Nat \ {0}
         /\ \A i \in DOMAIN work' :
              \/ i \in DOMAIN items /\ i <= Len(items) /\ work'[i] = items[i]
              \/ /\ i > Len(items) /\ i - Len(items) + 1 \in DOMAIN work
                 /\ i - Len(items) + 1 > 1
                 /\ work'[i] = work[i - Len(items) + 1]
         /\ \A j \in DOMAIN work : j > 1 =>
              /\ j - 1 + Len(items) \in DOMAIN work'
              /\ work'[j - 1 + Len(items)] = work[j]
<1> DEFINE rest == Tail(work)
<1>1. /\ rest \in Seq(WorkRecord) /\ Len(rest) = Len(work) - 1
      /\ \A i \in 1..Len(rest) : rest[i] = work[i + 1]
      /\ DOMAIN work = 1..Len(work) /\ Len(work) \in Nat \ {0}
      /\ DOMAIN items = 1..Len(items) /\ Len(items) \in Nat /\ Head(work) = work[1]
  BY EmptySeq, HeadTailProperties, LenProperties DEF TypeOK
<1>2. work' = items \o rest
  BY DEF Do
<1> HIDE DEF rest
<1>3. /\ work' \in Seq(WorkRecord)
      /\ Len(work') = Len(items) + Len(rest)
      /\ \A i \in 1..(Len(items) + Len(rest)) :
           work'[i] = IF i <= Len(items) THEN items[i] ELSE rest[i - Len(items)]
  BY <1>1, <1>2, ConcatProperties
<1>4. DOMAIN work' = 1..(Len(items) + Len(rest))
  BY <1>3, LenProperties
<1>5. ASSUME NEW i \in DOMAIN work'
      PROVE  \/ i \in DOMAIN items /\ i <= Len(items) /\ work'[i] = items[i]
             \/ /\ i > Len(items) /\ i - Len(items) + 1 \in DOMAIN work
                /\ i - Len(items) + 1 > 1
                /\ work'[i] = work[i - Len(items) + 1]
  <2>1. CASE i <= Len(items)
    BY <1>1, <1>3, <1>4, <2>1
  <2>2. CASE ~(i <= Len(items))
    <3>1. /\ i > Len(items) /\ i - Len(items) \in 1..Len(rest)
          /\ i - Len(items) + 1 \in DOMAIN work /\ i - Len(items) + 1 > 1
      BY <1>1, <1>4, <2>2
    <3>2. work'[i] = rest[i - Len(items)]
      BY <1>3, <1>4, <2>2
    <3>3. QED
      BY <1>1, <3>1, <3>2
  <2>3. QED
    BY <2>1, <2>2
<1>6. ASSUME NEW j \in DOMAIN work, j > 1
      PROVE  /\ j - 1 + Len(items) \in DOMAIN work'
             /\ work'[j - 1 + Len(items)] = work[j]
  <2>1. /\ j - 1 \in 1..Len(rest) /\ (j - 1) + 1 = j
        /\ j - 1 + Len(items) \in 1..(Len(items) + Len(rest))
        /\ ~(j - 1 + Len(items) <= Len(items)) /\ (j - 1 + Len(items)) - Len(items) = j - 1
    BY <1>1, <1>6
  <2>2. work'[j - 1 + Len(items)] = rest[j - 1]
    BY <1>3, <2>1
  <2>3. rest[j - 1] = work[j]
    BY <1>1, <2>1
  <2>4. QED
    BY <1>4, <2>1, <2>2, <2>3
<1>7. QED
  BY <1>1, <1>4, <1>5, <1>6

-----------------------------------------------------------------------------
(* A step of the mutex holder                                               *)

\* What was still to be answered is, or its answer was applied.
LEMMA HolderAnswers ==
  ASSUME TypeOK, TypeOK', ExitInv, Grows, work # <<>>, UNCHANGED evts,
         NEW items \in Seq(WorkRecord), Do(items),
         \A i \in DOMAIN items : ~Answering(items[i]),
         \A r \in Unanswered :
           r \in Unanswered' \/ (Answering(Head(work)) /\ r = Subject),
         \A r \in DOMAIN launch' : r \in DOMAIN launch \/ r \in Unanswered'
  PROVE  Awaits' /\ AnswersDue' /\ AnsweredOnce'
<1>1. /\ Head(work) = work[1] /\ 1 \in DOMAIN work
      /\ Len(items) \in Nat /\ DOMAIN work \subseteq Nat \ {0} /\ DOMAIN work' \subseteq Nat \ {0}
      /\ \A i \in DOMAIN work' :
           \/ i \in DOMAIN items /\ i <= Len(items) /\ work'[i] = items[i]
           \/ /\ i > Len(items) /\ i - Len(items) + 1 \in DOMAIN work
              /\ i - Len(items) + 1 > 1
              /\ work'[i] = work[i - Len(items) + 1]
  BY AgendaShift
<1>2. /\ Awaits /\ AnswersDue /\ AnsweredOnce
      /\ \A p : Begun(p) => Begun(p)'
      /\ DOMAIN app = DOMAIN launch /\ DOMAIN app' = DOMAIN launch'
  BY BegunGrows DEF ExitInv
<1>3. \A i \in DOMAIN work' : Answering(work'[i]) =>
        /\ i - Len(items) + 1 \in DOMAIN work /\ i - Len(items) + 1 > 1
        /\ work'[i] = work[i - Len(items) + 1]
  BY <1>1
<1>4. Awaits'
  <2> SUFFICES ASSUME NEW r \in DOMAIN app', app'[r] = "queued", r \in DOMAIN launch
               PROVE  r \in Unanswered'
    BY <1>2 DEF Awaits
  <2>1. app[r] = "queued" /\ r \in Unanswered
    BY <1>2 DEF Awaits, Grows
  <2>2. ~(Answering(Head(work)) /\ r = Subject)
    BY <1>1, <1>2, <2>1 DEF AnswersDue, AnswerDue, Begun, Subject
  <2>3. QED
    BY <2>1, <2>2
<1>5. AnswersDue'
  <2>1. ASSUME NEW i \in DOMAIN work', Answering(work'[i]), NEW r, r = work'[i].id
        PROVE  r \in Unanswered' /\ Begun(r)'
    <3>1. PICK j \in DOMAIN work : j > 1 /\ work'[i] = work[j]
      BY <1>3, <2>1
    <3>2. work[j].id \in Unanswered /\ Begun(work[j].id)
      BY <1>2, <2>1, <3>1 DEF AnswersDue, AnswerDue
    <3>3. ~(Answering(Head(work)) /\ work[j].id = Subject)
      BY <1>1, <1>2, <2>1, <3>1 DEF AnsweredOnce, Subject
    <3>4. QED
      BY <1>2, <2>1, <3>1, <3>2, <3>3
  <2>2. ASSUME NEW i \in DOMAIN evts, Answering(evts[i])
        PROVE  evts[i].id \in Unanswered' /\ Begun(evts[i].id)'
    <3>1. evts[i].id \in Unanswered /\ Begun(evts[i].id)
      BY <1>2, <2>2 DEF AnswersDue, AnswerDue
    <3>2. ~(Answering(Head(work)) /\ evts[i].id = Subject)
      BY <1>1, <1>2, <2>2 DEF AnsweredOnce, Subject
    <3>3. QED
      BY <1>2, <3>1, <3>2
  <2>3. QED
    BY <2>1, <2>2 DEF AnswersDue, AnswerDue, Answering, Begun
<1>6. AnsweredOnce'
  <2>1. ASSUME NEW i \in DOMAIN work', NEW j \in DOMAIN work',
               Answering(work'[i]), Answering(work'[j]), work'[i].id = work'[j].id
        PROVE  i = j
    <3>1. i - Len(items) + 1 = j - Len(items) + 1
      BY <1>2, <1>3, <2>1 DEF AnsweredOnce
    <3>2. i \in Nat /\ j \in Nat
      BY <1>1
    <3>3. QED
      BY <1>1, <3>1, <3>2
  <2>2. ASSUME NEW i \in DOMAIN work', NEW j \in DOMAIN evts,
               Answering(work'[i]), Answering(evts[j])
        PROVE  work'[i].id # evts[j].id
    BY <1>2, <1>3, <2>2 DEF AnsweredOnce
  <2>3. QED
    BY <1>2, <2>1, <2>2 DEF AnsweredOnce
<1>7. QED
  BY <1>4, <1>5, <1>6

\* The program of a start that waits keeps its place in the worker's table.
LEMMA StartLogged ==
  ASSUME TypeOK, Kept, NEW e, e.op = "started",
         (\E i \in DOMAIN work : work[i] = e) \/ (\E i \in DOMAIN evts : evts[i] = e)
  PROVE  e.id \in DOMAIN launch /\ e.id \in DOMAIN app
BY Logged DEF Kept, EventsTrue, EventTrue, Begun

\* The order of what waits is kept; a poll is put before it only when no
\* start is in it.
LEMMA HolderOrder ==
  ASSUME TypeOK, TypeOK', Kept, StartsBeforeExits, PollsAreLast, Grows,
         work # <<>>, UNCHANGED evts, NEW items \in Seq(WorkRecord), Do(items),
         \A i \in DOMAIN items : items[i].op # "started",
         \/ \A i \in DOMAIN items : items[i].op # "poll"
         \/ \A j \in DOMAIN work : j > 1 => work[j].op # "started"
  PROVE  StartsBeforeExits' /\ PollsAreLast'
<1>1. /\ Head(work) = work[1] /\ 1 \in DOMAIN work
      /\ Len(items) \in Nat /\ DOMAIN work \subseteq Nat \ {0} /\ DOMAIN work' \subseteq Nat \ {0}
      /\ \A i \in DOMAIN work' :
           \/ i \in DOMAIN items /\ i <= Len(items) /\ work'[i] = items[i]
           \/ /\ i > Len(items) /\ i - Len(items) + 1 \in DOMAIN work
              /\ i - Len(items) + 1 > 1
              /\ work'[i] = work[i - Len(items) + 1]
      /\ \A j \in DOMAIN work : j > 1 =>
           /\ j - 1 + Len(items) \in DOMAIN work'
           /\ work'[j - 1 + Len(items)] = work[j]
  BY AgendaShift
<1>2. \A r \in DOMAIN launch : app'[r] = app[r]
  BY DEF Grows
<1>3. ASSUME NEW i \in DOMAIN evts, evts[i].op = "started"
      PROVE  app'[evts[i].id] = "tracked" \/ ExitAfter(evts, i, evts[i].id)
  <2>1. evts[i].id \in DOMAIN launch
    BY <1>3, StartLogged
  <2>2. QED
    BY <1>2, <1>3, <2>1 DEF StartsBeforeExits
<1>4. ASSUME NEW i \in DOMAIN work', work'[i].op = "started"
      PROVE  \/ app'[work'[i].id] = "tracked"
             \/ ExitAfter(work', i, work'[i].id) \/ ExitAfter(evts, 0, work'[i].id)
  <2>1. PICK j \in DOMAIN work : j = i - Len(items) + 1 /\ j > 1 /\ work'[i] = work[j]
    BY <1>1, <1>4
  <2>2. work[j].id \in DOMAIN launch
    BY <1>4, <2>1, StartLogged
  <2>3. CASE ExitAfter(work, j, work[j].id)
    <3>1. PICK k \in DOMAIN work : k > j /\ work[k].op = "exited" /\ work[k].id = work[j].id
      BY <2>3 DEF ExitAfter
    <3>2. k > 1 /\ k - 1 + Len(items) > i
      <4>1. k \in Nat /\ j \in Nat /\ i \in Nat
        BY <1>1
      <4>2. QED
        BY <1>1, <2>1, <3>1, <4>1
    <3>3. k - 1 + Len(items) \in DOMAIN work' /\ work'[k - 1 + Len(items)] = work[k]
      BY <1>1, <3>2
    <3>4. QED
      BY <2>1, <3>1, <3>2, <3>3 DEF ExitAfter
  <2>4. QED
    BY <1>2, <1>4, <2>1, <2>2, <2>3 DEF StartsBeforeExits
<1>5. ASSUME NEW i \in DOMAIN work', NEW j \in DOMAIN work', i < j, work'[i].op = "poll"
      PROVE  work'[j].op # "started"
  <2> SUFFICES ASSUME work'[j].op = "started" PROVE FALSE
    OBVIOUS
  <2>1. PICK l \in DOMAIN work : l = j - Len(items) + 1 /\ l > 1 /\ work'[j] = work[l]
    BY <1>1
  <2>2. CASE i <= Len(items)
    BY <1>1, <1>5, <2>1, <2>2
  <2>3. CASE ~(i <= Len(items))
    <3>1. PICK k \in DOMAIN work : k = i - Len(items) + 1 /\ work'[i] = work[k]
      BY <1>1, <2>3
    <3>2. k < l
      <4>1. i \in Nat /\ j \in Nat
        BY <1>1
      <4>2. QED
        BY <1>1, <1>5, <2>1, <3>1, <4>1
    <3>3. QED
      BY <1>5, <2>1, <3>1, <3>2 DEF PollsAreLast
  <2>4. QED
    BY <2>2, <2>3
<1>6. QED
  BY <1>3, <1>4, <1>5 DEF StartsBeforeExits, PollsAreLast

\* A slot that keeps its program, and whose program's exit is not applied.
LEMMA HolderShows ==
  ASSUME TypeOK, TypeOK', Kept, Grows, work # <<>>, UNCHANGED evts,
         NEW items \in Seq(WorkRecord), Do(items), NEW s \in Slots, Shows(s),
         Head(work).op # "exited" \/ Subject # RunningPid(s),
         RunningPid(s)' \in {0, RunningPid(s)},
         RunningPid(s)' # 0 /\ (\E x \in stops : x.id = RunningPid(s))
           => \E x \in stops' : x.id = RunningPid(s)
  PROVE  Shows(s)'
<1> SUFFICES ASSUME NEW r, r = RunningPid(s), RunningPid(s)' = r, r # 0
             PROVE  \/ app'[r] = "tracked" \/ Undelivered("exited", r)'
                    \/ \E x \in stops' : x.id = r
  BY DEF Shows
<1>1. r \in DOMAIN launch /\ app'[r] = app[r]
  BY RunningLogged DEF Kept, ProgramsKnown, Grows
<1>2. CASE Undelivered("exited", r)
  <2>1. CASE \E i \in DOMAIN evts : evts[i].op = "exited" /\ evts[i].id = r
    BY <2>1 DEF Undelivered
  <2>2. CASE \E i \in DOMAIN work : work[i].op = "exited" /\ work[i].id = r
    <3>1. PICK i \in DOMAIN work : work[i].op = "exited" /\ work[i].id = r
      BY <2>2
    <3>2. /\ Head(work) = work[1]
          /\ \A j \in DOMAIN work : j > 1 =>
               /\ j - 1 + Len(items) \in DOMAIN work'
               /\ work'[j - 1 + Len(items)] = work[j]
          /\ DOMAIN work \subseteq Nat \ {0}
      BY AgendaShift
    <3>3. i # 1 /\ i > 1
      BY <3>1, <3>2 DEF Subject
    <3>4. QED
      BY <3>1, <3>2, <3>3 DEF Undelivered
  <2>3. QED
    BY <1>2, <2>1, <2>2 DEF Undelivered
<1>3. QED
  BY <1>1, <1>2 DEF Shows

\* A log that grows was of one slot before.
LEMMA OneSlotBefore ==
  ASSUME LogGrows, OneSlot'
  PROVE  OneSlot
BY DEF LogGrows, OneSlot

\* A handler that starts nothing, told in one.
LEMMA HolderExits ==
  ASSUME TypeOK, TypeOK', Kept, ExitInv, Grows, work # <<>>, UNCHANGED evts,
         NEW items \in Seq(WorkRecord), Do(items),
         \A i \in DOMAIN items : ~Answering(items[i]),
         \A r \in Unanswered :
           r \in Unanswered' \/ (Answering(Head(work)) /\ r = Subject),
         \A r \in DOMAIN launch' : r \in DOMAIN launch \/ r \in Unanswered',
         \/ \A i \in DOMAIN items : items[i].op # "poll"
         \/ OneSlot' => \A j \in DOMAIN work : j > 1 => work[j].op # "started",
         OneSlot' /\ InOrder => \A s \in Slots : Shows(s)'
  PROVE  ExitInv'
<1>1. Awaits' /\ AnswersDue' /\ AnsweredOnce'
  BY HolderAnswers
<1>2. ASSUME OneSlot' PROVE InOrder'
  <2>1. InOrder
    BY <1>2, OneSlotBefore DEF Grows, LogGrows, ExitInv
  <2>2. \A i \in DOMAIN items : items[i].op # "started"
    BY DEF Answering
  <2>3. StartsBeforeExits' /\ PollsAreLast'
    BY <1>2, <2>1, <2>2, HolderOrder DEF InOrder
  <2>4. QED
    BY <1>2, <2>1, <2>3 DEF InOrder
<1>3. QED
  BY <1>1, <1>2 DEF ExitInv

\* The same when every slot keeps its program or gives it up, and the stops
\* are kept: nothing but these two, an exit and an answer to a stop happen.
LEMMA HandlerExits ==
  ASSUME TypeOK, TypeOK', Kept, ExitInv, Grows, work # <<>>, UNCHANGED evts,
         NEW items \in Seq(WorkRecord), Do(items),
         \A i \in DOMAIN items : ~Answering(items[i]),
         \A r \in Unanswered :
           r \in Unanswered' \/ (Answering(Head(work)) /\ r = Subject),
         \A r \in DOMAIN launch' : r \in DOMAIN launch \/ r \in Unanswered',
         \/ \A i \in DOMAIN items : items[i].op # "poll"
         \/ OneSlot' => \A j \in DOMAIN work : j > 1 => work[j].op # "started",
         Head(work).op # "exited", stops \subseteq stops',
         \A s \in Slots : RunningPid(s)' \in {0, RunningPid(s)}
  PROVE  ExitInv'
<1>1. ASSUME InOrder, NEW s \in Slots PROVE Shows(s)'
  <2>1. Shows(s)
    BY <1>1 DEF InOrder
  <2>2. QED
    BY <2>1, HolderShows
<1>2. QED
  BY <1>1, HolderExits

\* The forms of what a handler leaves behind.
LEMMA ItemForms ==
  /\ <<>> \in Seq(WorkRecord) /\ DOMAIN <<>> = {}
  /\ \A s \in Slots : /\ Retry(s) \in Seq(WorkRecord)
                      /\ \A i \in DOMAIN Retry(s) : Retry(s)[i].op = "launch"
  /\ <<Poll>> \in Seq(WorkRecord) /\ \A i \in DOMAIN <<Poll>> : <<Poll>>[i].op = "poll"
<1>1. \A s \in Slots : Launch(s) \in WorkRecord /\ Launch(s).op = "launch"
  BY DEF Launch, Todo, WorkRecord, TodoRecord
<1>2. Poll \in WorkRecord /\ Poll.op = "poll"
  BY DEF Poll, Todo, WorkRecord, TodoRecord
<1>3. QED
  BY <1>1, <1>2 DEF Retry

-----------------------------------------------------------------------------
(* The answers to a launch                                                  *)

\* The program that started is shown; its exit, if there was one, comes later.
LEMMA SpawnStartedExits ==
  ASSUME ConstantsAssumption, TypeOK, TypeOK', Indexed, Kept, ExitInv, SpawnStarted
  PROVE  ExitInv'
<1> PICK r, s : r = Subject /\ s = launch[r].slot
  OBVIOUS
<1>1. /\ Applying("started") /\ Do(<<>>) /\ UNCHANGED <<evts, launch, app>>
      /\ work # <<>> /\ Head(work).op = "started"
  BY DEF SpawnStarted, Applying, children
<1>2. Grows
  BY <1>1, Unchanged
<1>3. \A q \in Unanswered : q \in Unanswered' \/ q = r
  BY DEF SpawnStarted, Unanswered
<1>4. stops \subseteq stops'
  BY DEF SpawnStarted, StopLate, Terminate
<1>5. CASE /\ r \in pending /\ IsCurrent(r)
           /\ slot' = [ClearIndex(slot, r) EXCEPT ![s] = [@ EXCEPT
                         !.st = "launching", !.pid = r, !.ureq = 0, !.token = r]]
  <2>1. s \in Slots
    BY <1>5, Cleared
  <2>2. /\ \A t \in Slots \ {s} : slot'[t] = slot[t]
        /\ slot'[s].pid = r /\ slot'[s].st = "launching"
    BY <1>5, Cleared DEF SlotRecord
  <2>3. RunningPid(s)' = r /\ \A t \in Slots \ {s} : RunningPid(t)' = RunningPid(t)
    BY <2>2 DEF RunningPid, Live
  <2>4. ASSUME InOrder, NEW t \in Slots PROVE Shows(t)'
    <3>1. CASE t # s
      <4>1. Shows(t)
        BY <2>4 DEF InOrder
      <4>2. QED
        BY <1>1, <1>2, <1>4, <2>3, <3>1, <4>1, ItemForms, HolderShows
    <3>2. CASE t = s
      <4>1. Head(work) = work[1] /\ 1 \in DOMAIN work
        BY <1>1, AgendaShift, ItemForms
      <4>2. app[r] = "tracked" \/ ExitAfter(work, 1, r) \/ ExitAfter(evts, 0, r)
        BY <1>1, <2>4, <4>1 DEF InOrder, StartsBeforeExits, Subject
      <4>3. CASE ExitAfter(work, 1, r)
        <5>1. PICK j \in DOMAIN work : j > 1 /\ work[j].op = "exited" /\ work[j].id = r
          BY <4>3 DEF ExitAfter
        <5>2. j - 1 + Len(<<>>) \in DOMAIN work' /\ work'[j - 1 + Len(<<>>)] = work[j]
          BY <1>1, <5>1, AgendaShift, ItemForms
        <5>3. Undelivered("exited", r)'
          BY <5>1, <5>2 DEF Undelivered
        <5>4. QED
          BY <2>3, <3>2, <5>3 DEF Shows
      <4>4. CASE ExitAfter(evts, 0, r)
        BY <1>1, <2>3, <3>2, <4>4 DEF Shows, ExitAfter, Undelivered
      <4>5. CASE app[r] = "tracked"
        BY <1>1, <2>3, <3>2, <4>5 DEF Shows
      <4>6. QED
        BY <4>2, <4>3, <4>4, <4>5
    <3>3. QED
      BY <3>1, <3>2
  <2>5. QED
    BY <1>1, <1>2, <1>3, <2>4, ItemForms, HolderExits DEF Answering
<1>6. CASE (r \in pending /\ slot' = ClearIndex(slot, r)) \/ slot' = slot
  <2>1. \A t \in Slots : slot'[t].pid = slot[t].pid /\ slot'[t].st = slot[t].st
    BY <1>6, Cleared, ClearedFields
  <2>2. \A t \in Slots : RunningPid(t)' = RunningPid(t)
    BY <2>1 DEF RunningPid
  <2>3. QED
    BY <1>1, <1>2, <1>3, <1>4, <2>2, ItemForms, HandlerExits DEF Answering
<1>7. QED
  BY <1>5, <1>6 DEF SpawnStarted

LEMMA NotStartedExits ==
  ASSUME ConstantsAssumption, TypeOK, TypeOK', Indexed, Kept, ExitInv,
         SpawnUnconfirmed \/ SpawnFailed
  PROVE  ExitInv'
<1> PICK r, s : r = Subject /\ s = launch[r].slot
  OBVIOUS
<1>1. /\ UNCHANGED <<evts, launch, app, stops>> /\ work # <<>>
      /\ Answering(Head(work)) /\ Head(work).op # "exited"
      /\ r \in pending \cup cancelled
  BY DEF SpawnUnconfirmed, SpawnFailed, Applying, children, Answering
<1>2. Grows
  BY <1>1, Unchanged
<1>3. \A q \in Unanswered : q \in Unanswered' \/ q = r
  BY DEF SpawnUnconfirmed, SpawnFailed, Unanswered
<1>4. s \in Slots
  BY <1>1, Logged DEF TypeOK
<1>5. PICK items \in {<<>>, Retry(s)} : Do(items)
  BY DEF SpawnUnconfirmed, SpawnFailed
<1>6. items \in Seq(WorkRecord) /\ \A i \in DOMAIN items : items[i].op = "launch"
  <2>1. CASE items = <<>>
    BY <2>1, ItemForms
  <2>2. CASE items = Retry(s)
    BY <1>4, <2>2, ItemForms
  <2>3. QED
    BY <1>5, <2>1, <2>2
<1>7. ASSUME NEW t \in Slots
      PROVE  \/ slot'[t].pid = slot[t].pid /\ slot'[t].st = slot[t].st
             \/ slot'[t].pid = 0
  <2>1. CASE slot' = slot
    BY <2>1
  <2>2. CASE r \in pending /\ slot' = ClearIndex(slot, r)
    BY <1>4, <2>2, ClearedFields
  <2>3. CASE /\ r \in pending
             /\ \/ slot' = [ClearIndex(slot, r) EXCEPT ![s] = [@ EXCEPT
                      !.st = "launching", !.pid = 0, !.ureq = r, !.token = r]]
                \/ slot' = [ClearIndex(slot, r) EXCEPT ![s] = [@ EXCEPT
                      !.st = "failed", !.pid = 0, !.ureq = 0, !.token = 0]]
    <3>1. PICK f : f = ClearIndex(slot, r)
      OBVIOUS
    <3>2. /\ f \in [Slots -> SlotRecord]
          /\ \A u \in Slots \ {s} : f[u] = slot[u]
      BY <2>3, <3>1, Cleared
    <3>3. /\ \A u \in Slots \ {s} : slot'[u] = f[u]
          /\ \/ slot'[s] = [f[s] EXCEPT !.st = "launching", !.pid = 0, !.ureq = r,
                                        !.token = r]
             \/ slot'[s] = [f[s] EXCEPT !.st = "failed", !.pid = 0, !.ureq = 0,
                                        !.token = 0]
      BY <1>4, <2>3, <3>1, <3>2
    <3>4. slot'[s].pid = 0
      BY <1>4, <3>2, <3>3 DEF SlotRecord
    <3>5. QED
      BY <3>2, <3>3, <3>4
  <2>4. QED
    BY <2>1, <2>2, <2>3 DEF SpawnUnconfirmed, SpawnFailed
<1>8. \A t \in Slots : RunningPid(t)' \in {0, RunningPid(t)}
  BY <1>7 DEF RunningPid
<1>9. QED
  BY <1>1, <1>2, <1>3, <1>5, <1>6, <1>8, HandlerExits DEF Answering

-----------------------------------------------------------------------------
(* Ends, launches and polls                                                 *)

\* Every slot that runs the program sees its exit.
LEMMA ExitedExits ==
  ASSUME TypeOK, TypeOK', Kept, ExitInv, Exited
  PROVE  ExitInv'
<1> PICK r : r = Subject
  OBVIOUS
<1>1. /\ Do(<<>>) /\ UNCHANGED <<evts, launch, app, stops, pending, cancelled>>
      /\ work # <<>> /\ Head(work).op = "exited"
  BY DEF Exited, Applying, children, tables
<1>2. Grows /\ Unanswered' = Unanswered
  BY <1>1, Unchanged DEF Unanswered
<1>3. ASSUME NEW s \in Slots
      PROVE  \/ RunningPid(s) = r /\ RunningPid(s)' = 0
             \/ RunningPid(s) # r /\ RunningPid(s)' = RunningPid(s)
  <2>1. CASE RunningPid(s) = r
    <3>1. slot'[s] = [slot[s] EXCEPT !.st = "exited"]
      BY <2>1 DEF Exited
    <3>2. slot'[s].st = "exited"
      BY <3>1 DEF TypeOK, SlotRecord
    <3>3. QED
      BY <2>1, <3>2 DEF RunningPid, Live
  <2>2. CASE RunningPid(s) # r
    BY <2>2 DEF Exited, RunningPid
  <2>3. QED
    BY <2>1, <2>2
<1>4. ASSUME InOrder, NEW s \in Slots PROVE Shows(s)'
  <2>1. CASE RunningPid(s)' = 0
    BY <2>1 DEF Shows
  <2>2. CASE RunningPid(s) # r /\ RunningPid(s)' = RunningPid(s)
    <3>1. Shows(s)
      BY <1>4 DEF InOrder
    <3>2. QED
      BY <1>1, <1>2, <2>2, <3>1, ItemForms, HolderShows
  <2>3. QED
    BY <1>3, <2>1, <2>2
<1>5. QED
  BY <1>1, <1>2, <1>4, ItemForms, HolderExits

\* The stop that ends is that of a program its slot gives up.
LEMMA TerminatedExits ==
  ASSUME TypeOK, TypeOK', Kept, Wants, "recover" \notin Requests, ExitInv, Terminated
  PROVE  ExitInv'
<1>1. /\ UNCHANGED <<evts, launch, app, pending, cancelled>> /\ work # <<>>
      /\ Head(work).op = "terminated"
  BY DEF Terminated, Applying, children
<1>2. Grows /\ Unanswered' = Unanswered
  BY <1>1, Unchanged DEF Unanswered
<1>3. PICK x \in stops :
        /\ stops' = stops \ {x} /\ Do(Retry(x.slot))
        /\ \/ slot' = [slot EXCEPT ![x.slot] = [@ EXCEPT !.st = "failed",
                                                  !.pid = 0, !.token = 0]]
           \/ slot' = [slot EXCEPT ![x.slot] = [@ EXCEPT !.st = Rest(x.slot),
                                                  !.pid = 0, !.token = 0]]
           \/ /\ slot' = slot
              /\ ~(/\ x.kind = "slot" /\ (x.slot \in Panes => x.slot \in panes)
                   /\ KnownPid(x.slot) = x.id)
  BY Zenon DEF Terminated
<1>4. PICK s \in Slots : s = x.slot
  BY DEF TypeOK, Stop
<1>5. /\ \/ slot'[s].pid = 0
         \/ /\ slot'[s].pid = slot[s].pid /\ slot'[s].st = slot[s].st
            /\ ~(/\ x.kind = "slot" /\ (x.slot \in Panes => x.slot \in panes)
                 /\ KnownPid(x.slot) = x.id)
      /\ \A t \in Slots \ {s} : slot'[t] = slot[t]
  <2>1. CASE /\ slot' = slot
             /\ ~(/\ x.kind = "slot" /\ (x.slot \in Panes => x.slot \in panes)
                  /\ KnownPid(x.slot) = x.id)
    BY <2>1
  <2>2. CASE slot' = [slot EXCEPT ![s] = [@ EXCEPT !.st = "failed",
                                            !.pid = 0, !.token = 0]]
    BY <2>2 DEF TypeOK, SlotRecord
  <2>3. CASE slot' = [slot EXCEPT ![s] = [@ EXCEPT !.st = Rest(s),
                                            !.pid = 0, !.token = 0]]
    BY <2>3 DEF TypeOK, SlotRecord
  <2>4. QED
    BY <1>3, <1>4, <2>1, <2>2, <2>3
<1>6. \A t \in Slots : RunningPid(t)' \in {0, RunningPid(t)}
  BY <1>5 DEF RunningPid
<1>7. ASSUME NEW t \in Slots, RunningPid(t)' # 0
      PROVE  RunningPid(t) # x.id
  <2>1. SUFFICES ASSUME RunningPid(t) = x.id PROVE FALSE
    OBVIOUS
  <2>2. RunningPid(t)' = RunningPid(t) /\ RunningPid(t) # 0
    BY <1>6, <1>7
  <2>3. slot[t].st \in Live /\ slot[t].pid = x.id /\ x.id # 0
    BY <2>1, <2>2 DEF RunningPid
  <2>4. launch[x.id].slot = t /\ launch[x.id].slot = x.slot
    BY <2>3 DEF Kept, ProgramsKnown, PidOwned, StopsOwned
  <2>5. t = s /\ x.slot = t
    BY <1>4, <2>4
  <2>6. x.kind = "slot"
    BY <2>3, <2>5 DEF Wants, StopDecided, Fresh, TypeOK, Stop
  <2>7. (x.slot \in Panes => x.slot \in panes) /\ KnownPid(x.slot) = x.id
    BY <2>3, <2>5 DEF Wants, OutsideIdle, KnownPid
  <2>8. slot'[t].pid = 0
    BY <1>5, <2>5, <2>6, <2>7
  <2>9. QED
    BY <1>7, <2>8 DEF RunningPid
<1>8. ASSUME InOrder, NEW t \in Slots PROVE Shows(t)'
  <2>1. Shows(t)
    BY <1>8 DEF InOrder
  <2>2. RunningPid(t)' # 0 /\ (\E y \in stops : y.id = RunningPid(t))
          => \E y \in stops' : y.id = RunningPid(t)
    BY <1>3, <1>7
  <2>3. Retry(x.slot) \in Seq(WorkRecord)
    BY <1>4, ItemForms
  <2>4. QED
    BY <1>1, <1>2, <1>3, <1>6, <2>1, <2>2, <2>3, HolderShows
<1>9. /\ Retry(x.slot) \in Seq(WorkRecord)
      /\ \A i \in DOMAIN Retry(x.slot) : Retry(x.slot)[i].op = "launch"
  BY <1>4, ItemForms
<1>10. QED
  BY <1>1, <1>2, <1>3, <1>8, <1>9, HolderExits DEF Answering

\* A slot that gives up an unconfirmed program runs nothing before or after.
LEMMA UnconfirmedEndExits ==
  ASSUME TypeOK, TypeOK', Kept, ExitInv, TerminatedUnconfirmed \/ UnconfirmedExited
  PROVE  ExitInv'
<1>1. /\ UNCHANGED <<evts, launch, app, pending, cancelled, stops>> /\ work # <<>>
      /\ Head(work).op # "exited"
  BY DEF TerminatedUnconfirmed, UnconfirmedExited, Applying, children
<1>2. Grows /\ Unanswered' = Unanswered
  BY <1>1, Unchanged DEF Unanswered
<1>3. PICK items : /\ Do(items) /\ items \in Seq(WorkRecord)
                   /\ \A i \in DOMAIN items : items[i].op = "launch"
  <2>1. CASE TerminatedUnconfirmed
    <3>1. PICK x \in ustops : Do(Retry(x.slot))
      BY <2>1, Zenon DEF TerminatedUnconfirmed
    <3>2. x.slot \in Slots
      BY DEF TypeOK, Stop
    <3>3. QED
      BY <3>1, <3>2, ItemForms
  <2>2. CASE UnconfirmedExited
    BY <2>2, ItemForms DEF UnconfirmedExited
  <2>3. QED
    BY <2>1, <2>2
<1>4. ASSUME NEW t \in Slots
      PROVE  \/ slot'[t].pid = slot[t].pid /\ slot'[t].st = slot[t].st
             \/ slot'[t].pid = 0
  <2>1. CASE TerminatedUnconfirmed
    <3>1. PICK x \in ustops :
            \/ slot' = slot
            \/ slot' = [slot EXCEPT ![x.slot] = [@ EXCEPT !.st = Rest(x.slot),
                         !.pid = 0, !.token = 0,
                         !.ureq = IF x.slot \in Panes \/ slot[x.slot].ureq = x.id
                                  THEN 0 ELSE slot[x.slot].ureq]]
      BY <2>1, Zenon DEF TerminatedUnconfirmed
    <3>2. PICK s \in Slots : s = x.slot
      BY DEF TypeOK, Stop
    <3>3. PICK u : u = IF s \in Panes \/ slot[s].ureq = x.id THEN 0 ELSE slot[s].ureq
      OBVIOUS
    <3>4. \/ slot' = [slot EXCEPT ![s] = [@ EXCEPT !.st = Rest(s), !.pid = 0,
                                          !.token = 0, !.ureq = u]]
          \/ slot' = slot
      BY <3>1, <3>2, <3>3, Zenon
    <3>5. QED
      BY <3>4 DEF TypeOK, SlotRecord
  <2>2. CASE UnconfirmedExited
    <3>1. PICK s : \/ slot' = slot
                   \/ slot' = [slot EXCEPT ![s] = [@ EXCEPT !.st = "exited",
                                                     !.pid = 0, !.ureq = 0]]
      BY <2>2, Zenon DEF UnconfirmedExited
    <3>2. QED
      BY <3>1 DEF TypeOK, SlotRecord
  <2>3. QED
    BY <2>1, <2>2
<1>5. \A t \in Slots : RunningPid(t)' \in {0, RunningPid(t)}
  BY <1>4 DEF RunningPid
<1>6. QED
  BY <1>1, <1>2, <1>3, <1>5, HandlerExits DEF Answering

\* A start that waits was asked for by the only slot there is, which then is
\* not launched: its launch is in flight, or a cancelled one is.
LEMMA NoStartWaits ==
  ASSUME ConstantsAssumption, TypeOK, TypeOK', Indexed, ExitInv, OneSlot', Grows,
         Applying("launch"), NEW s \in Slots, s = Head(work).slot, MayLaunch(s),
         launch'[Len(launch) + 1].slot = s, Len(launch) + 1 \in DOMAIN launch',
         NEW j \in DOMAIN work
  PROVE  work[j].op # "started"
<1> SUFFICES ASSUME work[j].op = "started" PROVE FALSE
  OBVIOUS
<1>1. PICK r : r = work[j].id
  OBVIOUS
<1>2. r \in Unanswered /\ r \in DOMAIN launch
  BY <1>1 DEF ExitInv, AnswersDue, AnswerDue, Answering, Unanswered, TypeOK
<1>3. launch[r].slot = s
  BY <1>2 DEF OneSlot, Grows
<1>4. CASE r \in cancelled
  BY <1>3, <1>4 DEF MayLaunch, Stopping
<1>5. CASE r \in pending
  <2>1. slot[s].idx = r /\ r # 0
    BY <1>2, <1>3, <1>5, Logged DEF Indexed, LaunchIndexExact, PendingIsIndexed
  <2>2. CASE s # Shell
    BY <2>1, <2>2 DEF MayLaunch, Slots
  <2>3. CASE s = Shell
    <3>1. 1 \in DOMAIN work /\ work[1] = Launch(Shell)
      BY <2>3, HeadOfAgenda DEF Applying
    <3>2. QED
      BY <2>1, <2>3, <3>1 DEF Indexed, OneShellLaunch, ShellLaunchIsNext
  <2>4. QED
    BY <2>2, <2>3
<1>6. QED
  BY <1>2, <1>4, <1>5 DEF Unanswered

LEMMA LaunchSlotExits ==
  ASSUME ConstantsAssumption, TypeOK, TypeOK', Indexed, Kept, ExitInv, LaunchSlot
  PROVE  ExitInv'
<1>1. work # <<>> /\ Head(work).op = "launch" /\ Applying("launch")
  BY DEF LaunchSlot, Applying
<1> PICK s \in Slots : s = Head(work).slot
  BY <1>1, HeadOfAgenda
<1>2. CASE MayLaunch(s) /\ Spawn(s, slot, Tail(work))
  <2>1. s \in Slots
    OBVIOUS
  <2>2. /\ Grows
        /\ \A r \in DOMAIN launch' :
             r \in DOMAIN launch \/ (r = Len(launch) + 1 /\ launch'[r].slot = s)
    BY <1>2, <2>1, SpawnLogged DEF Kept, TypeOK
  <2>3. /\ pending' = pending \cup {Len(launch) + 1}
        /\ UNCHANGED <<cancelled, stops, evts>> /\ Do(<<Poll>>)
        /\ slot' = [slot EXCEPT ![s] = [@ EXCEPT
             !.idx = Len(launch) + 1,
             !.token = IF s \in Panes THEN Len(launch) + 1 ELSE slot[s].token]]
    BY <1>2 DEF Spawn, Do
  <2>4. \A t \in Slots : slot'[t].pid = slot[t].pid /\ slot'[t].st = slot[t].st
    BY <2>1, <2>3 DEF TypeOK, SlotRecord
  <2>5. \A t \in Slots : RunningPid(t)' = RunningPid(t)
    BY <2>4 DEF RunningPid
  <2>6. /\ \A r \in Unanswered : r \in Unanswered'
        /\ \A r \in DOMAIN launch' : r \in DOMAIN launch \/ r \in Unanswered'
    BY <2>2, <2>3 DEF Unanswered
  <2>7. Len(launch) + 1 \in DOMAIN launch' /\ launch'[Len(launch) + 1].slot = s
    <3>1. Len(launch) + 1 \in DOMAIN launch'
      BY <2>3 DEF TypeOK
    <3>2. Len(launch) + 1 \notin DOMAIN launch
      BY LenProperties DEF TypeOK
    <3>3. QED
      BY <2>2, <3>1, <3>2
  <2>8. OneSlot' => \A j \in DOMAIN work : work[j].op # "started"
    BY <1>1, <1>2, <2>1, <2>2, <2>7, NoStartWaits
  <2>9. QED
    BY <1>1, <2>2, <2>3, <2>5, <2>6, <2>8, ItemForms, HandlerExits DEF Answering
<1>3. CASE ~(MayLaunch(s) /\ Spawn(s, slot, Tail(work)))
  <2>1. /\ Do(<<>>) /\ UNCHANGED <<evts, launch, app, pending, cancelled, stops>>
        /\ \/ slot' = slot
           \/ slot' = [slot EXCEPT ![s] = [@ EXCEPT !.st = Rest(s), !.pid = 0]]
    BY <1>3 DEF LaunchSlot, tables, children
  <2>2. Grows /\ Unanswered' = Unanswered
    BY <2>1, Unchanged DEF Unanswered
  <2>3. \A t \in Slots : slot'[t] = slot[t] \/ slot'[t].pid = 0
    <3>1. CASE slot' = [slot EXCEPT ![s] = [@ EXCEPT !.st = Rest(s), !.pid = 0]]
      <4>1. /\ slot'[s] = [slot[s] EXCEPT !.st = Rest(s), !.pid = 0]
            /\ \A t \in Slots \ {s} : slot'[t] = slot[t]
        BY <3>1 DEF TypeOK
      <4>2. slot'[s].pid = 0
        BY <4>1 DEF TypeOK, SlotRecord
      <4>3. QED
        BY <4>1, <4>2
    <3>2. QED
      BY <2>1, <3>1
  <2>4. \A t \in Slots : RunningPid(t)' \in {0, RunningPid(t)}
    BY <2>3 DEF RunningPid
  <2>5. stops \subseteq stops'
    BY <2>1
  <2>6. QED
    BY <1>1, <2>1, <2>2, <2>4, <2>5, ItemForms, HandlerExits
<1>4. QED
  BY <1>2, <1>3

\* The events of the poll are applied in the order they were told in.
LEMMA PolledExits ==
  ASSUME TypeOK, TypeOK', Kept, ExitInv, PollProcesses
  PROVE  ExitInv'
<1>1. /\ UNCHANGED <<slot, launch, app, pending, cancelled, stops>>
      /\ work # <<>> /\ Head(work).op = "poll" /\ Do(evts) /\ evts' = <<>>
  BY DEF PollProcesses, Applying, slots, tables, children
<1>2. /\ Head(work) = work[1] /\ 1 \in DOMAIN work
      /\ Len(evts) \in Nat /\ DOMAIN work \subseteq Nat \ {0} /\ DOMAIN work' \subseteq Nat \ {0}
      /\ \A i \in DOMAIN work' :
           \/ i \in DOMAIN evts /\ i <= Len(evts) /\ work'[i] = evts[i]
           \/ /\ i > Len(evts) /\ i - Len(evts) + 1 \in DOMAIN work
              /\ i - Len(evts) + 1 > 1
              /\ work'[i] = work[i - Len(evts) + 1]
      /\ \A j \in DOMAIN work : j > 1 =>
           /\ j - 1 + Len(evts) \in DOMAIN work'
           /\ work'[j - 1 + Len(evts)] = work[j]
  <2>1. evts \in Seq(WorkRecord)
    BY SeqMonotonic DEF TypeOK, WorkRecord
  <2>2. QED
    BY <1>1, <2>1, AgendaShift
<1>3. /\ DOMAIN evts' = {}
      /\ DOMAIN evts = 1..Len(evts)
      /\ \A i \in DOMAIN evts : i \in DOMAIN work' /\ work'[i] = evts[i]
      /\ \A i \in DOMAIN evts : evts[i].op # "poll"
  <2> PICK rest : rest = Tail(work)
    OBVIOUS
  <2>1. rest \in Seq(WorkRecord) /\ evts \in Seq(WorkRecord) /\ Len(rest) \in Nat
    BY <1>1, SeqMonotonic, EmptySeq, HeadTailProperties, LenProperties
       DEF TypeOK, WorkRecord
  <2>2. work' = evts \o rest
    BY <1>1 DEF Do
  <2>3. /\ DOMAIN evts = 1..Len(evts) /\ DOMAIN work' = 1..(Len(evts) + Len(rest))
        /\ \A i \in DOMAIN evts : work'[i] = evts[i]
    <3>1. /\ work' \in Seq(WorkRecord) /\ Len(work') = Len(evts) + Len(rest)
          /\ \A i \in 1..(Len(evts) + Len(rest)) :
               work'[i] = IF i <= Len(evts) THEN evts[i] ELSE rest[i - Len(evts)]
      BY <2>1, <2>2, ConcatProperties
    <3>2. DOMAIN evts = 1..Len(evts) /\ DOMAIN work' = 1..Len(work')
      BY <2>1, <3>1, LenProperties
    <3>3. QED
      BY <1>2, <2>1, <3>1, <3>2
  <2>4. \A i \in DOMAIN evts : evts[i] \in EvtRecord
    BY LenProperties DEF TypeOK
  <2>5. QED
    BY <1>1, <1>2, <2>1, <2>3, <2>4, EmptySeq DEF EvtRecord, EvtOps
<1>4. Awaits'
  BY <1>1 DEF ExitInv, Awaits, Unanswered
<1>5. AnswersDue'
  <2>1. \A i \in DOMAIN work' : AnswerDue(work'[i])
    BY <1>2 DEF ExitInv, AnswersDue
  <2>2. QED
    BY <1>1, <1>3, <2>1 DEF AnswersDue, AnswerDue, Unanswered, Begun, Answering
<1>6. AnsweredOnce'
  <2>1. ASSUME NEW i \in DOMAIN work', NEW j \in DOMAIN work', Answering(work'[i]),
               Answering(work'[j]), work'[i].id = work'[j].id
        PROVE  i = j
    <3>1. \/ i \in DOMAIN evts /\ work'[i] = evts[i]
          \/ /\ i > Len(evts) /\ i - Len(evts) + 1 \in DOMAIN work
             /\ work'[i] = work[i - Len(evts) + 1]
      BY <1>2
    <3>2. \/ j \in DOMAIN evts /\ work'[j] = evts[j]
          \/ /\ j > Len(evts) /\ j - Len(evts) + 1 \in DOMAIN work
             /\ work'[j] = work[j - Len(evts) + 1]
      BY <1>2
    <3>3. i \in Nat /\ j \in Nat
      BY <1>2
    <3>4. \/ i = j \/ i - Len(evts) + 1 = j - Len(evts) + 1
      BY <2>1, <3>1, <3>2 DEF ExitInv, AnsweredOnce
    <3>5. QED
      BY <1>2, <3>3, <3>4
  <2>2. QED
    BY <1>3, <2>1 DEF AnsweredOnce
<1>7. ASSUME OneSlot' PROVE InOrder'
  <2>1. InOrder
    BY <1>1, <1>7 DEF ExitInv, OneSlot
  <2>2. \A i \in DOMAIN work : i > 1 => work[i].op # "started"
    BY <1>1, <1>2, <2>1 DEF InOrder, PollsAreLast
  <2>3. ASSUME NEW i \in DOMAIN work', work'[i].op = "started"
        PROVE  i \in DOMAIN evts /\ work'[i] = evts[i]
    BY <1>2, <2>2, <2>3
  <2>4. StartsBeforeExits'
    <3> SUFFICES ASSUME NEW i \in DOMAIN work', work'[i].op = "started"
                 PROVE  app[work'[i].id] = "tracked" \/ ExitAfter(work', i, work'[i].id)
      BY <1>1, <1>3 DEF StartsBeforeExits
    <3>1. i \in DOMAIN evts /\ work'[i] = evts[i]
      BY <2>3
    <3>2. app[evts[i].id] = "tracked" \/ ExitAfter(evts, i, evts[i].id)
      BY <2>1, <3>1 DEF InOrder, StartsBeforeExits
    <3>3. QED
      BY <1>3, <3>1, <3>2 DEF ExitAfter
  <2>5. PollsAreLast'
    <3> SUFFICES ASSUME NEW i \in DOMAIN work', NEW j \in DOMAIN work', i < j,
                        work'[i].op = "poll", work'[j].op = "started"
                 PROVE  FALSE
      BY DEF PollsAreLast
    <3>1. j \in DOMAIN evts
      BY <2>3
    <3>2. i \in DOMAIN evts /\ work'[i] = evts[i]
      <4>1. i \in Nat /\ j \in Nat /\ j <= Len(evts)
        BY <1>2, <1>3, <3>1
      <4>2. QED
        BY <1>2, <4>1
    <3>3. QED
      BY <1>3, <3>2
  <2>6. ASSUME NEW s \in Slots PROVE Shows(s)'
    <3>1. PICK r : r = RunningPid(s)
      OBVIOUS
    <3>2. RunningPid(s)' = r
      BY <1>1, <3>1 DEF RunningPid
    <3>3. r # 0 => \/ app[r] = "tracked" \/ Undelivered("exited", r)
                  \/ \E x \in stops : x.id = r
      BY <2>1, <3>1 DEF InOrder, Shows
    <3>4. ASSUME Undelivered("exited", r) PROVE Undelivered("exited", r)'
      <4>1. CASE \E i \in DOMAIN evts : evts[i].op = "exited" /\ evts[i].id = r
        BY <1>3, <4>1 DEF Undelivered
      <4>2. CASE \E i \in DOMAIN work : work[i].op = "exited" /\ work[i].id = r
        <5>1. PICK i \in DOMAIN work : work[i].op = "exited" /\ work[i].id = r
          BY <4>2
        <5>2. i > 1
          BY <1>1, <1>2, <5>1
        <5>3. QED
          BY <1>2, <5>1, <5>2 DEF Undelivered
      <4>3. QED
        BY <3>4, <4>1, <4>2 DEF Undelivered
    <3>5. QED
      BY <1>1, <3>2, <3>3, <3>4 DEF Shows
  <2>7. QED
    BY <2>4, <2>5, <2>6 DEF InOrder
<1>8. QED
  BY <1>4, <1>5, <1>6, <1>7 DEF ExitInv

\* Giving a launch in flight up leaves it to be answered.
LEMMA ReleaseUnanswered ==
  ASSUME NEW s, ReleaseChild(s)
  PROVE  /\ \A r \in Unanswered : r \in Unanswered'
         /\ stops \subseteq stops' /\ UNCHANGED <<evts, launch, app>>
BY ReleaseAdds DEF ReleaseChild, CancelPending, Unanswered, children

\* A pane taken away gives its program up.
LEMMA RemovalExits ==
  ASSUME ConstantsAssumption, TypeOK, TypeOK', Kept, ExitInv,
         RemoveReleasedPane \/ DropPane
  PROVE  ExitInv'
<1>1. /\ work # <<>> /\ Head(work).op \in {"removePane", "dropPane"} /\ Do(<<>>)
  BY DEF RemoveReleasedPane, DropPane, Applying
<1>2. PICK p \in Panes : p = Head(work).slot
  BY <1>1, HeadOfAgenda
<1>3. p \in Slots
  BY DEF Slots
<1>4. /\ \A r \in Unanswered : r \in Unanswered'
      /\ stops \subseteq stops' /\ UNCHANGED <<evts, launch, app>>
  <2>1. CASE RemoveReleasedPane
    BY <2>1 DEF RemoveReleasedPane, tables, children, Unanswered
  <2>2. CASE DropPane
    BY <1>2, <2>2, ReleaseUnanswered DEF DropPane
  <2>3. QED
    BY <2>1, <2>2
<1>5. slot' = slot \/ slot' = [slot EXCEPT ![p] = Vacant]
  BY <1>2 DEF RemoveReleasedPane, DropPane
<1>6. \A t \in Slots : slot'[t] = slot[t] \/ slot'[t] = Vacant
  BY <1>3, <1>5 DEF TypeOK
<1>7. \A t \in Slots : RunningPid(t)' \in {0, RunningPid(t)}
  BY <1>6 DEF RunningPid, Vacant
<1>8. Grows /\ \A r \in DOMAIN launch' : r \in DOMAIN launch
  BY <1>4, Unchanged
<1>9. QED
  BY <1>1, <1>4, <1>7, <1>8, ItemForms, HandlerExits

-----------------------------------------------------------------------------
(* Requests and windows                                                     *)

\* Nothing waits but what the worker told and was not drained yet.
LEMMA RequestExits ==
  ASSUME TypeOK, TypeOK', Kept, ExitInv, work = <<>>, UNCHANGED <<evts, launch, app>>,
         \A i \in DOMAIN work' :
           work'[i].op \in {"poll", "launch", "removePane", "dropPane"},
         \A r \in Unanswered : r \in Unanswered', stops \subseteq stops',
         \A s \in Slots : RunningPid(s)' \in {0, RunningPid(s)}
  PROVE  ExitInv'
<1>1. Awaits /\ AnswersDue /\ AnsweredOnce
  BY DEF ExitInv
<1>2. \A i \in DOMAIN work' : ~Answering(work'[i]) /\ work'[i].op # "started"
  BY DEF Answering
<1>3. Awaits'
  BY <1>1 DEF Awaits
<1>4. AnswersDue'
  BY <1>1, <1>2 DEF AnswersDue, AnswerDue, Begun, Answering
<1>5. AnsweredOnce'
  BY <1>1, <1>2 DEF AnsweredOnce, Answering
<1>6. ASSUME OneSlot' PROVE InOrder'
  <2>1. InOrder
    BY <1>6 DEF ExitInv, OneSlot
  <2>2. StartsBeforeExits' /\ PollsAreLast'
    BY <1>2, <2>1 DEF InOrder, StartsBeforeExits, PollsAreLast, ExitAfter
  <2>3. ASSUME NEW s \in Slots PROVE Shows(s)'
    <3>1. PICK r : r = RunningPid(s)
      OBVIOUS
    <3>2. r # 0 => \/ app[r] = "tracked" \/ Undelivered("exited", r)
                  \/ \E x \in stops : x.id = r
      BY <2>1, <3>1 DEF InOrder, Shows
    <3>3. Undelivered("exited", r) => Undelivered("exited", r)'
      BY EmptySeq DEF Undelivered
    <3>4. RunningPid(s)' \in {0, r}
      BY <3>1
    <3>5. QED
      BY <3>2, <3>3, <3>4 DEF Shows
  <2>4. QED
    BY <2>2, <2>3 DEF InOrder
<1>7. QED
  BY <1>3, <1>4, <1>5, <1>6 DEF ExitInv

\* The agendas requests open.
LEMMA AgendasOpened ==
  ASSUME NEW e, NEW f, e.op \in {"poll", "launch", "removePane"},
         f.op \in {"poll", "launch", "removePane"}, work' \in {<<e>>, <<e, f>>}
  PROVE  \A i \in DOMAIN work' :
           work'[i].op \in {"poll", "launch", "removePane", "dropPane"}
<1>1. \A i \in DOMAIN work' : work'[i] \in {e, f}
  OBVIOUS
<1>2. QED
  BY <1>1

\* Requests that leave slots and tables alone.
LEMMA QuietRequestsExits ==
  ASSUME ConstantsAssumption, TypeOK, TypeOK', Kept, ExitInv,
         \/ RuntimeRunning \/ PollRequest \/ OpenShell
         \/ \E p \in Panes : LaunchNativePaneHost(p)
         \/ \E incoming \in SUBSET Panes : ApplyProviderSnapshot(incoming)
  PROVE  ExitInv'
<1>1. /\ UNCHANGED <<slot, evts, launch, app, pending, cancelled, stops>>
      /\ work = <<>>
  BY DEF RuntimeRunning, PollRequest, OpenShell, LaunchNativePaneHost,
         ApplyProviderSnapshot, Request, slots, tables, children
<1>2. \A i \in DOMAIN work' :
        work'[i].op \in {"poll", "launch", "removePane", "dropPane"}
  <2>1. CASE \E incoming \in SUBSET Panes : ApplyProviderSnapshot(incoming)
    BY <2>1, SnapshotAgenda
  <2>2. CASE \/ RuntimeRunning \/ PollRequest \/ OpenShell
             \/ \E p \in Panes : LaunchNativePaneHost(p)
    <3>1. \E e : e.op \in {"poll", "launch", "removePane"} /\ work' = <<e>>
      BY <2>2, AgendaEntries DEF RuntimeRunning, PollRequest, OpenShell,
                                 LaunchNativePaneHost
    <3>2. QED
      BY <3>1, AgendasOpened
  <2>3. QED
    BY <2>1, <2>2
<1>3. /\ Unanswered' = Unanswered
      /\ \A s \in Slots : RunningPid(s)' = RunningPid(s)
  BY <1>1 DEF Unanswered, RunningPid
<1>4. QED
  BY <1>1, <1>2, <1>3, RequestExits

LEMMA DismissShellExits ==
  ASSUME ConstantsAssumption, TypeOK, TypeOK', Kept, ExitInv, DismissShell
  PROVE  ExitInv'
<1> DEFINE kept == \/ RunningPid(Shell) # 0
                   \/ Stopping(Shell)
                   \/ slot[Shell].idx \in pending
                   \/ slot[Shell].ureq \in unconfirmed
<1>1. /\ work = <<>> /\ work' = <<Poll>> /\ ReleaseChild(Shell)
      /\ slot' = [slot EXCEPT ![Shell] = [@ EXCEPT
           !.st  = IF kept THEN slot[Shell].st ELSE "absent",
           !.pid = IF kept THEN slot[Shell].pid ELSE 0,
           !.idx = 0, !.ureq = 0]]
  BY DEF DismissShell, Request
<1> HIDE DEF kept
<1>2. Shell \in Slots
  BY DEF Slots
<1>3. /\ \A t \in Slots \ {Shell} : slot'[t] = slot[t]
      /\ \/ slot'[Shell].pid = slot[Shell].pid /\ slot'[Shell].st = slot[Shell].st
         \/ slot'[Shell].pid = 0 /\ slot'[Shell].st = "absent"
  BY <1>1, <1>2 DEF TypeOK, SlotRecord
<1>4. \A t \in Slots : RunningPid(t)' \in {0, RunningPid(t)}
  BY <1>3 DEF RunningPid, Live
<1>5. \A i \in DOMAIN work' :
        work'[i].op \in {"poll", "launch", "removePane", "dropPane"}
  BY <1>1, AgendaEntries, AgendasOpened
<1>6. QED
  BY <1>1, <1>4, <1>5, ReleaseUnanswered, RequestExits

\* A pane's program is given up, or only its plan changes.
LEMMA PaneRequestsExits ==
  ASSUME ConstantsAssumption, TypeOK, TypeOK', Kept, ExitInv, NEW p \in Panes,
         \/ SwitchToSurfAce(p) \/ NativePaneRelease(p)
         \/ \E spec \in Specs, rev \in 0..MaxRevision :
              NativePaneHost(p, spec, rev) \/ NativePaneUpdate(p, spec, rev)
  PROVE  ExitInv'
<1>1. p \in Slots /\ work = <<>>
  BY DEF Slots, SwitchToSurfAce, NativePaneRelease, NativePaneHost, NativePaneUpdate,
         Request
<1>2. \A i \in DOMAIN work' :
        work'[i].op \in {"poll", "launch", "removePane", "dropPane"}
  <2>1. work' \in {<<Poll>>, <<Poll, Launch(p)>>, <<Poll, Todo("removePane", p)>>}
    BY DEF SwitchToSurfAce, NativePaneRelease, NativePaneHost, NativePaneUpdate
  <2>2. Todo("removePane", p).op = "removePane"
    BY DEF Todo
  <2>3. QED
    BY <2>1, <2>2, AgendaEntries, AgendasOpened
<1>3. /\ \A r \in Unanswered : r \in Unanswered'
      /\ stops \subseteq stops' /\ UNCHANGED <<evts, launch, app>>
      /\ \A t \in Slots \ {p} : slot'[t] = slot[t]
      /\ \/ slot'[p].pid = RunningPid(p)
         \/ slot'[p].pid = slot[p].pid /\ slot'[p].st = slot[p].st
  <2>1. CASE SwitchToSurfAce(p) \/ NativePaneRelease(p)
    <3>1. /\ ReleaseChild(p)
          /\ slot' = [slot EXCEPT
               ![p] = [Vacant EXCEPT
                         !.st = IF RunningPid(p) = 0 THEN "absent" ELSE slot[p].st,
                         !.pid = RunningPid(p)]]
      BY <2>1 DEF SwitchToSurfAce, NativePaneRelease, ToSurfAce
    <3>2. /\ slot'[p].pid = RunningPid(p)
          /\ \A t \in Slots \ {p} : slot'[t] = slot[t]
      BY <1>1, <3>1 DEF TypeOK, Vacant
    <3>3. QED
      BY <3>1, <3>2, ReleaseUnanswered
  <2>2. ASSUME NEW spec \in Specs, NEW rev \in 0..MaxRevision, HostPlan(p, spec, rev)
        PROVE  /\ \A r \in Unanswered : r \in Unanswered'
               /\ stops \subseteq stops' /\ UNCHANGED <<evts, launch, app>>
               /\ \A t \in Slots \ {p} : slot'[t] = slot[t]
               /\ \/ slot'[p].pid = RunningPid(p)
                  \/ slot'[p].pid = slot[p].pid /\ slot'[p].st = slot[p].st
    <3>1. CASE p \in panes /\ slot[p].want # spec
      <4>1. /\ ReleaseChild(p)
            /\ slot' = [slot EXCEPT ![p] = [@ EXCEPT
                !.st = IF RunningPid(p) = 0 THEN "absent" ELSE slot[p].st,
                !.pid = RunningPid(p),
                !.idx = 0, !.ureq = 0, !.token = 0,
                !.want = spec, !.rev = rev]]
        BY <2>2, <3>1 DEF HostPlan
      <4>2. /\ slot'[p].pid = RunningPid(p)
            /\ \A t \in Slots \ {p} : slot'[t] = slot[t]
        BY <1>1, <4>1 DEF TypeOK, SlotRecord
      <4>3. QED
        BY <4>1, <4>2, ReleaseUnanswered
    <3>2. CASE ~(p \in panes /\ slot[p].want # spec)
      <4>1. /\ slot' = [slot EXCEPT ![p] = [@ EXCEPT !.want = spec, !.rev = rev]]
            /\ UNCHANGED <<evts, launch, app, stops, pending, cancelled>>
        BY <2>2, <3>2 DEF HostPlan, tables, children
      <4>2. /\ slot'[p].pid = slot[p].pid /\ slot'[p].st = slot[p].st
            /\ \A t \in Slots \ {p} : slot'[t] = slot[t]
        <5>1. /\ slot'[p] = [slot[p] EXCEPT !.want = spec, !.rev = rev]
              /\ \A t \in Slots \ {p} : slot'[t] = slot[t]
          BY <1>1, <4>1 DEF TypeOK
        <5>2. QED
          BY <1>1, <5>1 DEF TypeOK, SlotRecord
      <4>3. QED
        BY <4>1, <4>2 DEF Unanswered
    <3>3. QED
      BY <3>1, <3>2
  <2>3. QED
    BY <2>1, <2>2 DEF NativePaneHost, NativePaneUpdate
<1>4. \A t \in Slots : RunningPid(t)' \in {0, RunningPid(t)}
  BY <1>3 DEF RunningPid
<1>5. QED
  BY <1>1, <1>2, <1>3, <1>4, RequestExits

LEMMA MainRequestsExits ==
  ASSUME ConstantsAssumption, TypeOK, TypeOK', Kept, ExitInv,
         ResetRuntime \/ \E intent \in Specs : SelectMainApp(intent)
  PROVE  ExitInv'
<1>1. TerminateMain /\ work = <<>>
  BY DEF ResetRuntime, SelectMainApp, Request
<1>2. Main \in Slots
  BY DEF Slots
<1>3. PICK f : f = MainReleased
  OBVIOUS
<1>4. f \in [Slots -> SlotRecord]
  BY <1>3, MainReleasedType DEF TypeOK
<1>5. \A t \in Slots : f[t].pid = slot[t].pid /\ f[t].st = slot[t].st
  BY <1>2, <1>3 DEF MainReleased, TypeOK, SlotRecord
<1>6. /\ \A t \in Slots \ {Main} : slot'[t] = f[t]
      /\ \/ slot'[Main].pid = 0
         \/ slot'[Main].pid = f[Main].pid /\ slot'[Main].st = f[Main].st
  <2>1. f[Main] \in SlotRecord
    BY <1>2, <1>4
  <2>2. CASE ResetRuntime
    <3>1. slot' = f \/ slot' = [f EXCEPT ![Main] = [f[Main] EXCEPT !.st = Rest(Main),
                     !.pid = 0, !.token = 0, !.ureq = 0]]
      BY <1>3, <2>2 DEF ResetRuntime
    <3>2. \A t \in Slots \ {Main} : slot'[t] = f[t]
      BY <1>4, <3>1
    <3>3. slot'[Main] = f[Main] \/ slot'[Main] = [f[Main] EXCEPT !.st = Rest(Main),
                     !.pid = 0, !.token = 0, !.ureq = 0]
      BY <1>2, <1>4, <3>1
    <3>4. \/ slot'[Main].pid = 0
          \/ slot'[Main].pid = f[Main].pid /\ slot'[Main].st = f[Main].st
      BY <2>1, <3>3 DEF SlotRecord
    <3>5. QED
      BY <3>2, <3>4
  <2>3. ASSUME NEW intent \in Specs, SelectMainApp(intent)
        PROVE  /\ \A t \in Slots \ {Main} : slot'[t] = f[t]
               /\ \/ slot'[Main].pid = 0
                  \/ slot'[Main].pid = f[Main].pid /\ slot'[Main].st = f[Main].st
    <3>1. \/ slot' = [f EXCEPT ![Main] = [f[Main] EXCEPT !.want = intent]]
          \/ slot' = [f EXCEPT ![Main] = [f[Main] EXCEPT !.want = intent,
                        !.st = "waiting", !.pid = 0, !.token = 0]]
      BY <1>3, <2>3 DEF SelectMainApp
    <3>2. \A t \in Slots \ {Main} : slot'[t] = f[t]
      BY <1>4, <3>1
    <3>3. \/ slot'[Main] = [f[Main] EXCEPT !.want = intent]
          \/ slot'[Main] = [f[Main] EXCEPT !.want = intent,
                        !.st = "waiting", !.pid = 0, !.token = 0]
      BY <1>2, <1>4, <3>1
    <3>4. \/ slot'[Main].pid = 0
          \/ slot'[Main].pid = f[Main].pid /\ slot'[Main].st = f[Main].st
      BY <2>1, <3>3 DEF SlotRecord
    <3>5. QED
      BY <3>2, <3>4
  <2>4. QED
    BY <2>2, <2>3
<1>7. \A t \in Slots : RunningPid(t)' \in {0, RunningPid(t)}
  BY <1>2, <1>5, <1>6 DEF RunningPid
<1>8. \A i \in DOMAIN work' :
        work'[i].op \in {"poll", "launch", "removePane", "dropPane"}
  <2>1. work' \in {<<Poll>>, <<Poll, Poll>>, <<Launch(Main), Poll>>}
    BY DEF ResetRuntime, SelectMainApp
  <2>2. QED
    BY <2>1, AgendaEntries, AgendasOpened
<1>9. /\ \A r \in Unanswered : r \in Unanswered'
      /\ stops \subseteq stops' /\ UNCHANGED <<evts, launch, app>>
  <2>1. CASE slot[Main].ureq # 0
    BY <1>1, <2>1 DEF TerminateMain, Unanswered, children
  <2>2. CASE slot[Main].ureq = 0
    BY <1>1, <2>2, ReleaseUnanswered DEF TerminateMain
  <2>3. QED
    BY <2>1, <2>2
<1>10. QED
  BY <1>1, <1>7, <1>8, <1>9, RequestExits

\* A window comes or goes; its program is the one that was launched.
LEMMA WindowExits ==
  ASSUME TypeOK, TypeOK', Kept, ExitInv, Wrappers = FALSE, NEW s \in Slots,
         Attach(s) \/ Detach(s)
  PROVE  ExitInv'
<1>1. /\ UNCHANGED <<evts, launch, app, pending, cancelled, stops>>
      /\ work = <<>> /\ work' = work /\ slot[s].st \in Live
  BY DEF Attach, Detach, tables, children, Live
<1>2. slot[s].pid \in Int /\ slot[s].pid >= 0
  <2>1. slot[s].pid \in Int /\ (slot[s].pid # 0 => slot[s].pid \in DOMAIN launch)
    BY Logged DEF Kept, ProgramsKnown, PidOwned, Begun, TypeOK, SlotRecord
  <2>2. QED
    BY <2>1, Logged
<1>3. /\ slot'[s].pid = slot[s].pid
      /\ \A t \in Slots \ {s} : slot'[t] = slot[t]
  <2>1. CASE Attach(s)
    <3>1. PICK c \in {slot[s].pid, -ReqOf(slot[s].pid)} :
            /\ c < 0 => Wrappers
            /\ slot' = [slot EXCEPT ![s] = [@ EXCEPT !.st = "attached", !.pid = c]]
      BY <2>1 DEF Attach
    <3>2. c = slot[s].pid
      BY <1>2, <3>1 DEF ReqOf
    <3>3. QED
      BY <3>1, <3>2 DEF TypeOK, SlotRecord
  <2>2. CASE Detach(s)
    BY <2>2 DEF Detach, TypeOK, SlotRecord
  <2>3. QED
    BY <2>1, <2>2
<1>4. \A t \in Slots : RunningPid(t)' \in {0, RunningPid(t)}
  BY <1>1, <1>3 DEF RunningPid
<1>5. Unanswered' = Unanswered /\ DOMAIN work' = {}
  BY <1>1, EmptySeq DEF Unanswered
<1>6. QED
  BY <1>1, <1>4, <1>5, RequestExits

-----------------------------------------------------------------------------
(* The worker                                                               *)

\* A step of the worker or of a program that tells nothing.
LEMMA UntoldExits ==
  ASSUME TypeOK, Kept, ExitInv, DOMAIN app' = DOMAIN app,
         UNCHANGED <<slot, launch, pending, cancelled, stops, evts, work>>,
         \A r \in DOMAIN app : /\ app'[r] = "queued" <=> app[r] = "queued"
                               /\ app'[r] = "tracked" <=> app[r] = "tracked"
  PROVE  ExitInv'
<1>1. \A r : Begun(r)' = Begun(r)
  BY DEF Begun
<1>2. Awaits' /\ AnswersDue' /\ AnsweredOnce'
  BY <1>1 DEF ExitInv, Awaits, AnswersDue, AnswerDue, AnsweredOnce, Answering, Unanswered
<1>3. ASSUME OneSlot' PROVE InOrder'
  <2>1. InOrder
    BY <1>3 DEF ExitInv, OneSlot
  <2>2. /\ \A i \in DOMAIN evts : evts[i].op = "started" => evts[i].id \in DOMAIN app
        /\ \A i \in DOMAIN work : work[i].op = "started" => work[i].id \in DOMAIN app
    BY StartLogged
  <2>3. StartsBeforeExits' /\ PollsAreLast'
    BY <2>1, <2>2 DEF InOrder, StartsBeforeExits, PollsAreLast, ExitAfter
  <2>4. ASSUME NEW s \in Slots PROVE Shows(s)'
    <3>1. PICK r : r = RunningPid(s)
      OBVIOUS
    <3>2. RunningPid(s)' = r
      BY <3>1 DEF RunningPid
    <3>3. r # 0 => \/ app[r] = "tracked" \/ Undelivered("exited", r)
                  \/ \E x \in stops : x.id = r
      BY <2>1, <3>1 DEF InOrder, Shows
    <3>4. r # 0 => r \in DOMAIN app
      BY <3>1, RunningLogged, Logged DEF Kept, ProgramsKnown
    <3>5. QED
      BY <3>2, <3>3, <3>4 DEF Shows, Undelivered
  <2>5. QED
    BY <2>3, <2>4 DEF InOrder
<1>4. QED
  BY <1>2, <1>3 DEF ExitInv

\* The worker tells e, the last of what it has told.
LEMMA ToldExits ==
  ASSUME TypeOK, TypeOK', Kept, ExitInv, Onward,
         UNCHANGED <<slot, launch, pending, cancelled, stops, work>>,
         NEW e \in EvtRecord, evts' = Append(evts, e),
         Answering(e) => /\ e.id \in Unanswered /\ ~Begun(e.id) /\ e.id \in DOMAIN app
                         /\ app'[e.id] # "queued",
         e.op = "started" => app'[e.id] = "tracked",
         \A r \in DOMAIN app : app'[r] = "queued" => app[r] = "queued",
         \A r \in DOMAIN app : app[r] = "tracked" =>
           \/ app'[r] = "tracked"
           \/ e.op = "exited" /\ e.id = r
           \/ r \notin Unanswered /\ \E x \in stops : x.id = r
  PROVE  ExitInv'
<1>1. /\ DOMAIN evts = 1..Len(evts) /\ DOMAIN evts' = 1..(Len(evts) + 1)
      /\ Len(evts) \in Nat /\ evts'[Len(evts) + 1] = e
      /\ \A i \in DOMAIN evts : i \in DOMAIN evts' /\ evts'[i] = evts[i]
      /\ \A i \in DOMAIN evts' : i \in DOMAIN evts \/ i = Len(evts) + 1
  BY AppendProperties, LenProperties DEF TypeOK
<1>2. PICK n : n = Len(evts) + 1
  OBVIOUS
<1>3. Awaits /\ AnswersDue /\ AnsweredOnce
  BY DEF ExitInv
<1>4. Awaits'
  BY <1>3 DEF Awaits, Unanswered, Onward
<1>5. ASSUME NEW f, Answering(f), AnswerDue(f)
      PROVE  /\ f.id \in Unanswered /\ f.id \in DOMAIN app' /\ app'[f.id] # "queued"
             /\ Answering(e) => f.id # e.id
  BY <1>5 DEF AnswerDue, Onward, Begun
<1>6. AnswersDue'
  <2>1. ASSUME NEW i \in DOMAIN work', Answering(work'[i])
        PROVE  /\ work'[i].id \in Unanswered /\ work'[i].id \in DOMAIN app'
               /\ app'[work'[i].id] # "queued"
    BY <1>3, <1>5, <2>1 DEF AnswersDue
  <2>2. ASSUME NEW i \in DOMAIN evts', Answering(evts'[i])
        PROVE  /\ evts'[i].id \in Unanswered /\ evts'[i].id \in DOMAIN app'
               /\ app'[evts'[i].id] # "queued"
    <3>1. CASE i \in DOMAIN evts
      BY <1>1, <1>3, <1>5, <2>2, <3>1 DEF AnswersDue
    <3>2. CASE i = n
      BY <1>1, <1>2, <2>2, <3>2 DEF Onward
    <3>3. QED
      BY <1>1, <1>2, <3>1, <3>2
  <2>3. QED
    BY <2>1, <2>2 DEF AnswersDue, AnswerDue, Answering, Begun, Unanswered
<1>7. AnsweredOnce'
  <2>1. ASSUME NEW i \in DOMAIN evts', NEW j \in DOMAIN evts', Answering(evts'[i]),
               Answering(evts'[j]), evts'[i].id = evts'[j].id
        PROVE  i = j
    <3>1. CASE i \in DOMAIN evts /\ j \in DOMAIN evts
      BY <1>1, <1>3, <2>1, <3>1 DEF AnsweredOnce
    <3>2. CASE i = n /\ j \in DOMAIN evts
      BY <1>1, <1>2, <1>3, <1>5, <2>1, <3>2 DEF AnswersDue
    <3>3. CASE i \in DOMAIN evts /\ j = n
      BY <1>1, <1>2, <1>3, <1>5, <2>1, <3>3 DEF AnswersDue
    <3>4. QED
      BY <1>1, <1>2, <3>1, <3>2, <3>3
  <2>2. ASSUME NEW i \in DOMAIN work, NEW j \in DOMAIN evts', Answering(work[i]),
               Answering(evts'[j])
        PROVE  work[i].id # evts'[j].id
    <3>1. CASE j \in DOMAIN evts
      BY <1>1, <1>3, <2>2, <3>1 DEF AnsweredOnce
    <3>2. CASE j = n
      BY <1>1, <1>2, <1>3, <1>5, <2>2, <3>2 DEF AnswersDue
    <3>3. QED
      BY <1>1, <1>2, <3>1, <3>2
  <2>3. QED
    BY <1>3, <2>1, <2>2 DEF AnsweredOnce, Answering
<1>8. ASSUME OneSlot' PROVE InOrder'
  <2>1. InOrder
    BY <1>8 DEF ExitInv, OneSlot
  <2>2. ASSUME NEW i, NEW r, ExitAfter(evts, i, r) PROVE ExitAfter(evts', i, r)
    BY <1>1, <2>2 DEF ExitAfter
  <2>3. ASSUME NEW i \in Nat, i < n, NEW r \in DOMAIN app, r \in Unanswered,
               app[r] = "tracked"
        PROVE  app'[r] = "tracked" \/ ExitAfter(evts', i, r)
    <3>1. CASE e.op = "exited" /\ e.id = r
      <4>1. n \in DOMAIN evts' /\ evts'[n] = e
        BY <1>1, <1>2
      <4>2. QED
        BY <2>3, <3>1, <4>1 DEF ExitAfter
    <3>2. QED
      BY <2>3, <3>1
  <2>4. ASSUME NEW i \in DOMAIN evts', evts'[i].op = "started"
        PROVE  app'[evts'[i].id] = "tracked" \/ ExitAfter(evts', i, evts'[i].id)
    <3>1. CASE i = n
      BY <1>1, <1>2, <2>4, <3>1
    <3>2. CASE i \in DOMAIN evts
      <4>1. PICK r : r = evts[i].id
        OBVIOUS
      <4>2. i \in Nat /\ i < n /\ evts'[i] = evts[i] /\ evts[i].op = "started"
        BY <1>1, <1>2, <2>4, <3>2
      <4>3. r \in Unanswered /\ r \in DOMAIN app
        BY <1>3, <3>2, <4>1, <4>2 DEF AnswersDue, AnswerDue, Answering, Begun
      <4>4. app[r] = "tracked" \/ ExitAfter(evts, i, r)
        BY <2>1, <3>2, <4>1, <4>2 DEF InOrder, StartsBeforeExits
      <4>5. QED
        BY <2>2, <2>3, <4>1, <4>2, <4>3, <4>4
    <3>3. QED
      BY <1>1, <1>2, <3>1, <3>2
  <2>5. ASSUME NEW i \in DOMAIN work, work[i].op = "started"
        PROVE  \/ app'[work[i].id] = "tracked"
               \/ ExitAfter(work, i, work[i].id) \/ ExitAfter(evts', 0, work[i].id)
    <3>1. PICK r : r = work[i].id
      OBVIOUS
    <3>2. r \in Unanswered /\ r \in DOMAIN app
      BY <1>3, <2>5, <3>1 DEF AnswersDue, AnswerDue, Answering, Begun
    <3>3. app[r] = "tracked" \/ ExitAfter(work, i, r) \/ ExitAfter(evts, 0, r)
      BY <2>1, <2>5, <3>1 DEF InOrder, StartsBeforeExits
    <3>4. 0 \in Nat /\ 0 < n
      BY <1>1, <1>2
    <3>5. QED
      BY <2>2, <2>3, <3>1, <3>2, <3>3, <3>4
  <2>6. StartsBeforeExits' /\ PollsAreLast'
    BY <2>1, <2>4, <2>5 DEF InOrder, StartsBeforeExits, PollsAreLast
  <2>7. ASSUME NEW s \in Slots PROVE Shows(s)'
    <3>1. PICK r : r = RunningPid(s)
      OBVIOUS
    <3>2. RunningPid(s)' = r
      BY <3>1 DEF RunningPid
    <3>3. r # 0 => \/ app[r] = "tracked" \/ Undelivered("exited", r)
                  \/ \E x \in stops : x.id = r
      BY <2>1, <3>1 DEF InOrder, Shows
    <3>4. Undelivered("exited", r) => Undelivered("exited", r)'
      BY <1>1 DEF Undelivered
    <3>5. e.op = "exited" /\ e.id = r => Undelivered("exited", r)'
      BY <1>1 DEF Undelivered
    <3>6. r # 0 => r \in DOMAIN app
      BY <3>1, RunningLogged, Logged DEF Kept, ProgramsKnown
    <3>7. QED
      BY <3>2, <3>3, <3>4, <3>5, <3>6 DEF Shows
  <2>8. QED
    BY <2>6, <2>7 DEF InOrder
<1>9. QED
  BY <1>4, <1>6, <1>7, <1>8 DEF ExitInv

LEMMA WorkerSpawnExits ==
  ASSUME ConstantsAssumption, TypeOK, TypeOK', Kept, ExitInv, WorkerSpawn
  PROVE  ExitInv'
<1>1. /\ cmds # <<>> /\ Head(cmds).op = "spawn"
      /\ UNCHANGED <<slot, launch, pending, cancelled, stops, work>>
  BY DEF WorkerSpawn, NextCmd, slots, tables
<1>2. PICK r : r = Head(cmds).id
  OBVIOUS
<1>3. PICK outcome \in {"started", "unconfirmed", "failed"} :
        /\ app' = [app EXCEPT ![r] = CASE outcome = "started" -> "tracked"
                                       [] outcome = "unconfirmed" -> "unconfirmed"
                                       [] outcome = "failed" -> "gone"]
        /\ evts' = Append(evts, Evt(outcome, r, TRUE))
  BY <1>2 DEF WorkerSpawn, ConstantsAssumption
<1>4. r \in DOMAIN app /\ app[r] = "queued"
  <2>1. 1 \in DOMAIN cmds /\ Head(cmds) = cmds[1]
    BY <1>1, EmptySeq, HeadTailProperties, LenProperties DEF TypeOK
  <2>2. QED
    BY <1>1, <1>2, <2>1 DEF Kept, CmdsTrue, CmdTrue
<1>5. /\ DOMAIN app' = DOMAIN app
      /\ \A p \in DOMAIN app : p # r => app'[p] = app[p]
      /\ app'[r] \in {"tracked", "unconfirmed", "gone"}
      /\ outcome = "started" => app'[r] = "tracked"
  BY <1>3, <1>4 DEF TypeOK
<1>6. Onward
  BY <1>4, <1>5 DEF Onward, Begun, Ended
<1>7. PICK e \in EvtRecord : /\ e = Evt(outcome, r, TRUE)
                             /\ e.op = outcome /\ e.id = r
  <2>1. outcome \in EvtOps /\ r \in Int
    BY <1>4, LenProperties DEF EvtOps, TypeOK
  <2>2. QED
    BY <2>1, EventMadeWell, Zenon
<1>8. r \in Unanswered /\ ~Begun(r)
  BY <1>4 DEF ExitInv, Awaits, Begun
<1>9. evts' = Append(evts, e)
  BY <1>3, <1>7
<1>10. QED
  BY <1>1, <1>4, <1>5, <1>6, <1>7, <1>8, <1>9, ToldExits

\* Whatever the worker is asked to stop is in the table of stops.
LEMMA AskedIsStopped ==
  ASSUME TypeOK, Awaited, cmds # <<>>, Head(cmds).op = "terminate"
  PROVE  \E x \in stops : x.id = Head(cmds).id
<1>1. PICK p : p = Head(cmds).id
  OBVIOUS
<1>2. Head(cmds) \in CmdRecord
  BY HeadTailProperties DEF TypeOK
<1>3. p \in Int /\ Head(cmds) \in Asking(p)
  BY <1>1, <1>2 DEF Asking, Cmd, CmdRecord
<1>4. Count(cmds, Asking(p)) = Count(Tail(cmds), Asking(p)) + 1
  BY <1>3, CountTail DEF TypeOK
<1>5. /\ Count(Tail(cmds), Asking(p)) \in Nat /\ Count(evts, Answers(p)) \in Nat
      /\ Count(work, Answers(p)) \in Nat
  BY HeadTailProperties, CountType DEF TypeOK
<1>6. Cardinality(StopsFor(p)) # 0
  BY <1>3, <1>4, <1>5 DEF Awaited, Balanced
<1>7. StopsFor(p) # {}
  BY <1>6, FS_EmptySet
<1>8. QED
  BY <1>1, <1>7 DEF StopsFor

LEMMA WorkerAnswerExits ==
  ASSUME ConstantsAssumption, TypeOK, TypeOK', Awaited, Kept, Wants, ExitInv,
         "recover" \notin Requests, WorkerTerminate \/ WorkerTerminateUnconfirmed
  PROVE  ExitInv'
<1>1. /\ cmds # <<>> /\ UNCHANGED <<slot, launch, pending, cancelled, stops, work>>
  BY DEF WorkerTerminate, WorkerTerminateUnconfirmed, NextCmd, slots, tables
<1>2. PICK r : r = Head(cmds).id
  OBVIOUS
<1>3. 1 \in DOMAIN cmds /\ Head(cmds) = cmds[1] /\ r \in Int
  <2>1. /\ 1 \in DOMAIN cmds /\ Head(cmds) = cmds[1]
        /\ Head(cmds) \in CmdRecord
    BY <1>1, EmptySeq, HeadTailProperties, LenProperties DEF TypeOK
  <2>2. QED
    BY <1>2, <2>1 DEF CmdRecord
<1>4. /\ DOMAIN app \subseteq Nat \ {0}
      /\ app \in [DOMAIN app -> AppStates]
  BY LenProperties DEF TypeOK
<1>5. PICK op \in {"terminated", "terminatedUnconfirmed"}, ok \in BOOLEAN :
        /\ evts' = Append(evts, Evt(op, r, ok))
        /\ app' \in {app, [app EXCEPT ![r] = "gone"]}
        /\ app' # app => r \in DOMAIN app /\ app[r] # "queued"
        /\ app' # app /\ app[r] = "tracked" => Head(cmds).op = "terminate"
  <2>1. CASE WorkerTerminate
    <3> DEFINE known == r > 0 /\ app[r] \in {"tracked", "reported"}
    <3>1. /\ evts' = Append(evts, Evt("terminated", r, known))
          /\ app' = IF known THEN [app EXCEPT ![r] = "gone"] ELSE app
          /\ Head(cmds).op = "terminate"
      BY <1>2, <2>1 DEF WorkerTerminate, NextCmd
    <3>2. Begun(r) /\ known \in BOOLEAN
      BY <1>2, <1>3, <3>1 DEF Kept, CmdsTrue, CmdTrue
    <3> HIDE DEF known
    <3>3. QED
      BY <3>1, <3>2 DEF Begun
  <2>2. CASE WorkerTerminateUnconfirmed
    <3> DEFINE known == app[r] = "unconfirmed"
    <3>1. /\ evts' = Append(evts, Evt("terminatedUnconfirmed", r, known))
          /\ app' = IF known THEN [app EXCEPT ![r] = "gone"] ELSE app
      BY <1>2, <2>2 DEF WorkerTerminateUnconfirmed, NextCmd
    <3>2. app' # app => r \in DOMAIN app /\ app[r] = "unconfirmed"
      BY <1>4, <3>1
    <3>3. known \in BOOLEAN
      OBVIOUS
    <3> HIDE DEF known
    <3>4. QED
      BY <3>1, <3>2, <3>3
  <2>3. QED
    BY <2>1, <2>2
<1>6. /\ DOMAIN app' = DOMAIN app
      /\ \A p \in DOMAIN app :
           \/ app'[p] = app[p]
           \/ /\ p = r /\ app'[p] = "gone" /\ app[p] # "queued"
              /\ app[p] = "tracked" => Head(cmds).op = "terminate"
  BY <1>4, <1>5
<1>7. Onward
  BY <1>6 DEF Onward, Begun, Ended
<1>8. PICK e \in EvtRecord : /\ e = Evt(op, r, ok)
                             /\ e.op = op /\ e.id = r
  <2>1. op \in EvtOps
    BY DEF EvtOps
  <2>2. QED
    BY <1>3, <2>1, EventMade
<1>9. ASSUME Head(cmds).op = "terminate"
      PROVE  r \notin Unanswered /\ \E x \in stops : x.id = r
  <2>1. PICK x \in stops : x.id = r
    BY <1>1, <1>2, <1>9, AskedIsStopped
  <2>2. x.id \notin Unanswered
    BY <2>1 DEF Wants, StopDecided, Fresh
  <2>3. QED
    BY <2>1, <2>2
<1>10. evts' = Append(evts, e) /\ ~Answering(e) /\ e.op # "started"
  BY <1>5, <1>8 DEF Answering
<1>11. \A p \in DOMAIN app : app'[p] = "queued" => app[p] = "queued"
  BY <1>6
<1>12. \A p \in DOMAIN app : app[p] = "tracked" =>
         app'[p] = "tracked" \/ (p \notin Unanswered /\ \E x \in stops : x.id = p)
  BY <1>6, <1>9
<1>13. QED
  BY <1>1, <1>7, <1>10, <1>11, <1>12, ToldExits

\* A program that ended is told to have, once.
LEMMA ReapExits ==
  ASSUME ConstantsAssumption, TypeOK, TypeOK', Kept, ExitInv, NEW r \in DOMAIN app,
         ReapStarted(r) \/ ReapReported(r) \/ ReapUnconfirmed(r)
  PROVE  ExitInv'
<1>1. UNCHANGED <<slot, launch, pending, cancelled, stops, work>>
  BY DEF ReapStarted, ReapReported, ReapUnconfirmed, slots, tables
<1>2. CASE ReapReported(r)
  <2>1. /\ app[r] = "reported" /\ evts' = evts
        /\ app' = [app EXCEPT ![r] = "gone"]
    BY <1>2 DEF ReapReported
  <2>2. /\ DOMAIN app' = DOMAIN app /\ app'[r] = "gone"
        /\ \A p \in DOMAIN app : p # r => app'[p] = app[p]
    BY <2>1 DEF TypeOK
  <2>3. QED
    BY <1>1, <2>1, <2>2, UntoldExits
<1>3. CASE ReapStarted(r) \/ ReapUnconfirmed(r)
  <2>1. PICK op \in {"exited", "unconfirmedExited"} :
          /\ evts' = Append(evts, Evt(op, r, TRUE))
          /\ app[r] = IF op = "exited" THEN "tracked" ELSE "unconfirmed"
          /\ app' \in {[app EXCEPT ![r] = "reported"], [app EXCEPT ![r] = "gone"]}
    BY <1>3 DEF ReapStarted, ReapUnconfirmed
  <2>2. /\ DOMAIN app' = DOMAIN app /\ app'[r] \in {"reported", "gone"}
        /\ \A p \in DOMAIN app : p # r => app'[p] = app[p]
    BY <2>1 DEF TypeOK
  <2>3. Onward
    BY <2>1, <2>2 DEF Onward, Begun, Ended
  <2>4. r \in Int
    BY LenProperties DEF TypeOK
  <2>5. PICK e \in EvtRecord : /\ e = Evt(op, r, TRUE)
                               /\ e.op = op /\ e.id = r
    <3>1. op \in EvtOps
      BY DEF EvtOps
    <3>2. QED
      BY <2>4, <3>1, EventMadeWell, Zenon
  <2>6. evts' = Append(evts, e) /\ ~Answering(e) /\ e.op # "started"
    BY <2>1, <2>5 DEF Answering
  <2>7. \A p \in DOMAIN app : app'[p] = "queued" => app[p] = "queued"
    BY <2>2
  <2>8. \A p \in DOMAIN app : app[p] = "tracked" =>
          app'[p] = "tracked" \/ (e.op = "exited" /\ e.id = p)
    BY <2>1, <2>2, <2>5
  <2>9. QED
    BY <1>1, <2>3, <2>6, <2>7, <2>8, ToldExits
<1>4. QED
  BY <1>2, <1>3

-----------------------------------------------------------------------------
(* No dead program is shown                                                 *)

LEMMA InitExits ==
  ASSUME ConstantsAssumption, Init
  PROVE  ExitInv
<1>1. /\ app = <<>> /\ evts = <<>> /\ work = <<>>
      /\ \A s \in Slots : slot[s].st = "absent"
  BY DEF Init, Vacant
<1>2. DOMAIN app = {} /\ DOMAIN evts = {} /\ DOMAIN work = {}
  BY <1>1, EmptySeq
<1>3. \A s \in Slots : RunningPid(s) = 0
  BY <1>1 DEF RunningPid, Live
<1>4. Awaits /\ AnswersDue /\ AnsweredOnce
  BY <1>2 DEF Awaits, AnswersDue, AnsweredOnce
<1>5. InOrder
  BY <1>2, <1>3 DEF InOrder, StartsBeforeExits, PollsAreLast, Shows
<1>6. QED
  BY <1>4, <1>5 DEF ExitInv

LEMMA NextExits ==
  ASSUME ConstantsAssumption, OwnWindows, "recover" \notin Requests,
         TypeOK, TypeOK', Indexed, Awaited, Kept, Wants, ExitInv, [Next]_vars
  PROVE  ExitInv'
<1>1. CASE Step
  BY <1>1, SpawnStartedExits, NotStartedExits, ExitedExits, TerminatedExits,
     UnconfirmedEndExits, PolledExits, LaunchSlotExits, RemovalExits DEF Step
<1>2. CASE RequestStep
  <2>1. CASE ResetRuntime \/ \E i \in Specs : SelectMainApp(i)
    BY <2>1, MainRequestsExits
  <2>2. CASE \/ RuntimeRunning \/ OpenShell
             \/ \E p \in Panes : LaunchNativePaneHost(p)
             \/ \E incoming \in SUBSET Panes : ApplyProviderSnapshot(incoming)
    BY <2>2, QuietRequestsExits
  <2>3. CASE DismissShell
    BY <2>3, DismissShellExits
  <2>4. CASE \E p \in Panes, spec \in Specs, rev \in 0..MaxRevision :
               NativePaneHost(p, spec, rev) \/ NativePaneUpdate(p, spec, rev)
    BY <2>4, PaneRequestsExits
  <2>5. CASE \E p \in Panes : NativePaneRelease(p) \/ SwitchToSurfAce(p)
    BY <2>5, PaneRequestsExits
  <2>6. ASSUME NEW p \in Panes, NEW spec \in Specs PROVE ~SwitchToExternal(p, spec)
    BY DEF SwitchToExternal, Request, OwnWindows
  <2>7. ASSUME NEW r \in DOMAIN app PROVE ~RecoverOverlay(r)
    BY DEF RecoverOverlay, Request
  <2>8. QED
    BY <1>2, <2>1, <2>2, <2>3, <2>4, <2>5, <2>6, <2>7 DEF RequestStep
<1>3. CASE PollRequest
  BY <1>3, QuietRequestsExits
<1>4. CASE Window
  BY <1>4, WindowExits DEF Window, OwnWindows
<1>5. CASE Worker
  BY <1>5, WorkerSpawnExits, WorkerAnswerExits, ReapExits DEF Worker
<1>6. CASE UNCHANGED vars \/ \E r \in DOMAIN app : AppExits(r)
  <2>1. UNCHANGED <<slot, launch, pending, cancelled, stops, evts, work, app>>
    BY <1>6 DEF AppExits, vars, slots, tables, children
  <2>2. QED
    BY <2>1, UntoldExits
<1>7. QED
  BY <1>1, <1>2, <1>3, <1>4, <1>5, <1>6 DEF Next

(* As long as one slot alone was launched, a slot that says it runs a       *)
(* program when nothing is left to apply runs one the worker still manages, *)
(* or one that is being stopped: the exit is told after the start and       *)
(* applied after it (poll_processes, record_process_exit_with_observation). *)
(* With a second slot the poll of its launch may apply the exit first, see  *)
(* README.md.                                                               *)
THEOREM OnlyLiveProgramsShown ==
  OwnWindows /\ "recover" \notin Requests /\ Spec => []LoneSlotShowsLiveProgram
<1> DEFINE NoRecovery == OwnWindows /\ "recover" \notin Requests
           EInv == IndexInv /\ Awaited /\ Kept /\ Wants /\ ExitInv
<1>1. NoRecovery /\ Init => EInv
  BY ConstantsAssumption, InitType, InitIndexed, InitAwaited, InitKept, InitWants,
     InitExits DEF IndexInv, Indexed
<1>2. NoRecovery /\ EInv /\ [Next]_vars => EInv'
  <2> SUFFICES ASSUME NoRecovery, IndexInv, Awaited, Kept, Wants, ExitInv, [Next]_vars
               PROVE  IndexInv' /\ Awaited' /\ Kept' /\ Wants' /\ ExitInv'
    OBVIOUS
  <2>1. TypeOK' /\ Indexed' /\ TypeOK /\ Indexed
    BY ConstantsAssumption, NextType, NextIndexed DEF IndexInv, Indexed
  <2>2. Awaited' /\ Kept' /\ Wants' /\ ExitInv'
    BY ConstantsAssumption, <2>1, NextAwaited, NextKept, NextWants, NextExits
  <2>3. QED
    BY <2>1, <2>2 DEF IndexInv, Indexed
<1>3. EInv => LoneSlotShowsLiveProgram
  BY ExitsAreSeen DEF IndexInv, LoneSlotShowsLiveProgram
<1>4. OwnWindows /\ "recover" \notin Requests => NoRecovery
  OBVIOUS
<1> HIDE DEF EInv, NoRecovery
<1>5. CASE NoRecovery
  <2>1. Init => EInv
    BY <1>1, <1>5
  <2>2. EInv /\ [Next]_vars => EInv'
    BY <1>2, <1>5
  <2>3. QED
    BY <1>3, <2>1, <2>2, PTL DEF Spec
<1>6. CASE ~NoRecovery
  BY <1>4, <1>6, SMTT(60)
<1>7. QED
  BY <1>5, <1>6
===============================================================================
