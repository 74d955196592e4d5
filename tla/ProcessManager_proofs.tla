------------------------ MODULE ProcessManager_proofs ------------------------
(***************************************************************************)
(* Proofs about ProcessManager, for any number of requests, process ids    *)
(* and unit slots, any faults together and any units left from before.     *)
(*                                                                         *)
(* ManagerInv says what the books of the worker, the session of each       *)
(* request and the kernel's process ids have to do with each other between *)
(* any two steps of the worker, a supervisor, a client or a program.       *)
(***************************************************************************)
EXTENDS ProcessManager, SequenceTheorems, WellFoundedInduction, TLAPS

\* The last answer about x in a channel e and what was drained before it.
NewsOf(e, t, x) ==
  LET about == {i \in DOMAIN e : x \in {e[i].id, e[i].req}}
  IN IF about = {} THEN t[x] ELSE e[Max(about)]

Heard(x) == NewsOf(evts, told, x)

Entries ==
  [req : 0..MaxRequests, name : {NoSlot} \cup UnitSlots, unitless : BOOLEAN,
   reader : BOOLEAN, reported : BOOLEAN, closed : BOOLEAN]
Workers ==
  [at : Places, req : 0..MaxRequests, tried : SUBSET UnitSlots,
   collided : {NoSlot} \cup UnitSlots, todo : SUBSET Pids, late : SUBSET Requests]
Running ==
  [pid : {0} \cup Pids, st : {"none", "runs", "zombie"}, in : {"none", "unit", "compositor"}]

Cmds ==
  [op : {"spawn", "terminateUnconfirmed"}, id : Requests]
    \cup [op : {"terminate"}, id : Pids] \cup {Cmd("shutdown", 0)}
Evts ==
  [op : {"started"}, id : Pids, req : Requests]
    \cup [op : {"exited", "terminated"}, id : Pids, req : {0}]
    \cup [op : {"failed", "unconfirmed", "unconfirmedExited", "terminatedUnconfirmed"},
          id : Requests, req : {0}]

\* What a supervisor sends: that its program was started as process p, that
\* it could not be, that it ended.
Begun(p)   == [op |-> "started", pid |-> p]
NotBegun   == [op |-> "startFailed", pid |-> 0]
Over       == [op |-> "exited", pid |-> 0]

Types ==
  /\ asked \in 0..MaxRequests /\ shutdown \in BOOLEAN
  /\ cmds \in Seq(Cmds) /\ evts \in Seq(Evts)
  /\ told \in [Pids \cup Requests -> Evts \cup {NoNews}]
  /\ worker \in Workers
  /\ children \in [Pids -> Entries] /\ unconf \in SUBSET Requests
  /\ name \in [Requests -> {NoSlot} \cup UnitSlots]
  /\ unit \in [UnitSlots -> -1..MaxRequests]
  /\ sup \in [Requests -> SupStates]
  /\ client \in [Requests -> {"none", "waits", "ended"}]
  /\ link \in [Requests -> {"none", "open", "request"}]
  /\ DOMAIN pipe = Requests /\ pipe = [r \in Requests |-> pipe[r]]
  /\ program \in [Requests -> Running]
  /\ starts \in [Requests -> Nat]

\* The spawn of r was not asked for, or waits in the channel.
Waiting(r) == r > asked \/ \E i \in DOMAIN cmds : cmds[i] = Cmd("spawn", r)

\* The channel: each spawn is asked for once, and an unconfirmed start is
\* stopped only after it was answered.
Queue ==
  \A i \in DOMAIN cmds :
    /\ cmds[i].op = "spawn" =>
         /\ cmds[i].id <= asked
         /\ \A j \in DOMAIN cmds : cmds[i] = cmds[j] => i = j
    /\ cmds[i].op = "terminateUnconfirmed" => Heard(cmds[i].id) # NoNews

IsTracked(r) == \E p \in Pids : children[p].req = r

\* Nobody looks after r yet, and nothing was done for it.
Unheld(r)    == ~IsTracked(r) /\ r \notin unconf /\ Heard(r) = NoNews
Unstarted(r) ==
  /\ starts[r] = 0 /\ program[r] = NoProgram /\ sup[r] = "none" /\ client[r] = "none"
  /\ link[r] = "none" /\ pipe[r] = <<>>

Waits(r) == Waiting(r) => worker.req # r /\ Unheld(r) /\ Unstarted(r)

\* The next report on the socket of r is the start of its program as p.
ToldBegun(r, p) == pipe[r] \in {<<Begun(p)>>, <<Begun(p), Over>>}

\* What the worker does for the request it holds.
Holds(r) ==
  /\ r \in Requests /\ Unheld(r)
  /\ At("choose") => Unstarted(r)
  /\ At("accept") =>
       /\ starts[r] = 0 /\ link[r] \in {"none", "open"} /\ sup[r] # "none"
       /\ client[r] = "ended" => sup[r] = "gone"
       /\ unit[name[r]] \in {r, 0}
  /\ At("started") =>
       /\ link[r] = "request" /\ unit[name[r]] \in {r, 0}
       /\ starts[r] = 1 =>
            \E p \in Pids :
              /\ ToldBegun(r, p)
              /\ Tracked(p) => program[children[p].req] = NoProgram

WorkerAt ==
  /\ worker.at \in {"choose", "accept", "started"} => Holds(worker.req)
  /\ worker.at \in {"idle", "reap", "down"} => worker.req = 0
  /\ worker.todo \subseteq {p \in Pids : Tracked(p)} /\ worker.late \subseteq unconf
  /\ worker.todo # {} \/ worker.late # {} => At("reap")

\* A start that is not confirmed, and who may still start a program.
Late(r) ==
  /\ r \in unconf =>
       /\ ~IsTracked(r) /\ link[r] \in {"open", "request"}
       /\ At("down") \/ Heard(r) # NoNews
  /\ MayStart(r) => \/ worker.req = r \/ r \in unconf \/ At("down")
                    \/ Heard(r).op = "terminatedUnconfirmed"

\* The supervisor of r, its client, its socket and its program.
Session(r) ==
  /\ sup[r] = "none" <=> client[r] = "none"
  /\ sup[r] \in {"none", "starting"} => link[r] = "none"
  /\ sup[r] = "connected" => link[r] # "none"
  /\ MayStart(r) => starts[r] = 0 /\ pipe[r] = <<>>
  /\ sup[r] \in {"supervises", "drains"} => link[r] = "request"
  /\ link[r] # "request" => pipe[r] = <<>>
  /\ link[r] = "request" /\ client[r] = "ended" => sup[r] = "gone"
  /\ starts[r] \in {0, 1}
  /\ program[r].in = "unit" <=> sup[r] = "supervises"
  /\ \/ program[r] = NoProgram
     \/ /\ program[r].in # "none" /\ program[r].st # "none"
        /\ program[r].pid \in Pids /\ starts[r] = 1
  /\ program[r].in = "compositor" =>
       children[program[r].pid].req = r /\ children[program[r].pid].unitless

\* The unit of r has its name as long as its supervisor is there.
Unit(r) ==
  /\ \A s \in UnitSlots : unit[s] = r => name[r] = s /\ sup[r] \notin {"none", "gone"}
  /\ sup[r] \notin {"none", "gone"} => name[r] \in UnitSlots /\ unit[name[r]] = r
  /\ sup[r] # "none" => name[r] \in UnitSlots
  /\ name[r] \in UnitSlots => unit[name[r]] # -1

\* What is on the socket of r is true.
Reports(r) ==
  \/ pipe[r] = <<>>
  \/ pipe[r] = <<NotBegun>> /\ starts[r] = 0 /\ sup[r] = "gone"
  \/ /\ starts[r] = 1
     /\ \E p \in Pids : pipe[r] = <<Begun(p)>> /\ program[r].pid \in {0, p}
  \/ /\ starts[r] = 1 /\ program[r] = NoProgram
     /\ \/ pipe[r] = <<Over>>
        \/ \E p \in Pids : pipe[r] = <<Begun(p), Over>>

\* The entry of process id p.
Entry(p) ==
  LET e == children[p]
      r == e.req
  IN Tracked(p) =>
       /\ r \notin unconf /\ worker.req # r /\ starts[r] = 1
       /\ At("down") \/ Heard(r) # NoNews
       /\ Runs(r) => At("down") \/ Heard(p) = Started(p, r)
       /\ \A q \in Pids : children[q].req = r => q = p
       /\ program[r] = NoProgram \/ program[r].pid = p
       /\ e.unitless => ~e.reported /\ program[r].in = "compositor" /\ link[r] # "request"
       /\ ~e.unitless =>
            /\ link[r] = "request" /\ name[r] = e.name /\ e.name \in UnitSlots
            /\ unit[e.name] \in {r, 0}
            /\ pipe[r] \in {<<>>, <<Over>>}
            /\ e.reported => program[r] = NoProgram

SamePid ==
  \A q, r \in Requests : program[q].pid = program[r].pid /\ program[q].pid # 0 => q = r

\* The inductive invariant.
ManagerInv ==
  /\ Types /\ Queue /\ WorkerAt /\ SamePid
  /\ \A r \in Requests : Waits(r) /\ Late(r) /\ Session(r) /\ Unit(r) /\ Reports(r)
  /\ \A p \in Pids : Entry(p)

-----------------------------------------------------------------------------
(* Largest and smallest members *)

LEMMA MinIs ==
  ASSUME NEW S \in SUBSET Nat, S # {}
  PROVE  Min(S) \in S /\ \A y \in S : Min(S) <= y
<1> DEFINE Less == {ss \in Nat \X Nat : ss[1] < ss[2]}
<1>0. IsWellFoundedOn(Less, Nat)
  BY NatLessThanWellFounded DEF OpToRel
<1>1. PICK x \in S : \A y \in S : ~(<<y, x>> \in Less)
  <2> HIDE DEF Less
  <2> QED
    BY <1>0, WFMin
<1>2. \A y \in S : x <= y
  <2> TAKE y \in S
  <2>1. <<y, x>> \in Nat \X Nat /\ <<y, x>>[1] = y /\ <<y, x>>[2] = x
    OBVIOUS
  <2>2. ~(y < x)
    BY <1>1, <2>1
  <2> QED
    BY <2>2
<1>3. Min(S) \in S /\ \A y \in S : Min(S) =< y
  BY <1>2 DEF Min
<1> QED
  BY <1>3

LEMMA MaxIs ==
  ASSUME NEW n \in Nat, NEW S \in SUBSET 1..n, S # {}
  PROVE  Max(S) \in S /\ \A y \in S : y <= Max(S)
<1> DEFINE T == {n - y : y \in S}
<1>0. PICK z \in S : TRUE
  OBVIOUS
<1>1. T \in SUBSET Nat /\ T # {}
  <2>1. \A y \in S : n - y \in Nat
    OBVIOUS
  <2>2. n - z \in T
    OBVIOUS
  <2> QED
    BY <2>1, <2>2
<1>2. Min(T) \in T /\ \A w \in T : Min(T) <= w
  BY <1>1, MinIs
<1>3. PICK x \in S : Min(T) = n - x
  BY <1>2
<1>4. \A y \in S : x >= y
  <2> TAKE y \in S
  <2>1. n - y \in T
    OBVIOUS
  <2>2. n - x <= n - y
    BY <2>1, <1>2, <1>3
  <2> QED
    BY <2>2
<1> QED
  BY <1>4 DEF Max

-----------------------------------------------------------------------------
(* What was said last *)

\* An answer becomes the last one about whom it names, and about nobody else.
LEMMA NewsOfAppend ==
  ASSUME NEW e \in Seq(Evts), NEW v \in Evts, NEW t, NEW x
  PROVE  NewsOf(Append(e, v), t, x) = IF x \in {v.id, v.req} THEN v ELSE NewsOf(e, t, x)
<1> DEFINE n == Len(e)
           f == Append(e, v)
           old == {i \in DOMAIN e : x \in {e[i].id, e[i].req}}
           new == {i \in DOMAIN f : x \in {f[i].id, f[i].req}}
<1>1. n \in Nat /\ DOMAIN e = 1..n /\ DOMAIN f = 1..(n+1)
  OBVIOUS
<1>2. f[n+1] = v /\ \A i \in 1..n : f[i] = e[i]
  OBVIOUS
<1>3. NewsOf(e, t, x) = IF old = {} THEN t[x] ELSE e[Max(old)]
  BY DEF NewsOf
<1>4. NewsOf(f, t, x) = IF new = {} THEN t[x] ELSE f[Max(new)]
  BY DEF NewsOf
<1> HIDE DEF n, f
<1>5. CASE x \in {v.id, v.req}
  <2>1. new \in SUBSET 1..(n+1) /\ n+1 \in new /\ n+1 \in Nat
    BY <1>1, <1>2, <1>5
  <2>2. Max(new) \in new /\ \A y \in new : y <= Max(new)
    <3> HIDE DEF new
    <3> QED
      BY <2>1, MaxIs
  <2>3. Max(new) = n + 1
    <3>1. n \in Nat
      BY <1>1
    <3> HIDE DEF new
    <3>2. Max(new) \in 1..(n+1) /\ n+1 <= Max(new)
      BY <2>1, <2>2
    <3> QED
      BY <3>1, <3>2
  <2>4. new # {}
    BY <2>1
  <2> HIDE DEF new
  <2> QED
    BY <2>3, <2>4, <1>2, <1>4, <1>5 DEF f
<1>6. CASE x \notin {v.id, v.req}
  <2>1. new = old
    BY <1>1, <1>2, <1>6
  <2>2. CASE old = {}
    BY <2>1, <2>2, <1>3, <1>4, <1>6 DEF f
  <2>3. CASE old # {}
    <3>1. old \in SUBSET 1..n
      BY <1>1
    <3>2. Max(old) \in 1..n
      <4> HIDE DEF old
      <4> QED
        BY <3>1, <2>3, <1>1, MaxIs
    <3> HIDE DEF old, new
    <3> QED
      BY <2>1, <2>3, <3>2, <1>2, <1>3, <1>4, <1>6 DEF f
  <2> QED
    BY <2>2, <2>3
<1> QED
  BY <1>5, <1>6

LEMMA NewsOfDrained ==
  ASSUME NEW t, NEW x
  PROVE  NewsOf(<<>>, t, x) = t[x]
<1>1. {i \in DOMAIN <<>> : x \in {<<>>[i].id, <<>>[i].req}} = {}
  OBVIOUS
<1> QED
  BY <1>1 DEF NewsOf

LEMMA NewsIsHeard ==
  ASSUME NEW x
  PROVE  News(x) = Heard(x)
BY DEF News, Heard, NewsOf

LEMMA HeardType ==
  ASSUME NEW e \in Seq(Evts), NEW t \in [Pids \cup Requests -> Evts \cup {NoNews}],
         NEW x \in Pids \cup Requests
  PROVE  NewsOf(e, t, x) \in Evts \cup {NoNews}
<1> DEFINE about == {i \in DOMAIN e : x \in {e[i].id, e[i].req}}
<1>1. NewsOf(e, t, x) = IF about = {} THEN t[x] ELSE e[Max(about)]
  BY DEF NewsOf
<1>2. CASE about = {}
  BY <1>1, <1>2
<1>3. CASE about # {}
  <2>1. about \in SUBSET 1..Len(e) /\ Len(e) \in Nat
    OBVIOUS
  <2>2. Max(about) \in DOMAIN e
    <3>1. Max(about) \in about
      <4> HIDE DEF about
      <4> QED
        BY <2>1, <1>3, MaxIs
    <3> QED
      BY <3>1
  <2>3. e[Max(about)] \in Evts
    <3> HIDE DEF about
    <3> QED
      BY <2>2
  <2> QED
    BY <1>1, <1>3, <2>3
<1> QED
  BY <1>2, <1>3

\* Requests, process ids and the id of no request are three things.
LEMMA Ids ==
  /\ Pids \cap Requests = {} /\ 0 \notin Pids /\ 0 \notin Requests
  /\ Pids \subseteq Nat /\ Requests \subseteq Nat
  /\ \A r \in Requests : r \in 0..MaxRequests
BY ConstantsAssumption DEF Requests

\* An entry of the table is that of a request whose program was started.
LEMMA TrackedEntry ==
  ASSUME ManagerInv, NEW p \in Pids, Tracked(p)
  PROVE  children[p].req \in Requests /\ Entry(p) /\ children[p] \in Entries
BY DEF ManagerInv, Types, Entries, Tracked, Requests

-----------------------------------------------------------------------------
(* The end of a unit *)

\* What the worker and the compositor know is left alone.
Aside == UNCHANGED <<asked, cmds, evts, told, shutdown, worker, children, unconf, name>>

\* A session that was begun is over, with its program if that was in the
\* unit; a supervisor that could not start it said so before.
LEMMA EndedUnit ==
  ASSUME ManagerInv, NEW q \in Requests, sup[q] # "none",
         EndUnit(q), Aside, UNCHANGED <<client, link>>,
         \/ UNCHANGED pipe
         \/ MayStart(q) /\ pipe' = [pipe EXCEPT ![q] = <<NotBegun>>]
  PROVE  ManagerInv'
<1> USE DEF Aside
<1>0. /\ Types
      /\ unit' = [s \in UnitSlots |-> IF unit[s] = q THEN 0 ELSE unit[s]]
      /\ sup' = [sup EXCEPT ![q] = "gone"] /\ starts' = starts
      /\ \/ program[q].in = "unit" /\ program' = [program EXCEPT ![q] = NoProgram]
         \/ program[q].in # "unit" /\ program' = program
  BY DEF EndUnit, ManagerInv
<1>a. NoProgram \in Running /\ NoProgram.pid = 0 /\ NoProgram.st = "none" /\ NoProgram.in = "none"
  BY DEF NoProgram, Running
<1>b. \A r \in Requests : \/ program'[r] = program[r]
                          \/ r = q /\ program[r].in = "unit" /\ program'[r] = NoProgram
  BY <1>0 DEF Types
<1>c. \A r \in Requests : \/ pipe'[r] = pipe[r]
                          \/ r = q /\ MayStart(r) /\ pipe'[r] = <<NotBegun>>
  BY <1>0 DEF Types
<1>d. \A r \in Requests : sup'[r] = IF r = q THEN "gone" ELSE sup[r]
  BY <1>0 DEF Types
<1>1. Types'
  <2>1. unit' \in [UnitSlots -> -1..MaxRequests]
    <3>1. 0 \in -1..MaxRequests
      BY ConstantsAssumption
    <3> QED
      BY <1>0, <3>1 DEF Types
  <2>2. sup' \in [Requests -> SupStates]
    BY <1>0 DEF Types, SupStates
  <2>3. program' \in [Requests -> Running]
    <3>1. program \in [Requests -> Running] /\ NoProgram \in Running
      BY <1>0, <1>a DEF Types
    <3>2. program' = program \/ program' = [program EXCEPT ![q] = NoProgram]
      BY <1>0
    <3> QED
      BY <3>1, <3>2
  <2>4. DOMAIN pipe' = Requests /\ pipe' = [r \in Requests |-> pipe'[r]]
    BY <1>0 DEF Types
  <2> QED
    BY <1>0, <2>1, <2>2, <2>3, <2>4 DEF Types
<1>2. Queue'
  BY DEF ManagerInv, Queue, Heard
<1>3. WorkerAt'
  <2>1. ASSUME NEW w \in Requests, Holds(w), worker.req = w PROVE Holds(w)'
    <3>1. Unheld(w)' /\ (At("choose")' => At("choose")) /\ (At("accept")' => At("accept")) /\ (At("started")' => At("started"))
      BY <2>1 DEF Holds, Unheld, Heard, IsTracked, At
    <3>2. At("choose") => Unstarted(w)'
      BY <1>0, <1>b, <1>c, <1>d, <2>1 DEF Holds, Unstarted
    <3>3. At("accept") => /\ (starts[w] = 0 /\ link[w] \in {"none", "open"} /\ sup[w] # "none")'
                            /\ (client'[w] = "ended" => sup'[w] = "gone")
      BY <1>0, <1>d, <2>1 DEF Holds
    <3>6. At("accept") \/ At("started") => unit'[name'[w]] \in {w, 0}
      <4>1. At("accept") \/ At("started") => name[w] \in UnitSlots /\ unit[name[w]] \in {w, 0}
        BY <2>1 DEF Holds, ManagerInv, Unit, Session
      <4> QED
        BY <1>0, <4>1
    <3>4. ASSUME At("started"), starts[w] = 1
          PROVE \E p \in Pids : /\ ToldBegun(w, p)'
                                /\ Tracked(p)' => program'[children[p].req] = NoProgram
      <4>1. PICK p \in Pids : ToldBegun(w, p) /\ (Tracked(p) => program[children[p].req] = NoProgram)
        BY <2>1, <3>4 DEF Holds
      <4>2. pipe'[w] = pipe[w]
        BY <1>c, <3>4 DEF ManagerInv, Session
      <4>3. Tracked(p) => children[p].req \in Requests
        BY <1>0 DEF Types, Entries, Tracked, Requests
      <4> QED
        BY <4>1, <4>2, <4>3, <1>b DEF ToldBegun, Tracked
    <3>5. At("started") => link'[w] = "request" /\ starts' = starts
      BY <1>0, <2>1 DEF Holds
    <3> QED
      BY <3>1, <3>2, <3>3, <3>4, <3>5, <3>6 DEF Holds, Tracked
  <2>2. worker.at \in {"choose", "accept", "started"} => Holds(worker.req) /\ worker.req \in Requests
    BY DEF ManagerInv, WorkerAt, Holds
  <2> QED
    BY <2>1, <2>2 DEF ManagerInv, WorkerAt, Tracked, At
<1>4. SamePid'
  BY <1>a, <1>b DEF ManagerInv, SamePid
<1>5. ASSUME NEW r \in Requests PROVE Waits(r)'
  BY <1>0 DEF ManagerInv, Types, Waits, Waiting, Unheld, Unstarted, Heard, IsTracked
<1>6. ASSUME NEW r \in Requests PROVE Late(r)'
  BY <1>0 DEF ManagerInv, Types, Late, MayStart, Heard, IsTracked, At
<1>7. ASSUME NEW r \in Requests PROVE Session(r)'
  BY <1>0 DEF ManagerInv, Types, Session, MayStart, NoProgram
<1>8. ASSUME NEW r \in Requests PROVE Unit(r)'
  BY <1>0, Ids DEF ManagerInv, Types, Unit
<1>9. ASSUME NEW r \in Requests PROVE Reports(r)'
  <2>1. CASE pipe'[r] = pipe[r]
    BY <1>0, <1>a, <1>b, <1>d, <2>1 DEF ManagerInv, Reports, Session
  <2>2. CASE r = q /\ MayStart(r) /\ pipe'[r] = <<NotBegun>>
    BY <1>0, <1>d, <2>2 DEF ManagerInv, Reports, Session
  <2> QED
    BY <2>1, <2>2, <1>c
<1>10. ASSUME NEW p \in Pids PROVE Entry(p)'
  <2> SUFFICES ASSUME Tracked(p) PROVE Entry(p)'
    BY DEF Entry, Tracked
  <2> DEFINE r == children[p].req
  <2>1. r \in Requests /\ Entry(p) /\ children[p] \in Entries
    BY DEF ManagerInv, Types, Entries, Tracked, Requests
  <2>2. pipe'[r] = pipe[r]
    BY <2>1, <1>c DEF ManagerInv, Session, Entry
  <2>3. unit'[children[p].name] = unit[children[p].name] \/ unit'[children[p].name] = 0 \/ children[p].unitless
    BY <2>1, <1>0 DEF Entry, Entries
  <2> QED
    BY <1>0, <1>a, <1>b, <2>1, <2>2, <2>3 DEF Entry, Tracked, At, Heard, Runs, Entries
<1> QED
  BY <1>1, <1>2, <1>3, <1>4, <1>5, <1>6, <1>7, <1>8, <1>9, <1>10 DEF ManagerInv

-----------------------------------------------------------------------------
(* A step of one session: its supervisor, client or program *)

SameSession(r) ==
  /\ sup'[r] = sup[r] /\ client'[r] = client[r] /\ link'[r] = link[r]
  /\ pipe'[r] = pipe[r] /\ program'[r] = program[r] /\ starts'[r] = starts[r]

\* The worker that waits for q gets what it relies on.
Listened(q) ==
  worker.req = q =>
    /\ At("accept") =>
         /\ starts'[q] = starts[q]
         /\ client'[q] = "ended" => client[q] = "ended" \/ sup'[q] = "gone"
    /\ At("started") /\ starts'[q] = 1 /\ (starts[q] # 1 \/ pipe'[q] # pipe[q]) =>
         \E p \in Pids :
           /\ pipe'[q] \in {<<Begun(p)>>, <<Begun(p), Over>>}
           /\ Tracked(p) => program'[children[p].req] = NoProgram

\* A program that was started goes on as it was or ends.
Continued(q) ==
  starts[q] = 1 =>
    /\ starts'[q] = 1 /\ (program'[q].st = "runs" => Runs(q))
    /\ \/ program'[q] = NoProgram
       \/ program'[q].pid = program[q].pid /\ program[q] # NoProgram
    /\ program[q].in = "compositor" => program'[q].in = "compositor"
    /\ pipe[q] = <<>> => pipe'[q] \in {<<>>, <<Over>>}
    /\ pipe[q] = <<Over>> => pipe'[q] = <<Over>>

\* What a step of q must not do: come back, forget the request, or change
\* what the worker was told or relies on.
OwnStep(q) ==
  /\ sup[q] # "none" \/ starts[q] = 1
  /\ (sup'[q] = "none" <=> sup[q] = "none") /\ (sup'[q] = "gone" <=> sup[q] = "gone")
  /\ link[q] = link'[q] \/ (link[q] = "none" /\ link'[q] = "open")
  /\ (sup'[q] = "connected" /\ link'[q] = "request") => MayStart(q)
  /\ Listened(q) /\ Continued(q)

LEMMA SessionStep ==
  ASSUME ManagerInv, NEW q \in Requests, Aside, UNCHANGED unit, Types',
         \A r \in Requests \ {q} : SameSession(r),
         OwnStep(q), Session(q)', Reports(q)', SamePid'
  PROVE  ManagerInv'
<1> USE DEF Aside
<1>0. Types
  BY DEF ManagerInv
<1>1. Queue'
  BY DEF ManagerInv, Queue, Heard
<1>2. ASSUME NEW r \in Requests PROVE Waits(r)' /\ (r # q /\ Unstarted(r) => Unstarted(r)')
  <2>1. r # q /\ Unstarted(r) => Unstarted(r)'
    BY DEF SameSession, Unstarted
  <2>2. ~Unstarted(q)
    BY DEF OwnStep, Unstarted
  <2> QED
    BY <2>1, <2>2 DEF ManagerInv, Waits, Waiting, Unheld, Heard, IsTracked
<1>3. ASSUME NEW r \in Requests PROVE Late(r)'
  <2>1. MayStart(r)' => MayStart(r)
    BY DEF OwnStep, SameSession, MayStart
  <2>2. link[r] \in {"open", "request"} => link'[r] \in {"open", "request"}
    BY DEF OwnStep, SameSession
  <2> QED
    BY <2>1, <2>2 DEF ManagerInv, Late, Heard, IsTracked, At
<1>4. ASSUME NEW r \in Requests PROVE Session(r)'
  BY DEF ManagerInv, Session, SameSession, MayStart
<1>5. ASSUME NEW r \in Requests PROVE Unit(r)'
  BY DEF ManagerInv, Unit, SameSession, OwnStep
<1>6. ASSUME NEW r \in Requests PROVE Reports(r)'
  BY DEF ManagerInv, Reports, SameSession
<1>7. ASSUME NEW p \in Pids PROVE Entry(p)'
  <2> SUFFICES ASSUME Tracked(p) PROVE Entry(p)'
    BY DEF Entry, Tracked
  <2>1. children[p].req \in Requests /\ Entry(p) /\ children[p] \in Entries
    BY TrackedEntry
  <2>2. CASE children[p].req # q
    BY <2>1, <2>2 DEF Entry, SameSession, Tracked, At, Heard, Runs
  <2>3. CASE children[p].req = q
    BY <2>1, <2>3 DEF Entry, OwnStep, Continued, Tracked, At, Heard, Runs, ManagerInv, Session, NoProgram
  <2> QED
    BY <2>2, <2>3
<1>8. WorkerAt'
  <2>1. ASSUME NEW w \in Requests, Holds(w), worker.req = w PROVE Holds(w)'
    <3>1. Unheld(w)' /\ (At("choose")' => At("choose")) /\ (At("accept")' => At("accept")) /\ (At("started")' => At("started"))
      BY <2>1 DEF Holds, Unheld, Heard, IsTracked, At
    <3>2. At("choose") => Unstarted(w)'
      BY <1>2, <2>1 DEF Holds, Unstarted, OwnStep
    <3>3. At("accept") => /\ (starts[w] = 0 /\ link[w] \in {"none", "open"} /\ sup[w] # "none")'
                            /\ (client'[w] = "ended" => sup'[w] = "gone")
      BY <2>1 DEF Holds, SameSession, OwnStep, Listened
    <3>6. At("accept") \/ At("started") => unit'[name'[w]] \in {w, 0}
      BY <2>1 DEF Holds
    <3>4. ASSUME At("started"), starts'[w] = 1
          PROVE \E p \in Pids : /\ ToldBegun(w, p)'
                                /\ Tracked(p)' => program'[children[p].req] = NoProgram
      <4>1. CASE w = q /\ (starts[w] # 1 \/ pipe'[w] # pipe[w])
        BY <3>4, <4>1, <2>1 DEF OwnStep, Listened, ToldBegun, Tracked
      <4>2. CASE ~(w = q /\ (starts[w] # 1 \/ pipe'[w] # pipe[w]))
        <5>1. starts[w] = 1 /\ pipe'[w] = pipe[w]
          BY <3>4, <4>2 DEF SameSession
        <5>2. PICK p \in Pids : ToldBegun(w, p) /\ (Tracked(p) => program[children[p].req] = NoProgram)
          BY <2>1, <3>4, <5>1 DEF Holds
        <5>3. Tracked(p) => children[p].req \in Requests /\ starts[children[p].req] = 1
          BY TrackedEntry DEF Entry
        <5>4. Tracked(p) => program'[children[p].req] = NoProgram
          BY <5>2, <5>3 DEF SameSession, OwnStep, Continued
        <5> QED
          BY <5>1, <5>2, <5>4 DEF ToldBegun, Tracked
      <4> QED
        BY <4>1, <4>2
    <3>5. At("started") => link'[w] = "request"
      BY <2>1 DEF Holds, SameSession, OwnStep, Listened
    <3> QED
      BY <3>1, <3>2, <3>3, <3>4, <3>5, <3>6 DEF Holds, Tracked
  <2>2. worker.at \in {"choose", "accept", "started"} => Holds(worker.req) /\ worker.req \in Requests
    BY DEF ManagerInv, WorkerAt, Holds
  <2> QED
    BY <2>1, <2>2 DEF ManagerInv, WorkerAt, Tracked, At
<1> QED
  BY <1>1, <1>2, <1>3, <1>4, <1>5, <1>6, <1>7, <1>8 DEF ManagerInv

LEMMA NoProgramFields ==
  NoProgram \in Running /\ NoProgram.pid = 0 /\ NoProgram.st = "none" /\ NoProgram.in = "none"
BY DEF NoProgram, Running

LEMMA AppendPair ==
  ASSUME NEW a, NEW b
  PROVE  Append(<<a>>, b) = <<a, b>>
<1>1. <<a>> \in Seq({a, b}) /\ <<a, b>> \in Seq({a, b})
  OBVIOUS
<1>2. Len(<<a>>) = 1 /\ Len(<<a, b>>) = 2 /\ <<a>>[1] = a /\ <<a, b>>[1] = a /\ <<a, b>>[2] = b
  OBVIOUS
<1>3. /\ Append(<<a>>, b) \in Seq({a, b}) /\ Len(Append(<<a>>, b)) = 2
      /\ Append(<<a>>, b)[1] = a /\ Append(<<a>>, b)[2] = b
  BY <1>1, <1>2, AppendProperties
<1>4. \A i \in 1..2 : Append(<<a>>, b)[i] = <<a, b>>[i]
  BY <1>2, <1>3
<1> QED
  BY <1>1, <1>2, <1>3, <1>4, SeqEqual

\* What the socket holds is told apart by its first two reports.
LEMMA ReportFacts ==
  /\ \A p : /\ <<Begun(p)>> # <<>> /\ <<Begun(p)>> # <<Over>> /\ <<Begun(p)>> # <<NotBegun>>
            /\ <<Begun(p), Over>> # <<>> /\ <<Begun(p), Over>> # <<Over>>
            /\ <<Begun(p), Over>> # <<NotBegun>>
            /\ \A q : <<Begun(p), Over>> # <<Begun(q)>>
            /\ Append(<<>>, Begun(p)) = <<Begun(p)>>
            /\ Append(<<Begun(p)>>, Over) = <<Begun(p), Over>>
            /\ Head(<<Begun(p)>>) = Begun(p) /\ Tail(<<Begun(p)>>) = <<>>
            /\ Head(<<Begun(p), Over>>) = Begun(p) /\ Tail(<<Begun(p), Over>>) = <<Over>>
            /\ Begun(p).op = "started" /\ Begun(p).pid = p
  /\ <<Over>> # <<>> /\ <<NotBegun>> # <<>> /\ <<Over>> # <<NotBegun>>
  /\ Append(<<>>, Over) = <<Over>> /\ Append(<<>>, NotBegun) = <<NotBegun>>
  /\ Head(<<NotBegun>>) = NotBegun /\ Tail(<<NotBegun>>) = <<>>
  /\ Head(<<Over>>) = Over /\ Over.op = "exited" /\ NotBegun.op = "startFailed"
<1>1. Over.op = "exited" /\ NotBegun.op = "startFailed" /\ \A p : Begun(p).op = "started" /\ Begun(p).pid = p
  BY DEF Begun, Over, NotBegun
<1>2. \A a, b : /\ <<a>> # <<>> /\ <<a, b>> # <<>>
               /\ Append(<<>>, a) = <<a>> /\ Head(<<a>>) = a /\ Tail(<<a>>) = <<>>
  OBVIOUS
<1>3. \A a, b : Append(<<a>>, b) = <<a, b>> /\ Head(<<a, b>>) = a /\ Tail(<<a, b>>) = <<b>>
  <2> TAKE a, b
  <2>1. Append(<<a>>, b) = <<a, b>>
    BY AppendPair
  <2>2. Head(<<a, b>>) = a
    OBVIOUS
  <2>3. Tail(<<a, b>>) = <<b>>
    OBVIOUS
  <2> QED
    BY <2>1, <2>2, <2>3
<1>4. \A a, b : <<a>> = <<b>> => a = b
  OBVIOUS
<1>5. \A a, b, c : <<a, b>> # <<c>>
  <2> TAKE a, b, c
  <2>1. Len(<<a, b>>) = 2 /\ Len(<<c>>) = 1
    OBVIOUS
  <2> QED
    BY <2>1
<1>6. \A p : Begun(p) # Over /\ Begun(p) # NotBegun /\ Over # NotBegun
  BY <1>1
<1>7. ASSUME NEW p
      PROVE /\ <<Begun(p)>> # <<>> /\ <<Begun(p)>> # <<Over>> /\ <<Begun(p)>> # <<NotBegun>>
            /\ <<Begun(p), Over>> # <<>> /\ <<Begun(p), Over>> # <<Over>>
            /\ <<Begun(p), Over>> # <<NotBegun>>
            /\ \A q : <<Begun(p), Over>> # <<Begun(q)>>
            /\ Append(<<>>, Begun(p)) = <<Begun(p)>>
            /\ Append(<<Begun(p)>>, Over) = <<Begun(p), Over>>
            /\ Head(<<Begun(p)>>) = Begun(p) /\ Tail(<<Begun(p)>>) = <<>>
            /\ Head(<<Begun(p), Over>>) = Begun(p) /\ Tail(<<Begun(p), Over>>) = <<Over>>
            /\ Begun(p).op = "started" /\ Begun(p).pid = p
  BY <1>1, <1>2, <1>3, <1>4, <1>5, <1>6
<1>8. /\ <<Over>> # <<>> /\ <<NotBegun>> # <<>> /\ <<Over>> # <<NotBegun>>
      /\ Append(<<>>, Over) = <<Over>> /\ Append(<<>>, NotBegun) = <<NotBegun>>
      /\ Head(<<NotBegun>>) = NotBegun /\ Tail(<<NotBegun>>) = <<>>
      /\ Head(<<Over>>) = Over
  BY <1>2, <1>4, <1>6
<1> QED
  BY <1>1, <1>7, <1>8

LEMMA SupervisorConnectsStep ==
  ASSUME ManagerInv, NEW q \in Requests, SupervisorConnects(q) PROVE ManagerInv'
<1>0. Types /\ Session(q) /\ Reports(q)
  BY DEF ManagerInv
<1>1. CASE EndUnit(q) /\ UNCHANGED link
  <2>1. Aside /\ UNCHANGED <<client, link, pipe>> /\ sup[q] # "none"
    BY <1>1 DEF SupervisorConnects, Aside, answers, tables
  <2> QED
    BY <1>1, <2>1, EndedUnit
<1>2. CASE /\ At("accept") /\ worker.req = q
           /\ sup' = [sup EXCEPT ![q] = "connected"]
           /\ link' = [link EXCEPT ![q] = "open"]
           /\ UNCHANGED <<unit, process>>
  <2>1. Aside /\ UNCHANGED <<unit, program, starts, client, pipe>> /\ sup[q] = "starting"
    BY <1>2 DEF SupervisorConnects, Aside, answers, tables, process
  <2>2. Types'
    BY <1>0, <1>2, <2>1 DEF Types, Aside, SupStates
  <2>3. sup'[q] = "connected" /\ link'[q] = "open" /\ link[q] = "none"
    BY <1>0, <1>2, <2>1 DEF Types, Session
  <2>4. OwnStep(q)
    <3>1. Listened(q)
      BY <1>2, <2>1 DEF Listened, At
    <3>2. Continued(q)
      BY <1>2, <2>1 DEF Continued, Runs
    <3> QED
      BY <3>1, <3>2, <2>1, <2>3 DEF OwnStep
  <2>5. Session(q)' /\ Reports(q)' /\ SamePid'
    BY <1>0, <2>1, <2>3 DEF Session, MayStart, Reports, ManagerInv, SamePid, Aside
  <2>6. \A r \in Requests \ {q} : SameSession(r)
    BY <1>0, <1>2, <2>1 DEF SameSession, Types
  <2> QED
    BY <2>1, <2>2, <2>4, <2>5, <2>6, SessionStep
<1> QED
  BY <1>1, <1>2 DEF SupervisorConnects

LEMMA SupervisorStartsStep ==
  ASSUME ManagerInv, NEW q \in Requests, SupervisorStarts(q) PROVE ManagerInv'
<1>0. Types /\ Session(q) /\ Reports(q) /\ MayStart(q)
  BY DEF ManagerInv, SupervisorStarts, MayStart
<1>1. starts[q] = 0 /\ pipe[q] = <<>> /\ sup[q] = "connected" /\ link[q] = "request"
  BY <1>0 DEF Session, MayStart
<1>2. Aside /\ UNCHANGED <<client, link>>
  BY DEF SupervisorStarts, Aside, answers, tables
<1>3. CASE Sends(q, "startFailed", 0) /\ EndUnit(q)
  <2>1. pipe' = [pipe EXCEPT ![q] = <<NotBegun>>]
    BY <1>1, <1>3, ReportFacts DEF Sends, NotBegun
  <2> QED
    BY <1>0, <1>1, <1>2, <1>3, <2>1, EndedUnit
<1>4. ASSUME NEW p \in Pids, Start(q, p, "unit"), Sends(q, "started", p),
             sup' = [sup EXCEPT ![q] = "supervises"], UNCHANGED unit
      PROVE  ManagerInv'
  <2> DEFINE run == [pid |-> p, st |-> "runs", in |-> "unit"]
  <2>1. /\ program' = [program EXCEPT ![q] = run]
        /\ starts' = [starts EXCEPT ![q] = @ + 1]
        /\ \A r \in Requests : program[r].pid # p
    BY <1>4 DEF Start, FreePid
  <2>2. pipe' = [pipe EXCEPT ![q] = <<Begun(p)>>]
    BY <1>1, <1>4, ReportFacts DEF Sends, Begun
  <2>3. run \in Running /\ run.pid = p /\ run.st = "runs" /\ run.in = "unit" /\ p # 0
    BY Ids DEF Running
  <2> HIDE DEF run
  <2>4. /\ sup'[q] = "supervises" /\ starts'[q] = 1 /\ program'[q] = run
        /\ pipe'[q] = <<Begun(p)>> /\ link'[q] = link[q] /\ client'[q] = client[q]
        /\ \A r \in Requests \ {q} : SameSession(r)
    BY <1>0, <1>1, <1>2, <1>4, <2>1, <2>2 DEF Types, SameSession
  <2>5. Types'
    <3>1. pipe' = [r \in Requests |-> pipe'[r]] /\ DOMAIN pipe' = Requests
      BY <1>0, <2>2 DEF Types
    <3>2. program' \in [Requests -> Running] /\ starts' \in [Requests -> Nat] /\ sup' \in [Requests -> SupStates]
      BY <1>0, <1>4, <2>1, <2>3 DEF Types, SupStates
    <3> QED
      BY <1>0, <1>2, <1>4, <3>1, <3>2 DEF Types, Aside
  <2>6. Tracked(p) => program'[children[p].req] = NoProgram
    <3> SUFFICES ASSUME Tracked(p) PROVE program'[children[p].req] = NoProgram
      OBVIOUS
    <3>1. children[p].req \in Requests /\ Entry(p)
      BY TrackedEntry
    <3>2. program[children[p].req] = NoProgram /\ children[p].req # q
      BY <3>1, <2>1, <1>1 DEF Entry
    <3> QED
      BY <3>1, <3>2, <2>4 DEF SameSession
  <2>7. OwnStep(q)
    <3>1. Listened(q)
      BY <1>1, <2>4, <2>6 DEF Listened, ManagerInv, WorkerAt, Holds, At
    <3>2. Continued(q)
      BY <1>1 DEF Continued
    <3> QED
      BY <3>1, <3>2, <1>0, <1>1, <2>4 DEF OwnStep
  <2>8. Session(q)' /\ Reports(q)'
    BY <1>0, <1>1, <2>3, <2>4, ReportFacts DEF Session, MayStart, Reports
  <2>9. SamePid'
    <3>1. \A r \in Requests \ {q} : program'[r].pid # p /\ program'[r] = program[r]
      BY <2>1, <2>4 DEF SameSession
    <3> QED
      BY <3>1, <2>3, <2>4 DEF ManagerInv, SamePid
  <2> QED
    BY <1>2, <1>4, <2>4, <2>5, <2>7, <2>8, <2>9, SessionStep
<1> QED
  BY <1>3, <1>4 DEF SupervisorStarts

LEMMA SupervisorReapsStep ==
  ASSUME ManagerInv, NEW q \in Requests, SupervisorReaps(q) PROVE ManagerInv'
<1>0. Types /\ Session(q) /\ Reports(q)
  BY DEF ManagerInv
<1>1. /\ Aside /\ UNCHANGED <<unit, client, link, starts>> /\ sup[q] = "supervises"
      /\ program[q].in = "unit" /\ program' = [program EXCEPT ![q] = NoProgram]
      /\ sup' = [sup EXCEPT ![q] = "drains"]
      /\ pipe' = [pipe EXCEPT ![q] = Append(@, Over)]
  BY DEF SupervisorReaps, Aside, answers, tables, Sends, Over
<1>2. starts[q] = 1 /\ program[q] # NoProgram /\ link[q] = "request"
  BY <1>0, <1>1, NoProgramFields DEF Session
<1>3. \/ pipe[q] = <<>> /\ pipe'[q] = <<Over>>
      \/ \E p \in Pids : pipe[q] = <<Begun(p)>> /\ pipe'[q] = <<Begun(p), Over>>
  <2>1. pipe'[q] = Append(pipe[q], Over)
    BY <1>0, <1>1 DEF Types
  <2>2. pipe[q] = <<>> \/ \E p \in Pids : pipe[q] = <<Begun(p)>>
    BY <1>0, <1>2 DEF Reports
  <2> QED
    BY <2>1, <2>2, ReportFacts
<1>4. /\ sup'[q] = "drains" /\ program'[q] = NoProgram /\ starts'[q] = 1
      /\ link'[q] = link[q] /\ client'[q] = client[q]
      /\ \A r \in Requests \ {q} : SameSession(r)
  BY <1>0, <1>1, <1>2 DEF Types, SameSession
<1>5. Types'
  <2>1. pipe' = [r \in Requests |-> pipe'[r]] /\ DOMAIN pipe' = Requests
    BY <1>0, <1>1 DEF Types
  <2>2. program' \in [Requests -> Running] /\ sup' \in [Requests -> SupStates]
    BY <1>0, <1>1, NoProgramFields DEF Types, SupStates
  <2> QED
    BY <1>0, <1>1, <2>1, <2>2 DEF Types, Aside
<1>6. worker.req = q /\ At("started") =>
        \E p \in Pids : /\ pipe'[q] \in {<<Begun(p)>>, <<Begun(p), Over>>}
                        /\ Tracked(p) => program'[children[p].req] = NoProgram
  <2> SUFFICES ASSUME worker.req = q, At("started")
      PROVE \E p \in Pids : /\ pipe'[q] \in {<<Begun(p)>>, <<Begun(p), Over>>}
                            /\ Tracked(p) => program'[children[p].req] = NoProgram
    OBVIOUS
  <2>1. PICK p \in Pids : ToldBegun(q, p) /\ (Tracked(p) => program[children[p].req] = NoProgram)
    BY <1>2 DEF ManagerInv, WorkerAt, Holds, At
  <2>2. pipe'[q] \in {<<Begun(p)>>, <<Begun(p), Over>>}
    BY <1>3, <2>1, ReportFacts, ZenonT(60) DEF ToldBegun
  <2>3. Tracked(p) => program'[children[p].req] = NoProgram
    BY <2>1, <1>4, TrackedEntry DEF SameSession
  <2> QED
    BY <2>2, <2>3
<1>7. OwnStep(q)
  <2>1. Listened(q)
    BY <1>1, <1>6 DEF Listened
  <2>2. Continued(q)
    BY <1>1, <1>2, <1>3, <1>4, NoProgramFields, ReportFacts DEF Continued
  <2> QED
    BY <2>1, <2>2, <1>1, <1>2, <1>4 DEF OwnStep
<1>8. Session(q)' /\ Reports(q)'
  <2>1. Session(q)'
    BY <1>0, <1>1, <1>2, <1>4, NoProgramFields DEF Session, MayStart
  <2>2. Reports(q)'
    BY <1>3, <1>4 DEF Reports
  <2> QED
    BY <2>1, <2>2
<1>9. SamePid'
  <2>1. \A r \in Requests : program'[r] = program[r] \/ program'[r].pid = 0
    BY <1>4, NoProgramFields DEF SameSession
  <2> QED
    BY <2>1 DEF ManagerInv, SamePid
<1> QED
  BY <1>1, <1>4, <1>5, <1>7, <1>8, <1>9, SessionStep

LEMMA ClientEndsStep ==
  ASSUME ManagerInv, NEW q \in Requests, ClientEnds(q) PROVE ManagerInv'
<1>0. Types /\ Session(q) /\ Reports(q)
  BY DEF ManagerInv
<1>1. /\ Aside /\ UNCHANGED <<unit, sup, link, pipe, program, starts>>
      /\ sup[q] = "gone" /\ client[q] = "waits" /\ client' = [client EXCEPT ![q] = "ended"]
  BY DEF ClientEnds, Aside, answers, tables, process
<1>2. Types'
  BY <1>0, <1>1 DEF Types, Aside
<1>3. client'[q] = "ended" /\ \A r \in Requests \ {q} : SameSession(r)
  BY <1>0, <1>1 DEF Types, SameSession
<1>4. OwnStep(q)
  <2>1. Listened(q) /\ Continued(q)
    BY <1>1 DEF Listened, Continued, Runs
  <2> QED
    BY <2>1, <1>1 DEF OwnStep, MayStart
<1>5. Session(q)' /\ Reports(q)' /\ SamePid'
  BY <1>0, <1>1, <1>3 DEF Session, MayStart, Reports, ManagerInv, SamePid, Aside
<1> QED
  BY <1>1, <1>2, <1>3, <1>4, <1>5, SessionStep

LEMMA ProgramExitsStep ==
  ASSUME ManagerInv, NEW q \in Requests, ProgramExits(q) PROVE ManagerInv'
<1>0. Types /\ Session(q) /\ Reports(q) /\ Runs(q)
  BY DEF ManagerInv, ProgramExits
<1>1. /\ Aside /\ UNCHANGED <<unit, sup, link, client, pipe, starts>>
      /\ program' = [program EXCEPT ![q].st = "zombie"]
  BY DEF ProgramExits, Aside, answers, tables
<1>2. program[q] # NoProgram /\ starts[q] = 1 /\ program[q] \in Running
  BY <1>0, NoProgramFields DEF Runs, Session, Types
<1>3. /\ program'[q] = [program[q] EXCEPT !.st = "zombie"]
      /\ \A r \in Requests \ {q} : SameSession(r)
  BY <1>0, <1>1 DEF Types, SameSession
<1>4. /\ program'[q] \in Running /\ program'[q].pid = program[q].pid
      /\ program'[q].in = program[q].in /\ program'[q].st = "zombie"
  BY <1>2, <1>3 DEF Running
<1>5. Types'
  <2>1. program' \in [Requests -> Running]
    BY <1>0, <1>1, <1>3, <1>4 DEF Types
  <2> QED
    BY <1>0, <1>1, <2>1 DEF Types, Aside
<1>7. OwnStep(q)
  <2>1. Listened(q)
    BY <1>1 DEF Listened
  <2>2. Continued(q)
    BY <1>0, <1>1, <1>2, <1>4 DEF Continued, Runs
  <2> QED
    BY <2>1, <2>2, <1>1, <1>2 DEF OwnStep, MayStart
<1>8. Session(q)' /\ Reports(q)' /\ SamePid'
  BY <1>0, <1>1, <1>2, <1>4 DEF Session, MayStart, Reports, ManagerInv, SamePid, Aside
<1> QED
  BY <1>1, <1>3, <1>5, <1>7, <1>8, SessionStep

-----------------------------------------------------------------------------
(* The channel to the worker *)

LEMMA CmdKinds ==
  /\ \A r \in Requests : /\ Cmd("spawn", r) \in Cmds /\ Cmd("terminateUnconfirmed", r) \in Cmds
                         /\ Cmd("spawn", r).op = "spawn" /\ Cmd("spawn", r).id = r
                         /\ Cmd("terminateUnconfirmed", r).op = "terminateUnconfirmed"
                         /\ Cmd("terminateUnconfirmed", r).id = r
  /\ \A p \in Pids : /\ Cmd("terminate", p) \in Cmds
                     /\ Cmd("terminate", p).op = "terminate" /\ Cmd("terminate", p).id = p
  /\ Cmd("shutdown", 0) \in Cmds /\ Cmd("shutdown", 0).op = "shutdown"
  /\ \A c \in Cmds : /\ c = Cmd(c.op, c.id)
                     /\ c.op \in {"spawn", "terminateUnconfirmed"} => c.id \in Requests
                     /\ c.op = "terminate" => c.id \in Pids
BY DEF Cmds, Cmd

\* Answers are only added.
HeardGrows == \A r \in Requests : Heard(r) # NoNews => NewsOf(evts', told', r) # NoNews

LEMMA QueueTaken ==
  ASSUME Types, Queue, cmds # <<>>, cmds' = Tail(cmds), asked' = asked, HeardGrows
  PROVE  /\ Queue' /\ cmds' \in Seq(Cmds) /\ Head(cmds) \in Cmds
         /\ \A r \in Requests : Waiting(r)' => Waiting(r) /\ Head(cmds) # Cmd("spawn", r)
         /\ Head(cmds).op = "spawn" => Waiting(Head(cmds).id) /\ Head(cmds).id <= asked
         /\ Head(cmds).op = "terminateUnconfirmed" => Heard(Head(cmds).id) # NoNews
<1>1. /\ cmds' \in Seq(Cmds) /\ Head(cmds) \in Cmds /\ Len(cmds') = Len(cmds) - 1
      /\ \A i \in 1..Len(cmds') : cmds'[i] = cmds[i+1]
      /\ Head(cmds) = cmds[1] /\ Len(cmds) \in Nat /\ Len(cmds) >= 1
  BY HeadTailProperties DEF Types
<1>2. DOMAIN cmds = 1..Len(cmds) /\ DOMAIN cmds' = 1..Len(cmds') /\ Len(cmds') \in Nat
  BY <1>1 DEF Types
<1>3. \A i \in DOMAIN cmds' : i+1 \in DOMAIN cmds /\ cmds'[i] = cmds[i+1] /\ cmds[i+1] \in Cmds
  BY <1>1, <1>2 DEF Types
<1>4. Queue'
  <2>1. ASSUME NEW i \in DOMAIN cmds', cmds'[i].op = "spawn"
        PROVE cmds'[i].id <= asked /\ \A j \in DOMAIN cmds' : cmds'[i] = cmds'[j] => i = j
    <3>1. cmds[i+1].id <= asked /\ \A j \in DOMAIN cmds : cmds[i+1] = cmds[j] => i+1 = j
      BY <2>1, <1>3 DEF Queue
    <3>2. i \in Nat /\ DOMAIN cmds' \subseteq Nat
      BY <1>2
    <3> QED
      BY <3>1, <3>2, <1>3
  <2>2. ASSUME NEW i \in DOMAIN cmds', cmds'[i].op = "terminateUnconfirmed"
        PROVE NewsOf(evts', told', cmds'[i].id) # NoNews
    <3>1. Heard(cmds[i+1].id) # NoNews /\ cmds[i+1].id \in Requests
      BY <2>2, <1>3, CmdKinds DEF Queue
    <3> QED
      BY <3>1, <1>3 DEF HeardGrows, Heard
  <2> QED
    BY <2>1, <2>2 DEF Queue, Heard
<1>5. ASSUME NEW r \in Requests, Waiting(r)'
      PROVE Waiting(r) /\ Head(cmds) # Cmd("spawn", r)
  <2>1. CASE r > asked
    <3>1. Head(cmds).op = "spawn" => Head(cmds).id <= asked
      BY <1>1, <1>2 DEF Queue
    <3>2. asked \in Nat /\ r \in Nat
      BY Ids DEF Types
    <3> QED
      BY <2>1, <3>1, <3>2, CmdKinds DEF Waiting
  <2>2. CASE \E i \in DOMAIN cmds' : cmds'[i] = Cmd("spawn", r)
    <3>1. PICK i \in DOMAIN cmds' : cmds'[i] = Cmd("spawn", r)
      BY <2>2
    <3>2. cmds[i+1] = Cmd("spawn", r) /\ i+1 \in DOMAIN cmds /\ 1 \in DOMAIN cmds /\ i \in Nat /\ i >= 1
      BY <3>1, <1>1, <1>2, <1>3
    <3>3. cmds[1] = cmds[i+1] => i+1 = 1
      BY <3>2, CmdKinds DEF Queue
    <3> QED
      BY <3>2, <3>3, <1>1 DEF Waiting
  <2> QED
    BY <1>5, <2>1, <2>2 DEF Waiting
<1>6. /\ Head(cmds).op = "spawn" => Waiting(Head(cmds).id) /\ Head(cmds).id <= asked
      /\ Head(cmds).op = "terminateUnconfirmed" => Heard(Head(cmds).id) # NoNews
  <2>1. 1 \in DOMAIN cmds /\ cmds[1] = Head(cmds) /\ (Head(cmds).op = "spawn" => cmds[1] = Cmd("spawn", Head(cmds).id))
    BY <1>1, <1>2, CmdKinds
  <2> QED
    BY <2>1 DEF Queue, Waiting
<1> QED
  BY <1>1, <1>4, <1>5, <1>6

LEMMA QueueKept ==
  ASSUME Types, Queue, cmds' = cmds, asked' = asked, HeardGrows
  PROVE  Queue'
<1>1. \A i \in DOMAIN cmds : cmds[i] \in Cmds
  BY DEF Types
<1>2. ASSUME NEW i \in DOMAIN cmds, cmds[i].op = "terminateUnconfirmed"
      PROVE NewsOf(evts', told', cmds[i].id) # NoNews
  BY <1>1, <1>2, CmdKinds DEF Queue, HeardGrows
<1> QED
  BY <1>2 DEF Queue, Heard

\* Tables and everything outside the worker are left alone.
LEMMA Undisturbed ==
  ASSUME ManagerInv,
         UNCHANGED <<children, unconf, name, unit, sup, client, link, pipe, program, starts>>
  PROVE  SamePid' /\ \A r \in Requests : Session(r)' /\ Unit(r)' /\ Reports(r)'
BY DEF ManagerInv, SamePid, Session, MayStart, Unit, Reports

\* The compositor puts a command into the channel.
LEMMA CommandSent ==
  ASSUME ManagerInv, NEW c \in Cmds, cmds' = Append(cmds, c),
         shutdown' \in BOOLEAN, asked' \in 0..MaxRequests,
         \/ asked' = asked + 1 /\ c = Cmd("spawn", asked + 1)
         \/ asked' = asked /\ c.op # "spawn",
         c.op = "terminateUnconfirmed" => Heard(c.id) # NoNews,
         UNCHANGED <<evts, told, worker, children, unconf, name,
                     unit, sup, client, link, pipe, program, starts>>
  PROVE  ManagerInv'
<1>0. Types /\ Queue /\ asked \in Nat /\ asked' \in Nat
  BY DEF ManagerInv, Types
<1>1. /\ Types' /\ Len(cmds) \in Nat /\ DOMAIN cmds = 1..Len(cmds)
      /\ DOMAIN cmds' = 1..(Len(cmds)+1) /\ cmds'[Len(cmds)+1] = c
      /\ \A i \in DOMAIN cmds : cmds'[i] = cmds[i] /\ cmds[i] \in Cmds
  <2>1. cmds' \in Seq(Cmds)
    BY <1>0 DEF Types
  <2>2. Types'
    BY <1>0, <2>1 DEF Types
  <2> QED
    BY <1>0, <2>2 DEF Types
<1>2. Queue'
  <2>1. ASSUME NEW i \in DOMAIN cmds', cmds'[i].op = "spawn"
        PROVE cmds'[i].id <= asked' /\ \A j \in DOMAIN cmds' : cmds'[i] = cmds'[j] => i = j
    <3>1. ASSUME NEW j \in DOMAIN cmds, cmds[j].op = "spawn"
          PROVE cmds[j].id <= asked /\ cmds[j].id \in Nat
      BY <3>1, <1>0, <1>1, CmdKinds, Ids DEF Queue
    <3>2. CASE i \in DOMAIN cmds
      <4>1. c # cmds[i]
        <5>1. cmds[i].op = "spawn" /\ cmds[i].id <= asked /\ cmds[i].id \in Nat
          BY <1>1, <2>1, <3>1, <3>2
        <5>2. c.op = "spawn" => c.id = asked + 1
          BY DEF Cmd
        <5> QED
          BY <5>1, <5>2, <1>0
      <4> QED
        BY <1>0, <1>1, <2>1, <3>1, <3>2, <4>1 DEF Queue
    <3>3. CASE i = Len(cmds) + 1
      <4>1. c.op = "spawn" /\ c.id = asked + 1 /\ asked' = asked + 1
        BY <1>1, <2>1, <3>3 DEF Cmd
      <4>2. \A j \in DOMAIN cmds : c # cmds[j]
        BY <1>0, <3>1, <4>1
      <4> QED
        BY <1>0, <1>1, <3>3, <4>1, <4>2
    <3> QED
      BY <1>1, <3>2, <3>3
  <2>2. ASSUME NEW i \in DOMAIN cmds', cmds'[i].op = "terminateUnconfirmed"
        PROVE NewsOf(evts', told', cmds'[i].id) # NoNews
    <3>1. CASE i \in DOMAIN cmds
      BY <1>0, <1>1, <2>2, <3>1 DEF Queue, Heard
    <3>2. CASE i = Len(cmds) + 1
      BY <1>1, <2>2, <3>2 DEF Heard
    <3> QED
      BY <1>1, <3>1, <3>2
  <2> QED
    BY <2>1, <2>2 DEF Queue, Heard
<1>3. ASSUME NEW r \in Requests, Waiting(r)' PROVE Waiting(r)
  <2>1. r \in Nat
    BY Ids
  <2>2. CASE r > asked'
    BY <1>0, <2>1, <2>2 DEF Waiting
  <2>3. CASE \E i \in DOMAIN cmds' : cmds'[i] = Cmd("spawn", r)
    <3>1. PICK i \in DOMAIN cmds' : cmds'[i] = Cmd("spawn", r)
      BY <2>3
    <3>2. CASE i \in DOMAIN cmds
      BY <3>1, <3>2, <1>1 DEF Waiting
    <3>3. CASE i = Len(cmds) + 1
      <4>1. c.op = "spawn" /\ c.id = r
        BY <3>1, <3>3, <1>1 DEF Cmd
      <4>2. c = Cmd("spawn", asked + 1)
        BY <4>1
      <4>3. r = asked + 1
        BY <4>1, <4>2 DEF Cmd
      <4> QED
        BY <1>0, <4>3 DEF Waiting
    <3> QED
      BY <3>2, <3>3, <1>1
  <2> QED
    BY <1>3, <2>2, <2>3 DEF Waiting
<1>4. SamePid' /\ \A r \in Requests : Session(r)' /\ Unit(r)' /\ Reports(r)'
  BY Undisturbed
<1>5. ASSUME NEW r \in Requests PROVE Waits(r)' /\ Late(r)'
  BY <1>3 DEF ManagerInv, Waits, Late, Unheld, Unstarted, Heard, IsTracked, MayStart, At
<1>6. ASSUME NEW p \in Pids PROVE Entry(p)'
  BY DEF ManagerInv, Entry, Tracked, At, Heard, Runs
<1>7. WorkerAt'
  BY DEF ManagerInv, WorkerAt, Holds, Unheld, Unstarted, Heard, IsTracked, Tracked, At, ToldBegun
<1> QED
  BY <1>1, <1>2, <1>4, <1>5, <1>6, <1>7 DEF ManagerInv

LEMMA AnswerKinds ==
  /\ NoNews \notin Evts /\ NoNews.op = "nothing"
  /\ \A v \in Evts : v.id \in Pids \cup Requests
BY DEF NoNews, Evt, Evts

\* What was said of somebody is not unsaid.
LEMMA ToldIsHeard ==
  ASSUME Types, NEW x \in Pids \cup Requests, told[x] # NoNews
  PROVE  Heard(x) # NoNews
<1> DEFINE about == {i \in DOMAIN evts : x \in {evts[i].id, evts[i].req}}
<1>1. Heard(x) = IF about = {} THEN told[x] ELSE evts[Max(about)]
  BY DEF Heard, NewsOf
<1>2. CASE about = {}
  BY <1>1, <1>2
<1>3. CASE about # {}
  <2>1. about \in SUBSET 1..Len(evts) /\ Len(evts) \in Nat /\ evts \in Seq(Evts)
    BY DEF Types
  <2>2. Max(about) \in about
    <3> HIDE DEF about
    <3> QED
      BY <2>1, <1>3, MaxIs
  <2>3. evts[Max(about)] \in Evts
    BY <2>1, <2>2
  <2> QED
    BY <1>1, <1>3, <2>3, AnswerKinds
<1> QED
  BY <1>2, <1>3

\* The worker goes on, or the compositor reads; the books are left alone.
LEMMA WorkerMoves ==
  ASSUME ManagerInv, Types', Queue', WorkerAt',
         \A r \in Requests : Waiting(r)' => Waiting(r) /\ worker'.req # r,
         \A x \in Pids \cup Requests : NewsOf(evts', told', x) = Heard(x),
         worker'.req = worker.req \/ worker.req = 0,
         \A p \in Pids : Tracked(p) => worker'.req # children[p].req,
         At("down") => At("down")',
         UNCHANGED <<children, unconf, name, unit, sup, client, link, pipe, program, starts>>
  PROVE  ManagerInv'
<1>1. SamePid' /\ \A r \in Requests : Session(r)' /\ Unit(r)' /\ Reports(r)'
  BY Undisturbed
<1>2. ASSUME NEW r \in Requests PROVE Waits(r)' /\ Late(r)'
  <2>1. NewsOf(evts', told', r) = Heard(r) /\ 0 # r
    BY Ids
  <2> QED
    BY <2>1 DEF ManagerInv, Waits, Late, Unheld, Unstarted, Heard, IsTracked, MayStart
<1>3. ASSUME NEW p \in Pids PROVE Entry(p)'
  <2>1. SUFFICES ASSUME Tracked(p) PROVE Entry(p)'
    BY DEF Entry, Tracked
  <2>2. /\ Entry(p) /\ children[p].req \in Requests
        /\ NewsOf(evts', told', p) = Heard(p)
        /\ NewsOf(evts', told', children[p].req) = Heard(children[p].req)
    BY <2>1, TrackedEntry
  <2> QED
    BY <2>1, <2>2 DEF Entry, Tracked, Heard, Runs
<1> QED
  BY <1>1, <1>2, <1>3 DEF ManagerInv

LEMMA AskStep ==
  ASSUME ManagerInv,
         \/ AskSpawn \/ DropController
         \/ \E p \in Pids : AskTerminate(p)
         \/ \E r \in Requests : AskTerminateUnconfirmed(r)
  PROVE  ManagerInv'
<1>0. Types /\ asked \in Nat /\ MaxRequests \in Nat
  BY ConstantsAssumption DEF ManagerInv, Types
<1> USE DEF answers, tables, outside, process
<1>1. CASE AskSpawn
  <2>1. asked + 1 \in Requests /\ asked' = asked + 1 /\ asked' \in 0..MaxRequests
    BY <1>0, <1>1 DEF AskSpawn, Requests, Types
  <2>2. Cmd("spawn", asked + 1) \in Cmds /\ Cmd("spawn", asked + 1).op = "spawn"
    BY <2>1, CmdKinds
  <2>3. shutdown' \in BOOLEAN
    BY <1>0, <1>1 DEF AskSpawn, Types
  <2> QED
    BY <1>1, <2>1, <2>2, <2>3, CommandSent DEF AskSpawn
<1>2. CASE DropController
  <2>1. asked' \in 0..MaxRequests /\ shutdown' \in BOOLEAN /\ asked' = asked
    BY <1>0, <1>2 DEF DropController, Types
  <2> QED
    BY <1>2, <2>1, CmdKinds, CommandSent DEF DropController
<1>3. ASSUME NEW p \in Pids, AskTerminate(p) PROVE ManagerInv'
  <2>1. asked' \in 0..MaxRequests /\ shutdown' \in BOOLEAN /\ asked' = asked
    BY <1>0, <1>3 DEF AskTerminate, Types
  <2> QED
    BY <1>3, <2>1, CmdKinds, CommandSent DEF AskTerminate
<1>4. ASSUME NEW r \in Requests, AskTerminateUnconfirmed(r) PROVE ManagerInv'
  <2>1. asked' \in 0..MaxRequests /\ shutdown' \in BOOLEAN /\ asked' = asked
    BY <1>0, <1>4 DEF AskTerminateUnconfirmed, Types
  <2>2. Heard(r) # NoNews
    <3>1. told[r] # NoNews
      BY <1>4, AnswerKinds DEF AskTerminateUnconfirmed
    <3> QED
      BY <1>0, <3>1, ToldIsHeard
  <2> QED
    BY <1>4, <2>1, <2>2, CmdKinds, CommandSent DEF AskTerminateUnconfirmed
<1> QED
  BY <1>1, <1>2, <1>3, <1>4

LEMMA PollStep ==
  ASSUME ManagerInv, PollEvents PROVE ManagerInv'
<1>0. Types /\ Queue /\ WorkerAt
  BY DEF ManagerInv
<1>1. /\ evts' = <<>> /\ told' = [x \in Pids \cup Requests |-> News(x)]
      /\ UNCHANGED <<asked, cmds, shutdown, worker, children, unconf, name,
                     unit, sup, client, link, pipe, program, starts>>
  BY DEF PollEvents, tables, outside, process
<1>2. \A x \in Pids \cup Requests : NewsOf(evts', told', x) = Heard(x)
  <2> TAKE x \in Pids \cup Requests
  <2>1. NewsOf(evts', told', x) = told'[x]
    BY <1>1, NewsOfDrained
  <2> QED
    BY <1>1, <2>1, NewsIsHeard
<1>3. Types'
  <2>1. told' \in [Pids \cup Requests -> Evts \cup {NoNews}]
    <3>1. \A x \in Pids \cup Requests : News(x) \in Evts \cup {NoNews}
      BY <1>0, NewsIsHeard, HeardType DEF Types, Heard
    <3> QED
      BY <1>1, <3>1
  <2>2. evts' \in Seq(Evts)
    BY <1>1
  <2> QED
    BY <1>0, <1>1, <2>1, <2>2 DEF Types
<1>4. Queue'
  BY <1>0, <1>1, <1>2, QueueKept DEF HeardGrows
<1>5. WorkerAt'
  <2>1. ASSUME NEW w \in Requests, worker.req = w, Holds(w) PROVE Holds(w)'
    <3>1. NewsOf(evts', told', w) = Heard(w)
      BY <1>2
    <3> QED
      BY <1>1, <2>1, <3>1 DEF Holds, Unheld, Unstarted, Heard, IsTracked, Tracked, At, ToldBegun
  <2>2. worker.at \in {"choose", "accept", "started"} => Holds(worker.req) /\ worker.req \in Requests
    BY <1>0 DEF WorkerAt, Holds
  <2> QED
    BY <1>0, <1>1, <2>1, <2>2 DEF WorkerAt, Tracked, At
<1> QED
  <2>1. \A r \in Requests : Waiting(r)' => Waiting(r) /\ worker'.req # r
    BY <1>1 DEF ManagerInv, Waits, Waiting
  <2>2. \A p \in Pids : Tracked(p) => worker'.req # children[p].req
    BY <1>1, TrackedEntry DEF Entry
  <2> QED
    BY <1>1, <1>2, <1>3, <1>4, <1>5, <2>1, <2>2, WorkerMoves DEF At

-----------------------------------------------------------------------------
(* The worker between requests *)

LEMMA IdleFacts ==
  /\ Idle \in Workers /\ Idle.at = "idle" /\ Idle.req = 0 /\ Idle.todo = {} /\ Idle.late = {}
  /\ Idle.tried = {}
  /\ \A a \in Places : /\ [Idle EXCEPT !.at = a] \in Workers /\ [Idle EXCEPT !.at = a].at = a
                       /\ [Idle EXCEPT !.at = a].req = 0
                       /\ [Idle EXCEPT !.at = a].todo = {} /\ [Idle EXCEPT !.at = a].late = {}
  /\ \A r \in Requests :
       LET w == [Idle EXCEPT !.at = "choose", !.req = r]
       IN w \in Workers /\ w.at = "choose" /\ w.req = r /\ w.todo = {} /\ w.late = {}
<1>1. 0 \in 0..MaxRequests /\ \A r \in Requests : r \in 0..MaxRequests
  BY Ids, ConstantsAssumption
<1>2. /\ Idle \in Workers /\ Idle.at = "idle" /\ Idle.req = 0 /\ Idle.todo = {} /\ Idle.late = {}
      /\ Idle.tried = {}
  BY <1>1 DEF Idle, Workers, Places
<1>3. ASSUME NEW a \in Places
      PROVE  /\ [Idle EXCEPT !.at = a] \in Workers /\ [Idle EXCEPT !.at = a].at = a
             /\ [Idle EXCEPT !.at = a].req = 0
             /\ [Idle EXCEPT !.at = a].todo = {} /\ [Idle EXCEPT !.at = a].late = {}
  BY <1>2 DEF Workers
<1>4. ASSUME NEW r \in Requests
      PROVE  LET w == [Idle EXCEPT !.at = "choose", !.req = r]
             IN w \in Workers /\ w.at = "choose" /\ w.req = r /\ w.todo = {} /\ w.late = {}
  <2>1. "choose" \in Places
    BY DEF Places
  <2> QED
    BY <1>1, <1>2, <2>1 DEF Workers
<1> QED
  BY <1>2, <1>3, <1>4

LEMMA RoundFacts ==
  ASSUME NEW entries \in [Pids -> Entries], NEW late \in SUBSET Requests
  PROVE  LET w == ReapRound(entries, late)
         IN /\ w \in Workers /\ w.req = 0 /\ w.at \in {"idle", "reap"}
            /\ w.todo \subseteq {p \in Pids : entries[p].req # 0} /\ w.late \subseteq late
            /\ w.todo # {} \/ w.late # {} => w.at = "reap"
<1> DEFINE todo == {p \in Pids : entries[p].req # 0}
           w == [Idle EXCEPT !.at = "reap", !.todo = todo, !.late = late]
<1>1. todo \in SUBSET Pids
  OBVIOUS
<1> HIDE DEF todo
<1>2. w \in Workers /\ w.at = "reap" /\ w.req = 0 /\ w.todo = todo /\ w.late = late
  <2>1. "reap" \in Places
    BY DEF Places
  <2> QED
    BY <1>1, <2>1, IdleFacts DEF Workers
<1> HIDE DEF w
<1>3. ReapRound(entries, late) = IF todo = {} /\ late = {} THEN Idle ELSE w
  BY DEF ReapRound, todo, w
<1> QED
  BY <1>2, <1>3, IdleFacts DEF todo

LEMMA TakeSpawnStep ==
  ASSUME ManagerInv, TakeSpawn PROVE ManagerInv'
<1>0. Types /\ Queue /\ WorkerAt
  BY DEF ManagerInv
<1>1. /\ At("idle") /\ cmds # <<>> /\ Head(cmds).op = "spawn" /\ cmds' = Tail(cmds)
      /\ worker' = IF shutdown THEN worker ELSE [Idle EXCEPT !.at = "choose", !.req = Head(cmds).id]
      /\ UNCHANGED <<asked, evts, told, shutdown, children, unconf, name,
                     unit, sup, client, link, pipe, program, starts>>
  BY DEF TakeSpawn, NextCmd, answers, tables, outside, process
<1>2. HeardGrows /\ \A x \in Pids \cup Requests : NewsOf(evts', told', x) = Heard(x)
  BY <1>1 DEF HeardGrows, Heard
<1>3. PICK r \in Requests :
        /\ Queue' /\ cmds' \in Seq(Cmds) /\ Head(cmds).id = r /\ Waiting(r)
        /\ \A q \in Requests : Waiting(q)' => Waiting(q) /\ q # r
  <2>1. /\ Queue' /\ cmds' \in Seq(Cmds) /\ Head(cmds) \in Cmds /\ Waiting(Head(cmds).id)
        /\ \A q \in Requests : Waiting(q)' => Waiting(q) /\ Head(cmds) # Cmd("spawn", q)
    BY <1>0, <1>1, <1>2, QueueTaken
  <2>2. Head(cmds) = Cmd("spawn", Head(cmds).id) /\ Head(cmds).id \in Requests
    BY <1>1, <2>1, CmdKinds
  <2> QED
    BY <2>1, <2>2
<1>4. /\ worker.req = 0 /\ worker.at = "idle" /\ Unheld(r) /\ Unstarted(r)
      /\ worker.todo = {} /\ worker.late = {}
  BY <1>0, <1>1, <1>3 DEF WorkerAt, At, ManagerInv, Waits
<1>5. CASE shutdown
  <2>1. Types' /\ WorkerAt'
    BY <1>0, <1>1, <1>3, <1>4, <1>5 DEF Types, WorkerAt, Tracked, At
  <2>2. \A q \in Requests : Waiting(q)' => Waiting(q) /\ worker'.req # q
    BY <1>1, <1>3, <1>5 DEF ManagerInv, Waits
  <2>3. \A p \in Pids : Tracked(p) => worker'.req # children[p].req
    BY <1>1, <1>5, TrackedEntry DEF Entry
  <2> QED
    BY <1>1, <1>2, <1>3, <1>5, <2>1, <2>2, <2>3, WorkerMoves DEF At
<1>6. CASE ~shutdown
  <2>1. /\ worker' \in Workers /\ worker'.at = "choose" /\ worker'.req = r
        /\ worker'.todo = {} /\ worker'.late = {}
    BY <1>1, <1>3, <1>6, IdleFacts
  <2>2. Types'
    BY <1>0, <1>1, <1>3, <2>1 DEF Types
  <2>3. Holds(r)'
    BY <1>1, <1>3, <1>4, <2>1 DEF Holds, Unheld, Unstarted, Heard, IsTracked, Tracked, At
  <2>4. WorkerAt'
    BY <1>0, <2>1, <2>3 DEF WorkerAt, Tracked, At
  <2>5. \A p \in Pids : Tracked(p) => worker'.req # children[p].req
    BY <1>4, <2>1 DEF Unheld, IsTracked
  <2>6. ~At("down")
    BY <1>4 DEF At
  <2> QED
    BY <1>1, <1>2, <1>3, <1>4, <2>1, <2>2, <2>4, <2>5, <2>6, WorkerMoves
<1> QED
  BY <1>5, <1>6

LEMMA TakeShutdownStep ==
  ASSUME ManagerInv, TakeShutdown PROVE ManagerInv'
<1>0. Types /\ Queue /\ WorkerAt
  BY DEF ManagerInv
<1>1. /\ At("idle") /\ cmds # <<>> /\ cmds' = Tail(cmds)
      /\ worker' = [Idle EXCEPT !.at = "down"]
      /\ UNCHANGED <<asked, evts, told, shutdown, children, unconf, name,
                     unit, sup, client, link, pipe, program, starts>>
  BY DEF TakeShutdown, NextCmd, answers, tables, outside, process
<1>2. HeardGrows /\ \A x \in Pids \cup Requests : NewsOf(evts', told', x) = Heard(x)
  BY <1>1 DEF HeardGrows, Heard
<1>3. Queue' /\ cmds' \in Seq(Cmds) /\ \A q \in Requests : Waiting(q)' => Waiting(q)
  BY <1>0, <1>1, <1>2, QueueTaken
<1>4. /\ worker' \in Workers /\ worker'.at = "down" /\ worker'.req = 0
      /\ worker'.todo = {} /\ worker'.late = {} /\ worker.req = 0
  BY <1>0, <1>1, IdleFacts DEF Places, WorkerAt, At
<1>5. Types' /\ WorkerAt'
  BY <1>0, <1>1, <1>3, <1>4 DEF Types, WorkerAt, Tracked, At
<1>6. \A q \in Requests : Waiting(q)' => Waiting(q) /\ worker'.req # q
  BY <1>3, <1>4, Ids
<1>7. At("down")' /\ \A p \in Pids : Tracked(p) => worker'.req # children[p].req
  BY <1>4 DEF At, Tracked
<1> QED
  BY <1>1, <1>2, <1>3, <1>4, <1>5, <1>6, <1>7, WorkerMoves

LEMMA TimeOutStep ==
  ASSUME ManagerInv, TimeOut PROVE ManagerInv'
<1>0. Types /\ Queue /\ WorkerAt
  BY DEF ManagerInv
<1>1. /\ At("idle") /\ worker' = ReapRound(children, unconf)
      /\ UNCHANGED <<asked, cmds, evts, told, shutdown, children, unconf, name,
                     unit, sup, client, link, pipe, program, starts>>
  BY DEF TimeOut, answers, tables, outside, process
<1>2. HeardGrows /\ \A x \in Pids \cup Requests : NewsOf(evts', told', x) = Heard(x)
  BY <1>1 DEF HeardGrows, Heard
<1>3. Queue' /\ \A q \in Requests : Waiting(q)' => Waiting(q)
  BY <1>0, <1>1, <1>2, QueueKept DEF Waiting
<1>4. /\ worker' \in Workers /\ worker'.at \in {"idle", "reap"} /\ worker'.req = 0
      /\ worker'.todo \subseteq {p \in Pids : Tracked(p)} /\ worker'.late \subseteq unconf
      /\ worker'.todo # {} \/ worker'.late # {} => worker'.at = "reap"
  BY <1>0, <1>1, RoundFacts DEF Types, Tracked
<1>5. Types' /\ WorkerAt'
  BY <1>0, <1>1, <1>4 DEF Types, WorkerAt, Tracked, At
<1>6. \A q \in Requests : Waiting(q)' => Waiting(q) /\ worker'.req # q
  BY <1>3, <1>4, Ids
<1>7. ~At("down") /\ worker.req = 0 /\ \A p \in Pids : Tracked(p) => worker'.req # children[p].req
  BY <1>0, <1>1, <1>4 DEF At, Tracked, WorkerAt
<1> QED
  BY <1>1, <1>2, <1>3, <1>4, <1>5, <1>6, <1>7, WorkerMoves

-----------------------------------------------------------------------------
(* A start in a unit *)

\* A candidate is a slot no entry of the table has.
LEMMA CandidateIsFree ==
  ASSUME NEW main, NEW occupied, NEW tried, NEW slot \in Candidate(main, occupied, tried)
  PROVE  slot \in UnitSlots \ occupied
<1> DEFINE free == UnitSlots \ (occupied \cup tried)
<1>1. UnitSlots \subseteq Nat
  BY ConstantsAssumption DEF UnitSlots
<1>2. CASE main /\ 0 \in free
  BY <1>2 DEF Candidate
<1>3. CASE ~(main /\ 0 \in free)
  <2>1. free \ {0} # {} /\ slot = Min(free \ {0})
    BY <1>3 DEF Candidate
  <2>2. free \ {0} \in SUBSET Nat
    BY <1>1
  <2>3. slot \in free \ {0}
    <3> HIDE DEF free
    <3> QED
      BY <2>1, <2>2, MinIs
  <2> QED
    BY <2>3
<1> QED
  BY <1>2, <1>3

\* What the rest of a start needs to know of the request that is started.
LEMMA HeldRequest ==
  ASSUME ManagerInv, worker.at \in {"choose", "accept", "started"}
  PROVE  /\ worker.req \in Requests /\ Holds(worker.req) /\ ~Waiting(worker.req)
         /\ Session(worker.req) /\ Unit(worker.req) /\ Reports(worker.req)
         /\ worker.req # 0 /\ worker.todo = {} /\ worker.late = {}
         /\ worker \in Workers /\ ~At("down") /\ ~At("idle") /\ ~At("reap")
         /\ \A p \in Pids : Tracked(p) => children[p].req # worker.req
<1>1. Holds(worker.req) /\ worker.req \in Requests /\ worker.todo = {} /\ worker.late = {}
  BY DEF ManagerInv, WorkerAt, Holds, At
<1> QED
  BY <1>1, Ids DEF ManagerInv, Types, Waits, At, Entry

LEMMA RunUnitStep ==
  ASSUME ManagerInv, RunUnit PROVE ManagerInv'
<1>0. Types /\ Queue /\ WorkerAt /\ At("choose")
  BY DEF ManagerInv, RunUnit
<1>1. PICK r \in Requests : worker.req = r
  BY <1>0, HeldRequest DEF At
<1>2. /\ Holds(r) /\ Unheld(r) /\ Unstarted(r) /\ Session(r) /\ Unit(r) /\ ~Waiting(r) /\ ~At("down")
      /\ worker.todo = {} /\ worker.late = {} /\ worker \in Workers
      /\ \A p \in Pids : Tracked(p) => children[p].req # r
  BY <1>0, <1>1, HeldRequest DEF At, Holds
<1>3. PICK slot \in Candidate(r \in MainRequests, Occupied, worker.tried) :
       \/ /\ unit[slot] # 0
          /\ worker' = [worker EXCEPT !.tried = @ \cup {slot}, !.collided = slot]
          /\ UNCHANGED <<name, unit, sup, client>>
       \/ /\ unit[slot] = 0
          /\ worker' = [worker EXCEPT !.at = "accept"]
          /\ name' = [name EXCEPT ![r] = slot]
          /\ unit' = [unit EXCEPT ![slot] = r]
          /\ sup' = [sup EXCEPT ![r] = "starting"]
          /\ client' = [client EXCEPT ![r] = "waits"]
  BY <1>1 DEF RunUnit
<1>4. UNCHANGED <<asked, cmds, evts, told, shutdown, children, unconf, link, pipe, program, starts>>
  BY DEF RunUnit, answers, process
<1>5. slot \in UnitSlots /\ slot \notin Occupied
  BY CandidateIsFree
<1>6. HeardGrows /\ \A x \in Pids \cup Requests : NewsOf(evts', told', x) = Heard(x)
  BY <1>4 DEF HeardGrows, Heard
<1>7. Queue' /\ \A q \in Requests : Waiting(q)' <=> Waiting(q)
  BY <1>0, <1>4, <1>6, QueueKept DEF Waiting
<1>8. CASE /\ worker' = [worker EXCEPT !.tried = @ \cup {slot}, !.collided = slot]
           /\ UNCHANGED <<name, unit, sup, client>>
  <2>1. /\ worker' \in Workers /\ worker'.at = "choose" /\ worker'.req = r
        /\ worker'.todo = {} /\ worker'.late = {}
    BY <1>0, <1>1, <1>2, <1>5, <1>8 DEF Workers, At
  <2>2. Types'
    BY <1>0, <1>4, <1>8, <2>1 DEF Types
  <2>3. Holds(r)'
    BY <1>2, <1>4, <1>8, <2>1 DEF Holds, Unheld, Unstarted, Heard, IsTracked, Tracked, At
  <2>4. WorkerAt'
    BY <1>0, <2>1, <2>3 DEF WorkerAt, Tracked, At
  <2>5. \A q \in Requests : Waiting(q)' => Waiting(q) /\ worker'.req # q
    BY <1>2, <1>7, <2>1
  <2> QED
    BY <1>1, <1>2, <1>4, <1>6, <1>7, <1>8, <2>1, <2>2, <2>4, <2>5, WorkerMoves
<1>9. CASE /\ unit[slot] = 0
           /\ worker' = [worker EXCEPT !.at = "accept"]
           /\ name' = [name EXCEPT ![r] = slot]
           /\ unit' = [unit EXCEPT ![slot] = r]
           /\ sup' = [sup EXCEPT ![r] = "starting"]
           /\ client' = [client EXCEPT ![r] = "waits"]
  <2>1. /\ worker' \in Workers /\ worker'.at = "accept" /\ worker'.req = r
        /\ worker'.todo = {} /\ worker'.late = {}
    BY <1>1, <1>2, <1>9 DEF Workers, Places
  <2>2. /\ name'[r] = slot /\ sup'[r] = "starting" /\ client'[r] = "waits" /\ unit'[slot] = r
        /\ \A q \in Requests \ {r} : SameSession(q) /\ name'[q] = name[q]
        /\ \A s \in UnitSlots \ {slot} : unit'[s] = unit[s]
    BY <1>0, <1>4, <1>5, <1>9 DEF Types, SameSession
  <2>3. Types'
    <3>1. unit' \in [UnitSlots -> -1..MaxRequests]
      <4>1. r \in -1..MaxRequests
        BY ConstantsAssumption DEF Requests
      <4> QED
        BY <1>0, <1>9, <4>1 DEF Types
    <3>2. name' \in [Requests -> {NoSlot} \cup UnitSlots] /\ sup' \in [Requests -> SupStates]
          /\ client' \in [Requests -> {"none", "waits", "ended"}]
      BY <1>0, <1>5, <1>9 DEF Types, SupStates
    <3> QED
      BY <1>0, <1>4, <2>1, <3>1, <3>2 DEF Types
  <2>4. ASSUME NEW q \in Requests PROVE Waits(q)' /\ Late(q)'
    BY <1>1, <1>2, <1>4, <1>7, <2>1, <2>2 DEF ManagerInv, Waits, Late, Unheld, Unstarted, Heard, IsTracked, MayStart, SameSession, At
  <2>5. ASSUME NEW q \in Requests PROVE Session(q)'
    BY <1>2, <1>4, <2>2, NoProgramFields DEF ManagerInv, Session, SameSession, MayStart, Unstarted
  <2>6. ASSUME NEW q \in Requests PROVE Unit(q)'
    <3>1. q \in Nat /\ q # 0 /\ Unit(q)
      BY Ids DEF ManagerInv
    <3>2. CASE q = r
      BY <1>2, <1>5, <2>2, <3>1, <3>2 DEF Unit, Unstarted
    <3>3. CASE q # r
      BY <1>5, <1>9, <2>2, <3>1, <3>3, Ids DEF Unit, SameSession
    <3> QED
      BY <3>2, <3>3
  <2>7. ASSUME NEW q \in Requests PROVE Reports(q)'
    BY <1>2, <1>4, <2>2 DEF ManagerInv, Reports, SameSession, Unstarted
  <2>8. SamePid'
    BY <1>4 DEF ManagerInv, SamePid
  <2>9. ASSUME NEW p \in Pids PROVE Entry(p)'
    <3> SUFFICES ASSUME Tracked(p) PROVE Entry(p)'
      BY <1>4 DEF Entry, Tracked
    <3>1. children[p].req \in Requests \ {r} /\ Entry(p) /\ children[p] \in Entries
      BY <1>2, TrackedEntry
    <3>2. children[p].name # slot
      BY <1>5 DEF Occupied
    <3> QED
      BY <1>2, <1>4, <2>1, <2>2, <3>1, <3>2 DEF Entry, Tracked, At, Heard, Runs, SameSession
  <2>10. WorkerAt'
    <3>1. Holds(r)'
      BY <1>2, <1>4, <2>1, <2>2 DEF Holds, Unheld, Unstarted, Heard, IsTracked, Tracked, At
    <3> QED
      BY <2>1, <3>1 DEF WorkerAt, At
  <2> QED
    BY <1>7, <2>3, <2>4, <2>5, <2>6, <2>7, <2>8, <2>9, <2>10 DEF ManagerInv
<1> QED
  BY <1>3, <1>8, <1>9

\* The launch request is written to a supervisor that said hello.
LEMMA RequestSent ==
  ASSUME ManagerInv, NEW r \in Requests, At("accept"), worker.req = r,
         link[r] = "open", sup[r] = "connected",
         link' = [link EXCEPT ![r] = "request"],
         worker' = [worker EXCEPT !.at = "started"],
         UNCHANGED <<asked, cmds, evts, told, shutdown, children, unconf, name,
                     unit, sup, client, pipe, program, starts>>
  PROVE  ManagerInv'
<1>0. Types /\ Queue /\ WorkerAt
  BY DEF ManagerInv
<1>1. /\ Holds(r) /\ Unheld(r) /\ Session(r) /\ Unit(r) /\ ~Waiting(r) /\ ~At("down")
      /\ worker.todo = {} /\ worker.late = {} /\ worker \in Workers
      /\ \A p \in Pids : Tracked(p) => children[p].req # r
      /\ starts[r] = 0 /\ client[r] # "ended" /\ pipe[r] = <<>>
  BY HeldRequest DEF At, Holds, Session
<1>2. HeardGrows
  BY DEF HeardGrows, Heard
<1>3. Queue' /\ \A q \in Requests : Waiting(q)' <=> Waiting(q)
  BY <1>0, <1>2, QueueKept DEF Waiting
<1>4. /\ worker' \in Workers /\ worker'.at = "started" /\ worker'.req = r
      /\ worker'.todo = {} /\ worker'.late = {}
  BY <1>1 DEF Workers, Places
<1>5. link'[r] = "request" /\ \A q \in Requests \ {r} : link'[q] = link[q]
  BY <1>0 DEF Types
<1>6. Types'
  BY <1>0, <1>4 DEF Types
<1>7. ASSUME NEW q \in Requests PROVE Waits(q)' /\ Late(q)'
  BY <1>1, <1>3, <1>4, <1>5 DEF ManagerInv, Waits, Late, Unheld, Unstarted, Heard, IsTracked, MayStart, At
<1>8. ASSUME NEW q \in Requests PROVE Session(q)' /\ Unit(q)' /\ Reports(q)'
  BY <1>1, <1>5 DEF ManagerInv, Session, MayStart, Unit, Reports
<1>9. SamePid'
  BY DEF ManagerInv, SamePid
<1>10. ASSUME NEW p \in Pids PROVE Entry(p)'
  <2> SUFFICES ASSUME Tracked(p) PROVE Entry(p)'
    BY DEF Entry, Tracked
  <2>1. children[p].req \in Requests \ {r} /\ Entry(p)
    BY <1>1, TrackedEntry
  <2> QED
    BY <1>1, <1>4, <1>5, <2>1 DEF Entry, Tracked, At, Heard, Runs
<1>11. WorkerAt'
  <2>1. Holds(r)'
    BY <1>1, <1>4, <1>5 DEF Holds, Unheld, Heard, IsTracked, Tracked, At
  <2> QED
    BY <1>4, <2>1 DEF WorkerAt, At
<1> QED
  BY <1>3, <1>6, <1>7, <1>8, <1>9, <1>10, <1>11 DEF ManagerInv

-----------------------------------------------------------------------------
(* The answer to a request *)

LEMMA AnswerRests ==
  ASSUME NEW said, NEW entries \in [Pids -> Entries], NEW late \in SUBSET Requests,
         Answer(said, entries, late)
  PROVE  /\ children' = entries /\ unconf' = late
         /\ worker' \in Workers /\ worker'.req = 0
         /\ At("down")' <=> shutdown
         /\ worker'.at \in {"idle", "reap", "down"} /\ WorkerAt'
         /\ evts' = IF shutdown THEN evts ELSE evts \o said
<1>1. /\ children' = entries /\ unconf' = late
      /\ evts' = IF shutdown THEN evts ELSE evts \o said
      /\ worker' = IF shutdown THEN [Idle EXCEPT !.at = "down"] ELSE ReapRound(entries, late)
  BY DEF Answer
<1>2. CASE shutdown
  <2>1. /\ worker' \in Workers /\ worker'.at = "down" /\ worker'.req = 0
        /\ worker'.todo = {} /\ worker'.late = {}
    BY <1>1, <1>2, IdleFacts DEF Places
  <2> QED
    BY <1>1, <1>2, <2>1 DEF WorkerAt, At
<1>3. CASE ~shutdown
  <2>1. /\ worker' \in Workers /\ worker'.req = 0 /\ worker'.at \in {"idle", "reap"}
        /\ worker'.todo \subseteq {p \in Pids : entries[p].req # 0} /\ worker'.late \subseteq late
        /\ worker'.todo # {} \/ worker'.late # {} => worker'.at = "reap"
    BY <1>1, <1>3, RoundFacts
  <2> QED
    BY <1>1, <1>3, <2>1 DEF WorkerAt, At, Tracked
<1> QED
  BY <1>2, <1>3

LEMMA SaidOne ==
  ASSUME Types, NEW v \in Evts, told' = told,
         evts' = IF shutdown THEN evts ELSE evts \o <<v>>
  PROVE  /\ evts' \in Seq(Evts) /\ HeardGrows
         /\ \A x \in Pids \cup Requests :
              NewsOf(evts', told', x) = IF ~shutdown /\ x \in {v.id, v.req} THEN v ELSE Heard(x)
<1>0. evts \in Seq(Evts) /\ v # NoNews
  BY AnswerKinds DEF Types
<1>1. CASE shutdown
  BY <1>0, <1>1 DEF Heard, HeardGrows
<1>2. CASE ~shutdown
  <2>1. evts' = Append(evts, v)
    BY <1>0, <1>2, AppendIsConcat
  <2>2. \A x \in Pids \cup Requests : NewsOf(evts', told', x) = IF x \in {v.id, v.req} THEN v ELSE Heard(x)
    <3> TAKE x \in Pids \cup Requests
    <3>1. NewsOf(Append(evts, v), told, x) = IF x \in {v.id, v.req} THEN v ELSE NewsOf(evts, told, x)
      BY <1>0, NewsOfAppend
    <3> QED
      BY <2>1, <3>1 DEF Heard
  <2>3. evts' \in Seq(Evts)
    BY <1>0, <2>1
  <2> QED
    BY <1>0, <1>2, <2>2, <2>3 DEF HeardGrows
<1> QED
  BY <1>1, <1>2

LEMMA SaidTwo ==
  ASSUME Types, NEW v \in Evts, NEW w \in Evts, told' = told,
         evts' = IF shutdown THEN evts ELSE evts \o <<v, w>>
  PROVE  /\ evts' \in Seq(Evts) /\ HeardGrows
         /\ \A x \in Pids \cup Requests :
              NewsOf(evts', told', x) =
                IF ~shutdown /\ x \in {w.id, w.req} THEN w
                ELSE IF ~shutdown /\ x \in {v.id, v.req} THEN v ELSE Heard(x)
<1>0. evts \in Seq(Evts) /\ v # NoNews /\ w # NoNews
  BY AnswerKinds DEF Types
<1>1. CASE shutdown
  BY <1>0, <1>1 DEF Heard, HeardGrows
<1>2. CASE ~shutdown
  <2>0. Append(evts, v) \in Seq(Evts)
    BY <1>0
  <2>1. PICK e \in Seq(Evts) : e = Append(evts, v)
    <3> DEFINE f == Append(evts, v)
    <3> HIDE DEF f
    <3>1. f \in Seq(Evts)
      BY <2>0 DEF f
    <3>2. \E e \in Seq(Evts) : e = f
      BY <3>1
    <3> QED
      BY <3>2 DEF f
  <2>2. evts' = Append(e, w) /\ evts' \in Seq(Evts)
    <3>1. <<v, w>> \in Seq(Evts) /\ Len(<<v, w>>) = 2 /\ <<v, w>>[1] = v /\ <<v, w>>[2] = w
      OBVIOUS
    <3>2. evts' = evts \o <<v, w>>
      BY <1>2
    <3>3. /\ Append(e, w) \in Seq(Evts) /\ evts' \in Seq(Evts)
          /\ Len(Append(e, w)) = Len(evts) + 2 /\ Len(evts') = Len(evts) + 2
      BY <1>0, <2>1, <3>1, <3>2
    <3>4. ASSUME NEW i \in 1..(Len(evts) + 2) PROVE evts'[i] = Append(e, w)[i]
      <4> DEFINE n == Len(evts)
      <4>1. n \in Nat /\ Len(e) = n + 1 /\ e[n + 1] = v /\ \A j \in 1..n : e[j] = evts[j]
        BY <1>0, <2>1
      <4>2. /\ \A j \in 1..n : evts'[j] = evts[j]
            /\ evts'[n + 1] = v /\ evts'[n + 2] = w
        BY <1>0, <3>1, <3>2, <4>1
      <4>3. /\ Append(e, w)[n + 2] = w
            /\ \A j \in 1..(n + 1) : Append(e, w)[j] = e[j]
        BY <4>1
      <4> HIDE DEF n
      <4>4. i \in 1..n \/ i = n + 1 \/ i = n + 2
        BY <4>1 DEF n
      <4> QED
        BY <4>1, <4>2, <4>3, <4>4
    <3> QED
      BY <3>3, <3>4, SeqEqual
  <2>3. \A x \in Pids \cup Requests :
          NewsOf(evts', told', x) =
            IF x \in {w.id, w.req} THEN w ELSE IF x \in {v.id, v.req} THEN v ELSE Heard(x)
    <3>1. ASSUME NEW x \in Pids \cup Requests
          PROVE /\ NewsOf(Append(e, w), told, x) =
                     IF x \in {w.id, w.req} THEN w ELSE NewsOf(e, told, x)
                /\ NewsOf(e, told, x) = IF x \in {v.id, v.req} THEN v ELSE Heard(x)
      <4>1. NewsOf(Append(evts, v), told, x) = IF x \in {v.id, v.req} THEN v ELSE NewsOf(evts, told, x)
        BY <1>0, NewsOfAppend
      <4>2. NewsOf(Append(e, w), told, x) = IF x \in {w.id, w.req} THEN w ELSE NewsOf(e, told, x)
        BY NewsOfAppend
      <4> QED
        BY <2>1, <4>1, <4>2 DEF Heard
    <3> QED
      BY <2>2, <3>1
  <2> QED
    BY <1>0, <1>2, <2>2, <2>3 DEF HeardGrows
<1> QED
  BY <1>1, <1>2

\* The worker is done with the request r it held: nobody else's session is
\* touched, and the entries made are those in changed.
LEMMA Settled ==
  ASSUME ManagerInv, NEW r \in Requests, worker.req = r, At("choose") \/ At("accept") \/ At("started"),
         NEW changed \in SUBSET Pids,
         UNCHANGED <<asked, cmds, name>>, Types', WorkerAt', HeardGrows, SamePid',
         worker'.req = 0,
         \A q \in Requests \ {r} : SameSession(q) /\ NewsOf(evts', told', q) = Heard(q),
         \A s \in UnitSlots : unit'[s] = unit[s] \/ (unit[s] = r /\ unit'[s] = 0),
         Late(r)', Session(r)', Unit(r)', Reports(r)',
         unconf' \subseteq unconf \cup {r}, unconf \subseteq unconf',
         \A p \in Pids \ changed : children'[p] = children[p] /\ NewsOf(evts', told', p) = Heard(p),
         \A p \in changed :
           /\ children'[p].req = r /\ Entry(p)'
           /\ Tracked(p) => program[children[p].req] = NoProgram
  PROVE  ManagerInv'
<1>0. Types /\ Queue
  BY DEF ManagerInv
<1>1. Queue' /\ \A q \in Requests : Waiting(q)' => Waiting(q)
  BY <1>0, QueueKept DEF Waiting
<1>2. ~Waiting(r) /\ ~At("down") /\ \A p \in Pids : Tracked(p) => children[p].req # r
  BY HeldRequest DEF At
<1>3. \A q \in Requests \ {r} : IsTracked(q)' => IsTracked(q)
  BY DEF IsTracked
<1>4. ASSUME NEW q \in Requests \ {r} PROVE Waits(q)' /\ Late(q)' /\ Session(q)' /\ Unit(q)' /\ Reports(q)'
  <2>0. 0 # q /\ Waits(q) /\ Late(q) /\ Session(q) /\ Unit(q) /\ Reports(q)
    BY Ids DEF ManagerInv
  <2>1. Waits(q)'
    BY <1>1, <1>3, <1>4, <2>0 DEF Waits, Unheld, Unstarted, Heard, SameSession
  <2>2. Late(q)'
    BY <1>2, <1>3, <1>4, <2>0 DEF Late, Heard, SameSession, MayStart
  <2>3. Session(q)'
    <3>1. program[q].in = "compositor" => program[q].pid \in Pids \ changed
      <4> SUFFICES ASSUME program[q].in = "compositor" PROVE program[q].pid \in Pids \ changed
        OBVIOUS
      <4>1. /\ program[q] # NoProgram /\ program[q].pid \in Pids
            /\ children[program[q].pid].req = q
        BY <2>0, NoProgramFields DEF Session
      <4>2. Tracked(program[q].pid)
        BY <2>0, <4>1 DEF Tracked
      <4> QED
        BY <4>1, <4>2
    <3> QED
      BY <1>4, <2>0, <3>1 DEF Session, SameSession, MayStart
  <2>4. Unit(q)'
    BY <1>4, <2>0, Ids DEF Unit, SameSession
  <2>5. Reports(q)'
    BY <1>4, <2>0 DEF Reports, SameSession
  <2> QED
    BY <2>1, <2>2, <2>3, <2>4, <2>5
<1>5. Waits(r)'
  BY <1>1, <1>2 DEF Waits
<1>6. ASSUME NEW p \in Pids \ changed PROVE Entry(p)'
  <2> SUFFICES ASSUME Tracked(p) PROVE Entry(p)'
    BY <1>6 DEF Entry, Tracked
  <2>1. children[p].req \in Requests \ {r} /\ Entry(p) /\ children[p] \in Entries /\ 0 \notin Requests
    BY <1>2, TrackedEntry, Ids
  <2>2. \A q \in Pids : children'[q].req = children[p].req => q = p
    BY <2>1 DEF Entry
  <2>3. unit'[children[p].name] \in {unit[children[p].name], 0} \/ children[p].unitless
    BY <2>1 DEF Entry
  <2>4. SameSession(children[p].req) /\ NewsOf(evts', told', children[p].req) = Heard(children[p].req)
    BY <2>1
  <2> QED
    BY <1>2, <1>6, <2>1, <2>2, <2>3, <2>4 DEF Entry, Tracked, At, Heard, Runs, SameSession
<1> QED
  BY <1>1, <1>4, <1>5, <1>6 DEF ManagerInv


OutsideTypes ==
  /\ unit \in [UnitSlots -> -1..MaxRequests]
  /\ sup \in [Requests -> SupStates]
  /\ client \in [Requests -> {"none", "waits", "ended"}]
  /\ link \in [Requests -> {"none", "open", "request"}]
  /\ DOMAIN pipe = Requests /\ pipe = [r \in Requests |-> pipe[r]]
  /\ program \in [Requests -> Running]
  /\ starts \in [Requests -> Nat]

LEMMA OutsideTyped ==
  ASSUME Types PROVE OutsideTypes
BY DEF Types, OutsideTypes

\* Only the unit of r is touched, if any.
OwnUnit(r) == \A s \in UnitSlots : unit'[s] = unit[s] \/ (unit[s] = r /\ unit'[s] = 0)

\* An answer that tracks no process: the start failed or is not confirmed.
LEMMA AnsweredUntracked ==
  ASSUME ManagerInv, NEW r \in Requests, worker.req = r, At("choose") \/ At("accept") \/ At("started"),
         NEW v \in Evts, v.id = r, v.req = 0,
         NEW late, late = unconf \/ late = unconf \cup {r},
         Answer(<<v>>, children, late),
         UNCHANGED <<asked, cmds, told, shutdown, name, program, starts>>, OutsideTypes',
         \A q \in Requests \ {r} : SameSession(q), OwnUnit(r),
         r \in late => link'[r] \in {"open", "request"}, MayStart(r)' => r \in late,
         Session(r)', Unit(r)', Reports(r)'
  PROVE  ManagerInv'
<1>0. Types /\ children \in [Pids -> Entries] /\ late \in SUBSET Requests
  BY DEF ManagerInv, Types
<1>1. /\ children' = children /\ unconf' = late /\ worker' \in Workers /\ worker'.req = 0
      /\ At("down")' <=> shutdown
      /\ WorkerAt' /\ evts' = IF shutdown THEN evts ELSE evts \o <<v>>
  BY <1>0, AnswerRests
<1>2. /\ evts' \in Seq(Evts) /\ HeardGrows
      /\ \A x \in Pids \cup Requests :
           NewsOf(evts', told', x) = IF ~shutdown /\ x \in {v.id, v.req} THEN v ELSE Heard(x)
  BY <1>0, <1>1, SaidOne
<1>3. \A x \in Pids \cup (Requests \ {r}) : NewsOf(evts', told', x) = Heard(x)
  BY <1>2, Ids
<1>4. At("down")' \/ NewsOf(evts', told', r) # NoNews
  BY <1>1, <1>2, AnswerKinds
<1>5. Types'
  BY <1>0, <1>1, <1>2 DEF Types, OutsideTypes
<1>6. SamePid'
  BY DEF ManagerInv, SamePid
<1>7. Late(r)'
  <2>1. ~IsTracked(r)'
    BY <1>1, HeldRequest DEF At, IsTracked, Tracked, Holds, Unheld
  <2>2. r \in unconf' => r \in late
    BY <1>1
  <2> QED
    BY <1>1, <1>4, <2>1 DEF Late, Heard, MayStart
<1> DEFINE changed == {}
<1>8. /\ changed \in SUBSET Pids
      /\ \A q \in Pids \ changed : children'[q] = children[q] /\ NewsOf(evts', told', q) = Heard(q)
      /\ \A q \in changed : /\ children'[q].req = r /\ Entry(q)'
                            /\ Tracked(q) => program[children[q].req] = NoProgram
  BY <1>1, <1>3
<1> HIDE DEF changed
<1>9. \A q \in Requests \ {r} : SameSession(q) /\ NewsOf(evts', told', q) = Heard(q)
  BY <1>3
<1>10. unconf' \subseteq unconf \cup {r} /\ unconf \subseteq unconf'
  BY <1>1
<1> QED
  BY <1>1, <1>2, <1>5, <1>6, <1>7, <1>8, <1>9, <1>10, Settled DEF OwnUnit

\* What is said when process p is tracked for r.
LEMMA TrackSaid ==
  ASSUME Types, NEW p \in Pids, NEW r \in Requests, told' = told,
         evts' = IF shutdown THEN evts ELSE evts \o StartAnswer(p, r)
  PROVE  /\ evts' \in Seq(Evts) /\ HeardGrows /\ Started(p, r) # NoNews
         /\ \A x \in Pids \cup Requests :
              NewsOf(evts', told', x) = IF ~shutdown /\ x \in {p, r} THEN Started(p, r) ELSE Heard(x)
<1>1. /\ Started(p, r) \in Evts /\ Started(p, r).id = p /\ Started(p, r).req = r
      /\ Evt("exited", p) \in Evts /\ Evt("exited", p).id = p /\ Evt("exited", p).req = 0
  BY DEF Started, Evt, Evts
<1>2. CASE Tracked(p)
  <2>1. evts' = IF shutdown THEN evts ELSE evts \o <<Evt("exited", p), Started(p, r)>>
    BY <1>2 DEF StartAnswer
  <2>2. /\ evts' \in Seq(Evts) /\ HeardGrows
        /\ \A x \in Pids \cup Requests :
            NewsOf(evts', told', x) =
              IF ~shutdown /\ x \in {Started(p, r).id, Started(p, r).req} THEN Started(p, r)
              ELSE IF ~shutdown /\ x \in {Evt("exited", p).id, Evt("exited", p).req}
              THEN Evt("exited", p) ELSE Heard(x)
    BY <1>1, <2>1, SaidTwo
  <2> QED
    BY <1>1, <2>2, Ids, AnswerKinds
<1>3. CASE ~Tracked(p)
  <2>1. evts' = IF shutdown THEN evts ELSE evts \o <<Started(p, r)>>
    BY <1>3 DEF StartAnswer
  <2>2. /\ evts' \in Seq(Evts) /\ HeardGrows
        /\ \A x \in Pids \cup Requests :
            NewsOf(evts', told', x) =
              IF ~shutdown /\ x \in {Started(p, r).id, Started(p, r).req} THEN Started(p, r) ELSE Heard(x)
    BY <1>1, <2>1, SaidOne
  <2> QED
    BY <1>1, <2>2, AnswerKinds
<1> QED
  BY <1>1, <1>2, <1>3, AnswerKinds

\* An answer that tracks process p.
LEMMA AnsweredTracked ==
  ASSUME ManagerInv, NEW r \in Requests, worker.req = r, At("choose") \/ At("accept") \/ At("started"),
         NEW p \in Pids, NEW entry \in Entries, Track(p, r, entry),
         UNCHANGED <<asked, cmds, told, shutdown, name>>, OutsideTypes',
         \A q \in Requests \ {r} : SameSession(q), OwnUnit(r), ~MayStart(r)',
         Session(r)', Unit(r)', Reports(r)', SamePid',
         Tracked(p) => program[children[p].req] = NoProgram,
         entry.req = r, ~entry.reported, starts'[r] = 1,
         program'[r] = NoProgram \/ program'[r].pid = p,
         entry.unitless => program'[r].in = "compositor" /\ link'[r] # "request",
         ~entry.unitless =>
           /\ link'[r] = "request" /\ name[r] = entry.name /\ entry.name \in UnitSlots
           /\ unit'[entry.name] \in {r, 0} /\ pipe'[r] \in {<<>>, <<Over>>}
  PROVE  ManagerInv'
<1> DEFINE entries == [children EXCEPT ![p] = entry]
<1>0. Types /\ entries \in [Pids -> Entries] /\ unconf \in SUBSET Requests
  BY DEF ManagerInv, Types
<1>a. entries[p] = entry /\ \A q \in Pids \ {p} : entries[q] = children[q]
  BY DEF ManagerInv, Types
<1>b. Answer(StartAnswer(p, r), entries, unconf)
  BY DEF Track
<1> HIDE DEF entries
<1>1. /\ children' = entries /\ unconf' = unconf /\ worker' \in Workers /\ worker'.req = 0
      /\ At("down")' <=> shutdown
      /\ WorkerAt' /\ evts' = IF shutdown THEN evts ELSE evts \o StartAnswer(p, r)
  BY <1>0, <1>b, AnswerRests
<1>2. /\ evts' \in Seq(Evts) /\ HeardGrows /\ Started(p, r) # NoNews
      /\ \A x \in Pids \cup Requests :
           NewsOf(evts', told', x) = IF ~shutdown /\ x \in {p, r} THEN Started(p, r) ELSE Heard(x)
  BY <1>0, <1>1, TrackSaid
<1>3. \A x \in (Pids \ {p}) \cup (Requests \ {r}) : NewsOf(evts', told', x) = Heard(x)
  BY <1>2, Ids
<1>4. At("down")' \/ (NewsOf(evts', told', r) = Started(p, r) /\ NewsOf(evts', told', p) = Started(p, r))
  BY <1>1, <1>2
<1>5. Types'
  BY <1>0, <1>1, <1>2 DEF Types, OutsideTypes
<1>6. r \notin unconf
  BY HeldRequest DEF Holds, Unheld, At
<1>7. Late(r)'
  BY <1>1, <1>6 DEF Late, MayStart
<1>8. /\ children'[p] = entry /\ \A q \in Pids : q # p => children'[q] = children[q]
  BY <1>a, <1>1
<1>9. Entry(p)'
  <2>1. \A q \in Pids : children'[q].req = r => q = p
    BY <1>8, HeldRequest DEF At, Tracked
  <2>2. 0 # r
    BY Ids
  <2> QED
    BY <1>1, <1>2, <1>4, <1>6, <1>8, <2>1, <2>2 DEF Entry, Tracked, At, Heard, Runs
<1> DEFINE changed == {p}
<1>10. /\ changed \in SUBSET Pids
       /\ \A q \in Pids \ changed : children'[q] = children[q] /\ NewsOf(evts', told', q) = Heard(q)
       /\ \A q \in changed : /\ children'[q].req = r /\ Entry(q)'
                             /\ Tracked(q) => program[children[q].req] = NoProgram
  BY <1>3, <1>8, <1>9
<1> HIDE DEF changed
<1>11. \A q \in Requests \ {r} : SameSession(q) /\ NewsOf(evts', told', q) = Heard(q)
  BY <1>3
<1> QED
  BY <1>1, <1>2, <1>5, <1>7, <1>10, <1>11, Settled DEF OwnUnit


-----------------------------------------------------------------------------
(* A start without a unit, an answer of the supervisor, and none *)

\* A process id that is free is that of no program of the table.
LEMMA FreeEntry ==
  ASSUME ManagerInv, NEW p \in Pids, FreePid(p), Tracked(p)
  PROVE  program[children[p].req] = NoProgram
BY TrackedEntry DEF FreePid, Entry

LEMMA UnitlessStep ==
  ASSUME ManagerInv, NEW r \in Requests, worker.req = r, At("choose") \/ At("accept"),
         NEW slot \in {NoSlot} \cup UnitSlots, StartUnitless(r, slot),
         UNCHANGED <<asked, cmds, told, shutdown, name, link, pipe>>,
         unit' \in [UnitSlots -> -1..MaxRequests], sup' \in [Requests -> SupStates],
         client' \in [Requests -> {"none", "waits", "ended"}],
         \A q \in Requests \ {r} : sup'[q] = sup[q] /\ client'[q] = client[q],
         OwnUnit(r), Unit(r)', sup'[r] \in {sup[r], "gone"},
         sup'[r] = "none" <=> client'[r] = "none"
  PROVE  ManagerInv'
<1>0. Types
  BY DEF ManagerInv
<1>1. /\ starts[r] = 0 /\ program[r] = NoProgram /\ link[r] \in {"none", "open"}
      /\ pipe[r] = <<>> /\ sup[r] \notin {"supervises", "drains"}
      /\ r \notin unconf /\ Session(r)
  BY HeldRequest, NoProgramFields DEF At, Holds, Unheld, Unstarted, Session
<1>a. Reports(r)'
  BY <1>1 DEF Reports
<1>b. ~MayStart(r)'
  BY <1>1 DEF MayStart
<1>2. CASE "exec" \in faults /\ Failed(r) /\ UNCHANGED process
  <2>1. UNCHANGED <<program, starts>>
    BY <1>2 DEF process
  <2>2. OutsideTypes'
    BY <1>0, <2>1 DEF Types, OutsideTypes
  <2>3. \A q \in Requests \ {r} : SameSession(q)
    BY <2>1 DEF SameSession
  <2>4. Session(r)'
    BY <1>1, <2>1, NoProgramFields DEF Session, MayStart
  <2>5. /\ Evt("failed", r) \in Evts /\ Evt("failed", r).id = r /\ Evt("failed", r).req = 0
    BY DEF Evt, Evts
  <2>6. Answer(<<Evt("failed", r)>>, children, unconf)
    BY <1>2 DEF Failed
  <2> QED
    BY <1>1, <1>a, <1>b, <2>1, <2>2, <2>3, <2>4, <2>5, <2>6, AnsweredUntracked
<1>3. CASE \E p \in Pids :
             /\ Start(r, p, "compositor")
             /\ Track(p, r, [NoChild EXCEPT !.req = r, !.name = slot,
                               !.unitless = TRUE, !.closed = TRUE])
  <2>1. PICK p \in Pids : /\ Start(r, p, "compositor")
                          /\ Track(p, r, [NoChild EXCEPT !.req = r, !.name = slot,
                                            !.unitless = TRUE, !.closed = TRUE])
    BY <1>3
  <2>2. PICK entry : entry = [NoChild EXCEPT !.req = r, !.name = slot, !.unitless = TRUE, !.closed = TRUE]
    OBVIOUS
  <2>3. /\ entry \in Entries /\ entry.req = r /\ entry.unitless /\ ~entry.reported
        /\ Track(p, r, entry)
    BY <2>1, <2>2, Ids DEF NoChild, Entries
  <2>4. /\ FreePid(p) /\ program' = [program EXCEPT ![r] = [pid |-> p, st |-> "runs", in |-> "compositor"]]
        /\ starts' = [starts EXCEPT ![r] = @ + 1]
    BY <2>1 DEF Start
  <2>5. /\ program'[r].pid = p /\ program'[r].st = "runs" /\ program'[r].in = "compositor"
        /\ starts'[r] = 1
        /\ \A q \in Requests \ {r} : program'[q] = program[q] /\ starts'[q] = starts[q]
    BY <1>0, <1>1, <2>4 DEF Types
  <2>6. OutsideTypes'
    <3>1. [pid |-> p, st |-> "runs", in |-> "compositor"] \in Running
      BY DEF Running
    <3>2. program' \in [Requests -> Running] /\ starts' \in [Requests -> Nat]
      BY <1>0, <2>4, <3>1 DEF Types
    <3> QED
      BY <1>0, <3>2 DEF Types, OutsideTypes
  <2>7. \A q \in Requests \ {r} : SameSession(q)
    BY <2>5 DEF SameSession
  <2>8. children' = [children EXCEPT ![p] = entry]
    BY <2>3 DEF Track, Answer
  <2>9. children'[p] = entry
    BY <1>0, <2>8 DEF Types
  <2>10. Session(r)'
    BY <1>1, <2>3, <2>5, <2>9, NoProgramFields DEF Session, MayStart
  <2>11. SamePid'
    BY <2>4, <2>5 DEF FreePid, SamePid, ManagerInv
  <2>12. Tracked(p) => program[children[p].req] = NoProgram
    BY <2>4, FreeEntry
  <2>13. link'[r] # "request"
    BY <1>1
  <2> QED
    BY <1>a, <1>b, <2>3, <2>5, <2>6, <2>7, <2>10, <2>11, <2>12, <2>13, AnsweredTracked
<1> QED
  BY <1>2, <1>3 DEF StartUnitless

LEMMA StartWithoutUnitStep ==
  ASSUME ManagerInv, StartWithoutUnit PROVE ManagerInv'
<1>0. Types
  BY DEF ManagerInv
<1>1. PICK r \in Requests : worker.req = r /\ At("choose") /\ Session(r) /\ Unit(r)
  BY HeldRequest DEF StartWithoutUnit, At
<1>2. PICK slot \in {NoSlot} \cup UnitSlots : StartUnitless(r, slot)
  BY <1>1 DEF StartWithoutUnit
<1>3. UNCHANGED <<asked, cmds, told, shutdown, name, unit, sup, client, link, pipe>>
  BY DEF StartWithoutUnit
<1>4. Unit(r)'
  BY <1>1, <1>3 DEF Unit
<1> QED
  BY <1>0, <1>1, <1>2, <1>3, <1>4, UnitlessStep DEF Types, OwnUnit, Session

LEMMA GiveUpOnSupervisorStep ==
  ASSUME ManagerInv, GiveUpOnSupervisor PROVE ManagerInv'
<1>0. Types
  BY DEF ManagerInv
<1>1. PICK r \in Requests : worker.req = r /\ At("accept") /\ Session(r) /\ Unit(r) /\ sup[r] # "none"
  BY HeldRequest DEF GiveUpOnSupervisor, At, Holds
<1>2. /\ StartUnitless(r, name[r]) /\ client' = [client EXCEPT ![r] = "ended"]
      /\ UNCHANGED <<asked, cmds, told, shutdown, name, unit, sup, link, pipe>>
  BY <1>1 DEF GiveUpOnSupervisor
<1>3. /\ client' \in [Requests -> {"none", "waits", "ended"}] /\ client'[r] = "ended"
      /\ \A q \in Requests \ {r} : client'[q] = client[q]
      /\ name[r] \in {NoSlot} \cup UnitSlots
  BY <1>0, <1>2 DEF Types
<1>4. Unit(r)'
  BY <1>1, <1>2 DEF Unit
<1> QED
  BY <1>0, <1>1, <1>2, <1>3, <1>4, UnitlessStep DEF Types, OwnUnit

LEMMA AcceptTimeOutStep ==
  ASSUME ManagerInv, AcceptTimeOut PROVE ManagerInv'
<1>0. Types
  BY DEF ManagerInv
<1>1. PICK r \in Requests : worker.req = r /\ At("accept") /\ Session(r) /\ Unit(r) /\ sup[r] = "starting"
  BY HeldRequest DEF AcceptTimeOut, At, Holds
<1>2. /\ StartUnitless(r, name[r]) /\ client' = [client EXCEPT ![r] = "ended"]
      /\ \/ unit' = [unit EXCEPT ![name[r]] = 0] /\ sup' = [sup EXCEPT ![r] = "gone"]
         \/ UNCHANGED <<unit, sup>>
      /\ UNCHANGED <<asked, cmds, told, shutdown, name, link, pipe>>
  BY <1>1 DEF AcceptTimeOut
<1>3. /\ client' \in [Requests -> {"none", "waits", "ended"}] /\ client'[r] = "ended"
      /\ \A q \in Requests \ {r} : client'[q] = client[q]
      /\ name[r] \in UnitSlots /\ unit[name[r]] = r
  BY <1>0, <1>1, <1>2 DEF Types, Unit
<1>a. 0 \in -1..MaxRequests /\ 0 # r /\ 0 # -1
  BY ConstantsAssumption, Ids
<1>4. CASE unit' = [unit EXCEPT ![name[r]] = 0] /\ sup' = [sup EXCEPT ![r] = "gone"]
  <2>1. /\ unit' \in [UnitSlots -> -1..MaxRequests] /\ sup' \in [Requests -> SupStates]
        /\ sup'[r] = "gone" /\ \A q \in Requests \ {r} : sup'[q] = sup[q]
    BY <1>0, <1>4, <1>a DEF Types, SupStates
  <2>2. /\ unit'[name[r]] = 0 /\ \A s \in UnitSlots : s # name[r] => unit'[s] = unit[s]
    BY <1>0, <1>3, <1>4 DEF Types
  <2>3. OwnUnit(r)
    BY <1>3, <2>2 DEF OwnUnit
  <2>4. Unit(r)'
    BY <1>1, <1>2, <1>3, <1>a, <2>1, <2>2 DEF Unit
  <2> QED
    BY <1>1, <1>2, <1>3, <2>1, <2>3, <2>4, UnitlessStep
<1>5. CASE UNCHANGED <<unit, sup>>
  <2>1. Unit(r)' /\ OwnUnit(r)
    BY <1>1, <1>2, <1>5 DEF Unit, OwnUnit
  <2> QED
    BY <1>0, <1>1, <1>2, <1>3, <1>5, <2>1, UnitlessStep DEF Types
<1> QED
  BY <1>2, <1>4, <1>5


\* The start is not confirmed; the request is answered with that.
LEMMA UnconfirmedStep ==
  ASSUME ManagerInv, NEW r \in Requests, worker.req = r, At("accept") \/ At("started"),
         link[r] \in {"open", "request"}, Unconfirmed(r),
         UNCHANGED <<asked, cmds, told, shutdown, name, unit, sup, client, link, pipe,
                     program, starts>>
  PROVE  ManagerInv'
<1>0. Types
  BY DEF ManagerInv
<1>1. /\ Evt("unconfirmed", r) \in Evts
      /\ Evt("unconfirmed", r).id = r /\ Evt("unconfirmed", r).req = 0
  BY DEF Evt, Evts
<1>2. Answer(<<Evt("unconfirmed", r)>>, children, unconf \cup {r}) /\ children' = children
  BY DEF Unconfirmed, Answer
<1>3. Session(r)' /\ Unit(r)' /\ Reports(r)'
  BY <1>2 DEF ManagerInv, Session, MayStart, Unit, Reports
<1>4. OutsideTypes' /\ OwnUnit(r) /\ \A q \in Requests \ {r} : SameSession(q)
  BY <1>0 DEF Types, OutsideTypes, OwnUnit, SameSession
<1> QED
  BY <1>1, <1>2, <1>3, <1>4, AnsweredUntracked

LEMMA SendRequestStep ==
  ASSUME ManagerInv, SendRequest PROVE ManagerInv'
<1>1. PICK r \in Requests : worker.req = r /\ At("accept") /\ link[r] = "open"
  BY HeldRequest DEF SendRequest, At
<1>2. CASE Unconfirmed(r) /\ UNCHANGED link
  BY <1>1, <1>2, UnconfirmedStep DEF SendRequest, process
<1>3. CASE /\ sup[r] = "connected" /\ link' = [link EXCEPT ![r] = "request"]
           /\ worker' = [worker EXCEPT !.at = "started"]
           /\ UNCHANGED <<evts, children, unconf>>
  BY <1>1, <1>3, RequestSent DEF SendRequest, process
<1> QED
  BY <1>1, <1>2, <1>3 DEF SendRequest

LEMMA HearStartStep ==
  ASSUME ManagerInv, HearStart PROVE ManagerInv'
<1>0. Types /\ SamePid
  BY DEF ManagerInv
<1>1. PICK r \in Requests : /\ worker.req = r /\ At("started") /\ Session(r) /\ Unit(r) /\ Reports(r)
                            /\ Holds(r) /\ r \notin unconf
  BY HeldRequest DEF HearStart, At, Holds, Unheld
<1>2. /\ link[r] = "request" /\ sup[r] # "none"
      /\ starts[r] = 1 =>
           \E p \in Pids : /\ ToldBegun(r, p)
                           /\ Tracked(p) => program[children[p].req] = NoProgram
  BY <1>1 DEF Holds, Session
<1>3. /\ UNCHANGED <<asked, cmds, told, shutdown, name, unit, sup, client, link>>
  BY DEF HearStart
<1>a. /\ OwnUnit(r)
      /\ Unit(r)'
  BY <1>1, <1>3 DEF OwnUnit, Unit
<1>4. CASE pipe[r] = <<>> /\ NotReported(r) /\ UNCHANGED pipe
  BY <1>1, <1>2, <1>3, <1>4, UnconfirmedStep DEF NotReported, process
<1>5. CASE /\ pipe[r] # <<>> /\ Head(pipe[r]).op = "startFailed" /\ client[r] = "ended"
           /\ Failed(r) /\ pipe' = [pipe EXCEPT ![r] = Tail(@)] /\ UNCHANGED process
  <2>1. UNCHANGED <<program, starts>>
    BY <1>5 DEF process
  <2>2. pipe[r] = <<NotBegun>> /\ starts[r] = 0 /\ sup[r] = "gone"
    <3>1. Head(<<Over>>) = Over /\ Over.op # "startFailed"
      BY ReportFacts
    <3>2. \A p : Head(<<Begun(p)>>).op = "started" /\ Head(<<Begun(p), Over>>).op = "started"
      BY ReportFacts
    <3> QED
      BY <1>1, <1>5, <3>1, <3>2 DEF Reports
  <2>3. /\ pipe'[r] = <<>> /\ \A q \in Requests \ {r} : pipe'[q] = pipe[q]
        /\ DOMAIN pipe' = Requests /\ pipe' = [q \in Requests |-> pipe'[q]]
    BY <1>0, <1>5, <2>2, ReportFacts DEF Types
  <2>4. OutsideTypes'
    BY <1>0, <1>3, <2>1, <2>3 DEF Types, OutsideTypes
  <2>5. \A q \in Requests \ {r} : SameSession(q)
    BY <1>3, <2>1, <2>3 DEF SameSession
  <2>6. children' = children
    BY <1>5 DEF Failed, Answer
  <2>7. Session(r)' /\ Reports(r)' /\ ~MayStart(r)'
    BY <1>1, <1>3, <2>1, <2>2, <2>3, <2>6 DEF Session, MayStart, Reports
  <2>8. /\ Evt("failed", r) \in Evts /\ Evt("failed", r).id = r /\ Evt("failed", r).req = 0
    BY DEF Evt, Evts
  <2>9. Answer(<<Evt("failed", r)>>, children, unconf)
    BY <1>5 DEF Failed
  <2> QED
    BY <1>1, <1>3, <1>a, <2>1, <2>4, <2>5, <2>7, <2>8, <2>9, AnsweredUntracked
<1>6. CASE /\ pipe[r] # <<>> /\ Head(pipe[r]).op = "started"
           /\ \E reader \in {TRUE, "unobserved" \notin faults} :
                Track(Head(pipe[r]).pid, r,
                      [NoChild EXCEPT !.req = r, !.name = name[r], !.reader = reader])
           /\ pipe' = [pipe EXCEPT ![r] = Tail(@)] /\ UNCHANGED process
  <2>1. UNCHANGED <<program, starts>>
    BY <1>6 DEF process
  <2>2. starts[r] = 1
    <3>1. <<NotBegun>> # <<>> /\ Head(<<NotBegun>>).op # "started"
      BY ReportFacts
    <3> QED
      BY <1>1, <1>6, <3>1 DEF Reports
  <2>3. PICK p \in Pids : /\ ToldBegun(r, p)
                          /\ Tracked(p) => program[children[p].req] = NoProgram
    BY <1>2, <2>2
  <2>4. /\ Head(pipe[r]).pid = p /\ Tail(pipe[r]) \in {<<>>, <<Over>>}
        /\ Tail(pipe[r]) = <<Over>> => pipe[r] = <<Begun(p), Over>>
    BY <2>3, ReportFacts, ZenonT(60) DEF ToldBegun
  <2>5. /\ pipe'[r] = Tail(pipe[r]) /\ \A q \in Requests \ {r} : pipe'[q] = pipe[q]
        /\ DOMAIN pipe' = Requests /\ pipe' = [q \in Requests |-> pipe'[q]]
    BY <1>0, <1>6 DEF Types
  <2>6. PICK entry : /\ \E reader \in BOOLEAN :
                          entry = [NoChild EXCEPT !.req = r, !.name = name[r], !.reader = reader]
                     /\ Track(p, r, entry)
    BY <1>6, <2>4
  <2>7. /\ entry \in Entries /\ entry.req = r /\ ~entry.unitless /\ ~entry.reported
        /\ entry.name = name[r]
    BY <1>0, <2>6, Ids, ZenonT(60) DEF NoChild, Entries, Types
  <2>8. children' = [children EXCEPT ![p] = entry]
    BY <2>6 DEF Track, Answer
  <2>9. program[r] = NoProgram \/ program[r].pid = p
    <3>1. CASE pipe[r] = <<Begun(p)>>
      <4>1. \A q : <<Begun(q)>> = <<Begun(p)>> => q = p
        BY ReportFacts
      <4>2. program[r].pid \in {0, p}
        BY <1>1, <3>1, <4>1, ReportFacts DEF Reports
      <4> QED
        BY <1>1, <4>2, Ids DEF Session
    <3>2. CASE pipe[r] = <<Begun(p), Over>>
      BY <1>1, <3>2, ReportFacts DEF Reports
    <3> QED
      BY <2>3, <3>1, <3>2 DEF ToldBegun
  <2>10. OutsideTypes'
    BY <1>0, <1>3, <2>1, <2>5 DEF Types, OutsideTypes
  <2>11. \A q \in Requests \ {r} : SameSession(q)
    BY <1>3, <2>1, <2>5 DEF SameSession
  <2>12. ~MayStart(r)'
    BY <1>1, <1>3, <2>2 DEF Session, MayStart
  <2>13. program[r].in # "compositor"
    BY <1>1, NoProgramFields DEF Session, Holds, Unheld, IsTracked
  <2>14. Session(r)'
    BY <1>1, <1>2, <1>3, <2>1, <2>2, <2>5, <2>12, <2>13 DEF Session, MayStart
  <2>15. Reports(r)'
    <3>1. pipe'[r] = <<>> \/ (pipe'[r] = <<Over>> /\ program[r] = NoProgram)
      BY <1>1, <2>4, <2>5, ReportFacts DEF Reports
    <3> QED
      BY <2>1, <2>2, <3>1 DEF Reports
  <2>16. SamePid'
    BY <1>0, <2>1 DEF SamePid
  <2>17. /\ name[r] \in UnitSlots /\ unit'[name[r]] \in {r, 0}
    <3>1. name[r] \in UnitSlots
      BY <1>1, <1>2 DEF Unit
    <3> QED
      BY <1>1, <1>3, <3>1 DEF Holds
  <2> QED
    BY <1>1, <1>2, <1>3, <1>a, <2>1, <2>2, <2>3, <2>4, <2>5, <2>6, <2>7, <2>9, <2>10, <2>11,
       <2>12, <2>14, <2>15, <2>16, <2>17, AnsweredTracked
<1> QED
  BY <1>1, <1>4, <1>5, <1>6 DEF HearStart


-----------------------------------------------------------------------------
(* A child is let go of: it was stopped or its end was seen *)

\* A unit that ends takes its supervisor and what it supervises with it.
LEMMA UnitStopped ==
  ASSUME ManagerInv, NEW u \in Requests, sup[u] # "none", EndUnit(u), name' = name
  PROVE  /\ unit' \in [UnitSlots -> -1..MaxRequests] /\ sup' \in [Requests -> SupStates]
         /\ program' \in [Requests -> Running] /\ starts' = starts
         /\ sup'[u] = "gone" /\ \A q \in Requests \ {u} : sup'[q] = sup[q]
         /\ \A q \in Requests : /\ Unit(q)'
                                /\ program'[q] = program[q] \/ program'[q] = NoProgram
                                /\ program'[q].in = "unit" <=> sup'[q] = "supervises"
                                /\ program[q].in = "compositor" => program'[q] = program[q]
         /\ \A s \in UnitSlots : unit'[s] \in {unit[s], 0}
<1>0. /\ Types
      /\ unit' = [s \in UnitSlots |-> IF unit[s] = u THEN 0 ELSE unit[s]]
      /\ sup' = [sup EXCEPT ![u] = "gone"] /\ starts' = starts
      /\ \/ program[u].in = "unit" /\ program' = [program EXCEPT ![u] = NoProgram]
         \/ program[u].in # "unit" /\ program' = program
  BY DEF EndUnit, ManagerInv
<1>1. /\ unit' \in [UnitSlots -> -1..MaxRequests]
      /\ \A s \in UnitSlots : unit'[s] = IF unit[s] = u THEN 0 ELSE unit[s]
  <2>1. 0 \in -1..MaxRequests
    BY ConstantsAssumption
  <2> QED
    BY <1>0, <2>1 DEF Types
<1>2. /\ sup' \in [Requests -> SupStates] /\ sup'[u] = "gone"
      /\ \A q \in Requests \ {u} : sup'[q] = sup[q]
  BY <1>0 DEF Types, SupStates
<1>3. /\ program' \in [Requests -> Running]
      /\ \A q \in Requests : \/ program'[q] = program[q] /\ (q = u => program[q].in # "unit")
                             \/ program'[q] = NoProgram /\ program[q].in = "unit" /\ q = u
  BY <1>0, NoProgramFields, ZenonT(60) DEF Types
<1>4. ASSUME NEW q \in Requests PROVE Unit(q)'
  BY <1>1, <1>2, Ids DEF ManagerInv, Unit
<1>5. ASSUME NEW q \in Requests PROVE program'[q].in = "unit" <=> sup'[q] = "supervises"
  BY <1>2, <1>3, NoProgramFields DEF ManagerInv, Session
<1> QED
  BY <1>0, <1>1, <1>2, <1>3, <1>4, <1>5

LEMMA LetGo ==
  ASSUME ManagerInv, worker.req = 0, ~At("down"), worker'.req = 0, WorkerAt', Types', Queue',
         UNCHANGED <<name, link, starts, pipe>>,
         \A q \in Requests : Waiting(q)' => Waiting(q),
         \A q \in Requests : \/ NewsOf(evts', told', q) = Heard(q)
                             \/ Heard(q) # NoNews /\ NewsOf(evts', told', q) # NoNews,
         \A p \in Pids :
           \/ children'[p] = NoChild
              /\ (Tracked(p) /\ children[p].unitless => program'[children[p].req] = NoProgram)
           \/ /\ children'[p] = children[p] /\ NewsOf(evts', told', p) = Heard(p)
              /\ Tracked(p) /\ children[p].unitless =>
                   program'[children[p].req] = program[children[p].req]
                     \/ program'[children[p].req].in = "compositor",
         unconf' \subseteq unconf,
         \A q \in Requests :
           /\ Unit(q)'
           /\ sup'[q] = sup[q] \/ (sup[q] # "none" /\ sup'[q] = "gone")
           /\ client'[q] = client[q] \/ (client'[q] = "ended" /\ sup'[q] = "gone")
           /\ program'[q] = program[q] \/ program'[q] = NoProgram
           /\ program'[q].in = "unit" <=> sup'[q] = "supervises"
           /\ MayStart(q)' => \/ q \in unconf' \/ At("down")'
                              \/ NewsOf(evts', told', q).op = "terminatedUnconfirmed",
         \A s \in UnitSlots : unit'[s] \in {unit[s], 0}
  PROVE  ManagerInv'
<1>0. Types
  BY DEF ManagerInv
<1>1. NoChild.req = 0 /\ 0 \notin Requests
  BY Ids DEF NoChild
<1>2. ASSUME NEW q \in Requests, IsTracked(q)' PROVE IsTracked(q)
  BY <1>1, <1>2 DEF IsTracked
<1>3. ASSUME NEW q \in Requests PROVE Waits(q)'
  <2>1. Waiting(q) => Unheld(q) /\ Unstarted(q)
    BY DEF ManagerInv, Waits
  <2>2. Waiting(q) => Unheld(q)'
    BY <1>2, <2>1 DEF Unheld, Heard
  <2>3. Waiting(q) => Unstarted(q)'
    BY <2>1 DEF Unstarted, ManagerInv, Session
  <2> QED
    BY <1>1, <2>2, <2>3 DEF Waits
<1>4. ASSUME NEW q \in Requests PROVE Late(q)'
  BY <1>2 DEF ManagerInv, Late, Heard, MayStart, At
<1>5. ASSUME NEW q \in Requests PROVE Session(q)'
  <2>0. Session(q)
    BY DEF ManagerInv
  <2>1. MayStart(q)' => MayStart(q)
    BY DEF MayStart
  <2>2. program'[q].in = "compositor" =>
          children'[program'[q].pid].req = q /\ children'[program'[q].pid].unitless
    <3> SUFFICES ASSUME program'[q].in = "compositor"
                 PROVE  children'[program'[q].pid].req = q /\ children'[program'[q].pid].unitless
      OBVIOUS
    <3>1. /\ program'[q] = program[q] /\ program[q] # NoProgram /\ program[q].pid \in Pids
          /\ children[program[q].pid].req = q /\ children[program[q].pid].unitless
      BY <2>0, NoProgramFields DEF Session
    <3>2. Tracked(program[q].pid) /\ program'[children[program[q].pid].req] # NoProgram
      BY <1>1, <3>1 DEF Tracked
    <3> QED
      BY <3>1, <3>2
  <2> QED
    BY <2>0, <2>1, <2>2, NoProgramFields DEF Session
<1>6. ASSUME NEW q \in Requests PROVE Reports(q)'
  BY NoProgramFields DEF ManagerInv, Reports, Session
<1>7. SamePid'
  BY NoProgramFields DEF ManagerInv, SamePid
<1>8. ASSUME NEW p \in Pids PROVE Entry(p)'
  <2> SUFFICES ASSUME Tracked(p)' PROVE Entry(p)'
    BY DEF Entry, Tracked
  <2>1. Tracked(p) /\ children'[p] = children[p] /\ NewsOf(evts', told', p) = Heard(p)
    BY <1>1 DEF Tracked
  <2>2. children[p].req \in Requests /\ Entry(p) /\ children[p] \in Entries
    BY <2>1, TrackedEntry
  <2>3. \A q \in Pids : children'[q].req = children[p].req => q = p
    BY <1>1, <2>1, <2>2 DEF Entry
  <2>4. children[p].unitless => program'[children[p].req].in = "compositor"
    <3> SUFFICES ASSUME children[p].unitless PROVE program'[children[p].req].in = "compositor"
      OBVIOUS
    <3>1. program[children[p].req].in = "compositor"
      BY <2>1, <2>2 DEF Entry
    <3>2. \/ children'[p] = NoChild
          \/ program'[children[p].req] = program[children[p].req]
          \/ program'[children[p].req].in = "compositor"
      BY <2>1
    <3> QED
      BY <1>1, <2>1, <2>2, <3>1, <3>2 DEF Tracked
  <2>5. ~children[p].unitless => unit'[children[p].name] \in {children[p].req, 0}
    BY <2>1, <2>2 DEF Entry
  <2>6. At("down")' \/ NewsOf(evts', told', children[p].req) # NoNews
    BY <2>1, <2>2 DEF Entry
  <2>7. program'[children[p].req] = program[children[p].req] \/ program'[children[p].req] = NoProgram
    BY <2>2
  <2>8. 0 # children[p].req
    BY <1>1, <2>2
  <2> QED
    BY <2>1, <2>2, <2>3, <2>4, <2>5, <2>6, <2>7, <2>8, NoProgramFields
    DEF Entry, Tracked, At, Heard, Runs
<1> QED
  BY <1>3, <1>4, <1>5, <1>6, <1>7, <1>8 DEF ManagerInv


\* A stop was answered, and what it was for is no longer in the tables.
LEMMA Dismissed ==
  ASSUME ManagerInv, At("idle"), cmds # <<>>, cmds' = Tail(cmds),
         NEW v \in Evts, v.req = 0, NEW entries \in [Pids -> Entries], NEW late \in SUBSET Requests,
         Answer(<<v>>, entries, late),
         v.id \in Requests => Heard(v.id) # NoNews /\ v.op = "terminatedUnconfirmed",
         UNCHANGED <<asked, told, shutdown, name, link, pipe>>, OutsideTypes',
         starts' = starts, late \subseteq unconf,
         \A p \in Pids :
           \/ entries[p] = NoChild
              /\ (Tracked(p) /\ children[p].unitless => program'[children[p].req] = NoProgram)
           \/ /\ entries[p] = children[p] /\ v.id # p
              /\ Tracked(p) /\ children[p].unitless =>
                   program'[children[p].req] = program[children[p].req],
         \A q \in Requests :
           /\ Unit(q)'
           /\ sup'[q] = sup[q] \/ (sup[q] # "none" /\ sup'[q] = "gone")
           /\ client'[q] = client[q] \/ (client'[q] = "ended" /\ sup'[q] = "gone")
           /\ program'[q] = program[q] \/ program'[q] = NoProgram
           /\ program'[q].in = "unit" <=> sup'[q] = "supervises"
           /\ q \in unconf \ late => v.id = q,
         \A s \in UnitSlots : unit'[s] \in {unit[s], 0}
  PROVE  ManagerInv'
<1>0. /\ Types /\ Queue /\ worker.req = 0 /\ ~At("down") /\ worker \in Workers
  BY DEF ManagerInv, WorkerAt, At, Types
<1>1. /\ children' = entries /\ unconf' = late /\ worker' \in Workers /\ worker'.req = 0
      /\ At("down")' <=> shutdown
      /\ WorkerAt' /\ evts' = IF shutdown THEN evts ELSE evts \o <<v>>
  BY AnswerRests, ZenonT(60)
<1>2. /\ evts' \in Seq(Evts) /\ HeardGrows
      /\ \A x \in Pids \cup Requests :
           NewsOf(evts', told', x) = IF ~shutdown /\ x \in {v.id, v.req} THEN v ELSE Heard(x)
  BY <1>0, <1>1, SaidOne
<1>3. \A x \in Pids \cup Requests :
        NewsOf(evts', told', x) = IF ~shutdown /\ x = v.id THEN v ELSE Heard(x)
  BY <1>2, Ids
<1>4. Queue' /\ cmds' \in Seq(Cmds) /\ \A q \in Requests : Waiting(q)' => Waiting(q)
  BY <1>0, <1>2, QueueTaken
<1>5. Types'
  BY <1>0, <1>1, <1>2, <1>4 DEF Types, OutsideTypes
<1>6. \A q \in Requests : \/ NewsOf(evts', told', q) = Heard(q)
                          \/ Heard(q) # NoNews /\ NewsOf(evts', told', q) # NoNews
  BY <1>3, AnswerKinds
<1>7. \A q \in Requests : MayStart(q)' => \/ q \in unconf' \/ At("down")'
                                          \/ NewsOf(evts', told', q).op = "terminatedUnconfirmed"
  <2> SUFFICES ASSUME NEW q \in Requests, MayStart(q)', q \notin late, ~shutdown
               PROVE  NewsOf(evts', told', q).op = "terminatedUnconfirmed"
    BY <1>1
  <2>1. CASE q \in unconf
    BY <1>3, <2>1
  <2>2. CASE q \notin unconf
    <3>1. MayStart(q)
      BY DEF MayStart
    <3>2. Heard(q).op = "terminatedUnconfirmed"
      BY <1>0, <2>2, <3>1, Ids DEF ManagerInv, Late
    <3> QED
      BY <1>3, <3>2
  <2> QED
    BY <2>1, <2>2
<1>8. \A p \in Pids : \/ entries[p] = NoChild
                      \/ entries[p] = children[p] /\ NewsOf(evts', told', p) = Heard(p)
  BY <1>3
<1> QED
  BY <1>0, <1>1, <1>3, <1>4, <1>5, <1>6, <1>7, <1>8, LetGo


LEMMA TerminateStep ==
  ASSUME ManagerInv, Terminate PROVE ManagerInv'
<1>0. /\ Types /\ At("idle") /\ cmds # <<>> /\ Head(cmds).op = "terminate" /\ cmds' = Tail(cmds)
      /\ UNCHANGED <<asked, told, shutdown, name, link, pipe>>
  BY DEF ManagerInv, Terminate, NextCmd
<1>1. PICK p \in Pids : p = Head(cmds).id
  <2>1. Head(cmds) \in Cmds
    BY <1>0, HeadTailProperties, SMTT(60) DEF Types
  <2> QED
    BY <1>0, <2>1, CmdKinds
<1> DEFINE entries == [children EXCEPT ![p] = NoChild]
<1>2. /\ Answer(<<Evt("terminated", p)>>, entries, unconf)
      /\ \/ /\ ~Tracked(p)
            /\ UNCHANGED <<unit, sup, process, client>>
         \/ /\ Tracked(p) /\ children[p].unitless
            /\ program' = [program EXCEPT ![children[p].req] = NoProgram]
            /\ UNCHANGED <<unit, sup, starts, client>>
         \/ /\ Tracked(p) /\ ~children[p].unitless /\ StopFails(children[p].name)
            /\ UNCHANGED <<unit, sup, process, client>>
         \/ /\ Tracked(p) /\ ~children[p].unitless /\ StopWorks(children[p].name)
            /\ StopUnit(children[p].name)
            /\ client' = [client EXCEPT ![children[p].req] = "ended"]
  BY <1>1 DEF Terminate
<1>3. /\ Evt("terminated", p) \in Evts /\ Evt("terminated", p).id = p
      /\ Evt("terminated", p).req = 0 /\ p \notin Requests
  BY Ids DEF Evt, Evts
<1>4. /\ entries \in [Pids -> Entries] /\ entries[p] = NoChild
      /\ \A q \in Pids \ {p} : entries[q] = children[q]
  <2>1. NoChild \in Entries
    BY Ids, ConstantsAssumption DEF NoChild, Entries
  <2> QED
    BY <1>0, <2>1 DEF Types
<1>5. unconf \in SUBSET Requests
  BY <1>0 DEF Types
<1>6. \A q \in Pids \ {p} : Tracked(q) /\ Tracked(p) => children[q].req # children[p].req
  BY TrackedEntry DEF Entry
<1>7. \A q \in Requests : Unit(q) /\ Session(q)
  BY DEF ManagerInv
<1> HIDE DEF entries
<1>8. CASE UNCHANGED <<unit, sup, process, client>> /\ (Tracked(p) => ~children[p].unitless)
  <2>1. OutsideTypes' /\ UNCHANGED <<program, starts>>
    BY <1>0, <1>8 DEF Types, OutsideTypes, process
  <2>2. \A q \in Requests : Unit(q)' /\ (program'[q].in = "unit" <=> sup'[q] = "supervises")
    BY <1>0, <1>7, <1>8, <2>1 DEF Unit, Session
  <2> QED
    BY <1>0, <1>2, <1>3, <1>4, <1>5, <1>8, <2>1, <2>2, Dismissed
<1>9. CASE /\ Tracked(p) /\ children[p].unitless
           /\ program' = [program EXCEPT ![children[p].req] = NoProgram]
           /\ UNCHANGED <<unit, sup, starts, client>>
  <2>1. PICK r \in Requests : r = children[p].req /\ program[r].in = "compositor"
    BY <1>9, TrackedEntry DEF Entry
  <2>2. /\ program' \in [Requests -> Running] /\ program'[r] = NoProgram
        /\ \A q \in Requests \ {r} : program'[q] = program[q]
    BY <1>0, <1>9, <2>1, NoProgramFields DEF Types
  <2>3. OutsideTypes'
    BY <1>0, <1>9, <2>2 DEF Types, OutsideTypes
  <2>4. \A q \in Requests : Unit(q)' /\ (program'[q].in = "unit" <=> sup'[q] = "supervises")
    BY <1>0, <1>7, <1>9, <2>1, <2>2, NoProgramFields DEF Unit, Session
  <2>5. \A q \in Pids \ {p} : Tracked(q) => children[q].req \in Requests \ {r}
    BY <1>6, <1>9, <2>1, TrackedEntry
  <2> QED
    BY <1>0, <1>2, <1>3, <1>4, <1>5, <1>9, <2>1, <2>2, <2>3, <2>4, <2>5, Dismissed, SMTT(60)
<1>10. CASE /\ Tracked(p) /\ ~children[p].unitless /\ StopWorks(children[p].name)
            /\ StopUnit(children[p].name)
            /\ client' = [client EXCEPT ![children[p].req] = "ended"]
  <2>1. PICK r \in Requests : /\ r = children[p].req /\ unit[children[p].name] = r
                              /\ children[p].name \in UnitSlots
    BY <1>10, TrackedEntry DEF Entry, StopWorks
  <2>2. EndUnit(r) /\ sup[r] # "none"
    BY <1>7, <1>10, <2>1 DEF StopUnit, Unit
  <2>3. /\ unit' \in [UnitSlots -> -1..MaxRequests] /\ sup' \in [Requests -> SupStates]
        /\ program' \in [Requests -> Running] /\ starts' = starts
        /\ sup'[r] = "gone" /\ \A q \in Requests \ {r} : sup'[q] = sup[q]
        /\ \A q \in Requests : /\ Unit(q)'
                               /\ program'[q] = program[q] \/ program'[q] = NoProgram
                               /\ program'[q].in = "unit" <=> sup'[q] = "supervises"
                               /\ program[q].in = "compositor" => program'[q] = program[q]
        /\ \A s \in UnitSlots : unit'[s] \in {unit[s], 0}
    BY <1>0, <2>2, UnitStopped
  <2>4. /\ client' \in [Requests -> {"none", "waits", "ended"}]
        /\ \A q \in Requests : client'[q] = client[q] \/ (client'[q] = "ended" /\ sup'[q] = "gone")
    BY <1>0, <1>10, <2>1, <2>3 DEF Types
  <2>5. OutsideTypes'
    BY <1>0, <2>3, <2>4 DEF Types, OutsideTypes
  <2>6. \A q \in Pids : Tracked(q) /\ children[q].unitless =>
                          program'[children[q].req] = program[children[q].req]
    BY <2>3, TrackedEntry DEF Entry
  <2>7. \A q \in Requests : sup'[q] = sup[q] \/ (sup[q] # "none" /\ sup'[q] = "gone")
    BY <2>2, <2>3
  <2>8. \A q \in Pids :
          \/ entries[q] = NoChild
             /\ (Tracked(q) /\ children[q].unitless => program'[children[q].req] = NoProgram)
          \/ /\ entries[q] = children[q] /\ Evt("terminated", p).id # q
             /\ Tracked(q) /\ children[q].unitless =>
                  program'[children[q].req] = program[children[q].req]
    BY <1>3, <1>4, <1>10, <2>6
  <2>9. \A q \in Requests :
          /\ Unit(q)'
          /\ sup'[q] = sup[q] \/ (sup[q] # "none" /\ sup'[q] = "gone")
          /\ client'[q] = client[q] \/ (client'[q] = "ended" /\ sup'[q] = "gone")
          /\ program'[q] = program[q] \/ program'[q] = NoProgram
          /\ program'[q].in = "unit" <=> sup'[q] = "supervises"
          /\ q \in unconf \ unconf => Evt("terminated", p).id = q
    BY <2>3, <2>4, <2>7
  <2> QED
    <3>1. /\ starts' = starts /\ \A s \in UnitSlots : unit'[s] \in {unit[s], 0}
          /\ Answer(<<Evt("terminated", p)>>, entries, unconf)
      BY <1>2, <2>3
    <3>2. entries \in [Pids -> Entries]
      BY <1>4
    <3> QED
      BY <1>0, <1>3, <1>5, <2>5, <2>8, <2>9, <3>1, <3>2, Dismissed
<1> QED
  BY <1>2, <1>8, <1>9, <1>10

LEMMA TerminateUnconfirmedStep ==
  ASSUME ManagerInv, TerminateUnconfirmed PROVE ManagerInv'
<1>0. /\ Types /\ Queue /\ At("idle") /\ cmds # <<>> /\ Head(cmds).op = "terminateUnconfirmed"
      /\ cmds' = Tail(cmds) /\ UNCHANGED <<asked, told, shutdown, name, link, pipe>>
  BY DEF ManagerInv, TerminateUnconfirmed, NextCmd
<1>1. PICK r \in Requests : r = Head(cmds).id /\ Heard(r) # NoNews
  <2>1. Head(cmds) \in Cmds /\ Head(cmds) = cmds[1] /\ 1 \in DOMAIN cmds
    BY <1>0, HeadTailProperties DEF Types
  <2> QED
    BY <1>0, <2>1, CmdKinds DEF Queue
<1>2. /\ Answer(<<Evt("terminatedUnconfirmed", r)>>, children, unconf \ {r})
      /\ \/ UNCHANGED <<unit, sup, process, client>>
         \/ /\ r \in unconf /\ StopWorks(name[r])
            /\ StopUnit(name[r])
            /\ client' = [client EXCEPT ![r] = "ended"]
  BY <1>1 DEF TerminateUnconfirmed
<1>3. /\ Evt("terminatedUnconfirmed", r) \in Evts /\ Evt("terminatedUnconfirmed", r).id = r
      /\ Evt("terminatedUnconfirmed", r).op = "terminatedUnconfirmed"
      /\ Evt("terminatedUnconfirmed", r).req = 0 /\ r \notin Pids
  BY Ids DEF Evt, Evts
<1>4. /\ unconf \in SUBSET Requests /\ unconf \ {r} \in SUBSET Requests /\ unconf \ {r} \subseteq unconf
      /\ children \in [Pids -> Entries] /\ \A q \in unconf \ (unconf \ {r}) : q = r
  BY <1>0 DEF Types
<1>7. \A q \in Requests : Unit(q) /\ Session(q)
  BY DEF ManagerInv
<1>8. CASE UNCHANGED <<unit, sup, process, client>>
  <2>1. OutsideTypes' /\ UNCHANGED <<program, starts>>
    BY <1>0, <1>8 DEF Types, OutsideTypes, process
  <2>2. \A q \in Requests : Unit(q)' /\ (program'[q].in = "unit" <=> sup'[q] = "supervises")
    BY <1>0, <1>7, <1>8, <2>1 DEF Unit, Session
  <2> QED
    BY <1>0, <1>1, <1>2, <1>3, <1>4, <1>8, <2>1, <2>2, Dismissed
<1>10. CASE /\ r \in unconf /\ StopWorks(name[r])
            /\ StopUnit(name[r]) /\ client' = [client EXCEPT ![r] = "ended"]
  <2>1. sup[r] # "none" /\ name[r] \in UnitSlots /\ unit[name[r]] # -1 /\ unit[name[r]] # 0
    BY <1>7, <1>10 DEF ManagerInv, Late, Session, Unit, StopWorks
  <2>2. PICK u \in Requests : unit[name[r]] = u
    BY <1>0, <2>1, ConstantsAssumption DEF Types, Requests
  <2>3. EndUnit(u) /\ sup[u] # "none" /\ (u # r => sup[r] = "gone")
    BY <1>7, <1>10, <2>1, <2>2 DEF StopUnit, Unit
  <2>4. /\ unit' \in [UnitSlots -> -1..MaxRequests] /\ sup' \in [Requests -> SupStates]
        /\ program' \in [Requests -> Running] /\ starts' = starts
        /\ sup'[u] = "gone" /\ \A q \in Requests \ {u} : sup'[q] = sup[q]
        /\ \A q \in Requests : /\ Unit(q)'
                               /\ program'[q] = program[q] \/ program'[q] = NoProgram
                               /\ program'[q].in = "unit" <=> sup'[q] = "supervises"
                               /\ program[q].in = "compositor" => program'[q] = program[q]
        /\ \A s \in UnitSlots : unit'[s] \in {unit[s], 0}
    BY <1>0, <2>3, UnitStopped
  <2>5. sup'[r] = "gone"
    BY <2>3, <2>4
  <2>6. /\ client' \in [Requests -> {"none", "waits", "ended"}]
        /\ \A q \in Requests : client'[q] = client[q] \/ (client'[q] = "ended" /\ sup'[q] = "gone")
    BY <1>0, <1>10, <2>5 DEF Types
  <2>7. OutsideTypes'
    BY <1>0, <2>4, <2>6 DEF Types, OutsideTypes
  <2>8. \A q \in Pids : Tracked(q) /\ children[q].unitless =>
                          program'[children[q].req] = program[children[q].req]
    BY <2>4, TrackedEntry DEF Entry
  <2>9. \A q \in Requests : sup'[q] = sup[q] \/ (sup[q] # "none" /\ sup'[q] = "gone")
    BY <2>3, <2>4
  <2>10. \A q \in Pids :
           /\ children[q] = children[q] /\ Evt("terminatedUnconfirmed", r).id # q
           /\ Tracked(q) /\ children[q].unitless =>
                program'[children[q].req] = program[children[q].req]
    BY <1>3, <2>8
  <2>11. \A q \in Requests :
           /\ Unit(q)'
           /\ sup'[q] = sup[q] \/ (sup[q] # "none" /\ sup'[q] = "gone")
           /\ client'[q] = client[q] \/ (client'[q] = "ended" /\ sup'[q] = "gone")
           /\ program'[q] = program[q] \/ program'[q] = NoProgram
           /\ program'[q].in = "unit" <=> sup'[q] = "supervises"
           /\ q \in unconf \ (unconf \ {r}) => Evt("terminatedUnconfirmed", r).id = q
    BY <1>3, <2>4, <2>6, <2>9
  <2> QED
    <3>1. /\ starts' = starts /\ \A s \in UnitSlots : unit'[s] \in {unit[s], 0}
          /\ Answer(<<Evt("terminatedUnconfirmed", r)>>, children, unconf \ {r})
          /\ \A q \in Pids : \/ children[q] = NoChild
                                /\ (Tracked(q) /\ children[q].unitless =>
                                      program'[children[q].req] = NoProgram)
                             \/ /\ children[q] = children[q] /\ Evt("terminatedUnconfirmed", r).id # q
                                /\ Tracked(q) /\ children[q].unitless =>
                                     program'[children[q].req] = program[children[q].req]
      BY <1>2, <2>4, <2>10
    <3>2. /\ children \in [Pids -> Entries] /\ unconf \ {r} \in SUBSET Requests
          /\ unconf \ {r} \subseteq unconf
      BY <1>4
    <3> QED
      BY <1>0, <1>1, <1>3, <2>7, <2>11, <3>1, <3>2, Dismissed
<1> QED
  BY <1>2, <1>8, <1>10


-----------------------------------------------------------------------------
(* Reaping *)

LEMMA Appended ==
  ASSUME Types, NEW v \in Evts, told' = told, evts' = Append(evts, v)
  PROVE  /\ evts' \in Seq(Evts)
         /\ \A x \in Pids \cup Requests :
              NewsOf(evts', told', x) = IF x \in {v.id, v.req} THEN v ELSE Heard(x)
<1>1. evts \in Seq(Evts)
  BY DEF Types
<1>2. ASSUME NEW x \in Pids \cup Requests
      PROVE  NewsOf(Append(evts, v), told, x) = IF x \in {v.id, v.req} THEN v ELSE NewsOf(evts, told, x)
  BY <1>1, NewsOfAppend
<1> QED
  BY <1>1, <1>2 DEF Heard

LEMMA GoesOn ==
  ASSUME worker \in Workers, worker.req = 0, At("reap"),
         NEW todo \in SUBSET Pids, NEW late \in SUBSET Requests, GoOn(todo, late)
  PROVE  /\ worker' \in Workers /\ worker'.req = 0 /\ worker'.at \in {"idle", "reap"}
         /\ worker'.todo = todo /\ worker'.late = late
         /\ todo # {} \/ late # {} => worker'.at = "reap"
<1>1. CASE todo = {} /\ late = {}
  BY <1>1, IdleFacts DEF GoOn
<1>2. CASE ~(todo = {} /\ late = {})
  <2>1. worker' = [worker EXCEPT !.todo = todo, !.late = late]
    BY <1>2 DEF GoOn
  <2> QED
    BY <2>1 DEF Workers, At
<1> QED
  BY <1>1, <1>2

\* What the reaping worker relies on, and that it waits for no start.
LEMMA RoundGoesOn ==
  ASSUME ManagerInv, At("reap"), NEW todo \in SUBSET worker.todo, NEW late \in SUBSET worker.late,
         GoOn(todo, late),
         \A p \in todo : Tracked(p)', late \subseteq unconf'
  PROVE  /\ WorkerAt' /\ worker' \in Workers /\ worker.req = 0 /\ worker'.req = 0
         /\ ~At("down") /\ ~At("down")' /\ worker'.at \in {"idle", "reap"}
<1>1. /\ worker \in Workers /\ worker.req = 0 /\ todo \in SUBSET Pids /\ late \in SUBSET Requests
  BY DEF ManagerInv, WorkerAt, Types, At, Workers
<1>2. /\ worker' \in Workers /\ worker'.req = 0 /\ worker'.at \in {"idle", "reap"}
      /\ worker'.todo = todo /\ worker'.late = late
      /\ todo # {} \/ late # {} => worker'.at = "reap"
  BY <1>1, GoesOn
<1> QED
  BY <1>1, <1>2 DEF WorkerAt, At

LEMMA ReapUnitlessStep ==
  ASSUME ManagerInv, NEW p \in Pids, ReapUnitless(p) PROVE ManagerInv'
<1>0. /\ Types /\ Queue /\ At("reap") /\ p \in worker.todo /\ children[p].unitless
      /\ GoOn(worker.todo \ {p}, worker.late)
      /\ UNCHANGED <<asked, cmds, told, shutdown, unconf, name, unit, sup, client, link, pipe, starts>>
  BY DEF ManagerInv, ReapUnitless
<1>1. PICK r \in Requests : r = children[p].req /\ Tracked(p) /\ Entry(p)
  BY <1>0, TrackedEntry DEF ManagerInv, WorkerAt
<1>2. /\ program[r].in = "compositor"
      /\ \A q \in Pids \ {p} : Tracked(q) => children[q].req \in Requests \ {r}
  BY <1>0, <1>1, TrackedEntry DEF Entry
<1>3. \/ UNCHANGED <<evts, children, program>>
      \/ /\ evts' = Append(evts, Evt("exited", p))
         /\ children' = [children EXCEPT ![p] = NoChild]
         /\ program' = [program EXCEPT ![r] = NoProgram]
  BY <1>1 DEF ReapUnitless
<1>4. \A q \in Requests : Unit(q)'
  BY <1>0 DEF ManagerInv, Unit
<1>5. CASE UNCHANGED <<evts, children, program>>
  <2>1. /\ WorkerAt' /\ worker' \in Workers /\ worker.req = 0 /\ worker'.req = 0
        /\ ~At("down") /\ ~At("down")'
    <3>1. \A q \in worker.todo \ {p} : Tracked(q)'
      BY <1>5 DEF ManagerInv, WorkerAt, Tracked
    <3>2. worker.late \subseteq unconf'
      BY <1>0 DEF ManagerInv, WorkerAt
    <3> QED
      BY <1>0, <3>1, <3>2, RoundGoesOn
  <2>2. Types' /\ Queue' /\ \A q \in Requests : Waiting(q)' => Waiting(q)
    BY <1>0, <1>5, <2>1 DEF Types, Queue, Heard, Waiting
  <2>3. \A x \in Pids \cup Requests : NewsOf(evts', told', x) = Heard(x)
    BY <1>0, <1>5 DEF Heard
  <2>4. \A q \in Requests :
          /\ program'[q].in = "unit" <=> sup'[q] = "supervises"
          /\ MayStart(q)' => q \in unconf' \/ NewsOf(evts', told', q).op = "terminatedUnconfirmed"
    <3> TAKE q \in Requests
    <3>1. Session(q) /\ Late(q) /\ 0 # q
      BY Ids DEF ManagerInv
    <3> QED
      BY <1>0, <1>5, <2>1, <2>3, <3>1 DEF Session, Late, MayStart
  <2> QED
    BY <1>0, <1>4, <1>5, <2>1, <2>2, <2>3, <2>4, LetGo
<1>6. CASE /\ evts' = Append(evts, Evt("exited", p))
           /\ children' = [children EXCEPT ![p] = NoChild]
           /\ program' = [program EXCEPT ![r] = NoProgram]
  <2>1. /\ children'[p] = NoChild /\ \A q \in Pids \ {p} : children'[q] = children[q]
        /\ children' \in [Pids -> Entries]
    <3>1. NoChild \in Entries
      BY Ids, ConstantsAssumption DEF NoChild, Entries
    <3> QED
      BY <1>0, <1>6, <3>1 DEF Types
  <2>2. /\ program' \in [Requests -> Running] /\ program'[r] = NoProgram
        /\ \A q \in Requests \ {r} : program'[q] = program[q]
    BY <1>0, <1>6, NoProgramFields DEF Types
  <2>3. /\ WorkerAt' /\ worker' \in Workers /\ worker.req = 0 /\ worker'.req = 0
        /\ ~At("down") /\ ~At("down")'
    <3>1. \A q \in worker.todo \ {p} : Tracked(q)'
      BY <1>0, <2>1 DEF ManagerInv, WorkerAt, Tracked, Types, Workers
    <3>2. worker.late \subseteq unconf'
      BY <1>0 DEF ManagerInv, WorkerAt
    <3> QED
      BY <1>0, <3>1, <3>2, RoundGoesOn
  <2>4. Evt("exited", p) \in Evts /\ Evt("exited", p).id = p /\ Evt("exited", p).req = 0
    BY DEF Evt, Evts
  <2>5. /\ evts' \in Seq(Evts)
        /\ \A x \in (Pids \cup Requests) \ {p} : NewsOf(evts', told', x) = Heard(x)
    BY <1>0, <1>6, <2>4, Appended, Ids
  <2>6. \A q \in Requests : NewsOf(evts', told', q) = Heard(q)
    BY <2>5, Ids
  <2>7. Queue' /\ \A q \in Requests : Waiting(q)' => Waiting(q)
    <3>1. HeardGrows
      BY <2>6 DEF HeardGrows
    <3> QED
      BY <1>0, <3>1, QueueKept DEF Waiting
  <2>8. Types'
    BY <1>0, <2>1, <2>2, <2>3, <2>5 DEF Types
  <2>9. \A q \in Requests :
          /\ program'[q].in = "unit" <=> sup'[q] = "supervises"
          /\ MayStart(q)' => q \in unconf' \/ NewsOf(evts', told', q).op = "terminatedUnconfirmed"
    <3> TAKE q \in Requests
    <3>1. Session(q) /\ Late(q) /\ 0 # q
      BY Ids DEF ManagerInv
    <3> QED
      BY <1>0, <1>2, <2>2, <2>3, <2>6, <3>1, NoProgramFields DEF Session, Late, MayStart
  <2>10. \A q \in Pids :
           \/ children'[q] = NoChild
              /\ (Tracked(q) /\ children[q].unitless => program'[children[q].req] = NoProgram)
           \/ /\ children'[q] = children[q] /\ NewsOf(evts', told', q) = Heard(q)
              /\ Tracked(q) /\ children[q].unitless =>
                   program'[children[q].req] = program[children[q].req]
    BY <1>1, <1>2, <2>1, <2>2, <2>5
  <2>11. \A q \in Requests : program'[q] = program[q] \/ program'[q] = NoProgram
    BY <2>2
  <2> QED
    BY <1>0, <1>4, <2>3, <2>6, <2>7, <2>8, <2>9, <2>10, <2>11, LetGo
<1> QED
  BY <1>3, <1>5, <1>6

LEMMA ReapUnconfirmedStep ==
  ASSUME ManagerInv, NEW r \in Requests, ReapUnconfirmed(r) PROVE ManagerInv'
<1>0. /\ Types /\ Queue /\ At("reap") /\ r \in worker.late /\ worker.todo = {}
      /\ GoOn({}, worker.late \ {r}) /\ r \in unconf
      /\ UNCHANGED <<asked, cmds, told, shutdown, children, name, unit, sup, client, link, pipe,
                     program, starts>>
  BY DEF ManagerInv, ReapUnconfirmed, WorkerAt, outside, process
<1>1. \/ UNCHANGED <<evts, unconf>>
      \/ /\ client[r] = "ended" /\ unconf' = unconf \ {r}
         /\ evts' = Append(evts, Evt("unconfirmedExited", r))
  BY DEF ReapUnconfirmed
<1>2. /\ WorkerAt' /\ worker' \in Workers /\ worker.req = 0 /\ worker'.req = 0
      /\ ~At("down") /\ ~At("down")'
  <2>1. worker.late \ {r} \subseteq unconf'
    BY <1>1 DEF ManagerInv, WorkerAt
  <2>2. {} \in SUBSET worker.todo /\ worker.late \ {r} \in SUBSET worker.late /\ \A p \in {} : Tracked(p)'
    OBVIOUS
  <2> QED
    BY <1>0, <2>1, <2>2, RoundGoesOn
<1>3. Heard(r) # NoNews
  BY <1>0, <1>2 DEF ManagerInv, Late
<1>4. /\ Evt("unconfirmedExited", r) \in Evts /\ Evt("unconfirmedExited", r).id = r
      /\ Evt("unconfirmedExited", r).req = 0
  BY DEF Evt, Evts
<1>5. /\ evts' \in Seq(Evts)
      /\ \A x \in (Pids \cup Requests) \ {r} : NewsOf(evts', told', x) = Heard(x)
      /\ NewsOf(evts', told', r) = Heard(r) \/ (r \notin unconf' /\ NewsOf(evts', told', r) # NoNews)
  <2>1. CASE UNCHANGED <<evts, unconf>>
    BY <1>0, <2>1 DEF Types, Heard
  <2>2. CASE unconf' = unconf \ {r} /\ evts' = Append(evts, Evt("unconfirmedExited", r))
    <3>1. /\ evts' \in Seq(Evts)
          /\ \A x \in Pids \cup Requests :
               NewsOf(evts', told', x) =
                 IF x \in {r, 0} THEN Evt("unconfirmedExited", r) ELSE Heard(x)
      BY <1>0, <1>4, <2>2, Appended
    <3>2. /\ \A x \in (Pids \cup Requests) \ {r} : NewsOf(evts', told', x) = Heard(x)
          /\ NewsOf(evts', told', r) = Evt("unconfirmedExited", r)
      BY <3>1, Ids
    <3> QED
      BY <1>4, <2>2, <3>1, <3>2, AnswerKinds
  <2> QED
    BY <1>1, <2>1, <2>2
<1>6. \A q \in Requests : \/ NewsOf(evts', told', q) = Heard(q)
                          \/ Heard(q) # NoNews /\ NewsOf(evts', told', q) # NoNews
  BY <1>3, <1>5
<1>7. Queue' /\ \A q \in Requests : Waiting(q)' => Waiting(q)
  <2>1. HeardGrows
    BY <1>6 DEF HeardGrows
  <2> QED
    BY <1>0, <2>1, QueueKept DEF Waiting
<1>8. Types'
  BY <1>0, <1>1, <1>2, <1>5 DEF Types
<1>9. \A q \in Requests :
        /\ Unit(q)'
        /\ program'[q].in = "unit" <=> sup'[q] = "supervises"
        /\ MayStart(q)' => q \in unconf' \/ NewsOf(evts', told', q).op = "terminatedUnconfirmed"
  <2> TAKE q \in Requests
  <2>1. Session(q) /\ Late(q) /\ Unit(q) /\ 0 # q
    BY Ids DEF ManagerInv
  <2> QED
    BY <1>0, <1>1, <1>2, <1>5, <2>1 DEF Session, Late, MayStart, Unit
<1>10. \A p \in Pids : NewsOf(evts', told', p) = Heard(p)
  BY <1>5, Ids
<1> QED
  BY <1>0, <1>1, <1>2, <1>6, <1>7, <1>8, <1>9, <1>10, LetGo


LEMMA ReapUnitStep ==
  ASSUME ManagerInv, NEW p \in Pids, ReapUnit(p) PROVE ManagerInv'
<1>0. /\ Types /\ Queue /\ At("reap") /\ p \in worker.todo /\ ~children[p].unitless
      /\ GoOn(worker.todo \ {p}, worker.late)
      /\ UNCHANGED <<asked, cmds, told, shutdown, unconf, name, unit, sup, client, link,
                     program, starts>>
  BY DEF ManagerInv, ReapUnit, process
<1>1. PICK r \in Requests : r = children[p].req /\ Tracked(p) /\ Entry(p) /\ children[p] \in Entries
  BY <1>0, TrackedEntry DEF ManagerInv, WorkerAt
<1>2. /\ link[r] = "request" /\ pipe[r] \in {<<>>, <<Over>>} /\ starts[r] = 1 /\ ~Waiting(r)
      /\ Session(r) /\ Reports(r)
      /\ \A q \in Pids \ {p} : Tracked(q) => children[q].req \in Requests \ {r}
  BY <1>0, <1>1, TrackedEntry DEF Entry, ManagerInv, Waits, Unheld, IsTracked
<1>3. PICK got \in {<<>>, pipe[r]}, closed \in BOOLEAN, over \in BOOLEAN, reported \in BOOLEAN :
        /\ reported <=> children[p].reported \/ ExitHeard(got) \/ over
        /\ over => client[r] = "ended"
        /\ evts' = IF reported /\ ~children[p].reported
                   THEN Append(evts, Evt("exited", p)) ELSE evts
        /\ children' = [children EXCEPT ![p] =
                          IF over THEN NoChild
                          ELSE [children[p] EXCEPT !.reported = reported, !.closed = closed]]
        /\ pipe' = [pipe EXCEPT ![r] = IF children[p].reader THEN <<>> ELSE @]
  <2> DEFINE got == IF children[p].reader THEN pipe[r] ELSE <<>>
             closed == children[p].closed \/ ~children[p].reader \/ sup[r] = "gone"
             over == client[r] = "ended" /\ closed
             reported == children[p].reported \/ ExitHeard(got) \/ over
  <2>1. /\ got \in {<<>>, pipe[r]} /\ closed \in BOOLEAN /\ over \in BOOLEAN
        /\ reported \in BOOLEAN
    BY <1>1 DEF Entries, ExitHeard
  <2>2. /\ evts' = IF reported /\ ~children[p].reported
                   THEN Append(evts, Evt("exited", p)) ELSE evts
        /\ children' = [children EXCEPT ![p] =
                          IF over THEN NoChild
                          ELSE [children[p] EXCEPT !.reported = reported, !.closed = closed]]
        /\ pipe' = [pipe EXCEPT ![r] = IF children[p].reader THEN <<>> ELSE @]
    BY <1>1 DEF ReapUnit
  <2>3. over => client[r] = "ended"
    OBVIOUS
  <2>4. reported <=> children[p].reported \/ ExitHeard(got) \/ over
    OBVIOUS
  <2> HIDE DEF got, closed, over, reported
  <2> QED
    BY <2>1, <2>2, <2>3, <2>4
<1>4. /\ pipe'[r] \in {<<>>, pipe[r]} /\ \A q \in Requests \ {r} : pipe'[q] = pipe[q]
      /\ DOMAIN pipe' = Requests /\ pipe' = [q \in Requests |-> pipe'[q]]
  BY <1>0, <1>3 DEF Types
<1>5. /\ \A q \in Pids \ {p} : children'[q] = children[q]
      /\ children' \in [Pids -> Entries]
      /\ children'[p] = IF over THEN NoChild
                        ELSE [children[p] EXCEPT !.reported = reported, !.closed = closed]
  <2>1. NoChild \in Entries
    BY Ids, ConstantsAssumption DEF NoChild, Entries
  <2>2. [children[p] EXCEPT !.reported = reported, !.closed = closed] \in Entries
    BY <1>1 DEF Entries
  <2> QED
    BY <1>0, <1>3, <2>1, <2>2 DEF Types
<1>6. ~over => /\ children'[p].req = r /\ children'[p].name = children[p].name
               /\ ~children'[p].unitless /\ children'[p].reported = reported
  BY <1>0, <1>1, <1>5 DEF Entries
<1>7. reported /\ ~over => program[r] = NoProgram
  <2> SUFFICES ASSUME reported, ~over PROVE program[r] = NoProgram
    OBVIOUS
  <2>1. CASE children[p].reported
    BY <1>0, <1>1, <2>1 DEF Entry
  <2>2. CASE ExitHeard(got)
    <3>1. ~ExitHeard(<<>>)
      BY DEF ExitHeard
    <3>2. pipe[r] = <<Over>>
      BY <1>2, <1>3, <2>2, <3>1
    <3> QED
      BY <1>2, <3>2, ReportFacts DEF Reports
  <2> QED
    BY <1>3, <2>1, <2>2
<1>8. NoChild.req = 0 /\ 0 # r /\ 0 \notin Requests
  BY Ids DEF NoChild
<1>9. \A q \in Pids : Tracked(q)' => Tracked(q) /\ children'[q].req = children[q].req
  BY <1>1, <1>5, <1>6, <1>8 DEF Tracked
<1>10. \A q \in Requests : IsTracked(q)' => IsTracked(q)
  BY <1>1, <1>5, <1>6, <1>8 DEF IsTracked
<1>11. /\ evts' \in Seq(Evts)
       /\ \A x \in (Pids \cup Requests) \ {p} : NewsOf(evts', told', x) = Heard(x)
       /\ NewsOf(evts', told', p) = Heard(p) \/ (reported /\ ~children[p].reported)
  <2>1. Evt("exited", p) \in Evts /\ Evt("exited", p).id = p /\ Evt("exited", p).req = 0
    BY DEF Evt, Evts
  <2>2. CASE evts' = evts
    BY <1>0, <2>2 DEF Types, Heard
  <2>3. CASE evts' = Append(evts, Evt("exited", p)) /\ reported /\ ~children[p].reported
    <3>1. /\ evts' \in Seq(Evts)
          /\ \A x \in Pids \cup Requests :
               NewsOf(evts', told', x) = IF x \in {p, 0} THEN Evt("exited", p) ELSE Heard(x)
      BY <1>0, <2>1, <2>3, Appended
    <3> QED
      BY <2>3, <3>1, Ids
  <2> QED
    BY <1>3, <2>2, <2>3
<1>12. \A q \in Requests : NewsOf(evts', told', q) = Heard(q)
  BY <1>11, Ids
<1>13. /\ WorkerAt' /\ worker' \in Workers /\ worker.req = 0 /\ worker'.req = 0
       /\ ~At("down") /\ ~At("down")' /\ worker'.at \in {"idle", "reap"}
  <2>1. \A q \in worker.todo \ {p} : Tracked(q)'
    BY <1>0, <1>5 DEF ManagerInv, WorkerAt, Tracked, Types, Workers
  <2>2. worker.late \subseteq unconf'
    BY <1>0 DEF ManagerInv, WorkerAt
  <2> QED
    BY <1>0, <2>1, <2>2, RoundGoesOn
<1>14. Queue' /\ \A q \in Requests : Waiting(q)' => Waiting(q)
  <2>1. HeardGrows
    BY <1>12 DEF HeardGrows
  <2> QED
    BY <1>0, <2>1, QueueKept DEF Waiting
<1>15. Types'
  BY <1>0, <1>4, <1>5, <1>11, <1>13 DEF Types
<1>16. ASSUME NEW q \in Requests PROVE Waits(q)' /\ Late(q)'
  <2>0. Waits(q) /\ Late(q) /\ NewsOf(evts', told', q) = Heard(q) /\ 0 # q
    BY <1>12, Ids DEF ManagerInv
  <2>1. Waits(q)'
    BY <1>0, <1>2, <1>4, <1>10, <1>13, <1>14, <2>0 DEF Waits, Unheld, Unstarted, Heard
  <2>2. Late(q)'
    BY <1>0, <1>10, <1>13, <2>0 DEF Late, Heard, MayStart
  <2> QED
    BY <2>1, <2>2
<1>17. ASSUME NEW q \in Requests PROVE Session(q)' /\ Unit(q)' /\ Reports(q)'
  <2>0. Session(q) /\ Unit(q) /\ Reports(q)
    BY DEF ManagerInv
  <2>1. Session(q)'
    <3>1. program[q].in = "compositor" => program[q].pid \in Pids \ {p}
      BY <1>0, <2>0, NoProgramFields DEF Session
    <3>2. pipe[q] = <<>> => pipe'[q] = <<>>
      BY <1>4
    <3> QED
      BY <1>0, <1>5, <2>0, <3>1, <3>2 DEF Session, MayStart
  <2>2. Unit(q)'
    BY <1>0, <2>0 DEF Unit
  <2>3. Reports(q)'
    BY <1>0, <1>4, <2>0 DEF Reports
  <2> QED
    BY <2>1, <2>2, <2>3
<1>18. SamePid'
  BY <1>0 DEF ManagerInv, SamePid
<1>19. ASSUME NEW q \in Pids PROVE Entry(q)'
  <2> SUFFICES ASSUME Tracked(q)' PROVE Entry(q)'
    BY DEF Entry, Tracked
  <2>1. Tracked(q) /\ children'[q].req = children[q].req
    BY <1>9
  <2>2. Entry(q) /\ children[q].req \in Requests /\ NewsOf(evts', told', children[q].req) = Heard(children[q].req)
    BY <1>12, <2>1, TrackedEntry
  <2>3. \A x \in Pids : children'[x].req = children[q].req => x = q
    BY <1>9, <2>1, <2>2 DEF Entry, Tracked
  <2>4. CASE q # p
    <3>1. /\ children'[q] = children[q] /\ NewsOf(evts', told', q) = Heard(q)
          /\ children[q].req # r /\ pipe'[children[q].req] = pipe[children[q].req]
      BY <1>2, <1>4, <1>5, <1>11, <2>1, <2>2, <2>4
    <3> QED
      BY <1>0, <1>8, <1>13, <2>1, <2>2, <2>3, <3>1 DEF Entry, Tracked, At, Heard, Runs
  <2>5. CASE q = p
    <3>1. ~over
      BY <1>5, <1>8, <2>5 DEF Tracked
    <3>2. Runs(r) => Heard(p) = Started(p, r) /\ ~reported
      BY <1>1, <1>7, <1>13, <3>1, NoProgramFields DEF Entry, Runs
    <3>3. Runs(r) => NewsOf(evts', told', p) = Started(p, r)
      BY <1>11, <3>2
    <3>4. reported => program[r] = NoProgram
      BY <1>7, <3>1
    <3>5. pipe'[r] \in {<<>>, <<Over>>}
      BY <1>2, <1>4
    <3> QED
      BY <1>0, <1>1, <1>6, <1>8, <1>13, <2>2, <2>3, <2>5, <3>1, <3>3, <3>4, <3>5
      DEF Entry, Tracked, At, Heard, Runs
  <2> QED
    BY <2>4, <2>5
<1> QED
  BY <1>13, <1>14, <1>15, <1>16, <1>17, <1>18, <1>19 DEF ManagerInv


-----------------------------------------------------------------------------
(* Every step keeps the invariant *)

LEMMA SupervisorEndsStep ==
  ASSUME ManagerInv, NEW q \in Requests,
         SupervisorGivesUp(q) \/ SupervisorFinishes(q) \/ SupervisorCrashes(q)
  PROVE  ManagerInv'
<1>1. sup[q] # "none" /\ EndUnit(q) /\ Aside /\ UNCHANGED <<client, link, pipe>>
  BY DEF SupervisorGivesUp, SupervisorFinishes, SupervisorCrashes, Aside, answers, tables
<1> QED
  BY <1>1, EndedUnit

LEMMA InitManagerInv == Init => ManagerInv
<1> SUFFICES ASSUME Init PROVE ManagerInv
  OBVIOUS
<1>1. /\ \A r \in Requests : /\ starts[r] = 0 /\ program[r] = NoProgram /\ sup[r] = "none"
                             /\ client[r] = "none" /\ link[r] = "none" /\ pipe[r] = <<>>
                             /\ name[r] = NoSlot /\ told[r] = NoNews
      /\ \A p \in Pids : children[p] = NoChild
      /\ cmds = <<>> /\ evts = <<>> /\ unconf = {} /\ worker = Idle /\ asked = 0
  BY DEF Init
<1>2. /\ \A s \in UnitSlots : unit[s] \in {-1, 0}
      /\ unit \in [UnitSlots -> -1..MaxRequests]
  <2>1. -1 \in -1..MaxRequests /\ 0 \in -1..MaxRequests
    BY ConstantsAssumption
  <2> QED
    BY <2>1 DEF Init
<1>3. Types
  <2>1. asked \in 0..MaxRequests /\ shutdown \in BOOLEAN
    <3>1. asked = 0 /\ shutdown = FALSE
      BY DEF Init
    <3>2. 0 \in 0..MaxRequests
      BY ConstantsAssumption
    <3> QED
      BY <3>1, <3>2
  <2>2. cmds \in Seq(Cmds) /\ evts \in Seq(Evts)
    BY <1>1
  <2>3. told \in [Pids \cup Requests -> Evts \cup {NoNews}]
    BY DEF Init
  <2>4. worker \in Workers
    BY <1>1, IdleFacts
  <2>5. children \in [Pids -> Entries]
    <3>1. NoChild \in Entries
      BY Ids, ConstantsAssumption DEF NoChild, Entries
    <3> QED
      BY <3>1 DEF Init
  <2>6. /\ name \in [Requests -> {NoSlot} \cup UnitSlots]
        /\ sup \in [Requests -> SupStates]
        /\ client \in [Requests -> {"none", "waits", "ended"}]
        /\ link \in [Requests -> {"none", "open", "request"}]
    BY DEF Init, SupStates
  <2>7. DOMAIN pipe = Requests /\ pipe = [r \in Requests |-> pipe[r]]
    BY DEF Init
  <2>8. program \in [Requests -> Running] /\ starts \in [Requests -> Nat]
    BY NoProgramFields DEF Init
  <2> QED
    BY <1>1, <1>2, <2>1, <2>2, <2>3, <2>4, <2>5, <2>6, <2>7, <2>8 DEF Types
<1>4. NoChild.req = 0 /\ 0 \notin Requests /\ NoSlot \notin UnitSlots
  BY Ids, ConstantsAssumption DEF NoChild, NoSlot, UnitSlots
<1>5. \A r \in Requests : Heard(r) = NoNews
  BY <1>1, NewsOfDrained DEF Heard
<1>6. Queue
  <2>1. DOMAIN cmds = {}
    BY <1>1
  <2> QED
    BY <2>1 DEF Queue
<1>7. WorkerAt
  BY <1>1, IdleFacts DEF WorkerAt
<1>8. SamePid
  BY <1>1, NoProgramFields DEF SamePid
<1>9. ASSUME NEW r \in Requests
      PROVE  Waits(r) /\ Late(r) /\ Session(r) /\ Unit(r) /\ Reports(r)
  <2>1. ~IsTracked(r) /\ r \notin unconf /\ worker.req # r
    <3>1. \A p \in Pids : children[p].req = 0
      BY <1>1, <1>4
    <3>2. worker.req = 0 /\ unconf = {}
      BY <1>1, IdleFacts
    <3> QED
      BY <1>4, <3>1, <3>2 DEF IsTracked
  <2>2. Waits(r) /\ Late(r)
    BY <1>1, <1>5, <2>1 DEF Waits, Unheld, Unstarted, Late, MayStart
  <2>3. Session(r)
    BY <1>1, NoProgramFields DEF Session, MayStart
  <2>4. \A s \in UnitSlots : unit[s] # r
    <3>1. r # -1 /\ r # 0
      BY <1>4, Ids
    <3> QED
      BY <1>2, <3>1
  <2>5. Unit(r)
    BY <1>1, <1>4, <2>4 DEF Unit
  <2> QED
    BY <1>1, <2>2, <2>3, <2>5 DEF Reports
<1>10. ASSUME NEW p \in Pids PROVE Entry(p)
  BY <1>1, <1>4 DEF Entry, Tracked
<1> QED
  BY <1>3, <1>6, <1>7, <1>8, <1>9, <1>10 DEF ManagerInv

LEMMA NextManagerInv == ManagerInv /\ [Next]_vars => ManagerInv'
<1> SUFFICES ASSUME ManagerInv, [Next]_vars PROVE ManagerInv'
  OBVIOUS
<1>1. CASE UNCHANGED vars
  <2>1. UNCHANGED <<asked, cmds, evts, told, shutdown, worker, children, unconf, name, unit, sup,
                    client, link, pipe, program, starts>>
    BY <1>1 DEF vars, answers, tables, outside, process
  <2>2. Types' /\ Queue' /\ WorkerAt'
    BY <2>1, ZenonT(60) DEF ManagerInv, Types, Queue, Heard, WorkerAt, Holds, Unheld, Unstarted, ToldBegun,
                IsTracked, Tracked, At
  <2>3. \A r \in Requests : Waiting(r)' => Waiting(r) /\ worker'.req # r
    BY <2>1, Ids DEF ManagerInv, Waits, Waiting
  <2>4. /\ \A x \in Pids \cup Requests : NewsOf(evts', told', x) = Heard(x)
        /\ \A p \in Pids : Tracked(p) => worker'.req # children[p].req
    BY <2>1, TrackedEntry DEF Heard, Entry
  <2> QED
    BY <2>1, <2>2, <2>3, <2>4, WorkerMoves DEF At
<1>2. CASE Compositor
  BY <1>2, AskStep, PollStep DEF Compositor
<1>3. CASE Worker
  BY <1>3, TakeSpawnStep, TerminateStep, TerminateUnconfirmedStep, TakeShutdownStep, TimeOutStep,
     StartWithoutUnitStep, RunUnitStep, GiveUpOnSupervisorStep, AcceptTimeOutStep, SendRequestStep,
     HearStartStep, ReapUnitlessStep, ReapUnitStep, ReapUnconfirmedStep DEF Worker
<1>4. CASE \E r \in Requests : \/ Supervisor(r) \/ SupervisorFinishes(r) \/ SupervisorCrashes(r)
                               \/ ClientEnds(r) \/ ProgramExits(r)
  BY <1>4, SupervisorConnectsStep, SupervisorStartsStep, SupervisorReapsStep, SupervisorEndsStep,
     ClientEndsStep, ProgramExitsStep DEF Supervisor
<1> QED
  BY <1>1, <1>2, <1>3, <1>4 DEF Next

-----------------------------------------------------------------------------
(* What follows for every behaviour *)

\* The inductive invariant of the manager, the units and the supervisors: for
\* every request what is queued, said, held, late and in the table agrees with
\* its unit, its socket and its program.
THEOREM ManagerInvHolds == Spec => []ManagerInv
<1>1. Init => ManagerInv
  BY InitManagerInv
<1>2. ManagerInv /\ [Next]_vars => ManagerInv'
  BY NextManagerInv
<1> QED
  BY <1>1, <1>2, PTL DEF Spec

\* Whatever fails between the worker, systemd and a supervisor, a request's
\* program is started once.
THEOREM StartedOnce == Spec => []OneCopy
<1>1. ManagerInv => OneCopy
  BY DEF ManagerInv, Session, OneCopy
<1> QED
  BY <1>1, ManagerInvHolds, PTL

\* The books of the manager have their types; a managed child would be
\* stopped by its own unit or by none; and the last news of a process id
\* whose program runs and is managed is the start of that program.
THEOREM BooksAreWhole == Spec => []UnitsAreWhole
<1>1. ManagerInv => TypeOK
  BY DEF ManagerInv, Types, TypeOK, Entries, Workers, Running
<1>2. ManagerInv => StopsOwnUnit
  BY DEF ManagerInv, Entry, StopsOwnUnit
<1>3. ManagerInv => LatestNewsOfRunning
  BY NewsIsHeard DEF ManagerInv, Entry, LatestNewsOfRunning
<1> QED
  BY <1>1, <1>2, <1>3, ManagerInvHolds, PTL DEF UnitsAreWhole

-----------------------------------------------------------------------------
(* What the process controller promises: every request follows             *)
(* ChildControl, and a running program is out of the manager's sight only  *)
(* after a stop of it.                                                     *)
(*                                                                         *)
(* A step is told by what it does to one request: the request goes on      *)
(* (Carries), is answered (Replied) or is made (Requested), and who looks  *)
(* after its program still does unless it was to be stopped (Kept).  Each  *)
(* of the three is a step of ChildControl or none.                         *)

HeardNext(x) == NewsOf(evts', told', x)

Managed(q) == \E p \in Pids : children[p].req = q /\ ~children[p].reported

\* The request q is not answered in this step: its program may start if that
\* could be expected, or end, and nobody begins to look after it.
Carries(q) ==
  /\ q <= asked' <=> q <= asked
  /\ HeardNext(q) = NoNews <=> Heard(q) = NoNews
  /\ Heard(q) # NoNews =>
       /\ Managed(q)' => Managed(q)
       /\ q \in unconf' => q \in unconf
       /\ MayStart(q)' => MayStart(q)
  /\ \/ starts'[q] = starts[q] /\ (Runs(q)' => Runs(q))
     \/ /\ starts[q] = 0 /\ starts'[q] = 1 /\ Runs(q)'
        /\ Heard(q) # NoNews => /\ q \in unconf \/ MayStart(q)
                                /\ q \in unconf' <=> q \in unconf

\* The request q is answered: its program is managed, may come late, or will
\* never start.
Replied(q) ==
  /\ q <= asked /\ q <= asked' /\ Heard(q) = NoNews /\ HeardNext(q) # NoNews
  /\ \/ /\ Managed(q)'
        /\ \/ starts[q] = 1 /\ starts'[q] = 1 /\ (Runs(q)' <=> Runs(q))
           \/ starts[q] = 0 /\ starts'[q] = 1 /\ Runs(q)'
     \/ /\ ~Managed(q)' /\ q \in unconf'
        /\ starts'[q] = starts[q] /\ (Runs(q)' <=> Runs(q))
     \/ /\ ~Managed(q)' /\ q \notin unconf' /\ ~MayStart(q)'
        /\ starts[q] = 0 /\ starts'[q] = 0

Requested(q) ==
  /\ q > asked /\ q <= asked' /\ Heard(q) = NoNews /\ HeardNext(q) = NoNews
  /\ starts'[q] = starts[q] /\ (Runs(q)' <=> Runs(q))

\* The program of q is not lost sight of unless a stop asked for that.
Kept(q) ==
  Unattended(q)' /\ ~Unattended(q) =>
    \/ NextCmd("terminate") /\ children[Head(cmds).id].req = q
    \/ NextCmd("terminateUnconfirmed") /\ Head(cmds).id = q
    \/ Heard(q).op = "terminatedUnconfirmed"

Accounted(q) == (Carries(q) \/ Replied(q) \/ Requested(q)) /\ Kept(q)

-----------------------------------------------------------------------------
(* What the invariant says of a request *)

LEMMA RequestFacts ==
  ASSUME ManagerInv, NEW q \in Requests
  PROVE  /\ starts[q] \in {0, 1} /\ (Runs(q) => starts[q] = 1)
         /\ MayStart(q) => starts[q] = 0
         /\ Managed(q) => IsTracked(q) /\ starts[q] = 1 /\ q \notin unconf
         /\ Heard(q) # NoNews => q <= asked
         /\ Attended(q) <=> IsTracked(q) \/ q \in unconf \/ worker.req = q \/ At("down")
<1>1. Session(q) /\ Late(q) /\ Waits(q)
  BY DEF ManagerInv
<1>2. Managed(q) => IsTracked(q) /\ starts[q] = 1
  BY Ids DEF ManagerInv, Managed, IsTracked, Entry, Tracked
<1>3. Heard(q) # NoNews => q <= asked
  <2>1. asked \in Nat /\ q \in Nat
    BY Ids, ConstantsAssumption DEF ManagerInv, Types
  <2> QED
    BY <1>1, <2>1 DEF Waits, Waiting, Unheld
<1> QED
  BY <1>1, <1>2, <1>3, NoProgramFields DEF Session, Late, Runs, MayStart, Attended, IsTracked

\* Nothing is answered, tracked or dropped.
LEMMA Unnoticed ==
  ASSUME ManagerInv, ManagerInv', UNCHANGED <<asked, children, unconf, starts>>,
         NEW q \in Requests, HeardNext(q) = Heard(q), Runs(q)' => Runs(q),
         MayStart(q)' => MayStart(q) \/ Heard(q) = NoNews,
         worker.req = q => worker'.req = q, At("down") => At("down")'
  PROVE  Accounted(q)
<1>1. Carries(q)
  BY DEF Carries, Managed
<1>2. Kept(q)
  BY DEF Kept, Unattended, Attended
<1> QED
  BY <1>1, <1>2 DEF Accounted

\* The worker, between two starts, tells of ends and lets go of children.
LEMMA LessHeld ==
  ASSUME ManagerInv, ManagerInv', UNCHANGED <<asked, starts>>, worker.req = 0, ~At("down"),
         NEW q \in Requests, HeardNext(q) = NoNews <=> Heard(q) = NoNews, Runs(q)' => Runs(q),
         Managed(q)' => Managed(q), q \in unconf' => q \in unconf, MayStart(q)' => MayStart(q),
         Runs(q)' /\ IsTracked(q) /\ ~IsTracked(q)' =>
           NextCmd("terminate") /\ children[Head(cmds).id].req = q,
         Runs(q)' /\ q \in unconf /\ q \notin unconf' =>
           NextCmd("terminateUnconfirmed") /\ Head(cmds).id = q
  PROVE  Accounted(q)
<1>1. Carries(q)
  BY DEF Carries
<1>2. Attended(q) => IsTracked(q) \/ q \in unconf
  BY Ids DEF Attended, IsTracked
<1>3. IsTracked(q)' \/ q \in unconf' => Attended(q)'
  BY DEF Attended, IsTracked
<1>4. Kept(q)
  BY <1>2, <1>3 DEF Kept, Unattended
<1> QED
  BY <1>1, <1>4 DEF Accounted

\* The worker answers the request q it held, or goes down with it.
LEMMA Settles ==
  ASSUME ManagerInv, ManagerInv', asked' = asked, NEW q \in Requests, worker.req = q,
         worker.at \in {"choose", "accept", "started"},
         HeardNext(q) # NoNews \/ HeardNext(q) = Heard(q),
         \/ /\ Managed(q)'
            /\ \/ starts[q] = 1 /\ starts'[q] = 1 /\ (Runs(q)' <=> Runs(q))
               \/ starts[q] = 0 /\ starts'[q] = 1 /\ Runs(q)'
         \/ /\ ~Managed(q)' /\ q \in unconf' /\ starts'[q] = starts[q] /\ (Runs(q)' <=> Runs(q))
         \/ /\ ~Managed(q)' /\ q \notin unconf' /\ ~MayStart(q)'
            /\ starts[q] = 0 /\ starts'[q] = 0
  PROVE  Accounted(q)
<1>1. Heard(q) = NoNews /\ ~Waiting(q)
  BY HeldRequest DEF Holds, Unheld
<1>2. q <= asked
  <2>1. asked \in Nat /\ q \in Nat
    BY Ids, ConstantsAssumption DEF ManagerInv, Types
  <2> QED
    BY <1>1, <2>1 DEF Waiting
<1>0. Session(q)'
  BY DEF ManagerInv
<1>a. Runs(q)' => starts'[q] = 1
  BY <1>0, NoProgramFields DEF Session, Runs
<1>b. Managed(q)' \/ q \in unconf' => Attended(q)'
  BY DEF Managed, Attended
<1>3. Carries(q) \/ Replied(q)
  <2>1. CASE HeardNext(q) # NoNews
    BY <1>1, <1>2, <2>1 DEF Replied
  <2>2. CASE HeardNext(q) = Heard(q)
    BY <1>1, <1>2, <1>a, <2>2 DEF Carries
  <2> QED
    BY <2>1, <2>2
<1>5. Kept(q)
  BY <1>a, <1>b DEF Kept, Unattended
<1> QED
  BY <1>3, <1>5 DEF Accounted


-----------------------------------------------------------------------------
(* Each way a request goes is a step of the contract *)

LEMMA Phases ==
  ASSUME NEW q \in Requests
  PROVE  /\ PhaseOf(q) = IF q > asked THEN "new"
                         ELSE IF Heard(q) = NoNews THEN "asked"
                         ELSE IF Managed(q) THEN "managed"
                         ELSE IF q \in unconf THEN "unconfirmed"
                         ELSE IF Runs(q) \/ MayStart(q) THEN "abandoned" ELSE "ended"
         /\ PhaseOf(q)' = IF q > asked' THEN "new"
                          ELSE IF HeardNext(q) = NoNews THEN "asked"
                          ELSE IF Managed(q)' THEN "managed"
                          ELSE IF q \in unconf' THEN "unconfirmed"
                          ELSE IF Runs(q)' \/ MayStart(q)' THEN "abandoned" ELSE "ended"
         /\ ProgramOf(q) = IF Runs(q) THEN "runs" ELSE IF starts[q] = 0 THEN "none" ELSE "dead"
         /\ ProgramOf(q)' = IF Runs(q)' THEN "runs" ELSE IF starts'[q] = 0 THEN "none" ELSE "dead"
<1>1. News(q) = Heard(q) /\ News(q)' = HeardNext(q)
  BY DEF News, Heard, HeardNext, NewsOf
<1> QED
  BY <1>1 DEF PhaseOf, ProgramOf, Answered, Managed

LEMMA Transition ==
  ASSUME ManagerInv, ManagerInv', NEW q \in Requests, Carries(q) \/ Replied(q) \/ Requested(q)
  PROVE  Contract!Step(q) \/ (PhaseOf(q)' = PhaseOf(q) /\ ProgramOf(q)' = ProgramOf(q))
<1>1. /\ asked \in Nat /\ asked' \in Nat /\ q \in Nat
  BY Ids, ConstantsAssumption DEF ManagerInv, Types
<1>2. /\ starts[q] \in {0, 1} /\ (Runs(q) => starts[q] = 1)
      /\ MayStart(q) => starts[q] = 0
      /\ Managed(q) => starts[q] = 1 /\ q \notin unconf
      /\ Heard(q) # NoNews => q <= asked
  BY RequestFacts
<1>3. /\ starts'[q] \in {0, 1} /\ (Runs(q)' => starts'[q] = 1)
      /\ MayStart(q)' => starts'[q] = 0
      /\ q > asked' => starts'[q] = 0
  <2>1. Session(q)' /\ Waits(q)'
    BY DEF ManagerInv
  <2> QED
    BY <2>1, NoProgramFields DEF Session, Runs, MayStart, Waits, Waiting, Unstarted
<1> DEFINE phase   == [r \in Requests |-> PhaseOf(r)]
           fate    == [r \in Requests |-> ProgramOf(r)]
<1>4. /\ phase[q] = PhaseOf(q) /\ phase'[q] = PhaseOf(q)'
      /\ fate[q] = ProgramOf(q) /\ fate'[q] = ProgramOf(q)'
  OBVIOUS
<1>5. Contract!Step(q) <=>
        LET ph == PhaseOf(q)  pn == PhaseOf(q)'  pr == ProgramOf(q)  pm == ProgramOf(q)' IN
        \/ ph = "new" /\ pn = "asked" /\ pm = pr
        \/ ph \in {"asked", "unconfirmed", "abandoned"} /\ pr = "none" /\ pm = "runs" /\ pn = ph
        \/ pr = "runs" /\ pm = "dead" /\ pn = IF ph = "abandoned" THEN "ended" ELSE ph
        \/ /\ ph = "asked" /\ pn = "managed" /\ pm # "none"
           /\ pr = "none" => pm = "runs"
           /\ pr # "none" => pm = pr
        \/ ph = "asked" /\ pn = "unconfirmed" /\ pm = pr
        \/ ph = "asked" /\ pn = "ended" /\ pr = "none" /\ pm = pr
        \/ /\ ph \in {"managed", "unconfirmed"} /\ pn = "ended" /\ pm # "runs"
           /\ pr # "runs" => pm = pr
           /\ pr = "runs" => pm = "dead"
        \/ ph \in {"managed", "unconfirmed"} /\ pn = "abandoned" /\ pm = pr
        \/ ph = "abandoned" /\ pn = "ended" /\ pr # "runs" /\ pm = pr
  BY <1>4 DEF Contract!Step, Contract!Asked, Contract!Starts, Contract!Dies, Contract!AnsweredStarted,
     Contract!AnsweredUnconfirmed, Contract!AnsweredFailed, Contract!Ends, Contract!GivesUp,
     Contract!Lapses, Contract!Goes, Contract!Same
<1>6. CASE Carries(q)
  <2>1. CASE Heard(q) = NoNews
    <3>1. /\ q <= asked' <=> q <= asked
          /\ HeardNext(q) = NoNews
          /\ \/ starts'[q] = starts[q] /\ (Runs(q)' => Runs(q))
             \/ starts[q] = 0 /\ starts'[q] = 1 /\ Runs(q)'
      BY <1>6, <2>1 DEF Carries
    <3> QED
      BY <1>1, <1>2, <1>3, <1>5, <2>1, <3>1, Phases
  <2>2. CASE Heard(q) # NoNews /\ starts'[q] = starts[q]
    <3>1. (Runs(q)' => Runs(q)) /\ (Managed(q)' => Managed(q)) /\ (q \in unconf' => q \in unconf)
          /\ (MayStart(q)' => MayStart(q)) /\ HeardNext(q) # NoNews /\ q <= asked /\ q <= asked'
      BY <1>2, <1>3, <1>6, <2>2 DEF Carries
    <3> QED
      BY <1>1, <1>2, <1>3, <1>5, <2>2, <3>1, Phases
  <2>3. CASE Heard(q) # NoNews /\ starts'[q] # starts[q]
    <3>1. /\ starts[q] = 0 /\ starts'[q] = 1 /\ Runs(q)' /\ (q \in unconf \/ MayStart(q))
          /\ (q \in unconf' <=> q \in unconf) /\ (Managed(q)' => Managed(q))
          /\ HeardNext(q) # NoNews /\ q <= asked /\ q <= asked'
      BY <1>2, <1>6, <2>3 DEF Carries
    <3> QED
      BY <1>1, <1>2, <1>3, <1>5, <2>3, <3>1, Phases
  <2> QED
    BY <2>1, <2>2, <2>3
<1>7. CASE Replied(q)
  BY <1>1, <1>2, <1>3, <1>5, <1>7, Phases DEF Replied
<1>8. CASE Requested(q)
  BY <1>1, <1>2, <1>3, <1>5, <1>8, Phases DEF Requested
<1> QED
  BY <1>6, <1>7, <1>8


-----------------------------------------------------------------------------
(* Steps that answer nothing and let go of nobody *)

\* The end of a unit starts nothing.
LEMMA EndedRuns ==
  ASSUME ManagerInv, NEW u \in Requests, EndUnit(u), link' = link, NEW q \in Requests
  PROVE  (Runs(q)' => Runs(q)) /\ (MayStart(q)' => MayStart(q)) /\ starts' = starts
<1>1. /\ Types /\ sup' = [sup EXCEPT ![u] = "gone"] /\ starts' = starts
      /\ program' = program \/ program' = [program EXCEPT ![u] = NoProgram]
  BY DEF ManagerInv, EndUnit
<1> QED
  BY <1>1, NoProgramFields DEF Types, Runs, MayStart

LEMMA HeardStays ==
  ASSUME evts' = evts, told' = told, NEW x
  PROVE  HeardNext(x) = Heard(x)
BY DEF HeardNext, Heard

LEMMA SessionAccounts ==
  ASSUME ManagerInv, ManagerInv', NEW r \in Requests,
         \/ SupervisorConnects(r) \/ SupervisorGivesUp(r) \/ SupervisorFinishes(r)
         \/ SupervisorCrashes(r) \/ SupervisorReaps(r) \/ ClientEnds(r) \/ ProgramExits(r),
         NEW q \in Requests
  PROVE  Accounted(q)
<1> USE DEF answers, tables, process
<1>1. UNCHANGED <<asked, evts, told, worker, children, unconf>>
  BY DEF SupervisorConnects, SupervisorGivesUp, SupervisorFinishes, SupervisorCrashes,
         SupervisorReaps, ClientEnds, ProgramExits
<1>0. Types
  BY DEF ManagerInv
<1>2. starts' = starts /\ (Runs(q)' => Runs(q)) /\ (MayStart(q)' => MayStart(q))
  <2>1. CASE SupervisorConnects(r)
    <3>1. CASE EndUnit(r) /\ UNCHANGED link
      BY <3>1, EndedRuns
    <3>2. CASE /\ sup' = [sup EXCEPT ![r] = "connected"] /\ link' = [link EXCEPT ![r] = "open"]
               /\ UNCHANGED <<unit, process>>
      BY <1>0, <3>2 DEF Types, Runs, MayStart
    <3> QED
      BY <2>1, <3>1, <3>2 DEF SupervisorConnects
  <2>2. CASE SupervisorGivesUp(r) \/ SupervisorFinishes(r) \/ SupervisorCrashes(r)
    BY <2>2, EndedRuns DEF SupervisorGivesUp, SupervisorFinishes, SupervisorCrashes
  <2>3. CASE SupervisorReaps(r)
    BY <1>0, <2>3, NoProgramFields DEF SupervisorReaps, Types, Runs, MayStart
  <2>4. CASE ClientEnds(r)
    BY <2>4 DEF ClientEnds, Runs, MayStart
  <2>5. CASE ProgramExits(r)
    BY <1>0, <2>5 DEF ProgramExits, Types, Running, Runs, MayStart
  <2> QED
    BY <2>1, <2>2, <2>3, <2>4, <2>5
<1> QED
  BY <1>1, <1>2, HeardStays, Unnoticed DEF At

LEMMA SupervisorStartsAccount ==
  ASSUME ManagerInv, ManagerInv', NEW r \in Requests, SupervisorStarts(r), NEW q \in Requests
  PROVE  Accounted(q)
<1> USE DEF answers, tables, process
<1>1. UNCHANGED <<asked, evts, told, worker, children, unconf, link>> /\ MayStart(r) /\ Types
  BY DEF SupervisorStarts, MayStart, ManagerInv
<1>2. CASE EndUnit(r)
  BY <1>1, <1>2, EndedRuns, HeardStays, Unnoticed DEF At
<1>3. CASE \E p \in Pids : Start(r, p, "unit") /\ sup' = [sup EXCEPT ![r] = "supervises"]
  <2>1. PICK p \in Pids : Start(r, p, "unit") /\ sup' = [sup EXCEPT ![r] = "supervises"]
    BY <1>3
  <2>2. /\ program'[r].st = "runs" /\ starts'[r] = starts[r] + 1 /\ sup'[r] = "supervises"
        /\ q # r => program'[q] = program[q] /\ starts'[q] = starts[q] /\ sup'[q] = sup[q]
    BY <1>1, <2>1 DEF Start, Types
  <2>3. starts[r] = 0
    BY <1>1, RequestFacts
  <2>4. HeardNext(q) = Heard(q) /\ (Managed(q)' <=> Managed(q)) /\ (Attended(q)' <=> Attended(q))
    BY <1>1, HeardStays DEF Managed, Attended, At
  <2>5. CASE q # r
    <3>1. Carries(q)
      BY <1>1, <2>2, <2>4, <2>5 DEF Carries, Runs, MayStart
    <3>2. Kept(q)
      BY <2>2, <2>4, <2>5 DEF Kept, Unattended, Runs
    <3> QED
      BY <3>1, <3>2 DEF Accounted
  <2>6. CASE q = r
    <3>1. ~MayStart(q)'
      BY <2>2, <2>6 DEF MayStart
    <3>2. Carries(q)
      BY <1>1, <2>2, <2>3, <2>4, <2>6, <3>1 DEF Carries, Runs
    <3>3. Attended(q) \/ Heard(q).op = "terminatedUnconfirmed"
      BY <1>1, <2>6, RequestFacts DEF ManagerInv, Late
    <3>4. Kept(q)
      BY <2>4, <3>3 DEF Kept, Unattended
    <3> QED
      BY <3>2, <3>4 DEF Accounted
  <2> QED
    BY <2>5, <2>6
<1> QED
  BY <1>2, <1>3 DEF SupervisorStarts

LEMMA CompositorAccounts ==
  ASSUME ManagerInv, ManagerInv', Compositor, NEW q \in Requests
  PROVE  Accounted(q)
<1> USE DEF answers, tables, outside, process
<1>1. CASE AskSpawn
  <2>1. /\ asked' = asked + 1 /\ UNCHANGED <<evts, told, worker, children, unconf, sup, link, program, starts>>
    BY <1>1 DEF AskSpawn
  <2>2. /\ HeardNext(q) = Heard(q) /\ (Managed(q)' <=> Managed(q)) /\ (Attended(q)' <=> Attended(q))
        /\ (Runs(q)' <=> Runs(q)) /\ (MayStart(q)' <=> MayStart(q))
    BY <2>1, HeardStays DEF Managed, Attended, At, Runs, MayStart
  <2>3. asked \in Nat /\ q \in Nat
    BY Ids, ConstantsAssumption DEF ManagerInv, Types
  <2>4. q > asked => Heard(q) = NoNews
    BY <2>3, RequestFacts
  <2>5. Carries(q) \/ Requested(q)
    BY <2>1, <2>2, <2>3, <2>4 DEF Carries, Requested
  <2>6. Kept(q)
    BY <2>2 DEF Kept, Unattended
  <2> QED
    BY <2>5, <2>6 DEF Accounted
<1>2. CASE PollEvents
  <2>1. /\ UNCHANGED <<asked, worker, children, unconf, sup, link, program, starts>>
        /\ evts' = <<>> /\ told' = [x \in Pids \cup Requests |-> News(x)]
    BY <1>2 DEF PollEvents
  <2>2. HeardNext(q) = Heard(q)
    BY <2>1, NewsOfDrained, NewsIsHeard DEF HeardNext
  <2>3. (Runs(q)' => Runs(q)) /\ (MayStart(q)' => MayStart(q))
    BY <2>1 DEF Runs, MayStart
  <2> QED
    BY <2>1, <2>2, <2>3, Unnoticed DEF At
<1>3. CASE \/ DropController \/ \E p \in Pids : AskTerminate(p)
           \/ \E r \in Requests : AskTerminateUnconfirmed(r)
  <2>1. UNCHANGED <<asked, evts, told, worker, children, unconf, sup, link, program, starts>>
    BY <1>3 DEF DropController, AskTerminate, AskTerminateUnconfirmed
  <2>2. (Runs(q)' => Runs(q)) /\ (MayStart(q)' => MayStart(q)) /\ HeardNext(q) = Heard(q)
    BY <2>1, HeardStays DEF Runs, MayStart
  <2> QED
    BY <2>1, <2>2, Unnoticed DEF At
<1> QED
  BY <1>1, <1>2, <1>3 DEF Compositor

\* The worker takes a command or tries a unit name.
LEMMA WorkerMovesAccount ==
  ASSUME ManagerInv, ManagerInv', TakeSpawn \/ TakeShutdown \/ TimeOut \/ RunUnit, NEW q \in Requests
  PROVE  Accounted(q)
<1> USE DEF answers, tables, outside, process
<1>1. UNCHANGED <<asked, evts, told, children, unconf, link, program, starts>> /\ Types
  BY DEF TakeSpawn, TakeShutdown, TimeOut, RunUnit, ManagerInv
<1>2. CASE TakeSpawn \/ TakeShutdown \/ TimeOut
  <2>1. /\ sup' = sup /\ worker.req = 0 /\ ~At("down") /\ 0 # q
    BY <1>2, Ids DEF TakeSpawn, TakeShutdown, TimeOut, NextCmd, ManagerInv, WorkerAt, At
  <2>2. (Runs(q)' => Runs(q)) /\ (MayStart(q)' => MayStart(q)) /\ HeardNext(q) = Heard(q)
    BY <1>1, <2>1, HeardStays DEF Runs, MayStart
  <2> QED
    BY <1>1, <2>1, <2>2, Unnoticed
<1>3. CASE RunUnit
  <2>1. /\ worker \in Workers /\ ~At("down")
        /\ \/ sup' = sup /\ \E slot : worker' = [worker EXCEPT !.tried = @ \cup {slot}, !.collided = slot]
           \/ sup' = [sup EXCEPT ![worker.req] = "starting"] /\ worker' = [worker EXCEPT !.at = "accept"]
    BY <1>1, <1>3 DEF RunUnit, Types, At
  <2>2. worker'.req = worker.req
    BY <2>1 DEF Workers
  <2>3. (Runs(q)' => Runs(q)) /\ (MayStart(q)' => MayStart(q)) /\ HeardNext(q) = Heard(q)
    BY <1>1, <2>1, HeardStays DEF Runs, MayStart, Types
  <2> QED
    BY <1>1, <2>1, <2>2, <2>3, Unnoticed, ZenonT(60)
<1> QED
  BY <1>2, <1>3


-----------------------------------------------------------------------------
(* Answers to the request that is held *)

\* Who else is asked about, and tracked, is as before.
LEMMA OthersAccount ==
  ASSUME ManagerInv, ManagerInv', NEW r \in Requests, worker.req = r,
         worker.at \in {"choose", "accept", "started"}, asked' = asked,
         NEW q \in Requests \ {r}, HeardNext(q) = Heard(q),
         starts'[q] = starts[q], Runs(q)' <=> Runs(q), MayStart(q)' => MayStart(q),
         q \in unconf' <=> q \in unconf,
         IsTracked(q)' => IsTracked(q), Managed(q)' => Managed(q),
         Runs(q) /\ IsTracked(q) => IsTracked(q)'
  PROVE  Accounted(q)
<1>1. Carries(q)
  BY DEF Carries
<1>2. ~At("down") /\ worker.req # q
  BY DEF At
<1>3. Runs(q) /\ Attended(q) => Attended(q)'
  BY <1>2 DEF Attended, IsTracked
<1>4. Kept(q)
  BY <1>3 DEF Kept, Unattended
<1> QED
  BY <1>1, <1>4 DEF Accounted

LEMMA UntrackedAccount ==
  ASSUME ManagerInv, ManagerInv', NEW r \in Requests, worker.req = r,
         worker.at \in {"choose", "accept", "started"},
         NEW v \in Evts, v.id = r, v.req = 0,
         NEW late \in SUBSET Requests, late = unconf \/ late = unconf \cup {r},
         Answer(<<v>>, children, late),
         UNCHANGED <<asked, told, program, starts>>,
         r \notin late => starts[r] = 0 /\ ~MayStart(r)',
         \A q \in Requests \ {r} : MayStart(q)' => MayStart(q),
         NEW q \in Requests
  PROVE  Accounted(q)
<1>0. Types /\ children \in [Pids -> Entries]
  BY DEF ManagerInv, Types
<1>1. /\ children' = children /\ unconf' = late
      /\ evts' = IF shutdown THEN evts ELSE evts \o <<v>>
  BY <1>0, AnswerRests
<1>2. \A x \in Requests : HeardNext(x) = IF ~shutdown /\ x = r THEN v ELSE Heard(x)
  BY <1>0, <1>1, SaidOne, Ids DEF HeardNext
<1>3. /\ Runs(q)' <=> Runs(q)
      /\ Managed(q)' <=> Managed(q)
      /\ IsTracked(q)' <=> IsTracked(q)
  BY <1>1 DEF Runs, Managed, IsTracked
<1>4. CASE q # r
  BY <1>1, <1>2, <1>3, <1>4, OthersAccount
<1>5. CASE q = r
  <2>1. ~Managed(r) /\ r \notin unconf
    BY HeldRequest, RequestFacts DEF Holds, Unheld
  <2>2. HeardNext(r) # NoNews \/ HeardNext(r) = Heard(r)
    BY <1>2, AnswerKinds
  <2> QED
    BY <1>1, <1>3, <1>5, <2>1, <2>2, Settles
<1> QED
  BY <1>4, <1>5

LEMMA TrackedAccount ==
  ASSUME ManagerInv, ManagerInv', NEW r \in Requests, worker.req = r,
         worker.at \in {"choose", "accept", "started"},
         NEW p \in Pids, NEW entry \in Entries, Track(p, r, entry),
         UNCHANGED <<asked, told>>, entry.req = r, ~entry.reported,
         Tracked(p) => program[children[p].req] = NoProgram,
         \/ starts[r] = 1 /\ starts'[r] = 1 /\ program'[r] = program[r]
         \/ starts[r] = 0 /\ starts'[r] = 1 /\ program'[r].st = "runs",
         \A x \in Requests \ {r} :
           program'[x] = program[x] /\ starts'[x] = starts[x] /\ (MayStart(x)' => MayStart(x)),
         NEW q \in Requests
  PROVE  Accounted(q)
<1> DEFINE entries == [children EXCEPT ![p] = entry]
<1>0. Types /\ entries \in [Pids -> Entries] /\ unconf \in SUBSET Requests
  BY DEF ManagerInv, Types
<1>a. entries[p] = entry /\ \A x \in Pids \ {p} : entries[x] = children[x]
  BY DEF ManagerInv, Types
<1>b. Answer(StartAnswer(p, r), entries, unconf)
  BY DEF Track
<1> HIDE DEF entries
<1>1. /\ children' = entries /\ unconf' = unconf
      /\ evts' = IF shutdown THEN evts ELSE evts \o StartAnswer(p, r)
  BY <1>0, <1>b, AnswerRests
<1>2. /\ Started(p, r) # NoNews
      /\ \A x \in Requests : HeardNext(x) = IF ~shutdown /\ x = r THEN Started(p, r) ELSE Heard(x)
  BY <1>0, <1>1, TrackSaid, Ids DEF HeardNext
<1>3. children'[p] = entry /\ \A x \in Pids \ {p} : children'[x] = children[x]
  BY <1>a, <1>1
<1>4. CASE q # r
  <2>1. /\ IsTracked(q)' => IsTracked(q)
        /\ Managed(q)' => Managed(q)
    BY <1>3, <1>4 DEF IsTracked, Managed
  <2>2. Runs(q)' <=> Runs(q)
    BY <1>4 DEF Runs
  <2>3. Runs(q) /\ IsTracked(q) => IsTracked(q)'
    <3>1. children[p].req = q => ~Runs(q)
      BY Ids, NoProgramFields DEF Tracked, Runs
    <3> QED
      BY <1>3, <3>1 DEF IsTracked
  <2> QED
    BY <1>1, <1>2, <1>4, <2>1, <2>2, <2>3, OthersAccount
<1>5. CASE q = r
  <2>1. Managed(q)'
    BY <1>3, <1>5 DEF Managed
  <2>2. HeardNext(q) # NoNews \/ HeardNext(q) = Heard(q)
    BY <1>2
  <2> QED
    BY <1>5, <2>1, <2>2, Settles DEF Runs
<1> QED
  BY <1>4, <1>5

LEMMA UnitlessAccount ==
  ASSUME ManagerInv, ManagerInv', NEW r \in Requests, worker.req = r, At("choose") \/ At("accept"),
         NEW slot \in {NoSlot} \cup UnitSlots, StartUnitless(r, slot),
         UNCHANGED <<asked, told, link>>,
         \A q \in Requests \ {r} : sup'[q] = sup[q],
         NEW q \in Requests
  PROVE  Accounted(q)
<1>0. Types /\ unconf \in SUBSET Requests
  BY DEF ManagerInv, Types
<1>1. /\ starts[r] = 0 /\ link[r] # "request" /\ worker.at \in {"choose", "accept", "started"}
  BY HeldRequest DEF At, Holds, Unstarted
<1>2. ~MayStart(r)' /\ \A x \in Requests \ {r} : MayStart(x)' => MayStart(x)
  BY <1>1 DEF MayStart
<1>3. CASE "exec" \in faults /\ Failed(r) /\ UNCHANGED process
  <2>1. /\ Evt("failed", r) \in Evts /\ Evt("failed", r).id = r /\ Evt("failed", r).req = 0
    BY DEF Evt, Evts
  <2>2. Answer(<<Evt("failed", r)>>, children, unconf) /\ UNCHANGED <<program, starts>>
    BY <1>3 DEF Failed, process
  <2> QED
    BY <1>0, <1>1, <1>2, <2>1, <2>2, UntrackedAccount
<1>4. CASE \E p \in Pids :
             /\ Start(r, p, "compositor")
             /\ Track(p, r, [NoChild EXCEPT !.req = r, !.name = slot,
                               !.unitless = TRUE, !.closed = TRUE])
  <2>1. PICK p \in Pids : /\ Start(r, p, "compositor")
                          /\ Track(p, r, [NoChild EXCEPT !.req = r, !.name = slot,
                                            !.unitless = TRUE, !.closed = TRUE])
    BY <1>4
  <2>2. PICK entry : entry = [NoChild EXCEPT !.req = r, !.name = slot, !.unitless = TRUE, !.closed = TRUE]
    OBVIOUS
  <2>3. /\ entry \in Entries /\ entry.req = r /\ ~entry.reported /\ Track(p, r, entry)
    BY <2>1, <2>2, Ids DEF NoChild, Entries
  <2>4. /\ FreePid(p) /\ program' = [program EXCEPT ![r] = [pid |-> p, st |-> "runs", in |-> "compositor"]]
        /\ starts' = [starts EXCEPT ![r] = @ + 1]
    BY <2>1 DEF Start
  <2>5. /\ program'[r].st = "runs" /\ starts'[r] = 1
        /\ \A x \in Requests \ {r} : program'[x] = program[x] /\ starts'[x] = starts[x]
    BY <1>0, <1>1, <2>4 DEF Types
  <2>6. Tracked(p) => program[children[p].req] = NoProgram
    BY <2>4, FreeEntry
  <2> QED
    BY <1>1, <1>2, <2>3, <2>5, <2>6, TrackedAccount
<1> QED
  BY <1>3, <1>4 DEF StartUnitless

LEMMA StartsAccount ==
  ASSUME ManagerInv, ManagerInv', StartWithoutUnit \/ GiveUpOnSupervisor \/ AcceptTimeOut,
         NEW q \in Requests
  PROVE  Accounted(q)
<1>0. Types
  BY DEF ManagerInv
<1>1. PICK r \in Requests : worker.req = r /\ (At("choose") \/ At("accept"))
  BY HeldRequest DEF StartWithoutUnit, GiveUpOnSupervisor, AcceptTimeOut, At
<1>2. UNCHANGED <<asked, told, link>> /\ \A x \in Requests \ {r} : sup'[x] = sup[x]
  BY <1>0, <1>1 DEF StartWithoutUnit, GiveUpOnSupervisor, AcceptTimeOut, Types
<1>3. PICK slot \in {NoSlot} \cup UnitSlots : StartUnitless(r, slot)
  <2>1. CASE StartWithoutUnit
    BY <1>1, <2>1 DEF StartWithoutUnit
  <2>2. CASE GiveUpOnSupervisor \/ AcceptTimeOut
    <3>1. name[r] \in {NoSlot} \cup UnitSlots
      BY <1>0 DEF Types
    <3>2. StartUnitless(r, name[r])
      BY <1>1, <2>2 DEF GiveUpOnSupervisor, AcceptTimeOut
    <3> QED
      BY <3>1, <3>2
  <2> QED
    BY <2>1, <2>2
<1> QED
  BY <1>1, <1>2, <1>3, UnitlessAccount

LEMMA UnconfirmedAccount ==
  ASSUME ManagerInv, ManagerInv', NEW r \in Requests, worker.req = r, At("accept") \/ At("started"),
         Unconfirmed(r), UNCHANGED <<asked, told, sup, link, program, starts>>, NEW q \in Requests
  PROVE  Accounted(q)
<1>1. /\ Evt("unconfirmed", r) \in Evts
      /\ Evt("unconfirmed", r).id = r /\ Evt("unconfirmed", r).req = 0
  BY DEF Evt, Evts
<1>2. Answer(<<Evt("unconfirmed", r)>>, children, unconf \cup {r}) /\ unconf \cup {r} \in SUBSET Requests
  BY DEF Unconfirmed, ManagerInv, Types
<1>3. \A x \in Requests : MayStart(x)' => MayStart(x)
  BY DEF MayStart
<1>4. worker.at \in {"choose", "accept", "started"}
  BY DEF At
<1> QED
  BY <1>1, <1>2, <1>3, <1>4, UntrackedAccount

LEMMA SendRequestAccount ==
  ASSUME ManagerInv, ManagerInv', SendRequest, NEW q \in Requests
  PROVE  Accounted(q)
<1>1. PICK r \in Requests : worker.req = r /\ At("accept") /\ Heard(r) = NoNews /\ worker \in Workers
  BY HeldRequest DEF SendRequest, At, Holds, Unheld
<1>2. CASE Unconfirmed(r) /\ UNCHANGED link
  BY <1>1, <1>2, UnconfirmedAccount DEF SendRequest, process
<1>3. CASE /\ link' = [link EXCEPT ![r] = "request"] /\ worker' = [worker EXCEPT !.at = "started"]
           /\ UNCHANGED <<evts, children, unconf>>
  <2>1. UNCHANGED <<asked, told, children, unconf, evts, sup, program, starts>>
    BY <1>3 DEF SendRequest, process
  <2>2. worker'.req = worker.req /\ ~At("down")
    BY <1>1, <1>3 DEF Workers, At
  <2>3. HeardNext(q) = Heard(q) /\ (Runs(q)' => Runs(q)) /\ (q # r /\ MayStart(q)' => MayStart(q))
    <3>1. q # r => link'[q] = link[q]
      BY <1>3 DEF ManagerInv, Types
    <3> QED
      BY <2>1, <3>1, HeardStays DEF Runs, MayStart
  <2> QED
    BY <1>1, <2>1, <2>2, <2>3, Unnoticed
<1> QED
  BY <1>1, <1>2, <1>3 DEF SendRequest

LEMMA HearStartAccount ==
  ASSUME ManagerInv, ManagerInv', HearStart, NEW q \in Requests
  PROVE  Accounted(q)
<1>0. Types
  BY DEF ManagerInv
<1>1. PICK r \in Requests : /\ worker.req = r /\ At("started") /\ Session(r) /\ Reports(r) /\ Holds(r)
                            /\ worker.at \in {"choose", "accept", "started"}
  BY HeldRequest DEF HearStart, At
<1>2. UNCHANGED <<asked, told, sup, link>>
  BY DEF HearStart
<1>3. \A x \in Requests : MayStart(x)' => MayStart(x)
  BY <1>2 DEF MayStart
<1>4. CASE NotReported(r)
  BY <1>1, <1>2, <1>4, UnconfirmedAccount DEF NotReported, process
<1>5. CASE pipe[r] # <<>> /\ Head(pipe[r]).op = "startFailed" /\ Failed(r) /\ UNCHANGED process
  <2>1. UNCHANGED <<program, starts>>
    BY <1>5 DEF process
  <2>2. starts[r] = 0 /\ sup[r] = "gone"
    <3>1. Head(<<Over>>) = Over /\ Over.op # "startFailed"
      BY ReportFacts
    <3>2. \A p : Head(<<Begun(p)>>).op = "started" /\ Head(<<Begun(p), Over>>).op = "started"
      BY ReportFacts
    <3> QED
      BY <1>1, <1>5, <3>1, <3>2 DEF Reports
  <2>3. ~MayStart(r)'
    BY <1>2, <2>2 DEF MayStart
  <2>4. /\ Evt("failed", r) \in Evts /\ Evt("failed", r).id = r /\ Evt("failed", r).req = 0
    BY DEF Evt, Evts
  <2>5. Answer(<<Evt("failed", r)>>, children, unconf) /\ unconf \in SUBSET Requests
    BY <1>5 DEF Failed, ManagerInv, Types
  <2> QED
    BY <1>1, <1>2, <1>3, <2>1, <2>2, <2>3, <2>4, <2>5, UntrackedAccount
<1>6. CASE /\ pipe[r] # <<>> /\ Head(pipe[r]).op = "started" /\ UNCHANGED process
           /\ \E reader \in {TRUE, "unobserved" \notin faults} :
                Track(Head(pipe[r]).pid, r,
                      [NoChild EXCEPT !.req = r, !.name = name[r], !.reader = reader])
  <2>1. UNCHANGED <<program, starts>>
    BY <1>6 DEF process
  <2>2. starts[r] = 1
    <3>1. <<NotBegun>> # <<>> /\ Head(<<NotBegun>>).op # "started"
      BY ReportFacts
    <3> QED
      BY <1>1, <1>6, <3>1 DEF Reports
  <2>3. PICK p \in Pids : /\ ToldBegun(r, p)
                          /\ Tracked(p) => program[children[p].req] = NoProgram
    BY <1>1, <2>2 DEF Holds
  <2>4. Head(pipe[r]).pid = p
    BY <2>3, ReportFacts DEF ToldBegun
  <2>5. PICK entry : /\ \E reader \in BOOLEAN :
                          entry = [NoChild EXCEPT !.req = r, !.name = name[r], !.reader = reader]
                     /\ Track(p, r, entry)
    BY <1>6, <2>4
  <2>6. entry \in Entries /\ entry.req = r /\ ~entry.reported
    BY <1>0, <2>5, Ids, ZenonT(60) DEF NoChild, Entries, Types
  <2> QED
    BY <1>1, <1>2, <1>3, <2>1, <2>2, <2>3, <2>5, <2>6, TrackedAccount
<1> QED
  BY <1>1, <1>4, <1>5, <1>6 DEF HearStart


-----------------------------------------------------------------------------
(* Stops and ends *)

LEMMA TerminateAccount ==
  ASSUME ManagerInv, ManagerInv', Terminate, NEW q \in Requests
  PROVE  Accounted(q)
<1>0. /\ Types /\ At("idle") /\ cmds # <<>> /\ Head(cmds).op = "terminate" /\ NextCmd("terminate")
      /\ UNCHANGED <<asked, told, shutdown, link>> /\ worker.req = 0 /\ ~At("down")
  BY DEF ManagerInv, Terminate, NextCmd, WorkerAt, At
<1>1. PICK p \in Pids : p = Head(cmds).id
  <2>1. Head(cmds) \in Cmds
    BY <1>0, HeadTailProperties DEF Types
  <2> QED
    BY <1>0, <2>1, CmdKinds
<1> DEFINE entries == [children EXCEPT ![p] = NoChild]
<1>2. /\ Answer(<<Evt("terminated", p)>>, entries, unconf)
      /\ \/ UNCHANGED <<sup, program, starts>>
         \/ /\ program' = [program EXCEPT ![children[p].req] = NoProgram]
            /\ UNCHANGED <<sup, starts>>
         \/ Tracked(p) /\ ~children[p].unitless /\ EndUnit(unit[children[p].name]) /\ StopWorks(children[p].name)
  BY <1>1 DEF Terminate, StopUnit, process
<1>3. /\ Evt("terminated", p) \in Evts /\ Evt("terminated", p).id = p
      /\ Evt("terminated", p).req = 0
  BY DEF Evt, Evts
<1>4. /\ entries \in [Pids -> Entries] /\ entries[p] = NoChild
      /\ \A x \in Pids \ {p} : entries[x] = children[x]
  <2>1. NoChild \in Entries
    BY Ids, ConstantsAssumption DEF NoChild, Entries
  <2> QED
    BY <1>0, <2>1 DEF Types
<1>5. unconf \in SUBSET Requests
  BY <1>0 DEF Types
<1> HIDE DEF entries
<1>6. /\ children' = entries /\ unconf' = unconf
      /\ evts' = IF shutdown THEN evts ELSE evts \o <<Evt("terminated", p)>>
  BY <1>2, <1>4, <1>5, AnswerRests
<1>7. HeardNext(q) = Heard(q)
  BY <1>0, <1>3, <1>6, SaidOne, Ids DEF HeardNext
<1>8. starts' = starts /\ (Runs(q)' => Runs(q)) /\ (MayStart(q)' => MayStart(q))
  <2>1. CASE UNCHANGED <<sup, program, starts>>
    BY <1>0, <2>1 DEF Runs, MayStart
  <2>2. CASE /\ program' = [program EXCEPT ![children[p].req] = NoProgram]
             /\ UNCHANGED <<sup, starts>>
    BY <1>0, <2>2, NoProgramFields DEF Runs, MayStart, Types
  <2>3. CASE Tracked(p) /\ ~children[p].unitless /\ EndUnit(unit[children[p].name]) /\ StopWorks(children[p].name)
    <3>1. unit[children[p].name] \in Requests
      BY <2>3, TrackedEntry DEF Entry, StopWorks
    <3> QED
      BY <1>0, <2>3, <3>1, EndedRuns
  <2> QED
    BY <1>2, <2>1, <2>2, <2>3
<1>9. Managed(q)' => Managed(q)
  <2>1. NoChild.req # q
    BY Ids DEF NoChild
  <2> QED
    BY <1>4, <1>6, <2>1 DEF Managed
<1>10. IsTracked(q) /\ ~IsTracked(q)' => children[p].req = q
  BY <1>4, <1>6 DEF IsTracked
<1> QED
  BY <1>0, <1>1, <1>6, <1>7, <1>8, <1>9, <1>10, LessHeld

LEMMA TerminateUnconfirmedAccount ==
  ASSUME ManagerInv, ManagerInv', TerminateUnconfirmed, NEW q \in Requests
  PROVE  Accounted(q)
<1>0. /\ Types /\ Queue /\ At("idle") /\ cmds # <<>> /\ Head(cmds).op = "terminateUnconfirmed"
      /\ NextCmd("terminateUnconfirmed")
      /\ UNCHANGED <<asked, told, shutdown, link>> /\ worker.req = 0 /\ ~At("down")
  BY DEF ManagerInv, TerminateUnconfirmed, NextCmd, WorkerAt, At
<1>1. PICK r \in Requests : r = Head(cmds).id /\ Heard(r) # NoNews
  <2>1. Head(cmds) \in Cmds /\ Head(cmds) = cmds[1] /\ 1 \in DOMAIN cmds
    BY <1>0, HeadTailProperties DEF Types
  <2> QED
    BY <1>0, <2>1, CmdKinds DEF Queue
<1>2. /\ Answer(<<Evt("terminatedUnconfirmed", r)>>, children, unconf \ {r})
      /\ \/ UNCHANGED <<sup, program, starts>>
         \/ r \in unconf /\ EndUnit(unit[name[r]]) /\ StopWorks(name[r])
  BY <1>1 DEF TerminateUnconfirmed, StopUnit, process
<1>3. /\ Evt("terminatedUnconfirmed", r) \in Evts /\ Evt("terminatedUnconfirmed", r).id = r
      /\ Evt("terminatedUnconfirmed", r).req = 0
  BY DEF Evt, Evts
<1>4. children \in [Pids -> Entries] /\ unconf \ {r} \in SUBSET Requests
  BY <1>0 DEF Types
<1>5. /\ children' = children /\ unconf' = unconf \ {r}
      /\ evts' = IF shutdown THEN evts ELSE evts \o <<Evt("terminatedUnconfirmed", r)>>
  BY <1>2, <1>4, AnswerRests
<1>6. HeardNext(q) = NoNews <=> Heard(q) = NoNews
  BY <1>0, <1>1, <1>3, <1>5, SaidOne, Ids, AnswerKinds DEF HeardNext
<1>7. starts' = starts /\ (Runs(q)' => Runs(q)) /\ (MayStart(q)' => MayStart(q))
  <2>1. CASE UNCHANGED <<sup, program, starts>>
    BY <1>0, <2>1 DEF Runs, MayStart
  <2>2. CASE r \in unconf /\ EndUnit(unit[name[r]]) /\ StopWorks(name[r])
    <3>1. name[r] \in UnitSlots /\ unit[name[r]] # -1 /\ unit[name[r]] # 0
      BY <2>2 DEF ManagerInv, Late, Session, Unit, StopWorks
    <3>2. unit[name[r]] \in Requests
      <4>1. unit[name[r]] \in -1..MaxRequests /\ MaxRequests \in Nat
        BY <1>0, <3>1, ConstantsAssumption DEF Types
      <4> QED
        BY <3>1, <4>1 DEF Requests
    <3> QED
      BY <1>0, <2>2, <3>2, EndedRuns
  <2> QED
    BY <1>2, <2>1, <2>2
<1>8. (Managed(q)' <=> Managed(q)) /\ (IsTracked(q)' <=> IsTracked(q))
  BY <1>5 DEF Managed, IsTracked
<1>9. q \in unconf /\ q \notin unconf' => q = r
  BY <1>5
<1> QED
  BY <1>0, <1>1, <1>5, <1>6, <1>7, <1>8, <1>9, LessHeld

LEMMA ReapUnitlessAccount ==
  ASSUME ManagerInv, ManagerInv', NEW p \in Pids, ReapUnitless(p), NEW q \in Requests
  PROVE  Accounted(q)
<1>0. /\ Types /\ At("reap") /\ worker.req = 0 /\ ~At("down")
      /\ UNCHANGED <<asked, told, unconf, sup, link, starts>>
  BY DEF ManagerInv, WorkerAt, ReapUnitless, At
<1>1. \/ UNCHANGED <<evts, children, program>>
      \/ /\ evts' = Append(evts, Evt("exited", p))
         /\ children' = [children EXCEPT ![p] = NoChild]
         /\ program' = [program EXCEPT ![children[p].req] = NoProgram]
  BY DEF ReapUnitless
<1>2. /\ Evt("exited", p) \in Evts /\ Evt("exited", p).id = p /\ Evt("exited", p).req = 0
  BY DEF Evt, Evts
<1>3. HeardNext(q) = Heard(q)
  BY <1>0, <1>1, <1>2, HeardStays, Appended, Ids DEF HeardNext
<1>4. (Runs(q)' => Runs(q)) /\ (MayStart(q)' => MayStart(q))
  BY <1>0, <1>1, NoProgramFields DEF Types, Runs, MayStart
<1>5. NoChild.req # q
  BY Ids DEF NoChild
<1>6. (Managed(q)' => Managed(q)) /\ (Runs(q)' /\ IsTracked(q) => IsTracked(q)')
  <2>1. CASE UNCHANGED <<evts, children, program>>
    BY <2>1 DEF Managed, IsTracked
  <2>2. CASE /\ children' = [children EXCEPT ![p] = NoChild]
             /\ program' = [program EXCEPT ![children[p].req] = NoProgram]
    <3>1. children'[p] = NoChild /\ \A x \in Pids \ {p} : children'[x] = children[x]
      BY <1>0, <2>2 DEF Types
    <3>2. children[p].req = q => ~Runs(q)'
      BY <1>0, <2>2, NoProgramFields DEF Types, Runs
    <3> QED
      BY <1>5, <3>1, <3>2 DEF Managed, IsTracked
  <2> QED
    BY <1>1, <2>1, <2>2
<1> QED
  BY <1>0, <1>3, <1>4, <1>6, LessHeld

LEMMA ReapUnitAccount ==
  ASSUME ManagerInv, ManagerInv', NEW p \in Pids, ReapUnit(p), NEW q \in Requests
  PROVE  Accounted(q)
<1>0. /\ Types /\ At("reap") /\ worker.req = 0 /\ ~At("down") /\ ~children[p].unitless
      /\ UNCHANGED <<asked, told, unconf, sup, link, starts, program>>
  BY DEF ManagerInv, WorkerAt, ReapUnit, At, process
<1>1. /\ Tracked(p) /\ children[p].req \in Requests /\ Entry(p) /\ children[p] \in Entries
      /\ Session(children[p].req)
  <2>1. Tracked(p)
    BY DEF ManagerInv, WorkerAt, ReapUnit
  <2> QED
    BY <2>1, TrackedEntry DEF ManagerInv
<1>2. /\ evts' = evts \/ evts' = Append(evts, Evt("exited", p))
      /\ \/ client[children[p].req] = "ended" /\ children' = [children EXCEPT ![p] = NoChild]
         \/ \E reported, closed \in BOOLEAN :
              /\ children[p].reported => reported
              /\ children' = [children EXCEPT ![p] =
                                [children[p] EXCEPT !.reported = reported, !.closed = closed]]
  <2> DEFINE r == children[p].req
             got == IF children[p].reader THEN pipe[r] ELSE <<>>
             closed == children[p].closed \/ ~children[p].reader \/ sup[r] = "gone"
             over == client[r] = "ended" /\ closed
             reported == children[p].reported \/ ExitHeard(got) \/ over
  <2>1. /\ closed \in BOOLEAN /\ reported \in BOOLEAN /\ over \in BOOLEAN
        /\ children[p].reported => reported
    BY <1>1 DEF Entries, ExitHeard
  <2>2. /\ evts' = IF reported /\ ~children[p].reported
                   THEN Append(evts, Evt("exited", p)) ELSE evts
        /\ children' = [children EXCEPT ![p] =
                          IF over THEN NoChild
                          ELSE [children[p] EXCEPT !.reported = reported, !.closed = closed]]
    BY DEF ReapUnit
  <2>3. over => client[r] = "ended"
    OBVIOUS
  <2> HIDE DEF got, closed, over, reported
  <2> QED
    BY <2>1, <2>2, <2>3
<1>3. /\ Evt("exited", p) \in Evts /\ Evt("exited", p).id = p /\ Evt("exited", p).req = 0
  BY DEF Evt, Evts
<1>4. HeardNext(q) = Heard(q)
  <2>1. evts' = evts \/ evts' = Append(evts, Evt("exited", p))
    BY <1>2
  <2>2. p # q /\ q # 0 /\ Types /\ told' = told
    BY <1>0, Ids
  <2>3. CASE evts' = evts
    BY <2>2, <2>3, HeardStays
  <2>4. CASE evts' = Append(evts, Evt("exited", p))
    BY <1>3, <2>2, <2>4, Appended DEF HeardNext
  <2> QED
    BY <2>1, <2>3, <2>4
<1>5. (Runs(q)' <=> Runs(q)) /\ (MayStart(q)' <=> MayStart(q))
  BY <1>0 DEF Runs, MayStart
<1>6. NoChild.req # q
  BY Ids DEF NoChild
<1>7. (Managed(q)' => Managed(q)) /\ (Runs(q)' /\ IsTracked(q) => IsTracked(q)')
  <2>1. CASE client[children[p].req] = "ended" /\ children' = [children EXCEPT ![p] = NoChild]
    <3>1. children'[p] = NoChild /\ \A x \in Pids \ {p} : children'[x] = children[x]
      BY <1>0, <2>1 DEF Types
    <3>2. ~Runs(children[p].req)
      <4>1. sup[children[p].req] = "gone" /\ program[children[p].req].in # "unit"
        BY <1>0, <1>1, <2>1 DEF Entry, Session
      <4>2. program[children[p].req].in # "compositor"
        BY <1>0, <1>1, NoProgramFields DEF Entry, Session
      <4>3. program[children[p].req] \in Running
        BY <1>0, <1>1 DEF Types
      <4>4. program[children[p].req].in = "none"
        BY <4>1, <4>2, <4>3 DEF Running
      <4> QED
        BY <1>1, <4>4, NoProgramFields DEF Session, Runs
    <3> QED
      BY <1>5, <1>6, <3>1, <3>2 DEF Managed, IsTracked
  <2>2. CASE \E reported, closed \in BOOLEAN :
               /\ children[p].reported => reported
               /\ children' = [children EXCEPT ![p] =
                                 [children[p] EXCEPT !.reported = reported, !.closed = closed]]
    <3>1. /\ children'[p].req = children[p].req /\ (children[p].reported => children'[p].reported)
          /\ \A x \in Pids \ {p} : children'[x] = children[x]
      BY <1>0, <1>1, <2>2 DEF Types, Entries
    <3> QED
      BY <3>1 DEF Managed, IsTracked
  <2> QED
    BY <1>2, <2>1, <2>2
<1> QED
  BY <1>0, <1>4, <1>5, <1>7, LessHeld

LEMMA ReapUnconfirmedAccount ==
  ASSUME ManagerInv, ManagerInv', NEW r \in Requests, ReapUnconfirmed(r), NEW q \in Requests
  PROVE  Accounted(q)
<1>0. /\ Types /\ At("reap") /\ worker.req = 0 /\ ~At("down") /\ r \in unconf
      /\ UNCHANGED <<asked, told, children, sup, link, starts, program>>
  BY DEF ManagerInv, WorkerAt, ReapUnconfirmed, At, outside, process
<1>1. Late(r) /\ Session(r) /\ Heard(r) # NoNews
  BY <1>0 DEF ManagerInv, Late
<1>2. \/ UNCHANGED <<evts, unconf>>
      \/ /\ client[r] = "ended" /\ unconf' = unconf \ {r}
         /\ evts' = Append(evts, Evt("unconfirmedExited", r))
  BY DEF ReapUnconfirmed
<1>3. /\ Evt("unconfirmedExited", r) \in Evts /\ Evt("unconfirmedExited", r).id = r
      /\ Evt("unconfirmedExited", r).req = 0
  BY DEF Evt, Evts
<1>4. HeardNext(q) = NoNews <=> Heard(q) = NoNews
  BY <1>0, <1>1, <1>2, <1>3, HeardStays, Appended, Ids, AnswerKinds DEF HeardNext
<1>5. /\ (Runs(q)' <=> Runs(q)) /\ (MayStart(q)' <=> MayStart(q))
      /\ (Managed(q)' <=> Managed(q)) /\ (IsTracked(q)' <=> IsTracked(q))
  BY <1>0 DEF Runs, MayStart, Managed, IsTracked
<1>6. client[r] = "ended" => ~Runs(r)
  <2>1. program[r].in # "compositor"
    BY <1>0, <1>1, NoProgramFields DEF Late, Session, IsTracked
  <2>2. client[r] = "ended" => program[r].in # "unit"
    BY <1>0, <1>1 DEF Session
  <2> QED
    BY <1>0, <1>1, <2>1, <2>2, NoProgramFields DEF Session, Runs, Types, Running
<1>7. (q \in unconf' => q \in unconf) /\ (Runs(q)' /\ q \in unconf => q \in unconf')
  BY <1>2, <1>5, <1>6
<1> QED
  BY <1>0, <1>4, <1>5, <1>7, LessHeld

-----------------------------------------------------------------------------
(* Every step accounts for every request *)

LEMMA NextAccounts ==
  ASSUME ManagerInv, ManagerInv', [Next]_vars, NEW q \in Requests
  PROVE  Accounted(q)
<1>1. CASE UNCHANGED vars
  <2>1. UNCHANGED <<asked, evts, told, worker, children, unconf, sup, link, program, starts>>
    BY <1>1 DEF vars, answers, tables, outside, process
  <2>2. HeardNext(q) = Heard(q) /\ (Runs(q)' => Runs(q)) /\ (MayStart(q)' => MayStart(q))
    BY <2>1, HeardStays DEF Runs, MayStart
  <2> QED
    BY <2>1, <2>2, Unnoticed DEF At
<1>2. CASE Compositor
  BY <1>2, CompositorAccounts
<1>3. CASE Worker
  BY <1>3, WorkerMovesAccount, TerminateAccount, TerminateUnconfirmedAccount, StartsAccount,
     SendRequestAccount, HearStartAccount, ReapUnitlessAccount, ReapUnitAccount,
     ReapUnconfirmedAccount DEF Worker
<1>4. CASE \E r \in Requests : \/ Supervisor(r) \/ SupervisorFinishes(r) \/ SupervisorCrashes(r)
                               \/ ClientEnds(r) \/ ProgramExits(r)
  BY <1>4, SessionAccounts, SupervisorStartsAccount DEF Supervisor
<1> QED
  BY <1>1, <1>2, <1>3, <1>4 DEF Next

\* A running program is out of the manager's sight only after a stop of it
\* that was asked for: no fallback, broken handshake, late start or reused
\* process id lets go of one, whatever fails.
THEOREM ProgramsAreLostOnlyByStops == Spec => LostOnlyByStop
<1>1. ManagerInv /\ ManagerInv' /\ [Next]_vars =>
        [\A r \in Requests :
           Unattended(r)' /\ ~Unattended(r) =>
             \/ NextCmd("terminate") /\ children[Head(cmds).id].req = r
             \/ NextCmd("terminateUnconfirmed") /\ Head(cmds).id = r
             \/ News(r).op = "terminatedUnconfirmed"]_vars
  BY NextAccounts, NewsIsHeard DEF Accounted, Kept
<1> QED
  BY <1>1, ManagerInvHolds, PTL DEF Spec, LostOnlyByStop

\* Every request follows ChildControl: it is answered once, its program is
\* started at most once and never after "failed", and an end that is
\* reported is the end.
THEOREM ManagerImplementsContract == Spec => ImplementsChildControl
<1>1. Init => Contract!Init
  <2> SUFFICES ASSUME Init PROVE Contract!Init
    OBVIOUS
  <2>1. ManagerInv /\ asked = 0 /\ \A r \in Requests : starts[r] = 0
    BY InitManagerInv DEF Init
  <2>2. \A r \in Requests : PhaseOf(r) = "new" /\ ProgramOf(r) = "none"
    <3> TAKE r \in Requests
    <3>1. r > asked /\ ~Runs(r)
      BY <2>1, RequestFacts, Ids DEF Requests
    <3> QED
      BY <2>1, <3>1 DEF PhaseOf, ProgramOf
  <2> QED
    BY <2>2 DEF Contract!Init
<1>2. ManagerInv /\ ManagerInv' /\ [Next]_vars => [Contract!Next]_Contract!vars
  <2> SUFFICES ASSUME ManagerInv, ManagerInv', [Next]_vars PROVE Contract!Next
    OBVIOUS
  <2>1. ASSUME NEW r \in Requests
        PROVE  Contract!Step(r) \/ (PhaseOf(r)' = PhaseOf(r) /\ ProgramOf(r)' = ProgramOf(r))
    BY NextAccounts, Transition DEF Accounted
  <2> QED
    BY <2>1 DEF Contract!Next, Contract!Same
<1> QED
  BY <1>1, <1>2, ManagerInvHolds, PTL DEF Spec, ImplementsChildControl, Contract!Spec
=============================================================================
