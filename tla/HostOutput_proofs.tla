-------------------------- MODULE HostOutput_proofs --------------------------
(***************************************************************************)
(* Proofs about HostOutput, for every set of devices, modes, scales and    *)
(* rotations, every combination of faults and every budget.                *)
(*                                                                         *)
(* A callback of the event loop is one action that applies the operators   *)
(* named after the runtime's methods one after the other.  Coherent says   *)
(* of a host what its records of outputs, pipelines, frames and the        *)
(* transaction have to do with each other; it holds between any two        *)
(* methods, not only between callbacks, and each lemma of the first part   *)
(* is about one method.  HostInv is the inductive invariant: it adds that  *)
(* a rotation that was asked for is in one place until it is answered.     *)
(***************************************************************************)
EXTENDS HostOutput, FiniteSetTheorems, SequenceTheorems, TLAPS

Fields == {"detected", "opened", "claimed", "prepared", "retired", "front", "good", "events",
           "source", "queue", "staged", "mut", "asked", "reply", "pub", "ready", "committed",
           "owned", "window"}

IsHost(h) == DOMAIN h = Fields /\ h = [f \in Fields |-> h[f]]

Retirees == [out : Outputs, flip : Tokens \cup {Idle}]

OutputTypes(h) ==
  /\ h.detected \in SUBSET Devices /\ h.opened \in SUBSET Devices
  /\ h.claimed \in Outputs \cup {None} /\ h.prepared \in Outputs \cup {None}
  /\ h.retired \in Retirees \cup {None}
  /\ h.front \in [Devices -> Tokens \cup {Idle, None}]
  /\ h.good \in Devices /\ h.events \in SUBSET Devices
  /\ h.source \in Devices \cup {None}

TransactionTypes(h) ==
  /\ h.queue \in Seq(Mutations)
  /\ h.staged \in Transactions \cup {None}
  /\ h.mut \in {"scale", "rotation", "mode", None}
  /\ h.asked \in BOOLEAN /\ h.reply \in {"ok", "err", None}
  /\ h.pub \in Outputs \cup {None} /\ h.ready \in BOOLEAN
  /\ h.committed \in Geometries /\ h.owned \in BOOLEAN /\ h.window \in Modes

Typed(h) == IsHost(h) /\ OutputTypes(h) /\ TransactionTypes(h)

\* PipelinesFollowClaims of a host.
Pipelines(h) ==
  /\ \A d \in Devices : h.front[d] # None <=> h.claimed # None /\ h.claimed.dev = d
  /\ h.claimed # None => h.claimed.dev \in h.opened
  /\ h.prepared # None => h.prepared.dev \in h.opened
  /\ h.retired # None => h.retired.out.dev \in h.opened

\* CandidateIsUndecided of a host.
Undecided(h) ==
  /\ h.claimed # None /\ h.retired # None => h.mut = "mode"
  /\ h.prepared # None => h.claimed = None

\* The frame of the transaction is in flight on the output that is
\* presented, unless that was lost or set aside meanwhile; a candidate that
\* drew no frame of its transaction drew none at all.
Frames(h) ==
  /\ InFlight(h) =>
       /\ h.staged.dev \in Devices
       /\ h.claimed # None =>
            h.claimed.dev = h.staged.dev /\ h.front[h.staged.dev] = h.staged.flip
  /\ h.mut = "mode" /\ h.claimed # None /\ ~InFlight(h) => h.front[h.claimed.dev] = Idle

\* The conjuncts of TransactionIsWhole about the host alone.
Transacts(h) ==
  /\ h.staged # None <=> h.mut # None
  /\ h.asked => h.mut = "rotation"

Coherent(h) == Typed(h) /\ Pipelines(h) /\ Undecided(h) /\ Frames(h) /\ Transacts(h)

\* What no method but those of the transaction touches.
SameTransaction(g, h) ==
  /\ h.staged = g.staged /\ h.mut = g.mut /\ h.asked = g.asked
  /\ h.reply = g.reply /\ h.committed = g.committed

SameClaim(g, h) == h.claimed = g.claimed /\ h.front = g.front

\* A method may ask for the mode of the output it prepared.
QueueGrows(g, h) == h.queue = g.queue \/ \E m \in Modes : h.queue = Append(g.queue, Mode(m))

-----------------------------------------------------------------------------
(* Types *)

LEMMA HostsTyped == \A h : h \in Hosts <=> Typed(h)
<1> SUFFICES ASSUME NEW h PROVE h \in Hosts <=> Typed(h)
  OBVIOUS
<1>1. h \in Hosts => Typed(h)
  BY DEF Hosts, Typed, IsHost, OutputTypes, TransactionTypes, Retirees, Fields
<1>2. Typed(h) => h \in Hosts
  BY DEF Hosts, Typed, IsHost, OutputTypes, TransactionTypes, Retirees, Fields
<1> QED
  BY <1>1, <1>2

\* None is none of the values of the fields that may be None.
LEMMA NoneApart ==
  /\ \A out \in Outputs : out # None /\ out.dev \in Devices /\ out.mode \in Modes
  /\ \A r \in Retirees : r # None /\ r.out \in Outputs /\ r.flip \in Tokens \cup {Idle}
  /\ \A t \in Transactions : t # None /\ t.geo \in Geometries /\ t.geo # None
  /\ None # Idle /\ Idle \notin Tokens /\ None \notin Tokens
  /\ None \notin {"ok", "err", "scale", "rotation", "mode"}
BY ConstantsAssumption, NoneAssumption DEF Outputs, Retirees, Transactions, Idle

-----------------------------------------------------------------------------
(* Methods that claim, prepare, lose and close outputs *)

LEMMA MarkClaimLostCoherent ==
  ASSUME NEW h, Coherent(h)
  PROVE  LET g == MarkClaimLost(h)
         IN  /\ Coherent(g) /\ SameTransaction(h, g) /\ g.queue = h.queue
             /\ g.claimed = None \/ g = h
             /\ h.retired = None => g.claimed = None
<1> DEFINE g == MarkClaimLost(h)
<1>1. /\ SameTransaction(h, g) /\ g.queue = h.queue
      /\ g.claimed = None \/ g = h
      /\ h.retired = None => g.claimed = None
  BY DEF Coherent, Typed, IsHost, Fields, MarkClaimLost, SameTransaction
<1>2. IsHost(g) /\ TransactionTypes(g)
  BY ZenonT(60) DEF Coherent, Typed, IsHost, Fields, MarkClaimLost, TransactionTypes
<1>3. OutputTypes(g)
  BY NoneApart DEF Coherent, Typed, IsHost, Fields, MarkClaimLost, OutputTypes, Outputs, Retirees, Pipelines
<1>4. Pipelines(g)
  BY NoneApart DEF Coherent, Typed, IsHost, Fields, MarkClaimLost, OutputTypes, Outputs, Retirees, Pipelines
<1>5. Undecided(g) /\ Frames(g) /\ Transacts(g)
  BY <1>1 DEF Coherent, Typed, IsHost, Fields, MarkClaimLost, Undecided, Frames, Transacts, InFlight, SameTransaction
<1> QED
  BY <1>1, <1>2, <1>3, <1>4, <1>5 DEF Coherent, Typed

LEMMA CloseDeviceCoherent ==
  ASSUME NEW h, Coherent(h), NEW d \in Devices
  PROVE  LET g == CloseDevice(h, d)
         IN  /\ Coherent(g) /\ SameTransaction(h, g) /\ g.queue = h.queue
             /\ g.claimed = None \/ (g.claimed = h.claimed /\ g.claimed.dev # d)
             /\ g.claimed = None => h.claimed = None \/ h.claimed.dev = d
             /\ g.retired # None => g.retired.out.dev # d
<1> DEFINE g == CloseDevice(h, d)
<1>1. /\ SameTransaction(h, g) /\ g.queue = h.queue
      /\ g.claimed = None \/ (g.claimed = h.claimed /\ g.claimed.dev # d)
      /\ g.claimed = None => h.claimed = None \/ h.claimed.dev = d
      /\ g.retired # None => g.retired.out.dev # d
  BY DEF Coherent, Typed, IsHost, Fields, CloseDevice, SameTransaction
<1>2. IsHost(g) /\ TransactionTypes(g)
  BY ZenonT(60) DEF Coherent, Typed, IsHost, Fields, CloseDevice, TransactionTypes
<1>3. OutputTypes(g)
  BY DEF Coherent, Typed, IsHost, Fields, CloseDevice, OutputTypes, Outputs
<1>4. Pipelines(g)
  BY NoneApart DEF Coherent, Typed, IsHost, Fields, CloseDevice, OutputTypes, Outputs, Retirees, Pipelines
<1>5. Undecided(g) /\ Frames(g) /\ Transacts(g)
  BY <1>1, NoneApart DEF Coherent, Typed, IsHost, Fields, CloseDevice, OutputTypes, Outputs, Undecided, Frames, Transacts, InFlight, SameTransaction
<1> QED
  BY <1>1, <1>2, <1>3, <1>4, <1>5 DEF Coherent, Typed

\* What neither an output nor the transaction depends on.
LEMMA LooseFields ==
  ASSUME NEW h, Coherent(h), NEW g, Typed(g), SameTransaction(h, g), SameClaim(h, g),
         h.opened \subseteq g.opened, g.prepared = h.prepared,
         \/ g.retired = h.retired
         \/ h.retired # None /\ g.retired # None /\ g.retired.out = h.retired.out
  PROVE  Coherent(g)
BY DEF Coherent, SameTransaction, SameClaim, Pipelines, Undecided, Frames, Transacts, InFlight

LEMMA SourceCoherent ==
  ASSUME NEW h, Coherent(h), NEW s \in Devices \cup {None}
  PROVE  LET g == [h EXCEPT !.source = s]
         IN  Coherent(g) /\ SameTransaction(h, g) /\ SameClaim(h, g) /\ g.queue = h.queue
             /\ g.prepared = h.prepared /\ g.source = s /\ g.retired = h.retired
<1> DEFINE g == [h EXCEPT !.source = s]
<1>1. /\ Typed(g) /\ SameTransaction(h, g) /\ SameClaim(h, g) /\ g.queue = h.queue
      /\ g.opened = h.opened /\ g.prepared = h.prepared /\ g.retired = h.retired /\ g.source = s
  BY DEF Coherent, Typed, IsHost, Fields, OutputTypes, TransactionTypes, SameTransaction, SameClaim
<1> QED
  BY <1>1, LooseFields

LEMMA MarkReclaimPendingCoherent ==
  ASSUME NEW h, Coherent(h)
  PROVE  LET g == MarkReclaimPending(h)
         IN  Coherent(g) /\ SameTransaction(h, g) /\ SameClaim(h, g) /\ g.queue = h.queue
             /\ g.prepared = h.prepared /\ g.retired = h.retired
<1> DEFINE g == MarkReclaimPending(h)
<1>1. /\ Typed(g) /\ SameTransaction(h, g) /\ SameClaim(h, g) /\ g.queue = h.queue
      /\ g.opened = h.opened /\ g.prepared = h.prepared /\ g.retired = h.retired
  BY ZenonT(60) DEF Coherent, Typed, IsHost, Fields, OutputTypes, TransactionTypes, SameTransaction, SameClaim,
         MarkReclaimPending
<1> QED
  BY <1>1, LooseFields

LEMMA DetectedCoherent ==
  ASSUME NEW h, Coherent(h), NEW D \in SUBSET Devices
  PROVE  LET g == [h EXCEPT !.detected = D]
         IN  Coherent(g) /\ SameTransaction(h, g) /\ SameClaim(h, g) /\ g.queue = h.queue
<1> DEFINE g == [h EXCEPT !.detected = D]
<1>1. /\ Typed(g) /\ SameTransaction(h, g) /\ SameClaim(h, g) /\ g.queue = h.queue
      /\ g.opened = h.opened /\ g.prepared = h.prepared /\ g.retired = h.retired
  BY DEF Coherent, Typed, IsHost, Fields, OutputTypes, TransactionTypes, SameTransaction, SameClaim
<1> QED
  BY <1>1, LooseFields

LEMMA EventsCoherent ==
  ASSUME NEW h, Coherent(h), NEW D \in SUBSET Devices
  PROVE  LET g == [h EXCEPT !.events = D]
         IN  Coherent(g) /\ SameTransaction(h, g) /\ SameClaim(h, g) /\ g.queue = h.queue
<1> DEFINE g == [h EXCEPT !.events = D]
<1>1. /\ Typed(g) /\ SameTransaction(h, g) /\ SameClaim(h, g) /\ g.queue = h.queue
      /\ g.opened = h.opened /\ g.prepared = h.prepared /\ g.retired = h.retired
  BY DEF Coherent, Typed, IsHost, Fields, OutputTypes, TransactionTypes, SameTransaction, SameClaim
<1> QED
  BY <1>1, LooseFields

LEMMA OpenDeviceCoherent ==
  ASSUME NEW h, Coherent(h), NEW d \in Devices, NEW F
  PROVE  LET g == OpenDevice(h, d, F)
         IN  Coherent(g) /\ SameTransaction(h, g) /\ SameClaim(h, g) /\ g.queue = h.queue
             /\ g.retired = h.retired
<1> DEFINE g == [h EXCEPT !.opened = @ \cup {d}]
<1>1. /\ Typed(g) /\ SameTransaction(h, g) /\ SameClaim(h, g) /\ g.queue = h.queue
      /\ h.opened \subseteq g.opened /\ g.prepared = h.prepared /\ g.retired = h.retired
  BY ZenonT(60) DEF Coherent, Typed, IsHost, Fields, OutputTypes, TransactionTypes, SameTransaction, SameClaim
<1>2. OpenDevice(h, d, F) = h \/ OpenDevice(h, d, F) = g
  BY DEF OpenDevice
<1> HIDE DEF g
<1>3. Coherent(g)
  BY <1>1, LooseFields
<1> QED
  BY <1>1, <1>2, <1>3 DEF SameTransaction, SameClaim

LEMMA DrainRetiredCoherent ==
  ASSUME NEW h, Coherent(h)
  PROVE  LET g == DrainRetired(h)
         IN  Coherent(g) /\ SameTransaction(h, g) /\ SameClaim(h, g) /\ g.queue = h.queue
             /\ g.opened = h.opened /\ g.prepared = h.prepared
<1> DEFINE g == DrainRetired(h)
<1>1. CASE h.retired = None \/ h.retired.out.dev \notin h.events
  BY <1>1 DEF DrainRetired, SameTransaction, SameClaim
<1>2. CASE h.retired # None /\ h.retired.out.dev \in h.events
  <2>1. h.retired \in Retirees /\ h.retired = [out |-> h.retired.out, flip |-> h.retired.flip]
    BY <1>2 DEF Coherent, Typed, OutputTypes, Retirees
  <2>2. /\ IsHost(g) /\ TransactionTypes(g) /\ SameTransaction(h, g) /\ SameClaim(h, g)
        /\ g.queue = h.queue /\ g.opened = h.opened /\ g.prepared = h.prepared
        /\ g.retired = [h.retired EXCEPT !.flip = Idle]
        /\ g.events = h.events \ {h.retired.out.dev}
        /\ g.detected = h.detected /\ g.good = h.good /\ g.source = h.source
    BY <1>2 DEF DrainRetired, Coherent, Typed, IsHost, Fields, TransactionTypes,
                SameTransaction, SameClaim
  <2>3. g.retired \in Retirees /\ g.retired.out = h.retired.out
    BY <2>1, <2>2 DEF Retirees
  <2>4. Typed(g)
    BY <2>2, <2>3 DEF Coherent, Typed, OutputTypes, SameClaim
  <2> QED
    BY <1>2, <2>2, <2>3, <2>4, NoneApart, LooseFields
<1> QED
  BY <1>1, <1>2

LEMMA BindSourceCoherent ==
  ASSUME NEW h, Coherent(h), NEW d \in Devices \cup {None}, NEW F
  PROVE  LET g == BindSource(h, d, F)
         IN  Coherent(g) /\ SameTransaction(h, g) /\ SameClaim(h, g) /\ g.queue = h.queue
             /\ g.prepared = h.prepared /\ g.retired = h.retired
<1> DEFINE unbound == [h EXCEPT !.source = None]
           bound == [h EXCEPT !.source = d]
<1>1. BindSource(h, d, F) = MarkReclaimPending(unbound) \/ BindSource(h, d, F) = bound
  BY DEF BindSource
<1>2. /\ Coherent(unbound) /\ SameTransaction(h, unbound) /\ SameClaim(h, unbound)
      /\ unbound.queue = h.queue /\ unbound.prepared = h.prepared /\ unbound.retired = h.retired
  BY SourceCoherent
<1>3. /\ Coherent(bound) /\ SameTransaction(h, bound) /\ SameClaim(h, bound)
      /\ bound.queue = h.queue /\ bound.prepared = h.prepared /\ bound.retired = h.retired
  BY SourceCoherent
<1> HIDE DEF unbound, bound
<1> QED
  BY <1>1, <1>2, <1>3, MarkReclaimPendingCoherent DEF SameTransaction, SameClaim

LEMMA PublishCoherent ==
  ASSUME NEW h, Coherent(h), h.prepared # None, NEW F
  PROVE  LET g == Publish(h, F)
         IN  Coherent(g) /\ SameTransaction(h, g) /\ SameClaim(h, g) /\ g.queue = h.queue
<1> DEFINE b == BindSource(h, h.prepared.dev, F)
           g == [b EXCEPT !.pub = h.prepared]
<1>1. h.prepared \in Outputs /\ h.prepared.dev \in Devices
  BY NoneApart DEF Coherent, Typed, OutputTypes
<1>2. /\ Coherent(b) /\ SameTransaction(h, b) /\ SameClaim(h, b) /\ b.queue = h.queue
      /\ b.prepared = h.prepared
  BY <1>1, BindSourceCoherent
<1>3. Publish(h, F) = IF "bind" \in F THEN b ELSE g
  BY DEF Publish
<1> HIDE DEF b
<1>4. /\ Typed(g) /\ SameTransaction(b, g) /\ SameClaim(b, g) /\ g.queue = b.queue
      /\ b.opened = g.opened /\ g.prepared = b.prepared /\ g.retired = b.retired
  BY <1>1, <1>2 DEF Coherent, Typed, IsHost, Fields, OutputTypes, TransactionTypes, SameTransaction,
                    SameClaim
<1>5. Coherent(g)
  BY <1>2, <1>4, LooseFields
<1> QED
  BY <1>2, <1>3, <1>4, <1>5 DEF SameTransaction, SameClaim

Monitors == [Devices -> Modes \cup {None}]

LEMMA ModeMutation == \A m \in Modes : Mode(m) \in Mutations
BY DEF Mutations

LEMMA PrepareCoherent ==
  ASSUME NEW h, Coherent(h), h.claimed = None, NEW out \in Outputs, out.dev \in h.opened
  PROVE  LET g == Prepare(h, out)
         IN  /\ Coherent(g) /\ SameTransaction(h, g) /\ SameClaim(h, g)
             /\ g.queue = Append(h.queue, Mode(out.mode)) /\ g.prepared # None
<1> DEFINE g == Prepare(h, out)
<1>1. out.dev \in Devices /\ out.mode \in Modes /\ Mode(out.mode) \in Mutations /\ out # None
  BY NoneApart, ModeMutation
<1>2. /\ IsHost(g) /\ SameTransaction(h, g) /\ SameClaim(h, g) /\ g.prepared = out
      /\ g.queue = Append(h.queue, Mode(out.mode)) /\ g.good = out.dev
      /\ g.opened = h.opened /\ g.retired = h.retired /\ g.detected = h.detected
      /\ g.events = h.events /\ g.source = h.source /\ g.pub = h.pub /\ g.ready = h.ready
      /\ g.owned = h.owned /\ g.window = h.window
  BY DEF Coherent, Typed, IsHost, Fields, SameTransaction, SameClaim, Prepare
<1>3. g.queue \in Seq(Mutations)
  BY <1>1, <1>2 DEF Coherent, Typed, TransactionTypes
<1> HIDE DEF g
<1>4. Typed(g)
  BY <1>1, <1>2, <1>3 DEF Coherent, Typed, OutputTypes, TransactionTypes, SameTransaction, SameClaim
<1>5. Pipelines(g) /\ Undecided(g) /\ Frames(g) /\ Transacts(g)
  BY <1>1, <1>2 DEF Coherent, SameTransaction, SameClaim, Pipelines, Undecided, Frames, Transacts, InFlight
<1> QED
  BY <1>1, <1>2, <1>4, <1>5 DEF Coherent, g

LEMMA ReclaimCoherent ==
  ASSUME NEW h, Coherent(h), h.claimed = None, NEW monitors \in Monitors, NEW F
  PROVE  LET g == Reclaim(h, monitors, F)
         IN  Coherent(g) /\ SameTransaction(h, g) /\ SameClaim(h, g) /\ QueueGrows(h, g)
<1> DEFINE drained == DrainRetired(h)
           d == Chosen(h, monitors)
           out == [dev |-> d, mode |-> monitors[d]]
           prepared == Prepare(drained, out)
<1>1. CASE h.prepared # None
  BY <1>1, PublishCoherent DEF Reclaim, QueueGrows
<1>2. /\ Coherent(drained) /\ SameTransaction(h, drained) /\ SameClaim(h, drained)
      /\ drained.queue = h.queue /\ drained.opened = h.opened /\ drained.prepared = h.prepared
  BY DrainRetiredCoherent
<1>3. CASE h.prepared = None /\ (Candidates(h, monitors) = {} \/ DrainFails(h) \/ "claim" \in F)
  <2>1. Reclaim(h, monitors, F) = MarkReclaimPending(h) \/ Reclaim(h, monitors, F) = MarkReclaimPending(drained)
    BY <1>3 DEF Reclaim
  <2> HIDE DEF drained
  <2> QED
    BY <1>2, <2>1, MarkReclaimPendingCoherent DEF SameTransaction, SameClaim, QueueGrows
<1>4. CASE /\ h.prepared = None /\ Candidates(h, monitors) # {}
           /\ ~(DrainFails(h) \/ "claim" \in F)
  <2>1. Reclaim(h, monitors, F) = Publish(prepared, F)
    BY <1>4 DEF Reclaim
  <2>2. d \in Candidates(h, monitors)
    BY <1>4 DEF Chosen
  <2>3. d \in h.opened /\ d \in Devices /\ monitors[d] \in Modes
    BY <2>2 DEF Candidates, Monitors, Coherent, Typed, OutputTypes
  <2> HIDE DEF d, drained
  <2>4. out \in Outputs /\ out.dev = d /\ out.mode = monitors[d]
    BY <2>3 DEF Outputs
  <2> HIDE DEF out
  <2>5. /\ Coherent(prepared) /\ SameTransaction(drained, prepared) /\ SameClaim(drained, prepared)
        /\ prepared.queue = Append(drained.queue, Mode(out.mode)) /\ prepared.prepared # None
    BY <1>2, <1>4, <2>3, <2>4, PrepareCoherent DEF SameClaim
  <2> HIDE DEF prepared
  <2>6. LET g == Publish(prepared, F)
        IN  Coherent(g) /\ SameTransaction(prepared, g) /\ SameClaim(prepared, g) /\ g.queue = prepared.queue
    BY <2>5, PublishCoherent
  <2> QED
    BY <1>2, <2>1, <2>3, <2>4, <2>5, <2>6 DEF SameTransaction, SameClaim, QueueGrows
<1> QED
  BY <1>1, <1>3, <1>4

\* The candidate becomes the output that is presented.
LEMMA ArmCoherent ==
  ASSUME NEW h, Coherent(h), h.prepared # None, h.staged = None
  PROVE  LET g == Arm(h)
         IN  /\ Typed(g) /\ Pipelines(g) /\ Transacts(g) /\ SameTransaction(h, g)
             /\ g.queue = h.queue /\ g.claimed = h.prepared /\ g.prepared = None
             /\ g.front[g.claimed.dev] = Idle
<1> DEFINE g == Arm(h)
<1>1. h.prepared \in Outputs /\ h.prepared.dev \in Devices /\ h.claimed = None
  BY NoneApart DEF Coherent, Typed, OutputTypes, Undecided
<1>2. /\ IsHost(g) /\ SameTransaction(h, g) /\ g.queue = h.queue
      /\ g.claimed = h.prepared /\ g.prepared = None
      /\ g.front = [h.front EXCEPT ![h.prepared.dev] = Idle]
      /\ g.detected = h.detected /\ g.opened = h.opened /\ g.retired = h.retired
      /\ g.good = h.good /\ g.events = h.events /\ g.source = h.source
      /\ g.pub = h.pub /\ g.ready = h.ready /\ g.owned = h.owned /\ g.window = h.window
  BY DEF Coherent, Typed, IsHost, Fields, SameTransaction, Arm
<1> HIDE DEF g
<1>3. Typed(g)
  BY <1>1, <1>2 DEF Coherent, Typed, OutputTypes, TransactionTypes, SameTransaction
<1>4. Pipelines(g) /\ g.front[g.claimed.dev] = Idle
  BY <1>1, <1>2, NoneApart DEF Coherent, Typed, OutputTypes, Pipelines
<1>5. Transacts(g)
  BY <1>2 DEF Coherent, SameTransaction, Transacts
<1> QED
  BY <1>2, <1>3, <1>4, <1>5 DEF g

\* Giving up a candidate leaves no output to roll back to: it is the one
\* that is presented again, or there is none.
LEMMA DiscardUnactivatedCoherent ==
  ASSUME NEW h, Typed(h), Pipelines(h), Transacts(h), h.staged = None,
         h.prepared # None => h.claimed = None,
         \/ h.claimed = None \/ h.retired = None \/ h.front[h.claimed.dev] = Idle
  PROVE  LET g == DiscardUnactivatedReclaim(h)
         IN  /\ Coherent(g) /\ SameTransaction(h, g) /\ g.queue = h.queue
             /\ g.claimed \in {None, h.claimed} \cup (IF h.retired = None THEN {} ELSE {h.retired.out})
<1> DEFINE unpub == [h EXCEPT !.pub = None]
           gone == DestroyCandidate(unpub)
           restored == [gone EXCEPT
             !.claimed = h.retired.out, !.retired = None,
             !.front[h.retired.out.dev] = h.retired.flip,
             !.good = h.retired.out.dev,
             !.owned = TRUE, !.window = h.retired.out.mode]
<1>1. h.mut = None
  BY DEF Transacts
<1>2. ASSUME NEW g, Typed(g), Pipelines(g), SameTransaction(h, g), g.prepared = None,
             g.claimed = None \/ g.retired = None
      PROVE  Coherent(g)
  BY <1>1, <1>2, NoneApart DEF Coherent, Undecided, Frames, Transacts, InFlight, SameTransaction
<1>3. /\ Typed(unpub) /\ SameTransaction(h, unpub) /\ unpub.queue = h.queue
      /\ unpub.claimed = h.claimed /\ unpub.front = h.front /\ unpub.opened = h.opened
      /\ unpub.prepared = h.prepared /\ unpub.retired = h.retired
  BY DEF Typed, IsHost, Fields, OutputTypes, TransactionTypes, SameTransaction
<1>4. Pipelines(unpub)
  BY <1>3 DEF Pipelines
<1> HIDE DEF unpub
<1>5. CASE h.prepared = None /\ h.claimed # None /\ h.front[h.claimed.dev] \in Tokens
  <2>1. DiscardUnactivatedReclaim(h) = unpub
    BY <1>5 DEF DiscardUnactivatedReclaim, unpub
  <2>2. h.retired = None
    BY <1>5, NoneApart
  <2> QED
    BY <1>2, <1>3, <1>4, <1>5, <2>1, <2>2
<1>6. /\ Typed(gone) /\ SameTransaction(h, gone) /\ gone.queue = h.queue
      /\ gone.claimed = None /\ gone.prepared = None
      /\ gone.opened = h.opened /\ gone.retired = h.retired
  BY <1>3, ZenonT(60) DEF Typed, IsHost, Fields, OutputTypes, TransactionTypes, Outputs, SameTransaction,
              DestroyCandidate
<1>7. \A d \in Devices : gone.front[d] = None
  BY <1>3, <1>4, NoneApart DEF Typed, IsHost, Fields, OutputTypes, Pipelines, DestroyCandidate
<1>8. Pipelines(gone)
  BY <1>3, <1>4, <1>6, <1>7 DEF Pipelines
<1> HIDE DEF gone
<1>9. CASE /\ ~(h.prepared = None /\ h.claimed # None /\ h.front[h.claimed.dev] \in Tokens)
           /\ h.retired = None
  <2>1. DiscardUnactivatedReclaim(h) = gone
    BY <1>9 DEF DiscardUnactivatedReclaim, gone, unpub
  <2> QED
    BY <1>2, <1>6, <1>8, <2>1
<1>10. CASE /\ ~(h.prepared = None /\ h.claimed # None /\ h.front[h.claimed.dev] \in Tokens)
            /\ h.retired # None
  <2>1. DiscardUnactivatedReclaim(h) = restored
    BY <1>10 DEF DiscardUnactivatedReclaim, gone, unpub
  <2>2. /\ h.retired.out \in Outputs /\ h.retired.out.dev \in Devices /\ h.retired.out.mode \in Modes
        /\ h.retired.flip \in Tokens \cup {Idle} /\ h.retired.out # None
    BY <1>10, NoneApart DEF Typed, OutputTypes
  <2>3. /\ Typed(restored) /\ SameTransaction(gone, restored) /\ restored.queue = gone.queue
        /\ restored.claimed = h.retired.out /\ restored.prepared = None /\ restored.retired = None
        /\ restored.opened = gone.opened
        /\ restored.front = [gone.front EXCEPT ![h.retired.out.dev] = h.retired.flip]
    BY <1>6, <2>2, ZenonT(60) DEF Typed, IsHost, Fields, OutputTypes, TransactionTypes, SameTransaction
  <2>4. h.retired.out.dev \in h.opened
    BY <1>10 DEF Pipelines
  <2> HIDE DEF restored
  <2>5. Pipelines(restored)
    BY <1>6, <1>7, <2>2, <2>3, <2>4, NoneApart DEF Typed, OutputTypes, Pipelines
  <2> QED
    BY <1>2, <1>6, <1>10, <2>1, <2>3, <2>5 DEF SameTransaction
<1> QED
  BY <1>5, <1>9, <1>10

-----------------------------------------------------------------------------
(* Methods that begin a transaction *)

LEMMA MutationKinds ==
  \A m \in Mutations :
    /\ m.kind \in {"scale", "rotation", "mode"}
    /\ m.kind = "scale" => m.to \in Scales
    /\ m.kind = "rotation" => m.to \in Rotations
    /\ m.kind = "mode" => m.to \in Modes
BY DEF Mutations, Commands, Scale, Rotation, Mode

LEMMA GeometryOf ==
  ASSUME NEW h, Typed(h)
  PROVE  /\ \A s \in Scales : PrepareScale(h, s) \in Geometries
         /\ \A r \in Rotations : PrepareRotation(h, r) \in Geometries
         /\ \A m \in Modes : PrepareMode(h, m) \in Geometries
BY DEF Typed, TransactionTypes, Geometries, PrepareScale, PrepareRotation, PrepareMode

\* A transaction begins: g offers a geometry no frame was drawn with.
Offers(h, g, kind) ==
  /\ g.staged \in Transactions /\ g.staged.flip = Idle /\ g.mut = kind
  /\ g.asked = (kind = "rotation")
  /\ g.reply = h.reply /\ g.committed = h.committed

LEMMA InstallCoherent ==
  ASSUME NEW h, Typed(h), Pipelines(h), h.staged = None, Transacts(h), h.prepared # None => h.claimed = None,
         NEW kind \in {"scale", "rotation", "mode"}, NEW geo \in Geometries, NEW fresh \in BOOLEAN,
         h.claimed # None /\ h.retired # None => kind = "mode",
         h.claimed # None /\ kind = "mode" => h.front[h.claimed.dev] = Idle
  PROVE  LET i == Install(h, kind, geo, fresh)
             g == IF kind = "rotation" THEN [i EXCEPT !.asked = TRUE] ELSE i
         IN  Coherent(g) /\ Offers(h, g, kind) /\ g.queue = h.queue
<1> DEFINE i == Install(h, kind, geo, fresh)
           g == IF kind = "rotation" THEN [i EXCEPT !.asked = TRUE] ELSE i
           offer == [geo |-> geo, flip |-> Idle, dev |-> None, pin |-> "unset", gone |-> FALSE]
<1>1. offer \in Transactions /\ offer # None /\ kind # None
  BY NoneApart DEF Transactions
<1>2. h.asked = FALSE
  BY NoneApart DEF Transacts, Typed, TransactionTypes
<1>3. /\ IsHost(i) /\ i.staged = offer /\ i.mut = kind /\ i.asked = h.asked /\ i.ready \in BOOLEAN
      /\ i.reply = h.reply /\ i.committed = h.committed /\ i.queue = h.queue
      /\ i.claimed = h.claimed /\ i.prepared = h.prepared /\ i.retired = h.retired
      /\ i.front = h.front /\ i.opened = h.opened /\ i.detected = h.detected
      /\ i.good = h.good /\ i.events = h.events /\ i.source = h.source
      /\ i.pub = h.pub /\ i.owned = h.owned /\ i.window = h.window
  BY ZenonT(60) DEF Typed, IsHost, Fields, Install
<1> HIDE DEF i
<1>4. /\ IsHost(g) /\ g.staged = offer /\ g.mut = kind /\ g.asked = (kind = "rotation")
      /\ g.ready = i.ready
      /\ g.reply = h.reply /\ g.committed = h.committed /\ g.queue = h.queue
      /\ g.claimed = h.claimed /\ g.prepared = h.prepared /\ g.retired = h.retired
      /\ g.front = h.front /\ g.opened = h.opened /\ g.detected = h.detected
      /\ g.good = h.good /\ g.events = h.events /\ g.source = h.source
      /\ g.pub = h.pub /\ g.owned = h.owned /\ g.window = h.window
  BY <1>2, <1>3 DEF IsHost, Fields
<1>5. offer.flip = Idle
  OBVIOUS
<1> HIDE DEF g, offer
<1>6. Typed(g)
  BY <1>1, <1>3, <1>4 DEF Typed, OutputTypes, TransactionTypes
<1>7. Pipelines(g) /\ Undecided(g) /\ Frames(g) /\ Transacts(g)
  BY <1>1, <1>4, <1>5, ZenonT(60) DEF Pipelines, Undecided, Frames, InFlight, Transacts
<1> QED
  BY <1>1, <1>4, <1>5, <1>6, <1>7 DEF Coherent, Offers, g, i

\* What the next mutation of the queue comes to.
Staged(h, g, kind) ==
  \/ SameTransaction(h, g) /\ kind # "rotation"
  \/ Offers(h, g, kind)
  \/ /\ kind = "rotation" /\ g.reply = "err"
     /\ g.staged = h.staged /\ g.mut = h.mut /\ g.asked = h.asked /\ g.committed = h.committed

LEMMA StageScaleCoherent ==
  ASSUME NEW h, Coherent(h), h.staged = None, NEW s \in Scales, NEW fresh \in BOOLEAN, NEW F
  PROVE  LET g == StageScale(h, s, fresh, F)
         IN  Coherent(g) /\ Staged(h, g, "scale") /\ g.queue = h.queue
<1> DEFINE g == Install(h, "scale", PrepareScale(h, s), fresh)
<1>1. PrepareScale(h, s) \in Geometries /\ h.mut = None
  BY GeometryOf DEF Coherent, Transacts
<1>2. Coherent(g) /\ Offers(h, g, "scale") /\ g.queue = h.queue
  BY <1>1, InstallCoherent, NoneApart DEF Coherent, Undecided
<1> QED
  BY <1>2 DEF StageScale, Staged, SameTransaction

LEMMA StageRotationCoherent ==
  ASSUME NEW h, Coherent(h), h.staged = None, NEW r \in Rotations, NEW fresh \in BOOLEAN, NEW F
  PROVE  LET g == StageRotation(h, r, fresh, F)
         IN  Coherent(g) /\ Staged(h, g, "rotation") /\ g.queue = h.queue
<1> DEFINE g == [Install(h, "rotation", PrepareRotation(h, r), fresh) EXCEPT !.asked = TRUE]
           refused == [h EXCEPT !.reply = "err"]
<1>1. PrepareRotation(h, r) \in Geometries /\ h.mut = None
  BY GeometryOf DEF Coherent, Transacts
<1>2. Coherent(g) /\ Offers(h, g, "rotation") /\ g.queue = h.queue
  BY <1>1, InstallCoherent, NoneApart DEF Coherent, Undecided
<1>3. /\ Typed(refused) /\ refused.reply = "err" /\ refused.queue = h.queue
      /\ refused.staged = h.staged /\ refused.mut = h.mut /\ refused.asked = h.asked
      /\ refused.committed = h.committed /\ refused.claimed = h.claimed /\ refused.prepared = h.prepared
      /\ refused.retired = h.retired /\ refused.front = h.front /\ refused.opened = h.opened
  BY DEF Coherent, Typed, IsHost, Fields, OutputTypes, TransactionTypes
<1> HIDE DEF g, refused
<1>4. Coherent(refused) /\ Staged(h, refused, "rotation")
  BY <1>3 DEF Coherent, Pipelines, Undecided, Frames, InFlight, Transacts, Staged
<1> QED
  BY <1>2, <1>3, <1>4 DEF StageRotation, Staged, g, refused

LEMMA StageModeCoherent ==
  ASSUME NEW h, Coherent(h), h.staged = None, NEW m \in Modes, NEW fresh \in BOOLEAN, NEW F
  PROVE  LET g == StageMode(h, m, fresh, F)
         IN  Coherent(g) /\ Staged(h, g, "mode") /\ g.queue = h.queue
<1> DEFINE armed == Arm(h)
           geo == PrepareMode(h, m)
           offer == Install(armed, "mode", geo, fresh)
<1>1. h.mut = None /\ "mode" # None
  BY NoneApart DEF Coherent, Transacts
<1>2. CASE h.prepared = None
  <2>1. h.claimed = None \/ h.retired = None
    BY <1>1 DEF Coherent, Undecided
  <2>2. LET g == DiscardUnactivatedReclaim(h)
        IN  Coherent(g) /\ SameTransaction(h, g) /\ g.queue = h.queue
    BY <1>2, <2>1, DiscardUnactivatedCoherent DEF Coherent
  <2> QED
    BY <1>2, <2>2 DEF StageMode, Staged
<1>3. CASE h.prepared # None
  <2>1. /\ Typed(armed) /\ Pipelines(armed) /\ Transacts(armed) /\ SameTransaction(h, armed)
        /\ armed.queue = h.queue /\ armed.prepared = None
        /\ armed.front[armed.claimed.dev] = Idle
    BY <1>3, ArmCoherent
  <2>2. geo \in Geometries
    BY GeometryOf DEF Coherent
  <2>3. StageMode(h, m, fresh, F) = IF "prepare" \in F THEN DiscardUnactivatedReclaim(armed) ELSE offer
    BY <1>3 DEF StageMode
  <2> HIDE DEF armed, geo
  <2>4. LET g == DiscardUnactivatedReclaim(armed)
        IN  Coherent(g) /\ SameTransaction(armed, g) /\ g.queue = armed.queue
    BY <2>1, DiscardUnactivatedCoherent DEF SameTransaction
  <2>5. Coherent(offer) /\ Offers(armed, offer, "mode") /\ offer.queue = armed.queue
    BY <2>1, <2>2, InstallCoherent DEF SameTransaction
  <2> HIDE DEF offer
  <2> QED
    BY <2>1, <2>3, <2>4, <2>5 DEF SameTransaction, Staged, Offers
<1> QED
  BY <1>2, <1>3

LEMMA StageNextCoherent ==
  ASSUME NEW h, Coherent(h), inbox \in Seq(Commands), NEW fresh \in BOOLEAN, NEW F
  PROVE  LET g == StageNext(h, fresh, F)
             pending == h.queue \o inbox
         IN  /\ Coherent(g)
             /\ \/ g = h /\ (h.staged # None \/ pending = <<>>)
                \/ /\ h.staged = None /\ pending # <<>> /\ g.queue = Tail(pending)
                   /\ Staged(h, g, Head(pending).kind)
<1> DEFINE pending == h.queue \o inbox
           next == Head(pending)
           g == [h EXCEPT !.queue = Tail(pending)]
<1>1. inbox \in Seq(Mutations) /\ h.queue \in Seq(Mutations)
  BY DEF Mutations, Coherent, Typed, TransactionTypes
<1>2. pending \in Seq(Mutations)
  BY <1>1, SMTT(60)
<1>3. CASE h.staged # None \/ pending = <<>>
  BY <1>3 DEF StageNext
<1>4. CASE h.staged = None /\ pending # <<>>
  <2>1. next \in Mutations /\ Tail(pending) \in Seq(Mutations)
    BY <1>2, <1>4
  <2>2. StageNext(h, fresh, F) =
          CASE next.kind = "scale" -> StageScale(g, next.to, fresh, F)
            [] next.kind = "rotation" -> StageRotation(g, next.to, fresh, F)
            [] next.kind = "mode" -> StageMode(g, next.to, fresh, F)
    BY <1>4 DEF StageNext
  <2> HIDE DEF pending, next
  <2>3. /\ Typed(g) /\ SameTransaction(h, g) /\ SameClaim(h, g) /\ g.queue = Tail(pending)
        /\ g.opened = h.opened /\ g.prepared = h.prepared /\ g.retired = h.retired
    BY <2>1 DEF Coherent, Typed, IsHost, Fields, OutputTypes, TransactionTypes, SameTransaction, SameClaim
  <2> HIDE DEF g
  <2>4. Coherent(g) /\ g.staged = None
    BY <1>4, <2>3, LooseFields DEF SameTransaction
  <2>5. LET n == StageNext(h, fresh, F)
        IN  Coherent(n) /\ n.queue = g.queue /\ Staged(g, n, next.kind)
    <3>1. CASE next.kind = "scale"
      BY <2>1, <2>2, <2>4, <3>1, StageScaleCoherent, MutationKinds
    <3>2. CASE next.kind = "rotation"
      BY <2>1, <2>2, <2>4, <3>2, StageRotationCoherent, MutationKinds
    <3>3. CASE next.kind = "mode"
      BY <2>1, <2>2, <2>4, <3>3, StageModeCoherent, MutationKinds
    <3> QED
      BY <2>1, <3>1, <3>2, <3>3, MutationKinds
  <2> QED
    BY <1>4, <2>3, <2>5 DEF Staged, Offers, SameTransaction, pending, next
<1> QED
  BY <1>3, <1>4, SMTT(60)

-----------------------------------------------------------------------------
(* Methods that end a transaction *)

Ends(h, g, answer) ==
  /\ h.staged # None /\ g.staged = None /\ g.mut = None /\ g.asked = FALSE
  /\ g.reply = IF h.asked THEN answer ELSE h.reply

Commits(h, g)   == Ends(h, g, "ok") /\ g.committed = h.staged.geo
Withdraws(h, g) == Ends(h, g, "err") /\ g.committed = h.committed

LEMMA CommitCoherent ==
  ASSUME NEW h, Typed(h), Pipelines(h), Undecided(h), Transacts(h), h.staged # None
  PROVE  LET g == Commit(h)
         IN  Coherent(g) /\ Commits(h, g) /\ SameClaim(h, g) /\ g.queue = h.queue
<1> DEFINE mode == h.mut = "mode"
           a == [Answer(h, "ok") EXCEPT
                  !.staged = None, !.mut = None, !.ready = TRUE,
                  !.committed = h.staged.geo, !.window = h.staged.geo.size]
           p == IF mode /\ h.pub # None THEN [a EXCEPT !.owned = TRUE, !.window = h.pub.mode] ELSE a
           g == IF mode THEN [p EXCEPT !.pub = None, !.retired = None] ELSE p
<1>1. Commit(h) = g
  BY DEF Commit
<1>2. /\ h.staged.geo \in Geometries /\ h.staged.geo.size \in Modes
      /\ h.pub # None => h.pub.mode \in Modes
  BY NoneApart DEF Typed, TransactionTypes, Geometries
<1>3. /\ Typed(a) /\ Commits(h, a) /\ SameClaim(h, a) /\ a.queue = h.queue
      /\ a.opened = h.opened /\ a.prepared = h.prepared /\ a.retired = h.retired
  BY <1>2, ZenonT(60) DEF Typed, IsHost, Fields, OutputTypes, TransactionTypes, Answer, Commits, Ends, SameClaim
<1> HIDE DEF a
<1>4. /\ Typed(p) /\ Commits(h, p) /\ SameClaim(h, p) /\ p.queue = h.queue
      /\ p.opened = h.opened /\ p.prepared = h.prepared /\ p.retired = h.retired
  <2>1. CASE mode /\ h.pub # None
    <3> DEFINE q == [a EXCEPT !.owned = TRUE, !.window = h.pub.mode]
    <3>1. /\ Typed(q) /\ Commits(h, q) /\ SameClaim(h, q) /\ q.queue = h.queue
          /\ q.opened = h.opened /\ q.prepared = h.prepared /\ q.retired = h.retired
      BY <1>2, <1>3, <2>1, ZenonT(60) DEF Typed, IsHost, Fields, OutputTypes, TransactionTypes, Commits, Ends, SameClaim
    <3> QED
      BY <2>1, <3>1
  <2> QED
    BY <1>3, <2>1
<1> HIDE DEF p
<1>5. /\ Typed(g) /\ Commits(h, g) /\ SameClaim(h, g) /\ g.queue = h.queue
      /\ g.opened = h.opened /\ g.prepared = h.prepared
      /\ g.retired = h.retired \/ g.retired = None
      /\ mode => g.retired = None
  <2>1. CASE mode
    <3> DEFINE q == [p EXCEPT !.pub = None, !.retired = None]
    <3>1. /\ Typed(q) /\ Commits(h, q) /\ SameClaim(h, q) /\ q.queue = h.queue
          /\ q.opened = h.opened /\ q.prepared = h.prepared /\ q.retired = None
      BY <1>4, ZenonT(60) DEF Typed, IsHost, Fields, OutputTypes, TransactionTypes, Commits, Ends, SameClaim
    <3> QED
      BY <2>1, <3>1
  <2> QED
    BY <1>4, <2>1
<1> HIDE DEF g
<1>6. Pipelines(g) /\ Undecided(g) /\ Frames(g) /\ Transacts(g)
  BY <1>5, NoneApart DEF Pipelines, Undecided, Frames, InFlight, Transacts, Commits, Ends, SameClaim
<1> QED
  BY <1>1, <1>5, <1>6 DEF Coherent

\* What a method that discards the transaction may leave as the output.
Leaves(h, g) ==
  g.claimed \in {None, h.claimed} \cup (IF h.retired = None THEN {} ELSE {h.retired.out})

LEMMA DiscardResolvedCoherent ==
  ASSUME NEW h, Coherent(h), InFlight(h) => h.claimed = None
  PROVE  LET g == DiscardResolved(h)
         IN  /\ Coherent(g) /\ g.queue = h.queue /\ Leaves(h, g)
             /\ h.staged # None => Withdraws(h, g)
             /\ h.staged = None => SameTransaction(h, g)
<1> DEFINE a == [Answer(h, "err") EXCEPT !.staged = None, !.mut = None, !.ready = TRUE]
<1>1. DiscardResolved(h) = IF h.mut = "mode" THEN DiscardUnactivatedReclaim(a) ELSE a
  BY DEF DiscardResolved
<1>2. /\ Typed(a) /\ SameClaim(h, a) /\ a.queue = h.queue
      /\ a.opened = h.opened /\ a.prepared = h.prepared /\ a.retired = h.retired
      /\ a.staged = None /\ a.mut = None /\ a.asked = FALSE /\ a.committed = h.committed
      /\ a.reply = IF h.asked THEN "err" ELSE h.reply
  BY ZenonT(60) DEF Coherent, Typed, IsHost, Fields, OutputTypes, TransactionTypes, Answer, SameClaim
<1> HIDE DEF a
<1>3. /\ h.staged # None => Withdraws(h, a)
      /\ h.staged = None => SameTransaction(h, a)
  BY <1>2, NoneApart DEF Coherent, Transacts, Typed, TransactionTypes, Withdraws, Ends, SameTransaction
<1>4. Pipelines(a) /\ Frames(a) /\ Transacts(a) /\ (a.prepared # None => a.claimed = None)
  BY <1>2, NoneApart DEF Coherent, Pipelines, Undecided, Frames, InFlight, Transacts, SameClaim
<1>5. CASE h.mut = "mode"
  <2>1. a.claimed = None \/ a.front[a.claimed.dev] = Idle
    BY <1>2, <1>5 DEF Coherent, Frames, SameClaim
  <2>2. LET g == DiscardUnactivatedReclaim(a)
        IN  /\ Coherent(g) /\ SameTransaction(a, g) /\ g.queue = a.queue
            /\ g.claimed \in {None, a.claimed} \cup (IF a.retired = None THEN {} ELSE {a.retired.out})
    BY <1>2, <1>4, <2>1, DiscardUnactivatedCoherent
  <2> QED
    BY <1>1, <1>2, <1>3, <1>5, <2>2 DEF Leaves, SameClaim, SameTransaction, Withdraws, Ends
<1>6. CASE h.mut # "mode"
  <2>1. Undecided(a)
    BY <1>2, <1>6 DEF Coherent, Undecided, SameClaim
  <2> QED
    BY <1>1, <1>2, <1>3, <1>4, <1>6, <2>1 DEF Coherent, Leaves, SameClaim
<1> QED
  BY <1>5, <1>6

LEMMA DiscardStagedCoherent ==
  ASSUME NEW h, Coherent(h)
  PROVE  LET g == DiscardStaged(h)
         IN  /\ Coherent(g) /\ g.queue = h.queue /\ Leaves(h, g)
             /\ InFlight(h) => g = h
             /\ ~InFlight(h) /\ h.staged # None => Withdraws(h, g)
             /\ h.staged = None => SameTransaction(h, g)
BY DiscardResolvedCoherent DEF DiscardStaged, Leaves, InFlight

\* Device d is closed; a frame that was in flight on it is given up.
LEMMA ResolveLostFlipCoherent ==
  ASSUME NEW h, Coherent(h), NEW d \in Devices,
         h.claimed # None => h.claimed.dev # d,
         h.retired # None => h.retired.out.dev # d
  PROVE  LET g == ResolveLostFlip(h, d)
         IN  /\ Coherent(g) /\ g.queue = h.queue
             /\ g.front[d] = None
             /\ \/ g = h /\ (InFlight(h) => h.staged.dev # d)
                \/ Withdraws(h, g) /\ InFlight(h) /\ h.staged.dev = d
<1>1. CASE InFlight(h) /\ h.staged.dev = d
  <2>1. h.claimed = None
    BY <1>1 DEF Coherent, Frames
  <2>2. LET g == DiscardResolved(h)
        IN  Coherent(g) /\ g.queue = h.queue /\ Leaves(h, g) /\ Withdraws(h, g)
    BY <1>1, <2>1, DiscardResolvedCoherent DEF InFlight
  <2>3. DiscardResolved(h).front[d] = None
    BY <2>1, <2>2 DEF Leaves, Coherent, Pipelines
  <2> QED
    BY <1>1, <2>2, <2>3 DEF ResolveLostFlip
<1>2. CASE ~(InFlight(h) /\ h.staged.dev = d)
  BY <1>2 DEF ResolveLostFlip, Coherent, Pipelines
<1> QED
  BY <1>1, <1>2

-----------------------------------------------------------------------------
(* Methods that draw *)

\* The offer is the one it was; clients may have changed its material.
SameOffer(h, g) ==
  /\ g.staged = None <=> h.staged = None
  /\ h.staged # None => /\ g.staged.geo = h.staged.geo
                        /\ g.staged.flip = h.staged.flip /\ g.staged.dev = h.staged.dev
  /\ g.mut = h.mut /\ g.asked = h.asked /\ g.reply = h.reply /\ g.committed = h.committed

\* The first frame of the offer is queued on the output that is presented.
FirstFrame(h, g) ==
  /\ h.staged # None /\ ~InFlight(h) /\ InFlight(g) /\ g.staged.geo = h.staged.geo
  /\ g.mut = h.mut /\ g.asked = h.asked /\ g.reply = h.reply /\ g.committed = h.committed

LEMMA StagedChanges ==
  ASSUME NEW h, Coherent(h), h.staged # None, NEW t \in Transactions,
         t.geo = h.staged.geo, t.flip = h.staged.flip, t.dev = h.staged.dev, NEW ready \in BOOLEAN
  PROVE  LET g == [h EXCEPT !.staged = t, !.ready = ready]
         IN  Coherent(g) /\ SameOffer(h, g) /\ SameClaim(h, g) /\ g.queue = h.queue
<1> DEFINE g == [h EXCEPT !.staged = t, !.ready = ready]
<1>1. /\ Typed(g) /\ SameClaim(h, g) /\ g.queue = h.queue /\ g.staged = t
      /\ g.opened = h.opened /\ g.prepared = h.prepared /\ g.retired = h.retired
      /\ g.mut = h.mut /\ g.asked = h.asked /\ g.reply = h.reply /\ g.committed = h.committed
  BY ZenonT(60) DEF Coherent, Typed, IsHost, Fields, OutputTypes, TransactionTypes, SameClaim
<1> HIDE DEF g
<1>2. t # None
  BY NoneApart
<1>3. Coherent(g) /\ SameOffer(h, g)
  BY <1>1, <1>2 DEF Coherent, SameClaim, Pipelines, Undecided, Frames, InFlight, Transacts, SameOffer
<1> QED
  BY <1>1, <1>3 DEF g

LEMMA PinCoherent ==
  ASSUME NEW h, Coherent(h)
  PROVE  LET g == Pin(h)
         IN  Coherent(g) /\ SameOffer(h, g) /\ SameClaim(h, g) /\ g.queue = h.queue
<1> DEFINE t == [h.staged EXCEPT !.pin = "pinned"]
           g == [h EXCEPT !.staged = t, !.ready = h.ready]
<1>1. CASE ~(h.staged # None /\ h.staged.pin = "unset")
  BY <1>1 DEF Pin, SameOffer, SameClaim
<1>2. CASE h.staged # None /\ h.staged.pin = "unset"
  <2>1. Pin(h) = g
    BY <1>2 DEF Pin, Coherent, Typed, IsHost, Fields
  <2>2. h.staged \in Transactions /\ h.ready \in BOOLEAN
    BY <1>2 DEF Coherent, Typed, TransactionTypes
  <2>3. t \in Transactions /\ t.geo = h.staged.geo /\ t.flip = h.staged.flip /\ t.dev = h.staged.dev
    BY <2>2 DEF Transactions
  <2> HIDE DEF t
  <2>4. Coherent(g) /\ SameOffer(h, g) /\ SameClaim(h, g) /\ g.queue = h.queue
    BY <1>2, <2>2, <2>3, StagedChanges
  <2> QED
    BY <2>1, <2>4
<1> QED
  BY <1>1, <1>2

LEMMA FreshToken ==
  ASSUME NEW h, Coherent(h), h.claimed # None, h.front[h.claimed.dev] = Idle
  PROVE  Fresh(h) \in Tokens
<1> DEFINE s == IF h.retired = None THEN Idle ELSE h.retired.flip
           t == IF h.staged = None THEN Idle ELSE h.staged.flip
<1>1. s \in Tokens \cup {Idle} /\ t \in Tokens \cup {Idle}
  <2>1. h.staged # None => h.staged.flip \in Tokens \cup {Idle}
    BY DEF Coherent, Typed, TransactionTypes, Transactions
  <2>2. h.retired # None => h.retired.flip \in Tokens \cup {Idle}
    BY DEF Coherent, Typed, OutputTypes, Retirees
  <2> QED
    BY <2>1, <2>2
<1> HIDE DEF s, t
<1>2. PICK other \in Tokens : other \notin {s, t}
  BY <1>1, TokensAssumption
<1>3. \A d \in Devices : h.front[d] \in {Idle, None}
  BY DEF Coherent, Pipelines
<1>4. \A d \in Devices : other \notin Flight(h, d)
  BY <1>2, <1>3, NoneApart DEF Flight, s, t
<1>5. h.staged # None => other # h.staged.flip
  BY <1>2 DEF t
<1> QED
  BY <1>2, <1>4, <1>5 DEF Fresh

LEMMA QueueResults ==
  ASSUME NEW h, Coherent(h), NEW F
  PROVE  LET r == QueueResult(h, F)
         IN  /\ r \in {"transaction", "none", "reclaimable", "fatal", "queued"}
             /\ r \in {"reclaimable", "fatal", "queued"} =>
                  h.claimed # None /\ h.front[h.claimed.dev] = Idle /\ ~InFlight(h)
<1>1. h.claimed # None /\ h.front[h.claimed.dev] = Idle => ~InFlight(h)
  BY DEF Coherent, Frames, InFlight
<1> QED
  BY <1>1 DEF QueueResult

LEMMA QueueFrameCoherent ==
  ASSUME NEW h, Coherent(h), h.claimed # None, h.front[h.claimed.dev] = Idle
  PROVE  LET g == QueueFrame(h)
         IN  /\ Coherent(g) /\ g.claimed = h.claimed /\ g.queue = h.queue
             /\ h.staged = None => SameOffer(h, g)
             /\ h.staged # None => FirstFrame(h, g)
<1> DEFINE d == h.claimed.dev
           f == [h EXCEPT !.front[d] = Fresh(h)]
           t == [h.staged EXCEPT !.flip = Fresh(h), !.dev = d]
           g == [f EXCEPT !.staged = t]
<1>1. QueueFrame(h) = IF h.staged = None THEN f ELSE g
  BY DEF QueueFrame, Coherent, Typed, IsHost, Fields
<1>2. d \in Devices /\ Fresh(h) \in Tokens /\ Fresh(h) # Idle /\ Fresh(h) # None
  BY FreshToken, NoneApart DEF Coherent, Typed, OutputTypes
<1>3. h.front[d] # None /\ ~InFlight(h)
  BY <1>2 DEF Coherent, Pipelines, Frames, InFlight
<1> HIDE DEF d
<1>4. /\ Typed(f) /\ f.claimed = h.claimed /\ f.queue = h.queue
      /\ f.opened = h.opened /\ f.prepared = h.prepared /\ f.retired = h.retired
      /\ f.front = [h.front EXCEPT ![d] = Fresh(h)] /\ SameTransaction(h, f)
  BY <1>2 DEF Coherent, Typed, IsHost, Fields, OutputTypes, TransactionTypes, SameTransaction
<1> HIDE DEF f
<1>5. Pipelines(f)
  BY <1>2, <1>3, <1>4 DEF Coherent, Typed, OutputTypes, Pipelines
<1>6. CASE h.staged = None
  <2>1. Undecided(f) /\ Frames(f) /\ Transacts(f) /\ SameOffer(h, f)
    BY <1>4, <1>6, NoneApart DEF Coherent, Undecided, Frames, InFlight, Transacts, SameTransaction, SameOffer
  <2> QED
    BY <1>1, <1>4, <1>5, <1>6, <2>1 DEF Coherent
<1>7. CASE h.staged # None
  <2>1. h.staged \in Transactions
    BY <1>7 DEF Coherent, Typed, TransactionTypes
  <2>2. t \in Transactions /\ t.geo = h.staged.geo /\ t.flip = Fresh(h) /\ t.dev = d /\ t # None
    BY <1>2, <2>1, NoneApart DEF Transactions
  <2> HIDE DEF t
  <2>3. /\ Typed(g) /\ g.staged = t /\ g.claimed = h.claimed /\ g.queue = h.queue
        /\ g.opened = f.opened /\ g.prepared = h.prepared /\ g.retired = h.retired
        /\ g.front = f.front
        /\ g.mut = h.mut /\ g.asked = h.asked /\ g.reply = h.reply /\ g.committed = h.committed
    BY <1>4, <2>2 DEF Typed, IsHost, Fields, OutputTypes, TransactionTypes, SameTransaction
  <2> HIDE DEF g
  <2>4. Pipelines(g)
    BY <1>4, <1>5, <2>3 DEF Pipelines
  <2>5. d = h.claimed.dev
    BY DEF d
  <2>6. g.front[d] = Fresh(h)
    BY <1>2, <1>4, <2>3 DEF Coherent, Typed, OutputTypes
  <2>7. Undecided(g) /\ Frames(g) /\ Transacts(g) /\ FirstFrame(h, g)
    BY <1>2, <1>3, <1>7, <2>2, <2>3, <2>5, <2>6
    DEF Coherent, Undecided, Frames, InFlight, Transacts, FirstFrame
  <2> QED
    BY <1>1, <1>7, <2>3, <2>4, <2>7 DEF Coherent
<1> QED
  BY <1>6, <1>7

LEMMA QueuePinnedCoherent ==
  ASSUME NEW h, Coherent(h), NEW F
  PROVE  LET q == QueuePinned(h, F)
         IN  /\ Coherent(q) /\ q.claimed = h.claimed /\ q.queue = h.queue
             /\ QueueResult(h, F) # "queued" => SameOffer(h, q) /\ SameClaim(h, q)
             /\ QueueResult(h, F) = "queued" => SameOffer(h, q) \/ FirstFrame(h, q)
<1>1. Coherent(Pin(h)) /\ SameOffer(h, Pin(h)) /\ SameClaim(h, Pin(h)) /\ Pin(h).queue = h.queue
  BY PinCoherent
<1>2. CASE QueueResult(h, F) # "queued"
  BY <1>1, <1>2 DEF QueuePinned, SameClaim
<1>3. CASE QueueResult(h, F) = "queued"
  <2>1. h.claimed # None /\ h.front[h.claimed.dev] = Idle /\ ~InFlight(h)
    BY <1>3, QueueResults
  <2>2. LET q == QueueFrame(Pin(h))
        IN  /\ Coherent(q) /\ q.claimed = h.claimed /\ q.queue = h.queue
            /\ Pin(h).staged = None => SameOffer(Pin(h), q)
            /\ Pin(h).staged # None => FirstFrame(Pin(h), q)
    BY <1>1, <2>1, QueueFrameCoherent DEF SameClaim
  <2>3. SameOffer(h, QueueFrame(Pin(h))) \/ FirstFrame(h, QueueFrame(Pin(h)))
    BY <1>1, <2>1, <2>2 DEF SameOffer, FirstFrame, InFlight
  <2> QED
    BY <1>3, <2>2, <2>3 DEF QueuePinned
<1> QED
  BY <1>2, <1>3

\* A frame in flight belongs to the output that is presented.
Anchored(h) == InFlight(h) => h.claimed # None

\* What drawing does to the transaction.
Draws(h, g) ==
  \/ SameOffer(h, g) \/ FirstFrame(h, g)
  \/ ~InFlight(h) /\ Withdraws(h, g)

LEMMA PresentCoherent ==
  ASSUME NEW h, Coherent(h), conn \in Monitors, NEW F
  PROVE  LET p == Present(h, F)
         IN  Coherent(p) /\ Draws(h, p) /\ QueueGrows(h, p) /\ (Anchored(h) => Anchored(p))
<1> DEFINE q == QueuePinned(h, F)
           g == DiscardStaged(q)
           r == QueueResult(h, F)
           lost == MarkClaimLost(g)
<1>1. /\ Coherent(q) /\ q.claimed = h.claimed /\ q.queue = h.queue
      /\ r # "queued" => SameOffer(h, q) /\ SameClaim(h, q)
      /\ r = "queued" => SameOffer(h, q) \/ FirstFrame(h, q)
  BY QueuePinnedCoherent
<1>2. /\ r \in {"transaction", "none", "reclaimable", "fatal", "queued"}
      /\ r \in {"reclaimable", "fatal", "queued"} =>
           h.claimed # None /\ h.front[h.claimed.dev] = Idle /\ ~InFlight(h)
  BY QueueResults
<1>3. /\ r \in {"none", "queued"} => Present(h, F) = q
      /\ r = "transaction" => Present(h, F) = g
      /\ r = "reclaimable" => Present(h, F) = IF RestoredPrevious(q, g) THEN g ELSE Reclaim(lost, conn, F)
      /\ r = "fatal" => Present(h, F) = MarkReclaimPending(lost)
  BY DEF Present, MarkLostForRecovery
<1> HIDE DEF r, q
<1>4. /\ Coherent(g) /\ g.queue = q.queue
      /\ InFlight(q) => g = q
      /\ ~InFlight(q) /\ q.staged # None => Withdraws(q, g)
      /\ q.staged = None => SameTransaction(q, g)
  BY <1>1, DiscardStagedCoherent
<1> HIDE DEF g
<1>5. ASSUME r # "queued"
      PROVE  Draws(h, g) /\ (InFlight(h) => g = q) /\ (~InFlight(h) => g.staged = None /\ g.mut = None)
  <2>1. SameOffer(h, q) /\ (InFlight(q) <=> InFlight(h))
    BY <1>1, <1>5 DEF SameOffer, InFlight
  <2>2. CASE InFlight(q)
    BY <1>4, <2>1, <2>2 DEF Draws
  <2>3. CASE ~InFlight(q) /\ q.staged # None
    <3>1. Withdraws(h, g)
      BY <1>4, <2>1, <2>3 DEF Withdraws, Ends, SameOffer
    <3> QED
      BY <2>1, <2>3, <3>1 DEF Draws, Withdraws, Ends
  <2>4. CASE q.staged = None
    <3>1. SameOffer(h, g) /\ g.staged = None
      BY <1>4, <2>1, <2>4 DEF SameOffer, SameTransaction
    <3> QED
      BY <1>4, <2>1, <2>4, <3>1 DEF Draws, Coherent, Transacts, InFlight
  <2> QED
    BY <2>2, <2>3, <2>4
<1>6. CASE r \in {"none", "queued"}
  <2>1. Draws(h, q)
    BY <1>1, <1>6 DEF Draws
  <2>2. Anchored(h) => Anchored(q)
    BY <1>1, <1>2, <1>6 DEF Anchored, SameOffer, InFlight
  <2> QED
    BY <1>1, <1>3, <1>6, <2>1, <2>2 DEF QueueGrows
<1>7. CASE r = "transaction"
  <2>1. Anchored(h) => Anchored(g)
    BY <1>1, <1>5, <1>7 DEF Anchored, InFlight
  <2> QED
    BY <1>1, <1>3, <1>4, <1>5, <1>7, <2>1 DEF QueueGrows
<1>8. CASE r \in {"reclaimable", "fatal"}
  <2>1. g.staged = None /\ g.mut = None /\ Draws(h, g)
    BY <1>2, <1>5, <1>8
  <2>2. g.claimed = None \/ g.retired = None
    BY <1>4, <2>1, NoneApart DEF Coherent, Undecided
  <2>3. /\ Coherent(lost) /\ SameTransaction(g, lost) /\ lost.queue = g.queue /\ lost.claimed = None
    BY <1>4, <2>2, MarkClaimLostCoherent
  <2> HIDE DEF lost
  <2>4. LET x == MarkReclaimPending(lost)
        IN  Coherent(x) /\ SameTransaction(lost, x) /\ x.queue = lost.queue
    BY <2>3, MarkReclaimPendingCoherent
  <2>5. LET x == Reclaim(lost, conn, F)
        IN  Coherent(x) /\ SameTransaction(lost, x) /\ QueueGrows(lost, x)
    BY <2>3, ReclaimCoherent
  <2>6. ASSUME NEW x, SameTransaction(g, x) PROVE Draws(h, x) /\ Anchored(x)
    BY <2>1, <2>6 DEF SameTransaction, Draws, SameOffer, FirstFrame, Withdraws, Ends, Anchored, InFlight
  <2>7. /\ Present(h, F) \in {g, Reclaim(lost, conn, F), MarkReclaimPending(lost)}
    BY <1>3, <1>8
  <2>8. SameTransaction(g, Present(h, F)) /\ Coherent(Present(h, F)) /\ QueueGrows(h, Present(h, F))
    BY <1>1, <1>4, <2>3, <2>4, <2>5, <2>7 DEF SameTransaction, QueueGrows
  <2> QED
    BY <2>6, <2>8
<1> QED
  BY <1>2, <1>6, <1>7, <1>8

-----------------------------------------------------------------------------
(* What the callbacks are made of *)

\* The frame that completes commits the transaction it was drawn for.
LEMMA CompleteCoherent ==
  ASSUME NEW h, Coherent(h), NEW d \in Devices, h.claimed # None, h.claimed.dev = d
  PROVE  LET g == Complete(h, d)
         IN  /\ Coherent(g) /\ g.queue = h.queue /\ g.claimed = h.claimed
             /\ \/ InFlight(h) /\ Commits(h, g)
                \/ ~InFlight(h) /\ SameTransaction(h, g)
<1> DEFINE done == [h EXCEPT !.front[d] = Idle, !.events = @ \ {d}]
<1>1. InFlight(h) => h.staged.flip = h.front[d]
  BY DEF Coherent, Frames
<1>2. Complete(h, d) = IF InFlight(h) THEN Commit(done) ELSE done
  BY <1>1 DEF Complete
<1>3. /\ Typed(done) /\ SameTransaction(h, done) /\ done.queue = h.queue /\ done.claimed = h.claimed
      /\ done.front = [h.front EXCEPT ![d] = Idle]
      /\ done.opened = h.opened /\ done.prepared = h.prepared /\ done.retired = h.retired
  BY DEF Coherent, Typed, IsHost, Fields, OutputTypes, TransactionTypes, SameTransaction
<1> HIDE DEF done
<1>4. Pipelines(done) /\ Undecided(done) /\ Transacts(done) /\ done.front[d] = Idle
  BY <1>3, NoneApart DEF Coherent, Typed, OutputTypes, SameTransaction, Pipelines, Undecided, Transacts
<1>5. CASE InFlight(h)
  <2>1. done.staged # None
    BY <1>3, <1>5 DEF SameTransaction, InFlight
  <2>2. LET g == Commit(done)
        IN  Coherent(g) /\ Commits(done, g) /\ SameClaim(done, g) /\ g.queue = done.queue
    BY <1>3, <1>4, <2>1, CommitCoherent
  <2> QED
    BY <1>2, <1>3, <1>5, <2>2 DEF Commits, Ends, SameTransaction, SameClaim
<1>6. CASE ~InFlight(h)
  <2>1. Frames(done)
    BY <1>3, <1>4, <1>6 DEF Frames, InFlight, SameTransaction
  <2> QED
    BY <1>2, <1>3, <1>4, <1>6, <2>1 DEF Coherent
<1> QED
  BY <1>5, <1>6

\* Losing the presentation device withdraws the transaction only if no
\* frame of it is in flight, or when the pipeline it was queued on is gone.
LEMMA EventFailureCoherent ==
  ASSUME NEW h, Coherent(h), NEW d \in Devices, h.claimed # None => h.claimed.dev = d, NEW F
  PROVE  LET g == ReclaimableEventFailure(h, d, F)
         IN  /\ Coherent(g) /\ g.queue = h.queue /\ (Anchored(h) => Anchored(g))
             /\ \/ SameTransaction(h, g)
                \/ Withdraws(h, g) /\ (InFlight(h) => g.front[h.staged.dev] = None)
<1> DEFINE pending == (InFlight(h) /\ h.staged.dev = d) \/ h.front[d] \in Tokens
           closed == CloseDevice(h, d)
           reset == IF d \in h.detected THEN OpenDevice(closed, d, F) ELSE closed
           lost == ResolveLostFlip(reset, d)
           g == IF h.staged = None THEN h ELSE DiscardStaged(h)
           after == IF pending
                    THEN IF NeedsReclaim(lost) THEN MarkReclaimPending(lost) ELSE lost
                    ELSE IF RestoredPrevious(h, g) THEN g ELSE MarkClaimLost(g)
           final == [after EXCEPT !.source = None]
<1>1. ReclaimableEventFailure(h, d, F) = final
  BY DEF ReclaimableEventFailure
<1>2. /\ Coherent(closed) /\ SameTransaction(h, closed) /\ closed.queue = h.queue
      /\ closed.claimed = None \/ (closed.claimed = h.claimed /\ closed.claimed.dev # d)
      /\ closed.retired # None => closed.retired.out.dev # d
  BY CloseDeviceCoherent
<1> HIDE DEF closed
<1>3. /\ Coherent(reset) /\ SameTransaction(h, reset) /\ reset.queue = h.queue
      /\ reset.claimed # None => reset.claimed.dev # d
      /\ reset.retired # None => reset.retired.out.dev # d
  BY <1>2, OpenDeviceCoherent DEF SameTransaction, SameClaim
<1> HIDE DEF reset
<1>4. /\ Coherent(lost) /\ lost.queue = reset.queue /\ lost.front[d] = None
      /\ \/ lost = reset /\ (InFlight(reset) => reset.staged.dev # d)
         \/ Withdraws(reset, lost) /\ InFlight(reset) /\ reset.staged.dev = d
  BY <1>3, ResolveLostFlipCoherent
<1> HIDE DEF lost
<1>5. ASSUME Anchored(h), InFlight(h) PROVE h.staged.dev = d
  BY <1>5 DEF Anchored, Coherent, Frames
<1>6. CASE pending
  <2>1. /\ Coherent(after) /\ after.queue = h.queue /\ after.front = lost.front /\ SameTransaction(lost, after)
    BY <1>3, <1>4, <1>6, MarkReclaimPendingCoherent DEF SameClaim, SameTransaction
  <2> HIDE DEF after
  <2>2. /\ Coherent(final) /\ final.queue = h.queue /\ final.front = lost.front /\ SameTransaction(lost, final)
    BY <2>1, SourceCoherent DEF SameClaim, SameTransaction
  <2> HIDE DEF final
  <2>3. CASE lost = reset /\ (InFlight(reset) => reset.staged.dev # d)
    <3>1. SameTransaction(h, final) /\ (Anchored(h) => Anchored(final))
      BY <1>3, <1>5, <2>2, <2>3 DEF SameTransaction, Anchored, InFlight
    <3> QED
      BY <1>1, <2>2, <3>1
  <2>4. CASE Withdraws(reset, lost) /\ InFlight(reset) /\ reset.staged.dev = d
    <3>1. Withdraws(h, final) /\ h.staged.dev = d /\ Anchored(final)
      BY <1>3, <2>2, <2>4 DEF Withdraws, Ends, SameTransaction, Anchored, InFlight
    <3> QED
      BY <1>1, <1>4, <2>2, <3>1
  <2> QED
    BY <1>4, <2>3, <2>4
<1>7. CASE ~pending
  <2>1. InFlight(h) => h.claimed = None
    BY <1>7 DEF Coherent, Frames
  <2>2. /\ Coherent(g) /\ g.queue = h.queue
        /\ InFlight(h) => g = h
        /\ ~InFlight(h) => Withdraws(h, g) \/ SameTransaction(h, g)
    BY DiscardStagedCoherent DEF SameTransaction
  <2> HIDE DEF g
  <2>3. /\ Coherent(after) /\ after.queue = h.queue /\ SameTransaction(g, after)
    BY <1>7, <2>2, MarkClaimLostCoherent DEF SameTransaction
  <2> HIDE DEF after
  <2>4. /\ Coherent(final) /\ final.queue = h.queue /\ SameTransaction(g, final)
    BY <2>3, SourceCoherent DEF SameTransaction
  <2> HIDE DEF final
  <2>5. SameTransaction(h, final) \/ (~InFlight(h) /\ Withdraws(h, final))
    BY <2>2, <2>4 DEF SameTransaction, Withdraws, Ends
  <2>6. Anchored(h) => Anchored(final)
    BY <2>1, <2>5 DEF Anchored, SameTransaction, Withdraws, Ends, InFlight
  <2> QED
    BY <1>1, <2>4, <2>5, <2>6
<1> QED
  BY <1>6, <1>7

LEMMA QueueNextCoherent ==
  ASSUME NEW h, Coherent(h), NEW d \in Devices, h.claimed # None => h.claimed.dev = d, NEW F
  PROVE  LET g == QueueNext(h, d, F)
         IN  Coherent(g) /\ Draws(h, g) /\ g.queue = h.queue /\ (Anchored(h) => Anchored(g))
<1> DEFINE q == QueuePinned(h, F)
           r == QueueResult(h, F)
           discarded == DiscardStaged(q)
           failed == ReclaimableEventFailure(q, d, F)
           claimLost == MarkClaimLost(q)
           marked == MarkReclaimPending(claimLost)
           lost == [marked EXCEPT !.source = None]
<1>1. /\ Coherent(q) /\ q.claimed = h.claimed /\ q.queue = h.queue
      /\ r # "queued" => SameOffer(h, q) /\ SameClaim(h, q)
      /\ r = "queued" => SameOffer(h, q) \/ FirstFrame(h, q)
  BY QueuePinnedCoherent
<1>2. /\ r \in {"transaction", "none", "reclaimable", "fatal", "queued"}
      /\ r \in {"reclaimable", "fatal", "queued"} =>
           h.claimed # None /\ h.front[h.claimed.dev] = Idle /\ ~InFlight(h)
  BY QueueResults
<1>3. /\ r \in {"none", "queued"} => QueueNext(h, d, F) = q
      /\ r = "transaction" => QueueNext(h, d, F) = discarded
      /\ r = "reclaimable" => QueueNext(h, d, F) = failed
      /\ r = "fatal" => QueueNext(h, d, F) = lost
  BY DEF QueueNext, MarkLostForRecovery
<1> HIDE DEF r, q
<1>4. CASE r \in {"none", "queued"}
  <2>1. Draws(h, q) /\ (Anchored(h) => Anchored(q))
    BY <1>1, <1>2, <1>4 DEF Draws, Anchored, SameOffer, InFlight
  <2> QED
    BY <1>1, <1>3, <1>4, <2>1
<1>5. ASSUME r # "queued", NEW g, SameTransaction(q, g) \/ (~InFlight(q) /\ Withdraws(q, g))
      PROVE  Draws(h, g) /\ (InFlight(g) => InFlight(q))
  BY <1>1, <1>5, NoneApart DEF SameOffer, SameTransaction, Draws, Withdraws, Ends, InFlight
<1>6. CASE r = "transaction"
  <2>1. /\ Coherent(discarded) /\ discarded.queue = q.queue
        /\ InFlight(q) => discarded = q
        /\ ~InFlight(q) => SameTransaction(q, discarded) \/ Withdraws(q, discarded)
    BY <1>1, DiscardStagedCoherent
  <2> HIDE DEF discarded
  <2>2. SameTransaction(q, discarded) \/ (~InFlight(q) /\ Withdraws(q, discarded))
    BY <2>1 DEF SameTransaction
  <2>3. Anchored(h) => Anchored(discarded)
    BY <1>1, <1>6, <2>1, <2>2 DEF Anchored, SameOffer, InFlight, SameTransaction, Withdraws, Ends
  <2> QED
    BY <1>1, <1>3, <1>5, <1>6, <2>1, <2>2, <2>3
<1>7. CASE r = "reclaimable"
  <2>1. ~InFlight(q)
    BY <1>1, <1>2, <1>7 DEF SameOffer, InFlight
  <2>2. /\ Coherent(failed) /\ failed.queue = q.queue
        /\ SameTransaction(q, failed) \/ Withdraws(q, failed)
    BY <1>1, EventFailureCoherent
  <2> HIDE DEF failed
  <2> QED
    BY <1>1, <1>3, <1>5, <1>7, <2>1, <2>2 DEF Anchored
<1>8. CASE r = "fatal"
  <2>1. ~InFlight(q)
    BY <1>1, <1>2, <1>8 DEF SameOffer, InFlight
  <2>2. Coherent(claimLost) /\ SameTransaction(q, claimLost) /\ claimLost.queue = q.queue
    BY <1>1, MarkClaimLostCoherent
  <2> HIDE DEF claimLost
  <2>3. Coherent(marked) /\ SameTransaction(claimLost, marked) /\ marked.queue = claimLost.queue
    BY <2>2, MarkReclaimPendingCoherent
  <2> HIDE DEF marked
  <2>4. Coherent(lost) /\ SameTransaction(marked, lost) /\ lost.queue = marked.queue
    BY <2>3, SourceCoherent
  <2> HIDE DEF lost
  <2>5. SameTransaction(q, lost)
    BY <2>2, <2>3, <2>4 DEF SameTransaction
  <2> QED
    BY <1>1, <1>3, <1>5, <1>8, <2>1, <2>2, <2>3, <2>4, <2>5 DEF Anchored
<1> QED
  BY <1>2, <1>4, <1>6, <1>7, <1>8

LEMMA UdevTailCoherent ==
  ASSUME NEW h, Coherent(h), NEW monitors \in Monitors, NEW F
  PROVE  LET g == UdevTail(h, monitors, F)
         IN  Coherent(g) /\ SameTransaction(h, g) /\ SameClaim(h, g) /\ QueueGrows(h, g)
BY ReclaimCoherent, MarkReclaimPendingCoherent DEF UdevTail, SameTransaction, SameClaim, QueueGrows

-----------------------------------------------------------------------------
(* The request for a rotation and its answer *)

Turning(s) == \E i \in DOMAIN s : s[i].kind = "rotation"
Single(s) ==
  \A i, j \in DOMAIN s : s[i].kind = "rotation" /\ s[j].kind = "rotation" => i = j

\* The control server asks for one rotation at a time: the request waits in
\* the channel or in the queue, then the transaction owes it an answer, then
\* the answer waits to be read; it is never in two places.
Requests(h, channel, waits) ==
  /\ Single(h.queue) /\ Single(channel) /\ ~(Turning(h.queue) /\ Turning(channel))
  /\ Turning(h.queue) \/ Turning(channel) => waits /\ ~h.asked /\ h.reply = None
  /\ h.asked => waits /\ h.reply = None
  /\ h.reply # None => waits

\* Only the end of a transaction answers the one who asked for it.
Settles(h, g) ==
  \/ g.asked = h.asked /\ g.reply = h.reply
  \/ g.asked = FALSE /\ IF h.asked THEN g.reply \in {"ok", "err"} ELSE g.reply = h.reply

LEMMA TurnsOfAppend ==
  ASSUME NEW S, NEW s \in Seq(S), NEW x \in S
  PROVE  /\ Turning(Append(s, x)) <=> Turning(s) \/ x.kind = "rotation"
         /\ Single(s) /\ (x.kind = "rotation" => ~Turning(s)) => Single(Append(s, x))
<1>1. /\ Len(Append(s, x)) = Len(s) + 1 /\ Append(s, x)[Len(s) + 1] = x
      /\ \A i \in 1 .. Len(s) : Append(s, x)[i] = s[i]
      /\ DOMAIN s = 1 .. Len(s) /\ DOMAIN Append(s, x) = 1 .. Len(s) + 1 /\ Len(s) \in Nat
  OBVIOUS
<1> DEFINE a == Append(s, x)
<1> HIDE DEF a
<1>2. \A i \in DOMAIN a : (i \in DOMAIN s /\ a[i] = s[i]) \/ (i = Len(s) + 1 /\ a[i] = x)
  BY <1>1 DEF a
<1>3. \A i \in DOMAIN s : i \in DOMAIN a /\ a[i] = s[i]
  BY <1>1 DEF a
<1>4. Len(s) + 1 \in DOMAIN a /\ a[Len(s) + 1] = x
  BY <1>1 DEF a
<1>5. Turning(a) <=> Turning(s) \/ x.kind = "rotation"
  BY <1>2, <1>3, <1>4 DEF Turning
<1>6. ASSUME Single(s), x.kind = "rotation" => ~Turning(s) PROVE Single(a)
  BY <1>2, <1>6 DEF Turning, Single
<1> QED
  BY <1>5, <1>6 DEF a

LEMMA TurnsOfConcat ==
  ASSUME NEW S, NEW s \in Seq(S), NEW t \in Seq(S)
  PROVE  /\ Turning(s \o t) => Turning(s) \/ Turning(t)
         /\ Single(s) /\ Single(t) /\ ~(Turning(s) /\ Turning(t)) => Single(s \o t)
<1> DEFINE a == s \o t
<1>1. /\ DOMAIN s = 1 .. Len(s) /\ DOMAIN t = 1 .. Len(t) /\ DOMAIN a = 1 .. Len(s) + Len(t)
      /\ Len(s) \in Nat /\ Len(t) \in Nat
      /\ \A i \in 1 .. Len(s) : a[i] = s[i]
      /\ \A i \in Len(s) + 1 .. Len(s) + Len(t) : a[i] = t[i - Len(s)]
  OBVIOUS
<1> HIDE DEF a
<1>2. \A i \in DOMAIN a :
        \/ i \in DOMAIN s /\ a[i] = s[i]
        \/ i \notin DOMAIN s /\ i - Len(s) \in DOMAIN t /\ a[i] = t[i - Len(s)]
  BY <1>1
<1>3. Turning(a) => Turning(s) \/ Turning(t)
  BY <1>2 DEF Turning
<1>4. ASSUME Single(s), Single(t), ~(Turning(s) /\ Turning(t)) PROVE Single(a)
  <2> SUFFICES ASSUME NEW i \in DOMAIN a, NEW j \in DOMAIN a,
                      a[i].kind = "rotation", a[j].kind = "rotation"
               PROVE  i = j
    BY DEF Single
  <2>1. i \in Nat /\ j \in Nat
    BY <1>1
  <2>2. (i \in DOMAIN s) <=> (j \in DOMAIN s)
    BY <1>2, <1>4 DEF Turning
  <2>3. CASE i \in DOMAIN s
    BY <1>2, <1>4, <2>2, <2>3 DEF Single
  <2>4. CASE i \notin DOMAIN s
    <3>1. i - Len(s) = j - Len(s)
      BY <1>2, <1>4, <2>2, <2>4 DEF Single
    <3> QED
      BY <1>1, <2>1, <3>1
  <2> QED
    BY <2>3, <2>4
<1> QED
  BY <1>3, <1>4 DEF a

LEMMA TurnsOfTail ==
  ASSUME NEW S, NEW s \in Seq(S), s # <<>>
  PROVE  /\ Head(s).kind = "rotation" => Turning(s)
         /\ Turning(Tail(s)) => Turning(s)
         /\ Single(s) => Single(Tail(s))
         /\ Single(s) /\ Head(s).kind = "rotation" => ~Turning(Tail(s))
<1> DEFINE t == Tail(s)
<1>1. /\ DOMAIN s = 1 .. Len(s) /\ DOMAIN t = 1 .. Len(s) - 1 /\ Len(s) \in Nat /\ Len(s) >= 1
      /\ Head(s) = s[1] /\ \A i \in 1 .. Len(s) - 1 : t[i] = s[i + 1]
  OBVIOUS
<1> HIDE DEF t
<1>2. 1 \in DOMAIN s /\ \A i \in DOMAIN t : i \in Nat /\ i + 1 # 1 /\ i + 1 \in DOMAIN s /\ t[i] = s[i + 1]
  BY <1>1
<1>3. Head(s).kind = "rotation" => Turning(s)
  BY <1>1, <1>2 DEF Turning
<1>4. Turning(t) => Turning(s)
  BY <1>2 DEF Turning
<1>5. ASSUME Single(s) PROVE Single(t)
  <2> SUFFICES ASSUME NEW i \in DOMAIN t, NEW j \in DOMAIN t,
                      t[i].kind = "rotation", t[j].kind = "rotation"
               PROVE  i = j
    BY DEF Single
  <2>1. i + 1 = j + 1
    BY <1>2, <1>5 DEF Single
  <2> QED
    BY <1>2, <2>1
<1>6. ASSUME Single(s), Head(s).kind = "rotation" PROVE ~Turning(t)
  BY <1>1, <1>2, <1>6 DEF Single, Turning
<1> QED
  BY <1>3, <1>4, <1>5, <1>6 DEF t

LEMMA EmptyTurns == ~Turning(<<>>) /\ Single(<<>>)
BY DEF Turning, Single

LEMMA RequestsKept ==
  ASSUME NEW h, Coherent(h), NEW channel, NEW waits, Requests(h, channel, waits),
         NEW g, Coherent(g), Settles(h, g), QueueGrows(h, g)
  PROVE  Requests(g, channel, waits)
<1>1. Single(g.queue) /\ (Turning(g.queue) <=> Turning(h.queue))
  <2>1. CASE g.queue = h.queue
    BY <2>1 DEF Requests
  <2>2. CASE \E m \in Modes : g.queue = Append(h.queue, Mode(m))
    <3>1. PICK m \in Modes : g.queue = Append(h.queue, Mode(m))
      BY <2>2
    <3>2. h.queue \in Seq(Mutations) /\ Mode(m) \in Mutations /\ Mode(m).kind # "rotation"
      BY ModeMutation DEF Coherent, Typed, TransactionTypes, Mode
    <3> QED
      BY <3>1, <3>2, TurnsOfAppend DEF Requests
  <2> QED
    BY <2>1, <2>2 DEF QueueGrows
<1>2. g.reply # None => g.reply = h.reply \/ h.asked
  BY DEF Settles
<1>3. h.asked \in BOOLEAN /\ g.asked \in BOOLEAN
  BY DEF Coherent, Typed, TransactionTypes
<1> QED
  BY <1>1, <1>2, <1>3 DEF Requests, Settles

LEMMA RequestsStaged ==
  ASSUME NEW h, Coherent(h), NEW channel \in Seq(Commands), NEW waits, Requests(h, channel, waits),
         h.staged = None, h.queue \o channel # <<>>,
         NEW g, Coherent(g), g.queue = Tail(h.queue \o channel),
         Staged(h, g, Head(h.queue \o channel).kind)
  PROVE  /\ Requests(g, <<>>, waits)
         /\ Head(h.queue \o channel).kind = "rotation" => h.reply = None
<1> DEFINE pending == h.queue \o channel
<1>1. h.queue \in Seq(Mutations) /\ channel \in Seq(Mutations)
  BY DEF Mutations, Coherent, Typed, TransactionTypes
<1>2. /\ Single(pending) /\ (Turning(pending) => waits /\ ~h.asked /\ h.reply = None)
  BY <1>1, TurnsOfConcat DEF Requests
<1>3. pending \in Seq(Mutations)
  BY <1>1
<1> HIDE DEF pending
<1>4. /\ Head(pending).kind = "rotation" => Turning(pending)
      /\ Turning(Tail(pending)) => Turning(pending)
      /\ Single(Tail(pending))
      /\ Head(pending).kind = "rotation" => ~Turning(Tail(pending))
  BY <1>2, <1>3, TurnsOfTail DEF pending
<1>5. g.queue = Tail(pending) /\ Staged(h, g, Head(pending).kind)
  BY DEF pending
<1>6. h.asked = FALSE
  BY NoneApart DEF Coherent, Transacts, Typed, TransactionTypes
<1>7. h.reply # None => waits
  BY DEF Requests
<1>8. CASE Head(pending).kind = "rotation"
  <2>1. waits /\ h.reply = None /\ ~Turning(g.queue) /\ Single(g.queue)
    BY <1>2, <1>4, <1>5, <1>8
  <2>2. g.asked => g.reply = None
    BY <1>5, <1>6, <1>8, <2>1 DEF Staged, Offers, SameTransaction
  <2> QED
    BY <1>8, <2>1, <2>2, EmptyTurns DEF Requests, pending
<1>9. CASE Head(pending).kind # "rotation"
  <2>1. g.asked = FALSE /\ g.reply = h.reply
    BY <1>5, <1>6, <1>9 DEF Staged, Offers, SameTransaction
  <2> QED
    BY <1>2, <1>4, <1>5, <1>7, <1>9, <2>1, EmptyTurns DEF Requests, pending
<1> QED
  BY <1>8, <1>9

-----------------------------------------------------------------------------
(* What an action of the event loop does to the transaction *)

\* A geometry is offered; if a client asked for it no other answer waits.
Offered(h, g) ==
  /\ h.staged = None /\ g.staged # None /\ (g.asked => h.reply = None)
  /\ g.reply = h.reply /\ g.committed = h.committed

\* The rotation a client asked for is refused.
Refused(h, g) ==
  /\ h.staged = None /\ g.staged = None /\ h.reply = None /\ g.reply = "err"
  /\ g.asked = h.asked /\ g.committed = h.committed

Effect(h, g) ==
  \/ SameOffer(h, g) \/ FirstFrame(h, g) \/ Offered(h, g) \/ Refused(h, g)
  \/ Withdraws(h, g) /\ (InFlight(h) => g.front[h.staged.dev] = None)
  \/ InFlight(h) /\ Commits(h, g) /\ h.staged.dev \in h.events

HostInv ==
  /\ Coherent(host) /\ Requests(host, inbox, asking)
  /\ active \in BOOLEAN /\ asking \in BOOLEAN /\ conn \in Monitors
  /\ inbox \in Seq(Commands) /\ left \in [BudgetKinds -> Nat]

\* What is proved of the actions of the event loop.
Steps ==
  HostInv' /\ Effect(host, host') /\ (Anchored(host) => Anchored(host'))

LEMMA FaultCount == \A kinds : \A F \in Hits(kinds) : F \subseteq Faults /\ Cardinality(F) \in Nat
<1>1. \A x : IsFiniteSet({x})
  BY FS_Singleton
<1>2. \A S, T : IsFiniteSet(S) /\ IsFiniteSet(T) => IsFiniteSet(S \cup T)
  BY FS_Union
<1>3. /\ IsFiniteSet({"prepare"} \cup {"transaction"}) /\ IsFiniteSet({"reclaimable"} \cup {"fatal"})
      /\ IsFiniteSet({"events"} \cup {"claim"}) /\ IsFiniteSet({"bind"} \cup {"open"})
      /\ IsFiniteSet({"owner"} \cup {"loop"})
  BY <1>1, <1>2
<1> DEFINE draw == ({"prepare"} \cup {"transaction"}) \cup ({"reclaimable"} \cup {"fatal"})
           read == ({"events"} \cup {"claim"}) \cup ({"bind"} \cup {"open"})
           rest == {"owner"} \cup {"loop"}
<1>4. IsFiniteSet(draw) /\ IsFiniteSet(read) /\ IsFiniteSet(rest)
  BY <1>2, <1>3
<1>5. IsFiniteSet((draw \cup read) \cup rest)
  <2> HIDE DEF draw, read, rest
  <2> QED
    BY <1>2, <1>4
<1>6. FaultKinds = (draw \cup read) \cup rest
  BY DEF FaultKinds
<1>7. IsFiniteSet(FaultKinds)
  BY <1>5, <1>6
<1> SUFFICES ASSUME NEW kinds, NEW F \in Hits(kinds)
             PROVE  F \subseteq Faults /\ Cardinality(F) \in Nat
  OBVIOUS
<1>8. F \subseteq FaultKinds /\ F \subseteq Faults
  BY ConstantsAssumption DEF Hits
<1>9. IsFiniteSet(F)
  BY <1>7, <1>8, FS_Subset
<1> QED
  BY <1>8, <1>9, FS_CardinalityType

LEMMA PayTyped ==
  ASSUME left \in [BudgetKinds -> Nat], NEW kind \in BudgetKinds, NEW n \in Nat, Pay(kind, n)
  PROVE  left' \in [BudgetKinds -> Nat]
BY DEF Pay

\* Of a transaction that stays as it is.
LEMMA SameTransactionEffect ==
  ASSUME NEW h, NEW g, SameTransaction(h, g)
  PROVE  SameOffer(h, g) /\ Settles(h, g) /\ Effect(h, g)
BY DEF SameTransaction, SameOffer, Settles, Effect

LEMMA EndsSettles ==
  ASSUME NEW h, Coherent(h), NEW g, Commits(h, g) \/ Withdraws(h, g)
  PROVE  Settles(h, g)
BY DEF Commits, Withdraws, Ends, Settles, Coherent, Typed, TransactionTypes

LEMMA DrawsSettles ==
  ASSUME NEW h, Coherent(h), NEW g, Draws(h, g)
  PROVE  Settles(h, g) /\ Effect(h, g)
BY EndsSettles DEF Draws, SameOffer, FirstFrame, Settles, Effect

-----------------------------------------------------------------------------
(* The actions of the event loop *)

\* A host changed by one callback; the channel and the request are not.
LEMMA HostStep ==
  ASSUME HostInv, Coherent(host'), Settles(host, host'), QueueGrows(host, host'),
         active' \in BOOLEAN, conn' \in Monitors, left' \in [BudgetKinds -> Nat],
         UNCHANGED <<inbox, asking>>
  PROVE  HostInv'
<1>1. Requests(host', inbox, asking)
  BY RequestsKept DEF HostInv
<1> QED
  BY <1>1 DEF HostInv

\* A transaction begins and its first frame is drawn, or is given up.
LEMMA BeginsAndDraws ==
  ASSUME NEW h, Coherent(h), h.staged = None, NEW n, Coherent(n), NEW kind, kind \in {"scale", "rotation", "mode"},
         Staged(h, n, kind), kind = "rotation" => h.reply = None,
         NEW g, Coherent(g), g = n \/ Draws(n, g)
  PROVE  Effect(h, g)
<1>1. h.mut = None /\ h.asked = FALSE
  BY NoneApart DEF Coherent, Transacts, Typed, TransactionTypes
<1>2. CASE SameTransaction(h, n)
  <2>1. SameOffer(h, g)
    BY <1>2 DEF SameTransaction, Draws, SameOffer, FirstFrame, Withdraws, Ends
  <2> QED
    BY <2>1 DEF Effect
<1>3. CASE Offers(h, n, kind)
  <2>1. n.staged # None /\ ~InFlight(n)
    BY <1>3, NoneApart DEF Offers, InFlight
  <2>2. CASE g = n \/ SameOffer(n, g) \/ FirstFrame(n, g)
    <3>1. g.staged # None
      BY <2>1, <2>2 DEF SameOffer, FirstFrame, InFlight
    <3>2. Offered(h, g)
      BY <1>3, <2>2, <3>1 DEF Offered, Offers, SameOffer, FirstFrame
    <3> QED
      BY <3>2 DEF Effect
  <2>3. CASE Withdraws(n, g)
    <3>1. SameOffer(h, g) \/ Refused(h, g)
      BY <1>1, <1>3, <2>3 DEF Offers, Withdraws, Ends, SameOffer, Refused
    <3> QED
      BY <3>1 DEF Effect
  <2> QED
    BY <2>2, <2>3 DEF Draws
<1>4. CASE /\ kind = "rotation" /\ n.reply = "err"
           /\ n.staged = h.staged /\ n.mut = h.mut /\ n.asked = h.asked /\ n.committed = h.committed
  <2>1. Refused(h, g)
    BY <1>4 DEF Refused, Draws, SameOffer, FirstFrame, Withdraws, Ends
  <2> QED
    BY <2>1 DEF Effect
<1> QED
  BY <1>2, <1>3, <1>4 DEF Staged

LEMMA TickStep == HostInv /\ Tick => Steps
<1> SUFFICES ASSUME HostInv, Tick PROVE Steps
  OBVIOUS
<1>1. PICK F \in Hits({"prepare", "transaction", "reclaimable", "fatal", "claim", "bind"}), fresh \in BOOLEAN :
    LET bound == IF host.source = Presenting(host) THEN host
                 ELSE BindSource(host, Presenting(host), F)
        next == StageNext(bound, fresh, F)
    IN  /\ active
        /\ Pay("fault", Cardinality(F))
        /\ IF NeedsReclaim(host)
           THEN /\ host.opened # {}
                /\ host' = Reclaim(host, conn, F)
                /\ UNCHANGED inbox
           ELSE IF bound.source = None
           THEN /\ host' = bound
                /\ UNCHANGED inbox
           ELSE /\ host' = IF next.staged # None /\ ~next.ready THEN next
                           ELSE Present(next, F)
                /\ inbox' = IF host.staged # None THEN inbox ELSE <<>>
        /\ UNCHANGED <<active, conn, asking>>
  BY DEF Tick
<1> DEFINE bound == IF host.source = Presenting(host) THEN host
                    ELSE BindSource(host, Presenting(host), F)
           next == StageNext(bound, fresh, F)
           drawn == IF next.staged # None /\ ~next.ready THEN next ELSE Present(next, F)
<1>2. /\ left' \in [BudgetKinds -> Nat] /\ active' \in BOOLEAN /\ conn' \in Monitors
      /\ asking' = asking
  BY <1>1, FaultCount, PayTyped DEF HostInv, BudgetKinds
<1>3. CASE NeedsReclaim(host)
  <2>1. host' = Reclaim(host, conn, F) /\ inbox' = inbox
    BY <1>1, <1>3
  <2>2. Coherent(host') /\ SameTransaction(host, host') /\ SameClaim(host, host') /\ QueueGrows(host, host')
    BY <1>3, <2>1, ReclaimCoherent DEF HostInv, NeedsReclaim
  <2>3. Anchored(host) => Anchored(host')
    BY <2>2 DEF Anchored, InFlight, SameTransaction, SameClaim
  <2> QED
    BY <1>2, <2>1, <2>2, <2>3, HostStep, SameTransactionEffect DEF Steps
<1>4. /\ Coherent(bound) /\ SameTransaction(host, bound) /\ SameClaim(host, bound) /\ bound.queue = host.queue
  <2>1. Presenting(host) \in Devices \cup {None}
    BY NoneApart DEF HostInv, Coherent, Typed, OutputTypes, Presenting
  <2> QED
    BY <2>1, BindSourceCoherent DEF HostInv, SameTransaction, SameClaim
<1>5. (Anchored(host) => Anchored(bound)) /\ Requests(bound, inbox, asking)
  BY <1>4, RequestsKept, SameTransactionEffect DEF Anchored, InFlight, SameTransaction, SameClaim, HostInv, QueueGrows
<1>6. CASE ~NeedsReclaim(host) /\ bound.source = None
  <2>1. host' = bound /\ inbox' = inbox
    BY <1>1, <1>6
  <2> QED
    BY <1>2, <1>4, <1>5, <2>1, HostStep, SameTransactionEffect DEF Steps, QueueGrows
<1>7. CASE ~NeedsReclaim(host) /\ bound.source # None
  <2>1. host' = drawn /\ inbox' = IF host.staged # None THEN inbox ELSE <<>>
    BY <1>1, <1>7
  <2>2. bound.staged = host.staged
    BY <1>4 DEF SameTransaction
  <2> HIDE DEF bound
  <2>3. /\ Coherent(next)
        /\ \/ next = bound /\ (bound.staged # None \/ bound.queue \o inbox = <<>>)
           \/ /\ bound.staged = None /\ bound.queue \o inbox # <<>> /\ next.queue = Tail(bound.queue \o inbox)
              /\ Staged(bound, next, Head(bound.queue \o inbox).kind)
    BY <1>4, StageNextCoherent DEF HostInv
  <2> HIDE DEF next
  <2>4. /\ Coherent(drawn) /\ (drawn = next \/ Draws(next, drawn)) /\ QueueGrows(next, drawn)
        /\ (Anchored(next) => Anchored(drawn))
    BY <2>3, PresentCoherent DEF HostInv, QueueGrows
  <2> HIDE DEF drawn
  <2>5. Settles(next, drawn)
    BY <2>3, <2>4, DrawsSettles DEF Settles
  <2>6. CASE next = bound /\ (bound.staged # None \/ bound.queue \o inbox = <<>>)
    <3>1. inbox' = inbox
      <4>1. bound.queue \in Seq(Mutations) /\ inbox \in Seq(Mutations)
        BY <1>4 DEF Mutations, HostInv, Coherent, Typed, TransactionTypes
      <4>2. bound.queue \o inbox = <<>> => inbox = <<>>
        BY <4>1
      <4> QED
        BY <2>1, <2>2, <2>6, <4>2
    <3>2. SameOffer(bound, drawn) \/ Effect(bound, drawn)
      BY <2>4, <2>6, <1>4, DrawsSettles DEF SameOffer
    <3>3. Effect(host, drawn)
      BY <1>4, <2>4, <2>6, NoneApart DEF Effect, Draws, SameOffer, FirstFrame, Withdraws, Ends, SameTransaction, InFlight
    <3>4. Settles(host, drawn) /\ QueueGrows(host, drawn) /\ (Anchored(host) => Anchored(drawn))
      BY <1>4, <1>5, <2>4, <2>5, <2>6 DEF Settles, SameTransaction, QueueGrows
    <3> QED
      BY <1>2, <2>1, <2>4, <3>1, <3>3, <3>4, HostStep DEF Steps
  <2>7. CASE /\ bound.staged = None /\ bound.queue \o inbox # <<>> /\ next.queue = Tail(bound.queue \o inbox)
             /\ Staged(bound, next, Head(bound.queue \o inbox).kind)
    <3> DEFINE kind == Head(bound.queue \o inbox).kind
    <3>1. Requests(next, <<>>, asking) /\ (kind = "rotation" => bound.reply = None)
      BY <1>4, <1>5, <2>3, <2>7, RequestsStaged DEF HostInv
    <3>2. Requests(drawn, <<>>, asking)
      BY <2>3, <2>4, <2>5, <3>1, RequestsKept
    <3>3. HostInv'
      BY <1>2, <2>1, <2>2, <2>4, <2>7, <3>2 DEF HostInv
    <3>4. kind \in {"scale", "rotation", "mode"}
      <4>1. bound.queue \in Seq(Mutations) /\ inbox \in Seq(Mutations)
        BY <1>4 DEF Mutations, HostInv, Coherent, Typed, TransactionTypes
      <4>2. bound.queue \o inbox \in Seq(Mutations)
        BY <4>1
      <4>3. Head(bound.queue \o inbox) \in Mutations
        BY <2>7, <4>2
      <4> QED
        BY <4>3, MutationKinds
    <3> HIDE DEF kind
    <3>5. Staged(bound, next, kind)
      BY <2>7 DEF kind
    <3>6. Effect(bound, drawn)
      BY <1>4, <2>3, <2>4, <2>7, <3>1, <3>4, <3>5, BeginsAndDraws
    <3>7. Effect(host, drawn)
      BY <1>4, <2>2, <2>7, <3>6 DEF Effect, SameTransaction, SameOffer, FirstFrame, Offered, Refused, Withdraws,
                                    Commits, Ends, InFlight
    <3>8. Anchored(next)
      BY <2>7, <3>5 DEF Anchored, InFlight, Staged, Offers, SameTransaction
    <3> QED
      BY <2>1, <2>4, <3>3, <3>7, <3>8 DEF Steps
  <2> QED
    BY <2>3, <2>6, <2>7
<1> QED
  BY <1>3, <1>6, <1>7

LEMMA DrmEventStep == HostInv /\ DrmEvent => Steps
<1> SUFFICES ASSUME HostInv, DrmEvent PROVE Steps
  OBVIOUS
<1> DEFINE d == host.source
           done == Complete(host, d)
<1>1. PICK F \in Hits({"transaction", "reclaimable", "fatal", "open"}) :
        /\ d # None
        /\ d \in host.events \/ d \notin host.opened
        /\ Pay("fault", Cardinality(F))
        /\ host' = IF Presenting(host) # d THEN [host EXCEPT !.source = None]
                   ELSE IF host.claimed = None THEN host
                   ELSE IF host.front[d] = Idle THEN [host EXCEPT !.events = @ \ {d}]
                   ELSE QueueNext(Complete(host, d), d, F)
        /\ UNCHANGED <<active, conn, inbox, asking>>
  BY DEF DrmEvent
<1>2. /\ left' \in [BudgetKinds -> Nat] /\ active' \in BOOLEAN /\ conn' \in Monitors
      /\ inbox' = inbox /\ asking' = asking
  BY <1>1, FaultCount, PayTyped DEF HostInv, BudgetKinds
<1>3. d \in Devices /\ Coherent(host)
  BY <1>1 DEF HostInv, Coherent, Typed, OutputTypes
<1>4. ASSUME Coherent(host'), SameTransaction(host, host'), SameClaim(host, host'), host'.queue = host.queue
      PROVE  Steps
  <2>1. Anchored(host) => Anchored(host')
    BY <1>4 DEF Anchored, InFlight, SameTransaction, SameClaim
  <2> QED
    BY <1>2, <1>4, <2>1, HostStep, SameTransactionEffect DEF Steps, QueueGrows
<1>5. CASE Presenting(host) # d
  <2>1. host' = [host EXCEPT !.source = None]
    BY <1>1, <1>5
  <2> QED
    BY <1>3, <1>4, <2>1, SourceCoherent
<1>6. CASE Presenting(host) = d /\ host.claimed = None
  <2>1. host' = host
    BY <1>1, <1>6
  <2> QED
    BY <1>3, <1>4, <2>1 DEF SameTransaction, SameClaim
<1>7. CASE Presenting(host) = d /\ host.claimed # None /\ host.front[d] = Idle
  <2>1. host' = [host EXCEPT !.events = host.events \ {d}]
    BY <1>1, <1>7
  <2>2. host.events \ {d} \in SUBSET Devices
    BY <1>3 DEF Coherent, Typed, OutputTypes
  <2> QED
    BY <1>3, <1>4, <2>1, <2>2, EventsCoherent
<1>8. CASE Presenting(host) = d /\ host.claimed # None /\ host.front[d] # Idle
  <2>1. host' = QueueNext(done, d, F) /\ host.claimed.dev = d
    BY <1>1, <1>8 DEF Presenting
  <2>2. /\ Coherent(done) /\ done.queue = host.queue /\ done.claimed = host.claimed
        /\ \/ InFlight(host) /\ Commits(host, done)
           \/ ~InFlight(host) /\ SameTransaction(host, done)
    BY <1>3, <1>8, <2>1, CompleteCoherent
  <2> HIDE DEF done
  <2>3. /\ Coherent(host') /\ Draws(done, host') /\ host'.queue = done.queue
        /\ Anchored(done) => Anchored(host')
    BY <1>3, <2>1, <2>2, QueueNextCoherent
  <2>4. Anchored(done)
    BY <1>8, <2>2 DEF Anchored
  <2>5. CASE InFlight(host) /\ Commits(host, done)
    <3>1. host.staged.dev = d /\ d \in host.events
      BY <1>1, <1>3, <1>8, <2>1, <2>5 DEF Coherent, Frames, Pipelines
    <3>2. Commits(host, host')
      BY <2>3, <2>5 DEF Commits, Ends, Draws, SameOffer, FirstFrame, Withdraws
    <3>3. Effect(host, host') /\ Settles(host, host')
      BY <1>3, <2>5, <3>1, <3>2, EndsSettles DEF Effect
    <3> QED
      BY <1>2, <2>2, <2>3, <2>4, <3>3, HostStep DEF Steps, QueueGrows
  <2>6. CASE ~InFlight(host) /\ SameTransaction(host, done)
    <3>1. Draws(host, host')
      BY <2>3, <2>6 DEF Draws, SameTransaction, SameOffer, FirstFrame, Withdraws, Ends, InFlight
    <3>2. Effect(host, host') /\ Settles(host, host')
      BY <1>3, <3>1, DrawsSettles
    <3> QED
      BY <1>2, <2>2, <2>3, <2>4, <3>2, HostStep DEF Steps, QueueGrows
  <2> QED
    BY <2>2, <2>5, <2>6
<1> QED
  BY <1>5, <1>6, <1>7, <1>8

LEMMA DrmEventsLostStep == HostInv /\ DrmEventsLost => Steps
<1> SUFFICES ASSUME HostInv, DrmEventsLost PROVE Steps
  OBVIOUS
<1> DEFINE d == host.source
<1>1. PICK F \in Hits({"events", "open"}) :
        /\ d # None /\ Presenting(host) = d /\ host.claimed # None
        /\ "events" \in F
        /\ Pay("fault", Cardinality(F))
        /\ host' = ReclaimableEventFailure(host, d, F)
        /\ UNCHANGED <<active, conn, inbox, asking>>
  BY DEF DrmEventsLost
<1>2. /\ left' \in [BudgetKinds -> Nat] /\ active' \in BOOLEAN /\ conn' \in Monitors
      /\ inbox' = inbox /\ asking' = asking
  BY <1>1, FaultCount, PayTyped DEF HostInv, BudgetKinds
<1>3. d \in Devices /\ Coherent(host) /\ host.claimed.dev = d
  BY <1>1 DEF HostInv, Coherent, Typed, OutputTypes, Presenting
<1>4. /\ Coherent(host') /\ host'.queue = host.queue /\ (Anchored(host) => Anchored(host'))
      /\ \/ SameTransaction(host, host')
         \/ Withdraws(host, host') /\ (InFlight(host) => host'.front[host.staged.dev] = None)
  BY <1>1, <1>3, EventFailureCoherent
<1>5. Effect(host, host') /\ Settles(host, host')
  BY <1>3, <1>4, EndsSettles, SameTransactionEffect DEF Effect
<1> QED
  BY <1>2, <1>4, <1>5, HostStep DEF Steps, QueueGrows

\* The transaction is what it was, or its pipeline is gone with it.
Loses(h, g) ==
  \/ SameTransaction(h, g)
  \/ Withdraws(h, g) /\ (InFlight(h) => g.front[h.staged.dev] = None)

\* A device that goes away, or is reopened, takes its frame with it.
LEMMA LostDevice ==
  ASSUME NEW h, Coherent(h), NEW d \in Devices, NEW monitors \in Monitors, NEW F, NEW reopen \in BOOLEAN
  PROVE  LET closed == CloseDevice(h, d)
             after == IF reopen THEN OpenDevice(closed, d, F) ELSE closed
             g == UdevTail(ResolveLostFlip(after, d), monitors, F)
         IN  /\ Coherent(g) /\ QueueGrows(h, g) /\ (Anchored(h) => Anchored(g))
             /\ Loses(h, g)
<1> DEFINE closed == CloseDevice(h, d)
           after == IF reopen THEN OpenDevice(closed, d, F) ELSE closed
           lost == ResolveLostFlip(after, d)
           g == UdevTail(lost, monitors, F)
<1>1. /\ Coherent(closed) /\ SameTransaction(h, closed) /\ closed.queue = h.queue
      /\ closed.claimed = None \/ (closed.claimed = h.claimed /\ closed.claimed.dev # d)
      /\ closed.claimed = None => h.claimed = None \/ h.claimed.dev = d
      /\ closed.retired # None => closed.retired.out.dev # d
  BY CloseDeviceCoherent
<1> HIDE DEF closed
<1>2. /\ Coherent(after) /\ SameTransaction(h, after) /\ after.queue = h.queue
      /\ after.claimed # None => after.claimed.dev # d
      /\ after.claimed = None => h.claimed = None \/ h.claimed.dev = d
      /\ after.retired # None => after.retired.out.dev # d
  BY <1>1, OpenDeviceCoherent DEF SameTransaction, SameClaim
<1> HIDE DEF after
<1>3. /\ Coherent(lost) /\ lost.queue = after.queue /\ lost.front[d] = None
      /\ \/ lost = after /\ (InFlight(after) => after.staged.dev # d)
         \/ Withdraws(after, lost) /\ InFlight(after) /\ after.staged.dev = d
  BY <1>2, ResolveLostFlipCoherent
<1> HIDE DEF lost
<1>4. Coherent(g) /\ SameTransaction(lost, g) /\ SameClaim(lost, g) /\ QueueGrows(lost, g)
  BY <1>3, UdevTailCoherent
<1> HIDE DEF g
<1>5. QueueGrows(h, g)
  BY <1>2, <1>3, <1>4 DEF QueueGrows
<1>6. CASE lost = after /\ (InFlight(after) => after.staged.dev # d)
  <2>1. SameTransaction(h, g)
    BY <1>2, <1>4, <1>6 DEF SameTransaction
  <2>2. Anchored(h) => Anchored(g)
    BY <1>2, <1>4, <1>6, <2>1 DEF Anchored, InFlight, SameTransaction, SameClaim, Coherent, Frames
  <2> QED
    BY <1>4, <1>5, <2>1, <2>2 DEF Loses, g, lost, after, closed
<1>7. CASE Withdraws(after, lost) /\ InFlight(after) /\ after.staged.dev = d
  <2>1. Withdraws(h, g) /\ h.staged.dev = d /\ g.front[d] = None
    BY <1>2, <1>3, <1>4, <1>7 DEF Withdraws, Ends, SameTransaction, SameClaim
  <2>2. Anchored(g)
    BY <2>1 DEF Anchored, InFlight, Withdraws, Ends
  <2> QED
    BY <1>4, <1>5, <2>1, <2>2 DEF Loses, g, lost, after, closed
<1> QED
  BY <1>3, <1>6, <1>7

LEMMA HotplugTyped ==
  ASSUME HostInv, NEW F \in Hits(UdevFaults), left["hotplug"] > 0,
         left' = [left EXCEPT !["hotplug"] = @ - 1, !["fault"] = @ - Cardinality(F)]
  PROVE  left' \in [BudgetKinds -> Nat]
<1>1. Cardinality(F) \in Nat /\ Cardinality(F) <= left["fault"]
  BY FaultCount DEF Hits
<1>2. left \in [BudgetKinds -> Nat] /\ "hotplug" \in BudgetKinds /\ "fault" \in BudgetKinds
  BY DEF HostInv, BudgetKinds
<1>3. left["hotplug"] \in Nat /\ left["fault"] \in Nat
  BY <1>2
<1> DEFINE n == left["hotplug"] - 1
           m == left["fault"] - Cardinality(F)
<1>4. n \in Nat /\ m \in Nat
  BY <1>1, <1>3
<1>5. left' = [[left EXCEPT !["hotplug"] = n] EXCEPT !["fault"] = m]
  BY <1>2
<1> HIDE DEF n, m
<1> QED
  BY <1>2, <1>4, <1>5

LEMMA LosesStep ==
  ASSUME HostInv, NEW h, Coherent(h), SameTransaction(host, h), SameClaim(host, h), h.queue = host.queue,
         Coherent(host'), QueueGrows(h, host'), Anchored(h) => Anchored(host'), Loses(h, host'),
         active' \in BOOLEAN, conn' \in Monitors, left' \in [BudgetKinds -> Nat],
         UNCHANGED <<inbox, asking>>
  PROVE  Steps
<1>1. Loses(host, host') /\ QueueGrows(host, host') /\ (Anchored(host) => Anchored(h))
  BY DEF Loses, SameTransaction, Withdraws, Ends, InFlight, QueueGrows, Anchored, SameClaim
<1>2. Effect(host, host') /\ Settles(host, host')
  BY <1>1, EndsSettles, SameTransactionEffect DEF Loses, Effect, HostInv
<1> QED
  BY <1>1, <1>2, HostStep DEF Steps

LEMMA DeviceAddedStep == ASSUME HostInv, NEW d \in Devices, DeviceAdded(d) PROVE Steps
<1>1. PICK F \in Hits(UdevFaults), m \in Modes \cup {None} :
        /\ left["hotplug"] > 0
        /\ left' = [left EXCEPT !["hotplug"] = @ - 1, !["fault"] = @ - Cardinality(F)]
        /\ conn' = [conn EXCEPT ![d] = m]
        /\ host' = UdevTail(OpenDevice([host EXCEPT !.detected = host.detected \cup {d}], d, F),
                            conn', F)
        /\ UNCHANGED <<active, inbox, asking>>
  BY DEF DeviceAdded
<1> DEFINE seen == [host EXCEPT !.detected = host.detected \cup {d}]
           open == OpenDevice(seen, d, F)
<1>2. left' \in [BudgetKinds -> Nat] /\ conn' \in Monitors /\ active' \in BOOLEAN
  BY <1>1, HotplugTyped DEF HostInv, Monitors
<1>3. Coherent(host) /\ host.detected \cup {d} \in SUBSET Devices
  BY DEF HostInv, Coherent, Typed, OutputTypes
<1>4. Coherent(seen) /\ SameTransaction(host, seen) /\ SameClaim(host, seen) /\ seen.queue = host.queue
  BY <1>3, DetectedCoherent
<1>5. host' = UdevTail(open, conn', F)
  BY <1>1
<1> HIDE DEF seen
<1>6. Coherent(open) /\ SameTransaction(seen, open) /\ SameClaim(seen, open) /\ open.queue = seen.queue
  BY <1>4, OpenDeviceCoherent
<1> HIDE DEF open
<1>7. Coherent(host') /\ SameTransaction(open, host') /\ SameClaim(open, host') /\ QueueGrows(open, host')
  BY <1>2, <1>5, <1>6, UdevTailCoherent
<1>8. SameTransaction(host, open) /\ SameClaim(host, open) /\ open.queue = host.queue
  BY <1>4, <1>6 DEF SameTransaction, SameClaim
<1>9. Anchored(open) => Anchored(host')
  BY <1>7 DEF Anchored, InFlight, SameTransaction, SameClaim
<1> QED
  BY <1>1, <1>2, <1>6, <1>7, <1>8, <1>9, LosesStep DEF Loses

LEMMA DeviceChangedStep == ASSUME HostInv, NEW d \in Devices, DeviceChanged(d) PROVE Steps
<1> DEFINE h == [host EXCEPT !.source = IF host.source = d THEN None ELSE host.source]
<1>1. PICK F \in Hits(UdevFaults), m \in Modes \cup {None} :
        /\ left["hotplug"] > 0
        /\ left' = [left EXCEPT !["hotplug"] = @ - 1, !["fault"] = @ - Cardinality(F)]
        /\ conn' = [conn EXCEPT ![d] = m]
        /\ host' = UdevTail(ResolveLostFlip(OpenDevice(CloseDevice(h, d), d, F), d), conn', F)
        /\ UNCHANGED <<active, inbox, asking>>
  BY DEF DeviceChanged
<1>2. left' \in [BudgetKinds -> Nat] /\ conn' \in Monitors /\ active' \in BOOLEAN
  BY <1>1, HotplugTyped DEF HostInv, Monitors
<1>3. Coherent(host) /\ (IF host.source = d THEN None ELSE host.source) \in Devices \cup {None}
  BY DEF HostInv, Coherent, Typed, OutputTypes
<1>4. Coherent(h) /\ SameTransaction(host, h) /\ SameClaim(host, h) /\ h.queue = host.queue
  BY <1>3, SourceCoherent
<1> HIDE DEF h
<1>5. /\ Coherent(host') /\ QueueGrows(h, host') /\ (Anchored(h) => Anchored(host'))
      /\ Loses(h, host')
  <2>1. LET closed == CloseDevice(h, d)
            after == IF TRUE THEN OpenDevice(closed, d, F) ELSE closed
            g == UdevTail(ResolveLostFlip(after, d), conn', F)
        IN  /\ Coherent(g) /\ QueueGrows(h, g) /\ (Anchored(h) => Anchored(g)) /\ Loses(h, g)
    BY <1>2, <1>4, LostDevice
  <2> QED
    BY <1>1, <2>1
<1> QED
  BY <1>1, <1>2, <1>4, <1>5, LosesStep

LEMMA DeviceRemovedStep == ASSUME HostInv, NEW d \in Devices, DeviceRemoved(d) PROVE Steps
<1> DEFINE h == [host EXCEPT !.detected = host.detected \ {d}]
<1>1. PICK F \in Hits(UdevFaults) :
        /\ left["hotplug"] > 0
        /\ left' = [left EXCEPT !["hotplug"] = @ - 1, !["fault"] = @ - Cardinality(F)]
        /\ conn' = [conn EXCEPT ![d] = None]
        /\ host' = UdevTail(ResolveLostFlip(CloseDevice(h, d), d), conn', F)
        /\ UNCHANGED <<active, inbox, asking>>
  BY DEF DeviceRemoved
<1>2. left' \in [BudgetKinds -> Nat] /\ conn' \in Monitors /\ active' \in BOOLEAN
  BY <1>1, HotplugTyped DEF HostInv, Monitors
<1>3. Coherent(host) /\ host.detected \ {d} \in SUBSET Devices
  BY DEF HostInv, Coherent, Typed, OutputTypes
<1>4. Coherent(h) /\ SameTransaction(host, h) /\ SameClaim(host, h) /\ h.queue = host.queue
  BY <1>3, DetectedCoherent
<1> HIDE DEF h
<1>5. /\ Coherent(host') /\ QueueGrows(h, host') /\ (Anchored(h) => Anchored(host'))
      /\ Loses(h, host')
  <2>1. LET closed == CloseDevice(h, d)
            after == IF FALSE THEN OpenDevice(closed, d, F) ELSE closed
            g == UdevTail(ResolveLostFlip(after, d), conn', F)
        IN  /\ Coherent(g) /\ QueueGrows(h, g) /\ (Anchored(h) => Anchored(g)) /\ Loses(h, g)
    BY <1>2, <1>4, LostDevice
  <2> QED
    BY <1>1, <2>1
<1> QED
  BY <1>1, <1>2, <1>4, <1>5, LosesStep

\* A frame that is in flight when the output is set aside stays the
\* transaction's frame, without an output: Anchored is not kept.
LEMMA LostForRecoveryCoherent ==
  ASSUME NEW h, Coherent(h)
  PROVE  LET g == MarkLostForRecovery(h)
         IN  Coherent(g) /\ SameTransaction(h, g) /\ g.queue = h.queue
<1> DEFINE lost == MarkClaimLost(h)
<1>1. Coherent(lost) /\ SameTransaction(h, lost) /\ lost.queue = h.queue
  BY MarkClaimLostCoherent
<1> HIDE DEF lost
<1>2. LET g == MarkReclaimPending(lost)
      IN  Coherent(g) /\ SameTransaction(lost, g) /\ g.queue = lost.queue
  BY <1>1, MarkReclaimPendingCoherent
<1> QED
  BY <1>1, <1>2 DEF MarkLostForRecovery, SameTransaction, lost

LEMMA PauseSessionStep == HostInv /\ PauseSession => HostInv' /\ Effect(host, host')
<1> SUFFICES ASSUME HostInv, PauseSession PROVE HostInv' /\ Effect(host, host')
  OBVIOUS
<1>1. host' = MarkLostForRecovery(host) /\ UNCHANGED <<conn, inbox, asking>> /\ active' = FALSE
  BY DEF PauseSession
<1>2. left' \in [BudgetKinds -> Nat] /\ conn' \in Monitors
  BY <1>1, PayTyped DEF PauseSession, HostInv, BudgetKinds
<1>3. Coherent(host') /\ SameTransaction(host, host') /\ host'.queue = host.queue
  BY <1>1, LostForRecoveryCoherent DEF HostInv
<1> QED
  BY <1>1, <1>2, <1>3, HostStep, SameTransactionEffect DEF QueueGrows

LEMMA LoopFailsStep == HostInv /\ LoopFails => HostInv' /\ Effect(host, host')
<1> SUFFICES ASSUME HostInv, LoopFails PROVE HostInv' /\ Effect(host, host')
  OBVIOUS
<1> DEFINE unbound == [host EXCEPT !.source = None]
<1>1. host' = MarkLostForRecovery(unbound) /\ UNCHANGED <<active, conn, inbox, asking>>
  BY DEF LoopFails
<1>2. left' \in [BudgetKinds -> Nat] /\ conn' \in Monitors /\ active' \in BOOLEAN
  BY <1>1, PayTyped DEF LoopFails, HostInv, BudgetKinds
<1>3. Coherent(unbound) /\ SameTransaction(host, unbound) /\ unbound.queue = host.queue
  BY SourceCoherent DEF HostInv
<1> HIDE DEF unbound
<1>4. Coherent(host') /\ SameTransaction(host, host') /\ host'.queue = host.queue
  BY <1>1, <1>3, LostForRecoveryCoherent DEF SameTransaction
<1> QED
  BY <1>1, <1>2, <1>4, HostStep, SameTransactionEffect DEF QueueGrows

LEMMA ActivateSessionStep == HostInv /\ ActivateSession => Steps
<1> SUFFICES ASSUME HostInv, ActivateSession PROVE Steps
  OBVIOUS
<1>1. host' = host /\ active' = TRUE /\ UNCHANGED <<conn, inbox, asking, left>>
  BY DEF ActivateSession
<1>2. Effect(host, host')
  BY <1>1 DEF Effect, SameOffer
<1> QED
  BY <1>1, <1>2 DEF Steps, HostInv, Anchored

LEMMA PageFlipStep == ASSUME HostInv, NEW d \in Devices, PageFlip(d) PROVE Steps
<1>1. host' = [host EXCEPT !.events = host.events \cup {d}] /\ UNCHANGED <<active, conn, inbox, asking, left>>
  BY DEF PageFlip
<1>2. Coherent(host) /\ host.events \cup {d} \in SUBSET Devices
  BY DEF HostInv, Coherent, Typed, OutputTypes
<1>3. Coherent(host') /\ SameTransaction(host, host') /\ SameClaim(host, host') /\ host'.queue = host.queue
  BY <1>1, <1>2, EventsCoherent
<1>4. Anchored(host) => Anchored(host')
  BY <1>3 DEF Anchored, InFlight, SameTransaction, SameClaim
<1> QED
  BY <1>1, <1>3, <1>4, HostStep, SameTransactionEffect DEF Steps, QueueGrows, HostInv

\* Clients may change the material and the readiness of what is offered.
LEMMA StagedStep ==
  ASSUME HostInv, host.staged # None, NEW t \in Transactions,
         t.geo = host.staged.geo, t.flip = host.staged.flip, t.dev = host.staged.dev, NEW ready \in BOOLEAN,
         host' = [host EXCEPT !.staged = t, !.ready = ready],
         UNCHANGED <<active, conn, inbox, asking>>, left' \in [BudgetKinds -> Nat]
  PROVE  Steps
<1>1. Coherent(host') /\ SameOffer(host, host') /\ SameClaim(host, host') /\ host'.queue = host.queue
  BY StagedChanges, ZenonT(60) DEF HostInv
<1>2. Anchored(host) => Anchored(host')
  BY <1>1 DEF Anchored, InFlight, SameOffer, SameClaim
<1>3. Effect(host, host') /\ Settles(host, host')
  BY <1>1 DEF Effect, SameOffer, Settles
<1> QED
  BY <1>1, <1>2, <1>3, HostStep DEF Steps, QueueGrows, HostInv

LEMMA ClientCommitStep == HostInv /\ ClientCommit => Steps
<1> SUFFICES ASSUME HostInv, ClientCommit PROVE Steps
  OBVIOUS
<1> DEFINE t == [host.staged EXCEPT !.pin = "changed"]
<1>1. host.staged # None /\ host' = [host EXCEPT !.staged.pin = "changed"]
      /\ UNCHANGED <<active, conn, inbox, asking, left>>
  BY DEF ClientCommit
<1>2. host.staged \in Transactions /\ host.ready \in BOOLEAN /\ IsHost(host)
  BY <1>1 DEF HostInv, Coherent, Typed, TransactionTypes
<1>3. t \in Transactions /\ t.geo = host.staged.geo /\ t.flip = host.staged.flip /\ t.dev = host.staged.dev
  BY <1>2 DEF Transactions
<1>4. host' = [host EXCEPT !.staged = t, !.ready = host.ready]
  BY <1>1, <1>2 DEF IsHost, Fields
<1> HIDE DEF t
<1> QED
  BY <1>1, <1>2, <1>3, <1>4, StagedStep DEF HostInv

LEMMA NativeCommitStep == HostInv /\ NativeCommit => Steps
<1> SUFFICES ASSUME HostInv, NativeCommit PROVE Steps
  OBVIOUS
<1> DEFINE t == IF host.staged.pin = "pinned" THEN [host.staged EXCEPT !.pin = "changed"] ELSE host.staged
           g == [host EXCEPT !.ready = TRUE]
<1>1. host' = [host EXCEPT !.ready = TRUE,
                           !.staged = IF host.staged # None /\ host.staged.pin = "pinned"
                                      THEN [host.staged EXCEPT !.pin = "changed"] ELSE host.staged]
      /\ UNCHANGED <<active, conn, inbox, asking, left>>
  BY DEF NativeCommit
<1>2. Coherent(host) /\ IsHost(host)
  BY DEF HostInv, Coherent, Typed
<1>3. CASE host.staged = None
  <2>1. host' = g
    BY <1>1, <1>2, <1>3 DEF IsHost, Fields
  <2>2. /\ Typed(g) /\ SameTransaction(host, g) /\ SameClaim(host, g) /\ g.queue = host.queue
        /\ g.opened = host.opened /\ g.prepared = host.prepared /\ g.retired = host.retired
    BY <1>2 DEF Coherent, Typed, IsHost, Fields, OutputTypes, TransactionTypes, SameTransaction, SameClaim
  <2>3. Coherent(g)
    BY <1>2, <2>2, LooseFields
  <2> HIDE DEF g
  <2>4. Anchored(host) => Anchored(host')
    BY <2>1, <2>2 DEF Anchored, InFlight, SameTransaction, SameClaim
  <2> QED
    BY <1>1, <2>1, <2>2, <2>3, <2>4, HostStep, SameTransactionEffect DEF Steps, QueueGrows, HostInv
<1>4. CASE host.staged # None
  <2>1. host.staged \in Transactions
    BY <1>2, <1>4 DEF Coherent, Typed, TransactionTypes
  <2>2. t \in Transactions /\ t.geo = host.staged.geo /\ t.flip = host.staged.flip /\ t.dev = host.staged.dev
    BY <2>1 DEF Transactions
  <2>3. host' = [host EXCEPT !.staged = t, !.ready = TRUE]
    BY <1>1, <1>2, <1>4 DEF IsHost, Fields
  <2> HIDE DEF t
  <2> QED
    BY <1>1, <1>4, <2>2, <2>3, StagedStep DEF HostInv
<1> QED
  BY <1>3, <1>4

LEMMA OwnerGoneStep == HostInv /\ OwnerGone => Steps
<1> SUFFICES ASSUME HostInv, OwnerGone PROVE Steps
  OBVIOUS
<1> DEFINE t == [host.staged EXCEPT !.gone = TRUE]
<1>1. host.staged # None /\ host' = [host EXCEPT !.staged.gone = TRUE, !.ready = TRUE]
      /\ UNCHANGED <<active, conn, inbox, asking>>
  BY DEF OwnerGone
<1>2. host.staged \in Transactions /\ IsHost(host)
  BY <1>1 DEF HostInv, Coherent, Typed, TransactionTypes
<1>3. t \in Transactions /\ t.geo = host.staged.geo /\ t.flip = host.staged.flip /\ t.dev = host.staged.dev
  BY <1>2 DEF Transactions
<1>4. host' = [host EXCEPT !.staged = t, !.ready = TRUE]
  BY <1>1, <1>2 DEF IsHost, Fields
<1>5. left' \in [BudgetKinds -> Nat]
  BY PayTyped DEF OwnerGone, HostInv, BudgetKinds
<1> HIDE DEF t
<1> QED
  BY <1>1, <1>3, <1>4, <1>5, StagedStep

LEMMA SetScaleStep == ASSUME HostInv, NEW s \in Scales, SetScale(s) PROVE Steps
<1>1. inbox' = Append(inbox, Scale(s)) /\ UNCHANGED <<host, active, conn, asking>>
  BY DEF SetScale
<1>2. left' \in [BudgetKinds -> Nat]
  BY PayTyped DEF SetScale, HostInv, BudgetKinds
<1>3. Scale(s) \in Commands /\ Scale(s).kind # "rotation" /\ inbox \in Seq(Commands)
  BY DEF Commands, Scale, HostInv
<1>4. inbox' \in Seq(Commands) /\ Single(inbox') /\ (Turning(inbox') <=> Turning(inbox))
  BY <1>1, <1>3, TurnsOfAppend DEF HostInv, Requests
<1>5. Requests(host', inbox', asking')
  BY <1>1, <1>4 DEF HostInv, Requests
<1>6. Effect(host, host')
  BY <1>1 DEF Effect, SameOffer
<1> QED
  BY <1>1, <1>2, <1>4, <1>5, <1>6 DEF Steps, HostInv, Anchored

LEMMA SetRotationStep == ASSUME HostInv, NEW r \in Rotations, SetRotation(r) PROVE Steps
<1>1. ~asking /\ inbox' = Append(inbox, Rotation(r)) /\ asking' = TRUE /\ UNCHANGED <<host, active, conn>>
  BY DEF SetRotation
<1>2. left' \in [BudgetKinds -> Nat]
  BY PayTyped DEF SetRotation, HostInv, BudgetKinds
<1>3. Rotation(r) \in Commands /\ inbox \in Seq(Commands)
  BY DEF Commands, HostInv
<1>4. ~Turning(host.queue) /\ ~Turning(inbox) /\ ~host.asked /\ host.reply = None
  BY <1>1 DEF HostInv, Requests
<1>5. inbox' \in Seq(Commands) /\ Single(inbox')
  BY <1>1, <1>3, <1>4, TurnsOfAppend DEF HostInv, Requests
<1>6. Requests(host', inbox', asking')
  BY <1>1, <1>4, <1>5 DEF HostInv, Requests
<1>7. Effect(host, host')
  BY <1>1 DEF Effect, SameOffer
<1> QED
  BY <1>1, <1>2, <1>5, <1>6, <1>7 DEF Steps, HostInv, Anchored

\* The answer is read: nothing else of the transaction changes.
Reads(h, g) ==
  /\ h.reply # None /\ g.reply = None
  /\ g.staged = h.staged /\ g.mut = h.mut /\ g.asked = h.asked /\ g.committed = h.committed

LEMMA ReadAnswerStep ==
  HostInv /\ ReadAnswer => HostInv' /\ Reads(host, host') /\ (Anchored(host) => Anchored(host'))
<1> SUFFICES ASSUME HostInv, ReadAnswer
             PROVE  HostInv' /\ Reads(host, host') /\ (Anchored(host) => Anchored(host'))
  OBVIOUS
<1> DEFINE g == [host EXCEPT !.reply = None]
<1>1. host.reply # None /\ host' = g /\ asking' = FALSE /\ UNCHANGED <<active, conn, inbox, left>>
  BY DEF ReadAnswer
<1>2. /\ Typed(g) /\ g.queue = host.queue /\ g.reply = None
      /\ g.staged = host.staged /\ g.mut = host.mut /\ g.asked = host.asked /\ g.committed = host.committed
      /\ g.claimed = host.claimed /\ g.front = host.front
      /\ g.opened = host.opened /\ g.prepared = host.prepared /\ g.retired = host.retired
  BY DEF HostInv, Coherent, Typed, IsHost, Fields, OutputTypes, TransactionTypes
<1> HIDE DEF g
<1>3. Coherent(g)
  BY <1>2 DEF HostInv, Coherent, Pipelines, Undecided, Frames, InFlight, Transacts
<1>4. Requests(g, inbox, FALSE)
  BY <1>1, <1>2 DEF HostInv, Requests
<1>5. Reads(host, host') /\ (Anchored(host) => Anchored(host'))
  BY <1>1, <1>2 DEF Reads, Anchored, InFlight
<1> QED
  BY <1>1, <1>3, <1>4, <1>5 DEF HostInv

-----------------------------------------------------------------------------
(* The theorems *)

LEMMA InitHostInv == Init => HostInv /\ Anchored(host) /\ left = Budget /\ Transaction!Init
<1> SUFFICES ASSUME Init PROVE HostInv /\ Anchored(host) /\ left = Budget /\ Transaction!Init
  OBVIOUS
<1>1. PICK D \in SUBSET Devices, s \in Scales, r \in Rotations :
      \E d \in D, c \in [Devices -> Modes \cup {None}] :
        /\ c[d] # None /\ \A e \in Devices \ D : c[e] = None
        /\ conn = c
        /\ host = [
             detected |-> D, opened |-> D,
             claimed |-> [dev |-> d, mode |-> c[d]], prepared |-> None,
             retired |-> None,
             front |-> [e \in Devices |-> IF e = d THEN Idle ELSE None],
             good |-> d, events |-> {}, source |-> d,
             queue |-> <<>>, staged |-> None, mut |-> None,
             asked |-> FALSE, reply |-> None, pub |-> None, ready |-> TRUE,
             committed |-> [size |-> c[d], scale |-> s, rot |-> r],
             owned |-> TRUE, window |-> c[d]]
        /\ active = TRUE /\ inbox = <<>> /\ asking = FALSE
        /\ left = Budget
  BY DEF Init
<1>2. PICK d \in D, c \in [Devices -> Modes \cup {None}] :
        /\ c[d] # None /\ conn = c
        /\ host = [
             detected |-> D, opened |-> D,
             claimed |-> [dev |-> d, mode |-> c[d]], prepared |-> None,
             retired |-> None,
             front |-> [e \in Devices |-> IF e = d THEN Idle ELSE None],
             good |-> d, events |-> {}, source |-> d,
             queue |-> <<>>, staged |-> None, mut |-> None,
             asked |-> FALSE, reply |-> None, pub |-> None, ready |-> TRUE,
             committed |-> [size |-> c[d], scale |-> s, rot |-> r],
             owned |-> TRUE, window |-> c[d]]
        /\ active = TRUE /\ inbox = <<>> /\ asking = FALSE
        /\ left = Budget
  BY <1>1
<1>3. d \in Devices /\ c[d] \in Modes /\ [dev |-> d, mode |-> c[d]] \in Outputs
  BY <1>2 DEF Outputs
<1>4. [size |-> c[d], scale |-> s, rot |-> r] \in Geometries
  BY <1>3 DEF Geometries
<1>5. /\ IsHost(host) /\ host.detected = D /\ host.opened = D
      /\ host.claimed = [dev |-> d, mode |-> c[d]] /\ host.prepared = None /\ host.retired = None
      /\ host.front = [e \in Devices |-> IF e = d THEN Idle ELSE None]
      /\ host.good = d /\ host.events = {} /\ host.source = d /\ host.queue = <<>>
      /\ host.staged = None /\ host.mut = None /\ host.asked = FALSE /\ host.reply = None
      /\ host.pub = None /\ host.ready = TRUE
      /\ host.committed = [size |-> c[d], scale |-> s, rot |-> r]
      /\ host.owned = TRUE /\ host.window = c[d]
  BY <1>2 DEF IsHost, Fields
<1>6. OutputTypes(host)
  BY <1>3, <1>5 DEF OutputTypes
<1>7. TransactionTypes(host)
  <2>1. <<>> \in Seq(Mutations)
    OBVIOUS
  <2> QED
    BY <1>3, <1>4, <1>5, <2>1 DEF TransactionTypes
<1>8. Pipelines(host)
  BY <1>3, <1>5, NoneApart DEF Pipelines
<1>9. Undecided(host) /\ Frames(host) /\ Transacts(host) /\ Anchored(host)
  BY <1>5, NoneApart DEF Undecided, Frames, InFlight, Transacts, Anchored
<1>10. Requests(host, inbox, asking)
  BY <1>2, <1>5, EmptyTurns DEF Requests
<1>11. conn \in Monitors /\ inbox \in Seq(Commands) /\ left \in [BudgetKinds -> Nat]
  BY <1>2, ConstantsAssumption DEF Monitors
<1>12. HostInv
  BY <1>2, <1>5, <1>6, <1>7, <1>8, <1>9, <1>10, <1>11 DEF HostInv, Coherent, Typed
<1>13. Transaction!Init
  BY <1>4, <1>5 DEF Transaction!Init, InFlight
<1> QED
  BY <1>2, <1>9, <1>12, <1>13

\* Every step keeps the invariant and is one of the effects.
LEMMA NextHostInv == HostInv /\ [Next]_vars => HostInv' /\ (Effect(host, host') \/ Reads(host, host'))
<1> SUFFICES ASSUME HostInv, [Next]_vars PROVE HostInv' /\ (Effect(host, host') \/ Reads(host, host'))
  OBVIOUS
<1>1. CASE Tick
  BY <1>1, TickStep DEF Steps
<1>2. CASE DrmEvent
  BY <1>2, DrmEventStep DEF Steps
<1>3. CASE DrmEventsLost
  BY <1>3, DrmEventsLostStep DEF Steps
<1>4. CASE \E d \in Devices : DeviceAdded(d) \/ DeviceChanged(d) \/ DeviceRemoved(d)
  BY <1>4, DeviceAddedStep, DeviceChangedStep, DeviceRemovedStep DEF Steps
<1>5. CASE PauseSession
  BY <1>5, PauseSessionStep
<1>6. CASE ActivateSession
  BY <1>6, ActivateSessionStep DEF Steps
<1>7. CASE LoopFails
  BY <1>7, LoopFailsStep
<1>8. CASE \E d \in Devices : PageFlip(d)
  BY <1>8, PageFlipStep DEF Steps
<1>9. CASE ClientCommit
  BY <1>9, ClientCommitStep DEF Steps
<1>10. CASE NativeCommit
  BY <1>10, NativeCommitStep DEF Steps
<1>11. CASE OwnerGone
  BY <1>11, OwnerGoneStep DEF Steps
<1>12. CASE \E s \in Scales : SetScale(s)
  BY <1>12, SetScaleStep DEF Steps
<1>13. CASE \E r \in Rotations : SetRotation(r)
  BY <1>13, SetRotationStep DEF Steps
<1>14. CASE ReadAnswer
  BY <1>14, ReadAnswerStep
<1>15. CASE UNCHANGED vars
  <2>1. HostInv'
    BY <1>15 DEF vars, HostInv
  <2>2. SameOffer(host, host')
    BY <1>15 DEF vars, SameOffer
  <2> QED
    BY <2>1, <2>2 DEF Effect
<1> QED
  BY <1>1, <1>2, <1>3, <1>4, <1>5, <1>6, <1>7, <1>8, <1>9, <1>10, <1>11, <1>12, <1>13, <1>14, <1>15 DEF Next

\* The inductive invariant: between any two callbacks the records of the
\* runtime are coherent and a rotation that was asked for is in one place.
THEOREM HostInvHolds == Spec => []HostInv
<1>1. Init => HostInv
  BY InitHostInv
<1>2. HostInv /\ [Next]_vars => HostInv'
  BY NextHostInv
<1> QED
  BY <1>1, <1>2, PTL DEF Spec

\* Every variable keeps its type, under every fault.
THEOREM HostTypeCorrect == Spec => []TypeOK
<1>1. HostInv => TypeOK
  BY HostsTyped DEF HostInv, Coherent, TypeOK, Monitors
<1> QED
  BY <1>1, HostInvHolds, PTL

\* Whatever fails and whatever is plugged or paused, every pipeline belongs
\* to one of the three outputs and every output's device is open.
THEOREM PipelinesAlwaysFollowClaims == Spec => []PipelinesFollowClaims
<1>1. HostInv => PipelinesFollowClaims
  BY DEF HostInv, Coherent, Pipelines, PipelinesFollowClaims
<1> QED
  BY <1>1, HostInvHolds, PTL

\* An output is presented while an older one is kept for rollback only as
\* long as its mode transaction is undecided, under every fault.
THEOREM CandidatesAreUndecided == Spec => []CandidateIsUndecided
<1>1. HostInv => CandidateIsUndecided
  BY DEF HostInv, Coherent, Undecided, CandidateIsUndecided
<1> QED
  BY <1>1, HostInvHolds, PTL

\* What is staged, which mutation it is and who waits for its answer agree,
\* under every fault.
THEOREM TransactionsAreWhole == Spec => []TransactionIsWhole
<1>1. HostInv => TransactionIsWhole
  BY DEF HostInv, Coherent, Transacts, Requests, TransactionIsWhole
<1> QED
  BY <1>1, HostInvHolds, PTL

\* A transaction whose frame is queued is committed by the completion of
\* that frame, or ends with the pipeline the frame was queued on.
THEOREM QueuedIsNeverWithdrawn == Spec => QueuedIsNotWithdrawn
<1>1. HostInv /\ [Next]_vars =>
        [InFlight(host) /\ host'.staged = None =>
           \/ /\ host.staged.dev \in host.events
              /\ host'.committed = host.staged.geo
           \/ host'.front[host.staged.dev] = None]_vars
  <2> SUFFICES ASSUME HostInv, [Next]_vars, InFlight(host), host'.staged = None
               PROVE  \/ /\ host.staged.dev \in host.events
                         /\ host'.committed = host.staged.geo
                      \/ host'.front[host.staged.dev] = None
    OBVIOUS
  <2>1. Effect(host, host') \/ Reads(host, host')
    BY NextHostInv
  <2> QED
    BY <2>1 DEF Effect, Reads, SameOffer, FirstFrame, Offered, Refused, Commits, InFlight
<1> QED
  BY <1>1, HostInvHolds, PTL DEF Spec, QueuedIsNotWithdrawn

\* Where the session is never paused and the event loop never fails, the
\* frame of the transaction is in flight on the output that is presented,
\* under every other fault: the records never contradict one another.
THEOREM HostStaysWhole ==
  ASSUME Budget["pause"] = 0, "loop" \notin Faults
  PROVE  Spec => []HostIsWhole
<1> DEFINE Inv == HostInv /\ Anchored(host) /\ left["pause"] = 0
<1>1. Init => Inv
  BY InitHostInv
<1>2. HostInv /\ [Next]_vars /\ left["pause"] = 0 => left'["pause"] = 0
  <2> SUFFICES ASSUME HostInv, [Next]_vars, left["pause"] = 0 PROVE left'["pause"] = 0
    OBVIOUS
  <2>1. left \in [BudgetKinds -> Nat]
    BY DEF HostInv
  <2>2. ASSUME NEW kind, NEW n \in Nat, kind # "pause", Pay(kind, n) PROVE left'["pause"] = 0
    BY <2>1, <2>2 DEF Pay, BudgetKinds
  <2>3. ASSUME Pay("pause", 1) PROVE FALSE
    BY <2>3 DEF Pay
  <2>4. CASE Tick \/ DrmEvent \/ DrmEventsLost
    BY <2>2, <2>4, FaultCount DEF Tick, DrmEvent, DrmEventsLost
  <2>5. CASE \E d \in Devices : DeviceAdded(d) \/ DeviceChanged(d) \/ DeviceRemoved(d)
    BY <2>1, <2>5 DEF DeviceAdded, DeviceChanged, DeviceRemoved, BudgetKinds
  <2>6. CASE PauseSession
    BY <2>3, <2>6 DEF PauseSession
  <2>7. CASE LoopFails \/ OwnerGone \/ (\E s \in Scales : SetScale(s)) \/ (\E r \in Rotations : SetRotation(r))
    BY <2>2, <2>7 DEF LoopFails, OwnerGone, SetScale, SetRotation
  <2>8. CASE \/ ActivateSession \/ (\E d \in Devices : PageFlip(d))
             \/ ClientCommit \/ NativeCommit \/ ReadAnswer \/ UNCHANGED vars
    BY <2>8 DEF ActivateSession, PageFlip, ClientCommit, NativeCommit, ReadAnswer, vars
  <2> QED
    BY <2>4, <2>5, <2>6, <2>7, <2>8 DEF Next
<1>3. Inv /\ [Next]_vars => Anchored(host')
  <2> SUFFICES ASSUME HostInv, Anchored(host), left["pause"] = 0, [Next]_vars PROVE Anchored(host')
    OBVIOUS
  <2>1. ~PauseSession /\ ~LoopFails
    BY DEF PauseSession, LoopFails, Pay
  <2>2. CASE Tick \/ DrmEvent \/ DrmEventsLost
    BY <2>2, TickStep, DrmEventStep, DrmEventsLostStep DEF Steps
  <2>3. CASE \E d \in Devices : DeviceAdded(d) \/ DeviceChanged(d) \/ DeviceRemoved(d)
    BY <2>3, DeviceAddedStep, DeviceChangedStep, DeviceRemovedStep DEF Steps
  <2>4. CASE ActivateSession \/ ClientCommit \/ NativeCommit \/ OwnerGone \/ ReadAnswer
    BY <2>4, ActivateSessionStep, ClientCommitStep, NativeCommitStep, OwnerGoneStep, ReadAnswerStep DEF Steps
  <2>5. CASE \E d \in Devices : PageFlip(d)
    BY <2>5, PageFlipStep DEF Steps
  <2>6. CASE (\E s \in Scales : SetScale(s)) \/ (\E r \in Rotations : SetRotation(r))
    BY <2>6, SetScaleStep, SetRotationStep DEF Steps
  <2>7. CASE UNCHANGED vars
    BY <2>7 DEF vars
  <2> QED
    BY <2>1, <2>2, <2>3, <2>4, <2>5, <2>6, <2>7 DEF Next
<1>4. Inv /\ [Next]_vars => Inv'
  <2>1. Inv /\ [Next]_vars => Anchored(host)'
    BY <1>3 DEF Anchored, InFlight
  <2> QED
    BY <1>2, <2>1, NextHostInv
<1>5. Inv => HostIsWhole
  <2>1. HostInv => /\ TypeOK /\ PipelinesFollowClaims /\ CandidateIsUndecided /\ TransactionIsWhole
    BY HostsTyped DEF HostInv, Coherent, TypeOK, Monitors, Pipelines, PipelinesFollowClaims, Undecided,
                      CandidateIsUndecided, Transacts, Requests, TransactionIsWhole
  <2>2. Inv => QueuedFrameIsInFlight
    BY DEF HostInv, Coherent, Frames, Anchored, QueuedFrameIsInFlight
  <2> QED
    BY <2>1, <2>2 DEF HostIsWhole
<1> HIDE DEF Inv
<1> QED
  BY <1>1, <1>4, <1>5, PTL DEF Spec

\* HostOutput implements GeometryTransaction: whatever fails, a geometry is
\* shown only after a frame drawn with it completed, and a client that asked
\* for a rotation is told the truth about it once.
THEOREM HostImplementsTransaction == Spec => ImplementsTransaction
<1>1. Init => Transaction!Init
  BY InitHostInv
<1>2. HostInv /\ [Next]_vars => [Transaction!Next]_Transaction!vars
  <2> SUFFICES ASSUME HostInv, [Next]_vars PROVE [Transaction!Next]_Transaction!vars
    OBVIOUS
  <2> DEFINE offered == IF host.staged = None THEN None ELSE host.staged.geo
             offers  == IF host'.staged = None THEN None ELSE host'.staged.geo
  <2>1. HostInv' /\ (Effect(host, host') \/ Reads(host, host'))
    BY NextHostInv
  <2>2. /\ host.staged # None => host.staged.geo \in Geometries /\ host.staged.geo # None
        /\ host'.staged # None => host'.staged.geo \in Geometries /\ host'.staged.geo # None
    BY <2>1, NoneApart DEF HostInv, Coherent, Typed, TransactionTypes
  <2>3. host.asked \in BOOLEAN /\ host'.asked \in BOOLEAN /\ (host.staged = None => host.asked = FALSE)
    BY <2>1, NoneApart DEF HostInv, Coherent, Typed, TransactionTypes, Transacts
  <2>4. CASE SameOffer(host, host')
    BY <2>4 DEF SameOffer, InFlight, Transaction!vars
  <2>5. CASE FirstFrame(host, host')
    <3>1. Transaction!Frame
      BY <2>2, <2>5 DEF FirstFrame, InFlight, Transaction!Frame
    <3> QED
      BY <3>1 DEF Transaction!Next
  <2>6. CASE Offered(host, host')
    <3>1. Transaction!Offer(host'.staged.geo, host'.asked, InFlight(host)')
      BY <2>6 DEF Offered, InFlight, Transaction!Offer
    <3>2. InFlight(host)' \in BOOLEAN /\ host'.asked \in BOOLEAN /\ host'.staged.geo \in Geometries
      BY <2>2, <2>3, <2>6 DEF InFlight, Offered
    <3> QED
      BY <3>1, <3>2 DEF Transaction!Next
  <2>7. CASE Refused(host, host')
    <3>1. Transaction!Refuse
      BY <2>7 DEF Refused, InFlight, Transaction!Refuse
    <3> QED
      BY <3>1 DEF Transaction!Next
  <2>8. CASE Withdraws(host, host')
    <3>1. Transaction!Withdraw
      BY <2>2, <2>8 DEF Withdraws, Ends, InFlight, Transaction!Withdraw
    <3> QED
      BY <3>1 DEF Transaction!Next
  <2>9. CASE InFlight(host) /\ Commits(host, host')
    <3>1. Transaction!Show
      BY <2>2, <2>9 DEF Commits, Ends, InFlight, Transaction!Show
    <3> QED
      BY <3>1 DEF Transaction!Next
  <2>10. CASE Reads(host, host')
    <3>1. Transaction!Read
      BY <2>10 DEF Reads, InFlight, Transaction!Read
    <3> QED
      BY <3>1 DEF Transaction!Next
  <2> QED
    BY <2>1, <2>4, <2>5, <2>6, <2>7, <2>8, <2>9, <2>10 DEF Effect
<1> QED
  BY <1>1, <1>2, HostInvHolds, PTL DEF Spec, ImplementsTransaction, Transaction!Spec
==============================================================================
