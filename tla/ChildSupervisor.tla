---------------------------- MODULE ChildSupervisor ----------------------------
(***************************************************************************)
(* The supervisor process of one child (src/src/child_supervisor.rs) after *)
(* the child was started: two pump threads that carry the child's output   *)
(* to the journal record by record, and the main thread that reaps the     *)
(* child, hears of failed pumps and tells the compositor (finish_child).   *)
(*                                                                         *)
(* The child may leave descendants that hold its pipes open.  Its output   *)
(* is a sequence of bytes: "a" any valid one, "x" one that makes a record  *)
(* invalid UTF-8, "nl" the end of a record.  A pipe holds Capacity bytes   *)
(* and a writer blocks when it is full.  What SupervisorReaps and          *)
(* SupervisorFinishes of ProcessManager stand for is spelled out here.     *)
(***************************************************************************)
EXTENDS Integers, Sequences, FiniteSets, SequencesExt

CONSTANTS
  MaxRecord, \* MAX_RECORD_BYTES
  Capacity,  \* bytes a pipe holds
  MaxBytes,  \* bound: bytes written to each stream
  Scenarios  \* the sets of faults that may happen in one behaviour

Stream == {"stdout", "stderr"}
Byte   == {"a", "x", "nl"}

FaultKinds == {"thread", "read", "journal", "panic", "drain", "wait"}

ASSUME ConstantsAssumption ==
  /\ MaxRecord \in Nat \ {0} /\ Capacity \in Nat \ {0}
  /\ MaxBytes \in [Stream -> Nat]
  /\ Scenarios \subseteq SUBSET FaultKinds

VARIABLES
  faults,   \* the faults of this behaviour
  child,    \* the child process
  open,     \* streams whose write end somebody holds
  pipe,     \* per stream: bytes in the pipe
  written,  \* per stream: every byte that was written
  pump,     \* per stream: the pump thread
  reader,   \* streams whose read end is open
  record,   \* per stream: the record being collected
  skipping, \* per stream: the rest of an overlong record is discarded
  silent,   \* streams whose pump reported a failure (`reported`)
  journal,  \* per stream: what was written to the journal
  failures, \* channel from the pumps to the main thread
  main,     \* where finish_child is
  failed,   \* sanitizer_failed
  named,    \* reported_failures
  events    \* frames sent to the compositor

pumps    == <<pump, reader, record, skipping, silent, journal>>
outputs  == <<open, pipe, written>>
session  == <<main, failed, named, events>>
vars     == <<faults, child, outputs, pumps, failures, session>>

-----------------------------------------------------------------------------
(* The child and its descendants *)

Write(s, byte) ==
  /\ s \in open /\ s \in reader
  /\ Len(pipe[s]) < Capacity /\ Len(written[s]) < MaxBytes[s]
  /\ pipe' = [pipe EXCEPT ![s] = Append(@, byte)]
  /\ written' = [written EXCEPT ![s] = Append(@, byte)]
  /\ UNCHANGED <<child, open, pumps, failures, session>>

\* The child ends; a descendant may keep some of its streams.
ChildExits ==
  /\ child = "runs"
  /\ child' = "zombie"
  /\ open' \in SUBSET open
  /\ UNCHANGED <<pipe, written, pumps, failures, session>>

Closes(s) ==
  /\ s \in open
  /\ open' = open \ {s}
  /\ UNCHANGED <<child, pipe, written, pumps, failures, session>>

-----------------------------------------------------------------------------
(* A pump: pump_stream in the thread of spawn_stream_pump *)

(* report_pump_failure: once per pump_stream, and then the bytes that still *)
(* come are read and dropped.                                               *)
Report(s) ==
  /\ failures' = Append(failures, s)
  /\ silent' = silent \cup {s}

Quiet == UNCHANGED <<failures, silent>>

\* emit_record_or_discard of a whole record, emit_discarded_record
Emit(s, entry) ==
  \/ journal' = [journal EXCEPT ![s] = Append(@, entry)] /\ Quiet
  \/ "journal" \in faults /\ Report(s) /\ UNCHANGED journal

RecordEntry(bytes) == IF "x" \in ToSet(bytes) THEN <<"invalid">> ELSE bytes

Collected(s, bytes, skip) ==
  /\ record' = [record EXCEPT ![s] = bytes]
  /\ skipping' = IF skip THEN skipping \cup {s} ELSE skipping \ {s}

\* The pump reads on after a failure it reported, and drops what it reads.
Reads(s) == pump[s] = "reads"

Full(bytes) == Len(bytes) = MaxRecord

PumpByte(s) ==
  /\ Reads(s) /\ pipe[s] # <<>>
  /\ pipe' = [pipe EXCEPT ![s] = Tail(@)]
  /\ LET byte == Head(pipe[s]) IN
     \/ /\ byte = "nl"
        /\ Collected(s, <<>>, FALSE)
        /\ IF s \in skipping \/ s \in silent
           THEN Quiet /\ UNCHANGED journal
           ELSE Emit(s, RecordEntry(record[s]))
     \/ /\ byte # "nl" /\ (s \in skipping \/ s \in silent)
        /\ Quiet /\ UNCHANGED <<journal, record, skipping>>
     \/ /\ byte # "nl" /\ s \notin skipping /\ s \notin silent
        /\ Full(record[s])
        /\ Collected(s, <<>>, TRUE)
        /\ Emit(s, <<"too long">>)
     \/ /\ byte # "nl" /\ s \notin skipping /\ s \notin silent
        /\ ~Full(record[s])
        /\ Collected(s, Append(record[s], byte), FALSE)
        /\ Quiet /\ UNCHANGED journal
  /\ UNCHANGED <<child, open, written, pump, reader, session>>

EmitLast(s) ==
  IF s \in silent \/ s \in skipping \/ record[s] = <<>>
  THEN Quiet /\ UNCHANGED journal
  ELSE Emit(s, RecordEntry(record[s]))

PumpEnds(s) ==
  /\ Reads(s) /\ pipe[s] = <<>> /\ s \notin open
  /\ EmitLast(s)
  /\ pump' = [pump EXCEPT ![s] = "done"]
  /\ reader' = reader \ {s}
  /\ UNCHANGED <<child, outputs, record, skipping, session>>

\* Mistake: the read end of an unreadable pipe is closed.
DropReader(s) == reader \ {s}

\* std::mem::forget(reader)
ForgetReader(s) == reader

PumpReadFails(s) ==
  /\ "read" \in faults /\ pump[s] = "reads"
  /\ IF s \in silent THEN Quiet ELSE Report(s)
  /\ pump' = [pump EXCEPT ![s] = "done"]
  /\ reader' = ForgetReader(s)
  /\ UNCHANGED <<child, outputs, record, skipping, journal, session>>

PumpPanics(s) ==
  /\ "panic" \in faults /\ pump[s] = "reads" /\ pipe[s] # <<>>
  /\ pump' = [pump EXCEPT ![s] = "drains"]
  /\ pipe' = [pipe EXCEPT ![s] = Tail(@)]
  /\ UNCHANGED <<child, open, written, reader, record, skipping, silent, journal,
                 failures, session>>

(* drain_discarded_stream after a panic; only when it is through is the     *)
(* failure reported, a second time if the pump had reported one itself.     *)
Drain(s) ==
  /\ pump[s] = "drains"
  /\ \/ /\ pipe[s] # <<>>
        /\ pipe' = [pipe EXCEPT ![s] = Tail(@)]
        /\ UNCHANGED <<pump, reader, failures, silent>>
     \/ /\ pipe[s] = <<>> /\ s \notin open
        /\ reader' = reader \ {s}
        /\ pump' = [pump EXCEPT ![s] = "done"]
        /\ Report(s)
        /\ UNCHANGED pipe
     \/ /\ "drain" \in faults
        /\ reader' = ForgetReader(s)
        /\ pump' = [pump EXCEPT ![s] = "done"]
        /\ Report(s)
        /\ UNCHANGED pipe
  /\ UNCHANGED <<child, open, written, record, skipping, journal, session>>

-----------------------------------------------------------------------------
(* The main thread: finish_child *)

\* Mistake: a pump that never started is waited for.
PumpsJoinable == \A s \in Stream : pump[s] = "done"

\* pump_threads_finished: a pump that never started counts as finished.
PumpsFinished == \A s \in Stream : pump[s] \in {"none", "done"}

\* Failures heard of: the first of each stream is told to the compositor.
NewlyNamed(list) == SetToSeq(ToSet(list) \ named)

Hear(list, then) ==
  LET news == NewlyNamed(list) IN
  /\ failures' = <<>>
  /\ failed' = (failed \/ list # <<>>)
  /\ named' = named \cup ToSet(list)
  /\ events' = events \o [i \in DOMAIN news |-> [op |-> "sanitizerFailed", failed |-> TRUE]]
                      \o then

\* The loop goes on while the child is not reaped or a pump still runs.
HearFailures ==
  /\ main = "loop" /\ (child # "reaped" \/ ~PumpsFinished)
  /\ Hear(failures, <<>>)
  /\ main' = "reap"
  /\ UNCHANGED <<child, outputs, pumps>>

\* Mistake: the child is not reaped before its output was read.
ReapableWhenQuiet == child = "zombie" /\ PumpsFinished

\* try_wait finds the child ended, whatever its pumps still have to do.
Reapable == child = "zombie"

ReapChild ==
  /\ main = "reap"
  /\ \/ /\ Reapable
        /\ child' = "reaped" /\ main' = "loop"
        /\ events' = Append(events, [op |-> "childExited", failed |-> failed])
     \/ /\ ~Reapable /\ main' = "loop"
        /\ UNCHANGED <<child, events>>
     \/ /\ "wait" \in faults /\ child # "reaped"
        /\ main' = "waits"
        /\ UNCHANGED <<child, events>>
  /\ UNCHANGED <<outputs, pumps, failures, failed, named>>

\* try_wait failed: wait, and leave the report for the end.
WaitChild ==
  /\ main = "waits" /\ child = "zombie"
  /\ child' = "reaped" /\ main' = "loop"
  /\ UNCHANGED <<outputs, pumps, failures, failed, named, events>>

\* Mistake: failures that came after the last round are not heard of.
LeftInChannel == <<>>

\* The pumps that never ran: their threads were not started and cannot be joined.
NeverRan(s) == IF pump[s] = "none" THEN <<s>> ELSE <<>>
NotJoined == NeverRan("stdout") \o NeverRan("stderr")

\* Failures sent since the last round of the loop.
LateFailures == failures


ExitTold == \E i \in DOMAIN events : events[i].op = "childExited"

FinishChild ==
  /\ main = "loop" /\ child = "reaped" /\ PumpsFinished
  /\ LET late == LateFailures \o NotJoined
         last(op) == [op |-> op, failed |-> failed \/ late # <<>>]
     IN Hear(late, (IF ExitTold THEN <<>> ELSE <<last("childExited")>>)
                     \o <<last("finished")>>)
  /\ main' = "end"
  /\ UNCHANGED <<child, outputs, pumps>>

-----------------------------------------------------------------------------
Init ==
  /\ faults \in Scenarios
  /\ child = "runs" /\ open = Stream /\ reader = Stream
  /\ pipe = [s \in Stream |-> <<>>] /\ written = [s \in Stream |-> <<>>]
  /\ pump \in [Stream -> {"reads"} \cup (IF "thread" \in faults THEN {"none"} ELSE {})]
  /\ record = [s \in Stream |-> <<>>] /\ skipping = {}
  /\ silent = {s \in Stream : pump[s] = "none"}
  /\ failures = NotJoined
  /\ journal = [s \in Stream |-> <<>>]
  /\ main = "loop" /\ failed = FALSE /\ named = {} /\ events = <<>>

Pump(s) == PumpByte(s) \/ PumpEnds(s) \/ PumpReadFails(s) \/ PumpPanics(s) \/ Drain(s)

MainThread == HearFailures \/ ReapChild \/ WaitChild \/ FinishChild

Next ==
  /\ \/ ChildExits
     \/ \E s \in Stream : Closes(s) \/ Pump(s) \/ \E byte \in Byte : Write(s, byte)
     \/ MainThread
  /\ UNCHANGED faults

Spec == Init /\ [][Next]_vars

\* The threads of the supervisor run; the child owes nothing.
Fairness == /\ WF_vars(MainThread /\ UNCHANGED faults)
            /\ \A s \in Stream : WF_vars(Pump(s) /\ UNCHANGED faults)

FairSpec == Spec /\ Fairness

-----------------------------------------------------------------------------
(* Type invariant *)

TypeOK ==
  /\ faults \in Scenarios
  /\ child \in {"runs", "zombie", "reaped"}
  /\ open \subseteq Stream /\ reader \subseteq Stream
  /\ skipping \subseteq Stream /\ silent \subseteq Stream /\ named \subseteq Stream
  /\ \A s \in Stream : /\ pipe[s] \in Seq(Byte) /\ Len(pipe[s]) <= Capacity
                       /\ written[s] \in Seq(Byte)
                       /\ record[s] \in Seq(Byte) /\ Len(record[s]) <= MaxRecord
  /\ pump \in [Stream -> {"none", "reads", "drains", "done"}]
  /\ failures \in Seq(Stream)
  /\ main \in {"loop", "reap", "waits", "end"} /\ failed \in BOOLEAN

-----------------------------------------------------------------------------
(* Safety *)

(* Whoever still holds a stream can write to it: the read end is closed     *)
(* only when the write end is, whatever befell the pump, so no failure of   *)
(* logging kills the child by SIGPIPE (spawn_stream_pump, start_child).     *)
WritersKeepReaders == open \subseteq reader

(* What a stream should have left in the journal: one entry per line, and   *)
(* one for a last line without end, unless it is empty.                     *)
LineEnds(w) == {0} \cup {i \in DOMAIN w : w[i] = "nl"}
LineAfter(w, i) ==
  LET next == {j \in DOMAIN w : j > i /\ w[j] = "nl"}
  IN SubSeq(w, i + 1, IF next = {} THEN Len(w)
                      ELSE (CHOOSE j \in next : \A k \in next : j <= k) - 1)
EntryOf(line) ==
  IF Len(line) > MaxRecord THEN <<"too long">> ELSE RecordEntry(line)

\* Which line of w the one that starts after byte i is.
Rank(w, i) == Cardinality({j \in LineEnds(w) : j <= i})

Transcribes(entries, w) ==
  LET starts == LineEnds(w) \ {Len(w)}
  IN /\ Len(entries) = Cardinality(starts)
     /\ \A i \in starts : entries[Rank(w, i)] = EntryOf(LineAfter(w, i))

(* A stream whose pump came to the end of it without reporting a failure is *)
(* in the journal line by line: nothing lost, nothing twice, overlong and   *)
(* invalid records as notes.                                                *)
JournalIsTranscript ==
  \A s \in Stream : pump[s] = "done" /\ s \notin silent =>
    Transcribes(journal[s], written[s])

(* The session ends with one Finished after one ChildExited; Finished says  *)
(* that logging failed exactly when some stream's pump failed or never ran, *)
(* and the streams that did were named once each.                           *)
Finished == {i \in DOMAIN events : events[i].op = "finished"}
SessionIsWellFormed ==
  /\ Cardinality({i \in DOMAIN events : events[i].op = "childExited"}) <= 1
  /\ Cardinality({i \in DOMAIN events : events[i].op = "sanitizerFailed"})
       = Cardinality(named)
  /\ Finished # {} =>
       /\ Finished = {Len(events)} /\ ExitTold
       /\ named = silent
       /\ Last(events).failed = (silent # {})

(* What the manager is told and what the journal holds are whole.           *)
SessionIsWhole == TypeOK /\ SessionIsWellFormed /\ JournalIsTranscript

-----------------------------------------------------------------------------
(* Liveness *)

(* The exit of the child is told although descendants hold its streams,     *)
(* unless the first attempt to reap it failed.                              *)
ExitIsTold == (child = "zombie" /\ main # "waits") ~> (ExitTold \/ main = "waits")

(* A full pipe is read on: logging that failed does not block the child,    *)
(* unless its pipe cannot be read at all.                                   *)
WritersAreDrained ==
  \A s \in Stream :
    Len(pipe[s]) = Capacity ~> (Len(pipe[s]) < Capacity \/ pump[s] \in {"none", "done"})

\* When nobody holds a stream any more the session ends.
SessionEnds == (child # "runs" /\ open = {}) ~> main = "end"

\* Neither the writers nor the session wait for ever.
NobodyWaitsForEver == WritersAreDrained /\ SessionEnds
=============================================================================
