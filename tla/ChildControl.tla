----------------------------- MODULE ChildControl -----------------------------
(***************************************************************************)
(* What a process controller promises to the compositor about the requests *)
(* to spawn a child: a request is answered once; its program is started at *)
(* most once, never after the request was answered "failed", and nothing   *)
(* but a stop that failed lets it run unattended.  An end that is reported *)
(* is the end: nothing of that request runs or will run.                   *)
(* ProcessManager implements this module; LaunchLifecycle relies on it.    *)
(***************************************************************************)
CONSTANT Requests

VARIABLES
  phase,   \* what the controller says of a request
  program  \* what became of its program

vars == <<phase, program>>

Phases   == {"new", "asked", "managed", "unconfirmed", "abandoned", "ended"}
Programs == {"none", "runs", "dead"}

TypeOK == phase \in [Requests -> Phases] /\ program \in [Requests -> Programs]

Init == /\ phase = [r \in Requests |-> "new"]
        /\ program = [r \in Requests |-> "none"]

Same(r, of) == of'[r] = of[r]

Goes(r, from, to) == phase[r] = from /\ phase'[r] = to

Asked(r) == Goes(r, "new", "asked") /\ Same(r, program)

\* The program may come late when the start could not be confirmed.
Starts(r) ==
  /\ phase[r] \in {"asked", "unconfirmed", "abandoned"}
  /\ program[r] = "none" /\ program'[r] = "runs"
  /\ Same(r, phase)

Dies(r) ==
  /\ program[r] = "runs" /\ program'[r] = "dead"
  /\ phase'[r] = IF phase[r] = "abandoned" THEN "ended" ELSE phase[r]

\* The answers to a spawn request.  A start without supervisor is one step.
AnsweredStarted(r) ==
  /\ Goes(r, "asked", "managed")
  /\ program'[r] # "none"
  /\ program[r] = "none" => program'[r] = "runs"
  /\ program[r] # "none" => Same(r, program)

AnsweredUnconfirmed(r) == Goes(r, "asked", "unconfirmed") /\ Same(r, program)

AnsweredFailed(r) ==
  /\ Goes(r, "asked", "ended")
  /\ program[r] = "none" /\ Same(r, program)

\* The exit is reported, or a stop succeeded and took the program along.
Ends(r) ==
  /\ Goes(r, "managed", "ended") \/ Goes(r, "unconfirmed", "ended")
  /\ program'[r] # "runs"
  /\ program[r] # "runs" => Same(r, program)
  /\ program[r] = "runs" => program'[r] = "dead"

\* A stop failed: the controller forgets a program that may go on.
GivesUp(r) ==
  /\ Goes(r, "managed", "abandoned") \/ Goes(r, "unconfirmed", "abandoned")
  /\ Same(r, program)

\* An abandoned launch that never came to start its program.
Lapses(r) == Goes(r, "abandoned", "ended") /\ program[r] # "runs" /\ Same(r, program)

Step(r) ==
  \/ Asked(r) \/ Starts(r) \/ Dies(r)
  \/ AnsweredStarted(r) \/ AnsweredUnconfirmed(r) \/ AnsweredFailed(r)
  \/ Ends(r) \/ GivesUp(r) \/ Lapses(r)

\* One step of the controller may concern two requests: a reused process id.
Next == \A r \in Requests : Step(r) \/ (Same(r, phase) /\ Same(r, program))

Spec == Init /\ [][Next]_vars
=============================================================================
