-------------------------- MODULE CheckletIsolation -------------------------
(***************************************************************************)
(* One iteration of CheckletRegistry.run_all (checklets.py): the parent    *)
(* spawns a child process for one checklet, waits for it until the         *)
(* checklet's deadline, takes its result off a multiprocessing queue,      *)
(* tears the child down and drains the queue.                              *)
(*                                                                         *)
(* The queue is a pipe.  The child's feeder thread writes a message in     *)
(* `need` units, each of which reaches the pipe whole or not at all; the   *)
(* pipe holds PipeCapacity unread units.  The parent waits for the child   *)
(* BEFORE it reads, a child cannot exit before its feeder has written the  *)
(* whole message, and a reader that has found the pipe non-empty waits for *)
(* the whole message without a timeout.  The parent keeps the write end of *)
(* the pipe open, so the death of the child is no end of file to it.       *)
(* The payload goes to the child through a pipe too, whose read end the    *)
(* parent keeps open while it writes: process.start() returns once what    *)
(* does not fit the pipe has been read.                                    *)
(***************************************************************************)
EXTENDS Naturals

CONSTANTS PipeCapacity,  \* units the pipe holds
          MaxMessage     \* bound: units of the largest result a child sends

ASSUME IsolationAssumption ==
  /\ PipeCapacity \in Nat \ {0}
  /\ MaxMessage \in Nat \ {0}

VARIABLES
  parent,       \* where run_all is
  child,        \* "absent", "loading", "running", "sending", "exited" or "dead"
  says,         \* what the child put on the queue
  need,         \* the length of that message
  written, read,\* units the child has written, the parent has read
  deadline,     \* has the checklet's timeout_seconds elapsed?
  stubborn,     \* does the checklet's process ignore SIGTERM?
  termed,       \* history: process.terminate() was called
  killed,       \* history: process.kill() was called
  result        \* the observation: "none" yet, "skipped", "answer", "error"

childVars == <<child, says, need, written>>
vars == <<parent, childVars, read, deadline, stubborn, termed, killed, result>>

Waiting  == {"join", "term_join", "kill_join", "cleanup_term", "cleanup_kill"}
Reading  == {"get_recv", "drain_recv"}
Messages == {"structured", "malformed", "unsupported", "error"}

Alive == child \in {"loading", "running", "sending"}

TypeOK ==
  /\ parent \in {"prepare", "starting", "get", "cleanup", "drain", "done"}
               \cup Waiting \cup Reading
  /\ child \in {"absent", "loading", "running", "sending", "exited", "dead"}
  /\ says \in Messages \cup {"nothing"}
  /\ need \in 0..MaxMessage
  /\ written \in 0..need
  /\ read \in 0..written
  /\ deadline \in BOOLEAN /\ stubborn \in BOOLEAN
  /\ termed \in BOOLEAN /\ killed \in BOOLEAN
  /\ result \in {"none", "skipped", "answer", "error"}

Init ==
  /\ parent = "prepare"
  /\ child = "absent"
  /\ says = "nothing"
  /\ need = 0 /\ written = 0 /\ read = 0
  /\ deadline = FALSE
  /\ stubborn \in BOOLEAN
  /\ termed = FALSE /\ killed = FALSE
  /\ result = "none"

-----------------------------------------------------------------------------
(* The child: _evaluate_in_isolated_process                                 *)

\* The new interpreter is up and reads its payload; if start() was waiting for
\* that, it returns.
ChildLoads ==
  /\ child = "loading"
  /\ child' = "running"
  /\ parent' = IF parent = "starting" THEN "join" ELSE parent
  /\ UNCHANGED <<says, need, written, read, deadline, stubborn, termed, killed, result>>

\* evaluate returns or raises, and a message is put on the queue.  Only a
\* structured payload can be longer than one unit; nothing bounds its size.
ChildPuts ==
  /\ child = "running"
  /\ child' = "sending"
  /\ says' \in Messages
  /\ need' \in 1..MaxMessage
  /\ says' \in {"error", "unsupported"} => need' = 1
  /\ UNCHANGED <<parent, written, read, deadline, stubborn, termed, killed, result>>

\* The interpreter does not come up, a BaseException, or a payload the feeder
\* cannot pickle: nothing is sent.
ChildLeavesSilently ==
  /\ child \in {"loading", "running"}
  /\ child' = "exited"
  /\ UNCHANGED <<parent, says, need, written, read, deadline, stubborn, termed, killed, result>>

\* The feeder thread writes the next unit when the pipe has room for it.
FeederWrites ==
  /\ child = "sending"
  /\ written < need
  /\ written - read < PipeCapacity
  /\ written' = written + 1
  /\ UNCHANGED <<parent, child, says, need, read, deadline, stubborn, termed, killed, result>>

\* Mutant: interpreter exit does not wait for the feeder (cancel_join_thread).
ExitAbandonsFeeder ==
  /\ child = "sending"
  /\ child' = "exited"
  /\ UNCHANGED <<parent, says, need, written, read, deadline, stubborn, termed, killed, result>>

\* Interpreter exit joins the feeder thread: the message is out.
ChildExits ==
  /\ child = "sending"
  /\ written = need
  /\ child' = "exited"
  /\ UNCHANGED <<parent, says, need, written, read, deadline, stubborn, termed, killed, result>>

\* SIGTERM unless it is ignored, SIGKILL, or a death of the child's own
\* (out of memory, a crash of the interpreter).
ChildDies ==
  /\ Alive
  /\ child' = "dead"
  /\ UNCHANGED <<parent, says, need, written, read, deadline, stubborn, termed, killed, result>>

SignalTakesEffect == (killed \/ (termed /\ ~ stubborn)) /\ ChildDies

\* Wall-clock time reaches timeout_seconds.
DeadlinePasses ==
  /\ ~ deadline
  /\ deadline' = TRUE
  /\ UNCHANGED <<parent, childVars, read, stubborn, termed, killed, result>>

-----------------------------------------------------------------------------
(* The parent: the body of the loop                                         *)

ParentVarsBut(others) == UNCHANGED <<childVars, deadline, stubborn, others>>

\* The artifact's type is not one of the checklet's.
Skip ==
  /\ parent = "prepare"
  /\ parent' = "done" /\ result' = "skipped"
  /\ ParentVarsBut(<<read, termed, killed>>)

\* Required context missing, a transport limit, or a deadline already passed:
\* no process is started.
PrepareFails ==
  /\ parent = "prepare"
  /\ parent' = "done" /\ result' = "error"
  /\ ParentVarsBut(<<read, termed, killed>>)

\* The queue exists but process.start() raises.
StartFails ==
  /\ parent = "prepare"
  /\ parent' = "cleanup" /\ result' = "error"
  /\ ParentVarsBut(<<read, termed, killed>>)

\* process.start(): the payload fits its pipe, or the write of it has to wait for
\* the child, and no timeout covers that wait.
Start ==
  /\ parent = "prepare"
  /\ parent' \in {"join", "starting"}
  /\ child' = "loading"
  /\ UNCHANGED <<says, need, written, read, deadline, stubborn, termed, killed, result>>

\* Mutant: the parent reads as soon as something is there.
ReadBeforeJoin ==
  /\ parent = "join" /\ (~ Alive \/ read < written)
  /\ parent' = "get"
  /\ ParentVarsBut(<<read, termed, killed, result>>)

\* Mutant: the clock decides about a timeout, not the state of the child.
JoinLooksAtClock ==
  /\ parent = "join" /\ ~ Alive
  /\ parent' = IF deadline THEN "term_join" ELSE "get"
  /\ ParentVarsBut(<<read, termed, killed, result>>)

\* process.join(remaining) returns because the child is gone ...
JoinSeesExit ==
  /\ parent = "join" /\ ~ Alive
  /\ parent' = "get"
  /\ ParentVarsBut(<<read, termed, killed, result>>)

\* Mutant: a timeout is reported and the child left to itself.
TimeoutAbandons ==
  /\ parent = "join" /\ Alive /\ deadline
  /\ parent' = "drain" /\ result' = "error"
  /\ ParentVarsBut(<<read, termed, killed>>)

\* Mutant: process.join() without a timeout.
JoinWithoutTimeout ==
  /\ parent = "join" /\ ~ Alive /\ deadline
  /\ parent' = "term_join" /\ termed' = TRUE
  /\ ParentVarsBut(<<read, killed, result>>)

\* ... or because the deadline has passed: terminate.
JoinTimesOut ==
  /\ parent = "join" /\ Alive /\ deadline
  /\ parent' = "term_join" /\ termed' = TRUE
  /\ ParentVarsBut(<<read, killed, result>>)

\* After the grace period of terminate: kill what is still there.
TermGraceEnds ==
  /\ parent = "term_join"
  /\ IF Alive THEN parent' = "kill_join" /\ killed' = TRUE /\ result' = result
              ELSE parent' = "cleanup" /\ killed' = killed /\ result' = "error"
  /\ ParentVarsBut(<<read, termed>>)

\* After the grace period of kill the timeout is reported in any case.
KillGraceEnds ==
  /\ parent = "kill_join"
  /\ parent' = "cleanup" /\ result' = "error"
  /\ ParentVarsBut(<<read, termed, killed>>)

\* result_queue.get(timeout=...): the pipe stays empty ...
GetFindsNothing ==
  /\ parent = "get" /\ written = read
  /\ parent' = "cleanup" /\ result' = "error"
  /\ ParentVarsBut(<<read, termed, killed>>)

\* ... or poll() has seen something and _recv_bytes() waits for a message.
GetFindsBytes ==
  /\ parent = "get" /\ read < written
  /\ parent' = "get_recv"
  /\ ParentVarsBut(<<read, termed, killed, result>>)

\* Mutant: the reader takes what is not there yet.
ReceiveAhead ==
  /\ parent \in Reading /\ read < need
  /\ read' = read + 1
  /\ ParentVarsBut(<<parent, termed, killed, result>>)

ReceiveUnit ==
  /\ parent \in Reading /\ read < written
  /\ read' = read + 1
  /\ ParentVarsBut(<<parent, termed, killed, result>>)

\* Mutant: what has arrived is taken for the message.
GetReturnsPart ==
  /\ parent = "get_recv" /\ read = written
  /\ parent' = "cleanup"
  /\ result' = IF says = "structured" THEN "answer" ELSE "error"
  /\ ParentVarsBut(<<read, termed, killed>>)

\* A whole message: parse_checklet_observation accepts it or it is an error.
GetReturns ==
  /\ parent = "get_recv" /\ read = need
  /\ parent' = "cleanup"
  /\ result' = IF says = "structured" THEN "answer" ELSE "error"
  /\ ParentVarsBut(<<read, termed, killed>>)

(* The finally clause *)
CleanupTerminates ==
  /\ parent = "cleanup"
  /\ IF Alive THEN parent' = "cleanup_term" /\ termed' = TRUE
              ELSE parent' = "drain" /\ termed' = termed
  /\ ParentVarsBut(<<read, killed, result>>)

CleanupKills ==
  /\ parent = "cleanup_term"
  /\ IF Alive THEN parent' = "cleanup_kill" /\ killed' = TRUE
              ELSE parent' = "drain" /\ killed' = killed
  /\ ParentVarsBut(<<read, termed, result>>)

CleanupGivesUp ==
  /\ parent = "cleanup_kill"
  /\ parent' = "drain"
  /\ ParentVarsBut(<<read, termed, killed, result>>)

\* get_nowait: Empty ends the loop; otherwise _recv_bytes() as above.
DrainFindsNothing ==
  /\ parent = "drain" /\ written = read
  /\ parent' = "done"
  /\ ParentVarsBut(<<read, termed, killed, result>>)

DrainFindsBytes ==
  /\ parent = "drain" /\ read < written
  /\ parent' = "drain_recv"
  /\ ParentVarsBut(<<read, termed, killed, result>>)

\* Mutant: a drained message is a late answer.
DrainAnswers ==
  /\ parent = "drain_recv" /\ read = need
  /\ parent' = "drain"
  /\ result' = IF says = "structured" THEN "answer" ELSE result
  /\ ParentVarsBut(<<read, termed, killed>>)

DrainReturns ==
  /\ parent = "drain_recv" /\ read = need
  /\ parent' = "drain"
  /\ ParentVarsBut(<<read, termed, killed, result>>)

-----------------------------------------------------------------------------
Child  == ChildLoads \/ ChildPuts \/ ChildLeavesSilently \/ FeederWrites \/ ChildExits \/ ChildDies
Parent ==
  \/ Skip \/ PrepareFails \/ StartFails \/ Start
  \/ JoinSeesExit \/ JoinTimesOut \/ TermGraceEnds \/ KillGraceEnds
  \/ GetFindsNothing \/ GetFindsBytes \/ ReceiveUnit \/ GetReturns
  \/ CleanupTerminates \/ CleanupKills \/ CleanupGivesUp
  \/ DrainFindsNothing \/ DrainFindsBytes \/ DrainReturns

Next == Child \/ Parent \/ DeadlinePasses

SafeSpec == Init /\ [][Next]_vars

\* The parent runs whenever it can, time passes, and a signal that is not
\* ignored kills in the end.  Nothing is assumed of the child's own progress:
\* a checklet may never return and a result may never be written.
Spec == SafeSpec /\ WF_vars(Parent) /\ WF_vars(DeadlinePasses) /\ WF_vars(SignalTakesEffect)

-----------------------------------------------------------------------------
(* An observation that is not an error comes from one whole structured      *)
(* message of a child that is gone: nothing partial, late or out of a       *)
(* torn-down process is ever taken for an answer.                           *)
AnswerIsWhole ==
  result = "answer" =>
    says = "structured" /\ need > 0 /\ read = need /\ written = need /\ ~ Alive

(* run_all joins before it reads, so a result longer than the pipe never    *)
(* becomes an answer: the transport limits bound what goes into a child,    *)
(* and the pipe is the only bound on what comes out of it.                  *)
OutputFitsThePipe == result = "answer" => need <= PipeCapacity

(* The registry does not go on to the next checklet over a child it has not *)
(* sent SIGKILL to.                                                         *)
NoChildLeftBehind == parent = "done" => ~ Alive \/ killed

(* A read that lacks the rest of its message has been left by a child that  *)
(* died in the middle of it, or waits for a child under SIGKILL: a checklet *)
(* that exits by itself, in time or late, never leaves the registry in      *)
(* recv_bytes, which has no timeout.                                        *)
TornMessage ==
  parent \in Reading /\ child = "dead" /\ read = written /\ written > 0 /\ written < need
StuckOnTornMessage ==
  parent \in Reading /\ read = written /\ read # need =>
    TornMessage \/ (child = "sending" /\ killed)

(* The inductive invariant behind the four.  Until the parent reads, what   *)
(* the child has written lies in the pipe; it reads only a child that is    *)
(* gone, whose message therefore is not longer than the pipe; a child that  *)
(* exits has written all of it; and cleanup starts with an observation.     *)
IsolationInv ==
  /\ written <= read + PipeCapacity
  /\ parent = "prepare" => child = "absent"
  /\ child \in {"absent", "loading", "running"} => written = 0 /\ need = 0
  /\ child = "exited" => written = need
  /\ parent \in {"prepare", "starting", "join", "term_join", "kill_join", "get"} =>
       read = 0 /\ result = "none"
  /\ parent \in {"get", "get_recv"} => ~ Alive /\ written <= PipeCapacity /\ result = "none"
  /\ parent \in Reading => written > 0
  /\ parent = "cleanup_kill" => killed
  /\ parent \in {"cleanup", "cleanup_term", "cleanup_kill", "drain", "drain_recv", "done"} =>
       result # "none"
  /\ parent \in {"drain", "drain_recv", "done"} => ~ Alive \/ killed
  /\ AnswerIsWhole
  /\ OutputFitsThePipe

(* An iteration reports at most one observation and never revises it, and   *)
(* it ends with exactly one unless the checklet does not apply.             *)
OneObservation ==
  [][/\ result # "none" => result' = result
     /\ parent' = "done" => result' # "none"]_vars

(* A checklet that has delivered its message and exited before the parent   *)
(* gave up on it has its answer recorded.                                   *)
DeliveredInTime ==
  (parent = "join" /\ child = "exited" /\ says = "structured") ~> result = "answer"

(* Two things can keep the registry from returning: a child that never      *)
(* takes a payload longer than its pipe, and a child that died in the       *)
(* middle of a message.                                                     *)
UntakenPayload == parent = "starting" /\ child \in {"loading", "exited", "dead"}
HangsOnlyMidTransfer == <>(parent = "done") \/ <>[]UntakenPayload \/ <>[]TornMessage

(* Isolation cleanup leaves no way for the parent to hang after a timeout.  *)
ReturnsAfterTimeout == termed ~> parent = "done"

=============================================================================
