--------------------------- MODULE VerificationRun --------------------------
(***************************************************************************)
(* One call of VerificationRunner.run (runner.py) with the objective gates *)
(* (gates.py), the checklet registry (checklets.py, one observation per    *)
(* checklet; CheckletIsolation opens that step up), the shadow policy, the *)
(* hard verifier as a black box, and the telemetry sink (telemetry.py).    *)
(*                                                                         *)
(* Telemetry.  `script` is the sequence of events the run has decided to   *)
(* emit, in program order, and `sent` how many of them it has emitted: the *)
(* run takes its next decision only when sent = Len(script).  The sink is  *)
(* append-only, so what it holds is given by the set of positions of       *)
(* `script` that can be read back from it (`persisted`); `failed` are the  *)
(* positions recorded in telemetry_failures.  A JSONL sink can also be     *)
(* `torn`: an append that raised has left part of a line behind, with no   *)
(* newline, and the next append continues that line.                       *)
(***************************************************************************)
EXTENDS ShadowPolicy, Naturals, Sequences, FiniteSets

CONSTANTS
  NumGates,       \* number of objective gates of the domain pack
  NumChecklets,   \* number of registered checklets
  ArtifactTypes,  \* artifact types a candidate may have
  AppliesTo,      \* checklet -> its required_artifact_types
  SinkTears,      \* can a failing append leave part of a line (JSONL)?
  CheckletSays,   \* bound: the observations a checklet may return
  MaxSinkFaults   \* bound: number of emits that raise

ASSUME RunAssumption ==
  /\ NumGates \in Nat /\ NumChecklets \in Nat /\ MaxSinkFaults \in Nat
  /\ AppliesTo \in [1..NumChecklets -> SUBSET ArtifactTypes]
  /\ CheckletSays \subseteq Observations
  /\ SinkTears \in BOOLEAN

VARIABLES
  pc,             \* where VerificationRunner.run is
  artifactType,   \* ref.artifact_type of the registered artifact
  gates,          \* statuses of the gates evaluated so far
  checklet,       \* the checklet CheckletRegistry.run_all is at
  observations,   \* what the checklets so far were found to say, in order
  broken,         \* history: checklets that timed out, raised or were malformed
  assessment,     \* the ShadowRiskAssessment
  answer,         \* history: what hard_verifier.verify came back with
  outcome,        \* hard_result.outcome, the run's final_outcome
  script, sent, persisted, failed, torn

runVars  == <<pc, artifactType, gates, checklet, observations, broken,
              assessment, answer, outcome>>
sinkVars == <<sent, persisted, failed, torn>>
vars     == <<runVars, script, sinkVars>>

\* The run as MandatoryVerification sees it.
Phase == CASE pc \in {"gates", "checklets", "assess", "verify"} -> "registered"
           [] pc = "return" -> "verified"
           [] OTHER -> pc

MV == INSTANCE MandatoryVerification WITH phase <- Phase

NoAssessment == [risk |-> "none", action |-> "none", reason |-> "none"]
Terminal     == {"returned", "aborted", "crashed"}
EventTypes   == {"task_received", "artifact_registered", "objective_gate_started",
                 "objective_gate_finished", "checklet_started", "checklet_finished",
                 "shadow_assessment_created", "hard_verifier_started",
                 "hard_verifier_finished", "shadow_comparison_created", "run_completed"}
Payloads     == GateStatuses \cup Verdicts \cup Actions \cup HardOutcomes
                  \cup Counterfactuals \cup {"none"}
Events       == [type : EventTypes, of : Nat, says : Payloads]

Event(type, of, says) == [type |-> type, of |-> of, says |-> says]
Reports        == [checklet : 1..NumChecklets, verdict : Verdicts, severity : Severities]
Elements(s)    == {s[i] : i \in DOMAIN s}

TypeOK ==
  /\ pc \in {"new", "gates", "checklets", "assess", "verify", "hung", "return"} \cup Terminal
  /\ artifactType \in ArtifactTypes
  /\ gates \in Seq(GateStatuses)
  /\ checklet \in 1..(NumChecklets + 1)
  /\ observations \in Seq(Reports)
  /\ broken \subseteq 1..NumChecklets
  /\ assessment \in Assessments \cup {NoAssessment}
  /\ answer \in MV!Answers \cup {MV!NoAnswer}
  /\ outcome \in HardOutcomes \cup {"none"}
  /\ script \in Seq(Events)
  /\ sent \in 0..Len(script)
  /\ persisted \subseteq 1..sent
  /\ failed \subseteq 1..sent
  /\ torn \in BOOLEAN

Init ==
  /\ pc = "new"
  /\ artifactType \in ArtifactTypes
  /\ gates = <<>>
  /\ checklet = 1
  /\ observations = <<>>
  /\ broken = {}
  /\ assessment = NoAssessment
  /\ answer = MV!NoAnswer
  /\ outcome = "none"
  /\ script = <<>>
  /\ sent = 0
  /\ persisted = {}
  /\ failed = {}
  /\ torn = FALSE

-----------------------------------------------------------------------------
(* Telemetry: VerificationRunner._emit_safely around EventSink.emit         *)

\* Every earlier event is out: the run is between two emits.
Quiet == sent = Len(script)

Emit(line, raises, tornAfter) ==
  /\ pc \notin Terminal
  /\ sent < Len(script)
  /\ sent' = sent + 1
  /\ persisted' = IF line /\ ~torn THEN persisted \cup {sent + 1} ELSE persisted
  /\ failed' = IF raises THEN failed \cup {sent + 1} ELSE failed
  /\ torn' = tornAfter
  /\ UNCHANGED <<runVars, script>>

\* Mutant: a line is appended without its newline.
EmitWithoutNewline == Emit(TRUE, FALSE, TRUE)

\* The line reaches the sink; after a torn line it is glued to the fragment.
EmitLine == Emit(TRUE, FALSE, FALSE)

\* Mutant: an emit that raises ends the run.
EmitFailureAborts ==
  /\ pc \notin Terminal /\ sent < Len(script) /\ MaxSinkFaults > 0
  /\ pc' = "aborted"
  /\ UNCHANGED <<artifactType, gates, checklet, observations, broken, assessment,
                 answer, outcome, script, sinkVars>>

\* emit raises: nothing, part of the line, or all of it was written.
EmitRaises ==
  /\ Cardinality(failed) < MaxSinkFaults
  /\ \/ Emit(FALSE, TRUE, torn)
     \/ SinkTears /\ Emit(FALSE, TRUE, TRUE)
     \/ Emit(TRUE, TRUE, FALSE)

-----------------------------------------------------------------------------
(* VerificationRunner.run                                                   *)

\* ArtifactStore.register; it is outside every try, so an OSError ends the run.
Register ==
  /\ pc = "new"
  /\ pc' = "gates"
  /\ script' = script \o << Event("task_received", 0, "none"),
                            Event("artifact_registered", 0, "none") >>
  /\ UNCHANGED <<artifactType, gates, checklet, observations, broken, assessment,
                 answer, outcome, sinkVars>>

RegisterFails ==
  /\ pc = "new"
  /\ pc' = "aborted"
  /\ UNCHANGED <<artifactType, gates, checklet, observations, broken, assessment,
                 answer, outcome, script, sinkVars>>

\* Mutant: what a gate that raises leaves behind is not a status.
GateRaisesUncaught ==
  /\ pc = "gates" /\ Quiet
  /\ Len(gates) < NumGates
  /\ \E status \in GateStatuses \cup {"raises"} : gates' = Append(gates, status)
  /\ UNCHANGED <<pc, artifactType, checklet, observations, broken, assessment,
                 answer, outcome, script, sinkVars>>

\* GateRunner.run_all: a gate returns a status, or raises and is an error.
EvaluateGate ==
  /\ pc = "gates" /\ Quiet
  /\ Len(gates) < NumGates
  /\ \E status \in GateStatuses \cup {"raises"} :
       gates' = Append(gates, IF status = "raises" THEN "error" ELSE status)
  /\ UNCHANGED <<pc, artifactType, checklet, observations, broken, assessment,
                 answer, outcome, script, sinkVars>>

\* Both events of each gate are emitted once all the gates have run.
GateEvents ==
  [i \in 1..(2 * NumGates) |->
     IF i % 2 = 1 THEN Event("objective_gate_started", (i + 1) \div 2, "none")
                  ELSE Event("objective_gate_finished", i \div 2, gates[i \div 2])]

ReportGates ==
  /\ pc = "gates" /\ Quiet
  /\ Len(gates) = NumGates
  /\ pc' = "checklets"
  /\ script' = script \o GateEvents
  /\ UNCHANGED <<artifactType, gates, checklet, observations, broken, assessment,
                 answer, outcome, sinkVars>>

\* CheckletRegistry.run_all, one iteration.  A checklet whose artifact types
\* do not match leaves no observation at all.
Applies(c) == artifactType \in AppliesTo[c]

SkipChecklet ==
  /\ pc = "checklets" /\ Quiet
  /\ checklet \in 1..NumChecklets
  /\ ~ Applies(checklet)
  /\ checklet' = checklet + 1
  /\ UNCHANGED <<pc, artifactType, gates, observations, broken, assessment,
                 answer, outcome, script, sinkVars>>

Report(c, o) == [checklet |-> c, verdict |-> o.verdict, severity |-> o.severity]

CheckletObserves(o, failure) ==
  /\ pc = "checklets" /\ Quiet
  /\ checklet \in 1..NumChecklets
  /\ Applies(checklet)
  /\ observations' = Append(observations, Report(checklet, o))
  /\ broken' = IF failure THEN broken \cup {checklet} ELSE broken
  /\ checklet' = checklet + 1
  /\ UNCHANGED <<pc, artifactType, gates, assessment, answer, outcome, script, sinkVars>>

\* The child delivered a well-formed observation within its timeout.
CheckletAnswers == \E o \in CheckletSays : CheckletObserves(o, FALSE)

\* Missing context, transport limit, timeout, exception, no result, malformed.
CheckletFails == CheckletObserves(ErrorObservation, TRUE)

\* run_all waits for the child's message without a limit; CheckletIsolation
\* shows when the message never comes to an end.
CheckletHangs ==
  /\ pc = "checklets" /\ Quiet
  /\ checklet \in 1..NumChecklets
  /\ Applies(checklet)
  /\ pc' = "hung"
  /\ UNCHANGED <<artifactType, gates, checklet, observations, broken, assessment,
                 answer, outcome, script, sinkVars>>

ObservationEvents ==
  [i \in 1..(2 * Len(observations)) |->
     IF i % 2 = 1
     THEN Event("checklet_started", observations[(i + 1) \div 2].checklet, "none")
     ELSE Event("checklet_finished", observations[i \div 2].checklet, observations[i \div 2].verdict)]

ReportChecklets ==
  /\ pc = "checklets" /\ Quiet
  /\ checklet = NumChecklets + 1
  /\ pc' = "assess"
  /\ script' = script \o ObservationEvents
  /\ UNCHANGED <<artifactType, gates, checklet, observations, broken, assessment,
                 answer, outcome, sinkVars>>

AssessShadow ==
  /\ pc = "assess" /\ Quiet
  /\ assessment' = Assess(Elements(gates), Elements(observations))
  /\ script' = script \o << Event("shadow_assessment_created", 0, assessment'.action),
                            Event("hard_verifier_started", 0, "none") >>
  /\ pc' = "verify"
  /\ UNCHANGED <<artifactType, gates, checklet, observations, broken, answer, outcome, sinkVars>>

\* Mutant: the digest the result carries is not compared.
HardVerifyUnbound ==
  /\ pc = "verify" /\ Quiet
  /\ answer' \in MV!Answers
  /\ outcome' = IF answer'.kind = "result" THEN answer'.outcome ELSE "infrastructure_error"
  /\ script' = script \o
       << Event("hard_verifier_finished", 0, outcome'),
          Event("shadow_comparison_created", 0, Counterfactual(assessment.action, outcome')),
          Event("run_completed", 0, outcome') >>
  /\ pc' = "return"
  /\ UNCHANGED <<artifactType, gates, checklet, observations, broken, assessment, sinkVars>>

\* Mutant: the shadow action is obeyed.
HardVerifyUnlessWaived ==
  /\ pc = "verify" /\ Quiet
  /\ answer' \in IF assessment.action = "would_waive" THEN {answer} ELSE MV!Answers
  /\ outcome' = CASE assessment.action = "would_waive" -> "accepted"
                  [] answer'.kind = "result" /\ answer'.bound -> answer'.outcome
                  [] OTHER -> "infrastructure_error"
  /\ script' = script \o << Event("run_completed", 0, outcome') >>
  /\ pc' = "return"
  /\ UNCHANGED <<artifactType, gates, checklet, observations, broken, assessment, sinkVars>>

\* hard_verifier.verify, for every shadow action; an exception and a result
\* that carries another digest become an infrastructure error.  The comparison
\* is computed from the result and its event follows the verifier's.
HardVerify ==
  /\ pc = "verify" /\ Quiet
  /\ answer' \in MV!Answers
  /\ outcome' = IF answer'.kind = "result" /\ answer'.bound
                THEN answer'.outcome ELSE "infrastructure_error"
  /\ script' = script \o
       << Event("hard_verifier_finished", 0, outcome'),
          Event("shadow_comparison_created", 0, Counterfactual(assessment.action, outcome')),
          Event("run_completed", 0, outcome') >>
  /\ pc' = "return"
  /\ UNCHANGED <<artifactType, gates, checklet, observations, broken, assessment, sinkVars>>

\* hard_verifier.verify never comes back: the run sets no limit of its own;
\* HardVerify shows when that happens.
VerifierHangs ==
  /\ pc = "verify" /\ Quiet
  /\ pc' = "hung"
  /\ UNCHANGED <<artifactType, gates, checklet, observations, broken, assessment,
                 answer, outcome, script, sinkVars>>

Return ==
  /\ pc = "return" /\ Quiet
  /\ pc' = "returned"
  /\ UNCHANGED <<artifactType, gates, checklet, observations, broken, assessment,
                 answer, outcome, script, sinkVars>>

\* The process dies between two steps: there is no result, the log remains.
Crash ==
  /\ pc \notin Terminal
  /\ pc' = "crashed"
  /\ UNCHANGED <<artifactType, gates, checklet, observations, broken, assessment,
                 answer, outcome, script, sinkVars>>

-----------------------------------------------------------------------------
Steps == \/ EmitLine \/ EmitRaises
         \/ Register \/ RegisterFails
         \/ EvaluateGate \/ ReportGates
         \/ SkipChecklet \/ CheckletAnswers \/ CheckletFails \/ CheckletHangs
         \/ ReportChecklets \/ AssessShadow \/ HardVerify \/ VerifierHangs \/ Return

Next == Steps \/ Crash

SafeSpec == Init /\ [][Next]_vars

\* The calling thread is scheduled until the run is over or it waits for ever.
\* It is not assumed that a checklet or the verifier comes back: either may
\* hang, and a hung run takes no further step.
Spec == SafeSpec /\ WF_vars(Steps)

-----------------------------------------------------------------------------
(* A run that would be waived was looked at: every gate passed or did not   *)
(* apply, at least one checklet applied, and every checklet that applies to *)
(* the artifact's type ran to an answer, none worse than a low finding.     *)
(* (aggregation.py assess with checklets.py run_all.)                       *)
WaiveIsEarned ==
  assessment.action = "would_waive" =>
    /\ Elements(gates) \subseteq {"pass", "not_applicable"}
    /\ \E c \in 1..NumChecklets : Applies(c)
    /\ broken = {}
    /\ \A c \in 1..NumChecklets : Applies(c) =>
         \E o \in Elements(observations) :
           /\ o.checklet = c
           /\ o.verdict = "clean" \/ (o.verdict = "finding" /\ o.severity \in {"info", "low"})

(* What the audit log says about the decision can be believed even when the *)
(* process died afterwards: a readable run_completed or                     *)
(* hard_verifier_finished event means that the verifier was called, and     *)
(* says accepted only if its answer was an acceptance of this artifact.     *)
LogSpeaksTrue ==
  \A i \in persisted :
    script[i].type \in {"hard_verifier_finished", "run_completed"} =>
      /\ answer # MV!NoAnswer
      /\ script[i].says = "accepted" =>
           answer = [kind |-> "result", outcome |-> "accepted", bound |-> TRUE]

(* Every event the run emitted can be read back or is in telemetry_failures *)
(* (runner.py _emit_safely: evidence consistent with the result).           *)
EvidenceAccounted == 1..sent \subseteq persisted \cup failed

(* A sink that tears loses one more event at most for each recorded failure *)
(* and always the next one: an event is unaccounted for only if the event   *)
(* emitted just before it failed.                                           *)
EvidenceAccountedUpToTear ==
  \A i \in 1..sent : i \notin persisted \cup failed => i - 1 \in failed

(* The inductive invariants behind them.                                    *)
(* Where the registry is: what it has been through is reported.             *)
CheckletsReported ==
  /\ \A c \in 1..NumChecklets : c < checklet /\ Applies(c) =>
       \E o \in Elements(observations) :
         /\ o.checklet = c
         /\ c \in broken => o.verdict = "error"
  /\ \A o \in Elements(observations) : Applies(o.checklet)
  /\ \A c \in broken : c < checklet /\ Applies(c)
  /\ pc \in {"assess", "verify", "return"} => checklet = NumChecklets + 1
  /\ pc \in {"new", "gates", "checklets", "assess"} => assessment = NoAssessment

WaiveInv == CheckletsReported /\ WaiveIsEarned

\* No event speaks of the verifier before it has answered.
ScriptSpeaksTrue ==
  /\ pc \in {"new", "gates", "checklets", "assess", "verify"} => answer = MV!NoAnswer
  /\ \A e \in Elements(script) :
       e.type \in {"hard_verifier_finished", "run_completed"} =>
         /\ answer # MV!NoAnswer
         /\ e.says = "accepted" =>
              answer = [kind |-> "result", outcome |-> "accepted", bound |-> TRUE]

\* Only a failed emit leaves a fragment behind, and it is the last one.
TearInv == EvidenceAccountedUpToTear /\ (torn => sent \in failed)

(* The run implements MandatoryVerification: no gate, checklet answer or    *)
(* failure, shadow action or sink failure keeps it from verifying once, and *)
(* the outcome is the verifier's; only a death of the process or a call     *)
(* that never comes back does, and then there is no outcome.                *)
VerificationIsMandatory == MV!Spec

=============================================================================
