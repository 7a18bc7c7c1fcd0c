------------------------ MODULE VerificationRunProofs -----------------------
(***************************************************************************)
(* Theorems about VerificationRun, for every number of gates and           *)
(* checklets, every assignment of artifact types and any number of sink    *)
(* failures.                                                               *)
(***************************************************************************)
EXTENDS VerificationRun, SequenceTheorems, TLAPS

-----------------------------------------------------------------------------
(* Lemmas about sequences *)

LEMMA AppendElements ==
  ASSUME NEW S, NEW s \in Seq(S), NEW e \in S
  PROVE  /\ Append(s, e) \in Seq(S)
         /\ Elements(Append(s, e)) = Elements(s) \cup {e}
<1>1. /\ Append(s, e) \in Seq(S)
      /\ DOMAIN Append(s, e) = 1..(Len(s) + 1)
      /\ \A i \in 1..Len(s) : Append(s, e)[i] = s[i]
      /\ Append(s, e)[Len(s) + 1] = e
      /\ DOMAIN s = 1..Len(s) /\ Len(s) \in Nat
  OBVIOUS
<1>2. 1..(Len(s) + 1) = 1..Len(s) \cup {Len(s) + 1}
  BY <1>1
<1>3. Elements(Append(s, e)) \subseteq Elements(s) \cup {e}
  BY <1>1, <1>2 DEF Elements
<1>4. Elements(s) \cup {e} \subseteq Elements(Append(s, e))
  BY <1>1, <1>2 DEF Elements
<1>. QED BY <1>1, <1>3, <1>4

LEMMA ConcatElements ==
  ASSUME NEW S, NEW s \in Seq(S), NEW t \in Seq(S)
  PROVE  /\ s \o t \in Seq(S)
         /\ Len(s \o t) = Len(s) + Len(t)
         /\ \A i \in 1..Len(s) : (s \o t)[i] = s[i]
         /\ Elements(s \o t) = Elements(s) \cup Elements(t)
<1>1. /\ s \o t \in Seq(S) /\ Len(s \o t) = Len(s) + Len(t)
      /\ \A i \in 1..(Len(s) + Len(t)) :
           (s \o t)[i] = IF i <= Len(s) THEN s[i] ELSE t[i - Len(s)]
  BY ConcatProperties
<1>2. /\ DOMAIN s = 1..Len(s) /\ Len(s) \in Nat
      /\ DOMAIN t = 1..Len(t) /\ Len(t) \in Nat
      /\ DOMAIN (s \o t) = 1..(Len(s) + Len(t))
  BY <1>1
<1>3. \A i \in 1..Len(s) : i \in 1..(Len(s) + Len(t)) /\ (s \o t)[i] = s[i]
  BY <1>1, <1>2
<1>4. \A i \in 1..Len(t) : /\ Len(s) + i \in 1..(Len(s) + Len(t))
                           /\ (s \o t)[Len(s) + i] = t[i]
  BY <1>1, <1>2
<1>5. \A i \in 1..(Len(s) + Len(t)) : i \in 1..Len(s) \/ i - Len(s) \in 1..Len(t)
  BY <1>2
<1>6. Elements(s \o t) \subseteq Elements(s) \cup Elements(t)
  <2>. SUFFICES ASSUME NEW i \in 1..(Len(s) + Len(t))
                PROVE  (s \o t)[i] \in Elements(s) \cup Elements(t)
    BY <1>2 DEF Elements
  <2>1. CASE i \in 1..Len(s)
    BY <2>1, <1>2, <1>3 DEF Elements
  <2>2. CASE i \notin 1..Len(s)
    <3>1. i - Len(s) \in 1..Len(t) /\ i > Len(s)
      BY <2>2, <1>2
    <3>2. (s \o t)[i] = t[i - Len(s)]
      BY <3>1, <1>1, <1>2
    <3>. QED BY <3>1, <3>2, <1>2 DEF Elements
  <2>. QED BY <2>1, <2>2
<1>7. Elements(s) \subseteq Elements(s \o t)
  BY <1>2, <1>3 DEF Elements
<1>8. Elements(t) \subseteq Elements(s \o t)
  BY <1>2, <1>4 DEF Elements
<1>. QED BY <1>1, <1>3, <1>6, <1>7, <1>8

-----------------------------------------------------------------------------
(* Type correctness *)

LEMMA EventTyped ==
  ASSUME NEW type \in EventTypes, NEW of \in Nat, NEW says \in Payloads
  PROVE  Event(type, of, says) \in Events
BY DEF Event, Events

LEMMA GateEventsTyped ==
  ASSUME TypeOK, Len(gates) = NumGates
  PROVE  GateEvents \in Seq(Events)
<1>1. NumGates \in Nat /\ 2 * NumGates \in Nat
  BY RunAssumption
<1>2. \A i \in 1..(2 * NumGates) : (i + 1) \div 2 \in Nat /\ i \div 2 \in Nat
  BY <1>1
<1>3. \A i \in 1..(2 * NumGates) : i % 2 # 1 => i \div 2 \in 1..NumGates
  BY <1>1
<1>4. \A j \in 1..NumGates : gates[j] \in Payloads
  BY DEF TypeOK, Payloads
<1>5. \A i \in 1..(2 * NumGates) : GateEvents[i] \in Events
  <2>. TAKE i \in 1..(2 * NumGates)
  <2>1. CASE i % 2 = 1
    BY <2>1, <1>2, EventTyped DEF GateEvents, EventTypes, Payloads
  <2>2. CASE i % 2 # 1
    <3>1. gates[i \div 2] \in Payloads
      BY <2>2, <1>3, <1>4
    <3>2. Event("objective_gate_finished", i \div 2, gates[i \div 2]) \in Events
      BY <3>1, <1>2, EventTyped DEF EventTypes
    <3>. QED BY <3>2, <2>2 DEF GateEvents
  <2>. QED BY <2>1, <2>2
<1>6. GateEvents = [i \in 1..(2 * NumGates) |-> GateEvents[i]]
  BY DEF GateEvents
<1>. QED BY <1>1, <1>5, <1>6

LEMMA ObservationEventsTyped ==
  ASSUME TypeOK
  PROVE  ObservationEvents \in Seq(Events)
<1>. DEFINE n == Len(observations)
<1>1. n \in Nat /\ 2 * n \in Nat /\ (\A j \in 1..n : observations[j] \in Reports)
  BY DEF TypeOK
<1>2. \A i \in 1..(2 * n) : /\ i % 2 = 1 => (i + 1) \div 2 \in 1..n
                            /\ i % 2 # 1 => i \div 2 \in 1..n
  BY <1>1
<1>3. \A j \in 1..n : observations[j].checklet \in Nat /\ observations[j].verdict \in Payloads
  BY <1>1, RunAssumption DEF Reports, Payloads
<1>4. \A i \in 1..(2 * n) : ObservationEvents[i] \in Events
  <2>. TAKE i \in 1..(2 * n)
  <2>1. CASE i % 2 = 1
    <3>1. observations[(i + 1) \div 2].checklet \in Nat
      BY <2>1, <1>2, <1>3
    <3>2. Event("checklet_started", observations[(i + 1) \div 2].checklet, "none") \in Events
      BY <3>1, EventTyped DEF EventTypes, Payloads
    <3>. QED BY <3>2, <2>1 DEF ObservationEvents
  <2>2. CASE i % 2 # 1
    <3>1. /\ observations[i \div 2].checklet \in Nat
          /\ observations[i \div 2].verdict \in Payloads
      BY <2>2, <1>2, <1>3
    <3>2. Event("checklet_finished", observations[i \div 2].checklet,
                observations[i \div 2].verdict) \in Events
      BY <3>1, EventTyped DEF EventTypes, Payloads
    <3>. QED BY <3>2, <2>2 DEF ObservationEvents
  <2>. QED BY <2>1, <2>2
<1>5. ObservationEvents = [i \in 1..(2 * n) |-> ObservationEvents[i]]
  BY DEF ObservationEvents
<1>. QED BY <1>1, <1>4, <1>5

\* The policy returns an assessment, whatever it is given.
LEMMA AssessTyped ==
  ASSUME NEW g, NEW o
  PROVE  Assess(g, o) \in Assessments
<1>1. Reason(g, o) \in DOMAIN RiskOf
  BY DEF Reason, RiskOf
<1>2. \A r \in DOMAIN RiskOf : RiskOf[r] \in RiskBands
  BY DEF RiskOf, RiskBands
<1>. QED BY <1>1, <1>2 DEF Assess, Assessments, Actions

LEMMA CounterfactualTyped ==
  ASSUME NEW a, NEW h \in HardOutcomes
  PROVE  Counterfactual(a, h) \in Counterfactuals
<1>1. CASE h \in {"outcome_unknown", "infrastructure_error"}
  BY <1>1 DEF Counterfactual, Counterfactuals
<1>2. CASE h = "accepted"
  BY <1>2 DEF Counterfactual, Counterfactuals
<1>3. CASE h = "rejected"
  BY <1>3 DEF Counterfactual, Counterfactuals
<1>. QED BY <1>1, <1>2, <1>3 DEF HardOutcomes

LEMMA InitTyped == Init => TypeOK
<1>. SUFFICES ASSUME Init PROVE TypeOK
  OBVIOUS
<1>1. 1 \in 1..(NumChecklets + 1)
  BY RunAssumption
<1>2. /\ gates \in Seq(GateStatuses) /\ observations \in Seq(Reports)
      /\ script \in Seq(Events) /\ sent \in 0..Len(script)
  BY DEF Init
<1>3. pc \in {"new"} /\ answer \in {MV!NoAnswer} /\ assessment \in {NoAssessment}
  BY DEF Init
<1>. QED BY <1>1, <1>2, <1>3 DEF Init, TypeOK

\* The verifier's answer gives an outcome of the contract.
LEMMA AnswerTyped ==
  ASSUME NEW a \in MV!Answers
  PROVE  (IF a.kind = "result" /\ a.bound THEN a.outcome ELSE "infrastructure_error")
           \in HardOutcomes
BY DEF MV!Answers, MV!Raised, MV!HardOutcomes, HardOutcomes

LEMMA EmitTyped ==
  ASSUME TypeOK, NEW line \in BOOLEAN, NEW raises \in BOOLEAN, NEW t \in BOOLEAN,
         Emit(line, raises, t)
  PROVE  TypeOK'
<1>1. /\ sent' = sent + 1 /\ sent + 1 \in 0..Len(script)
      /\ 1..sent \subseteq 1..(sent + 1) /\ sent + 1 \in 1..(sent + 1)
  BY DEF TypeOK, Emit
<1>2. persisted' \subseteq 1..sent' /\ failed' \subseteq 1..sent'
  BY <1>1 DEF TypeOK, Emit
<1>. QED BY <1>1, <1>2 DEF TypeOK, Emit, runVars

\* Appending events to the script keeps the sink's positions in range.
LEMMA ScriptGrows ==
  ASSUME TypeOK, NEW es \in Seq(Events), script' = script \o es, UNCHANGED sinkVars
  PROVE  /\ script' \in Seq(Events)
         /\ sent' \in 0..Len(script')
         /\ persisted' \subseteq 1..sent'
         /\ failed' \subseteq 1..sent'
         /\ torn' \in BOOLEAN
<1>1. /\ script' \in Seq(Events)
      /\ Len(script') = Len(script) + Len(es)
  BY ConcatElements DEF TypeOK
<1>2. Len(script) \in Nat /\ Len(es) \in Nat
  BY DEF TypeOK
<1>. QED BY <1>1, <1>2 DEF TypeOK, sinkVars

LEMMA StepTyped == TypeOK /\ [Next]_vars => TypeOK'
<1>. SUFFICES ASSUME TypeOK, [Next]_vars PROVE TypeOK'
  OBVIOUS
<1>1. CASE EmitLine
  BY <1>1, EmitTyped DEF EmitLine
<1>2. CASE EmitRaises
  BY <1>2, EmitTyped DEF EmitRaises, TypeOK
<1>3. CASE Register
  <2>1. << Event("task_received", 0, "none"), Event("artifact_registered", 0, "none") >>
          \in Seq(Events)
    BY EventTyped DEF EventTypes, Payloads
  <2>. QED BY <1>3, <2>1, ScriptGrows DEF Register, TypeOK
<1>4. CASE RegisterFails
  BY <1>4 DEF RegisterFails, TypeOK, Terminal, sinkVars
<1>5. CASE EvaluateGate
  <2>1. PICK status \in GateStatuses \cup {"raises"} :
          gates' = Append(gates, IF status = "raises" THEN "error" ELSE status)
    BY <1>5 DEF EvaluateGate
  <2>2. gates' \in Seq(GateStatuses)
    BY <2>1 DEF TypeOK, GateStatuses
  <2>. QED BY <1>5, <2>2 DEF EvaluateGate, TypeOK, sinkVars
<1>6. CASE ReportGates
  <2>1. GateEvents \in Seq(Events)
    BY <1>6, GateEventsTyped DEF ReportGates
  <2>. QED BY <1>6, <2>1, ScriptGrows DEF ReportGates, TypeOK
<1>7. CASE SkipChecklet
  <2>1. checklet' \in 1..(NumChecklets + 1)
    BY <1>7, RunAssumption DEF SkipChecklet
  <2>. QED BY <1>7, <2>1 DEF SkipChecklet, TypeOK, sinkVars
<1>8. ASSUME NEW o \in Observations, NEW b \in BOOLEAN, CheckletObserves(o, b)
      PROVE  TypeOK'
  <2>1. checklet' \in 1..(NumChecklets + 1) /\ broken' \subseteq 1..NumChecklets
    BY <1>8, RunAssumption DEF CheckletObserves, TypeOK
  <2>2. Report(checklet, o) \in Reports
    BY <1>8 DEF CheckletObserves, Report, Reports, Observations
  <2>3. observations' \in Seq(Reports)
    BY <1>8, <2>2 DEF CheckletObserves, TypeOK
  <2>. QED BY <1>8, <2>1, <2>3 DEF CheckletObserves, TypeOK, sinkVars
<1>9. CASE CheckletAnswers
  BY <1>9, <1>8, RunAssumption DEF CheckletAnswers
<1>10. CASE CheckletFails
  <2>1. ErrorObservation \in Observations
    BY DEF ErrorObservation, Observations, Verdicts, Severities
  <2>. QED BY <1>10, <2>1, <1>8 DEF CheckletFails
<1>11. CASE ReportChecklets
  BY <1>11, ObservationEventsTyped, ScriptGrows DEF ReportChecklets, TypeOK
<1>12. CASE AssessShadow
  <2>1. assessment' \in Assessments
    BY <1>12, AssessTyped DEF AssessShadow
  <2>2. << Event("shadow_assessment_created", 0, assessment'.action),
           Event("hard_verifier_started", 0, "none") >> \in Seq(Events)
    BY <2>1, EventTyped DEF EventTypes, Payloads, Assessments
  <2>. QED BY <1>12, <2>1, <2>2, ScriptGrows DEF AssessShadow, TypeOK
<1>13. CASE HardVerify
  <2>1. answer' \in MV!Answers /\ outcome' \in HardOutcomes
    BY <1>13, AnswerTyped DEF HardVerify
  <2>2. Counterfactual(assessment.action, outcome') \in Counterfactuals
    BY <2>1, CounterfactualTyped
  <2>3. << Event("hard_verifier_finished", 0, outcome'),
           Event("shadow_comparison_created", 0, Counterfactual(assessment.action, outcome')),
           Event("run_completed", 0, outcome') >> \in Seq(Events)
    BY <2>1, <2>2, EventTyped DEF EventTypes, Payloads
  <2>. QED BY <1>13, <2>1, <2>3, ScriptGrows DEF HardVerify, TypeOK
<1>14. CASE Return
  BY <1>14 DEF Return, TypeOK, Terminal, sinkVars
<1>15. CASE Crash
  BY <1>15 DEF Crash, TypeOK, Terminal, sinkVars
<1>16. CASE UNCHANGED vars
  BY <1>16 DEF vars, runVars, sinkVars, TypeOK
<1>17. CASE CheckletHangs
  BY <1>17 DEF CheckletHangs, TypeOK, sinkVars
<1>18. CASE VerifierHangs
  BY <1>18 DEF VerifierHangs, TypeOK, sinkVars
<1>. QED
  BY <1>1, <1>2, <1>3, <1>4, <1>5, <1>6, <1>7, <1>9, <1>10, <1>11, <1>12, <1>13,
     <1>14, <1>15, <1>16, <1>17, <1>18 DEF Next, Steps

(* Every variable keeps its type in every behaviour of a run. *)
THEOREM TypeCorrect == SafeSpec => []TypeOK
BY InitTyped, StepTyped, PTL DEF SafeSpec

-----------------------------------------------------------------------------
(* The hard verifier is mandatory and alone decides *)

LEMMA StepRefines == TypeOK /\ [Next]_vars => [MV!Next]_(MV!vars)
<1>. SUFFICES ASSUME TypeOK, [Next]_vars PROVE [MV!Next]_(MV!vars)
  OBVIOUS
<1>. USE DEF Phase, Terminal
<1>1. CASE EmitLine
  BY <1>1 DEF EmitLine, Emit, runVars, MV!vars
<1>2. CASE EmitRaises
  BY <1>2 DEF EmitRaises, Emit, runVars, MV!vars
<1>3. CASE Register
  BY <1>3 DEF Register, MV!Next, MV!Register
<1>4. CASE RegisterFails
  BY <1>4 DEF RegisterFails, MV!Next, MV!Register
<1>5. CASE EvaluateGate
  BY <1>5 DEF EvaluateGate, MV!vars
<1>6. CASE ReportGates
  BY <1>6 DEF ReportGates, MV!vars
<1>7. CASE SkipChecklet
  BY <1>7 DEF SkipChecklet, MV!vars
<1>8. CASE CheckletAnswers
  BY <1>8 DEF CheckletAnswers, CheckletObserves, MV!vars
<1>9. CASE CheckletFails
  BY <1>9 DEF CheckletFails, CheckletObserves, MV!vars
<1>10. CASE ReportChecklets
  BY <1>10 DEF ReportChecklets, MV!vars
<1>11. CASE AssessShadow
  BY <1>11 DEF AssessShadow, MV!vars
<1>12. CASE HardVerify
  <2>1. MV!Verify
    BY <1>12 DEF HardVerify, MV!Verify, MV!OutcomeOf
  <2>. QED BY <2>1 DEF MV!Next
<1>13. CASE Return
  BY <1>13 DEF Return, MV!Next, MV!Return
<1>14. CASE Crash
  <2>1. Phase \in {"new", "registered", "hung", "verified"}
    BY <1>14 DEF Crash, TypeOK
  <2>2. Phase' = "crashed"
    BY <1>14 DEF Crash
  <2>. QED BY <1>14, <2>1, <2>2 DEF Crash, MV!Next, MV!Crash
<1>15. CASE UNCHANGED vars
  BY <1>15 DEF vars, runVars, MV!vars
<1>16. CASE CheckletHangs
  BY <1>16 DEF CheckletHangs, MV!Next, MV!Hang
<1>17. CASE VerifierHangs
  BY <1>17 DEF VerifierHangs, MV!Next, MV!Hang
<1>. QED
  BY <1>1, <1>2, <1>3, <1>4, <1>5, <1>6, <1>7, <1>8, <1>9, <1>10, <1>11, <1>12, <1>13,
     <1>14, <1>15, <1>16, <1>17 DEF Next, Steps

(* Every run is a behaviour of MandatoryVerification: whatever the gates,   *)
(* the checklets, the shadow policy and the telemetry sink do, the run      *)
(* returns only after one answer of the hard verifier, and returns it; a    *)
(* run that waits for ever for one of them has no outcome.                  *)
THEOREM RefinesMandatoryVerification == SafeSpec => MV!SafeSpec
<1>1. Init => MV!Init
  BY DEF Init, MV!Init, Phase
<1>2. QED
  BY <1>1, StepRefines, TypeCorrect, PTL DEF SafeSpec, MV!SafeSpec

-----------------------------------------------------------------------------
(* Telemetry *)

LEMMA StepTears == TypeOK /\ TearInv /\ [Next]_vars => TearInv'
<1>. SUFFICES ASSUME TypeOK, TearInv, [Next]_vars PROVE TearInv'
  OBVIOUS
<1>. USE DEF TearInv, EvidenceAccountedUpToTear
<1>1. ASSUME NEW line \in BOOLEAN, NEW raises \in BOOLEAN, NEW t \in BOOLEAN,
             Emit(line, raises, t), line \/ raises, t => raises
      PROVE  TearInv'
  <2>1. sent \in Nat /\ sent' = sent + 1 /\ sent' - 1 = sent
    BY <1>1 DEF Emit, TypeOK
  <2>2. persisted \subseteq persisted' /\ failed \subseteq failed'
    BY <1>1 DEF Emit
  <2>3. ASSUME NEW i \in 1..sent', i \notin persisted' \cup failed'
        PROVE  i - 1 \in failed'
    <3>1. CASE i \in 1..sent
      BY <3>1, <2>2, <2>3
    <3>2. CASE i = sent + 1
      <4>1. ~ raises /\ torn
        BY <3>2, <2>3, <1>1 DEF Emit
      <4>. QED BY <4>1, <3>2, <2>1, <2>2
    <3>. QED BY <3>1, <3>2, <2>1
  <2>4. torn' => sent' \in failed'
    BY <1>1 DEF Emit
  <2>. QED BY <2>3, <2>4
<1>2. CASE EmitLine
  BY <1>2, <1>1 DEF EmitLine
<1>3. CASE EmitRaises
  BY <1>3, <1>1 DEF EmitRaises, TypeOK
<1>4. CASE UNCHANGED sinkVars
  BY <1>4 DEF sinkVars
<1>. QED
  BY <1>2, <1>3, <1>4 DEF Next, Steps, Register, RegisterFails, EvaluateGate, ReportGates,
     SkipChecklet, CheckletAnswers, CheckletFails, CheckletHangs, VerifierHangs,
     CheckletObserves, ReportChecklets,
     AssessShadow, HardVerify, Return, Crash, vars

(* An emitted event that neither can be read back nor is in                 *)
(* telemetry_failures comes right after one that is.                        *)
THEOREM EvidenceUpToTear == SafeSpec => []EvidenceAccountedUpToTear
<1>1. Init => TearInv
  BY DEF Init, TearInv, EvidenceAccountedUpToTear
<1>2. QED
  BY <1>1, StepTears, TypeCorrect, PTL DEF SafeSpec, TearInv

LEMMA StepAccounts ==
  ~ SinkTears /\ TypeOK /\ ~ torn /\ EvidenceAccounted /\ [Next]_vars
    => ~ torn' /\ EvidenceAccounted'
<1>. SUFFICES ASSUME ~ SinkTears, TypeOK, ~ torn, EvidenceAccounted, [Next]_vars
              PROVE  ~ torn' /\ EvidenceAccounted'
  OBVIOUS
<1>1. ASSUME NEW line \in BOOLEAN, NEW raises \in BOOLEAN,
             Emit(line, raises, FALSE), line \/ raises
      PROVE  ~ torn' /\ EvidenceAccounted'
  <2>1. sent \in Nat /\ sent' = sent + 1 /\ 1..sent' = 1..sent \cup {sent + 1}
    BY <1>1 DEF Emit, TypeOK
  <2>. QED BY <1>1, <2>1 DEF Emit, EvidenceAccounted
<1>2. CASE EmitLine
  BY <1>2, <1>1 DEF EmitLine
<1>3. CASE EmitRaises
  <2>1. torn = FALSE
    BY DEF TypeOK
  <2>. QED BY <1>3, <2>1, <1>1 DEF EmitRaises
<1>4. CASE UNCHANGED sinkVars
  BY <1>4 DEF sinkVars, EvidenceAccounted
<1>. QED
  BY <1>2, <1>3, <1>4 DEF Next, Steps, Register, RegisterFails, EvaluateGate, ReportGates,
     SkipChecklet, CheckletAnswers, CheckletFails, CheckletHangs, VerifierHangs,
     CheckletObserves, ReportChecklets,
     AssessShadow, HardVerify, Return, Crash, vars

(* With a sink whose appends are all or nothing (InMemoryEventSink) every   *)
(* emitted event can be read back or is in telemetry_failures.              *)
THEOREM EvidenceComplete == ~ SinkTears /\ SafeSpec => []EvidenceAccounted
<1>. SUFFICES ASSUME ~ SinkTears PROVE SafeSpec => []EvidenceAccounted
  OBVIOUS
<1>1. Init => ~ torn /\ EvidenceAccounted
  BY DEF Init, EvidenceAccounted
<1>2. TypeOK /\ (~ torn /\ EvidenceAccounted) /\ [Next]_vars => (~ torn /\ EvidenceAccounted)'
  BY StepAccounts
<1>3. QED
  BY <1>1, <1>2, TypeCorrect, PTL DEF SafeSpec

-----------------------------------------------------------------------------
(* The log speaks true *)

\* The events reported before the verifier is called do not speak of it.
LEMMA EarlyEvents ==
  ASSUME TypeOK
  PROVE  /\ \A e \in Elements(GateEvents) :
              e.type \notin {"hard_verifier_finished", "run_completed"}
         /\ \A e \in Elements(ObservationEvents) :
              e.type \notin {"hard_verifier_finished", "run_completed"}
BY DEF Elements, GateEvents, ObservationEvents, Event

LEMMA StepSpeaksTrue ==
  TypeOK /\ ScriptSpeaksTrue /\ [Next]_vars => ScriptSpeaksTrue'
<1>. SUFFICES ASSUME TypeOK, ScriptSpeaksTrue, [Next]_vars PROVE ScriptSpeaksTrue'
  OBVIOUS
<1>. USE DEF ScriptSpeaksTrue
<1>1. ASSUME NEW es \in Seq(Events), script' = script \o es, answer' = answer,
             \A e \in Elements(es) : e.type \notin {"hard_verifier_finished", "run_completed"},
             pc' \in {"new", "gates", "checklets", "assess", "verify"} => pc' = pc \/ answer = MV!NoAnswer
      PROVE  ScriptSpeaksTrue'
  <2>1. Elements(script') = Elements(script) \cup Elements(es)
    BY <1>1, ConcatElements DEF TypeOK
  <2>. QED BY <1>1, <2>1
<1>2. CASE Register
  <2>. DEFINE es == << Event("task_received", 0, "none"), Event("artifact_registered", 0, "none") >>
  <2>1. es \in Seq(Events)
    BY EventTyped DEF EventTypes, Payloads
  <2>2. \A e \in Elements(es) : e.type \notin {"hard_verifier_finished", "run_completed"}
    BY DEF Elements, Event
  <2>. QED BY <1>2, <1>1, <2>1, <2>2 DEF Register
<1>3. CASE ReportGates
  BY <1>3, <1>1, EarlyEvents, GateEventsTyped DEF ReportGates
<1>4. CASE ReportChecklets
  BY <1>4, <1>1, EarlyEvents, ObservationEventsTyped DEF ReportChecklets
<1>5. CASE AssessShadow
  <2>. DEFINE es == << Event("shadow_assessment_created", 0, assessment'.action),
                       Event("hard_verifier_started", 0, "none") >>
  <2>1. assessment' \in Assessments
    BY <1>5, AssessTyped DEF AssessShadow
  <2>2. es \in Seq(Events)
    BY <2>1, EventTyped DEF EventTypes, Payloads, Assessments
  <2>3. \A e \in Elements(es) : e.type \notin {"hard_verifier_finished", "run_completed"}
    BY DEF Elements, Event
  <2>. QED BY <1>5, <1>1, <2>2, <2>3 DEF AssessShadow
<1>6. CASE HardVerify
  <2>. DEFINE es == << Event("hard_verifier_finished", 0, outcome'),
                       Event("shadow_comparison_created", 0,
                             Counterfactual(assessment.action, outcome')),
                       Event("run_completed", 0, outcome') >>
  <2>1. answer' \in MV!Answers /\ outcome' \in HardOutcomes
    BY <1>6, AnswerTyped DEF HardVerify
  <2>2. Counterfactual(assessment.action, outcome') \in Counterfactuals
    BY <2>1, CounterfactualTyped
  <2>3. es \in Seq(Events)
    BY <2>1, <2>2, EventTyped DEF EventTypes, Payloads
  <2>4. Elements(script') = Elements(script) \cup Elements(es)
    <3>1. script' = script \o es
      BY <1>6 DEF HardVerify
    <3>2. script \in Seq(Events)
      BY DEF TypeOK
    <3>. HIDE DEF es
    <3>. QED BY <3>1, <3>2, <2>3, ConcatElements
  <2>5. answer' # MV!NoAnswer
    BY <2>1 DEF MV!Answers, MV!Raised, MV!NoAnswer
  <2>6. \A e \in Elements(es) :
          e.type \in {"hard_verifier_finished", "run_completed"} => e.says = outcome'
    BY DEF Elements, Event
  <2>7. outcome' = "accepted" =>
          answer' = [kind |-> "result", outcome |-> "accepted", bound |-> TRUE]
    BY <1>6, <2>1 DEF HardVerify, MV!Answers, MV!Raised
  <2>8. \A e \in Elements(script) : e.type \notin {"hard_verifier_finished", "run_completed"}
    BY <1>6 DEF HardVerify
  <2>. QED BY <1>6, <2>4, <2>5, <2>6, <2>7, <2>8 DEF HardVerify
<1>7. CASE UNCHANGED <<script, answer>> /\ (pc' = pc \/ pc' \in Terminal)
  BY <1>7 DEF Terminal
<1>. QED
  BY <1>2, <1>3, <1>4, <1>5, <1>6, <1>7 DEF Next, Steps, EmitLine, EmitRaises, Emit, RegisterFails,
     EvaluateGate, SkipChecklet, CheckletAnswers, CheckletFails, CheckletHangs, VerifierHangs,
     CheckletObserves,
     Return, Crash, vars, runVars, Terminal

(* A line of the audit log that reports a verdict is never ahead of the     *)
(* verifier, and never says accepted on its own account.                    *)
THEOREM LogIsTruthful == SafeSpec => []LogSpeaksTrue
<1>1. Init => ScriptSpeaksTrue
  BY DEF Init, ScriptSpeaksTrue, Elements
<1>2. TypeOK /\ ScriptSpeaksTrue => LogSpeaksTrue
  BY DEF TypeOK, ScriptSpeaksTrue, LogSpeaksTrue, Elements
<1>3. QED
  BY <1>1, <1>2, StepSpeaksTrue, TypeCorrect, PTL DEF SafeSpec

-----------------------------------------------------------------------------
(* A waiver is earned *)

\* The permissive rule fires only when no other rule does.
LEMMA WaiveRule ==
  ASSUME NEW g, NEW obs, Assess(g, obs).action = "would_waive"
  PROVE  /\ g \cap {"fail", "error"} = {}
         /\ obs # {}
         /\ \A o \in obs : o.verdict \notin {"error", "abstain"}
         /\ \A o \in obs : o.verdict = "finding" => o.severity \notin {"high", "critical", "medium"}
<1>1. Reason(g, obs) = "no_shadow_escalation_rule_triggered"
  BY DEF Assess
<1>. QED BY <1>1 DEF Reason, HasVerdict, Finding

(* The shadow policy is monotone in the evidence against waiving            *)
(* (ShadowAggregator.assess): no further gate and no further observation    *)
(* turns a recommendation to verify into a waiver, except that the first    *)
(* observation of all ends the rule for an artifact nobody observed.        *)
THEOREM MoreEvidenceNeverWaives ==
  ASSUME NEW g, NEW obs, NEW g2, NEW obs2, g \subseteq g2, obs \subseteq obs2, obs # {},
         Assess(g, obs).action = "would_hard_verify"
  PROVE  Assess(g2, obs2).action = "would_hard_verify"
<1>1. SUFFICES ASSUME Assess(g2, obs2).action = "would_waive" PROVE FALSE
  BY DEF Assess
<1>2. /\ g2 \cap {"fail", "error"} = {}
      /\ \A o \in obs2 : o.verdict \notin {"error", "abstain"}
      /\ \A o \in obs2 :
           o.verdict = "finding" => o.severity \notin {"high", "critical", "medium"}
  BY <1>1, WaiveRule
<1>3. g \cap {"fail", "error"} = {}
  BY <1>2
<1>4. /\ ~ HasVerdict(obs, "error") /\ ~ HasVerdict(obs, "abstain")
      /\ ~ Finding(obs, {"high", "critical"}) /\ ~ Finding(obs, {"medium"})
  BY <1>2 DEF HasVerdict, Finding
<1>5. Reason(g, obs) = "no_shadow_escalation_rule_triggered"
  BY <1>3, <1>4 DEF Reason
<1>6. Assess(g, obs).action = "would_waive"
  BY <1>5 DEF Assess
<1>7. QED BY <1>6

LEMMA StepReports ==
  TypeOK /\ CheckletsReported /\ [Next]_vars => CheckletsReported'
<1>. SUFFICES ASSUME TypeOK, CheckletsReported, [Next]_vars PROVE CheckletsReported'
  OBVIOUS
<1>. USE DEF CheckletsReported, Applies
<1>1. CASE SkipChecklet
  <2>1. checklet' = checklet + 1 /\ checklet \in Nat /\ ~ Applies(checklet)
    BY <1>1 DEF SkipChecklet, TypeOK
  <2>2. UNCHANGED <<pc, artifactType, observations, broken, assessment>>
    BY <1>1 DEF SkipChecklet
  <2>3. pc = "checklets"
    BY <1>1 DEF SkipChecklet
  <2>4. \A c \in 1..NumChecklets : c < checklet' /\ Applies(c) => c < checklet
    BY <2>1, RunAssumption
  <2>5. \A c \in broken : c < checklet'
    BY <2>1, RunAssumption DEF TypeOK
  <2>6. Elements(observations') = Elements(observations)
    BY <2>2
  <2>. QED BY <2>2, <2>3, <2>4, <2>5, <2>6
<1>2. ASSUME NEW o \in Observations, NEW b \in BOOLEAN, CheckletObserves(o, b),
             b => o.verdict = "error"
      PROVE  CheckletsReported'
  <2>. DEFINE r == Report(checklet, o)
  <2>1. r \in Reports /\ r.checklet = checklet /\ r.verdict = o.verdict
    BY <1>2 DEF CheckletObserves, Report, Reports, Observations
  <2>2. Elements(observations') = Elements(observations) \cup {r}
    BY <1>2, <2>1, AppendElements DEF CheckletObserves, TypeOK
  <2>3. /\ UNCHANGED <<pc, artifactType, assessment>>
        /\ pc = "checklets" /\ Applies(checklet)
        /\ checklet' = checklet + 1 /\ checklet \in Nat
        /\ broken' = IF b THEN broken \cup {checklet} ELSE broken
    BY <1>2 DEF CheckletObserves, TypeOK
  <2>4. ASSUME NEW c \in 1..NumChecklets, c < checklet', Applies(c)
        PROVE  \E e \in Elements(observations') :
                 e.checklet = c /\ (c \in broken' => e.verdict = "error")
    <3>1. CASE c = checklet
      <4>1. checklet \notin broken
        BY <2>3
      <4>. QED BY <3>1, <4>1, <2>1, <2>2, <2>3, <1>2
    <3>2. CASE c # checklet
      BY <3>2, <2>2, <2>3, <2>4, RunAssumption
    <3>. QED BY <3>1, <3>2
  <2>5. \A e \in Elements(observations') : Applies(e.checklet)'
    BY <2>1, <2>2, <2>3
  <2>6. \A c \in broken' : c < checklet' /\ Applies(c)'
    BY <2>3, RunAssumption DEF TypeOK
  <2>. QED BY <2>3, <2>4, <2>5, <2>6
<1>3. CASE CheckletAnswers
  BY <1>3, <1>2, RunAssumption DEF CheckletAnswers
<1>4. CASE CheckletFails
  <2>1. ErrorObservation \in Observations /\ ErrorObservation.verdict = "error"
    BY DEF ErrorObservation, Observations, Verdicts, Severities
  <2>. QED BY <1>4, <1>2, <2>1 DEF CheckletFails
<1>5. CASE AssessShadow
  BY <1>5 DEF AssessShadow
<1>6. CASE UNCHANGED <<artifactType, observations, broken, checklet, assessment>>
           /\ (pc' = "assess" => pc = "assess" \/ checklet = NumChecklets + 1)
           /\ (pc' \in {"new", "gates", "checklets", "assess"} =>
                 pc \in {"new", "gates", "checklets", "assess"})
           /\ (pc' \in {"verify", "return"} => pc \in {"verify", "return"})
  BY <1>6
<1>7. CASE CheckletHangs \/ VerifierHangs
  BY <1>6, <1>7 DEF CheckletHangs, VerifierHangs
<1>. QED
  BY <1>1, <1>3, <1>4, <1>5, <1>6, <1>7 DEF Next, Steps, EmitLine, EmitRaises, Emit, Register, RegisterFails,
     EvaluateGate, ReportGates, ReportChecklets, HardVerify, Return, Crash, vars, runVars, Terminal

LEMMA StepWaives == TypeOK /\ WaiveInv /\ [Next]_vars => WaiveIsEarned'
<1>. SUFFICES ASSUME TypeOK, WaiveInv, [Next]_vars PROVE WaiveIsEarned'
  OBVIOUS
<1>. USE DEF WaiveInv, WaiveIsEarned
<1>1. CASE AssessShadow
  <2>. SUFFICES ASSUME Assess(Elements(gates), Elements(observations)).action = "would_waive"
                PROVE  /\ Elements(gates) \subseteq {"pass", "not_applicable"}
                       /\ \E c \in 1..NumChecklets : Applies(c)
                       /\ broken = {}
                       /\ \A c \in 1..NumChecklets : Applies(c) =>
                            \E o \in Elements(observations) :
                              /\ o.checklet = c
                              /\ o.verdict = "clean"
                                   \/ (o.verdict = "finding" /\ o.severity \in {"info", "low"})
    BY <1>1 DEF AssessShadow, Applies
  <2>1. /\ Elements(gates) \cap {"fail", "error"} = {}
        /\ Elements(observations) # {}
        /\ \A o \in Elements(observations) : o.verdict \notin {"error", "abstain"}
        /\ \A o \in Elements(observations) :
             o.verdict = "finding" => o.severity \notin {"high", "critical", "medium"}
    BY WaiveRule
  <2>2. Elements(gates) \subseteq GateStatuses /\ Elements(observations) \subseteq Reports
    BY DEF TypeOK, Elements
  <2>3. Elements(gates) \subseteq {"pass", "not_applicable"}
    BY <2>1, <2>2 DEF GateStatuses
  <2>4. \A o \in Elements(observations) :
          o.verdict = "clean" \/ (o.verdict = "finding" /\ o.severity \in {"info", "low"})
    BY <2>1, <2>2 DEF Reports, Verdicts, Severities
  <2>5. \E c \in 1..NumChecklets : Applies(c)
    BY <2>1, <2>2 DEF Reports, CheckletsReported
  <2>6. checklet = NumChecklets + 1
    BY <1>1 DEF AssessShadow, CheckletsReported
  <2>7. \A c \in 1..NumChecklets : c < checklet
    BY <2>6, RunAssumption
  <2>8. broken = {}
    BY <2>1, <2>7 DEF CheckletsReported, TypeOK
  <2>9. \A c \in 1..NumChecklets : Applies(c) =>
          \E o \in Elements(observations) : o.checklet = c
    BY <2>7 DEF CheckletsReported
  <2>. QED BY <2>3, <2>4, <2>5, <2>8, <2>9
<1>2. CASE pc \in {"new", "gates", "checklets"} /\ UNCHANGED assessment
  BY <1>2 DEF CheckletsReported, NoAssessment
<1>3. CASE UNCHANGED <<artifactType, gates, observations, broken, assessment>>
  BY <1>3 DEF Applies
<1>. QED
  BY <1>1, <1>2, <1>3 DEF Next, Steps, EmitLine, EmitRaises, Emit, Register, RegisterFails,
     EvaluateGate, SkipChecklet, CheckletAnswers, CheckletFails, CheckletHangs, VerifierHangs,
     CheckletObserves,
     ReportGates, ReportChecklets, HardVerify, Return, Crash, vars, runVars

(* The shadow policy would waive only an artifact that every gate let pass, *)
(* that some checklet applies to and that every applicable checklet has     *)
(* been through without failing and with nothing worse than a low finding.  *)
THEOREM WaiversAreEarned == SafeSpec => []WaiveIsEarned
<1>1. Init => WaiveInv
  <2>1. Init => 1 \in Nat /\ Elements(observations) = {}
    BY DEF Init, Elements
  <2>. QED BY <2>1, RunAssumption DEF Init, WaiveInv, CheckletsReported, WaiveIsEarned, NoAssessment
<1>2. TypeOK /\ WaiveInv /\ [Next]_vars => WaiveInv'
  BY StepReports, StepWaives DEF WaiveInv
<1>3. WaiveInv => WaiveIsEarned
  BY DEF WaiveInv
<1>4. QED
  BY <1>1, <1>2, <1>3, TypeCorrect, PTL DEF SafeSpec

=============================================================================
