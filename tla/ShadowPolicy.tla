---------------------------- MODULE ShadowPolicy ----------------------------
(***************************************************************************)
(* The deterministic shadow policy of VS-V1 (aggregation.py) and its       *)
(* comparison with the hard verifier (contracts.py).  Pure operators: the  *)
(* runner applies them once per run.  A gate is abstracted to its status   *)
(* and an observation to the record [verdict, severity], which is all that *)
(* ShadowAggregator.assess looks at; `any(...)` over a tuple is a          *)
(* quantifier over the set of its elements.                                *)
(***************************************************************************)

GateStatuses == {"pass", "fail", "error", "not_applicable"}
Severities   == {"info", "low", "medium", "high", "critical"}
Verdicts     == {"clean", "finding", "abstain", "error"}
RiskBands    == {"low", "elevated", "high", "indeterminate"}
Actions      == {"would_waive", "would_hard_verify"}  \* no rule assigns would_escalate
HardOutcomes == {"accepted", "rejected", "outcome_unknown", "infrastructure_error"}
Counterfactuals ==
  {"correct_shadow_waive", "false_shadow_waive", "correct_shadow_verify",
   "unnecessary_shadow_verify", "indeterminate"}

Observations == [verdict : Verdicts, severity : Severities]

\* error_observation: every failure of a checklet is reported with this value.
ErrorObservation == [verdict |-> "error", severity |-> "high"]

Finding(obs, levels) ==
  \E o \in obs : o.verdict = "finding" /\ o.severity \in levels

HasVerdict(obs, v) == \E o \in obs : o.verdict = v

-----------------------------------------------------------------------------
\* Mutant: a run that nobody looked at falls through to the permissive rule.
ReasonWithoutCoverage(gates, obs) ==
  IF gates \cap {"fail", "error"} # {}         THEN "objective_gate_not_pass"
  ELSE IF HasVerdict(obs, "error")             THEN "required_checklet_error"
  ELSE IF HasVerdict(obs, "abstain")           THEN "required_checklet_abstain"
  ELSE IF Finding(obs, {"high", "critical"})   THEN "high_severity_finding"
  ELSE IF Finding(obs, {"medium"})             THEN "medium_finding"
  ELSE "no_shadow_escalation_rule_triggered"

(* The rule that fires, in the order of the if/elif chain.                  *)
Reason(gates, obs) ==
  IF gates \cap {"fail", "error"} # {}         THEN "objective_gate_not_pass"
  ELSE IF HasVerdict(obs, "error")             THEN "required_checklet_error"
  ELSE IF HasVerdict(obs, "abstain")           THEN "required_checklet_abstain"
  ELSE IF Finding(obs, {"high", "critical"})   THEN "high_severity_finding"
  ELSE IF Finding(obs, {"medium"})             THEN "medium_finding"
  ELSE IF obs = {}                             THEN "no_checklet_observed_artifact"
  ELSE "no_shadow_escalation_rule_triggered"

RiskOf ==
  [objective_gate_not_pass             |-> "high",
   required_checklet_error             |-> "indeterminate",
   required_checklet_abstain           |-> "indeterminate",
   high_severity_finding               |-> "high",
   medium_finding                      |-> "elevated",
   no_checklet_observed_artifact       |-> "indeterminate",
   no_shadow_escalation_rule_triggered |-> "low"]

\* ShadowAggregator.assess: the gates' statuses and the observations to an
\* assessment.  Exactly one rule assigns the permissive action.
Assess(gates, obs) ==
  LET reason == Reason(gates, obs)
  IN  [risk   |-> RiskOf[reason],
       action |-> IF reason = "no_shadow_escalation_rule_triggered"
                  THEN "would_waive" ELSE "would_hard_verify",
       reason |-> reason]

Assessments == [risk : RiskBands, action : Actions, reason : DOMAIN RiskOf]

\* compare_shadow_to_hard_verifier: what the shadow action would have meant.
Counterfactual(action, outcome) ==
  CASE outcome \in {"outcome_unknown", "infrastructure_error"} -> "indeterminate"
    [] outcome = "accepted" /\ action = "would_waive" -> "correct_shadow_waive"
    [] outcome = "rejected" /\ action = "would_waive" -> "false_shadow_waive"
    [] outcome = "rejected" /\ action # "would_waive" -> "correct_shadow_verify"
    [] outcome = "accepted" /\ action # "would_waive" -> "unnecessary_shadow_verify"

=============================================================================
