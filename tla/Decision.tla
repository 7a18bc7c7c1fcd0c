------------------------------- MODULE Decision -------------------------------
(***************************************************************************)
(* What an operational analysis makes of a dataset (analysis.py): the      *)
(* records it may use, the criterion counts, the association with the hard *)
(* verdict, the low-risk region, and decide_v2's cascade of gates over     *)
(* them.  Sets of records stand for the lists the code filters; a rate is  *)
(* never computed, two rates are compared by multiplying across.           *)
(***************************************************************************)
EXTENDS Ingestion

CONSTANTS
  MinDeterminate,  \* DecisionGateConfig.minimum_real_determinate_n
  MinDescriptive   \* MINIMUM_DESCRIPTIVE_N: fewer records are descriptive only

ASSUME DecisionAssumption == MinDeterminate \in Nat /\ MinDescriptive \in Nat

Decisions == {"PROCEED_TO_V2_RESEARCH", "REWORK_CHECKLET_SET", "COLLECT_MORE_V1_2_DATA",
              "DIAGNOSTIC_VALUE_ONLY", "STOP_SELECTIVE_VERIFICATION_PATH"}

Partition(r) == GroupOf[r.task].partition

\* partition_by_group: the group is a repository's family of tasks, and the
\* candidate's lineage is by default the family, whatever the repository.
Lineages(r) ==
  LET g == GroupOf[r.task] IN {<<g.repository, g.family>>, <<g.family>>}

\* Mutant: of the sealed partitions only the reserve is left out.
UsableButReserve(rs) == {r \in rs : Partition(r) # "calibration_reserved"}

\* filter_records_for_scope, operational scope.
Usable(rs) == {r \in rs : Partition(r) \in Operational}

Determinate(rs)    == {r \in rs : r.outcome \in {"accepted", "rejected"}}
Rejected(rs)       == {r \in rs : r.outcome = "rejected"}
\* Mutant: a controlled mutation counts as a real task.
DeterminateOfAll(rs) == Determinate(rs)
RealDeterminate(rs)  == {r \in Determinate(rs) : r.origin \in Real}

\* More than one repository, task family and patch size.
Diverse(rs) ==
  \A f \in {"repository", "family", "size"} : Cardinality({GroupOf[r.task][f] : r \in rs}) > 1

\* The rate of rejections in as is below that in bs; neither is of nothing.
RejectedLess(as, bs) ==
  /\ as # {} /\ bs # {}
  /\ Cardinality(Rejected(as)) * Cardinality(bs) < Cardinality(Rejected(bs)) * Cardinality(as)

-----------------------------------------------------------------------------
Has(r, c, v) == r.obs[c] # Unseen /\ r.obs[c].verdict = v

\* criterion_metrics, on the evaluation-grade labels; an observation that is no
\* finding, an abstention or an error too, stands for "not found".
TruePositive(rs, c)  == {r \in rs : r.ast[c] = "true" /\ Has(r, c, "finding")}
FalsePositive(rs, c) == {r \in rs : r.ast[c] = "false" /\ Has(r, c, "finding")}
FalseNegative(rs, c) == {r \in rs : r.ast[c] = "true" /\ ~ Has(r, c, "finding")}

\* precision at least 0.6 and recall at least 0.5, both defined.
CriterionSignal(rs, c) ==
  LET tp == Cardinality(TruePositive(rs, c))
      fp == Cardinality(FalsePositive(rs, c))
      fn == Cardinality(FalseNegative(rs, c))
  IN  tp > 0 /\ 5 * tp >= 3 * (tp + fp) /\ 2 * tp >= tp + fn

\* predictive_metrics: rejected more often after a finding than after a clean.
PredictiveSignal(rs, c) ==
  LET With(v) == {r \in Determinate(rs) : Has(r, c, v)}
  IN  /\ RejectedLess(With("clean"), With("finding"))
      /\ Cardinality(With("finding")) >= MinDescriptive

-----------------------------------------------------------------------------
GatesPass(r) == r.gates = {"pass"}

\* Mutant: an abstention is as good as a clean answer.
LowRiskWithAbstentions(r) ==
  /\ GatesPass(r)
  /\ \A o \in Seen(r.obs) : o.verdict # "error"
  /\ ~ Finding(Seen(r.obs), {"medium", "high", "critical"})

\* _low_risk: of a record without observations it says yes.
LowRisk(r) ==
  /\ GatesPass(r)
  /\ \A o \in Seen(r.obs) : o.verdict \notin {"abstain", "error"}
  /\ ~ Finding(Seen(r.obs), {"medium", "high", "critical"})

\* low_risk_region against objective_gate_baseline.
LowRiskOk(rs) ==
  LET region == {r \in Determinate(rs) : LowRisk(r)}
  IN  /\ Cardinality(region) >= MinDescriptive
      /\ Diverse(region)
      /\ RejectedLess(region, {r \in Determinate(rs) : GatesPass(r)})

\* The two blocking gates left once the dataset is valid: only real tasks count.
EnoughReal(rs) ==
  /\ Cardinality(RealDeterminate(rs)) >= MinDeterminate
  /\ Diverse(RealDeterminate(rs))

(* decide_v2.  The first question that settles the matter hides the rest,   *)
(* and past the blocking gates every record counts, whatever its origin.    *)
DecideV2(rs) ==
  LET criterion  == {c \in Checklets : CriterionSignal(rs, c)}
      predictive == {c \in Checklets : PredictiveSignal(rs, c)}
  IN  IF ~ EnoughReal(rs)                              THEN "COLLECT_MORE_V1_2_DATA"
      ELSE IF criterion # {} /\ predictive = {}        THEN "DIAGNOSTIC_VALUE_ONLY"
      ELSE IF Cardinality(predictive) = 1 /\ Cardinality(Checklets) > 1
                                                       THEN "REWORK_CHECKLET_SET"
      ELSE IF LowRiskOk(rs)                            THEN "PROCEED_TO_V2_RESEARCH"
      ELSE IF criterion = {} /\ predictive = {}        THEN "STOP_SELECTIVE_VERIFICATION_PATH"
      ELSE "REWORK_CHECKLET_SET"

-----------------------------------------------------------------------------
\* _redact_protected_quality: of a record outside the partitions analysed only
\* that it has an entry.  If none was analysed, the operational ones stay open.
Redacted(rs) ==
  LET used    == {Partition(r) : r \in Usable(rs)}
      allowed == IF used = {} THEN Operational ELSE used
  IN  {[task |-> r.task,
        codes |-> IF Partition(r) \in allowed THEN Quality(r) ELSE {"protected_partition"}]
         : r \in {q \in rs : Quality(q) # {}}}

\* A record's id is made of its task, its candidate and its oracle.
Ids(rs) == {r.task : r \in rs}

\* near_duplicate_groups: the records of a lineage, and those whose tasks are
\* described alike; every record's patch is its own.
NearKeys(r) == LET g == GroupOf[r.task] IN {<<"lineage", g.family>>, <<"task_text", g.text>>}

NearDuplicates(rs) ==
  {g \in {[key |-> k, records |-> Ids({r \in rs : k \in NearKeys(r)})]
            : k \in UNION {NearKeys(r) : r \in rs}} : Cardinality(g.records) > 1}

(* analyze_records on a valid dataset.  The counts, of sealed records and   *)
(* of all of them, the near duplicates and the quality entries are of all   *)
(* records, the rest of those the scope allows.                             *)
Report(rs) ==
  [decision |-> DecideV2(Usable(rs)), analysed |-> Cardinality(Ids(Usable(rs))),
   region |-> Ids({r \in Determinate(Usable(rs)) : LowRisk(r)}),
   sealed |-> [p \in Partitions \ Operational |-> Cardinality(Ids({r \in rs : Partition(r) = p}))],
   total |-> Cardinality(Ids(rs)),
   near |-> NearDuplicates(rs), quality |-> Redacted(rs)]

=============================================================================
