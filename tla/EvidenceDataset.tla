--------------------------- MODULE EvidenceDataset --------------------------
(***************************************************************************)
(* The V1.2 dataset container (dataset.py) as a value: what it holds, the  *)
(* functions that make a new dataset out of an old one, the validation     *)
(* that guards an append (integrity.py, splits.py) and what an analysis    *)
(* may see of it (splits.py, analysis.py).                                 *)
(*                                                                         *)
(* A record is a model value; what validation and partitioning look at is  *)
(* given by constant functions.  A version "1.2.n" is n, a receipt is the  *)
(* unseal target it was minted for, a record's bytes do not matter.        *)
(***************************************************************************)
EXTENDS Naturals, Sequences

CONSTANTS
  Records,      \* evidence records that may be offered to the dataset
  PartitionOf,  \* record -> its partition
  LineagesOf,   \* record -> {group_id, candidate_lineage_id}
  KeysOf,       \* record -> {exact artifact key, base revision + patch}
  Blocked,      \* records for which validate_record finds a blocking code
  Graded        \* records with an evaluation-grade adjudication

Partitions == {"development", "policy_selection", "calibration_reserved", "holdout"}
Targets    == {"holdout", "calibration"}
Scopes     == {"operational", "policy-selection", "calibration", "final-holdout"}

ASSUME DatasetAssumption ==
  /\ PartitionOf \in [Records -> Partitions]
  /\ Blocked \subseteq Records /\ Graded \subseteq Records

LogActions == {"successor", "append", "invalidate", "freeze", "unseal"}
Entries    == [action : LogActions, records : SUBSET Records,
               target : Targets \cup {"none"}, to : Nat]
Datasets   == [version : Nat, log : Seq(Entries),
               records : SUBSET Records, invalid : SUBSET Records,
               frozen : BOOLEAN,
               holdout : {"sealed", "final_unsealed"},
               calibration : {"sealed", "unsealed"},
               receipt : Targets \cup {"none"}]

EmptyDataset ==
  [version |-> 0, log |-> <<>>, records |-> {}, invalid |-> {}, frozen |-> FALSE,
   holdout |-> "sealed", calibration |-> "sealed", receipt |-> "none"]

Entry(action, records, target, to) ==
  [action |-> action, records |-> records, target |-> target, to |-> to]

-----------------------------------------------------------------------------
(* validate_dataset_records: duplicate_failures and leakage_failures over   *)
(* all the records, the invalidated ones included.                          *)
NoDuplicates(rs) ==
  \A a, b \in rs : a # b => KeysOf[a] \cap KeysOf[b] = {}

NoLeakage(rs) ==
  \A a, b \in rs : LineagesOf[a] \cap LineagesOf[b] # {} => PartitionOf[a] = PartitionOf[b]

Valid(rs) == rs \cap Blocked = {} /\ NoDuplicates(rs) /\ NoLeakage(rs)

\* Mutant: only the new records are validated.
AdmissibleAlone(d, new) == new \cap d.records = {} /\ Valid(new)

\* What append_records lets through: a record_id in use is a duplicate too.
Admissible(d, new) == new \cap d.records = {} /\ Valid(d.records \cup new)

-----------------------------------------------------------------------------
\* Mutant: the successor begins a changelog of its own.
SuccessorStartsOver(d) ==
  [d EXCEPT !.version = @ + 1, !.frozen = FALSE,
            !.log = <<Entry("successor", {}, "none", d.version + 1)>>]

\* append_records on a frozen dataset first makes a successor version of it.
Successor(d) ==
  [d EXCEPT !.version = @ + 1, !.frozen = FALSE,
            !.log = Append(@, Entry("successor", {}, "none", d.version + 1))]

\* Mutant: the container is made again without its invalidated records.
AppendForgetsInvalid(d, new) ==
  LET open == IF d.frozen THEN Successor(d) ELSE d
  IN  [open EXCEPT !.records = @ \cup new, !.invalid = {},
                   !.log = Append(@, Entry("append", new, "none", open.version))]

AppendRecords(d, new) ==
  LET open == IF d.frozen THEN Successor(d) ELSE d
  IN  [open EXCEPT !.records = @ \cup new,
                   !.log = Append(@, Entry("append", new, "none", open.version))]

\* Mutant: a frozen dataset is thawed under its own version.
InvalidateInPlace(d, r) ==
  [d EXCEPT !.frozen = FALSE, !.invalid = @ \cup {r},
            !.log = Append(@, Entry("invalidate", {r}, "none", d.version))]

\* invalidate_record keeps the record and marks it.
InvalidateRecord(d, r) ==
  LET version == IF d.frozen THEN d.version + 1 ELSE d.version
  IN  [d EXCEPT !.version = version, !.frozen = FALSE, !.invalid = @ \cup {r},
                !.log = Append(@, Entry("invalidate", {r}, "none", version))]

FreezeDataset(d) ==
  [d EXCEPT !.frozen = TRUE, !.log = Append(@, Entry("freeze", {}, "none", d.version))]

\* Mutant: the holdout's state is spelled as the calibration's is.
PersistUnsealMisspelt(d, target) ==
  [d EXCEPT !.holdout     = IF target = "holdout" THEN "unsealed" ELSE @,
            !.calibration = IF target = "calibration" THEN "unsealed" ELSE @,
            !.receipt     = target,
            !.log = Append(@, Entry("unseal", {}, target, d.version))]

\* persist_partition_unseal leaves version and frozen alone and has one slot
\* for the receipt of either target.
PersistUnseal(d, target) ==
  [d EXCEPT !.holdout     = IF target = "holdout" THEN "final_unsealed" ELSE @,
            !.calibration = IF target = "calibration" THEN "unsealed" ELSE @,
            !.receipt     = target,
            !.log = Append(@, Entry("unseal", {}, target, d.version))]

-----------------------------------------------------------------------------
\* partitions_for_scope, once the receipt it may ask for is valid.
PartitionsForScope(scope) ==
  CASE scope \in {"operational", "policy-selection"} -> {"development", "policy_selection"}
    [] scope = "calibration"   -> {"calibration_reserved"}
    [] scope = "final-holdout" -> {"development", "policy_selection", "holdout"}

\* analysis_records and filter_records_for_scope: the records analysed.
Usable(d, scope) ==
  {r \in d.records \ d.invalid : PartitionOf[r] \in PartitionsForScope(scope)}

\* Mutant: the receipt alone opens the holdout.
StateSealsCalibration(d, scope) == scope = "calibration" /\ d.calibration # "unsealed"

\* analyze_records looks at the persisted seals before anything else.
StateSeals(d, scope) ==
  \/ scope = "final-holdout" /\ d.holdout # "final_unsealed"
  \/ scope = "calibration"   /\ d.calibration # "unsealed"

\* analyze_records with build_report's choice of receipt: a HoldoutAccessError
\* ("refused"), a ValueError ("invalid") or a report, in the code's order.
Verdict(d, scope, given) ==
  LET receipt == IF given # "none" THEN given ELSE d.receipt IN
  IF StateSeals(d, scope)                                            THEN "refused"
  ELSE IF ~ Valid(d.records)                                         THEN "invalid"
  ELSE IF scope \in {"final-holdout", "calibration"} /\ receipt = "none" THEN "refused"
  ELSE IF /\ scope = "final-holdout"
          /\ \E r \in Usable(d, scope) : PartitionOf[r] = "holdout" /\ r \notin Graded
                                                                     THEN "invalid"
  ELSE "reported"

-----------------------------------------------------------------------------
(* The dataset is what its changelog says it is.                            *)
Logged(d, action) == {i \in DOMAIN d.log : d.log[i].action = action}

LoggedRecords(d, action) == UNION {d.log[i].records : i \in Logged(d, action)}

Unsealed(d, target) == \E i \in Logged(d, "unseal") : d.log[i].target = target

\* entry i is the last one of those whose action is in `actions`
LastOf(d, i, actions) ==
  /\ i \in DOMAIN d.log /\ d.log[i].action \in actions
  /\ \A j \in DOMAIN d.log : j > i => d.log[j].action \notin actions

Explained(d) ==
  /\ d.records = LoggedRecords(d, "append")
  /\ d.invalid = LoggedRecords(d, "invalidate")
  /\ d.holdout = "final_unsealed" <=> Unsealed(d, "holdout")
  /\ d.calibration = "unsealed" <=> Unsealed(d, "calibration")
  /\ d.receipt = "none" <=> Logged(d, "unseal") = {}
  /\ \A i \in DOMAIN d.log : LastOf(d, i, {"unseal"}) => d.receipt = d.log[i].target
  /\ d.frozen <=> \E i \in DOMAIN d.log :
                    LastOf(d, i, LogActions \ {"unseal"}) /\ d.log[i].action = "freeze"
  /\ \A i \in DOMAIN d.log :
       LastOf(d, i, {"successor", "invalidate"}) => d.version = d.log[i].to
  /\ Logged(d, "successor") \cup Logged(d, "invalidate") = {} => d.version = 0

=============================================================================
