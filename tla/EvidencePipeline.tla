--------------------------- MODULE EvidencePipeline ---------------------------
(***************************************************************************)
(* The evidence program as one system: manifests are ingested, the records *)
(* are validated and appended, the dataset is analysed, a record is        *)
(* replayed from a file of its own, and meanwhile a component may change   *)
(* its version.  The dataset's file, its freezes and its seals are         *)
(* DatasetCommands; here it is the set of its records.                     *)
(***************************************************************************)
EXTENDS Decision

CONSTANTS
  Submissions,  \* the manifests that are submitted
  Profiles,     \* what runs may make of them
  Replayed,     \* bound: tasks whose records are replayed
  MaxRecords    \* bound

ASSUME PipelineAssumption ==
  /\ Submissions \subseteq Manifests /\ Profiles \subseteq Runs
  /\ \A m \in Submissions : ListsPossible(m)
  /\ Replayed \subseteq Tasks /\ MaxRecords \in Nat

VARIABLES
  dataset,   \* the records appended so far
  live,      \* the version of the components
  refusal, report, replay  \* what the command that has just ended said

vars == <<dataset, live, refusal, report, replay>>

Refusals == {"LABEL_CONTAMINATION", "ORACLE_UNAVAILABLE", "ORACLE_INJECTION_FAILED",
             "BundleParseError", "DATASET_DUPLICATE", "REPORT_INTEGRITY_FAILURE"}
Replays ==
  [mode : Modes, exit : 0..2,
   whole : BOOLEAN,       \* history: were the copy's bytes the record's own?
   known : BOOLEAN,       \* history: did the verdict in it speak of those bytes?
   current : BOOLEAN,     \* history: was the record made by these versions?
   reproduced : BOOLEAN]  \* history: did the oracle run, and say what was recorded?

TypeOK ==
  /\ dataset \subseteq Records /\ Cardinality(dataset) <= MaxRecords
  /\ live \in Versions
  /\ refusal \subseteq Refusals
  /\ \A p \in report : p.decision \in Decisions /\ p.region \subseteq Tasks
                        /\ p.total = Cardinality(dataset)
  /\ replay \subseteq Replays

Init == dataset = {} /\ live = 1 /\ refusal = {} /\ report = {} /\ replay = {}

-----------------------------------------------------------------------------
Idle == refusal = {} /\ report = {} /\ replay = {}

Refuse(code) == refusal' = {code} /\ UNCHANGED <<dataset, live, report, replay>>

\* Mutant: a lineage may cross the partitions.
ConflictsAreDuplicates(r) == \E q \in dataset : q.task = r.task

\* duplicate_failures and leakage_failures, as far as the new record goes.
Conflicts(r) ==
  \E q \in dataset : \/ q.task = r.task
                     \/ Lineages(q) \cap Lineages(r) # {} /\ Partition(q) # Partition(r)

\* append_records validates the record, then the dataset with the record in
\* it, and calls any fault of the whole a duplicate.
AppendRecord(r) ==
  IF HasBlockingCode(r)        THEN Refuse("REPORT_INTEGRITY_FAILURE")
  ELSE IF Conflicts(r)         THEN Refuse("DATASET_DUPLICATE")
  ELSE dataset' = dataset \cup {r} /\ UNCHANGED <<live, refusal, report, replay>>

\* ingest_task_manifest raises, and nothing is appended.
IngestRaises(m) == Idle /\ Refusal(m) # "none" /\ Refuse(Refusal(m))

Ingest(m) ==
  /\ Idle /\ Refusal(m) = "none" /\ Cardinality(dataset) < MaxRecords
  /\ \E x \in Profiles : PossibleRun(m, x) /\ AppendRecord(Ingested(m, x, live))

\* analyze-v12 and report-v12, operational scope.
Analyse ==
  /\ Idle /\ report' = {Report(dataset)}
  /\ UNCHANGED <<dataset, live, refusal, replay>>

\* replay-v12 on a copy of a record; in full mode the run ends as it may.
Replay(r, mode) ==
  /\ Idle
  /\ \E c \in Copies(r), again \in IF mode = "full" THEN HardOutcomes \cup {"raised"} ELSE {"raised"} :
       replay' = {[mode |-> mode, exit |-> Exit(mode, c, live, again),
                   whole |-> c.bytes = r.task, known |-> c.bound = c.bytes,
                   current |-> r.version = live,
                   reproduced |-> c.command /\ again = c.outcome]}
  /\ UNCHANGED <<dataset, live, refusal, report>>

\* The command has ended, its answer is gone.
Answered ==
  /\ ~ Idle /\ refusal' = {} /\ report' = {} /\ replay' = {}
  /\ UNCHANGED <<dataset, live>>

\* The version of the runner, a gate or the domain pack is raised.
Upgrade ==
  /\ Idle /\ live < 2 /\ live' = live + 1
  /\ UNCHANGED <<dataset, refusal, report, replay>>

Next ==
  \/ \E m \in Submissions : IngestRaises(m) \/ Ingest(m)
  \/ Analyse
  \/ \E r \in dataset, mode \in Modes : r.task \in Replayed /\ Replay(r, mode)
  \/ Answered
  \/ Upgrade

Spec == Init /\ [][Next]_vars

-----------------------------------------------------------------------------
(* The dataset component, with the program's records for its constants.     *)
ED == INSTANCE EvidenceDataset WITH
  PartitionOf <- [r \in Records |-> Partition(r)],
  LineagesOf  <- [r \in Records |-> Lineages(r)],
  KeysOf      <- [r \in Records |-> {r.task}],
  Blocked     <- {r \in Records : HasBlockingCode(r)},
  Graded      <- Records

(* What is appended is what the dataset component lets through: however     *)
(* the dataset came about, the new record set against the old ones is the   *)
(* validation of them all that append_records asks for.                     *)
AppendsAreAdmissible ==
  [][dataset' # dataset =>
       \E r \in dataset' : /\ dataset' = dataset \cup {r}
                           /\ ED!Admissible([records |-> dataset], {r})]_dataset

(* "An oracle path leaks" into a candidate or a task: the injection guard   *)
(* of ingestion.py compares paths as they are spelled with the files that   *)
(* are there, validation the paths the checklets listed, with backslashes   *)
(* evened out, and the digests of what a command that exited was run on.    *)
(* Together they let an oracle file that is or was a file of the candidate  *)
(* through only if the manifest spells it with "./" or "//", or no checklet *)
(* that would list it answered; and even then a record has a determinate    *)
(* verdict only if the candidate's files were run with their own bytes.     *)
LeaksAreCaught ==
  \A r \in dataset :
    /\ Files(r) =>
         /\ ~ r.named
         /\ r.touch \in {"kept", "changed"} => r.spelling # "plain"
         /\ r.touch # "apart" /\ r.spelling # "dotted" =>
              \A c \in r.lists : r.obs[c] = Unseen \/ Has(r, c, "error")
    /\ r.overwritten => r \notin Determinate(dataset)

(* "V1.1 low-risk region" (analysis.py): the region the decision rests on   *)
(* is the region the shadow policy of aggregation.py would have waived,     *)
(* for every record somebody observed.                                      *)
LowRiskIsWaived ==
  \A r \in dataset : Seen(r.obs) # {} => (LowRisk(r) <=> r.action = "would_waive")

Open   == {r \in dataset : Partition(r) \in Operational}
Sealed == dataset \ Open

\* A record of which nobody knows how its candidate did.
Erased(r) ==
  [r EXCEPT !.obs = [c \in Checklets |-> Unseen], !.action = "would_escalate",
            !.ast = [c \in Checklets |-> "indeterminate"],
            !.shared = [c \in Checklets |-> "indeterminate"],
            !.outcome = "outcome_unknown", !.command = FALSE]

(* "protected partition counts can be reported without exposing labels"     *)
(* (test_v12a_acceptance.py): the observations, labels and verdicts of the  *)
(* sealed records move nothing of the operational report but which of these *)
(* records have a quality entry; and an entry of theirs shows no code.      *)
(* Which sealed records there are, of which tasks, does reach the report:   *)
(* they are counted, and data_quality.near_duplicates names them.           *)
SealedStaysSealed ==
  \A p \in report :
    LET q == Report(Open \cup {Erased(r) : r \in Sealed})
        OfOpen(entries) == {e \in entries : e.task \in Ids(Open)}
    IN  /\ [p EXCEPT !.quality = OfOpen(@)] = [q EXCEPT !.quality = OfOpen(@)]
        /\ \A e \in p.quality : e.task \in Ids(Sealed) => e.codes = {"protected_partition"}

(* "engineering fixtures and controlled mutations are not a substitute for  *)
(* 50-200 real tasks": however many of them there are, a decision beyond    *)
(* collecting more data is taken only if the real tasks alone allow one.    *)
FixturesDoNotUnblock ==
  \A p \in report :
    LET real == {r \in dataset : r.origin \in Real} IN
    p.decision = "COLLECT_MORE_V1_2_DATA" <=>
      Report(real).decision = "COLLECT_MORE_V1_2_DATA"

(* What exit status 0 of replay-v12 vouches for, if at most one field of    *)
(* the copy was changed: frozen, that the recorded verdict speaks of these  *)
(* bytes, they are the record's own and the versions are those that made    *)
(* it; full, that the oracle ran again and gave the recorded verdict.       *)
ReplayVouches ==
  \A a \in replay : a.exit = 0 =>
    /\ a.mode = "frozen-observation" => a.whole /\ a.known /\ a.current
    /\ a.mode = "full" => a.reproduced

=============================================================================
