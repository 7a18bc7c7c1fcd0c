------------------------------ MODULE Ingestion ------------------------------
(***************************************************************************)
(* From a task manifest to an evidence record, and back: ingestion.py      *)
(* (ingest_task_manifest), the field checks of integrity.py that are left  *)
(* to it (validate_record), and the replay of a record (v12_report.py,     *)
(* evaluation.py, replay-v12 in cli.py).  Operators over a manifest and    *)
(* what the run and the adjudicators made of it; EvidencePipeline holds    *)
(* the state.                                                              *)
(*                                                                         *)
(* A task stands for its identity, its candidate's bytes and its oracle.   *)
(* A digest of a text is the text.                                         *)
(***************************************************************************)
EXTENDS Naturals, FiniteSets, ShadowPolicy

CONSTANTS
  Checklets,    \* the registered checklets
  PathReaders,  \* those whose answer always lists the changed paths
  TestReaders,  \* those whose answer may list every test file
  Tasks,        \* task contracts, each with one candidate and one oracle
  GroupOf,      \* task -> [repository, family, size, text, partition]
  Tampered,     \* bytes of no task
  Unseen        \* no observation of this checklet

Partitions  == {"development", "policy_selection", "calibration_reserved", "holdout"}
Operational == {"development", "policy_selection"}
Real        == {"real_historical", "real_live"}
Origins     == Real \cup {"controlled_mutation", "engineering_fixture"}
Labels      == {"true", "false", "indeterminate", "not_applicable"}

ASSUME IngestionAssumption ==
  /\ PathReaders \subseteq Checklets /\ TestReaders \subseteq Checklets
  /\ Tampered \notin Tasks /\ Unseen \notin Observations
  /\ \A t \in Tasks : GroupOf[t].partition \in Partitions

\* What the candidate did to the files the oracle will write: they are none of
\* its files; it carries them as they are in its base; it changed or added
\* them; it deleted them.  And how the manifest spells the oracle's paths: as
\* the bundle does; with backslashes; with a "./" or a "//" in them.
Touches   == {"apart", "kept", "changed", "deleted"}
Spellings == {"plain", "backslash", "dotted"}

(* A manifest.  `oracle`: a command with reference files, a command alone,  *)
(* neither, or declared unavailable.                                        *)
Manifests ==
  [task : Tasks, origin : Origins,
   labelled : BOOLEAN,   \* the artifact's metadata carries an oracle label
   named : BOOLEAN,      \* the task's metadata names an oracle file
   coding : BOOLEAN,     \* artifact_type is coding_patch
   inspectable : BOOLEAN,
   oracle : {"files", "bare", "missing", "unavailable"},
   touch : Touches, spelling : Spellings,
   lists : SUBSET Checklets,  \* whose answer would list a path of the oracle
   overwritten : BOOLEAN,  \* a file of the candidate's does not get its own bytes
   blank : BOOLEAN]        \* an entry the record is known by is the empty text

(* derived_changed_paths: always listed by PathReaders, by two more if the  *)
(* task declares requirements or cases.  derived_test_paths: all the tests  *)
(* of the candidate, changed or not.                                        *)
ListsPossible(m) ==
  /\ m.touch \in {"changed", "deleted"} => PathReaders \subseteq m.lists
  /\ m.touch = "kept" => m.lists \subseteq TestReaders

(* What the run and the two adjudicators make of it.  The command is kept   *)
(* in the result if it exited, whatever its verdict.                        *)
Runs ==
  [obs : [Checklets -> Observations], ast : [Checklets -> Labels],
   shared : [Checklets -> Labels], outcome : HardOutcomes, command : BOOLEAN]

PossibleRun(m, x) ==
  IF m.oracle = "unavailable" THEN x.outcome = "outcome_unknown" /\ ~ x.command
  ELSE \/ x.command /\ x.outcome # "outcome_unknown"
       \/ ~ x.command /\ x.outcome \in {"outcome_unknown", "infrastructure_error"}

Versions == 1..2   \* of the runner, the gates and the domain pack

Records ==
  [task : Tasks, origin : Origins, named : BOOLEAN, coding : BOOLEAN,
   oracle : {"files", "bare", "unavailable"}, touch : Touches, spelling : Spellings,
   lists : SUBSET Checklets, overwritten : BOOLEAN, blank : BOOLEAN,
   gates : SUBSET GateStatuses, obs : [Checklets -> Observations \cup {Unseen}],
   ast : [Checklets -> Labels], shared : [Checklets -> Labels],
   action : Actions, outcome : HardOutcomes, command : BOOLEAN, version : Versions]

-----------------------------------------------------------------------------
(* ingest_task_manifest.                                                    *)

(* Why a manifest makes no record, in the code's order.  The oracle's paths *)
(* are compared as they are spelled, with those of all files the candidate  *)
(* has, its base's too.  A candidate that cannot be parsed is run before    *)
(* the adjudicators raise on it.                                            *)
Refusal(m) ==
  IF m.labelled /\ m.origin \in Real                              THEN "LABEL_CONTAMINATION"
  ELSE IF m.oracle = "missing"                                    THEN "ORACLE_UNAVAILABLE"
  ELSE IF /\ m.inspectable /\ m.oracle = "files"
          /\ m.touch \in {"kept", "changed"} /\ m.spelling = "plain"
                                                                  THEN "ORACLE_INJECTION_FAILED"
  ELSE IF ~ m.inspectable                                         THEN "BundleParseError"
  ELSE "none"

Seen(obs) == {obs[c] : c \in Checklets} \ {Unseen}

\* The record of a manifest that is not refused.  The gate parses the same
\* bytes; no checklet looks at an artifact that is not a coding patch.
Ingested(m, x, version) ==
  LET obs   == IF m.coding THEN x.obs ELSE [c \in Checklets |-> Unseen]
      gates == IF m.inspectable THEN {"pass"} ELSE {"error"}
  IN  [task |-> m.task, origin |-> m.origin, named |-> m.named, coding |-> m.coding,
       oracle |-> m.oracle, touch |-> m.touch, spelling |-> m.spelling,
       lists |-> m.lists, overwritten |-> m.overwritten, blank |-> m.blank, gates |-> gates, obs |-> obs,
       ast |-> x.ast, shared |-> x.shared,
       action |-> Assess(gates, Seen(obs)).action,
       outcome |-> x.outcome, command |-> x.command, version |-> version]

Files(r) == r.oracle = "files"

\* The paths that validation can see: a checklet that failed lists none.
IsListed(r) == \E c \in r.lists : r.obs[c] # Unseen /\ r.obs[c].verdict # "error"

\* Mutant: only the metadata is searched.
OracleLeakInMetadata(r) == Files(r) /\ r.named

\* validate_record, ORACLE_LEAK: a listed path or the task's metadata names an
\* oracle file.  Backslashes are evened out here, not at injection; "./" and
\* "//" in neither place.
OracleLeak(r) ==
  /\ Files(r)
  /\ r.named \/ (r.touch # "apart" /\ r.spelling # "dotted" /\ IsListed(r))

\* DIGEST_MISMATCH: the result of a command that exited reports the candidate's
\* files as the workspace held them, after the oracle's were written over them
\* and, if the candidate spells one file twice, one of its own over another.
NotTheCandidate(r) == r.overwritten /\ r.command

\* The blocking codes an ingestion by this version of the code can meet; blank
\* is MISSING_IDENTITY or PRODUCER_PROVENANCE_MISSING.
HasBlockingCode(r) == OracleLeak(r) \/ NotTheCandidate(r) \/ r.blank

\* data_quality_flags and validate_record_with_quality: what blocks nothing.
Quality(r) ==
  (IF Files(r) THEN {} ELSE {"ORACLE_UNAVAILABLE"})
  \cup (IF \E c \in Checklets : r.obs[c] # Unseen /\ r.obs[c].verdict = "error"
        THEN {"CHECKLET_RUN_FAILED"} ELSE {})
  \cup (IF r.outcome = "outcome_unknown" THEN {"HARD_VERIFY_UNKNOWN"} ELSE {})
  \cup (IF r.outcome = "infrastructure_error" THEN {"HARD_VERIFY_INFRA_ERROR"} ELSE {})

-----------------------------------------------------------------------------
(* replay_record.  A copy of the record in a file of its own: each of the   *)
(* fields a replay reads is the record's, or one of them was changed.       *)

Copy(r) == [bytes |-> r.task, digest |-> r.task, bound |-> r.task, outcome |-> r.outcome,
            command |-> r.command, version |-> r.version, coding |-> r.coding]

Copies(r) ==
  {Copy(r)} \cup {[Copy(r) EXCEPT ![f] = Tampered] : f \in {"bytes", "digest", "bound"}}
            \cup {[Copy(r) EXCEPT !.outcome = o] : o \in HardOutcomes}

Modes == {"analysis-only", "frozen-observation", "full"}

\* Mutant: the recorded verdict is not tied to the recorded candidate.
FrozenAcceptsUnbound(c, live) == c.digest = c.bytes /\ c.version = live /\ c.coding

\* replay_run_record: the bytes, the verdict's digest, the component versions.
\* A replay is always of a coding patch, so the checklets of a record that had
\* none are not its own.  What they say now is not compared with what they said.
FrozenAccepts(c, live) ==
  c.digest = c.bytes /\ c.bound = c.digest /\ c.version = live /\ c.coding

\* The exit status of replay-v12: an exception is 2.  A frozen replay answers
\* under `final_outcome`, the command reads `hard_outcome` only.  A full one
\* ingests the copy's bytes with the recorded command, and that may end any way.
Exit(mode, c, live, again) ==
  CASE mode = "analysis-only"      -> 0
    [] mode = "frozen-observation" -> IF FrozenAccepts(c, live) THEN 0 ELSE 2
    [] mode = "full"               -> IF ~ c.command \/ again = "raised" THEN 2
                                      ELSE IF again = c.outcome THEN 0 ELSE 1

=============================================================================
