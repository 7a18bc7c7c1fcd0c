# Verification V1: TLA+ models, checks and proofs

This directory holds TLA+ modules for the package `verification_v1`, the TLC
configurations that check them on small instances, and TLAPS proofs of the
properties that matter most for every value of the constants. `PROJECT.json`
relates every definition to the source lines it models, and lists components,
runs, mutants, hazards, findings and theorems.

    tlc  -config MCVerificationRun.cfg MCVerificationRun     # one run
    tlapm VerificationRunProofs.tla                          # one proof module

## 1. The system

`verification_v1` runs a *candidate artifact* through objective gates,
diagnostic checklets and a deterministic shadow policy, always asks a hard
verifier, and records what the shadow policy would have saved or cost. The V1.2
layer collects such runs as evidence records in a versioned dataset with sealed
partitions and decides from it whether selective verification is worth pursuing.

| component | state it keeps | operations | interacts with |
|---|---|---|---|
| runner (`runner.py`) | none between runs; telemetry failures during one | `run`, `_emit_safely` | calls all of the next six |
| artifact store (`artifacts.py`) | a directory of files named by digest | `register` | any number of processes share the directory |
| gates (`gates.py`) | none | `GateRunner.run_all` | called by the runner |
| checklet registry (`checklets.py`) | a child process and a queue per checklet | `run_all`, `_evaluate_in_isolated_process` | spawns, joins, terminates and kills a child; reads its pipe |
| shadow policy (`aggregation.py`, `contracts.py`) | none | `assess`, `compare_shadow_to_hard_verifier` | pure |
| telemetry (`telemetry.py`) | a list, or an append-only JSONL file | `emit` | may raise in the middle of a line |
| hard verifier (`hard_verify.py`) | a temporary workspace, a process group | `verify`, `_run_bounded`, `_kill_process_tree` | the oracle's command runs in the workspace and may change it |
| dataset (`dataset.py`) | one JSON file: records, changelog, version, seals, receipt | append, invalidate, freeze, unseal, load, write | every command and session rewrites the whole file |
| validation and seals (`integrity.py`, `splits.py`) | none | duplicates, leakage, scopes, receipts | guard appends and analyses |
| analysis and decision (`analysis.py`) | none | `analyze_records`, metrics, `decide_v2` | reads a dataset under a scope |
| coding bundle (`bundle.py`) | none | parse by form, normalise paths, text and syntax primitives | used by the gate, the checklets, one adjudicator, the hard verifier |
| coding checklets (`checklets.py`) | none | five `evaluate` | read the artifact, the task and the producer's claims |
| adjudicators (`adjudication.py`, `independent_adjudication.py`) | none | a label per criterion | the first shares the checklets' primitives, the second has its own parser |
| ingestion (`ingestion.py`, `evidence.py`) | none | a manifest to a record or a refusal | runs the runner, asks both adjudicators |
| baseline (`baseline.py`) | a snapshot file, next to frozen files and git | collect, write, validate | validation of records compares with it |
| replay, reports (`v12_report.py`) | report files | `replay_record`, `build_report` | reruns policy or whole run |
| commands (`cli.py`) | receipts, datasets, reports as files | 14 subcommands | drive all of the above |
| fixture evaluation, domain packs, stress | none | loops, configuration | |

What is hard here, and what makes each component correct:

* **Runner.** Anything it calls may raise. Correct: a registered artifact is
  hard-verified exactly once unless a call it makes never comes back, and the outcome is the
  verifier's answer about this artifact or an infrastructure error; nothing the log says about the verifier is
  untrue, even after a crash; a waiver in the shadow was earned.
* **Registry.** Two processes, a bounded pipe, timeouts, signals that are
  ignored. Correct: at most one observation per checklet, made of a whole message
  in time; no child survives unkilled; the registry comes back, but for two waits no
  timeout covers.
* **Store.** Check-then-write by several processes, errors, crashes. Correct: a
  returned registration has its content on disk, and it stays there.
* **Hard verifier.** The command is concurrent with the measurement. Correct: a
  verdict is earned, tampering costs it, a timeout leaves nothing behind, and what the
  command leaves in place of its files cannot hold up the verifier (it can: a named pipe).
* **Dataset.** Whole-file rewrite without a lock, functions that rebuild fifteen
  fields by hand, seals checked in several places. Correct: the dataset is what
  its changelog says, it can always be analysed, seals are respected, and its history
  ends only where a write is cut short.
* **Checklets and adjudicators.** Three implementations of five criteria, whose agreement
  is the evidence the program is after. Correct: they differ only where they are meant to;
  what the policy waives is labelled clean; claims of the producer silence a checklet at most.
* **Ingestion.** Refusals in an order, three checks of one leak in three places. Correct: no
  record's candidate or task knows its oracle, and no verdict is about anything but the
  candidate.
* **Decision.** A cascade in which one rule hides another, over filtered records. Correct:
  only real tasks unblock it, how sealed records did does not reach it, its low-risk region is
  the shadow policy's.
* **Baseline.** Working tree, manifest, snapshot, control and git drift apart; a mint is two
  writes. Correct: what was validated was minted, and is never lost.
* **Replay.** Three modes, and different fields compared in each. Correct: exit status 0
  means what the mode promises.

## 2. Modules

| module | models | checked by | proved in |
|---|---|---|---|
| `ShadowPolicy` | the rule cascade of `assess`, the comparison, enumerations | through `VerificationRun` | `VerificationRunProofs` |
| `MandatoryVerification` | abstract specification: register, verify once, return | refined | |
| `VerificationRun` | `VerificationRunner.run` with gates, registry, policy, sink | `MCVerificationRun` | `VerificationRunProofs` |
| `CheckletIsolation` | one iteration of `run_all`: parent, child, pipe, clock, signals | itself | `CheckletIsolationProofs` |
| `ArtifactStore` | concurrent `register` | itself | `ArtifactStoreProofs` |
| `EvidenceDataset` | the dataset as a value, validation, scopes, the analysis' guards | through `DatasetCommands` | |
| `DatasetCommands` | commands and sessions on one dataset file | `MCDatasetCommands` | `DatasetProofs` |
| `HardVerify` | `CommandHardVerifier.verify` and the command it runs | itself | `HardVerifyProofs` |
| `CodingBundle` | artifacts by form, the files two parsers read out of them | through `Criteria` | |
| `Criteria` | gate, five checklets, two adjudicators on one candidate | `MCCriteria` | `CriteriaProofs` |
| `Baseline` | minting and `validate_baseline` over tree, history, snapshot, control | itself | `BaselineProofs` |
| `Ingestion` | manifest to record, validation codes, replay, as operators | through `EvidencePipeline` | |
| `Decision` | the operational analysis and `decide_v2`, as operators | through `EvidencePipeline` | |
| `EvidencePipeline` | ingest, analyse, replay, upgrade as one system | `MCEvidence` | `EvidenceProofs` |

Definitions marked `Mutant:` belong to no specification. Each is a plausible bug;
`PROJECT.json` says which definition it stands in for and which property it breaks.

**VerificationRun.** `pc` follows `run`. The run's events are the sequence
`script`, of which `sent` are out; the run takes its next step only when all are
(`Quiet`), as the code emits synchronously. What the append-only sink holds is
given by the positions that can be read back (`persisted`) and those that were
recorded in `telemetry_failures` (`failed`). A run's steps: `Register` or
`RegisterFails`, `EvaluateGate` per gate, `ReportGates` (the code emits both events
of every gate after all have run), `SkipChecklet`, `CheckletAnswers` or
`CheckletFails` per checklet, `ReportChecklets`, `AssessShadow`, `HardVerify`,
`Return`; `EmitLine` and `EmitRaises` between them; `Crash` anywhere. `CheckletHangs` and
`VerifierHangs` are the calls that never come back: `run_all` when it is stuck where
`CheckletIsolation` gets stuck, the verifier where `HardVerify` does; a hung run takes no
further step. `answer` and `broken` are history variables. `VerificationRun` implements
`MandatoryVerification` under the mapping `Phase`.

**CheckletIsolation.** `parent` names the blocking call `run_all` is in, `child` the
state of the process. A message is `need` units long, of which `written` are in the
pipe and `read` out of it. `get` and `get_nowait` are two steps each, as in
`multiprocessing`: a poll, then a receive with no timeout. `process.start()` is two as well
when the payload is longer than its pipe: `parent = "starting"` until the new interpreter reads
it (`ChildLoads`); the parent holds the read end too, so a child that dies before that does not
end the write.

**ArtifactStore.** `file[c]` is the set of blocks that hold the right bytes; opening
empties it, writers keep their own offsets.

**EvidenceDataset / DatasetCommands.** A dataset is a record with the fields
validation, partitioning and the seals look at; a process holds one in `mem`, the file
is `disk`. Commands load, change in memory, and write in two steps (truncate, fill).
`published` is a history of frozen datasets. `disk` is the last dataset written whole and
`intact` whether the file still holds it.

**HardVerify.** `surface` stands for the candidate's and the oracle's files in the
workspace, `copy` for `candidate.artifact`; `main` and `helper` are the command and one
process it started, in its process group or escaped from it. A file may be altered, or replaced
by a named pipe (`output` is the command's own output, which the verifier reads too); a verifier
that opens a pipe (`OpensPipe`) is `blocked` until a helper feeds it (`Feeds`). `late` and `atExit` are
history variables. Seen from the runner a verification is one step: `MV` in this module is
`MandatoryVerification`'s part of it, under a mapping in which everything before the return or
the exception stutters, and `AnswersTheRunner` says that this is so.

**CodingBundle / Criteria.** A text is a record of what the inspectors look for in it: which
words and boundary markers it contains, whether it parses, and if so its public signatures,
its calls by number of arguments, its identifiers, its test functions. The producer edits and
deletes files (`Rewrite`, `Delete`), then submits them as a bundle, as one with a path
`normalize_repo_path` refuses, as a diff or as bare text (`SubmitBundle`, ...), with claims.
`Inspect` is the run: `Shape` is the gate, `ObserveBundle` the five checklets, `Observe` what
they answer to any artifact; `run_all` reports an error in place of the answers of any set of
them (`Failures`: transport limits, timeouts, exceptions, deaths). A claim may be `malformed`, of
a type `list()` raises on. A tree may show a requirement the text does not spell (`Hides`): a
function `no_op` for "no-op", whose words are too `Short` to be looked for one by one.
`AdjudicateShared` and `AdjudicateIndependent` label; the first raises on an
artifact it cannot parse. `Bundle` and `AstBundle` are the two parsers: only the first knows
diffs, claims and normalised paths.

**Baseline.** `tree` is the working tree (code, runtime manifest and snapshot, control manifest
and snapshot), `commits` what git has. A file may be `Absent` or `Torn`. The hash of a text is
the text; a snapshot's recorded hash and stored bytes are two fields because they can part.
`Validation` is `validate_baseline`; the command additionally wants a runtime baseline.
`minted` and `validated` are history variables. Any change resets `verdict`. A validation may
fall between the two writes of a mint.

**Ingestion / Decision / EvidencePipeline.** A task stands for its identity, its candidate and
its oracle. `Refusal` lists why a manifest makes no record, in the code's order; `Ingested` is
the record. Records are in a set because each has an identity of its own; rates are compared
by multiplying across, so the decision is exact integer arithmetic. `Refusal`, `Report` and
`Replay` answers are kept in variables until the command has ended (`Answered`). An append checks
the new record first (`HasBlockingCode`), then the dataset with it in (`Conflicts`: two records of
one task, or a lineage in two partitions, since the lineage a record gets by default is its task
family, whatever the repository); the code answers any fault of the whole with
`DATASET_DUPLICATE`. `ED` is `EvidenceDataset` with these records for its constants, and
`AppendsAreAdmissible` says that an append is one `EvidenceDataset` admits. What becomes
of the dataset's file is `DatasetCommands`' subject.

An oracle's files are `apart` from the candidate's, or the candidate carries them as in its base
(`kept`), changed or added them, or deleted them; the manifest spells them as the bundle does,
with backslashes, or with "./" or "//" (`dotted`). `Refusal` compares spellings with all files the
candidate has, `OracleLeak` (backslashes evened out) with those the checklets list, which are the
changed ones and, for test adequacy, all tests; `NotTheCandidate` compares the digests of the
workspace the command ran in with the candidate's. `overwritten` says that these differ: an oracle
file lies over one of the candidate's with other bytes, or two spellings of one candidate file do.

## 3. Runs

| run | expect | what it shows |
|---|---|---|
| `run_core` | pass | refinement of `MandatoryVerification` with liveness; waivers, log and evidence |
| `isolation` | pass | whole answers, bounded output, killed children, one observation, and the two waits that can hang |
| `isolation_hang` | violation | a child killed in the middle of a message hangs the draining loop |
| `store` | pass | a settled content is whole |
| `store_race` | violation | whole registered bytes are truncated by a second writer |
| `dataset_curated` | pass | one process at a time: changelog, analysability, seals, versions, and what alone loses the history |
| `dataset_shared` | pass | analysability with two processes that lose each other's updates and ingest over what is there |
| `hard_verify` | pass | earned verdicts, seen tampering, killed groups, refinement of the runner's `Verify`, and on what alone it can hang |
| `hard_verify_race` | violation | a command that exits between the timeout and the kill keeps its group alive |
| `criteria` | pass | where checklets, shared labels and evaluation-grade labels may part; claims; waivers |
| `baseline` | pass | a validated baseline was minted whole and stays recoverable |
| `evidence` | pass | leaks, low risk, seals, real tasks, what a replay vouches for, appends against validation of the whole |

Bounds, and why they are enough:

* `run_core`: 1 gate, 2 checklets of which the second applies to one type only, 3
  artifact types of which one has no checklet, 1 failing emit (of each kind: nothing,
  part of the line, all of it). Every rule of the policy fires, and each combination of
  answering, failing and skipped checklets occurs. More faults, gates and checklets are
  covered by the proofs.
* `isolation`: a pipe of 2 units and messages of 1 to 3: shorter than, equal to and
  longer than the pipe.
* `store`: 3 calls, 2 contents, 2 blocks: a writer between two others on one content, an
  uninvolved one on the other.
* `dataset_curated`: a record for each rule (duplicate, crossing lineage, blocked,
  ungraded, each partition) and changelogs of up to 4 entries: append, freeze, append with
  successor is the longest sequence a rule depends on. `dataset_shared`: 2 processes, 3
  records, changelogs of 2, re-ingestion on. `MaxLog` is a guard of the changing actions.
* `hard_verify`: one helper; a second one could do nothing the first cannot. Three places for
  a named pipe: what the code opens after the command has ended.
* `criteria`: a library with one function in five versions (other arity, any number of
  arguments, gone, no Python), a caller in three, a test file in two; three repositories, tasks
  with and without a scope, cases and patterns, all claims. Each disjunct of each inspector
  is about one function, one caller and one requirement, so more of them combine these.
* `baseline`: two texts and two commits (`MaxCommits`): the texts are old and new, and what a
  validation reads of git is HEAD and the recorded commit. The proofs cover all others.
* `evidence`: up to 3 records (`MaxRecords`) of four tasks, one of them sealed, one offered as
  a fixture too; two checklets, one that lists paths; thresholds of 2 and 1, which is enough
  for all five decisions; records of one task are replayed (`Replayed`), from copies of which
  at most one field was changed; one version change. Two tasks of different repositories and
  partitions share the name of their family, so that a lineage can cross partitions.

Fairness. `VerificationRun`: weak fairness of its steps, among which are those of a call that
never comes back: what is assumed is that the caller's thread runs, not that a checklet or the
verifier ever answers. `MandatoryVerification` correspondingly: a registered run that does not
die is verified or hangs. `CheckletIsolation`: of the parent, of the clock and of a
signal that is not ignored; none of the child, not even that it takes its payload. `HardVerify`:
of the verifier and the clock; none of the command and its helper, so a pipe may never be fed.
`Crash` is never fair. `ArtifactStore`, `DatasetCommands`,
`Criteria`, `Baseline` and `EvidencePipeline` have no liveness properties and no fairness:
nothing in them must happen unless somebody types a command.

Deadlock checking is off where the system ends (a run, an iteration, a verification, a
set of registrations, a labelled candidate); the dataset commands, the baseline and the
evidence pipeline are checked for deadlock.

## 4. Findings

1. `checklets.py:759`. After a timeout the queue is drained with `get_nowait`, which
   waits without a bound once a part of a message is there. The V1 document promises
   that the parent "cannot hang after a timeout".
2. `artifacts.py:63`. `exists()` then `write_bytes()`: whole registered bytes are
   truncated and rewritten; a crash there leaves a partial file for good.
3. `hard_verify.py:65`. A command that has exited by the time of the kill saves its
   process group from it.

Behaviours the models show, of which no run expects a violation:

* Hard verifier: what the command leaves is opened for reading after it has ended, outside any
  timeout: a named pipe in the place of a file of the workspace (`hard_verify.py:373`), of
  `candidate.artifact` (383) or of the command's output (236) makes the verifier wait for ever,
  although `timeout_seconds` "is supposed to bound the whole verification" (61). `HangsOnlyOnPipe`
  says that this is the only way, and never after a command that left everything as it was.
* Seals: validation's `near_duplicates`, which are of all records, are part of every
  operational report (`analysis.py:889`): ids, lineages and task texts of sealed records, although
  the default scope is documented as "development + policy_selection only"
  (`docs/verification/v1.2-real-task-evidence.md:76`); sealed records are counted in it too.
  `SealedStaysSealed` is what is left: nothing of how they did gets out.
* Runner, registry, verifier: an append that tears a JSONL line also swallows the next event
  (`EvidenceAccountedUpToTear` is the guarantee that remains); a helper of the oracle's command
  may restore what it changed before the second digest.
* Dataset: a session that loaded a dataset before `finalize-holdout` seals it again when it
  writes; a torn `write_dataset` leaves no readable dataset, and the changelog is gone with it
  (`HistoryLostOnlyMidWrite`); `ingest-fixture-set` over a frozen
  dataset republishes its version with other records (`cli.py:218`); the persisted
  `holdout_state` is checked before the receipt (`analysis.py:875`), so `finalize-holdout` without
  `--dataset`, then `analyze-v12 --unseal-receipt`, is refused.
* Criteria: when the task declares no scope or no cases, the producer's own are taken
  (`checklets.py:311`), which is why `ClaimsOnlySilence` has its premise; a claimed
  `signature_changes` that is no list makes the dependency checklet raise (`checklets.py:501`), so
  that a producer can turn its answer into an error, which is never waived; a requirement of short
  words is found by the syntax tree and not by the text; checklet and shared
  rater disagree on deleted files, on `*args` and under requirement patterns, each a false
  positive or a miss in the metrics that is no fault of the checklet; the two raters read
  different files when an artifact spells paths with `./`, or is a diff. An artifact the gate
  lets through as declared but that cannot be parsed is verified, and then the adjudicator
  raises (`adjudication.py:259`), so a record with the flag `PATCH_INVALID` never exists; one such
  fixture ends `ingest-fixture-set` with nothing written.
* Ingestion: the injection guard compares raw paths of files that are there, so a path spelled
  with backslashes, or deleted by the candidate, passes it; validation catches these from the
  checklets' path lists, unless those checklets failed or the candidate has the file unchanged
  from its base and no checklet lists it. A path with `./` or `//` passes both. The oracle's file
  then lies over the candidate's (`hard_verify.py:418`); if its bytes are others and the command
  exited, the workspace digest refuses the record (`integrity.py:98`), and if the command did not
  exit, there is no verdict. What is ingested with a verdict therefore was run on the candidate's own
  bytes, though its oracle may be among its files. `LeaksAreCaught` says exactly this.
* Runner: `process.start()` waits without a timeout for a child that never takes a long payload
  (`checklets.py:637`); such a run is never verified.
* Decision: past the sample and diversity gates every record counts, fixtures included, although
  `docs/verification/v1.2-real-task-evidence.md:103` says fixtures cannot be silently mixed in.
  `_low_risk` calls a record without observations low risk, which the shadow policy would not
  waive. Redaction hides more than it must when all records of an open partition are invalid.
* Replay: a frozen replay of a record whose artifact is no coding patch is refused, since a replay
  is always of a coding patch (`v12_report.py:330`); otherwise it exits 0 whatever the
  verdict in the copy is (`replay-v12` does not read `final_outcome`) and does not compare observations; a full one compares the outcome only, so
  altered bytes that are judged alike exit 0; `analysis-only` always exits 0.
* Baseline: the manifest need not be committed for a validation to succeed, only the source;
  torn mints of two invocations can combine, which is harmless because both halves must agree.

## 5. Proofs

All theorems hold for every value of the constants under the module's named assumption
(`RunAssumption`, `IsolationAssumption`, `StoreAssumption`, `DatasetAssumption`,
`CommandsAssumption`, `BaselineAssumption`, `BundleAssumption`, `CriteriaAssumption`,
`IngestionAssumption`, `DecisionAssumption`, `PipelineAssumption`), which TLC evaluates in the runs. Every invariant
of a passing run is also a theorem, and so are the action properties
(`HistoryLostOnlyMidWrite` under a condition); the type invariants
of `ArtifactStore` and `Criteria` are theorems without a run of their own, and `SealsAreRespected`
covers the two processes of `dataset_shared` too.

* `VerificationRunProofs`. `TypeCorrect` first; every later proof uses it.
  `RefinesMandatoryVerification` goes action by action: `HardVerify` maps to `Verify`,
  `Register` and `RegisterFails` to `Register`, `CheckletHangs` and `VerifierHangs` to `Hang`,
  `Return` and `Crash` to their namesakes, all else stutters on `Phase`. `LogIsTruthful` needs `ScriptSpeaksTrue`: no event in the script
  speaks of the verifier before it answered. `WaiversAreEarned` needs `CheckletsReported`: each
  applicable checklet behind the registry's position has an observation, an error if it broke.
  `EvidenceUpToTear` needs to know that a fragment is always the last, failed, event;
  `EvidenceComplete` is the case of a sink that does not tear. `MoreEvidenceNeverWaives` is
  about the policy alone: it is monotone, but that the rule for an artifact nobody observed
  gives way to the first observation.
* `CheckletIsolationProofs`. `IsolationInv`: until the parent reads, what was written lies
  in the pipe, and it reads only from a child that is gone; so a whole message is never
  longer than the pipe. That a child which exits has written all of its message gives
  `OnlyTornMessagesStick`: a receive that lacks the rest of its message waits for a child that
  died in the middle of it or is under SIGKILL. `ObservedOnce` needs that the teardown starts
  with an observation.
* `ArtifactStoreProofs`. `HasOwner`: an existing file has a call, the last to truncate it,
  all of whose blocks are in it. That call is what makes the content whole once nobody
  writes. `NeverOverwritten` is false (`store_race`); `ApartNothingIsOverwritten` proves it
  of behaviours in which `CallsApart` always holds, which says that the race is the only reason.
  `CheckHolds` is its inductive invariant: what `exists()` said is still so at `write_bytes()`.
* `DatasetProofs`. Each function of `EvidenceDataset` preserves `Explained` and validity
  (a lemma each); the commands only move datasets between `disk` and `mem`.
  `SealsFollowReceipts` adds that a seal opens only after its receipt exists.
  `FrozenVersionsName` and `HistoryKeptOrCut` are about the dataset as the code expects it to be
  used: without ingestion over an existing path, and with `OneWriter`, which asks of the
  processes that hold a dataset to be written that there is one at a time (analyses and receipts
  may overlap with it). `LineageInv` carries them: what will be written continues the changelog
  on disk, and its version is past every published one or is that one, still frozen.
  `HistoryKeptOrCut` also needs `LossInv`: no two writes overlap, and while the file cannot be
  read nobody holds a dataset but the process that is writing it.
* `HardVerifyProofs`. `VerifyInv` ties outcome, exit status, digests and history together
  along `pc`; the command's own steps are shown to leave it alone. `RunnerIsAnswered` is the
  refinement of `MandatoryVerification`'s `Verify`: it needs that the outcome is settled before
  the workspace is removed, so that whatever ends the verification there still answers.
* `CriteriaProofs`. `StagesInv` says that what each stage left is still its answer about the
  artifact as submitted, so the rest are facts about the inspectors, for any texts: a lemma
  per criterion relates checklet and label, or the two labels, from what both sides read
  (`Bundle` against `AstBundle`, touched against rewritten files). Of the texts only
  `BundleAssumption` and `CriteriaAssumption` are assumed: what a source is, and that
  repositories map paths to sources. What the registry replaces by errors is any set of
  checklets, so `CheckletsExplained` and `ClaimsSilence` hold for any failures.
* `BaselineProofs`. That what was validated is recoverable is inductive with the types, since
  the history only grows; the types need `Dated`: the commits that manifests name exist. That
  it was minted needs `HistoryTraced`: every readable file, in the tree and in every commit it
  can come back from, was written by a mint.
* `EvidenceProofs`. `Ingestions`: every record is the ingestion of some manifest that was not
  refused, and passed validation. Leak and low-risk properties follow from it by the
  definitions, for any observations. `ReportIsCurrent`: a report that is still there is the
  report on this dataset; seals and real-task gating are then facts about `Report`. For the seals
  the dataset is compared with one whose sealed records say nothing of how they did (`Twins`):
  what `Report` counts and groups of all records it reads off their tasks (`TwinsCount`), the
  quality entries are redacted (`QualityKept`), the rest is of open records. That is all the
  seals give: which sealed records there are does reach a report (section 4).
  `Compatible`: no two records conflict; with it `ChecksAreValidation` shows the checks of an
  append equivalent to `EvidenceDataset`'s `Admissible`, both ways, and `AppendsAdmissible`
  follows; `RecordsSuitDatasets` is `DatasetAssumption` for these records, so the theorems of
  `DatasetProofs` are about them too. What a replay vouches for follows from `Exit` by cases.

Model-checked only: liveness under fairness (the liveness part of `VerificationIsMandatory`,
`DeliveredInTime`, `HangsOnlyMidTransfer`, `HangsOnlyOnPipe`), which is out of the
prover's reach, as is `ENABLED`. The bounds `MaxLog`, `MaxRecords` and `MaxCommits` are guards
of actions: the theorems hold for any value of them.

## 6. Not modelled, and abstractions

* Text is reduced to facts: which words a requirement needs, what counts as a marker or a
  handled case, synonyms and substrings are constants of `CodingBundle`. A diff yields text
  of both sides. Files that are neither Python nor tests are left out, as are new files whose
  base is an empty string.
* `Blocked` of `EvidenceDataset` is a constant set. `validate_record` (`integrity.py:66`) does look
  at the live tree, but `collect_baseline()` returns there what the code itself says its baseline
  is, so nothing drifts; only a frozen file that is missing makes it raise. `HasBlockingCode` of `Ingestion`
  is what remains reachable for records this package makes.
* Baseline: a repository without git, an unknown commit, and `write_baseline` with a path of the
  caller's own (which writes over the control's snapshot) are left out; no command passes one.
* Statistics nothing is decided from: Wilson intervals, kappa, phi, combinations, strata, costs.
  Floating-point division is exact comparison of products here.
* The V1 commands `run`, `evaluate` and `replay`, `adjudicate`, the expert form, and the listing
  commands: one call each of an operation modelled elsewhere, no state of their own.
* `validate_baseline` with a manifest of the caller's own (`frozen`): only two tests pass one.
* `validate_record` is what it is for a record just made by this package and code: the codes
  `OracleLeak`, `NotTheCandidate` and an empty identity field.
* Time is one flag per deadline; wall-clock values, latencies and costs are left out.
* The Windows branch of `_kill_process_tree`, symbolic links, and permissions.
* Collaborators that break their protocol's shape (a gate, observation or verifier without
  the attributes and `to_dict` the runner reads outside its `try`) end a run like a crash.
* A process started by a checklet is not modelled: only the child itself is.
* `PROJECT.json` lists the remaining components with the reason for each.

## 7. Plan

Done: `ShadowPolicy`; `MandatoryVerification`, `VerificationRun`; `CheckletIsolation`;
`ArtifactStore`; `EvidenceDataset`, `DatasetCommands`; `HardVerify`; `CodingBundle`, `Criteria`;
`Baseline`; `Ingestion`, `Decision`, `EvidencePipeline`; with a proof for every invariant and
action property of the passing runs.

Next, in this order:

1. Compositions: `CheckletIsolation` as an implementation of the registry's step in
   `VerificationRun` (its result maps to `CheckletAnswers` or `CheckletFails`, its hang to
   `CheckletHangs`); `EvidencePipeline`'s records
   in `DatasetCommands` in place of its constant `Batches`.
2. The calibration and final-holdout scopes of `Decision`, with the evaluation-grade check, and
   `SealedStaysSealed` for them.
3. What a decision may depend on, as theorems about `DecideV2`.
