--------------------------- MODULE DatasetCommands --------------------------
(***************************************************************************)
(* The commands and library sessions that work on one dataset file: each   *)
(* is a process that loads the file, makes a new dataset of it in memory   *)
(* and writes the file in place (cli.py, dataset.py load_dataset and       *)
(* write_dataset).  Nothing locks the file, nothing notices that it has    *)
(* changed since it was loaded, and a write truncates it first.            *)
(***************************************************************************)
EXTENDS EvidenceDataset, FiniteSets

CONSTANTS
  Processes,  \* commands that may be at work at the same time
  Batches,    \* the sets of records an ingestion or a session appends
  Reingest,   \* may ingest-fixture-set be given the path of a dataset?
  MaxLog      \* bound: length of the changelog

ASSUME CommandsAssumption ==
  /\ Batches \subseteq SUBSET Records
  /\ Reingest \in BOOLEAN /\ MaxLog \in Nat

VARIABLES
  disk,       \* the dataset last written; an empty changelog: no file yet
  intact,     \* does the file parse?
  receipts,   \* the targets for which a receipt file exists
  pc, mem,    \* where each process is, and the dataset it holds
  arg,        \* its arguments: an unseal target, or a scope and a receipt
  overlapped, \* processes whose write another one's has overlapped
  published   \* history: version and records of every frozen dataset written

vars == <<disk, intact, receipts, pc, mem, arg, overlapped, published>>

NoArg == [target |-> "none", scope |-> "none", given |-> "none"]

TypeOK ==
  /\ disk \in Datasets
  /\ intact \in BOOLEAN
  /\ receipts \subseteq Targets
  /\ pc \in [Processes -> {"idle", "session", "minted", "ready", "writing",
                           "reported", "refused", "invalid"}]
  /\ mem \in [Processes -> Datasets]
  /\ arg \in [Processes -> [target : Targets \cup {"none"}, scope : Scopes \cup {"none"},
                            given : Targets \cup {"none"}]]
  /\ overlapped \subseteq Processes
  /\ published \subseteq [version : Nat, records : SUBSET Records, invalid : SUBSET Records]

Init ==
  /\ disk = EmptyDataset
  /\ intact = TRUE
  /\ receipts = {}
  /\ pc = [p \in Processes |-> "idle"]
  /\ mem = [p \in Processes |-> EmptyDataset]
  /\ arg = [p \in Processes |-> NoArg]
  /\ overlapped = {}
  /\ published = {}

Move(p, from, to) == pc[p] = from /\ pc' = [pc EXCEPT ![p] = to]
Hold(p, d)        == mem' = [mem EXCEPT ![p] = d]
Exists            == disk.log # <<>>
Loadable          == Exists /\ intact
Fits(d)           == Len(d.log) <= MaxLog
FileUntouched     == UNCHANGED <<disk, intact, overlapped, published>>

\* A process that ends forgets everything but what it has written.
Forget(p) == Hold(p, EmptyDataset) /\ arg' = [arg EXCEPT ![p] = NoArg]

-----------------------------------------------------------------------------
(* A session with the library: load, any of the functions, write.           *)
Load(p) ==
  /\ Move(p, "idle", "session")
  /\ Loadable
  /\ Hold(p, disk)
  /\ FileUntouched /\ UNCHANGED <<receipts, arg>>

SessionAppends(p) ==
  \E new \in Batches :
    /\ Move(p, "session", "session")
    /\ Admissible(mem[p], new)
    /\ Fits(AppendRecords(mem[p], new))
    /\ Hold(p, AppendRecords(mem[p], new))
    /\ FileUntouched /\ UNCHANGED <<receipts, arg>>

SessionInvalidates(p) ==
  \E r \in mem[p].records :
    /\ Move(p, "session", "session")
    /\ Fits(InvalidateRecord(mem[p], r))
    /\ Hold(p, InvalidateRecord(mem[p], r))
    /\ FileUntouched /\ UNCHANGED <<receipts, arg>>

SessionFreezes(p) ==
  /\ Move(p, "session", "session")
  /\ Fits(FreezeDataset(mem[p]))
  /\ Hold(p, FreezeDataset(mem[p]))
  /\ FileUntouched /\ UNCHANGED <<receipts, arg>>

\* ingest-fixture-set [--freeze]: always from an empty dataset.
Ingest(p) ==
  \E new \in Batches, freeze \in BOOLEAN :
    LET d == AppendRecords(EmptyDataset, new) IN
    /\ Move(p, "idle", "ready")
    /\ Reingest \/ ~ Exists
    /\ Admissible(EmptyDataset, new)
    /\ Hold(p, IF freeze THEN FreezeDataset(d) ELSE d)
    /\ FileUntouched /\ UNCHANGED <<receipts, arg>>

\* finalize-holdout and unseal-calibration write the receipt file first ...
MintReceipt(p) ==
  \E target \in Targets :
    /\ Move(p, "idle", "minted")
    /\ receipts' = receipts \cup {target}
    /\ arg' = [arg EXCEPT ![p] = [NoArg EXCEPT !.target = target]]
    /\ FileUntouched /\ UNCHANGED mem

\* ... and, given --dataset, then load and mark the dataset.
UnsealDataset(p) ==
  /\ Move(p, "minted", "ready")
  /\ Loadable
  /\ Fits(PersistUnseal(disk, arg[p].target))
  /\ Hold(p, PersistUnseal(disk, arg[p].target))
  /\ FileUntouched /\ UNCHANGED <<receipts, arg>>

\* analyze-v12 and report-v12 read the file and write elsewhere.
Analyze(p) ==
  \E scope \in Scopes, given \in receipts \cup {"none"} :
    /\ Move(p, "idle", Verdict(disk, scope, given))
    /\ Loadable
    /\ Hold(p, disk)
    /\ arg' = [arg EXCEPT ![p] = [NoArg EXCEPT !.scope = scope, !.given = given]]
    /\ FileUntouched /\ UNCHANGED receipts

-----------------------------------------------------------------------------
(* write_dataset: write_text opens the file, which truncates it ...         *)
Writing == {q \in Processes : pc[q] = "writing"}

BeginWrite(p) ==
  /\ pc[p] \in {"session", "ready"}
  /\ pc' = [pc EXCEPT ![p] = "writing"]
  /\ intact' = FALSE
  /\ overlapped' = IF Writing = {} THEN overlapped ELSE overlapped \cup Writing \cup {p}
  /\ UNCHANGED <<disk, receipts, mem, arg, published>>

\* What a frozen dataset that is written commits to.
Published(d) == [version |-> d.version, records |-> d.records, invalid |-> d.invalid]

\* Mutant: a write keeps the records that are on disk by now.
MergeOnWrite(p) ==
  /\ Move(p, "writing", "idle")
  /\ disk' = [mem[p] EXCEPT !.records = @ \cup disk.records]
  /\ intact' \in IF p \in overlapped THEN BOOLEAN ELSE {TRUE}
  /\ published' = published
  /\ overlapped' = overlapped \ {p}
  /\ Forget(p)
  /\ UNCHANGED receipts

\* ... and fills it.  What two overlapping writes leave behind need not parse.
EndWrite(p) ==
  /\ Move(p, "writing", "idle")
  /\ disk' = mem[p]
  /\ intact' \in IF p \in overlapped THEN BOOLEAN ELSE {TRUE}
  /\ published' = IF intact' /\ mem[p].frozen THEN published \cup {Published(mem[p])}
                                              ELSE published
  /\ overlapped' = overlapped \ {p}
  /\ Forget(p)
  /\ UNCHANGED receipts

\* The command is over: no --dataset, an exception, a report printed.  A
\* process that dies does the same, in the middle of a write too.
Leave(p) ==
  /\ pc[p] # "idle"
  /\ pc' = [pc EXCEPT ![p] = "idle"]
  /\ overlapped' = overlapped \ {p}
  /\ Forget(p)
  /\ UNCHANGED <<disk, intact, receipts, published>>

Next == \E p \in Processes :
  \/ Load(p) \/ SessionAppends(p) \/ SessionInvalidates(p) \/ SessionFreezes(p)
  \/ Ingest(p) \/ MintReceipt(p) \/ UnsealDataset(p) \/ Analyze(p)
  \/ BeginWrite(p) \/ EndWrite(p) \/ Leave(p)

Spec == Init /\ [][Next]_vars

-----------------------------------------------------------------------------
(* Every dataset there is, on disk or in memory, is explained by its own    *)
(* changelog: members, invalidations, seals, receipt, frozen and version.   *)
(* (dataset.py: each function lists all fifteen fields again.)              *)
ChangelogExplains == Explained(disk) /\ \A p \in Processes : Explained(mem[p])

(* Whatever is appended, invalidated or lost to a concurrent write, the     *)
(* file never holds duplicates or a lineage that crosses partitions, so an  *)
(* analysis of it is never stopped by its own validation.                   *)
(* (integrity.py validate_dataset_records, analysis.py analyze_records.)    *)
AlwaysAnalysable ==
  /\ Valid(disk.records) /\ disk.invalid \subseteq disk.records
  /\ \A p \in Processes : Valid(mem[p].records) /\ mem[p].invalid \subseteq mem[p].records

(* A report shows a sealed partition only of a dataset whose own changelog  *)
(* records the unsealing of that partition, after its receipt was written.  *)
(* (splits.py, analysis.py, and every function that passes a seal on.)      *)
ReportsRespectSeals ==
  \A p \in Processes : pc[p] = "reported" =>
    \A r \in Usable(mem[p], arg[p].scope) :
      /\ PartitionOf[r] = "holdout" => Unsealed(mem[p], "holdout") /\ "holdout" \in receipts
      /\ PartitionOf[r] = "calibration_reserved" =>
           Unsealed(mem[p], "calibration") /\ "calibration" \in receipts

\* The inductive invariant behind it: no seal opens before its receipt exists.
SealsFollowReceipts ==
  /\ \A t \in Targets : Unsealed(disk, t) => t \in receipts
  /\ \A p \in Processes :
       /\ \A t \in Targets : Unsealed(mem[p], t) => t \in receipts
       /\ pc[p] = "minted" => arg[p].target \in receipts
       /\ pc[p] = "reported" => ~ StateSeals(mem[p], arg[p].scope)

(* The version of a frozen dataset names its records.                       *)
FrozenVersionNamesRecords ==
  \A a, b \in published : a.version = b.version => a = b

(* The history of the dataset is there as long as the file can be read, or  *)
(* a process is at work writing a dataset that continues it.                *)
Continues(d) ==
  Len(disk.log) <= Len(d.log) /\ \A i \in DOMAIN disk.log : d.log[i] = disk.log[i]

HistorySurvives == intact \/ \E p \in Writing : Continues(mem[p])

(* Every dataset written continues the changelog of the one before it.  The *)
(* file is the only copy: a process that dies between write_text's          *)
(* truncation and its fill takes the whole history along, nothing else      *)
(* does, and no command brings a history back that was lost that way.       *)
(* (dataset.py write_dataset, cli.py.)                                      *)
HistoryLostOnlyMidWrite ==
  [][/\ Len(disk.log) <= Len(disk'.log)
     /\ \A i \in DOMAIN disk.log : disk'.log[i] = disk.log[i]
     /\ HistorySurvives /\ ~ HistorySurvives' =>
          \E p \in Writing : pc'[p] = "idle" /\ UNCHANGED disk
     /\ Exists /\ ~ HistorySurvives => ~ HistorySurvives']_vars

(* What both of them ask of the users, since no code sees to it: of the     *)
(* processes that hold a dataset they will write there is one at a time.    *)
(* Analyses and the minting of receipts may overlap with it and each other. *)
Holding   == {"session", "ready", "writing"}
OneWriter == \A p, q \in Processes : pc[p] \in Holding /\ pc[q] \in Holding => p = q

(* The inductive invariant behind them, under OneWriter: a dataset that     *)
(* will be written continues the changelog of the one on disk, and of both  *)
(* the version is past every published one, or it is that one, frozen.      *)
Succeeds(d, a) == a.version < d.version \/ (d.frozen /\ a = Published(d))

LineageInv ==
  /\ FrozenVersionNamesRecords
  /\ \A a \in published : Succeeds(disk, a)
  /\ \A p \in Processes : pc[p] \in Holding =>
       Continues(mem[p]) /\ \A a \in published : Succeeds(mem[p], a)

\* No two writes overlap, and while the file cannot be read nobody holds the
\* dataset but the process that is writing it.
LossInv ==
  /\ overlapped = {}
  /\ Exists /\ ~ intact => \A p \in Processes : pc[p] \in Holding => pc[p] = "writing"

=============================================================================
