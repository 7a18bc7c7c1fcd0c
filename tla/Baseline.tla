------------------------------ MODULE Baseline ------------------------------
(***************************************************************************)
(* The experiment's baselines (baseline.py, validate-baseline): which      *)
(* implementation is live, which one the manifest names, which one the     *)
(* source snapshot holds, and what git has of all three.  The frozen files *)
(* are one text; the manifest's hash of a text is the text; its versions   *)
(* and its content address follow from the text.  The V1.1 control is a    *)
(* manifest and a snapshot of its own that minting leaves alone.           *)
(***************************************************************************)
EXTENDS Naturals, Sequences

CONSTANTS
  Texts,        \* contents of the frozen files, line endings aside
  Original,     \* the one the control was frozen with
  Absent, Torn, \* a file that is not there; one that does not parse
  MaxCommits    \* bound

ASSUME BaselineAssumption ==
  /\ Original \in Texts /\ MaxCommits \in Nat \ {0}
  /\ Absent # Torn

Codes     == [text : Texts, crlf : BOOLEAN]
Manifests == [text : Texts, commit : Nat]
Snapshots == [hash : Texts, bytes : Texts]

\* A working tree, and what a commit has of it.
Trees == [code : Codes, runtime : Manifests \cup {Absent, Torn},
          snapshot : Snapshots \cup {Absent, Torn},
          control : Manifests \cup {Absent, Torn},
          controlSnapshot : Snapshots \cup {Absent, Torn}]

VARIABLES
  tree, commits,  \* the working tree; the history, its last element HEAD
  minting,        \* has write_baseline written the manifest only?
  verdict,        \* what the last validation said of this very state
  minted,         \* history: the texts written to a manifest, and to a snapshot
  validated       \* history: texts that a validation called ok

vars == <<tree, commits, minting, verdict, minted, validated>>

HEAD == commits[Len(commits)]
Live  == tree.code.text   \* _canonical_source_bytes: CRLF is no difference

\* The commits that the manifests of a tree name are in the history.
Dated(t) ==
  \A f \in {t.runtime, t.control} \ {Absent, Torn} : f.commit \in DOMAIN commits

TypeOK ==
  /\ tree \in Trees /\ commits \in Seq(Trees) /\ Len(commits) \in 1..MaxCommits
  /\ Dated(tree) /\ \A c \in DOMAIN commits : Dated(commits[c])
  /\ minting \in BOOLEAN
  /\ verdict \in {"none", "ok", "failed", "no_runtime", "error"}
  /\ minted \in [manifest : SUBSET Texts, snapshot : SUBSET Texts]
  /\ validated \subseteq Texts

SnapshotOf(t) == [hash |-> t, bytes |-> t]

\* A checkout from before the fork: the control, and no runtime baseline.
FirstTree == [code |-> [text |-> Original, crlf |-> FALSE],
              runtime |-> Absent, snapshot |-> Absent,
              control |-> [text |-> Original, commit |-> 1],
              controlSnapshot |-> SnapshotOf(Original)]

Init ==
  /\ tree = FirstTree /\ commits = <<FirstTree>>
  /\ minting = FALSE /\ verdict = "none" /\ validated = {}
  /\ minted = [manifest |-> {Original}, snapshot |-> {Original}]

-----------------------------------------------------------------------------
(* validate_baseline.                                                       *)

\* active_baseline_paths: the runtime baseline, if its manifest exists.
Manifest == IF tree.runtime # Absent THEN tree.runtime ELSE tree.control
Snapshot == IF tree.runtime # Absent THEN tree.snapshot ELSE tree.controlSnapshot
Committed == IF tree.runtime # Absent THEN HEAD.snapshot ELSE HEAD.controlSnapshot

Readable(f) == f \notin {Absent, Torn}

\* restore_source_snapshot rehashes the stored bytes; the restored hashes are compared.
Restores(s, text) == Readable(s) /\ s.hash = text /\ s.bytes = text

\* validate_frozen_control: the control is consistent with itself.
ControlOk == Readable(tree.control) /\ Restores(tree.controlSnapshot, tree.control.text)

\* Mutant: "tracked" means that git knows the path.
SnapshotPathTracked == Committed # Absent

\* The committed snapshot is the one on disk.
SnapshotTracked == Committed # Absent /\ Committed = Snapshot

\* git_tree_hashes of the recorded commit or of HEAD: raw bytes, so that a
\* commit with CRLF never matches.
GitReconstructable ==
  \E c \in {Manifest.commit, Len(commits)} :
    commits[c].code = [text |-> Live, crlf |-> FALSE]

\* Mutant: a snapshot that restores something will do.
SnapshotRestoresSomething == Readable(Snapshot) /\ Snapshot.hash = Snapshot.bytes

SnapshotOk == Restores(Snapshot, Live)

\* An unreadable manifest is not caught: the command reports it and exits 2.
Validation ==
  IF ~ Readable(Manifest) THEN "error"
  ELSE IF /\ Manifest.text = Live
          /\ SnapshotOk /\ (SnapshotTracked \/ GitReconstructable)
          /\ ControlOk
       THEN "ok" ELSE "failed"

\* The library call, and the command, which wants a runtime baseline.  Another
\* process may be between the two writes of a mint.  A caller of the library may
\* pass a manifest of its own (frozen); only two tests do.
ValidateAs(v) ==
  /\ verdict' = v
  /\ validated' = IF v = "ok" THEN validated \cup {Live} ELSE validated
  /\ UNCHANGED <<tree, commits, minting, minted>>

ValidateLibrary == ValidateAs(Validation)
ValidateCommand == ValidateAs(IF tree.runtime = Absent THEN "no_runtime" ELSE Validation)

-----------------------------------------------------------------------------
(* Everything else moves the tree, and makes the last verdict old news.     *)

Change(t) == tree' = t /\ verdict' = "none" /\ UNCHANGED <<commits, validated>>

EditCode ==
  /\ \E c \in Codes : Change([tree EXCEPT !.code = c])
  /\ UNCHANGED <<minting, minted>>

\* Mutant: the commit that is recorded is the one to come.
MintManifestAhead ==
  /\ ~ minting /\ minting' = TRUE
  /\ Change([tree EXCEPT !.runtime = [text |-> Live, commit |-> Len(commits) + 1]])
  /\ minted' = [minted EXCEPT !.manifest = @ \cup {Live}]

\* validate-baseline --write: write_baseline writes the manifest, then reads
\* the live files again and writes the snapshot.  Each write truncates first.
MintManifest ==
  /\ ~ minting /\ minting' = TRUE
  /\ Change([tree EXCEPT !.runtime = [text |-> Live, commit |-> Len(commits)]])
  /\ minted' = [minted EXCEPT !.manifest = @ \cup {Live}]

MintSnapshot ==
  /\ minting /\ minting' = FALSE
  /\ Change([tree EXCEPT !.snapshot = SnapshotOf(Live)])
  /\ minted' = [minted EXCEPT !.snapshot = @ \cup {Live}]

\* The process dies: before a write, or in the middle of one.
MintDies ==
  /\ \/ ~ minting /\ Change([tree EXCEPT !.runtime = Torn])
     \/ minting /\ \E s \in {tree.snapshot, Torn} : Change([tree EXCEPT !.snapshot = s])
  /\ minting' = FALSE
  /\ UNCHANGED minted

\* A byte of the stored source changes, the runtime's or the control's.
Damage ==
  /\ \/ \E t \in Texts : /\ Readable(tree.snapshot)
                         /\ Change([tree EXCEPT !.snapshot.bytes = t])
     \/ \E t \in Texts : /\ Readable(tree.controlSnapshot)
                         /\ Change([tree EXCEPT !.controlSnapshot.bytes = t])
  /\ UNCHANGED <<minting, minted>>

\* The code, the runtime baseline or everything is committed.
Commit ==
  \E parts \in {{"code"}, {"runtime", "snapshot"}, DOMAIN tree} :
    /\ Len(commits) < MaxCommits
    /\ commits' = Append(commits, [f \in DOMAIN tree |->
                                     IF f \in parts THEN tree[f] ELSE HEAD[f]])
    /\ verdict' = "none"
    /\ UNCHANGED <<tree, minting, minted, validated>>

\* The working tree is thrown away for that of HEAD: a fresh clone, a reset.
Checkout ==
  /\ Change(HEAD)
  /\ UNCHANGED <<minting, minted>>

Next ==
  \/ ValidateLibrary \/ ValidateCommand
  \/ EditCode \/ MintManifest \/ MintSnapshot \/ MintDies \/ Damage
  \/ Commit \/ Checkout

Spec == Init /\ [][Next]_vars

-----------------------------------------------------------------------------
(* "baseline content ... is not reconstructable from tracked source" must   *)
(* fail the validation: every text that was ever called ok can be had from  *)
(* the history, as a commit's files or out of its snapshots, whatever       *)
(* becomes of the working tree afterwards.                                  *)
ValidatedIsRecoverable ==
  \A t \in validated : \E c \in DOMAIN commits :
    \/ commits[c].code.text = t
    \/ Restores(commits[c].snapshot, t)
    \/ Restores(commits[c].controlSnapshot, t)

(* A mint is two writes with the tree in between, and each can be torn:     *)
(* whatever was edited, torn or checked out around them, only a text that   *)
(* was written whole to a manifest and whole to a snapshot is ever          *)
(* validated, never one of which a stale or a torn half is left.            *)
ValidatedWasMinted == validated \subseteq minted.manifest \cap minted.snapshot

=============================================================================
