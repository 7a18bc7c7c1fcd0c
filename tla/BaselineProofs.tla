---------------------------- MODULE BaselineProofs ----------------------------
(***************************************************************************)
(* Baseline's three invariants for any number of texts and commits.  That  *)
(* a validated text is in the history is inductive beside the types: the   *)
(* history only grows.  That it was minted needs to be said of every file  *)
(* that can come back from a commit: HistoryTraced.                        *)
(***************************************************************************)
EXTENDS Baseline, TLAPS

TreeTraced(t) ==
  /\ Readable(t.runtime) => t.runtime.text \in minted.manifest
  /\ Readable(t.control) => t.control.text \in minted.manifest
  /\ Readable(t.snapshot) => t.snapshot.hash \in minted.snapshot
  /\ Readable(t.controlSnapshot) => t.controlSnapshot.hash \in minted.snapshot

HistoryTraced ==
  /\ TreeTraced(tree)
  /\ \A c \in DOMAIN commits : TreeTraced(commits[c])

LEMMA FirstTreeTyped == FirstTree \in Trees
BY BaselineAssumption DEF FirstTree, Trees, Codes, Manifests, Snapshots, SnapshotOf

LEMMA HeadTyped == TypeOK => HEAD \in Trees /\ Dated(HEAD) /\ Len(commits) \in DOMAIN commits
BY DEF TypeOK, HEAD

LEMMA Grown ==
  ASSUME NEW S, NEW s \in Seq(S), NEW e \in S
  PROVE  /\ Append(s, e) \in Seq(S) /\ Len(Append(s, e)) = Len(s) + 1
         /\ DOMAIN s \subseteq DOMAIN Append(s, e)
         /\ \A c \in DOMAIN s : Append(s, e)[c] = s[c]
         /\ \A c \in DOMAIN Append(s, e) :
              Append(s, e)[c] = e \/ (c \in DOMAIN s /\ Append(s, e)[c] = s[c])
OBVIOUS

\* What a commit records is a tree, and each of its files is one of two.
LEMMA CommitTyped ==
  ASSUME TypeOK, NEW parts \in SUBSET DOMAIN tree,
         NEW t, t = [f \in DOMAIN tree |-> IF f \in parts THEN tree[f] ELSE HEAD[f]]
  PROVE  /\ t \in Trees
         /\ t.runtime \in {tree.runtime, HEAD.runtime}
         /\ t.control \in {tree.control, HEAD.control}
         /\ t.snapshot \in {tree.snapshot, HEAD.snapshot}
         /\ t.controlSnapshot \in {tree.controlSnapshot, HEAD.controlSnapshot}
<1>1. tree \in Trees /\ HEAD \in Trees
  BY DEF TypeOK, HEAD
<1>2. DOMAIN tree = {"code", "runtime", "snapshot", "control", "controlSnapshot"}
  BY <1>1 DEF Trees
<1>3. /\ t.code \in {tree.code, HEAD.code}
      /\ t.runtime \in {tree.runtime, HEAD.runtime}
      /\ t.control \in {tree.control, HEAD.control}
      /\ t.snapshot \in {tree.snapshot, HEAD.snapshot}
      /\ t.controlSnapshot \in {tree.controlSnapshot, HEAD.controlSnapshot}
  BY <1>2
<1>4. t = [code |-> t.code, runtime |-> t.runtime, snapshot |-> t.snapshot,
           control |-> t.control, controlSnapshot |-> t.controlSnapshot]
  BY <1>2
<1>5. /\ t.code \in Codes /\ t.runtime \in Manifests \cup {Absent, Torn}
      /\ t.snapshot \in Snapshots \cup {Absent, Torn}
      /\ t.control \in Manifests \cup {Absent, Torn}
      /\ t.controlSnapshot \in Snapshots \cup {Absent, Torn}
  BY <1>1, <1>3 DEF Trees
<1>. QED BY <1>3, <1>4, <1>5 DEF Trees

LEMMA InitBaseline == Init => TypeOK /\ ValidatedIsRecoverable /\ HistoryTraced /\ ValidatedWasMinted
<1>. SUFFICES ASSUME Init PROVE TypeOK /\ ValidatedIsRecoverable /\ HistoryTraced /\ ValidatedWasMinted
  OBVIOUS
<1>. USE BaselineAssumption, FirstTreeTyped DEF Init
<1>1. Len(commits) = 1 /\ commits \in Seq(Trees) /\ DOMAIN commits = {1} /\ commits[1] = FirstTree
  OBVIOUS
<1>2. TypeOK
  <2>1. minted \in [manifest : SUBSET Texts, snapshot : SUBSET Texts]
    OBVIOUS
  <2>2. Dated(FirstTree)
    BY <1>1 DEF FirstTree, Dated
  <2>3. Len(commits) \in 1..MaxCommits
    BY <1>1
  <2>4. \A c \in DOMAIN commits : Dated(commits[c])
    BY <1>1, <2>2
  <2>5. tree = FirstTree /\ minting = FALSE /\ verdict = "none" /\ validated = {}
    OBVIOUS
  <2>. QED BY <1>1, <2>1, <2>2, <2>3, <2>4, <2>5 DEF TypeOK
<1>3. TreeTraced(FirstTree)
  BY DEF TreeTraced, FirstTree, SnapshotOf, Readable
<1>4. HistoryTraced
  BY <1>1, <1>3 DEF HistoryTraced
<1>. QED BY <1>2, <1>4 DEF ValidatedIsRecoverable, ValidatedWasMinted

\* The history with t behind it, each of t's files of the working tree or of HEAD.
CommitOf(t) ==
  /\ commits' = Append(commits, t)
  /\ t.runtime \in {tree.runtime, HEAD.runtime}
  /\ t.control \in {tree.control, HEAD.control}
  /\ t.snapshot \in {tree.snapshot, HEAD.snapshot}
  /\ t.controlSnapshot \in {tree.controlSnapshot, HEAD.controlSnapshot}

LEMMA CommittedTree == ASSUME TypeOK, Commit PROVE \E t \in Trees : CommitOf(t)
<1>1. DOMAIN tree = {"code", "runtime", "snapshot", "control", "controlSnapshot"}
  BY DEF TypeOK, Trees
<1>2. PICK parts \in {{"code"}, {"runtime", "snapshot"}, DOMAIN tree} :
        commits' = Append(commits, [f \in DOMAIN tree |->
                                      IF f \in parts THEN tree[f] ELSE HEAD[f]])
  BY DEF Commit
<1>3. parts \in SUBSET DOMAIN tree
  BY <1>1
<1>. QED BY <1>2, <1>3, CommitTyped DEF CommitOf

-----------------------------------------------------------------------------
\* Every step but a commit and a validation leaves history and verdicts alone.
LEMMA TypeStep == ASSUME TypeOK, [Next]_vars PROVE TypeOK'
<1>. USE BaselineAssumption
<1>1. ASSUME NEW v \in {"ok", "failed", "no_runtime", "error"}, ValidateAs(v) PROVE TypeOK'
  BY <1>1 DEF ValidateAs, TypeOK, Dated, Live, Trees, Codes
<1>2. Validation \in {"ok", "failed", "error"}
  BY DEF Validation
<1>3. ASSUME ValidateLibrary PROVE TypeOK'
  BY <1>1, <1>2, <1>3 DEF ValidateLibrary
<1>4. ASSUME ValidateCommand PROVE TypeOK'
  BY <1>1, <1>2, <1>4 DEF ValidateCommand
<1>5. ASSUME NEW t \in Trees, Change(t), minting' \in BOOLEAN,
             minted' \in [manifest : SUBSET Texts, snapshot : SUBSET Texts],
             Dated(t)
      PROVE  TypeOK'
  <2>1. tree' = t /\ commits' = commits /\ verdict' = "none" /\ validated' = validated
    BY <1>5 DEF Change
  <2>2. Dated(t)' /\ \A c \in DOMAIN commits : Dated(commits[c])'
    BY <1>5, <2>1 DEF Dated, TypeOK
  <2>. QED BY <1>5, <2>1, <2>2 DEF TypeOK, Dated
<1>d. ASSUME NEW t \in Trees, t.runtime \in {tree.runtime, Torn}, t.control = tree.control
      PROVE  Dated(t)
  BY <1>d DEF TypeOK, Dated
<1>6. ASSUME EditCode PROVE TypeOK'
  <2>1. PICK c \in Codes : Change([tree EXCEPT !.code = c])
    BY <1>6 DEF EditCode
  <2>2. [tree EXCEPT !.code = c] \in Trees
    BY DEF TypeOK, Trees
  <2>3. /\ [tree EXCEPT !.code = c].runtime = tree.runtime
        /\ [tree EXCEPT !.code = c].control = tree.control
    BY DEF TypeOK, Trees
  <2>. QED BY <1>5, <1>d, <1>6, <2>1, <2>2, <2>3 DEF EditCode, TypeOK
<1>7. ASSUME MintManifest PROVE TypeOK'
  <2>. DEFINE t == [tree EXCEPT !.runtime = [text |-> Live, commit |-> Len(commits)]]
  <2>1. t \in Trees /\ t.runtime = [text |-> Live, commit |-> Len(commits)] /\ t.control = tree.control
    BY DEF TypeOK, Trees, Manifests, Live, Codes
  <2>2. Dated(t)
    BY <2>1 DEF TypeOK, Dated
  <2>3. minted' \in [manifest : SUBSET Texts, snapshot : SUBSET Texts]
    BY <1>7 DEF MintManifest, TypeOK, Live, Trees, Codes
  <2>4. Change(t) /\ minting' \in BOOLEAN
    BY <1>7 DEF MintManifest
  <2>. QED BY <1>5, <1>d, <2>1, <2>2, <2>3, <2>4
<1>8. ASSUME MintSnapshot PROVE TypeOK'
  <2>. DEFINE t == [tree EXCEPT !.snapshot = SnapshotOf(Live)]
  <2>1. t \in Trees /\ t.runtime = tree.runtime /\ t.control = tree.control
    BY DEF TypeOK, Trees, Snapshots, SnapshotOf, Live, Codes
  <2>2. minted' \in [manifest : SUBSET Texts, snapshot : SUBSET Texts]
    BY <1>8 DEF MintSnapshot, TypeOK, Live, Trees, Codes
  <2>3. Change(t) /\ minting' \in BOOLEAN
    BY <1>8 DEF MintSnapshot
  <2>. QED BY <1>5, <1>d, <2>1, <2>2, <2>3
<1>9. ASSUME MintDies PROVE TypeOK'
  <2>1. \A s \in {tree.snapshot, Torn} :
          /\ [tree EXCEPT !.snapshot = s] \in Trees
          /\ [tree EXCEPT !.snapshot = s].runtime = tree.runtime
          /\ [tree EXCEPT !.snapshot = s].control = tree.control
    BY DEF TypeOK, Trees
  <2>2. /\ [tree EXCEPT !.runtime = Torn] \in Trees
        /\ [tree EXCEPT !.runtime = Torn].runtime = Torn
        /\ [tree EXCEPT !.runtime = Torn].control = tree.control
    BY DEF TypeOK, Trees
  <2>3. minting' \in BOOLEAN /\ minted' \in [manifest : SUBSET Texts, snapshot : SUBSET Texts]
    BY <1>9 DEF MintDies, TypeOK
  <2>4. CASE Change([tree EXCEPT !.runtime = Torn])
    BY <1>5, <1>d, <2>2, <2>3, <2>4
  <2>5. CASE \E s \in {tree.snapshot, Torn} : Change([tree EXCEPT !.snapshot = s])
    BY <1>5, <1>d, <2>1, <2>3, <2>5
  <2>. QED BY <1>9, <2>4, <2>5 DEF MintDies
<1>10. ASSUME Damage PROVE TypeOK'
  <2>1. minting' \in BOOLEAN /\ minted' \in [manifest : SUBSET Texts, snapshot : SUBSET Texts]
    BY <1>10 DEF Damage, TypeOK
  <2>2. ASSUME NEW t \in Texts, Readable(tree.snapshot), Change([tree EXCEPT !.snapshot.bytes = t])
        PROVE  TypeOK'
    <3>1. tree.snapshot \in Snapshots /\ tree \in Trees
      BY <2>2 DEF TypeOK, Trees, Readable
    <3>2. [tree.snapshot EXCEPT !.bytes = t] \in Snapshots
      BY <3>1 DEF Snapshots
    <3>3. /\ [tree EXCEPT !.snapshot.bytes = t] \in Trees
          /\ [tree EXCEPT !.snapshot.bytes = t].runtime = tree.runtime
          /\ [tree EXCEPT !.snapshot.bytes = t].control = tree.control
      BY <3>1, <3>2 DEF Trees
    <3>. QED BY <1>5, <1>d, <2>1, <2>2, <3>3
  <2>3. ASSUME NEW t \in Texts, Readable(tree.controlSnapshot),
               Change([tree EXCEPT !.controlSnapshot.bytes = t])
        PROVE  TypeOK'
    <3>1. tree.controlSnapshot \in Snapshots /\ tree \in Trees
      BY <2>3 DEF TypeOK, Trees, Readable
    <3>2. [tree.controlSnapshot EXCEPT !.bytes = t] \in Snapshots
      BY <3>1 DEF Snapshots
    <3>3. /\ [tree EXCEPT !.controlSnapshot.bytes = t] \in Trees
          /\ [tree EXCEPT !.controlSnapshot.bytes = t].runtime = tree.runtime
          /\ [tree EXCEPT !.controlSnapshot.bytes = t].control = tree.control
      BY <3>1, <3>2 DEF Trees
    <3>. QED BY <1>5, <1>d, <2>1, <2>3, <3>3
  <2>. QED BY <1>10, <2>2, <2>3 DEF Damage
<1>11. ASSUME Commit PROVE TypeOK'
  <2>1. PICK t \in Trees : CommitOf(t)
    BY <1>11, CommittedTree
  <2>2. commits' \in Seq(Trees) /\ Len(commits') = Len(commits) + 1 /\ Len(commits) < MaxCommits
    BY <1>11, <2>1 DEF TypeOK, Commit, CommitOf
  <2>3. Len(commits') \in 1..MaxCommits
    BY <2>2 DEF TypeOK
  <2>4. DOMAIN commits \subseteq DOMAIN commits' /\ tree' = tree
    BY <1>11, <2>1, Grown DEF TypeOK, Commit, CommitOf
  <2>6. Dated(t)
    BY <2>1, HeadTyped DEF TypeOK, Dated, CommitOf
  <2>7. \A c \in DOMAIN commits' : commits'[c] = t \/ (c \in DOMAIN commits /\ commits'[c] = commits[c])
    BY <2>1, Grown DEF TypeOK, CommitOf
  <2>8. Dated(tree)' /\ \A c \in DOMAIN commits' : Dated(commits[c])'
    <3>1. Dated(tree)'
      BY <2>4 DEF TypeOK, Dated
    <3>2. ASSUME NEW c \in DOMAIN commits' PROVE Dated(commits[c])'
      BY <2>4, <2>6, <2>7 DEF TypeOK, Dated
    <3>. QED BY <3>1, <3>2
  <2>. QED BY <1>11, <2>2, <2>3, <2>8 DEF TypeOK, Commit, Dated
<1>12. ASSUME Checkout PROVE TypeOK'
  <2>1. Change(HEAD) /\ minting' = minting /\ minted' = minted
    BY <1>12 DEF Checkout
  <2>. QED BY <1>5, <2>1, HeadTyped DEF TypeOK
<1>13. CASE UNCHANGED vars
  BY <1>13 DEF vars, TypeOK, Dated
<1>. QED BY <1>3, <1>4, <1>6, <1>7, <1>8, <1>9, <1>10, <1>11, <1>12, <1>13 DEF Next

-----------------------------------------------------------------------------
\* Every step leaves the history as it is or puts one commit behind it.
LEMMA HistoryGrows ==
  ASSUME TypeOK, [Next]_vars
  PROVE  /\ DOMAIN commits \subseteq DOMAIN commits'
         /\ \A c \in DOMAIN commits : commits'[c] = commits[c]
<1>. CASE Commit
  BY CommittedTree, Grown DEF TypeOK, CommitOf
<1>. CASE commits' = commits
  OBVIOUS
<1>. QED
  BY DEF Next, vars, ValidateLibrary, ValidateCommand, ValidateAs, EditCode, MintManifest,
         MintSnapshot, MintDies, Damage, Checkout, Change

\* What a validation calls ok is recorded, on disk and in git.
LEMMA OkIsRecoverable ==
  ASSUME TypeOK, Validation = "ok"
  PROVE  /\ \E c \in DOMAIN commits :
              \/ commits[c].code.text = Live
              \/ Restores(commits[c].snapshot, Live)
              \/ Restores(commits[c].controlSnapshot, Live)
         /\ Readable(Manifest) /\ Manifest.text = Live
         /\ Readable(Snapshot) /\ Snapshot.hash = Live
<1>1. /\ Readable(Manifest) /\ Manifest.text = Live
      /\ SnapshotOk /\ (SnapshotTracked \/ GitReconstructable)
  BY DEF Validation
<1>2. Readable(Snapshot) /\ Snapshot.hash = Live
  BY <1>1 DEF SnapshotOk, Restores
<1>3. CASE SnapshotTracked
  <2>1. Committed \in {commits[Len(commits)].snapshot, commits[Len(commits)].controlSnapshot}
    BY DEF Committed, HEAD
  <2>2. Restores(Committed, Live)
    BY <1>1, <1>3 DEF SnapshotOk, SnapshotTracked
  <2>. QED BY <1>1, <1>2, <2>1, <2>2, HeadTyped
<1>4. CASE GitReconstructable
  <2>1. PICK c \in {Manifest.commit, Len(commits)} : commits[c].code = [text |-> Live, crlf |-> FALSE]
    BY <1>4 DEF GitReconstructable
  <2>2. Manifest.commit \in DOMAIN commits
    BY <1>1 DEF TypeOK, Dated, Manifest, Readable
  <2>3. c \in DOMAIN commits /\ commits[c].code.text = Live
    BY <2>1, <2>2, HeadTyped
  <2>. QED BY <1>1, <1>2, <2>3
<1>. QED BY <1>1, <1>3, <1>4

LEMMA ValidatedStep ==
  ASSUME TypeOK, [Next]_vars
  PROVE  \/ validated' = validated
         \/ /\ Validation = "ok" /\ validated' = validated \cup {Live}
            /\ UNCHANGED <<tree, commits, minted>>
<1>1. ASSUME NEW v, ValidateAs(v), v = "ok" => Validation = "ok"
      PROVE  \/ validated' = validated
             \/ /\ Validation = "ok" /\ validated' = validated \cup {Live}
                /\ UNCHANGED <<tree, commits, minted>>
  BY <1>1 DEF ValidateAs
<1>2. CASE ValidateLibrary
  BY <1>1, <1>2 DEF ValidateLibrary
<1>3. CASE ValidateCommand
  BY <1>1, <1>3 DEF ValidateCommand
<1>4. CASE validated' = validated
  BY <1>4
<1>. QED
  BY <1>2, <1>3, <1>4 DEF Next, vars, EditCode, MintManifest, MintSnapshot, MintDies, Damage,
                          Commit, Checkout, Change

LEMMA RecoverableStep ==
  ASSUME TypeOK, [Next]_vars, ValidatedIsRecoverable
  PROVE  ValidatedIsRecoverable'
<1>. SUFFICES ASSUME NEW t \in validated'
              PROVE  \E c \in DOMAIN commits' :
                       \/ commits'[c].code.text = t
                       \/ Restores(commits'[c].snapshot, t)
                       \/ Restores(commits'[c].controlSnapshot, t)
  BY DEF ValidatedIsRecoverable, Restores, Readable
<1>1. PICK c \in DOMAIN commits :
        \/ commits[c].code.text = t
        \/ Restores(commits[c].snapshot, t)
        \/ Restores(commits[c].controlSnapshot, t)
  BY ValidatedStep, OkIsRecoverable DEF ValidatedIsRecoverable
<1>. QED BY <1>1, HistoryGrows

-----------------------------------------------------------------------------
\* A tree that was traced stays so: the minted texts only grow.
LEMMA TracedStep ==
  ASSUME TypeOK, [Next]_vars, HistoryTraced
  PROVE  HistoryTraced'
<1>1. minted.manifest \subseteq minted'.manifest /\ minted.snapshot \subseteq minted'.snapshot
  BY DEF Next, vars, ValidateLibrary, ValidateCommand, ValidateAs, EditCode, MintManifest,
         MintSnapshot, MintDies, Damage, Commit, Checkout, TypeOK
<1>2. ASSUME NEW t, TreeTraced(t) PROVE TreeTraced(t)'
  BY <1>1, <1>2 DEF TreeTraced, Readable
<1>3. TreeTraced(tree) /\ TreeTraced(HEAD)
  BY HeadTyped DEF HistoryTraced, HEAD
<1>4. \A c \in DOMAIN commits' : TreeTraced(commits[c])'
  <2>1. CASE commits' = commits
    BY <1>1, <2>1 DEF HistoryTraced, TreeTraced, Readable
  <2>2. CASE Commit
    <3>1. PICK t \in Trees : CommitOf(t)
      BY <2>2, CommittedTree
    <3>2. TreeTraced(t)
      BY <1>3, <3>1 DEF TreeTraced, CommitOf
    <3>3. \A c \in DOMAIN commits' : TreeTraced(commits'[c])
      BY <3>1, <3>2, Grown DEF HistoryTraced, TypeOK, CommitOf
    <3>. QED BY <1>1, <3>3 DEF TreeTraced, Readable
  <2>. QED
    BY <2>1, <2>2 DEF Next, vars, ValidateLibrary, ValidateCommand, ValidateAs, EditCode,
                      MintManifest, MintSnapshot, MintDies, Damage, Checkout, Change
<1>5. TreeTraced(tree)'
  <2>. USE DEF Change
  <2>1. CASE tree' = tree
    BY <1>1, <1>3, <2>1 DEF TreeTraced, Readable
  <2>2. CASE EditCode
    BY <1>1, <1>3, <2>2 DEF EditCode, TreeTraced, Readable, TypeOK, Trees
  <2>3. CASE MintManifest
    BY <1>1, <1>3, <2>3 DEF MintManifest, TreeTraced, Readable, TypeOK, Trees
  <2>4. CASE MintSnapshot
    BY <1>1, <1>3, <2>4 DEF MintSnapshot, SnapshotOf, TreeTraced, Readable, TypeOK, Trees
  <2>5. CASE MintDies
    BY <1>1, <1>3, <2>5 DEF MintDies, TreeTraced, Readable, TypeOK, Trees
  <2>6. CASE Damage
    BY <1>1, <1>3, <2>6 DEF Damage, TreeTraced, Readable, TypeOK, Trees, Snapshots
  <2>7. CASE Checkout
    BY <1>1, <1>3, <2>7 DEF Checkout, TreeTraced, Readable
  <2>. QED
    BY <2>1, <2>2, <2>3, <2>4, <2>5, <2>6, <2>7
       DEF Next, vars, ValidateLibrary, ValidateCommand, ValidateAs, Commit
<1>. QED BY <1>4, <1>5 DEF HistoryTraced

LEMMA MintedStep ==
  ASSUME TypeOK, [Next]_vars, HistoryTraced, ValidatedWasMinted
  PROVE  ValidatedWasMinted'
<1>1. minted.manifest \subseteq minted'.manifest /\ minted.snapshot \subseteq minted'.snapshot
  BY DEF Next, vars, ValidateLibrary, ValidateCommand, ValidateAs, EditCode, MintManifest,
         MintSnapshot, MintDies, Damage, Commit, Checkout, TypeOK
<1>2. Validation = "ok" => Live \in minted.manifest \cap minted.snapshot
  BY OkIsRecoverable DEF HistoryTraced, TreeTraced, Manifest, Snapshot
<1>. QED BY <1>1, <1>2, ValidatedStep DEF ValidatedWasMinted

-----------------------------------------------------------------------------
(* A manifest never names a commit that is not in the history.               *)
THEOREM BaselineTyped == Spec => []TypeOK
BY InitBaseline, TypeStep, PTL DEF Spec

(* What a validation called ok can be had from git for good.                 *)
THEOREM ValidatedRecoverable == Spec => []ValidatedIsRecoverable
BY InitBaseline, TypeStep, RecoverableStep, PTL DEF Spec

(* What a validation called ok was minted whole, on both sides.              *)
THEOREM ValidatedMinted == Spec => []ValidatedWasMinted
BY InitBaseline, TypeStep, TracedStep, MintedStep, PTL DEF Spec

=============================================================================
