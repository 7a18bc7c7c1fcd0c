---------------------------- MODULE DatasetProofs ---------------------------
(***************************************************************************)
(* Theorems about the dataset and the commands that work on it, for any    *)
(* records, any number of processes and changelogs of any length.          *)
(***************************************************************************)
EXTENDS DatasetCommands, TLAPS

(***************************************************************************)
(* The changelog of a dataset that has gained one entry.                   *)
(***************************************************************************)
LEMMA OneMoreEntry ==
  ASSUME NEW d \in Datasets, NEW e \in Datasets, NEW x \in Entries,
         e.log = Append(d.log, x)
  PROVE  LET last == Len(d.log) + 1 IN
         /\ DOMAIN e.log = DOMAIN d.log \cup {last}
         /\ last \notin DOMAIN d.log
         /\ \A i \in DOMAIN d.log : e.log[i] = d.log[i] /\ i < last
         /\ e.log[last] = x
<1>1. d.log \in Seq(Entries)
  BY DEF Datasets
<1>. QED BY <1>1

LEMMA LoggedGrows ==
  ASSUME NEW d \in Datasets, NEW e \in Datasets, NEW x \in Entries,
         e.log = Append(d.log, x), NEW a
  PROVE  /\ Logged(e, a) = IF x.action = a THEN Logged(d, a) \cup {Len(d.log) + 1}
                           ELSE Logged(d, a)
         /\ LoggedRecords(e, a) = IF x.action = a THEN LoggedRecords(d, a) \cup x.records
                                  ELSE LoggedRecords(d, a)
<1>1. Logged(e, a) = IF x.action = a THEN Logged(d, a) \cup {Len(d.log) + 1}
                     ELSE Logged(d, a)
  BY OneMoreEntry DEF Logged
<1>2. \A i \in Logged(d, a) : e.log[i] = d.log[i]
  BY OneMoreEntry DEF Logged
<1>3. e.log[Len(d.log) + 1] = x
  BY OneMoreEntry
<1>4. ASSUME NEW z, NEW r
      PROVE  r \in LoggedRecords(z, a) <=> \E i \in Logged(z, a) : r \in z.log[i].records
  BY DEF LoggedRecords
<1>5. LoggedRecords(e, a) = IF x.action = a THEN LoggedRecords(d, a) \cup x.records
                            ELSE LoggedRecords(d, a)
  <2>1. CASE x.action = a
    <3>1. Logged(e, a) = Logged(d, a) \cup {Len(d.log) + 1}
      BY <1>1, <2>1
    <3>2. ASSUME NEW r PROVE r \in LoggedRecords(e, a) <=> r \in LoggedRecords(d, a) \cup x.records
      BY <1>2, <1>3, <1>4, <3>1
    <3>. QED BY <2>1, <3>2
  <2>2. CASE x.action # a
    <3>1. Logged(e, a) = Logged(d, a)
      BY <1>1, <2>2
    <3>2. ASSUME NEW r PROVE r \in LoggedRecords(e, a) <=> r \in LoggedRecords(d, a)
      BY <1>2, <1>4, <3>1
    <3>. QED BY <2>2, <3>2
  <2>. QED BY <2>1, <2>2
<1>. QED BY <1>1, <1>5

LEMMA UnsealedGrows ==
  ASSUME NEW d \in Datasets, NEW e \in Datasets, NEW x \in Entries,
         e.log = Append(d.log, x), NEW t
  PROVE  Unsealed(e, t) <=> Unsealed(d, t) \/ (x.action = "unseal" /\ x.target = t)
BY OneMoreEntry DEF Unsealed, Logged

LEMMA LastGrows ==
  ASSUME NEW d \in Datasets, NEW e \in Datasets, NEW x \in Entries,
         e.log = Append(d.log, x), NEW A, NEW i
  PROVE  LastOf(e, i, A) <=> IF x.action \in A THEN i = Len(d.log) + 1
                             ELSE LastOf(d, i, A)
<1>1. d.log \in Seq(Entries) /\ e.log \in Seq(Entries)
  BY DEF Datasets
<1>2. DOMAIN d.log = 1..Len(d.log) /\ DOMAIN e.log = 1..(Len(d.log) + 1)
  BY <1>1
<1>. QED BY <1>1, <1>2, OneMoreEntry DEF LastOf

(***************************************************************************)
(* What an entry means, and that a dataset which gains an entry and changes *)
(* just as the entry says stays explained.                                 *)
(***************************************************************************)
Says(x, d, e) ==
  /\ e.log = Append(d.log, x)
  /\ e.records = IF x.action = "append" THEN d.records \cup x.records ELSE d.records
  /\ e.invalid = IF x.action = "invalidate" THEN d.invalid \cup x.records ELSE d.invalid
  /\ e.holdout = IF x.action = "unseal" /\ x.target = "holdout"
                 THEN "final_unsealed" ELSE d.holdout
  /\ e.calibration = IF x.action = "unseal" /\ x.target = "calibration"
                     THEN "unsealed" ELSE d.calibration
  /\ x.action = "unseal" => x.target \in Targets
  /\ e.receipt = IF x.action = "unseal" THEN x.target ELSE d.receipt
  /\ e.frozen = IF x.action = "unseal" THEN d.frozen ELSE (x.action = "freeze")
  /\ e.version = IF x.action \in {"successor", "invalidate"} THEN x.to ELSE d.version

LEMMA EntryExplains ==
  ASSUME NEW d \in Datasets, NEW e \in Datasets, NEW x \in Entries,
         Explained(d), Says(x, d, e)
  PROVE  Explained(e)
<1>. DEFINE last == Len(d.log) + 1
<1>1. e.log = Append(d.log, x) /\ x.action \in LogActions
  BY DEF Says, Entries
<1>2. /\ DOMAIN e.log = DOMAIN d.log \cup {last}
      /\ \A i \in DOMAIN d.log : e.log[i] = d.log[i]
      /\ e.log[last] = x /\ last \in DOMAIN e.log
  BY <1>1, OneMoreEntry
<1>3. \A A, i : LastOf(e, i, A) <=> IF x.action \in A THEN i = last ELSE LastOf(d, i, A)
  BY <1>1, LastGrows
<1>4. \A A, i : LastOf(d, i, A) => i \in DOMAIN d.log
  BY DEF LastOf
<1>l. \A a : Logged(e, a) = IF x.action = a THEN Logged(d, a) \cup {last} ELSE Logged(d, a)
  BY <1>1, LoggedGrows
<1>. HIDE DEF last
<1>5. e.records = LoggedRecords(e, "append") /\ e.invalid = LoggedRecords(e, "invalidate")
  BY <1>1, LoggedGrows DEF Explained, Says
<1>6. e.holdout = "final_unsealed" <=> Unsealed(e, "holdout")
  BY <1>1, UnsealedGrows DEF Explained, Says
<1>7. e.calibration = "unsealed" <=> Unsealed(e, "calibration")
  BY <1>1, UnsealedGrows DEF Explained, Says
<1>8. e.receipt = "none" <=> Logged(e, "unseal") = {}
  <2>1. CASE x.action = "unseal"
    <3>1. last \in Logged(e, "unseal")
      BY <1>l, <2>1
    <3>2. e.receipt \in Targets
      BY <2>1 DEF Says
    <3>. QED BY <3>1, <3>2 DEF Targets
  <2>2. CASE x.action # "unseal"
    <3>1. Logged(e, "unseal") = Logged(d, "unseal") /\ e.receipt = d.receipt
      BY <1>l, <2>2 DEF Says
    <3>. QED BY <3>1 DEF Explained
  <2>. QED BY <2>1, <2>2
<1>9. ASSUME NEW i \in DOMAIN e.log, LastOf(e, i, {"unseal"})
      PROVE  e.receipt = e.log[i].target
  BY <1>2, <1>3, <1>4, <1>9 DEF Explained, Says
<1>10. e.frozen <=> \E i \in DOMAIN e.log :
                      LastOf(e, i, LogActions \ {"unseal"}) /\ e.log[i].action = "freeze"
  <2>. DEFINE Rest == LogActions \ {"unseal"}
  <2>1. CASE x.action = "unseal"
    <3>1. x.action \notin Rest
      BY <2>1
    <3>2. \A i : LastOf(e, i, Rest) <=> LastOf(d, i, Rest)
      BY <1>3, <3>1
    <3>3. e.frozen = d.frozen
      BY <2>1 DEF Says
    <3>4. \A i : LastOf(d, i, Rest) => i \in DOMAIN d.log
      BY <1>4
    <3>5. d.frozen <=> \E i \in DOMAIN d.log : LastOf(d, i, Rest) /\ d.log[i].action = "freeze"
      BY DEF Explained
    <3>. HIDE DEF Rest
    <3>6. e.frozen <=> \E i \in DOMAIN e.log : LastOf(e, i, Rest) /\ e.log[i].action = "freeze"
      BY <1>2, <3>2, <3>3, <3>4, <3>5
    <3>. QED BY <3>6 DEF Rest
  <2>2. CASE x.action # "unseal"
    <3>1. x.action \in Rest
      BY <1>1, <2>2
    <3>2. \A i : LastOf(e, i, Rest) <=> i = last
      BY <1>3, <3>1
    <3>3. e.frozen = (x.action = "freeze")
      BY <2>2 DEF Says
    <3>. HIDE DEF Rest
    <3>6. e.frozen <=> \E i \in DOMAIN e.log : LastOf(e, i, Rest) /\ e.log[i].action = "freeze"
      BY <1>2, <3>2, <3>3
    <3>. QED BY <3>6 DEF Rest
  <2>. QED BY <2>1, <2>2
<1>11. ASSUME NEW i \in DOMAIN e.log, LastOf(e, i, {"successor", "invalidate"})
       PROVE  e.version = e.log[i].to
  BY <1>2, <1>3, <1>4, <1>11 DEF Explained, Says
<1>12. ASSUME Logged(e, "successor") \cup Logged(e, "invalidate") = {}
       PROVE  e.version = 0
  <2>1. x.action \notin {"successor", "invalidate"}
    BY <1>l, <1>12
  <2>2. Logged(d, "successor") \cup Logged(d, "invalidate") = {}
    BY <1>l, <1>12, <2>1
  <2>. QED BY <2>1, <2>2 DEF Explained, Says
<1>. QED BY <1>5, <1>6, <1>7, <1>8, <1>9, <1>10, <1>11, <1>12 DEF Explained

(***************************************************************************)
(* One lemma per function of dataset.py.                                   *)
(***************************************************************************)
LEMMA EmptyExplained == EmptyDataset \in Datasets /\ Explained(EmptyDataset)
<1>1. EmptyDataset \in Datasets
  BY DEF EmptyDataset, Datasets
<1>2. EmptyDataset.log = <<>> /\ DOMAIN EmptyDataset.log = {}
  BY DEF EmptyDataset
<1>3. \A a : Logged(EmptyDataset, a) = {} /\ LoggedRecords(EmptyDataset, a) = {}
  BY <1>2 DEF Logged, LoggedRecords
<1>. QED BY <1>1, <1>2, <1>3 DEF Explained, Unsealed, LastOf, EmptyDataset

\* What a function keeps of the records, the invalidations and the seals.
Keeps(d, e) ==
  e.records = d.records /\ e.invalid = d.invalid /\ \A t : Unsealed(e, t) <=> Unsealed(d, t)

LEMMA SuccessorExplained ==
  ASSUME NEW d \in Datasets, Explained(d)
  PROVE  /\ Successor(d) \in Datasets /\ Explained(Successor(d))
         /\ Keeps(d, Successor(d)) /\ Successor(d).frozen = FALSE
<1>. DEFINE x == Entry("successor", {}, "none", d.version + 1)
            e == Successor(d)
<1>1. x \in Entries /\ x.action = "successor"
  BY DEF Entry, Entries, LogActions, Datasets
<1>2. Append(d.log, x) \in Seq(Entries)
  BY <1>1 DEF Datasets
<1>3. e = [d EXCEPT !.version = d.version + 1, !.frozen = FALSE, !.log = Append(d.log, x)]
  BY DEF Successor, Datasets
<1>4. e \in Datasets
  <2>1. d.version + 1 \in Nat
    BY DEF Datasets
  <2>2. \A v \in Nat, log \in Seq(Entries) :
          [d EXCEPT !.version = v, !.frozen = FALSE, !.log = log] \in Datasets
    BY DEF Datasets
  <2>. QED BY <1>2, <1>3, <2>1, <2>2
<1>5. Says(x, d, e) /\ e.frozen = FALSE
  BY <1>3 DEF Says, Entry, Datasets
<1>6. Keeps(d, e)
  BY <1>1, <1>4, <1>5, UnsealedGrows DEF Says, Keeps
<1>. QED BY <1>1, <1>4, <1>5, <1>6, EntryExplains

LEMMA AppendExplained ==
  ASSUME NEW d \in Datasets, Explained(d), NEW new \in SUBSET Records
  PROVE  LET e == AppendRecords(d, new) IN
         /\ e \in Datasets /\ Explained(e)
         /\ e.records = d.records \cup new /\ e.invalid = d.invalid
         /\ \A t : Unsealed(e, t) <=> Unsealed(d, t)
<1>. DEFINE open == IF d.frozen THEN Successor(d) ELSE d
            x == Entry("append", new, "none", open.version)
            e == AppendRecords(d, new)
<1>1. open \in Datasets /\ Explained(open) /\ Keeps(d, open) /\ open.frozen = FALSE
  <2>1. d.frozen \in BOOLEAN
    BY DEF Datasets
  <2>. QED BY <2>1, SuccessorExplained DEF Keeps
<1>2. e = [open EXCEPT !.records = open.records \cup new, !.log = Append(open.log, x)]
  BY DEF AppendRecords
<1>. HIDE DEF open
<1>3. x \in Entries /\ x.action = "append"
  BY <1>1 DEF Entry, Entries, LogActions, Datasets
<1>4. Append(open.log, x) \in Seq(Entries)
  BY <1>1, <1>3 DEF Datasets
<1>5. e \in Datasets
  <2>1. open.records \cup new \in SUBSET Records
    BY <1>1 DEF Datasets
  <2>2. \A rs \in SUBSET Records, log \in Seq(Entries) :
          [open EXCEPT !.records = rs, !.log = log] \in Datasets
    BY <1>1 DEF Datasets
  <2>. QED BY <1>2, <1>4, <2>1, <2>2
<1>6. Says(x, open, e)
  BY <1>1, <1>2 DEF Says, Entry, Datasets
<1>7. Explained(e)
  BY <1>1, <1>3, <1>5, <1>6, EntryExplains
<1>8. \A t : Unsealed(e, t) <=> Unsealed(d, t)
  BY <1>1, <1>3, <1>5, <1>6, UnsealedGrows DEF Says, Keeps
<1>9. e.records = d.records \cup new /\ e.invalid = d.invalid
  BY <1>1, <1>3, <1>6 DEF Says, Keeps, Entry
<1>. QED BY <1>5, <1>7, <1>8, <1>9

LEMMA InvalidateExplained ==
  ASSUME NEW d \in Datasets, Explained(d), NEW r \in d.records
  PROVE  LET e == InvalidateRecord(d, r) IN
         /\ e \in Datasets /\ Explained(e)
         /\ e.records = d.records /\ e.invalid = d.invalid \cup {r}
         /\ \A t : Unsealed(e, t) <=> Unsealed(d, t)
<1>. DEFINE version == IF d.frozen THEN d.version + 1 ELSE d.version
            x == Entry("invalidate", {r}, "none", version)
            e == InvalidateRecord(d, r)
<1>1. version \in Nat
  BY DEF Datasets
<1>2. e = [d EXCEPT !.version = version, !.frozen = FALSE, !.invalid = d.invalid \cup {r},
                    !.log = Append(d.log, x)]
  BY DEF InvalidateRecord
<1>. HIDE DEF version
<1>3. x \in Entries /\ x.action = "invalidate"
  BY <1>1 DEF Entry, Entries, LogActions, Datasets
<1>4. Append(d.log, x) \in Seq(Entries)
  BY <1>3 DEF Datasets
<1>5. e \in Datasets
  <2>1. d.invalid \cup {r} \in SUBSET Records
    BY DEF Datasets
  <2>2. \A v \in Nat, inv \in SUBSET Records, log \in Seq(Entries) :
          [d EXCEPT !.version = v, !.frozen = FALSE, !.invalid = inv, !.log = log] \in Datasets
    BY DEF Datasets
  <2>. HIDE DEF x, e
  <2>3. e \in Datasets
    BY <1>1, <1>2, <1>4, <2>1, <2>2
  <2>. QED BY <2>3
<1>6. Says(x, d, e)
  BY <1>2 DEF Says, Entry, Datasets
<1>7. Explained(e)
  BY <1>3, <1>5, <1>6, EntryExplains
<1>8. \A t : Unsealed(e, t) <=> Unsealed(d, t)
  BY <1>3, <1>5, <1>6, UnsealedGrows DEF Says
<1>9. e.records = d.records /\ e.invalid = d.invalid \cup {r}
  BY <1>3, <1>6 DEF Says, Entry
<1>. QED BY <1>5, <1>7, <1>8, <1>9

LEMMA FreezeExplained ==
  ASSUME NEW d \in Datasets, Explained(d)
  PROVE  FreezeDataset(d) \in Datasets /\ Explained(FreezeDataset(d)) /\ Keeps(d, FreezeDataset(d))
<1>. DEFINE x == Entry("freeze", {}, "none", d.version)
            e == FreezeDataset(d)
<1>1. x \in Entries /\ x.action = "freeze"
  BY DEF Entry, Entries, LogActions, Datasets
<1>2. Append(d.log, x) \in Seq(Entries)
  BY <1>1 DEF Datasets
<1>3. e = [d EXCEPT !.frozen = TRUE, !.log = Append(d.log, x)]
  BY DEF FreezeDataset
<1>4. e \in Datasets
  <2>1. \A log \in Seq(Entries) : [d EXCEPT !.frozen = TRUE, !.log = log] \in Datasets
    BY DEF Datasets
  <2>. QED BY <1>2, <1>3, <2>1
<1>5. Says(x, d, e)
  BY <1>3 DEF Says, Entry, Datasets
<1>6. Keeps(d, e)
  BY <1>1, <1>4, <1>5, UnsealedGrows DEF Says, Keeps
<1>. QED BY <1>1, <1>4, <1>5, <1>6, EntryExplains

LEMMA UnsealExplained ==
  ASSUME NEW d \in Datasets, Explained(d), NEW target \in Targets
  PROVE  LET e == PersistUnseal(d, target) IN
         /\ e \in Datasets /\ Explained(e)
         /\ e.records = d.records /\ e.invalid = d.invalid
         /\ \A t : Unsealed(e, t) <=> Unsealed(d, t) \/ t = target
<1>. DEFINE x == Entry("unseal", {}, target, d.version)
            e == PersistUnseal(d, target)
            h == IF target = "holdout" THEN "final_unsealed" ELSE d.holdout
            c == IF target = "calibration" THEN "unsealed" ELSE d.calibration
<1>1. x \in Entries /\ x.action = "unseal" /\ x.target = target
  BY DEF Entry, Entries, LogActions, Datasets
<1>2. Append(d.log, x) \in Seq(Entries)
  BY <1>1 DEF Datasets
<1>3. e = [d EXCEPT !.holdout = h, !.calibration = c, !.receipt = target, !.log = Append(d.log, x)]
  BY DEF PersistUnseal
<1>4. e \in Datasets
  <2>1. h \in {"sealed", "final_unsealed"} /\ c \in {"sealed", "unsealed"}
    BY DEF Datasets
  <2>2. \A hh \in {"sealed", "final_unsealed"}, cc \in {"sealed", "unsealed"}, log \in Seq(Entries) :
          [d EXCEPT !.holdout = hh, !.calibration = cc, !.receipt = target, !.log = log] \in Datasets
    BY DEF Datasets
  <2>. HIDE DEF x, e, h, c
  <2>3. e \in Datasets
    BY <1>2, <1>3, <2>1, <2>2
  <2>. QED BY <2>3
<1>5. Says(x, d, e)
  BY <1>3 DEF Says, Entry, Datasets
<1>6. \A t : Unsealed(e, t) <=> Unsealed(d, t) \/ t = target
  BY <1>1, <1>4, <1>5, UnsealedGrows DEF Says
<1>7. e.records = d.records /\ e.invalid = d.invalid
  BY <1>1, <1>5 DEF Says
<1>. QED BY <1>1, <1>4, <1>5, <1>6, <1>7, EntryExplains

(***************************************************************************)
(* The commands.                                                           *)
(***************************************************************************)
Held(d, rs) ==
  /\ d \in Datasets /\ Explained(d)
  /\ Valid(d.records) /\ d.invalid \subseteq d.records
  /\ \A t \in Targets : Unsealed(d, t) => t \in rs

Inv ==
  /\ TypeOK
  /\ Held(disk, receipts)
  /\ \A p \in Processes :
       /\ Held(mem[p], receipts)
       /\ pc[p] = "minted" => arg[p].target \in receipts
       /\ pc[p] = "reported" => ~ StateSeals(mem[p], arg[p].scope) /\ arg[p].scope \in Scopes

LEMMA EmptyHeld == \A rs : Held(EmptyDataset, rs)
<1>1. \A t : ~ Unsealed(EmptyDataset, t)
  BY DEF Unsealed, Logged, EmptyDataset
<1>2. EmptyDataset.records = {} /\ EmptyDataset.invalid = {}
  BY DEF EmptyDataset
<1>3. Valid({})
  BY DEF Valid, NoDuplicates, NoLeakage
<1>. QED BY <1>1, <1>2, <1>3, EmptyExplained DEF Held

LEMMA AppendHeld ==
  ASSUME NEW rs, NEW d, Held(d, rs), NEW new \in SUBSET Records, Admissible(d, new)
  PROVE  Held(AppendRecords(d, new), rs)
<1>1. d \in Datasets /\ Explained(d)
  BY DEF Held
<1>. DEFINE e == AppendRecords(d, new)
<1>2. /\ e \in Datasets /\ Explained(e)
      /\ e.records = d.records \cup new /\ e.invalid = d.invalid
      /\ \A t : Unsealed(e, t) <=> Unsealed(d, t)
  BY <1>1, AppendExplained
<1>. HIDE DEF e
<1>3. Held(e, rs)
  BY <1>2 DEF Held, Admissible
<1>. QED BY <1>3 DEF e

LEMMA InvalidateHeld ==
  ASSUME NEW rs, NEW d, Held(d, rs), NEW r \in d.records
  PROVE  Held(InvalidateRecord(d, r), rs)
<1>1. d \in Datasets /\ Explained(d)
  BY DEF Held
<1>. DEFINE e == InvalidateRecord(d, r)
<1>2. /\ e \in Datasets /\ Explained(e)
      /\ e.records = d.records /\ e.invalid = d.invalid \cup {r}
      /\ \A t : Unsealed(e, t) <=> Unsealed(d, t)
  BY <1>1, InvalidateExplained
<1>. HIDE DEF e
<1>3. Held(e, rs)
  BY <1>2 DEF Held
<1>. QED BY <1>3 DEF e

LEMMA FreezeHeld ==
  ASSUME NEW rs, NEW d, Held(d, rs)
  PROVE  Held(FreezeDataset(d), rs)
BY FreezeExplained DEF Held, Keeps

LEMMA UnsealHeld ==
  ASSUME NEW rs, NEW d, Held(d, rs), NEW target \in Targets, target \in rs
  PROVE  Held(PersistUnseal(d, target), rs)
<1>1. d \in Datasets /\ Explained(d)
  BY DEF Held
<1>. DEFINE e == PersistUnseal(d, target)
<1>2. /\ e \in Datasets /\ Explained(e)
      /\ e.records = d.records /\ e.invalid = d.invalid
      /\ \A t : Unsealed(e, t) <=> Unsealed(d, t) \/ t = target
  BY <1>1, UnsealExplained
<1>. HIDE DEF e
<1>3. Held(e, rs)
  BY <1>2 DEF Held
<1>. QED BY <1>3 DEF e

\* A process takes up a dataset; nobody else's changes.
LEMMA HoldStep ==
  ASSUME TypeOK, NEW p \in Processes, NEW d, Hold(p, d), Held(d, receipts),
         \A q \in Processes : Held(mem[q], receipts)
  PROVE  /\ mem' \in [Processes -> Datasets]
         /\ \A q \in Processes : Held(mem'[q], receipts)
         /\ \A q \in Processes : q # p => mem'[q] = mem[q]
         /\ mem'[p] = d
<1>1. d \in Datasets
  BY DEF Held
<1>. QED BY <1>1 DEF Hold, TypeOK

LEMMA InitHeld == Init => Inv
<1>. SUFFICES ASSUME Init PROVE Inv
  OBVIOUS
<1>1. EmptyDataset \in Datasets
  BY EmptyExplained
<1>2. TypeOK
  BY <1>1 DEF Init, TypeOK, NoArg
<1>. QED BY <1>2, EmptyHeld DEF Init, Inv

\* The steps of a library session on the dataset it holds.
LEMMA SessionStep ==
  ASSUME Inv, NEW p \in Processes,
         Load(p) \/ SessionAppends(p) \/ SessionInvalidates(p) \/ SessionFreezes(p)
  PROVE  Inv'
<1>1. PICK d : /\ Hold(p, d) /\ Held(d, receipts)
               /\ \E from \in {"idle", "session"} : Move(p, from, "session")
               /\ FileUntouched /\ UNCHANGED <<receipts, arg>>
  <2>1. CASE Load(p)
    BY <2>1 DEF Load, Inv
  <2>2. CASE SessionAppends(p)
    <3>1. PICK new \in Batches :
            /\ Move(p, "session", "session") /\ Admissible(mem[p], new)
            /\ Hold(p, AppendRecords(mem[p], new))
            /\ FileUntouched /\ UNCHANGED <<receipts, arg>>
      BY <2>2 DEF SessionAppends
    <3>2. Held(AppendRecords(mem[p], new), receipts)
      BY <3>1, AppendHeld, CommandsAssumption DEF Inv
    <3>. QED BY <3>1, <3>2
  <2>3. CASE SessionInvalidates(p)
    <3>1. PICK r \in mem[p].records :
            /\ Move(p, "session", "session")
            /\ Hold(p, InvalidateRecord(mem[p], r))
            /\ FileUntouched /\ UNCHANGED <<receipts, arg>>
      BY <2>3 DEF SessionInvalidates
    <3>2. Held(InvalidateRecord(mem[p], r), receipts)
      BY <3>1, InvalidateHeld DEF Inv
    <3>. QED BY <3>1, <3>2
  <2>4. CASE SessionFreezes(p)
    BY <2>4, FreezeHeld DEF SessionFreezes, Inv
  <2>. QED BY <2>1, <2>2, <2>3, <2>4
<1>2. /\ mem' \in [Processes -> Datasets]
      /\ \A q \in Processes : Held(mem'[q], receipts)
      /\ \A q \in Processes : q # p => mem'[q] = mem[q]
  BY <1>1, HoldStep DEF Inv
<1>3. /\ pc' = [pc EXCEPT ![p] = "session"]
      /\ UNCHANGED <<disk, intact, overlapped, published, receipts, arg>>
  BY <1>1 DEF Move, FileUntouched
<1>4. TypeOK'
  BY <1>2, <1>3 DEF Inv, TypeOK
<1>. QED BY <1>2, <1>3, <1>4 DEF Inv, TypeOK

\* The two commands that make a dataset ready to be written.
LEMMA IngestStep ==
  ASSUME Inv, NEW p \in Processes, Ingest(p)
  PROVE  Inv'
<1>1. PICK new \in Batches, freeze \in BOOLEAN :
        /\ Move(p, "idle", "ready")
        /\ Admissible(EmptyDataset, new)
        /\ Hold(p, IF freeze THEN FreezeDataset(AppendRecords(EmptyDataset, new))
                   ELSE AppendRecords(EmptyDataset, new))
        /\ FileUntouched /\ UNCHANGED <<receipts, arg>>
  BY DEF Ingest
<1>. DEFINE a == AppendRecords(EmptyDataset, new)
            d == IF freeze THEN FreezeDataset(a) ELSE a
<1>2. Held(a, receipts)
  BY <1>1, EmptyHeld, AppendHeld, CommandsAssumption
<1>3. Held(d, receipts)
  BY <1>2, FreezeHeld
<1>4. Hold(p, d)
  BY <1>1
<1>. HIDE DEF a, d
<1>5. /\ mem' \in [Processes -> Datasets]
      /\ \A q \in Processes : Held(mem'[q], receipts)
      /\ \A q \in Processes : q # p => mem'[q] = mem[q]
  BY <1>3, <1>4, HoldStep DEF Inv
<1>6. /\ pc' = [pc EXCEPT ![p] = "ready"]
      /\ UNCHANGED <<disk, intact, overlapped, published, receipts, arg>>
  BY <1>1 DEF Move, FileUntouched
<1>7. TypeOK'
  BY <1>5, <1>6 DEF Inv, TypeOK
<1>. QED BY <1>5, <1>6, <1>7 DEF Inv, TypeOK

LEMMA MintStep ==
  ASSUME Inv, NEW p \in Processes, MintReceipt(p)
  PROVE  Inv'
<1>1. PICK target \in Targets :
        /\ pc' = [pc EXCEPT ![p] = "minted"]
        /\ receipts' = receipts \cup {target}
        /\ arg' = [arg EXCEPT ![p] = [NoArg EXCEPT !.target = target]]
        /\ UNCHANGED <<disk, intact, overlapped, published, mem>>
  BY DEF MintReceipt, Move, FileUntouched
<1>2. TypeOK'
  BY <1>1 DEF Inv, TypeOK, NoArg
<1>3. \A d : Held(d, receipts) => Held(d, receipts')
  BY <1>1 DEF Held
<1>4. arg'[p].target \in receipts' /\ pc'[p] = "minted"
  BY <1>1 DEF Inv, TypeOK, NoArg
<1>5. \A q \in Processes : q # p => pc'[q] = pc[q] /\ arg'[q] = arg[q]
  BY <1>1 DEF Inv, TypeOK
<1>6. \A q \in Processes : /\ pc'[q] = "minted" => arg'[q].target \in receipts'
                           /\ pc'[q] = "reported" => ~ StateSeals(mem'[q], arg'[q].scope) /\ arg'[q].scope \in Scopes
  BY <1>1, <1>4, <1>5 DEF Inv
<1>. QED BY <1>1, <1>2, <1>3, <1>6 DEF Inv

LEMMA UnsealStep ==
  ASSUME Inv, NEW p \in Processes, UnsealDataset(p)
  PROVE  Inv'
<1>. DEFINE target == arg[p].target
            d == PersistUnseal(disk, target)
<1>1. target \in receipts /\ target \in Targets
  BY DEF UnsealDataset, Move, Inv, TypeOK
<1>2. Held(d, receipts)
  BY <1>1, UnsealHeld DEF Inv
<1>3. Hold(p, d)
  BY DEF UnsealDataset
<1>. HIDE DEF target, d
<1>5. /\ mem' \in [Processes -> Datasets]
      /\ \A q \in Processes : Held(mem'[q], receipts)
      /\ \A q \in Processes : q # p => mem'[q] = mem[q]
  BY <1>2, <1>3, HoldStep DEF Inv
<1>6. /\ pc' = [pc EXCEPT ![p] = "ready"]
      /\ UNCHANGED <<disk, intact, overlapped, published, receipts, arg>>
  BY DEF UnsealDataset, Move, FileUntouched
<1>7. TypeOK'
  BY <1>5, <1>6 DEF Inv, TypeOK
<1>. QED BY <1>5, <1>6, <1>7 DEF Inv, TypeOK

LEMMA AnalyzeStep ==
  ASSUME Inv, NEW p \in Processes, Analyze(p)
  PROVE  Inv'
<1>1. PICK scope \in Scopes, given \in receipts \cup {"none"} :
        /\ Move(p, "idle", Verdict(disk, scope, given))
        /\ Hold(p, disk)
        /\ arg' = [arg EXCEPT ![p] = [NoArg EXCEPT !.scope = scope, !.given = given]]
        /\ FileUntouched /\ UNCHANGED receipts
  BY DEF Analyze
<1>. DEFINE verdict == Verdict(disk, scope, given)
<1>2. /\ verdict \in {"refused", "invalid", "reported"}
      /\ verdict = "reported" => ~ StateSeals(disk, scope)
  BY DEF Verdict
<1>. HIDE DEF verdict
<1>3. /\ mem' \in [Processes -> Datasets]
      /\ \A q \in Processes : Held(mem'[q], receipts)
      /\ \A q \in Processes : q # p => mem'[q] = mem[q]
      /\ mem'[p] = disk
  BY <1>1, HoldStep DEF Inv
<1>4. /\ pc' = [pc EXCEPT ![p] = verdict]
      /\ UNCHANGED <<disk, intact, overlapped, published, receipts>>
  BY <1>1 DEF Move, FileUntouched, verdict
<1>5. /\ pc'[p] = verdict /\ arg'[p].scope = scope
      /\ \A q \in Processes : q # p => pc'[q] = pc[q] /\ arg'[q] = arg[q]
  BY <1>1, <1>4 DEF Inv, TypeOK, NoArg
<1>6. TypeOK'
  <2>1. given \in Targets \cup {"none"}
    BY <1>1 DEF Inv, TypeOK
  <2>2. [NoArg EXCEPT !.scope = scope, !.given = given] \in
          [target : Targets \cup {"none"}, scope : Scopes \cup {"none"}, given : Targets \cup {"none"}]
    BY <2>1 DEF NoArg
  <2>3. arg' \in [Processes -> [target : Targets \cup {"none"}, scope : Scopes \cup {"none"},
                               given : Targets \cup {"none"}]]
    BY <1>1, <2>2 DEF Inv, TypeOK
  <2>. QED BY <1>2, <1>3, <1>4, <2>3 DEF Inv, TypeOK
<1>. QED BY <1>2, <1>3, <1>4, <1>5, <1>6 DEF Inv

\* Writing the file, and leaving.
LEMMA BeginWriteStep ==
  ASSUME Inv, NEW p \in Processes, BeginWrite(p)
  PROVE  Inv'
<1>1. TypeOK'
  BY DEF Inv, TypeOK, BeginWrite, Writing
<1>. QED BY <1>1 DEF Inv, TypeOK, BeginWrite

LEMMA ForgetStep ==
  ASSUME Inv, NEW p \in Processes, Forget(p), pc' = [pc EXCEPT ![p] = "idle"],
         Held(disk', receipts), receipts' = receipts, intact' \in BOOLEAN,
         overlapped' \subseteq Processes,
         published' \subseteq [version : Nat, records : SUBSET Records, invalid : SUBSET Records]
  PROVE  Inv'
<1>1. Hold(p, EmptyDataset) /\ arg' = [arg EXCEPT ![p] = NoArg]
  BY DEF Forget
<1>2. /\ mem' \in [Processes -> Datasets]
      /\ \A q \in Processes : Held(mem'[q], receipts)
      /\ \A q \in Processes : q # p => mem'[q] = mem[q]
  BY <1>1, EmptyHeld, HoldStep DEF Inv
<1>3. arg' \in [Processes -> [target : Targets \cup {"none"}, scope : Scopes \cup {"none"},
                             given : Targets \cup {"none"}]]
  BY <1>1 DEF Inv, TypeOK, NoArg
<1>4. TypeOK'
  BY <1>2, <1>3 DEF Inv, TypeOK, Held
<1>5. \A q \in Processes : q # p => pc'[q] = pc[q] /\ arg'[q] = arg[q]
  BY <1>1 DEF Inv, TypeOK
<1>6. pc'[p] = "idle"
  BY DEF Inv, TypeOK
<1>. QED BY <1>2, <1>4, <1>5, <1>6 DEF Inv

LEMMA EndWriteStep ==
  ASSUME Inv, NEW p \in Processes, EndWrite(p)
  PROVE  Inv'
<1>1. mem[p] \in Datasets /\ Held(mem[p], receipts)
  BY DEF Inv, Held
<1>2. Published(mem[p]) \in [version : Nat, records : SUBSET Records, invalid : SUBSET Records]
  BY <1>1 DEF Published, Datasets
<1>3. intact' \in BOOLEAN /\ overlapped' \subseteq Processes
  BY DEF EndWrite, Inv, TypeOK
<1>4. published' \subseteq [version : Nat, records : SUBSET Records, invalid : SUBSET Records]
  BY <1>2 DEF EndWrite, Inv, TypeOK
<1>5. Forget(p) /\ pc' = [pc EXCEPT ![p] = "idle"] /\ disk' = mem[p] /\ receipts' = receipts
  BY DEF EndWrite, Move
<1>. QED BY <1>1, <1>3, <1>4, <1>5, ForgetStep

LEMMA LeaveStep ==
  ASSUME Inv, NEW p \in Processes, Leave(p)
  PROVE  Inv'
<1>1. intact' \in BOOLEAN /\ overlapped' \subseteq Processes /\ Held(disk', receipts)
  BY DEF Leave, Inv, TypeOK
<1>2. published' \subseteq [version : Nat, records : SUBSET Records, invalid : SUBSET Records]
  BY DEF Leave, Inv, TypeOK
<1>3. Forget(p) /\ pc' = [pc EXCEPT ![p] = "idle"] /\ receipts' = receipts
  BY DEF Leave
<1>. QED BY <1>1, <1>2, <1>3, ForgetStep

LEMMA NextHeld == Inv /\ [Next]_vars => Inv'
<1>. SUFFICES ASSUME Inv, [Next]_vars PROVE Inv'
  OBVIOUS
<1>1. ASSUME NEW p \in Processes,
             \/ Load(p) \/ SessionAppends(p) \/ SessionInvalidates(p) \/ SessionFreezes(p)
             \/ Ingest(p) \/ MintReceipt(p) \/ UnsealDataset(p) \/ Analyze(p)
             \/ BeginWrite(p) \/ EndWrite(p) \/ Leave(p)
      PROVE  Inv'
  BY <1>1, SessionStep, IngestStep, MintStep, UnsealStep, AnalyzeStep, BeginWriteStep,
     EndWriteStep, LeaveStep
<1>2. CASE UNCHANGED vars
  BY <1>2 DEF vars, Inv, TypeOK
<1>. QED BY <1>1, <1>2 DEF Next

(***************************************************************************)
(* The theorems.                                                           *)
(***************************************************************************)
(* Datasets, processes and the history of publications are well-typed.      *)
THEOREM DatasetsTyped == Spec => []TypeOK
<1>1. Inv => TypeOK
  BY DEF Inv
<1>. QED BY InitHeld, NextHeld, <1>1, PTL DEF Spec

(* Every dataset that exists, on disk or in a command's memory, is what its *)
(* changelog says: dataset.py loses and invents no member, invalidation,    *)
(* seal, receipt, version or freeze, whatever the commands interleave.      *)
THEOREM ChangelogsExplain == Spec => []ChangelogExplains
<1>1. Inv => ChangelogExplains
  BY DEF Inv, Held, ChangelogExplains
<1>. QED BY InitHeld, NextHeld, <1>1, PTL DEF Spec

(* No sequence of commands, however interleaved, makes a dataset that       *)
(* validate_dataset_records would reject.                                   *)
THEOREM DatasetsStayAnalysable == Spec => []AlwaysAnalysable
<1>1. Inv => AlwaysAnalysable
  BY DEF Inv, Held, AlwaysAnalysable
<1>. QED BY InitHeld, NextHeld, <1>1, PTL DEF Spec

(* A sealed partition is reported on only after the dataset's changelog and *)
(* a receipt file say that it was unsealed.                                 *)
THEOREM SealsAreRespected == Spec => []ReportsRespectSeals
<1>1. ASSUME Inv, NEW p \in Processes, pc[p] = "reported",
             NEW r \in Usable(mem[p], arg[p].scope)
      PROVE  /\ PartitionOf[r] = "holdout" => Unsealed(mem[p], "holdout") /\ "holdout" \in receipts
             /\ PartitionOf[r] = "calibration_reserved" =>
                  Unsealed(mem[p], "calibration") /\ "calibration" \in receipts
  <2>1. ~ StateSeals(mem[p], arg[p].scope) /\ Held(mem[p], receipts)
    BY <1>1 DEF Inv
  <2>2. PartitionOf[r] \in PartitionsForScope(arg[p].scope) /\ arg[p].scope \in Scopes
    BY <1>1 DEF Inv, Usable
  <2>3. CASE PartitionOf[r] = "holdout"
    <3>1. arg[p].scope = "final-holdout"
      BY <2>2, <2>3 DEF PartitionsForScope, Scopes
    <3>. QED BY <2>1, <2>3, <3>1 DEF StateSeals, Held, Explained, Targets
  <2>4. CASE PartitionOf[r] = "calibration_reserved"
    <3>1. arg[p].scope = "calibration"
      BY <2>2, <2>4 DEF PartitionsForScope, Scopes
    <3>. QED BY <2>1, <2>4, <3>1 DEF StateSeals, Held, Explained, Targets
  <2>. QED BY <2>3, <2>4
<1>2. Inv => ReportsRespectSeals
  BY <1>1 DEF ReportsRespectSeals
<1>. QED BY InitHeld, NextHeld, <1>2, PTL DEF Spec

(***************************************************************************)
(* One writer at a time: the file's history only grows, and a published    *)
(* version is never used for other records.  What a function of dataset.py *)
(* makes follows what it was given: the changelog is longer, and under the *)
(* same version a frozen dataset still is frozen and has the same records. *)
(***************************************************************************)
Grows(d, e) ==
  Len(d.log) <= Len(e.log) /\ \A i \in DOMAIN d.log : e.log[i] = d.log[i]

Advances(d, e) ==
  \/ d.version < e.version
  \/ e.version = d.version /\ (d.frozen => e.frozen /\ Published(e) = Published(d))

Follows(d, e) == Grows(d, e) /\ Advances(d, e)

LEMMA LongerLogGrows ==
  ASSUME NEW d \in Datasets, NEW e, NEW x, e.log = Append(d.log, x)
  PROVE  Grows(d, e)
<1>1. d.log \in Seq(Entries)
  BY DEF Datasets
<1>. QED BY <1>1 DEF Grows

LEMMA FollowsTransitive ==
  ASSUME NEW d \in Datasets, NEW e \in Datasets, NEW f \in Datasets,
         Follows(d, e), Follows(e, f)
  PROVE  Follows(d, f)
<1>1. /\ d.log \in Seq(Entries) /\ e.log \in Seq(Entries) /\ f.log \in Seq(Entries)
      /\ d.version \in Nat /\ e.version \in Nat /\ f.version \in Nat
  BY DEF Datasets
<1>2. Grows(d, f)
  BY <1>1 DEF Follows, Grows
<1>3. Advances(d, f)
  BY <1>1 DEF Follows, Advances
<1>. QED BY <1>2, <1>3 DEF Follows

LEMMA AppendFollows ==
  ASSUME NEW d \in Datasets, Explained(d), NEW new \in SUBSET Records
  PROVE  Follows(d, AppendRecords(d, new))
<1>. DEFINE open == IF d.frozen THEN Successor(d) ELSE d
            e == AppendRecords(d, new)
            x == Entry("append", new, "none", open.version)
<1>1. d.version \in Nat /\ d.frozen \in BOOLEAN
  BY DEF Datasets
<1>2. open \in Datasets /\ e \in Datasets
  BY <1>1, SuccessorExplained, AppendExplained
<1>3. e = [open EXCEPT !.records = open.records \cup new, !.log = Append(open.log, x)]
  BY DEF AppendRecords
<1>4. Grows(d, open) /\ (d.frozen => open.version = d.version + 1)
                     /\ (~ d.frozen => open.version = d.version)
  <2>1. CASE d.frozen
    <3>1. open.log = Append(d.log, Entry("successor", {}, "none", d.version + 1))
          /\ open.version = d.version + 1
      BY <2>1 DEF Successor, Datasets
    <3>. QED BY <2>1, <3>1, LongerLogGrows
  <2>2. CASE ~ d.frozen
    <3>1. open = d /\ d.log \in Seq(Entries)
      BY <2>2 DEF Datasets
    <3>. HIDE DEF open
    <3>. QED BY <2>2, <3>1 DEF Grows
  <2>. QED BY <1>1, <2>1, <2>2
<1>. HIDE DEF open, x
<1>5. e.log = Append(open.log, x) /\ e.version = open.version
  BY <1>2, <1>3 DEF Datasets
<1>6. Grows(open, e)
  BY <1>2, <1>5, LongerLogGrows
<1>7. Grows(d, e)
  <2>1. d.log \in Seq(Entries) /\ open.log \in Seq(Entries) /\ e.log \in Seq(Entries)
    BY <1>2 DEF Datasets
  <2>. HIDE DEF e
  <2>. QED BY <1>4, <1>6, <2>1 DEF Grows
<1>8. Advances(d, e)
  BY <1>1, <1>4, <1>5 DEF Advances
<1>. QED BY <1>7, <1>8 DEF Follows

LEMMA InvalidateFollows ==
  ASSUME NEW d \in Datasets, NEW r \in d.records
  PROVE  Follows(d, InvalidateRecord(d, r))
<1>. DEFINE version == IF d.frozen THEN d.version + 1 ELSE d.version
            e == InvalidateRecord(d, r)
            x == Entry("invalidate", {r}, "none", version)
<1>1. d.version \in Nat /\ d.frozen \in BOOLEAN
  BY DEF Datasets
<1>2. e.log = Append(d.log, x) /\ e.version = version
  BY DEF InvalidateRecord, Datasets
<1>. HIDE DEF e, x
<1>3. Grows(d, e)
  BY <1>2, LongerLogGrows
<1>4. Advances(d, e)
  BY <1>1, <1>2 DEF Advances
<1>5. Follows(d, e)
  BY <1>3, <1>4 DEF Follows
<1>. QED BY <1>5 DEF e

LEMMA FreezeFollows ==
  ASSUME NEW d \in Datasets
  PROVE  Follows(d, FreezeDataset(d)) /\ FreezeDataset(d).frozen = TRUE
<1>. DEFINE e == FreezeDataset(d)
            x == Entry("freeze", {}, "none", d.version)
<1>1. /\ e.log = Append(d.log, x) /\ e.version = d.version /\ e.frozen = TRUE
      /\ e.records = d.records /\ e.invalid = d.invalid
  BY DEF FreezeDataset, Datasets
<1>. HIDE DEF e, x
<1>2. Follows(d, e)
  BY <1>1, LongerLogGrows DEF Follows, Advances, Published
<1>. QED BY <1>1, <1>2 DEF e

LEMMA UnsealFollows ==
  ASSUME NEW d \in Datasets, NEW target \in Targets
  PROVE  Follows(d, PersistUnseal(d, target))
<1>. DEFINE e == PersistUnseal(d, target)
            x == Entry("unseal", {}, target, d.version)
<1>1. /\ e.log = Append(d.log, x) /\ e.version = d.version /\ e.frozen = d.frozen
      /\ e.records = d.records /\ e.invalid = d.invalid
  BY DEF PersistUnseal, Datasets
<1>. HIDE DEF e, x
<1>2. Follows(d, e)
  BY <1>1, LongerLogGrows DEF Follows, Advances, Published
<1>. QED BY <1>2 DEF e

\* What may be written may still be written when something follows it.
LEMMA FollowsKeeps ==
  ASSUME NEW d \in Datasets, NEW e \in Datasets, Follows(d, e)
  PROVE  /\ disk \in Datasets /\ Continues(d) => Continues(e)
         /\ \A a : a.version \in Nat /\ Succeeds(d, a) => Succeeds(e, a)
<1>1. /\ d.log \in Seq(Entries) /\ e.log \in Seq(Entries)
      /\ d.version \in Nat /\ e.version \in Nat
  BY DEF Datasets
<1>2. ASSUME disk \in Datasets, Continues(d) PROVE Continues(e)
  <2>1. disk.log \in Seq(Entries)
    BY <1>2 DEF Datasets
  <2>. QED BY <1>1, <1>2, <2>1 DEF Follows, Grows, Continues
<1>3. ASSUME NEW a, a.version \in Nat, Succeeds(d, a) PROVE Succeeds(e, a)
  <2>1. CASE a.version < d.version
    BY <1>1, <1>3, <2>1 DEF Follows, Advances, Succeeds
  <2>2. CASE d.frozen /\ a = Published(d)
    <3>1. a.version = d.version
      BY <2>2 DEF Published
    <3>. QED BY <1>1, <2>2, <3>1 DEF Follows, Advances, Succeeds
  <2>. QED BY <1>3, <2>1, <2>2 DEF Succeeds
<1>. QED BY <1>2, <1>3

LEMMA KeepLineage ==
  ASSUME LineageInv, UNCHANGED <<disk, published>>,
         \A q \in Processes : pc'[q] \in Holding =>
           \/ pc[q] \in Holding /\ mem'[q] = mem[q]
           \/ Continues(mem'[q]) /\ \A a \in published : Succeeds(mem'[q], a)
  PROVE  LineageInv'
BY DEF LineageInv, FrozenVersionNamesRecords, Continues, Succeeds

\* A process takes up a dataset it may write; nobody else's changes.
LEMMA TakeUpLineage ==
  ASSUME Inv, LineageInv, UNCHANGED <<disk, published>>, NEW p \in Processes,
         NEW d, Hold(p, d), NEW to, pc' = [pc EXCEPT ![p] = to],
         to \in Holding => Continues(d) /\ \A a \in published : Succeeds(d, a)
  PROVE  LineageInv'
<1>1. \A q \in Processes : q # p => pc'[q] = pc[q] /\ mem'[q] = mem[q]
  BY DEF Inv, TypeOK, Hold
<1>2. pc'[p] = to /\ mem'[p] = d
  BY DEF Inv, TypeOK, Hold
<1>. QED BY <1>1, <1>2, KeepLineage

LEMMA SessionLineage ==
  ASSUME Inv, LineageInv, NEW p \in Processes,
         Load(p) \/ SessionAppends(p) \/ SessionInvalidates(p) \/ SessionFreezes(p)
  PROVE  LineageInv'
<1>1. disk \in Datasets /\ mem[p] \in Datasets /\ Explained(mem[p])
  BY DEF Inv, Held
<1>2. \A a \in published : a.version \in Nat
  BY DEF Inv, TypeOK
<1>3. CASE Load(p)
  <2>1. Continues(disk) /\ \A a \in published : Succeeds(disk, a)
    <3>1. disk.log \in Seq(Entries)
      BY <1>1 DEF Datasets
    <3>. QED BY <3>1 DEF Continues, LineageInv
  <2>2. /\ Hold(p, disk) /\ pc' = [pc EXCEPT ![p] = "session"] /\ UNCHANGED <<disk, published>>
    BY <1>3 DEF Load, Move, FileUntouched
  <2>. QED BY <2>1, <2>2, TakeUpLineage
<1>4. CASE SessionAppends(p) \/ SessionInvalidates(p) \/ SessionFreezes(p)
  <2>1. PICK d \in Datasets :
          /\ Follows(mem[p], d) /\ Hold(p, d)
          /\ pc[p] = "session" /\ pc' = [pc EXCEPT ![p] = "session"]
          /\ UNCHANGED <<disk, published>>
    <3>1. CASE SessionAppends(p)
      <4>1. PICK new \in Batches :
              /\ Move(p, "session", "session")
              /\ Hold(p, AppendRecords(mem[p], new))
              /\ FileUntouched
        BY <3>1 DEF SessionAppends
      <4>2. new \in SUBSET Records
        BY CommandsAssumption
      <4>. QED BY <1>1, <4>1, <4>2, AppendFollows, AppendExplained DEF Move, FileUntouched
    <3>2. CASE SessionInvalidates(p)
      <4>1. PICK r \in mem[p].records :
              /\ Move(p, "session", "session")
              /\ Hold(p, InvalidateRecord(mem[p], r))
              /\ FileUntouched
        BY <3>2 DEF SessionInvalidates
      <4>. QED BY <1>1, <4>1, InvalidateFollows, InvalidateExplained DEF Move, FileUntouched
    <3>3. CASE SessionFreezes(p)
      BY <1>1, <3>3, FreezeFollows, FreezeExplained DEF SessionFreezes, Move, FileUntouched
    <3>. QED BY <1>4, <3>1, <3>2, <3>3
  <2>2. Continues(mem[p]) /\ \A a \in published : Succeeds(mem[p], a)
    BY <2>1 DEF LineageInv, Holding
  <2>3. Continues(d) /\ \A a \in published : Succeeds(d, a)
    BY <1>1, <1>2, <2>1, <2>2, FollowsKeeps
  <2>. QED BY <2>1, <2>3, TakeUpLineage
<1>. QED BY <1>3, <1>4

\* Unless there is a dataset already, nothing can have been published.
LEMMA NothingPublished ==
  ASSUME Inv, LineageInv, ~ Exists
  PROVE  published = {} /\ \A d : d.log \in Seq(Entries) => Continues(d)
<1>1. disk \in Datasets /\ Explained(disk) /\ disk.log = <<>>
  BY DEF Inv, Held, Exists
<1>2. DOMAIN disk.log = {} /\ Len(disk.log) = 0
  BY <1>1
<1>3. disk.version = 0 /\ ~ disk.frozen
  BY <1>1, <1>2 DEF Explained, Logged
<1>4. \A a \in published : a.version \in Nat /\ Succeeds(disk, a)
  BY DEF Inv, TypeOK, LineageInv
<1>5. published = {}
  BY <1>3, <1>4 DEF Succeeds
<1>. QED BY <1>2, <1>5 DEF Continues

LEMMA IngestLineage ==
  ASSUME Inv, LineageInv, ~ Reingest, NEW p \in Processes, Ingest(p)
  PROVE  LineageInv'
<1>1. PICK new \in Batches, freeze \in BOOLEAN :
        /\ Move(p, "idle", "ready")
        /\ Reingest \/ ~ Exists
        /\ Hold(p, IF freeze THEN FreezeDataset(AppendRecords(EmptyDataset, new))
                   ELSE AppendRecords(EmptyDataset, new))
        /\ FileUntouched
  BY DEF Ingest
<1>. DEFINE a == AppendRecords(EmptyDataset, new)
            d == IF freeze THEN FreezeDataset(a) ELSE a
<1>2. new \in SUBSET Records
  BY CommandsAssumption
<1>3. a \in Datasets /\ Explained(a)
  BY <1>2, EmptyExplained, AppendExplained
<1>4. d \in Datasets
  BY <1>3, FreezeExplained
<1>5. Hold(p, d)
  BY <1>1
<1>. HIDE DEF d
<1>6. Continues(d) /\ published = {}
  <2>1. d.log \in Seq(Entries)
    BY <1>4 DEF Datasets
  <2>. QED BY <1>1, <2>1, NothingPublished
<1>. QED BY <1>1, <1>5, <1>6, TakeUpLineage DEF Move, FileUntouched

LEMMA UnsealLineage ==
  ASSUME Inv, LineageInv, NEW p \in Processes, UnsealDataset(p)
  PROVE  LineageInv'
<1>. DEFINE d == PersistUnseal(disk, arg[p].target)
<1>1. disk \in Datasets /\ Explained(disk) /\ arg[p].target \in Targets
  BY DEF UnsealDataset, Move, Inv, Held, TypeOK
<1>2. d \in Datasets /\ Follows(disk, d)
  BY <1>1, UnsealExplained, UnsealFollows
<1>3. /\ Hold(p, d) /\ pc' = [pc EXCEPT ![p] = "ready"]
      /\ UNCHANGED <<disk, published>>
  BY DEF UnsealDataset, Move, FileUntouched
<1>. HIDE DEF d
<1>4. Continues(disk)
  <2>1. disk.log \in Seq(Entries)
    BY <1>1 DEF Datasets
  <2>. QED BY <2>1 DEF Continues
<1>5. \A a \in published : a.version \in Nat /\ Succeeds(disk, a)
  BY DEF Inv, TypeOK, LineageInv
<1>6. Continues(d) /\ \A a \in published : Succeeds(d, a)
  BY <1>1, <1>2, <1>4, <1>5, FollowsKeeps
<1>. QED BY <1>3, <1>6, TakeUpLineage

\* Steps after which the process holds nothing it could write, and the start
\* of a write.
LEMMA OtherLineage ==
  ASSUME Inv, LineageInv, NEW p \in Processes,
         MintReceipt(p) \/ Analyze(p) \/ BeginWrite(p) \/ Leave(p)
  PROVE  LineageInv'
<1>1. CASE MintReceipt(p)
  <2>1. /\ pc' = [pc EXCEPT ![p] = "minted"] /\ UNCHANGED <<disk, published, mem>>
    BY <1>1 DEF MintReceipt, Move, FileUntouched
  <2>2. \A q \in Processes : pc'[q] \in Holding => pc[q] \in Holding /\ mem'[q] = mem[q]
    BY <2>1 DEF Inv, TypeOK, Holding
  <2>. QED BY <2>1, <2>2, KeepLineage
<1>2. CASE Analyze(p)
  <2>1. PICK scope \in Scopes, given \in receipts \cup {"none"} :
          /\ pc' = [pc EXCEPT ![p] = Verdict(disk, scope, given)]
          /\ Hold(p, disk) /\ UNCHANGED <<disk, published>>
    BY <1>2 DEF Analyze, Move, FileUntouched
  <2>2. Verdict(disk, scope, given) \notin Holding
    BY DEF Verdict, Holding
  <2>. QED BY <2>1, <2>2, TakeUpLineage
<1>3. CASE BeginWrite(p)
  <2>1. /\ pc[p] \in Holding /\ pc' = [pc EXCEPT ![p] = "writing"]
        /\ UNCHANGED <<disk, published, mem>>
    BY <1>3 DEF BeginWrite, Holding
  <2>2. \A q \in Processes : pc'[q] \in Holding => pc[q] \in Holding /\ mem'[q] = mem[q]
    BY <2>1 DEF Inv, TypeOK
  <2>. QED BY <2>1, <2>2, KeepLineage
<1>4. CASE Leave(p)
  <2>1. pc' = [pc EXCEPT ![p] = "idle"] /\ Hold(p, EmptyDataset) /\ UNCHANGED <<disk, published>>
    BY <1>4 DEF Leave, Forget
  <2>. QED BY <2>1, TakeUpLineage DEF Holding
<1>. QED BY <1>1, <1>2, <1>3, <1>4

LEMMA EndWriteLineage ==
  ASSUME Inv, LineageInv, OneWriter, NEW p \in Processes, EndWrite(p)
  PROVE  LineageInv' /\ Continues(mem[p]) /\ disk' = mem[p]
<1>. DEFINE d == mem[p]
<1>1. /\ pc[p] = "writing" /\ pc' = [pc EXCEPT ![p] = "idle"] /\ disk' = d
      /\ published' = published \/ (d.frozen /\ published' = published \cup {Published(d)})
  BY DEF EndWrite, Move
<1>2. d \in Datasets /\ d.version \in Nat
  BY DEF Inv, TypeOK, Datasets
<1>3. Continues(d) /\ \A a \in published : Succeeds(d, a)
  BY <1>1 DEF LineageInv, Holding
<1>4. \A a \in published : a.version \in Nat
  BY DEF Inv, TypeOK
<1>5. \A q \in Processes : pc'[q] \notin Holding
  BY <1>1 DEF OneWriter, Holding, Inv, TypeOK
<1>. HIDE DEF d
<1>6. \A a \in published' : Succeeds(d, a)
  BY <1>1, <1>3 DEF Succeeds
<1>7. ASSUME NEW a \in published', NEW b \in published', a.version = b.version
      PROVE  a = b
  <2>1. Published(d).version = d.version
    BY DEF Published
  <2>2. \A c \in published : c.version = d.version => c = Published(d)
    BY <1>2, <1>3, <1>4 DEF Succeeds
  <2>. QED BY <1>1, <1>7, <2>1, <2>2 DEF LineageInv, FrozenVersionNamesRecords
<1>8. \A a \in published' : Succeeds(disk', a)
  BY <1>1, <1>6
<1>. QED BY <1>1, <1>3, <1>5, <1>7, <1>8 DEF LineageInv, FrozenVersionNamesRecords, Succeeds, d

LEMMA LineageStep ==
  ASSUME Inv, LineageInv, OneWriter, ~ Reingest, [Next]_vars
  PROVE  LineageInv' /\ (disk' = disk \/ (disk' \in Datasets /\ Continues(disk')))
<1>1. ASSUME NEW p \in Processes,
             \/ Load(p) \/ SessionAppends(p) \/ SessionInvalidates(p) \/ SessionFreezes(p)
             \/ Ingest(p) \/ UnsealDataset(p)
             \/ MintReceipt(p) \/ Analyze(p) \/ BeginWrite(p) \/ Leave(p)
      PROVE  LineageInv'
  BY <1>1, SessionLineage, IngestLineage, UnsealLineage, OtherLineage
<1>2. ASSUME NEW p \in Processes,
             \/ Load(p) \/ SessionAppends(p) \/ SessionInvalidates(p) \/ SessionFreezes(p)
             \/ Ingest(p) \/ UnsealDataset(p)
             \/ MintReceipt(p) \/ Analyze(p) \/ BeginWrite(p) \/ Leave(p)
      PROVE  disk' = disk
  <2>1. CASE FileUntouched
    BY <2>1 DEF FileUntouched
  <2>2. CASE BeginWrite(p) \/ Leave(p)
    BY <2>2 DEF BeginWrite, Leave
  <2>3. CASE Load(p) \/ SessionFreezes(p) \/ UnsealDataset(p)
    BY <2>1, <2>3 DEF Load, SessionFreezes, UnsealDataset
  <2>4. CASE SessionAppends(p) \/ SessionInvalidates(p) \/ Ingest(p)
    BY <2>1, <2>4 DEF SessionAppends, SessionInvalidates, Ingest
  <2>5. CASE MintReceipt(p) \/ Analyze(p)
    BY <2>1, <2>5 DEF MintReceipt, Analyze
  <2>. QED BY <1>2, <2>2, <2>3, <2>4, <2>5
<1>3. ASSUME NEW p \in Processes, EndWrite(p)
      PROVE  LineageInv' /\ disk' \in Datasets /\ Continues(disk')
  BY <1>3, EndWriteLineage DEF Inv, TypeOK
<1>4. CASE UNCHANGED vars
  <2>1. UNCHANGED <<disk, published, pc, mem>>
    BY <1>4 DEF vars
  <2>2. LineageInv'
    BY <2>1, KeepLineage
  <2>. QED BY <2>1, <2>2
<1>. QED BY <1>1, <1>2, <1>3, <1>4 DEF Next

LEMMA InitLineage == Init => LineageInv
<1>. SUFFICES ASSUME Init PROVE LineageInv
  OBVIOUS
<1>. QED BY DEF Init, LineageInv, FrozenVersionNamesRecords, Holding

LEMMA Lineage ==
  ASSUME ~ Reingest
  PROVE  Spec /\ []OneWriter => [](Inv /\ LineageInv)
<1>1. Init => Inv /\ LineageInv
  BY InitHeld, InitLineage
<1>2. Inv /\ LineageInv /\ OneWriter /\ [Next]_vars => (Inv /\ LineageInv)'
  BY NextHeld, LineageStep
<1>. QED BY <1>1, <1>2, PTL DEF Spec

(* dataset.py: the version of a frozen dataset names its records, as long   *)
(* as no dataset is ingested over and no two processes hold one at a time.  *)
THEOREM FrozenVersionsName ==
  ASSUME ~ Reingest
  PROVE  Spec /\ []OneWriter => []FrozenVersionNamesRecords
<1>1. LineageInv => FrozenVersionNamesRecords
  BY DEF LineageInv
<1>. QED BY Lineage, <1>1, PTL

-----------------------------------------------------------------------------
(* What becomes of the history *)

LEMMA InitLoss == Init => LossInv
BY DEF Init, LossInv, Holding

\* Nobody starts to hold a dataset while it cannot be read.
LEMMA TakeUpLoss ==
  ASSUME LossInv, OneWriter, UNCHANGED <<disk, intact, overlapped>>, Inv,
         NEW p \in Processes, NEW to, pc' = [pc EXCEPT ![p] = to],
         to \in Holding => ~ (Exists /\ ~ intact)
  PROVE  LossInv'
<1>1. \A q \in Processes : q # p => pc'[q] = pc[q]
  BY DEF Inv, TypeOK
<1>2. pc'[p] = to
  BY DEF Inv, TypeOK
<1>. QED BY <1>1, <1>2 DEF LossInv, Exists

\* The steps that leave the file alone: who writes, and what, stays the same.
LEMMA UntouchedLoss ==
  ASSUME Inv, LossInv, OneWriter, ~ Reingest, NEW p \in Processes,
         \/ Load(p) \/ SessionAppends(p) \/ SessionInvalidates(p) \/ SessionFreezes(p)
         \/ Ingest(p) \/ MintReceipt(p) \/ UnsealDataset(p) \/ Analyze(p)
  PROVE  /\ LossInv' /\ UNCHANGED <<disk, intact>>
         /\ Writing' = Writing /\ \A q \in Writing : mem'[q] = mem[q]
<1>1. /\ FileUntouched /\ pc[p] # "writing"
      /\ \E to \in {"idle", "session", "minted", "ready", "reported", "refused", "invalid"} :
           /\ pc' = [pc EXCEPT ![p] = to]
           /\ to \in Holding => ~ (Exists /\ ~ intact)
  <2>1. CASE Load(p)
    BY <2>1 DEF Load, Move, Loadable
  <2>2. CASE SessionAppends(p) \/ SessionInvalidates(p) \/ SessionFreezes(p)
    <3>1. pc[p] = "session" /\ pc' = [pc EXCEPT ![p] = "session"] /\ FileUntouched
      <4>1. CASE SessionAppends(p)
        BY <4>1 DEF SessionAppends, Move
      <4>2. CASE SessionInvalidates(p)
        BY <4>2 DEF SessionInvalidates, Move
      <4>3. CASE SessionFreezes(p)
        BY <4>3 DEF SessionFreezes, Move
      <4>. QED BY <2>2, <4>1, <4>2, <4>3
    <3>2. ~ (Exists /\ ~ intact)
      BY <3>1 DEF LossInv, Holding
    <3>. QED BY <3>1, <3>2
  <2>3. CASE Ingest(p)
    BY <2>3 DEF Ingest, Move
  <2>4. CASE MintReceipt(p)
    BY <2>4 DEF MintReceipt, Move, Holding
  <2>5. CASE UnsealDataset(p)
    BY <2>5 DEF UnsealDataset, Move, Loadable
  <2>6. CASE Analyze(p)
    <3>1. PICK scope \in Scopes, given \in receipts \cup {"none"} :
            Move(p, "idle", Verdict(disk, scope, given)) /\ FileUntouched
      BY <2>6 DEF Analyze
    <3>2. Verdict(disk, scope, given) \in {"reported", "refused", "invalid"}
      BY DEF Verdict
    <3>. QED BY <3>1, <3>2 DEF Move, Holding
  <2>. QED BY <2>1, <2>2, <2>3, <2>4, <2>5, <2>6
<1>2. UNCHANGED <<disk, intact, overlapped>>
  BY <1>1 DEF FileUntouched
<1>3. LossInv'
  BY <1>1, <1>2, TakeUpLoss
<1>4. Writing' = Writing
  BY <1>1 DEF Writing, Inv, TypeOK
<1>5. \A q \in Processes : q # p => mem'[q] = mem[q]
  <2>1. CASE Load(p) \/ SessionFreezes(p) \/ UnsealDataset(p)
    BY <2>1 DEF Load, SessionFreezes, UnsealDataset, Hold, Inv, TypeOK
  <2>2. CASE SessionAppends(p)
    BY <2>2 DEF SessionAppends, Hold, Inv, TypeOK
  <2>3. CASE SessionInvalidates(p)
    BY <2>3 DEF SessionInvalidates, Hold, Inv, TypeOK
  <2>4. CASE Ingest(p)
    <3>1. PICK new \in Batches, freeze \in BOOLEAN :
            Hold(p, IF freeze THEN FreezeDataset(AppendRecords(EmptyDataset, new))
                    ELSE AppendRecords(EmptyDataset, new))
      BY <2>4 DEF Ingest
    <3>. QED BY <3>1 DEF Hold, Inv, TypeOK
  <2>5. CASE MintReceipt(p)
    BY <2>5 DEF MintReceipt
  <2>6. CASE Analyze(p)
    BY <2>6 DEF Analyze, Hold, Inv, TypeOK
  <2>. QED BY <2>1, <2>2, <2>3, <2>4, <2>5, <2>6
<1>6. p \notin Writing
  BY <1>1 DEF Writing
<1>. QED BY <1>2, <1>3, <1>4, <1>5, <1>6 DEF Writing

LEMMA BeginWriteLoss ==
  ASSUME Inv, LineageInv, LossInv, OneWriter, NEW p \in Processes, BeginWrite(p)
  PROVE  LossInv' /\ HistorySurvives' /\ UNCHANGED disk
<1>1. /\ pc[p] \in {"session", "ready"} /\ pc' = [pc EXCEPT ![p] = "writing"]
      /\ UNCHANGED <<disk, mem>>
      /\ overlapped' = IF Writing = {} THEN overlapped ELSE overlapped \cup Writing \cup {p}
  BY DEF BeginWrite
<1>2. \A q \in Processes : pc[q] \in Holding => q = p
  BY <1>1 DEF OneWriter, Holding
<1>3. Writing = {}
  BY <1>1, <1>2 DEF Writing, Holding
<1>4. pc'[p] = "writing" /\ \A q \in Processes : q # p => pc'[q] = pc[q]
  BY <1>1 DEF Inv, TypeOK
<1>5. LossInv'
  BY <1>1, <1>2, <1>3, <1>4 DEF LossInv
<1>6. Continues(mem[p])
  BY <1>1 DEF LineageInv, Holding
<1>7. p \in Writing' /\ Continues(mem[p])'
  BY <1>1, <1>4, <1>6 DEF Writing, Continues
<1>. QED BY <1>1, <1>5, <1>7 DEF HistorySurvives

LEMMA EndWriteLoss ==
  ASSUME Inv, LossInv, OneWriter, NEW p \in Processes, EndWrite(p)
  PROVE  LossInv' /\ HistorySurvives' /\ p \in Writing
<1>1. /\ pc[p] = "writing" /\ pc' = [pc EXCEPT ![p] = "idle"]
      /\ intact' \in IF p \in overlapped THEN BOOLEAN ELSE {TRUE}
      /\ overlapped' = overlapped \ {p}
  BY DEF EndWrite, Move
<1>2. intact' = TRUE /\ overlapped' = {}
  BY <1>1 DEF LossInv
<1>. QED BY <1>1, <1>2 DEF LossInv, HistorySurvives, Writing

LEMMA LeaveLoss ==
  ASSUME Inv, LossInv, OneWriter, NEW p \in Processes, Leave(p)
  PROVE  /\ LossInv' /\ UNCHANGED <<disk, intact>>
         /\ Writing' = Writing \ {p} /\ \A q \in Writing' : mem'[q] = mem[q]
         /\ p \in Writing => pc'[p] = "idle"
<1>1. /\ pc' = [pc EXCEPT ![p] = "idle"] /\ overlapped' = overlapped \ {p}
      /\ UNCHANGED <<disk, intact>> /\ Hold(p, EmptyDataset)
  BY DEF Leave, Forget
<1>2. overlapped' = overlapped
  BY <1>1 DEF LossInv
<1>3. LossInv'
  BY <1>1, <1>2, TakeUpLoss DEF Holding
<1>4. pc'[p] = "idle" /\ \A q \in Processes : q # p => pc'[q] = pc[q] /\ mem'[q] = mem[q]
  BY <1>1 DEF Inv, TypeOK, Hold
<1>5. Writing' = Writing \ {p}
  BY <1>4 DEF Writing
<1>. QED BY <1>1, <1>3, <1>4, <1>5 DEF Writing

\* A history that is gone has no writer; while it is there, its writer has it.
LEMMA Survival ==
  ASSUME LineageInv
  PROVE  HistorySurvives <=> intact \/ Writing # {}
BY DEF LineageInv, HistorySurvives, Writing, Holding

\* What one step may do to the history.
KeptInStep ==
  /\ HistorySurvives /\ ~ HistorySurvives' =>
       \E p \in Writing : pc'[p] = "idle" /\ UNCHANGED disk
  /\ Exists /\ ~ HistorySurvives => ~ HistorySurvives'

LEMMA LossStep ==
  ASSUME Inv, LineageInv, LineageInv', LossInv, OneWriter, ~ Reingest, [Next]_vars
  PROVE  LossInv' /\ KeptInStep
<1>1. /\ HistorySurvives <=> intact \/ Writing # {}
      /\ HistorySurvives' <=> intact' \/ Writing' # {}
  <2>1. HistorySurvives' <=> intact' \/ Writing' # {}
    BY DEF LineageInv, HistorySurvives, Writing, Holding
  <2>. QED BY <2>1, Survival
<1>2. ASSUME NEW p \in Processes,
             \/ Load(p) \/ SessionAppends(p) \/ SessionInvalidates(p) \/ SessionFreezes(p)
             \/ Ingest(p) \/ MintReceipt(p) \/ UnsealDataset(p) \/ Analyze(p)
      PROVE  LossInv' /\ KeptInStep
  <2>1. LossInv' /\ intact' = intact /\ Writing' = Writing
    BY <1>2, UntouchedLoss
  <2>. QED BY <1>1, <2>1 DEF KeptInStep
<1>3. ASSUME NEW p \in Processes, BeginWrite(p)
      PROVE  LossInv' /\ KeptInStep
  <2>1. LossInv' /\ HistorySurvives' /\ pc[p] \in Holding /\ pc[p] # "writing"
    BY <1>3, BeginWriteLoss DEF BeginWrite, Holding
  <2>2. Exists => intact
    BY <2>1 DEF LossInv
  <2>. QED BY <2>1, <2>2 DEF KeptInStep, HistorySurvives
<1>4. ASSUME NEW p \in Processes, EndWrite(p)
      PROVE  LossInv' /\ KeptInStep
  <2>1. LossInv' /\ HistorySurvives' /\ p \in Writing
    BY <1>4, EndWriteLoss
  <2>. QED BY <1>1, <2>1 DEF KeptInStep
<1>5. ASSUME NEW p \in Processes, Leave(p)
      PROVE  LossInv' /\ KeptInStep
  <2>1. /\ LossInv' /\ UNCHANGED <<disk, intact>>
        /\ Writing' = Writing \ {p}
        /\ p \in Writing => pc'[p] = "idle"
    BY <1>5, LeaveLoss
  <2>2. CASE p \in Writing
    BY <1>1, <2>1, <2>2 DEF KeptInStep
  <2>3. CASE p \notin Writing
    BY <1>1, <2>1, <2>3 DEF KeptInStep
  <2>. QED BY <2>2, <2>3
<1>6. CASE UNCHANGED vars
  <2>1. UNCHANGED <<disk, intact, overlapped, pc>>
    BY <1>6 DEF vars
  <2>2. LossInv' /\ Writing' = Writing
    BY <2>1 DEF LossInv, Exists, Writing
  <2>. QED BY <1>1, <2>1, <2>2 DEF KeptInStep
<1>. QED BY <1>2, <1>3, <1>4, <1>5, <1>6 DEF Next

(* dataset.py write_dataset: under the same discipline every dataset        *)
(* written continues the one before it; only a process that dies between    *)
(* truncating the file and filling it loses the history, and then it is     *)
(* lost for good.                                                           *)
THEOREM HistoryKeptOrCut ==
  ASSUME ~ Reingest
  PROVE  Spec /\ []OneWriter => HistoryLostOnlyMidWrite
<1>. DEFINE All == Inv /\ LineageInv /\ LossInv
            Kept == /\ Len(disk.log) <= Len(disk'.log)
                    /\ \A i \in DOMAIN disk.log : disk'.log[i] = disk.log[i]
                    /\ HistorySurvives /\ ~ HistorySurvives' =>
                         \E p \in Writing : pc'[p] = "idle" /\ UNCHANGED disk
                    /\ Exists /\ ~ HistorySurvives => ~ HistorySurvives'
<1>1. Init => All
  BY InitHeld, InitLineage, InitLoss
<1>2. ASSUME All, OneWriter, [Next]_vars PROVE All' /\ Kept
  <2>1. Inv' /\ LineageInv'
    BY <1>2, NextHeld, LineageStep
  <2>2. LossInv' /\ KeptInStep
    BY <1>2, <2>1, LossStep
  <2>3. disk \in Datasets /\ (disk' = disk \/ (disk' \in Datasets /\ Continues(disk')))
    BY <1>2, LineageStep DEF Inv, TypeOK
  <2>4. Len(disk.log) <= Len(disk'.log) /\ \A i \in DOMAIN disk.log : disk'.log[i] = disk.log[i]
    BY <2>3 DEF Continues, Datasets
  <2>. QED BY <2>1, <2>2, <2>4 DEF KeptInStep
<1>3. All /\ OneWriter /\ [Next]_vars => All' /\ [Kept]_vars
  BY <1>2
<1>. HIDE DEF All
<1>. QED BY <1>1, <1>3, PTL DEF Spec, HistoryLostOnlyMidWrite

=============================================================================
