---------------------------- MODULE EvidenceProofs ----------------------------
(***************************************************************************)
(* EvidencePipeline's invariants for any tasks, checklets, manifests and   *)
(* runs.  Three facts carry them: every record of the dataset is what an   *)
(* ingestion that was not refused made of a submission (Ingestions), no    *)
(* two of the records conflict (Compatible), and a report on show is the   *)
(* report of the dataset as it is (ReportIsCurrent).                       *)
(***************************************************************************)
EXTENDS EvidencePipeline, FiniteSetTheorems, TLAPS

Made(m, x, v) == Refusal(m) = "none" /\ PossibleRun(m, x)

Ingestions ==
  /\ IsFiniteSet(dataset)
  /\ \A r \in dataset :
       /\ ~ HasBlockingCode(r)
       /\ \E m \in Submissions, x \in Profiles, v \in Versions :
            Made(m, x, v) /\ r = Ingested(m, x, v)

ReportIsCurrent == report \subseteq {Report(dataset)}

\* The shapes of a manifest and of a record that is made of it.
LEMMA IngestedFields ==
  ASSUME NEW m \in Submissions, NEW x \in Profiles, NEW v \in Versions, Made(m, x, v)
  PROVE  LET r == Ingested(m, x, v) IN
         /\ r \in Records /\ r.gates = {"pass"} /\ r.version = v
         /\ r.action = Assess({"pass"}, Seen(r.obs)).action
         /\ Files(r) /\ r.touch \in {"kept", "changed"} => r.spelling # "plain"
         /\ r.outcome \in {"accepted", "rejected"} => r.command
<1>1. m \in Manifests /\ x \in Runs
  BY PipelineAssumption
<1>2. /\ m.inspectable /\ m.oracle # "missing"
      /\ m.oracle = "files" /\ m.touch \in {"kept", "changed"} => m.spelling # "plain"
  BY DEF Made, Refusal
<1>. DEFINE r == Ingested(m, x, v)
            obs == IF m.coding THEN x.obs ELSE [c \in Checklets |-> Unseen]
<1>3. r = [task |-> m.task, origin |-> m.origin, named |-> m.named, coding |-> m.coding,
           oracle |-> m.oracle, touch |-> m.touch, spelling |-> m.spelling,
           lists |-> m.lists, overwritten |-> m.overwritten, blank |-> m.blank, gates |-> {"pass"}, obs |-> obs,
           ast |-> x.ast, shared |-> x.shared,
           action |-> Assess({"pass"}, Seen(obs)).action,
           outcome |-> x.outcome, command |-> x.command, version |-> v]
  BY <1>2 DEF Ingested
<1>4. obs \in [Checklets -> Observations \cup {Unseen}]
  <2>1. x.obs \in [Checklets -> Observations]
    BY <1>1 DEF Runs
  <2>. QED BY <2>1
<1>5. Assess({"pass"}, Seen(obs)).action \in Actions
  BY DEF Assess, Actions
<1>6. /\ m.task \in Tasks /\ m.origin \in Origins /\ m.named \in BOOLEAN
      /\ m.oracle \in {"files", "bare", "unavailable"}
      /\ m.touch \in Touches /\ m.spelling \in Spellings /\ m.coding \in BOOLEAN
      /\ m.lists \in SUBSET Checklets /\ m.overwritten \in BOOLEAN /\ m.blank \in BOOLEAN
      /\ x.ast \in [Checklets -> Labels] /\ x.shared \in [Checklets -> Labels]
      /\ x.outcome \in HardOutcomes /\ x.command \in BOOLEAN
  BY <1>1, <1>2 DEF Manifests, Runs
<1>7. {"pass"} \in SUBSET GateStatuses
  BY DEF GateStatuses
<1>. HIDE DEF obs
<1>8. r \in Records
  BY <1>3, <1>4, <1>5, <1>6, <1>7 DEF Records
<1>9. Files(r) /\ r.touch \in {"kept", "changed"} => r.spelling # "plain"
  BY <1>2, <1>3 DEF Files
<1>10. r.outcome \in {"accepted", "rejected"} => r.command
  BY <1>3 DEF Made, PossibleRun
<1>. QED BY <1>3, <1>8, <1>9, <1>10

LEMMA RecordFields ==
  ASSUME Ingestions, NEW r \in dataset
  PROVE  /\ r \in Records /\ ~ HasBlockingCode(r) /\ r.gates = {"pass"}
         /\ r.action = Assess({"pass"}, Seen(r.obs)).action
         /\ Files(r) /\ r.touch \in {"kept", "changed"} => r.spelling # "plain"
         /\ r.outcome \in {"accepted", "rejected"} => r.command
<1>1. PICK m \in Submissions, x \in Profiles, v \in Versions :
        Made(m, x, v) /\ r = Ingested(m, x, v)
  BY DEF Ingestions
<1>. QED BY <1>1, IngestedFields DEF Ingestions

-----------------------------------------------------------------------------
\* The only step that touches the dataset appends an accepted record.
LEMMA DatasetStep ==
  ASSUME [Next]_vars, live \in Versions
  PROVE  \/ dataset' = dataset
         \/ /\ Cardinality(dataset) < MaxRecords /\ Idle
            /\ UNCHANGED <<live, refusal, report, replay>>
            /\ \E m \in Submissions, x \in Profiles :
                 /\ Made(m, x, live) /\ ~ HasBlockingCode(Ingested(m, x, live))
                 /\ ~ Conflicts(Ingested(m, x, live))
                 /\ dataset' = dataset \cup {Ingested(m, x, live)}
<1>1. CASE \E m \in Submissions : Ingest(m)
  <2>1. PICK m \in Submissions, x \in Profiles :
          /\ Idle /\ Refusal(m) = "none" /\ Cardinality(dataset) < MaxRecords
          /\ PossibleRun(m, x) /\ AppendRecord(Ingested(m, x, live))
    BY <1>1 DEF Ingest
  <2>. QED BY <2>1 DEF AppendRecord, Refuse, Made
<1>2. CASE \E m \in Submissions : IngestRaises(m)
  BY <1>2 DEF IngestRaises, Refuse
<1>3. CASE \E r \in dataset, mode \in Modes : r.task \in Replayed /\ Replay(r, mode)
  BY <1>3 DEF Replay
<1>4. CASE Analyse \/ Answered \/ Upgrade \/ UNCHANGED vars
  BY <1>4 DEF Analyse, Answered, Upgrade, vars
<1>. QED BY <1>1, <1>2, <1>3, <1>4 DEF Next

LEMMA LiveStep == ASSUME live \in Versions, [Next]_vars PROVE live' \in Versions
BY DEF Next, vars, IngestRaises, Refuse, Ingest, AppendRecord, Analyse, Replay, Answered,
       Upgrade, Versions

LEMMA IngestionsStep ==
  ASSUME live \in Versions, Ingestions, [Next]_vars
  PROVE  Ingestions'
<1>1. CASE dataset' = dataset
  BY <1>1 DEF Ingestions
<1>2. ASSUME NEW m \in Submissions, NEW x \in Profiles, Made(m, x, live),
             ~ HasBlockingCode(Ingested(m, x, live)), dataset' = dataset \cup {Ingested(m, x, live)}
      PROVE  Ingestions'
  <2>1. IsFiniteSet(dataset')
    BY <1>2, FS_AddElement DEF Ingestions
  <2>2. ASSUME NEW r \in dataset'
        PROVE  /\ ~ HasBlockingCode(r)
               /\ \E n \in Submissions, y \in Profiles, v \in Versions :
                    Made(n, y, v) /\ r = Ingested(n, y, v)
    <3>1. CASE r \in dataset
      BY <3>1 DEF Ingestions
    <3>2. CASE r = Ingested(m, x, live)
      BY <1>2, <3>2
    <3>. QED BY <1>2, <3>1, <3>2
  <2>. QED BY <2>1, <2>2 DEF Ingestions
<1>. QED BY <1>1, <1>2, DatasetStep

\* An analysis is of the dataset, and nothing is appended while it is read.
LEMMA CurrentStep ==
  ASSUME live \in Versions, ReportIsCurrent, [Next]_vars
  PROVE  ReportIsCurrent'
<1>1. CASE dataset' = dataset
  <2>1. report' \subseteq report \cup {Report(dataset)}
    BY DEF Next, vars, IngestRaises, Refuse, Ingest, AppendRecord, Analyse, Replay, Answered, Upgrade
  <2>. QED BY <1>1, <2>1 DEF ReportIsCurrent
<1>2. CASE dataset' # dataset
  <2>1. report' = {}
    BY <1>2, DatasetStep DEF Idle
  <2>. QED BY <2>1 DEF ReportIsCurrent
<1>. QED BY <1>1, <1>2

-----------------------------------------------------------------------------
(* What follows from the two facts alone.                                   *)

LEMMA LeaksAreSeen == Ingestions => LeaksAreCaught
<1>. SUFFICES ASSUME Ingestions, NEW r \in dataset
              PROVE  /\ Files(r) =>
                          /\ ~ r.named
                          /\ r.touch \in {"kept", "changed"} => r.spelling # "plain"
                          /\ r.touch # "apart" /\ r.spelling # "dotted" =>
                               \A c \in r.lists : r.obs[c] = Unseen \/ Has(r, c, "error")
                     /\ r.overwritten => r \notin Determinate(dataset)
  BY DEF LeaksAreCaught
<1>1. ~ OracleLeak(r) /\ ~ NotTheCandidate(r)
  BY RecordFields DEF HasBlockingCode
<1>2. Files(r) =>
        /\ ~ r.named
        /\ r.touch # "apart" /\ r.spelling # "dotted" => ~ IsListed(r)
  BY <1>1 DEF OracleLeak
<1>3. Files(r) /\ r.touch \in {"kept", "changed"} => r.spelling # "plain"
  BY RecordFields
<1>4. r.overwritten => r.outcome \notin {"accepted", "rejected"}
  BY <1>1, RecordFields DEF NotTheCandidate
<1>. QED BY <1>2, <1>3, <1>4 DEF IsListed, Has, Determinate

\* The policy's rules, of observations of which there are some.
LEMMA WaiveRule ==
  ASSUME NEW obs, obs # {}
  PROVE  Assess({"pass"}, obs).action = "would_waive" <=>
           /\ ~ HasVerdict(obs, "error") /\ ~ HasVerdict(obs, "abstain")
           /\ ~ Finding(obs, {"high", "critical"}) /\ ~ Finding(obs, {"medium"})
<1>1. {"pass"} \cap {"fail", "error"} = {}
  OBVIOUS
<1>. QED BY <1>1 DEF Assess, Reason

LEMMA RegionIsWaived == Ingestions => LowRiskIsWaived
<1>. SUFFICES ASSUME Ingestions, NEW r \in dataset, Seen(r.obs) # {}
              PROVE  LowRisk(r) <=> r.action = "would_waive"
  BY DEF LowRiskIsWaived
<1>. DEFINE obs == Seen(r.obs)
<1>1. r.gates = {"pass"} /\ r.action = Assess({"pass"}, obs).action
  BY RecordFields
<1>2. LowRisk(r) <=> /\ \A o \in obs : o.verdict \notin {"abstain", "error"}
                     /\ ~ Finding(obs, {"medium", "high", "critical"})
  BY <1>1 DEF LowRisk, GatesPass
<1>3. Finding(obs, {"medium", "high", "critical"}) <=>
        Finding(obs, {"high", "critical"}) \/ Finding(obs, {"medium"})
  BY DEF Finding
<1>4. (\A o \in obs : o.verdict \notin {"abstain", "error"}) <=>
        ~ HasVerdict(obs, "error") /\ ~ HasVerdict(obs, "abstain")
  BY DEF HasVerdict
<1>. QED BY <1>1, <1>2, <1>3, <1>4, WaiveRule

\* A decision beyond collecting more needs the two blocking gates, and no more.
LEMMA BlockedOrNot ==
  ASSUME NEW rs
  PROVE  /\ DecideV2(rs) = "COLLECT_MORE_V1_2_DATA" <=> ~ EnoughReal(rs)
         /\ DecideV2(rs) \in Decisions
BY DEF DecideV2, Decisions

LEMMA ReportFields ==
  ASSUME NEW rs
  PROVE  Report(rs).decision = DecideV2(Usable(rs)) /\ Report(rs).quality = Redacted(rs)
BY DEF Report

LEMMA RealAlone == ReportIsCurrent => FixturesDoNotUnblock
<1>. SUFFICES ASSUME ReportIsCurrent, NEW p \in report
              PROVE  LET real == {r \in dataset : r.origin \in Real} IN
                     p.decision = "COLLECT_MORE_V1_2_DATA" <=>
                       Report(real).decision = "COLLECT_MORE_V1_2_DATA"
  BY DEF FixturesDoNotUnblock
<1>. DEFINE real == {r \in dataset : r.origin \in Real}
<1>1. p.decision = DecideV2(Usable(dataset)) /\ Report(real).decision = DecideV2(Usable(real))
  BY ReportFields DEF ReportIsCurrent
<1>2. RealDeterminate(Usable(dataset)) = RealDeterminate(Usable(real))
  BY DEF RealDeterminate, Determinate, Usable
<1>3. EnoughReal(Usable(dataset)) <=> EnoughReal(Usable(real))
  BY <1>2 DEF EnoughReal
<1>. QED BY <1>1, <1>3, BlockedOrNot

\* Two reports that differ in their quality entries only.
LEMMA SameButQuality ==
  ASSUME NEW d, NEW a, NEW g, NEW s, NEW t, NEW n, NEW x, NEW y, NEW z, NEW p, NEW q,
         p = [decision |-> d, analysed |-> a, region |-> g, sealed |-> s, total |-> t,
              near |-> n, quality |-> x],
         q = [decision |-> d, analysed |-> a, region |-> g, sealed |-> s, total |-> t,
              near |-> n, quality |-> y]
  PROVE  [p EXCEPT !.quality = z] = [q EXCEPT !.quality = z]
OBVIOUS

\* Erasing leaves a record its task, and with it all that does not depend on how
\* its candidate did.
LEMMA ErasedFields ==
  ASSUME NEW r \in Records
  PROVE  /\ Erased(r).task = r.task /\ Partition(Erased(r)) = Partition(r)
         /\ NearKeys(Erased(r)) = NearKeys(r)
<1>1. Erased(r).task = r.task
  BY DEF Erased, Records
<1>. QED BY <1>1 DEF Partition, NearKeys

\* Two datasets with records of the same tasks, and what is counted and grouped
\* of all the records of a dataset.
Twins(A, B) ==
  /\ \A r \in A : \E s \in B :
       s.task = r.task /\ Partition(s) = Partition(r) /\ NearKeys(s) = NearKeys(r)
  /\ \A s \in B : \E r \in A :
       s.task = r.task /\ Partition(s) = Partition(r) /\ NearKeys(s) = NearKeys(r)

CountedAlike(A, B) ==
  /\ Ids(A) = Ids(B) /\ NearDuplicates(A) = NearDuplicates(B)
  /\ \A p : Ids({r \in A : Partition(r) = p}) = Ids({r \in B : Partition(r) = p})

\* What the erased dataset has in common with the dataset.
LEMMA ErasedDataset ==
  ASSUME Ingestions
  PROVE  LET erased == Open \cup {Erased(r) : r \in Sealed} IN
         /\ Usable(dataset) = Open /\ Usable(erased) = Open
         /\ Twins(dataset, erased)
<1>. DEFINE erased == Open \cup {Erased(r) : r \in Sealed}
<1>1. \A r \in Sealed : /\ Erased(r).task = r.task /\ Partition(Erased(r)) = Partition(r)
                        /\ NearKeys(Erased(r)) = NearKeys(r)
  BY ErasedFields, RecordFields DEF Sealed
<1>2. \A r \in Sealed : Partition(r) \notin Operational
  BY DEF Sealed, Open
<1>3. Usable(dataset) = Open
  BY DEF Usable, Open
<1>4. Usable(erased) = Open
  BY <1>1, <1>2 DEF Usable, Open
<1>5. ASSUME NEW r \in dataset
      PROVE  \E s \in erased :
               s.task = r.task /\ Partition(s) = Partition(r) /\ NearKeys(s) = NearKeys(r)
  BY <1>1 DEF Sealed
<1>6. ASSUME NEW s \in erased
      PROVE  \E r \in dataset :
               s.task = r.task /\ Partition(s) = Partition(r) /\ NearKeys(s) = NearKeys(r)
  BY <1>1 DEF Sealed, Open
<1>. QED BY <1>3, <1>4, <1>5, <1>6 DEF Twins

\* What a report counts and groups of all records it reads off their tasks.
LEMMA TwinsCount ==
  ASSUME NEW A, NEW B, Twins(A, B)
  PROVE  CountedAlike(A, B)
<1>. USE DEF Twins
<1>1. Ids(A) = Ids(B)
  BY DEF Ids
<1>2. \A p : Ids({r \in A : Partition(r) = p}) = Ids({r \in B : Partition(r) = p})
  BY DEF Ids
<1>3. \A k : Ids({r \in A : k \in NearKeys(r)}) = Ids({r \in B : k \in NearKeys(r)})
  BY DEF Ids
<1>4. UNION {NearKeys(r) : r \in A} = UNION {NearKeys(r) : r \in B}
  OBVIOUS
<1>. DEFINE keys(rs) == UNION {NearKeys(r) : r \in rs}
            group(rs, k) == [key |-> k, records |-> Ids({r \in rs : k \in NearKeys(r)})]
<1>5. \A k : group(A, k) = group(B, k)
  BY <1>3
<1>6. {group(A, k) : k \in keys(A)} = {group(B, k) : k \in keys(B)}
  <2>1. keys(A) = keys(B)
    BY <1>4
  <2>. HIDE DEF keys, group
  <2>. QED BY <1>5, <2>1
<1>. QED BY <1>1, <1>2, <1>6 DEF NearDuplicates, CountedAlike

\* The quality entries, shown and redacted.
LEMMA QualityKept ==
  ASSUME Ingestions
  PROVE  LET erased == Open \cup {Erased(r) : r \in Sealed} IN
         /\ {e \in Redacted(dataset) : e.task \in Ids(Open)}
              = {e \in Redacted(erased) : e.task \in Ids(Open)}
         /\ \A e \in Redacted(dataset) : e.task \in Ids(Sealed) =>
              e.codes = {"protected_partition"}
<1>. DEFINE erased == Open \cup {Erased(r) : r \in Sealed}
            used == {Partition(r) : r \in Open}
            allowed == IF used = {} THEN Operational ELSE used
            entry(r) == [task |-> r.task, codes |-> IF Partition(r) \in allowed THEN Quality(r)
                                                    ELSE {"protected_partition"}]
<1>1. Usable(dataset) = Open /\ Usable(erased) = Open
  BY ErasedDataset
<1>2. /\ Redacted(dataset) = {entry(r) : r \in {q \in dataset : Quality(q) # {}}}
      /\ Redacted(erased) = {entry(r) : r \in {q \in erased : Quality(q) # {}}}
  BY <1>1 DEF Redacted
<1>3. \A r, s : r.task = s.task => Partition(r) = Partition(s)
  BY DEF Partition
<1>4. \A r \in Sealed : Erased(r).task = r.task /\ Partition(r) \notin Operational
  BY ErasedFields, RecordFields DEF Sealed, Open
<1>5. \A r \in dataset : r.task \in Ids(Open) => r \in Open
  BY <1>3 DEF Ids, Open
<1>6. \A r \in erased : r.task \in Ids(Open) => r \in Open
  BY <1>3, <1>4 DEF Ids, Open
<1>7. \A r : entry(r).task = r.task
  OBVIOUS
<1>8. allowed \subseteq Operational
  BY DEF Open
<1>9. \A r : Partition(r) \notin Operational => entry(r).codes = {"protected_partition"}
  BY <1>8
<1>10. Open \subseteq dataset /\ Open \subseteq erased
  BY DEF Open
<1>. HIDE DEF entry, erased
<1>11. {e \in Redacted(dataset) : e.task \in Ids(Open)}
         = {e \in Redacted(erased) : e.task \in Ids(Open)}
  BY <1>2, <1>5, <1>6, <1>7, <1>10
<1>12. ASSUME NEW e \in Redacted(dataset), e.task \in Ids(Sealed)
       PROVE  e.codes = {"protected_partition"}
  <2>1. PICK r \in dataset : e = entry(r)
    BY <1>2
  <2>2. PICK s \in Sealed : r.task = s.task
    BY <1>7, <1>12, <2>1 DEF Ids
  <2>. QED BY <1>3, <1>4, <1>9, <2>1, <2>2
<1>. QED BY <1>11, <1>12 DEF erased

LEMMA SealsHold == Ingestions /\ ReportIsCurrent => SealedStaysSealed
<1>. DEFINE erased == Open \cup {Erased(r) : r \in Sealed}
            OfOpen(entries) == {e \in entries : e.task \in Ids(Open)}
<1>. SUFFICES ASSUME Ingestions, ReportIsCurrent, NEW p \in report
              PROVE  LET q == Report(erased)
                     IN  /\ [p EXCEPT !.quality = OfOpen(p.quality)]
                              = [q EXCEPT !.quality = OfOpen(q.quality)]
                         /\ \A e \in p.quality : e.task \in Ids(Sealed) =>
                              e.codes = {"protected_partition"}
  BY DEF SealedStaysSealed
<1>1. p = Report(dataset)
  BY DEF ReportIsCurrent
<1>2. Usable(dataset) = Open /\ Usable(erased) = Open
  BY ErasedDataset
<1>3. CountedAlike(dataset, erased)
  BY ErasedDataset, TwinsCount
<1>. DEFINE d == DecideV2(Open)
            a == Cardinality(Ids(Open))
            g == Ids({r \in Determinate(Open) : LowRisk(r)})
            s(rs) == [x \in Partitions \ Operational |->
                        Cardinality(Ids({r \in rs : Partition(r) = x}))]
<1>4. /\ Report(dataset) = [decision |-> d, analysed |-> a, region |-> g, sealed |-> s(dataset),
           total |-> Cardinality(Ids(dataset)), near |-> NearDuplicates(dataset),
           quality |-> Redacted(dataset)]
      /\ Report(erased) = [decision |-> d, analysed |-> a, region |-> g, sealed |-> s(erased),
           total |-> Cardinality(Ids(erased)), near |-> NearDuplicates(erased),
           quality |-> Redacted(erased)]
  BY <1>2 DEF Report
<1>5. /\ s(dataset) = s(erased) /\ Ids(dataset) = Ids(erased)
      /\ NearDuplicates(dataset) = NearDuplicates(erased)
  BY <1>3 DEF CountedAlike
<1>6. p.quality = Redacted(dataset) /\ Report(erased).quality = Redacted(erased)
  BY <1>1, ReportFields
<1>7. OfOpen(p.quality) = OfOpen(Report(erased).quality)
  BY <1>6, QualityKept
<1>8. \A e \in p.quality : e.task \in Ids(Sealed) => e.codes = {"protected_partition"}
  BY <1>6, QualityKept
<1>. HIDE DEF erased, OfOpen, d, a, g, s
<1>9. [p EXCEPT !.quality = OfOpen(p.quality)]
        = [Report(erased) EXCEPT !.quality = OfOpen(p.quality)]
  BY <1>1, <1>4, <1>5, SameButQuality
<1>. QED BY <1>7, <1>8, <1>9

-----------------------------------------------------------------------------
\* One field of a copy differs, and a frozen replay reads the other two.
LEMMA CopyFields ==
  ASSUME NEW r \in Records, NEW c \in Copies(r)
  PROVE  /\ c.version = r.version
         /\ c.digest = c.bytes /\ c.bound = c.digest => c.bytes = r.task
<1>1. r.task # Tampered
  BY IngestionAssumption DEF Records
<1>2. CASE c = Copy(r)
  BY <1>2 DEF Copy
<1>3. CASE c = [Copy(r) EXCEPT !.bytes = Tampered]
  BY <1>1, <1>3 DEF Copy
<1>4. CASE c = [Copy(r) EXCEPT !.digest = Tampered]
  BY <1>1, <1>4 DEF Copy
<1>5. CASE c = [Copy(r) EXCEPT !.bound = Tampered]
  BY <1>1, <1>5 DEF Copy
<1>6. CASE \E o \in HardOutcomes : c = [Copy(r) EXCEPT !.outcome = o]
  BY <1>6 DEF Copy
<1>. QED BY <1>2, <1>3, <1>4, <1>5, <1>6 DEF Copies

LEMMA AnswerFields ==
  ASSUME NEW m, NEW e, NEW w, NEW k, NEW u, NEW d, NEW a,
         a = [mode |-> m, exit |-> e, whole |-> w, known |-> k, current |-> u, reproduced |-> d]
  PROVE  /\ a.mode = m /\ a.exit = e /\ a.whole = w
         /\ a.known = k /\ a.current = u /\ a.reproduced = d
OBVIOUS

LEMMA ReplayStep ==
  ASSUME Ingestions, ReplayVouches, [Next]_vars
  PROVE  ReplayVouches'
<1>1. CASE replay' \in {replay, {}}
  BY <1>1 DEF ReplayVouches
<1>2. ASSUME NEW r \in dataset, NEW mode \in Modes, Replay(r, mode) PROVE ReplayVouches'
  <2>1. PICK c \in Copies(r), again \in HardOutcomes \cup {"raised"} :
          replay' = {[mode |-> mode, exit |-> Exit(mode, c, live, again),
                      whole |-> c.bytes = r.task, known |-> c.bound = c.bytes,
                      current |-> r.version = live,
                      reproduced |-> c.command /\ again = c.outcome]}
    BY <1>2 DEF Replay
  <2>2. /\ c.version = r.version
        /\ c.digest = c.bytes /\ c.bound = c.digest => c.bytes = r.task
    BY RecordFields, CopyFields
  <2>3. ASSUME mode = "frozen-observation", Exit(mode, c, live, again) = 0
        PROVE  c.bytes = r.task /\ c.bound = c.bytes /\ r.version = live
    BY <2>2, <2>3 DEF Exit, FrozenAccepts
  <2>4. ASSUME mode = "full", Exit(mode, c, live, again) = 0
        PROVE  c.command /\ again = c.outcome
    BY <2>4 DEF Exit
  <2>5. ASSUME NEW a \in replay', a.exit = 0
        PROVE  /\ a.mode = "frozen-observation" => a.whole /\ a.known /\ a.current
               /\ a.mode = "full" => a.reproduced
    <3>1. /\ a.mode = mode /\ a.exit = Exit(mode, c, live, again)
          /\ a.whole = (c.bytes = r.task) /\ a.known = (c.bound = c.bytes)
          /\ a.current = (r.version = live)
          /\ a.reproduced = (c.command /\ again = c.outcome)
      <4>. DEFINE e == Exit(mode, c, live, again)
                  w == c.bytes = r.task
                  k == c.bound = c.bytes
                  u == r.version = live
                  d == c.command /\ again = c.outcome
      <4>1. a = [mode |-> mode, exit |-> e, whole |-> w, known |-> k, current |-> u, reproduced |-> d]
        BY <2>1, <2>5, Zenon
      <4>. HIDE DEF e, w, k, u, d
      <4>2. /\ a.mode = mode /\ a.exit = e /\ a.whole = w
            /\ a.known = k /\ a.current = u /\ a.reproduced = d
        BY <4>1, AnswerFields, Zenon
      <4>. QED BY <4>2, Zenon DEF e, w, k, u, d
    <3>2. a.mode = "frozen-observation" => a.whole /\ a.known /\ a.current
      BY <2>3, <2>5, <3>1
    <3>3. a.mode = "full" => a.reproduced
      BY <2>4, <2>5, <3>1
    <3>. QED BY <3>2, <3>3
  <2>. QED BY <2>5 DEF ReplayVouches
<1>. QED
  BY <1>1, <1>2 DEF Next, vars, IngestRaises, Refuse, Ingest, AppendRecord, Analyse, Answered, Upgrade

-----------------------------------------------------------------------------
(* The dataset is at every moment one that append_records would validate.   *)

Compatible ==
  \A p, q \in dataset :
    /\ p # q => p.task # q.task
    /\ Lineages(p) \cap Lineages(q) # {} => Partition(p) = Partition(q)

\* A conflict is symmetric, and a record does not leak into itself.
LEMMA CompatibleStep ==
  ASSUME live \in Versions, Compatible, [Next]_vars
  PROVE  Compatible'
<1>1. CASE dataset' = dataset
  BY <1>1 DEF Compatible
<1>2. ASSUME NEW r, ~ Conflicts(r), dataset' = dataset \cup {r}
      PROVE  Compatible'
  <2>1. \A q \in dataset :
          /\ q.task # r.task
          /\ Lineages(q) \cap Lineages(r) # {} => Partition(q) = Partition(r)
    BY <1>2 DEF Conflicts
  <2>2. \A q \in dataset : Lineages(r) \cap Lineages(q) = Lineages(q) \cap Lineages(r)
    OBVIOUS
  <2>3. ASSUME NEW p \in dataset \cup {r}, NEW q \in dataset \cup {r}
        PROVE  /\ p # q => p.task # q.task
               /\ Lineages(p) \cap Lineages(q) # {} => Partition(p) = Partition(q)
    BY <2>1, <2>2 DEF Compatible
  <2>. QED BY <1>2, <2>3 DEF Compatible
<1>. QED BY <1>1, <1>2, DatasetStep

\* The program's records meet the assumption of the dataset component, so what
\* is proved of that component for any records holds of a dataset of them.
LEMMA RecordsSuitDatasets ==
  /\ [r \in Records |-> Partition(r)] \in [Records -> ED!Partitions]
  /\ {r \in Records : HasBlockingCode(r)} \subseteq Records
<1>1. \A r \in Records : Partition(r) \in ED!Partitions
  BY IngestionAssumption DEF Records, Partition, ED!Partitions, Partitions
<1>. QED BY <1>1

\* The two checks of append_records together are the dataset's own: a record
\* set against those that are there is the validation of them all.
LEMMA ChecksAreValidation ==
  ASSUME Ingestions, Compatible, NEW r \in Records
  PROVE  ~ HasBlockingCode(r) /\ ~ Conflicts(r) <=> ED!Admissible([records |-> dataset], {r})
<1>. DEFINE all == dataset \cup {r}
            part == [s \in Records |-> Partition(s)]
            lines == [s \in Records |-> Lineages(s)]
            keys == [s \in Records |-> {s.task}]
<1>1. all \subseteq Records
  BY RecordFields
<1>2. \A s \in all : part[s] = Partition(s) /\ lines[s] = Lineages(s) /\ keys[s] = {s.task}
  BY <1>1
<1>3. ED!Admissible([records |-> dataset], {r}) <=>
        /\ r \notin dataset
        /\ all \cap {s \in Records : HasBlockingCode(s)} = {}
        /\ \A a, b \in all : a # b => keys[a] \cap keys[b] = {}
        /\ \A a, b \in all : lines[a] \cap lines[b] # {} => part[a] = part[b]
  BY DEF ED!Admissible, ED!Valid, ED!NoDuplicates, ED!NoLeakage
<1>. HIDE DEF part, lines, keys
<1>4. ASSUME ~ HasBlockingCode(r), ~ Conflicts(r)
      PROVE  ED!Admissible([records |-> dataset], {r})
  <2>1. \A q \in dataset :
          /\ q.task # r.task
          /\ Lineages(q) \cap Lineages(r) # {} => Partition(q) = Partition(r)
    BY <1>4 DEF Conflicts
  <2>2. r \notin dataset
    BY <2>1
  <2>3. all \cap {s \in Records : HasBlockingCode(s)} = {}
    BY <1>4, RecordFields
  <2>4. ASSUME NEW a \in all, NEW b \in all
        PROVE  /\ a # b => a.task # b.task
               /\ Lineages(a) \cap Lineages(b) # {} => Partition(a) = Partition(b)
    <3>1. \A q \in dataset : Lineages(r) \cap Lineages(q) = Lineages(q) \cap Lineages(r)
      OBVIOUS
    <3>. QED BY <2>1, <3>1 DEF Compatible
  <2>5. \A a, b \in all : a # b => keys[a] \cap keys[b] = {}
    BY <1>2, <2>4
  <2>6. \A a, b \in all : lines[a] \cap lines[b] # {} => part[a] = part[b]
    BY <1>2, <2>4
  <2>. QED BY <1>3, <2>2, <2>3, <2>5, <2>6
<1>5. ASSUME ED!Admissible([records |-> dataset], {r})
      PROVE  ~ HasBlockingCode(r) /\ ~ Conflicts(r)
  <2>1. r \notin dataset /\ ~ HasBlockingCode(r)
    BY <1>3, <1>5
  <2>2. ASSUME NEW q \in dataset
        PROVE  /\ q.task # r.task
               /\ Lineages(q) \cap Lineages(r) # {} => Partition(q) = Partition(r)
    <3>1. q \in all /\ r \in all /\ q # r
      BY <2>1
    <3>2. keys[q] \cap keys[r] = {} /\ (lines[q] \cap lines[r] # {} => part[q] = part[r])
      BY <1>3, <1>5, <3>1
    <3>. QED BY <1>2, <3>1, <3>2
  <2>. QED BY <2>1, <2>2 DEF Conflicts
<1>. QED BY <1>4, <1>5

\* What an append lets in is admissible, and nothing else moves the dataset.
LEMMA AppendStep ==
  ASSUME live \in Versions, Ingestions, Compatible, [Next]_vars, dataset' # dataset
  PROVE  \E r \in dataset' : /\ dataset' = dataset \cup {r}
                             /\ ED!Admissible([records |-> dataset], {r})
<1>1. PICK m \in Submissions, x \in Profiles :
        /\ Made(m, x, live) /\ ~ HasBlockingCode(Ingested(m, x, live))
        /\ ~ Conflicts(Ingested(m, x, live))
        /\ dataset' = dataset \cup {Ingested(m, x, live)}
  BY DatasetStep
<1>2. Ingested(m, x, live) \in Records
  BY <1>1, IngestedFields
<1>3. ED!Admissible([records |-> dataset], {Ingested(m, x, live)})
  BY <1>1, <1>2, ChecksAreValidation
<1>. QED BY <1>1, <1>3

-----------------------------------------------------------------------------
Inv == live \in Versions /\ Ingestions /\ ReportIsCurrent /\ Compatible

LEMMA InitInv == Init => Inv /\ ReplayVouches
BY FS_EmptySet DEF Init, Inv, Ingestions, ReportIsCurrent, ReplayVouches, Versions, Compatible

LEMMA InvStep == Inv /\ [Next]_vars => Inv'
BY LiveStep, IngestionsStep, CurrentStep, CompatibleStep DEF Inv

(* For any manifests and runs: an ingested candidate has or had a file of   *)
(* its oracle's only if the manifest spells it with "./" or "//", or no     *)
(* checklet that would have listed it answered; and what its oracle         *)
(* overwrote was never given a determinate verdict.                         *)
THEOREM LeaksCaught == Spec => []LeaksAreCaught
<1>1. Inv => LeaksAreCaught
  BY LeaksAreSeen DEF Inv
<1>. QED BY <1>1, InitInv, InvStep, PTL DEF Spec

(* The region the decision rests on is the one the policy would waive.      *)
THEOREM LowRiskWaived == Spec => []LowRiskIsWaived
<1>1. Inv => LowRiskIsWaived
  BY RegionIsWaived DEF Inv
<1>. QED BY <1>1, InitInv, InvStep, PTL DEF Spec

(* How the sealed records' candidates did moves nothing of a report but     *)
(* which of them have a quality entry, and no entry of theirs shows a code. *)
THEOREM SealsKept == Spec => []SealedStaysSealed
<1>1. Inv => SealedStaysSealed
  BY SealsHold DEF Inv
<1>. QED BY <1>1, InitInv, InvStep, PTL DEF Spec

(* Only real tasks open the blocking gates.                                 *)
THEOREM RealTasksUnblock == Spec => []FixturesDoNotUnblock
<1>1. Inv => FixturesDoNotUnblock
  BY RealAlone DEF Inv
<1>. QED BY <1>1, InitInv, InvStep, PTL DEF Spec

(* What exit status 0 of a replay vouches for.                              *)
THEOREM ReplaysVouch == Spec => []ReplayVouches
<1>1. Inv /\ ReplayVouches /\ [Next]_vars => ReplayVouches'
  BY ReplayStep DEF Inv
<1>. QED BY <1>1, InitInv, InvStep, PTL DEF Spec

(* Nothing is appended that the dataset component would have refused: after *)
(* any history the records stay valid as a whole, no two of one task and no *)
(* lineage in two partitions.                                               *)
THEOREM AppendsAdmissible == Spec => AppendsAreAdmissible
<1>1. Inv /\ [Next]_vars =>
        [dataset' # dataset =>
           \E r \in dataset' : /\ dataset' = dataset \cup {r}
                               /\ ED!Admissible([records |-> dataset], {r})]_dataset
  BY AppendStep DEF Inv
<1>. QED BY <1>1, InitInv, InvStep, PTL DEF Spec, AppendsAreAdmissible

=============================================================================
