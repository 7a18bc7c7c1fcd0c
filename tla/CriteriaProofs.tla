--------------------------- MODULE CriteriaProofs ---------------------------
(***************************************************************************)
(* Criteria's invariants for any repositories, tasks, claims and texts.    *)
(* Each stage leaves what it answered, and what it answered it about: so   *)
(* the invariants become facts about the inspectors' operators, which the  *)
(* first half of the module states.                                        *)
(***************************************************************************)
EXTENDS Criteria, TLAPS

Submitted == phase # "edit"
Inspected == phase \in {"observed", "rated", "aborted", "labelled"}

\* What each stage left is still the answer about the artifact as submitted;
\* of the checklets' answers, those run_all did not replace by an error.
Answered(c) ==
  \A k \in Checklets : observed[k] \in {Observe(task, c, artifact)[k], ErrorObservation}

StagesInv ==
  /\ Submitted => /\ artifact.form \in Forms /\ artifact.dotted \in BOOLEAN
                  /\ artifact.base = base /\ artifact.overlay = overlay
  /\ Inspected => observed \in [Checklets -> Observations] /\ Answered(claims)
  /\ Rated => /\ Inspectable(artifact)
              /\ secondary = SharedLabels(task, Read)
  /\ phase = "labelled" => primary = AstLabels(task, AstBundle(artifact))

CriteriaInv == TypeOK /\ StagesInv

-----------------------------------------------------------------------------
(* What the inspectors answer.                                              *)

\* A checklet's answer about a readable artifact is one of five values.
LEMMA Observed ==
  ASSUME NEW t, NEW c, NEW b
  PROVE  /\ ObserveBundle(t, c, b) \in [Checklets -> Observations]
         /\ \A k \in Checklets :
              ObserveBundle(t, c, b)[k] \in
                {Clean, Medium, Abstention, [verdict |-> "finding", severity |-> "high"],
                 ErrorObservation}
<1>1. /\ Clean \in Observations /\ Medium \in Observations /\ Abstention \in Observations
      /\ [verdict |-> "finding", severity |-> "high"] \in Observations
      /\ ErrorObservation \in Observations
  BY DEF Clean, Medium, Abstention, ErrorObservation, Observations, Verdicts, Severities
<1>2. /\ RequirementCoverage(t, b) \in {Clean, Medium}
      /\ TestAdequacy(t, b) \in {Clean, Medium}
      /\ ChangeScope(t, c, b) \in {Clean, Medium, Abstention}
      /\ DependencyRisk(c, b) \in {Clean, [verdict |-> "finding", severity |-> "high"],
                                  ErrorObservation}
      /\ ErrorBoundary(t, c, b) \in {Clean, Medium}
  BY DEF RequirementCoverage, TestAdequacy, ChangeScope, DependencyRisk, AtRisk,
         ErrorBoundary, If
<1>3. QED BY <1>1, <1>2 DEF ObserveBundle, Checklets

LEMMA ObserveTyped ==
  ASSUME NEW t, NEW c, NEW a
  PROVE  Observe(t, c, a) \in [Checklets -> Observations]
<1>1. Clean \in Observations /\ ErrorObservation \in Observations
  BY DEF Clean, ErrorObservation, Observations, Verdicts, Severities
<1>2. QED BY <1>1, Observed DEF Observe

LEMMA SharedLabelsTyped ==
  ASSUME NEW t, NEW b
  PROVE  SharedLabels(t, b) \in [Checklets -> Labels]
BY DEF SharedLabels, ScopeLabel, Label, Labels, Checklets

LEMMA AstLabelsTyped ==
  ASSUME NEW t, NEW b
  PROVE  AstLabels(t, b) \in [Checklets -> Labels]
BY DEF AstLabels, ScopeLabel, Label, Labels, Checklets

-----------------------------------------------------------------------------
(* The stages.                                                              *)

LEMMA InitStages == Init => CriteriaInv
BY DEF Init, CriteriaInv, TypeOK, StagesInv, Submitted, Inspected, Rated, Empty, Range,
       GateStatuses

LEMMA EditKeeps ==
  ASSUME CriteriaInv, NEW p \in Paths, NEW s \in Sources \cup {Deleted}, Edit(p, s)
  PROVE  CriteriaInv'
<1>1. TypeOK /\ StagesInv /\ phase = "edit"
  BY DEF CriteriaInv, Edit
<1>2. /\ DOMAIN overlay' = DOMAIN overlay \cup {p}
      /\ \A q \in DOMAIN overlay' : overlay'[q] = IF q = p THEN s ELSE overlay[q]
  BY DEF Edit
<1>3. DOMAIN overlay' \subseteq Paths /\ Range(overlay') \subseteq Sources \cup {Deleted}
  BY <1>1, <1>2 DEF TypeOK, Range
<1>4. TypeOK'
  BY <1>1, <1>3 DEF TypeOK, Edit
<1>5. StagesInv'
  BY <1>1 DEF StagesInv, Submitted, Inspected, Rated, Edit
<1>6. QED BY <1>4, <1>5 DEF CriteriaInv

LEMMA SubmitKeeps ==
  ASSUME CriteriaInv, NEW form \in Forms, NEW dotted \in BOOLEAN, NEW text,
         SubmitAs(form, dotted, text)
  PROVE  CriteriaInv'
BY DEF CriteriaInv, TypeOK, StagesInv, Submitted, Inspected, Rated, SubmitAs, Step

LEMMA InspectKeeps == CriteriaInv /\ Inspect => CriteriaInv'
<1> SUFFICES ASSUME CriteriaInv, Inspect PROVE CriteriaInv'
  OBVIOUS
<1> DEFINE answers == Observe(task, claims, artifact)
<1>0. answers \in [Checklets -> Observations] /\ ErrorObservation \in Observations
  BY ObserveTyped DEF ErrorObservation, Observations, Verdicts, Severities
<1>1. PICK failed \in Failures :
        observed' = [k \in DOMAIN answers |-> IF k \in failed THEN ErrorObservation
                                              ELSE answers[k]]
  BY DEF Inspect
<1>2. UNCHANGED <<task, claims, artifact, base, overlay, secondary, primary>>
  BY DEF Inspect
<1> HIDE DEF answers
<1>3. /\ observed' \in [Checklets -> Observations]
      /\ \A k \in Checklets : observed'[k] \in {answers[k], ErrorObservation}
  BY <1>0, <1>1
<1>4. gate' \in GateStatuses
  BY DEF Inspect, Shape, GateStatuses
<1>5. TypeOK'
  BY <1>3, <1>4 DEF CriteriaInv, TypeOK, Inspect, Step
<1>6. Answered(claims)'
  BY <1>2, <1>3 DEF Answered, answers
<1>7. StagesInv'
  BY <1>3, <1>6 DEF CriteriaInv, StagesInv, Submitted, Inspected, Rated, Inspect, Step
<1>8. QED BY <1>5, <1>7 DEF CriteriaInv

LEMMA AdjudicateSharedKeeps == CriteriaInv /\ AdjudicateShared => CriteriaInv'
<1> SUFFICES ASSUME CriteriaInv, AdjudicateShared PROVE CriteriaInv'
  OBVIOUS
<1>1. secondary' \in [Checklets -> Labels]
  BY SharedLabelsTyped DEF AdjudicateShared
<1>2. TypeOK'
  BY <1>1 DEF CriteriaInv, TypeOK, AdjudicateShared, Step
<1>3. StagesInv'
  BY DEF CriteriaInv, StagesInv, Submitted, Inspected, Rated, Read, Answered,
         AdjudicateShared, Step
<1>4. QED BY <1>2, <1>3 DEF CriteriaInv

LEMMA AdjudicationRaisesKeeps == CriteriaInv /\ AdjudicationRaises => CriteriaInv'
BY DEF CriteriaInv, TypeOK, StagesInv, Submitted, Inspected, Rated, Answered,
       AdjudicationRaises, Step

LEMMA AdjudicateIndependentKeeps == CriteriaInv /\ AdjudicateIndependent => CriteriaInv'
<1> SUFFICES ASSUME CriteriaInv, AdjudicateIndependent PROVE CriteriaInv'
  OBVIOUS
<1>1. primary' \in [Checklets -> Labels]
  BY AstLabelsTyped DEF AdjudicateIndependent
<1>2. TypeOK'
  BY <1>1 DEF CriteriaInv, TypeOK, AdjudicateIndependent, Step
<1>3. StagesInv'
  BY DEF CriteriaInv, StagesInv, Submitted, Inspected, Rated, Read, Answered,
         AdjudicateIndependent, Step
<1>4. QED BY <1>2, <1>3 DEF CriteriaInv

LEMMA StutterKeeps == CriteriaInv /\ UNCHANGED vars => CriteriaInv'
<1> SUFFICES ASSUME CriteriaInv, UNCHANGED vars PROVE CriteriaInv'
  OBVIOUS
<1>1. TypeOK'
  BY DEF CriteriaInv, TypeOK, vars
<1>2. StagesInv'
  BY DEF CriteriaInv, StagesInv, Submitted, Inspected, Rated, Read, Answered, vars
<1>3. QED BY <1>1, <1>2 DEF CriteriaInv

LEMMA NextKeeps == CriteriaInv /\ [Next]_vars => CriteriaInv'
<1> SUFFICES ASSUME CriteriaInv, [Next]_vars PROVE CriteriaInv'
  OBVIOUS
<1>1. CASE \E p \in Paths : Rewrite(p) \/ Delete(p)
  <2>1. PICK p \in Paths : Rewrite(p) \/ Delete(p)
    BY <1>1
  <2>2. CASE Rewrite(p)
    <3>1. PICK s \in Versions[p] : Edit(p, s)
      BY <2>2 DEF Rewrite
    <3>2. s \in Sources
      BY <3>1 DEF Sources
    <3>3. QED BY <3>1, <3>2, EditKeeps
  <2>3. CASE Delete(p)
    BY <2>3, EditKeeps DEF Delete
  <2>4. QED BY <2>1, <2>2, <2>3
<1>2. CASE SubmitBundle
  <2>1. PICK d \in BOOLEAN : SubmitAs("bundle", d, DiffText(base, overlay))
    BY <1>2 DEF SubmitBundle
  <2>2. QED BY <2>1, SubmitKeeps DEF Forms
<1>3. CASE SubmitRefused
  BY <1>3, SubmitKeeps DEF SubmitRefused, Forms
<1>4. CASE SubmitDiff
  BY <1>4, SubmitKeeps DEF SubmitDiff, Forms
<1>5. CASE SubmitSnippet
  <2>1. PICK p \in DOMAIN overlay : SubmitAs("snippet", FALSE, overlay[p])
    BY <1>5 DEF SubmitSnippet
  <2>2. QED BY <2>1, SubmitKeeps DEF Forms
<1>6. QED BY <1>1, <1>2, <1>3, <1>4, <1>5, InspectKeeps, AdjudicateSharedKeeps,
             AdjudicationRaisesKeeps, AdjudicateIndependentKeeps, StutterKeeps DEF Next

LEMMA Stages == Spec => []CriteriaInv
BY InitStages, NextKeeps, PTL DEF Spec

(* At every stage the answers are for all five criteria and of the values   *)
(* the contracts enumerate, whatever the texts and the claims are.          *)
THEOREM CriteriaTyped == Spec => []TypeOK
<1>1. CriteriaInv => TypeOK
  BY DEF CriteriaInv
<1>2. QED BY <1>1, Stages, PTL

-----------------------------------------------------------------------------
(* Checklets against the shared rater, on one and the same bundle b.        *)

Alarm == [verdict |-> "finding", severity |-> "high"]

LEMMA AdequacyAgrees ==
  ASSUME NEW t, NEW b
  PROVE  TestAdequacy(t, b) = Medium <=> SharedLabels(t, b)["test_adequacy"] = "true"
<1>1. SharedLabels(t, b)["test_adequacy"]
        = Label(t.requirements # {}, \E r \in t.requirements : ~ TestsCover(r, b.patched))
  BY DEF SharedLabels
<1>2. Clean # Medium
  BY DEF Clean, Medium
<1>3. QED BY <1>1, <1>2 DEF TestAdequacy, If, Label

\* The checklet reads the changed files, the rater all of them: what is
\* missing from all is missing from the changed ones.
LEMMA CoverageMissed ==
  ASSUME NEW t, t.patterns = {}, NEW b,
         SharedLabels(t, b)["requirement_coverage"] = "true"
  PROVE  RequirementCoverage(t, b) = Medium
<1> DEFINE all == ProductionFiles(b.patched)
<1>1. SharedLabels(t, b)["requirement_coverage"]
        = Label(t.requirements # {},
                \E r \in t.requirements : ~ EvidencePresent(r, WordsIn(b.patched, all), {}))
  BY DEF SharedLabels
<1>2. PICK r \in t.requirements : ~ EvidencePresent(r, WordsIn(b.patched, all), {})
  BY <1>1 DEF Label
<1>3. WordsIn(b.patched, all \cap Changed(b)) \subseteq WordsIn(b.patched, all)
  BY DEF WordsIn
<1>4. ~ EvidencePresent(r, WordsIn(b.patched, all \cap Changed(b)), t.patterns)
  BY <1>2, <1>3 DEF EvidencePresent
<1>5. QED BY <1>4 DEF RequirementCoverage, If

LEMMA ScopeAgrees ==
  ASSUME NEW t, NEW c, NEW b, \A n \in Changed(b) : n.dotted = FALSE
  PROVE  /\ t.allowed # NoList =>
              (ChangeScope(t, c, b) = Medium <=> SharedLabels(t, b)["change_scope"] = "true")
         /\ Declared(t.allowed, c.allowed) = NoList =>
              (ChangeScope(t, c, b) = Abstention
                 <=> SharedLabels(t, b)["change_scope"] = "indeterminate")
         /\ t.allowed = NoList => SharedLabels(t, b)["change_scope"] # "true"
<1>1. SharedLabels(t, b)["change_scope"] = ScopeLabel(t, b)
  BY DEF SharedLabels
<1>2. Clean # Medium /\ Clean # Abstention /\ Medium # Abstention
  BY DEF Clean, Medium, Abstention
<1>3. QED BY <1>1, <1>2 DEF ChangeScope, ScopeLabel, Declared, If, Label

LEMMA BoundaryAgrees ==
  ASSUME NEW t, NEW c, NEW b
  PROVE  /\ t.cases # NoList =>
              (ErrorBoundary(t, c, b) = Medium
                 <=> SharedLabels(t, b)["error_boundary"] = "true")
         /\ t.cases = NoList => SharedLabels(t, b)["error_boundary"] # "true"
<1> DEFINE marks == UNION {b.patched[n].marks : n \in ProductionFiles(b.patched)}
<1>1. SharedLabels(t, b)["error_boundary"]
        = Label(t.cases \notin {NoList, {}}, ~ t.cases \subseteq marks)
  BY DEF SharedLabels
<1>2. Clean # Medium
  BY DEF Clean, Medium
<1>3. ErrorBoundary(t, c, b)
        = If(Declared(t.cases, c.cases) # NoList
             /\ ~ Declared(t.cases, c.cases) \subseteq marks, Medium)
  BY DEF ErrorBoundary
<1> HIDE DEF marks
<1>4. QED BY <1>1, <1>2, <1>3 DEF Declared, If, Label

\* The two readings of the dependency risk part over deleted files and *args.
LEMMA RiskAgrees ==
  ASSUME NEW b
  PROVE  LET shared == Label(\E n \in Parsed(b) : Altered(b, n) # {}, SharedRisk(b))
         IN  /\ AtRisk(b) = Alarm => shared = "true" \/ Removed(b) # {}
             /\ shared = "true" => AtRisk(b) = Alarm \/ TakesAny(b)
<1> DEFINE gone == \E n \in Removed(b) : \E s \in DOMAIN b.base[n].sigs : Stale(b, s, n) # {}
           risky(n, s) ==
             \/ Stale(b, s, n) # {}
             \/ /\ s \in DOMAIN b.patched[n].sigs
                /\ ~ b.patched[n].sigs[s].varargs
                /\ Misfit(b, s, n, b.patched[n].sigs[s])
           shared(n, s) ==
             \/ Stale(b, s, n) # {}
             \/ s \in DOMAIN b.patched[n].sigs /\ Misfit(b, s, n, b.patched[n].sigs[s])
<1>1. AtRisk(b) = IF gone \/ \E n \in Parsed(b) : \E s \in Altered(b, n) : risky(n, s)
                  THEN Alarm ELSE Clean
  BY DEF AtRisk, If, Alarm
<1>2. SharedRisk(b) <=> \E n \in Parsed(b) : \E s \in Altered(b, n) : shared(n, s)
  BY DEF SharedRisk
<1>3. gone => Removed(b) # {}
  OBVIOUS
<1>4. ASSUME NEW n \in Parsed(b), NEW s \in Altered(b, n)
      PROVE  /\ risky(n, s) => shared(n, s)
             /\ shared(n, s) => risky(n, s) \/ TakesAny(b)
  <2>1. n \in Rewritten(b)
    BY DEF Parsed
  <2>2. s \in DOMAIN b.patched[n].sigs =>
          b.patched[n].sigs[s] \in Range(b.patched[n].sigs)
    BY DEF Range
  <2>3. QED BY <2>1, <2>2 DEF TakesAny
<1>5. Clean # Alarm
  BY DEF Clean, Alarm
<1> HIDE DEF gone, risky, shared
<1>6. QED BY <1>1, <1>2, <1>3, <1>4, <1>5 DEF Label

-----------------------------------------------------------------------------
(* What is read out of an artifact.                                         *)

\* parse_coding_bundle leaves no "./" in a path.
LEMMA PathsNormalised ==
  ASSUME NEW a, a.form \in Forms, Inspectable(a), NEW claimed
  PROVE  \A n \in Changed(Bundle(a, claimed)) : n.dotted = FALSE
<1>1. CASE a.form = "bundle"
  BY <1>1 DEF Bundle, Changed, Spelled
<1>2. CASE a.form = "diff"
  BY <1>2 DEF Bundle, Changed, Name, Empty
<1>3. CASE a.form = "snippet"
  BY <1>3 DEF Bundle, Changed, Name, Empty
<1>4. QED BY <1>1, <1>2, <1>3 DEF Forms, Inspectable

\* Only a bare text is read with the producer's word for what changed.
LEMMA ClaimsUnread ==
  ASSUME NEW a, a.form \in Forms, Inspectable(a), a.form # "snippet", NEW x, NEW y
  PROVE  Bundle(a, x) = Bundle(a, y)
BY DEF Bundle, Forms, Inspectable

\* On a bundle with normalised paths the two parsers read the same files.
LEMMA ParsersAgree ==
  ASSUME NEW a, a.form = "bundle", a.dotted = FALSE, NEW claimed
  PROVE  AstBundle(a) = Bundle(a, claimed)
<1> DEFINE B == Spelled(a.base, FALSE)
           O == Spelled(a.overlay, FALSE)
           M == Overlaid(a.base, a.overlay)
           S == Spelled(M, FALSE)
<1>1. /\ DOMAIN B = {Name(p) : p \in DOMAIN a.base}
      /\ \A p \in DOMAIN a.base : B[Name(p)] = a.base[p]
  BY DEF Spelled, Name
<1>2. /\ DOMAIN O = {Name(p) : p \in DOMAIN a.overlay}
      /\ \A p \in DOMAIN a.overlay : O[Name(p)] = a.overlay[p]
  BY DEF Spelled, Name
<1>3. /\ DOMAIN S = {Name(p) : p \in DOMAIN M}
      /\ \A p \in DOMAIN M : S[Name(p)] = M[p]
      /\ S = [n \in DOMAIN S |-> S[n]]
  BY DEF Spelled, Name
<1>4. \A p, q : Name(p) = Name(q) => p = q
  BY DEF Name
<1>5. DOMAIN M = (DOMAIN a.base \ DOMAIN a.overlay)
                   \cup {p \in DOMAIN a.overlay : a.overlay[p] # Deleted}
  BY DEF Overlaid
<1>6. \A p \in DOMAIN M : M[p] = IF p \in DOMAIN a.overlay THEN a.overlay[p] ELSE a.base[p]
  BY DEF Overlaid
<1>7. DOMAIN Overlaid(B, O) = (DOMAIN B \ DOMAIN O) \cup {n \in DOMAIN O : O[n] # Deleted}
  BY DEF Overlaid
<1>8. \A n \in DOMAIN Overlaid(B, O) :
        Overlaid(B, O)[n] = IF n \in DOMAIN O THEN O[n] ELSE B[n]
  BY DEF Overlaid
<1>9. Overlaid(B, O) = [n \in DOMAIN Overlaid(B, O) |-> Overlaid(B, O)[n]]
  BY DEF Overlaid
<1> HIDE DEF B, O, M, S
<1>10. \A p : /\ Name(p) \in DOMAIN B <=> p \in DOMAIN a.base
              /\ Name(p) \in DOMAIN O <=> p \in DOMAIN a.overlay
              /\ Name(p) \in DOMAIN S <=> p \in DOMAIN M
  BY <1>1, <1>2, <1>3, <1>4
<1> DEFINE D == DOMAIN Overlaid(B, O)
<1>11. ASSUME NEW p PROVE Name(p) \in D <=> Name(p) \in DOMAIN S
  <2>1. Name(p) \in D <=> \/ p \in DOMAIN a.base /\ p \notin DOMAIN a.overlay
                          \/ p \in DOMAIN a.overlay /\ O[Name(p)] # Deleted
    BY <1>7, <1>10
  <2>2. p \in DOMAIN a.overlay => O[Name(p)] = a.overlay[p]
    BY <1>2
  <2>3. QED BY <2>1, <2>2, <1>5, <1>10
<1>12. D = DOMAIN S
  <2>1. \A n \in D : \E p : n = Name(p)
    BY <1>1, <1>2, <1>7
  <2>2. \A n \in DOMAIN S : \E p : n = Name(p)
    BY <1>3
  <2> HIDE DEF D
  <2>3. QED BY <2>1, <2>2, <1>11
<1>13. ASSUME NEW n \in DOMAIN S PROVE Overlaid(B, O)[n] = S[n]
  <2>1. PICK p \in DOMAIN M : n = Name(p)
    BY <1>3
  <2>2. S[n] = IF p \in DOMAIN a.overlay THEN a.overlay[p] ELSE a.base[p]
    BY <2>1, <1>3, <1>6
  <2>3. CASE p \in DOMAIN a.overlay
    BY <2>1, <2>2, <2>3, <1>2, <1>8, <1>10, <1>12
  <2>4. CASE p \notin DOMAIN a.overlay
    <3>1. p \in DOMAIN a.base
      BY <2>4, <1>5
    <3>2. QED BY <2>1, <2>2, <2>4, <3>1, <1>1, <1>8, <1>10, <1>12
  <2>5. QED BY <2>3, <2>4
<1>14. Overlaid(B, O) = S
  BY <1>3, <1>9, <1>12, <1>13
<1>15. QED BY <1>14 DEF AstBundle, Bundle, B, O, M, S

-----------------------------------------------------------------------------
(* The checklets and the shared rater.                                      *)

LEMMA ReadWhatWasRated ==
  ASSUME CriteriaInv, Rated
  PROVE  /\ \A k \in Checklets :
              observed[k] \in {ObserveBundle(task, claims, Read)[k], ErrorObservation}
         /\ secondary = SharedLabels(task, Read)
         /\ \A n \in Changed(Read) : n.dotted = FALSE
<1>1. /\ Answered(claims) /\ artifact.form \in Forms /\ Inspectable(artifact)
      /\ secondary = SharedLabels(task, Read)
  BY DEF CriteriaInv, StagesInv, Submitted, Inspected, Rated
<1>2. Observe(task, claims, artifact) = ObserveBundle(task, claims, Read)
  BY <1>1 DEF Observe, Read
<1>3. QED BY <1>1, <1>2, PathsNormalised DEF Answered, Read

\* What a checklet that did not err was asked, criterion by criterion.
LEMMA AnswersRead ==
  ASSUME CriteriaInv, Rated
  PROVE  /\ \/ observed["requirement_coverage"] = ErrorObservation
            \/ observed["requirement_coverage"] = RequirementCoverage(task, Read)
         /\ \/ observed["test_adequacy"] = ErrorObservation
            \/ observed["test_adequacy"] = TestAdequacy(task, Read)
         /\ \/ observed["change_scope"] = ErrorObservation
            \/ observed["change_scope"] = ChangeScope(task, claims, Read)
         /\ \/ observed["dependency_integration_risk"] = ErrorObservation
            \/ observed["dependency_integration_risk"] = AtRisk(Read)
         /\ \/ observed["error_boundary"] = ErrorObservation
            \/ observed["error_boundary"] = ErrorBoundary(task, claims, Read)
<1>1. \A k \in Checklets :
        observed[k] \in {ObserveBundle(task, claims, Read)[k], ErrorObservation}
  BY ReadWhatWasRated
<1>2. DependencyRisk(claims, Read) \in {AtRisk(Read), ErrorObservation}
  BY DEF DependencyRisk
<1>3. QED BY <1>1, <1>2 DEF ObserveBundle, Checklets

LEMMA Explained == CriteriaInv => DisagreementIsExplained
<1> SUFFICES ASSUME CriteriaInv, Rated
             PROVE  DisagreementIsExplained
  BY DEF DisagreementIsExplained
<1>1. /\ secondary = SharedLabels(task, Read)
      /\ \A n \in Changed(Read) : n.dotted = FALSE
  BY ReadWhatWasRated
<1>2. /\ \/ observed["requirement_coverage"] = ErrorObservation
         \/ observed["requirement_coverage"] = RequirementCoverage(task, Read)
      /\ \/ observed["test_adequacy"] = ErrorObservation
         \/ observed["test_adequacy"] = TestAdequacy(task, Read)
      /\ \/ observed["change_scope"] = ErrorObservation
         \/ observed["change_scope"] = ChangeScope(task, claims, Read)
      /\ \/ observed["dependency_integration_risk"] = ErrorObservation
         \/ observed["dependency_integration_risk"] = AtRisk(Read)
      /\ \/ observed["error_boundary"] = ErrorObservation
         \/ observed["error_boundary"] = ErrorBoundary(task, claims, Read)
  BY AnswersRead
<1>4. /\ TestAdequacy(task, Read) \in {Clean, Medium}
      /\ RequirementCoverage(task, Read) \in {Clean, Medium}
      /\ ErrorBoundary(task, claims, Read) \in {Clean, Medium}
      /\ AtRisk(Read) \in {Clean, Alarm}
      /\ ChangeScope(task, claims, Read) \in {Clean, Medium, Abstention}
  BY DEF TestAdequacy, RequirementCoverage, ErrorBoundary, AtRisk, ChangeScope, If, Alarm
<1>5. /\ Clean.verdict = "clean" /\ Medium.verdict = "finding"
      /\ Abstention.verdict = "abstain" /\ Alarm.verdict = "finding"
      /\ ErrorObservation.verdict = "error"
  BY DEF Clean, Medium, Abstention, Alarm, ErrorObservation
<1>6. Erred("test_adequacy")
        \/ (Found("test_adequacy") <=> secondary["test_adequacy"] = "true")
  BY <1>1, <1>2, <1>4, <1>5, AdequacyAgrees DEF Found, Erred
<1>7. secondary["requirement_coverage"] = "true" /\ task.patterns = {}
        => Found("requirement_coverage") \/ Erred("requirement_coverage")
  BY <1>1, <1>2, <1>5, CoverageMissed DEF Found, Erred
<1>8. task.allowed # NoList =>
        \/ Erred("change_scope")
        \/ Found("change_scope") <=> secondary["change_scope"] = "true"
  BY <1>1, <1>2, <1>4, <1>5, ScopeAgrees DEF Found, Erred
<1>9. Declared(task.allowed, claims.allowed) = NoList =>
        \/ Erred("change_scope")
        \/ observed["change_scope"].verdict = "abstain"
             <=> secondary["change_scope"] = "indeterminate"
  BY <1>1, <1>2, <1>4, <1>5, ScopeAgrees DEF Erred
<1>10. task.cases # NoList =>
         \/ Erred("error_boundary")
         \/ Found("error_boundary") <=> secondary["error_boundary"] = "true"
  BY <1>1, <1>2, <1>4, <1>5, BoundaryAgrees DEF Found, Erred
<1>11. secondary["dependency_integration_risk"]
         = Label(\E n \in Parsed(Read) : Altered(Read, n) # {}, SharedRisk(Read))
  BY <1>1 DEF SharedLabels
<1>12. /\ Found("dependency_integration_risk")
            => secondary["dependency_integration_risk"] = "true" \/ Removed(Read) # {}
       /\ secondary["dependency_integration_risk"] = "true"
            => \/ Found("dependency_integration_risk")
               \/ Erred("dependency_integration_risk")
               \/ TakesAny(Read)
  BY <1>2, <1>4, <1>5, <1>11, RiskAgrees DEF Found, Erred
<1>13. QED
  BY <1>6, <1>7, <1>8, <1>9, <1>10, <1>12 DEF DisagreementIsExplained

(* For any candidate, task, claims and failures: a checklet that answers    *)
(* and the shared label of its criterion part only over the inputs the code *)
(* gives one of them.                                                       *)
THEOREM CheckletsExplained == Spec => []DisagreementIsExplained
BY Stages, Explained, PTL

-----------------------------------------------------------------------------
(* The two raters.                                                          *)

\* What a requirement shows in the syntax tree it shows in the words, when no
\* file hides it.
LEMMA TreeIsStricter ==
  ASSUME NEW files, NEW r, \A n \in DOMAIN files : ~ Hides(files[n], r)
  PROVE  /\ CoveredByAst(r, files)
              => EvidencePresent(r, WordsIn(files, ProductionFiles(files)), {})
         /\ (\E n \in TestFiles(files) : r \in files[n].tested) => TestsCover(r, files)
<1>1. ProductionFiles(files) \subseteq DOMAIN files /\ TestFiles(files) \subseteq DOMAIN files
  BY DEF ProductionFiles, TestFiles
<1>2. \A n \in DOMAIN files :
        /\ WordsOf[r] \cap files[n].idents \subseteq files[n].words
        /\ r \in files[n].named => WordsOf[r] \subseteq files[n].words
        /\ r \in files[n].tested => WordsOf[r] \subseteq files[n].words /\ files[n].test
  BY DEF Hides
<1>3. ASSUME CoveredByAst(r, files)
      PROVE  WordsOf[r] \subseteq WordsIn(files, ProductionFiles(files))
  <2>1. CASE \E n \in ProductionFiles(files) : r \in files[n].named
    BY <2>1, <1>1, <1>2 DEF WordsIn
  <2>2. CASE WordsOf[r] \subseteq UNION {files[n].idents : n \in ProductionFiles(files)}
    BY <2>2, <1>1, <1>2 DEF WordsIn
  <2>3. QED BY <1>3, <2>1, <2>2 DEF CoveredByAst
<1>4. QED BY <1>1, <1>2, <1>3 DEF EvidencePresent, TestsCover

\* A bundle's files are texts of the domain.
LEMMA FilesAreSources ==
  ASSUME TypeOK, NEW claimed, artifact.form = "bundle",
         artifact.base = base, artifact.overlay = overlay
  PROVE  LET b == Bundle(artifact, claimed)
         IN  /\ \A n \in DOMAIN b.base : IsSource(b.base[n])
             /\ \A n \in DOMAIN b.patched : IsSource(b.patched[n])
<1> DEFINE b == Bundle(artifact, claimed)
<1>1. b = [base |-> Spelled(base, FALSE), patched |-> Spelled(Overlaid(base, overlay), FALSE)]
  BY DEF Bundle
<1>2. \A p \in DOMAIN base : base[p] \in Sources
  BY CriteriaAssumption DEF TypeOK, Range
<1>3. \A p \in DOMAIN overlay : overlay[p] # Deleted => overlay[p] \in Sources
  BY DEF TypeOK, Range
<1>4. \A p \in DOMAIN Overlaid(base, overlay) : Overlaid(base, overlay)[p] \in Sources
  BY <1>2, <1>3 DEF Overlaid
<1>5. /\ \A n \in DOMAIN b.base : b.base[n] \in Sources
      /\ \A n \in DOMAIN b.patched : b.patched[n] \in Sources
  BY <1>1, <1>2, <1>4 DEF Spelled
<1>6. \A s \in Sources : IsSource(s)
  BY BundleAssumption
<1>7. QED BY <1>5, <1>6

\* The tree's risk is a risk to the shared rater, if the rewritten file parses.
LEMMA TreeRiskIsLenient ==
  ASSUME NEW b, \A n \in DOMAIN b.base : IsSource(b.base[n]), AstRisk(b)
  PROVE  \/ SharedRisk(b) /\ \E n \in Parsed(b) : Altered(b, n) # {}
         \/ \E n \in Rewritten(b) : ~ b.patched[n].parses
<1>0. PICK n \in Rewritten(b) : \E s \in Altered(b, n) :
        \/ Stale(b, s, n) # {}
        \/ /\ s \in DOMAIN b.patched[n].sigs
           /\ \E m \in Callers(b.patched, s, n) : \E k \in b.patched[m].calls[s] :
                k < b.patched[n].sigs[s].required
  BY DEF AstRisk
<1>1. PICK s \in Altered(b, n) :
        \/ Stale(b, s, n) # {}
        \/ /\ s \in DOMAIN b.patched[n].sigs
           /\ \E m \in Callers(b.patched, s, n) : \E k \in b.patched[m].calls[s] :
                k < b.patched[n].sigs[s].required
  BY <1>0
<1>2. SUFFICES ASSUME b.patched[n].parses
               PROVE  SharedRisk(b) /\ \E i \in Parsed(b) : Altered(b, i) # {}
  OBVIOUS
<1>3. IsSource(b.base[n])
  BY DEF Rewritten
<1>4. b.base[n].parses
  BY <1>3 DEF IsSource, Altered
<1>5. n \in Parsed(b)
  BY <1>2, <1>4 DEF Parsed
<1>6. s \in DOMAIN b.patched[n].sigs /\ ~ (Stale(b, s, n) # {})
        => Misfit(b, s, n, b.patched[n].sigs[s])
  BY <1>1 DEF Misfit
<1>7. QED BY <1>1, <1>5, <1>6 DEF SharedRisk

LEMMA OneWay == CriteriaInv => RatersDifferOneWay
<1> SUFFICES ASSUME CriteriaInv, phase = "labelled",
                    artifact.form = "bundle", ~ artifact.dotted
             PROVE  RatersDifferOneWay
  BY DEF RatersDifferOneWay
<1> DEFINE b == Read
<1>1. /\ TypeOK /\ artifact.base = base /\ artifact.overlay = overlay
      /\ artifact.dotted = FALSE
  BY DEF CriteriaInv, StagesInv, Submitted
<1>2. secondary = SharedLabels(task, b) /\ primary = AstLabels(task, AstBundle(artifact))
  BY DEF CriteriaInv, StagesInv, Rated
<1>3. AstBundle(artifact) = b
  BY <1>1, ParsersAgree DEF Read
<1>4. /\ \A n \in DOMAIN b.base : IsSource(b.base[n])
      /\ \A n \in DOMAIN b.patched : IsSource(b.patched[n])
  BY <1>1, FilesAreSources DEF Read
<1> HIDE DEF b
<1>5. primary = AstLabels(task, b)
  BY <1>2, <1>3
<1> DEFINE hidden == \E n \in DOMAIN b.patched : \E r \in task.requirements :
                       Hides(b.patched[n], r)
<1>6. secondary["requirement_coverage"] = "true"
        => primary["requirement_coverage"] = "true" \/ hidden
  BY <1>2, <1>5, TreeIsStricter DEF SharedLabels, AstLabels, Label
<1>7. secondary["test_adequacy"] = "true" => primary["test_adequacy"] = "true" \/ hidden
  BY <1>2, <1>5, TreeIsStricter DEF SharedLabels, AstLabels, Label
<1>8. primary["change_scope"] = secondary["change_scope"]
  BY <1>2, <1>5 DEF SharedLabels, AstLabels
<1>9. primary["dependency_integration_risk"] = "true"
        => \/ secondary["dependency_integration_risk"] = "true"
           \/ \E n \in Rewritten(b) : ~ b.patched[n].parses
  BY <1>2, <1>4, <1>5, TreeRiskIsLenient DEF SharedLabels, AstLabels, Label
<1>10. QED BY <1>6, <1>7, <1>8, <1>9 DEF RatersDifferOneWay, b

(* For any bundle with normalised paths, the evaluation-grade labels are    *)
(* stricter than the secondary ones on coverage and tests where no file     *)
(* hides a requirement from its text, equal on scope, and more lenient on   *)
(* dependency risk where every rewritten file parses.                       *)
THEOREM RatersOneWay == Spec => []RatersDifferOneWay
BY Stages, OneWay, PTL

-----------------------------------------------------------------------------
(* The producer's word, and what the policy would waive.                    *)

LEMMA ClaimsMoved == CriteriaInv => ClaimsOnlySilence
<1> SUFFICES ASSUME CriteriaInv, Inspected,
                    artifact.form # "snippet", task.allowed # NoList, task.cases # NoList,
                    NEW k \in Checklets
             PROVE  Erred(k) \/ observed[k] = Observe(task, NoClaims, artifact)[k]
  BY DEF ClaimsOnlySilence, Inspected
<1>1. Answered(claims) /\ artifact.form \in Forms
  BY DEF CriteriaInv, StagesInv, Submitted, Inspected
<1>2. /\ Declared(task.allowed, claims.allowed) = Declared(task.allowed, NoClaims.allowed)
      /\ Declared(task.cases, claims.cases) = Declared(task.cases, NoClaims.cases)
  BY DEF Declared
<1>3. Idle(task, claims) = Idle(task, NoClaims)
  BY <1>2 DEF Idle
<1>4. \A b : \/ ObserveBundle(task, claims, b)[k] = ErrorObservation
             \/ ObserveBundle(task, claims, b)[k] = ObserveBundle(task, NoClaims, b)[k]
  <2>1. \A b : /\ ChangeScope(task, claims, b) = ChangeScope(task, NoClaims, b)
               /\ ErrorBoundary(task, claims, b) = ErrorBoundary(task, NoClaims, b)
               /\ \/ DependencyRisk(claims, b) = ErrorObservation
                  \/ DependencyRisk(claims, b) = DependencyRisk(NoClaims, b)
    BY <1>2 DEF ChangeScope, ErrorBoundary, DependencyRisk, NoClaims
  <2>2. QED BY <2>1 DEF ObserveBundle, Checklets
<1>5. Inspectable(artifact) =>
        Bundle(artifact, claims.changed) = Bundle(artifact, NoClaims.changed)
  BY <1>1, ClaimsUnread
<1>6. \/ Observe(task, claims, artifact)[k] = ErrorObservation
      \/ Observe(task, claims, artifact)[k] = Observe(task, NoClaims, artifact)[k]
  BY <1>3, <1>4, <1>5 DEF Observe
<1>7. QED BY <1>1, <1>6 DEF Answered, Erred, ErrorObservation

(* For any claims and failures: once the task declares a scope and boundary *)
(* cases, the producer's claims can silence a checklet about a bundle or a  *)
(* diff, and never change what it answers.                                  *)
THEOREM ClaimsSilence == Spec => []ClaimsOnlySilence
BY Stages, ClaimsMoved, PTL

\* The permissive rule fires only when no checklet erred, abstained or found.
LEMMA PermissiveRule ==
  ASSUME NEW gates, NEW obs, Assess(gates, obs).action = "would_waive"
  PROVE  /\ ~ HasVerdict(obs, "error") /\ ~ HasVerdict(obs, "abstain")
         /\ ~ Finding(obs, {"high", "critical"}) /\ ~ Finding(obs, {"medium"})
<1>1. Reason(gates, obs) = "no_shadow_escalation_rule_triggered"
  BY DEF Assess
<1>2. QED BY <1>1 DEF Reason

LEMMA Waived == CriteriaInv => WaivedIsLabelledClean
<1> SUFFICES ASSUME CriteriaInv, phase # "edit", phase # "submitted",
                    Assess({gate}, Range(observed)).action = "would_waive"
             PROVE  WaivedIsLabelledClean
  BY DEF WaivedIsLabelledClean
<1>1. Answered(claims)
  BY DEF CriteriaInv, TypeOK, StagesInv, Inspected
<1>2. observed \in [Checklets -> Observations]
  BY DEF CriteriaInv, TypeOK, StagesInv, Inspected
<1>3. \A k \in Checklets : observed[k] \in Range(observed)
  BY <1>2 DEF Range
<1>4. \A k \in Checklets : /\ observed[k].verdict # "error"
                           /\ observed[k] # Medium /\ observed[k] # Alarm
  BY <1>3, PermissiveRule DEF HasVerdict, Finding, Medium, Alarm
<1>5. Inspectable(artifact)
  <2>1. SUFFICES ASSUME ~ Inspectable(artifact) PROVE FALSE
    OBVIOUS
  <2>2. "change_scope" \in Checklets /\ "change_scope" \notin Idle(task, claims)
    BY DEF Checklets, Idle
  <2>3. observed["change_scope"] = ErrorObservation
    BY <1>1, <2>1, <2>2 DEF Observe, Answered
  <2>4. QED BY <1>4, <2>2, <2>3 DEF ErrorObservation
<1>6. ASSUME Rated, NEW k \in Checklets, secondary[k] = "true"
      PROVE  \/ k = "requirement_coverage" /\ task.patterns # {}
             \/ k = "dependency_integration_risk" /\ TakesAny(Read)
  <2>1. /\ secondary = SharedLabels(task, Read)
        /\ \A n \in Changed(Read) : n.dotted = FALSE
    BY <1>6, ReadWhatWasRated
  <2>2. /\ observed["requirement_coverage"] = RequirementCoverage(task, Read)
        /\ observed["test_adequacy"] = TestAdequacy(task, Read)
        /\ observed["change_scope"] = ChangeScope(task, claims, Read)
        /\ observed["dependency_integration_risk"] = AtRisk(Read)
        /\ observed["error_boundary"] = ErrorBoundary(task, claims, Read)
    <3>1. \A j \in Checklets : observed[j] # ErrorObservation
      BY <1>4 DEF ErrorObservation
    <3>2. QED BY <1>6, <3>1, AnswersRead DEF Checklets
  <2>3. CASE k = "requirement_coverage"
    BY <1>4, <1>6, <2>1, <2>2, <2>3, CoverageMissed
  <2>4. CASE k = "test_adequacy"
    BY <1>4, <1>6, <2>1, <2>2, <2>4, AdequacyAgrees
  <2>5. CASE k = "change_scope"
    BY <1>4, <1>6, <2>1, <2>2, <2>5, ScopeAgrees
  <2>6. CASE k = "dependency_integration_risk"
    <3>1. secondary["dependency_integration_risk"]
            = Label(\E n \in Parsed(Read) : Altered(Read, n) # {}, SharedRisk(Read))
      BY <2>1 DEF SharedLabels
    <3>2. QED BY <1>4, <1>6, <2>2, <2>6, <3>1, RiskAgrees
  <2>7. CASE k = "error_boundary"
    BY <1>4, <1>6, <2>1, <2>2, <2>7, BoundaryAgrees
  <2>8. QED BY <2>3, <2>4, <2>5, <2>6, <2>7 DEF Checklets
<1>7. QED BY <1>5, <1>6 DEF WaivedIsLabelledClean

(* For any candidate: what the shadow policy would waive was inspectable,   *)
(* and carries no label of a defect but in its checklets' two blind spots.  *)
THEOREM WaivedClean == Spec => []WaivedIsLabelledClean
BY Stages, Waived, PTL

=============================================================================
