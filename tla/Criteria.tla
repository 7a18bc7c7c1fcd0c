------------------------------ MODULE Criteria ------------------------------
(***************************************************************************)
(* One candidate against the five coding criteria.  A producer changes     *)
(* files of a repository and submits them; the gate and the five checklets *)
(* (checklets.py) look at the artifact and at what the producer claims;    *)
(* then two adjudicators label the same criteria, blind: the shared one    *)
(* (adjudication.py), with the checklets' own primitives, and the          *)
(* independent one (independent_adjudication.py), with its own parser and  *)
(* syntax tree, whose labels are the evaluation grade.                     *)
(***************************************************************************)
EXTENDS CodingBundle, ShadowPolicy

CONSTANTS
  Repositories,  \* base trees: functions from paths to texts
  Tasks,         \* [requirements, patterns, allowed, cases]
  Claims,        \* artifact metadata: [allowed, cases, changed, malformed]
  NoList,        \* a metadata entry that is absent, or no list
  Failures       \* sets of checklets that may fail in one run, see Inspect

Checklets == {"requirement_coverage", "test_adequacy", "change_scope",
              "dependency_integration_risk", "error_boundary"}
Labels    == {"true", "false", "indeterminate", "not_applicable"}

ASSUME CriteriaAssumption ==
  /\ \A t \in Tasks : /\ t.requirements \subseteq Requirements
                      /\ t.patterns \subseteq Words
                      /\ t.allowed \in SUBSET Paths \cup {NoList}
                      /\ t.cases \in SUBSET Cases \cup {NoList}
  /\ \A c \in Claims : /\ c.allowed \in SUBSET Paths \cup {NoList}
                       /\ c.cases \in SUBSET Cases \cup {NoList}
                       /\ c.changed \in SUBSET Paths \cup {NoList}
                       /\ c.malformed \in BOOLEAN
  /\ \A r \in Repositories : DOMAIN r \subseteq Paths /\ Range(r) \subseteq Sources
  /\ Failures \subseteq SUBSET Checklets

VARIABLES phase, base, overlay, task, claims, artifact, gate, observed, secondary, primary
vars == <<phase, base, overlay, task, claims, artifact, gate, observed, secondary, primary>>

-----------------------------------------------------------------------------
(* Primitives of bundle.py the checklets share with the shared adjudicator. *)

WordsIn(files, names)  == UNION {files[n].words : n \in names}
ProductionFiles(files) == {n \in DOMAIN files : ~ IsTest(n)}
TestFiles(files)       == {n \in DOMAIN files : IsTest(n)}

\* requirement_evidence_present: any pattern if there are some, else all words.
EvidencePresent(r, words, patterns) ==
  IF patterns # {} THEN patterns \cap words # {} ELSE WordsOf[r] \subseteq words

\* tests_covering_requirement: one test file with test functions and the words.
TestsCover(r, files) ==
  \E n \in TestFiles(files) : files[n].test /\ EvidencePresent(r, files[n].words, {})

\* Files that call s, other than n itself.
Callers(files, s, n) ==
  {m \in ProductionFiles(files) \ {n} : s \in DOMAIN files[m].calls /\ files[m].calls[s] # {}}

Stale(b, s, n) == Callers(b.patched, s, n) \ Changed(b)

Misfit(b, s, n, sig) ==
  \E m \in Callers(b.patched, s, n) : \E k \in b.patched[m].calls[s] :
    k < sig.required \/ k > sig.max

Rewritten(b) == ProductionFiles(b.patched) \cap DOMAIN b.base \cap Changed(b)
Removed(b)   == ProductionFiles(b.base) \ DOMAIN b.patched

\* Public symbols that are gone from n, or need another number of arguments.
Altered(b, n) ==
  LET old == b.base[n].sigs  new == b.patched[n].sigs
  IN  {s \in DOMAIN old : s \notin DOMAIN new \/ new[s].required # old[s].required}

Parsed(b) == {n \in Rewritten(b) : b.base[n].parses /\ b.patched[n].parses}

-----------------------------------------------------------------------------
(* The checklets.                                                           *)

Clean      == [verdict |-> "clean", severity |-> "info"]
Medium     == [verdict |-> "finding", severity |-> "medium"]
Abstention == [verdict |-> "abstain", severity |-> "medium"]
If(cond, finding) == IF cond THEN finding ELSE Clean

\* Task metadata first; the artifact's own metadata when the task is silent.
Declared(ofTask, ofClaims) == IF ofTask # NoList THEN ofTask ELSE ofClaims

RequirementCoverage(t, b) ==
  LET text == WordsIn(b.patched, ProductionFiles(b.patched) \cap Changed(b))
  IN  If(\E r \in t.requirements : ~ EvidencePresent(r, text, t.patterns), Medium)

TestAdequacy(t, b) == If(\E r \in t.requirements : ~ TestsCover(r, b.patched), Medium)

\* Mutant: a scope the producer claims takes the place of the task's.
ChangeScopeClaimsFirst(t, c, b) ==
  LET allowed == Declared(c.allowed, t.allowed)
  IN  IF allowed = NoList
      THEN If(Changed(b) # {}, Abstention)
      ELSE If(\E n \in Changed(b) : n.path \notin allowed, Medium)

ChangeScope(t, c, b) ==
  LET allowed == Declared(t.allowed, c.allowed)
  IN  IF allowed = NoList
      THEN If(Changed(b) # {}, Abstention)
      ELSE If(\E n \in Changed(b) : n.path \notin allowed, Medium)

AtRisk(b) ==
  If(\/ \E n \in Removed(b) : \E s \in DOMAIN b.base[n].sigs : Stale(b, s, n) # {}
     \/ \E n \in Parsed(b) : \E s \in Altered(b, n) :
          LET new == b.patched[n].sigs
          IN  \/ Stale(b, s, n) # {}
              \/ s \in DOMAIN new /\ ~ new[s].varargs /\ Misfit(b, s, n, new[s]),
     [verdict |-> "finding", severity |-> "high"])

\* The producer's signature_changes is copied into the evidence: list() of a
\* claim that is set and cannot be iterated (malformed) raises.
DependencyRisk(c, b) == IF c.malformed THEN ErrorObservation ELSE AtRisk(b)

ErrorBoundary(t, c, b) ==
  LET cases == Declared(t.cases, c.cases)
      marks == UNION {b.patched[n].marks : n \in ProductionFiles(b.patched)}
  IN  If(cases # NoList /\ ~ cases \subseteq marks, Medium)

ObserveBundle(t, c, b) ==
  [requirement_coverage        |-> RequirementCoverage(t, b),
   test_adequacy               |-> TestAdequacy(t, b),
   change_scope                |-> ChangeScope(t, c, b),
   dependency_integration_risk |-> DependencyRisk(c, b),
   error_boundary              |-> ErrorBoundary(t, c, b)]

\* Checklets that have nothing to look for and answer before they parse.
Idle(t, c) ==
  {k \in {"requirement_coverage", "test_adequacy"} : t.requirements = {}}
  \cup {k \in {"error_boundary"} : Declared(t.cases, c.cases) \in {NoList, {}}}

\* Mutant: a checklet that cannot read the artifact is left out.
ObserveSkipsRefused(t, c, a) ==
  IF Inspectable(a) THEN ObserveBundle(t, c, Bundle(a, c.changed))
  ELSE [k \in Idle(t, c) |-> Clean]

\* Each of the others parses the artifact itself; a refused artifact is an
\* exception, which the registry reports as an error.
Observe(t, c, a) ==
  IF Inspectable(a) THEN ObserveBundle(t, c, Bundle(a, c.changed))
  ELSE [k \in Checklets |-> IF k \in Idle(t, c) THEN Clean ELSE ErrorObservation]

\* MetadataShapeGate: inspectable, or at least declaring what it changed.
Shape(c, a) == IF Inspectable(a) \/ c.changed # NoList THEN "pass" ELSE "error"

-----------------------------------------------------------------------------
(* The labels: is the criterion's defect present?                           *)

Label(applies, defect) ==
  IF ~ applies THEN "not_applicable" ELSE IF defect THEN "true" ELSE "false"

ScopeLabel(t, b) ==
  IF t.allowed = NoList
  THEN IF Changed(b) # {} THEN "indeterminate" ELSE "not_applicable"
  ELSE Label(TRUE, \E n \in Changed(b) : n.dotted \/ n.path \notin t.allowed)

\* Mutant: a caller that passes one argument too many is not counted.
SharedRiskLenient(b) ==
  \E n \in Parsed(b) : \E s \in Altered(b, n) :
    LET new == b.patched[n].sigs
    IN  \/ Stale(b, s, n) # {}
        \/ s \in DOMAIN new /\ Misfit(b, s, n, [new[s] EXCEPT !.max = @ + 1])

\* _inspect_dependency_risk.  Deleted files are passed over, and *args is not
\* looked at: a call with more arguments than there are names is risky.
SharedRisk(b) ==
  \E n \in Parsed(b) : \E s \in Altered(b, n) :
    LET new == b.patched[n].sigs
    IN  \/ Stale(b, s, n) # {}
        \/ s \in DOMAIN new /\ Misfit(b, s, n, new[s])

\* adjudicate_bundle.
SharedLabels(t, b) ==
  [requirement_coverage |-> Label(t.requirements # {},
     \E r \in t.requirements : ~ EvidencePresent(r, WordsIn(b.patched, ProductionFiles(b.patched)), {})),
   test_adequacy |-> Label(t.requirements # {}, \E r \in t.requirements : ~ TestsCover(r, b.patched)),
   change_scope |-> ScopeLabel(t, b),
   dependency_integration_risk |->
     Label(\E n \in Parsed(b) : Altered(b, n) # {}, SharedRisk(b)),
   error_boundary |-> Label(t.cases \notin {NoList, {}},
     ~ t.cases \subseteq UNION {b.patched[n].marks : n \in ProductionFiles(b.patched)})]

\* Mutant: any of the words will do.
CoveredByAnyWord(r, files) ==
  \/ \E n \in ProductionFiles(files) : r \in files[n].named
  \/ WordsOf[r] \cap UNION {files[n].idents : n \in ProductionFiles(files)} # {}

\* _requirement_covered_by_ast: a function of that name, or all words as identifiers.
CoveredByAst(r, files) ==
  \/ \E n \in ProductionFiles(files) : r \in files[n].named
  \/ r \notin Short /\ WordsOf[r] \subseteq UNION {files[n].idents : n \in ProductionFiles(files)}

\* _inspect_dependency: a text that does not parse has no public functions.
AstRisk(b) ==
  LET callsShort(s, n, sig) ==
        \E m \in Callers(b.patched, s, n) : \E k \in b.patched[m].calls[s] : k < sig.required
  IN  \E n \in Rewritten(b) : \E s \in Altered(b, n) :
        LET new == b.patched[n].sigs
        IN  \/ Stale(b, s, n) # {}
            \/ s \in DOMAIN new /\ callsShort(s, n, new[s])

\* The production files are joined before they are parsed: one that does not
\* parse hides what all the others handle.
HandledByAst(files) ==
  IF \A n \in ProductionFiles(files) : files[n].parses
  THEN UNION {files[n].handles : n \in ProductionFiles(files)} ELSE {}

\* independent_adjudicate_artifact_bytes.
AstLabels(t, b) ==
  [requirement_coverage |-> Label(t.requirements # {},
     \E r \in t.requirements : ~ CoveredByAst(r, b.patched)),
   test_adequacy |-> Label(t.requirements # {},
     \E r \in t.requirements : \A n \in TestFiles(b.patched) : r \notin b.patched[n].tested),
   change_scope |-> ScopeLabel(t, b),
   dependency_integration_risk |->
     Label(\E n \in Rewritten(b) : Altered(b, n) # {}, AstRisk(b)),
   error_boundary |-> Label(t.cases \notin {NoList, {}}, ~ t.cases \subseteq HandledByAst(b.patched))]

-----------------------------------------------------------------------------
(* The producer's work, and what becomes of it.                             *)

NoClaims   == [allowed |-> NoList, cases |-> NoList, changed |-> NoList,
               malformed |-> FALSE]
NoArtifact == [form |-> "none", base |-> Empty, overlay |-> Empty, dotted |-> FALSE,
               text |-> DiffText(Empty, Empty)]

Init ==
  /\ phase = "edit" /\ base \in Repositories /\ overlay = Empty
  /\ task \in Tasks /\ claims = NoClaims /\ artifact = NoArtifact
  /\ gate = "error" /\ observed = Empty /\ secondary = Empty /\ primary = Empty

Step(from, to) == phase = from /\ phase' = to

Edit(p, s) ==
  /\ phase = "edit" /\ p \notin DOMAIN overlay
  /\ overlay' = [q \in DOMAIN overlay \cup {p} |-> IF q = p THEN s ELSE overlay[q]]
  /\ UNCHANGED <<phase, base, task, claims, artifact, gate, observed, secondary, primary>>

Rewrite(p) == \E s \in Versions[p] : Edit(p, s)
Delete(p)  == p \in DOMAIN base /\ Edit(p, Deleted)

SubmitAs(form, dotted, text) ==
  /\ Step("edit", "submitted")
  /\ artifact' = [form |-> form, base |-> base, overlay |-> overlay,
                  dotted |-> dotted, text |-> text]
  /\ claims' \in Claims
  /\ UNCHANGED <<base, overlay, task, gate, observed, secondary, primary>>

SubmitBundle  == \E d \in BOOLEAN : SubmitAs("bundle", d, DiffText(base, overlay))
SubmitRefused == SubmitAs("refused", FALSE, DiffText(base, overlay))
SubmitDiff    == overlay # Empty /\ SubmitAs("diff", FALSE, DiffText(base, overlay))
SubmitSnippet == \E p \in DOMAIN overlay :
                   overlay[p] # Deleted /\ SubmitAs("snippet", FALSE, overlay[p])

\* VerificationRunner.run: the pack's one gate, then its five checklets, each
\* in a process of its own.  run_all reports as an error a checklet it could
\* not send the artifact to (its size, what its metadata holds), that ran out
\* of time, that raised or that died, whatever it would have answered.
Inspect ==
  /\ Step("submitted", "observed")
  /\ gate' = Shape(claims, artifact)
  /\ \E failed \in Failures :
       LET answers == Observe(task, claims, artifact)
       IN  observed' = [k \in DOMAIN answers |->
                          IF k \in failed THEN ErrorObservation ELSE answers[k]]
  /\ UNCHANGED <<base, overlay, task, claims, artifact, secondary, primary>>

AdjudicateShared ==
  /\ Step("observed", "rated")
  /\ Inspectable(artifact)
  /\ secondary' = SharedLabels(task, Bundle(artifact, claims.changed))
  /\ UNCHANGED <<base, overlay, task, claims, artifact, gate, observed, primary>>

\* adjudicate_artifact_bytes parses without a try: no label of any kind.
AdjudicationRaises ==
  /\ Step("observed", "aborted")
  /\ ~ Inspectable(artifact)
  /\ UNCHANGED <<base, overlay, task, claims, artifact, gate, observed, secondary, primary>>

AdjudicateIndependent ==
  /\ Step("rated", "labelled")
  /\ primary' = AstLabels(task, AstBundle(artifact))
  /\ UNCHANGED <<base, overlay, task, claims, artifact, gate, observed, secondary>>

Next ==
  \/ \E p \in Paths : Rewrite(p) \/ Delete(p)
  \/ SubmitBundle \/ SubmitRefused \/ SubmitDiff \/ SubmitSnippet
  \/ Inspect \/ AdjudicateShared \/ AdjudicationRaises \/ AdjudicateIndependent

Spec == Init /\ [][Next]_vars

-----------------------------------------------------------------------------
(* Properties.                                                              *)

(* Every stage answers for all five criteria, with the values contracts.py  *)
(* and evidence.py enumerate, and leaves the artifact alone.                *)
TypeOK ==
  /\ phase \in {"edit", "submitted", "observed", "rated", "aborted", "labelled"}
  /\ base \in Repositories /\ task \in Tasks /\ claims \in Claims \cup {NoClaims}
  /\ DOMAIN overlay \subseteq Paths /\ Range(overlay) \subseteq Sources \cup {Deleted}
  /\ artifact = NoArtifact \/ artifact.form \in Forms
  /\ gate \in GateStatuses
  /\ observed = Empty \/ observed \in [Checklets -> Observations]
  /\ secondary = Empty \/ secondary \in [Checklets -> Labels]
  /\ primary = Empty \/ primary \in [Checklets -> Labels]

Found(k) == observed[k].verdict = "finding"
Erred(k) == observed[k].verdict = "error"
Rated    == phase \in {"rated", "labelled"}
Read     == Bundle(artifact, claims.changed)

\* Some rewritten file has a function that takes any number of arguments.
TakesAny(b) == \E n \in Rewritten(b) : \E g \in Range(b.patched[n].sigs) : g.varargs

(* A checklet that answers and the shared label of its criterion speak      *)
(* about the same defect in the same files: they part only where the code   *)
(* gives them different inputs.  Test adequacy never; scope and boundary    *)
(* only when the task is silent; coverage only over evidence outside the    *)
(* change, or under the task's own patterns; dependency risk over a deleted *)
(* file or *args.  Each gap is a false positive or a miss in the criterion  *)
(* metrics that is no fault of the checklet; so is every answer run_all had *)
(* to replace by an error, which labels of TRUE and FALSE may stand beside. *)
DisagreementIsExplained ==
  Rated =>
    /\ Erred("test_adequacy")
         \/ (Found("test_adequacy") <=> secondary["test_adequacy"] = "true")
    /\ secondary["requirement_coverage"] = "true" /\ task.patterns = {}
         => Found("requirement_coverage") \/ Erred("requirement_coverage")
    /\ task.allowed # NoList =>
         \/ Erred("change_scope")
         \/ Found("change_scope") <=> secondary["change_scope"] = "true"
    /\ Declared(task.allowed, claims.allowed) = NoList =>
         \/ Erred("change_scope")
         \/ observed["change_scope"].verdict = "abstain"
              <=> secondary["change_scope"] = "indeterminate"
    /\ task.cases # NoList =>
         \/ Erred("error_boundary")
         \/ Found("error_boundary") <=> secondary["error_boundary"] = "true"
    /\ Found("dependency_integration_risk")
         => secondary["dependency_integration_risk"] = "true" \/ Removed(Read) # {}
    /\ secondary["dependency_integration_risk"] = "true"
         => \/ Found("dependency_integration_risk") \/ Erred("dependency_integration_risk")
            \/ TakesAny(Read)

(* The evaluation-grade labels against the secondary ones, on a bundle with *)
(* normalised paths: on coverage and tests the syntax tree is stricter,     *)
(* unless a file shows a requirement in its tree and hides it from the text *)
(* (Hides), on scope they agree, and on dependency risk it is more lenient  *)
(* unless a rewritten file no longer parses, which the shared rater passes  *)
(* over and the tree reads as all its functions being gone.                 *)
RatersDifferOneWay ==
  phase = "labelled" /\ artifact.form = "bundle" /\ ~ artifact.dotted =>
    /\ \A k \in {"requirement_coverage", "test_adequacy"} :
         secondary[k] = "true" =>
           \/ primary[k] = "true"
           \/ \E n \in DOMAIN Read.patched : \E r \in task.requirements :
                Hides(Read.patched[n], r)
    /\ primary["change_scope"] = secondary["change_scope"]
    /\ primary["dependency_integration_risk"] = "true"
         => \/ secondary["dependency_integration_risk"] = "true"
            \/ \E n \in Rewritten(Read) : ~ Read.patched[n].parses

(* "producer metadata is a claim to inspect, not ground truth"              *)
(* (v1-shadow-verification.md): once the task declares a scope and boundary *)
(* cases, what the producer claims can silence a checklet about a bundle or *)
(* a diff (an error: the claim does not fit the transport, or is no list),  *)
(* but never give it another answer.  When the task is silent the code does *)
(* take the producer's word.                                                *)
ClaimsOnlySilence ==
  /\ phase \in {"observed", "rated", "labelled", "aborted"}
  /\ artifact.form # "snippet" /\ task.allowed # NoList /\ task.cases # NoList
  => \A k \in Checklets :
       Erred(k) \/ observed[k] = Observe(task, NoClaims, artifact)[k]

(* What the shadow policy would waive was inspectable, and the shared rater *)
(* knows of no defect in it beyond the two blind spots of its checklets.    *)
WaivedIsLabelledClean ==
  (phase # "edit" /\ phase # "submitted"
   /\ Assess({gate}, Range(observed)).action = "would_waive")
  => /\ Inspectable(artifact)
     /\ Rated => \A k \in Checklets : secondary[k] = "true" =>
          \/ k = "requirement_coverage" /\ task.patterns # {}
          \/ k = "dependency_integration_risk" /\ TakesAny(Read)

=============================================================================
