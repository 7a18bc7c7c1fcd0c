------------------------------ MODULE MCEvidence ------------------------------
(***************************************************************************)
(* Two checklets, of which change_scope lists changed paths and            *)
(* test_adequacy tests; three operational tasks in two repositories and a  *)
(* holdout task, whose family one of the three shares from the other       *)
(* repository, and whose text another does; the first is offered as a real *)
(* task and as a fixture.  Thresholds so low that every decision is        *)
(* reached.                                                                *)
(***************************************************************************)
EXTENDS EvidencePipeline, TLC

CONSTANTS a, b, c, h

Group(r, f, s, t, p) ==
  [repository |-> r, family |-> f, size |-> s, text |-> t, partition |-> p]

MCGroupOf ==
  (a :> Group("r1", "f1", "small", "t1", "development")) @@
  (b :> Group("r2", "f2", "large", "t2", "policy_selection")) @@
  (c :> Group("r1", "f3", "small", "t3", "development")) @@
  (h :> Group("r2", "f3", "large", "t1", "holdout"))

Plain(t) == [task |-> t, origin |-> "real_live", labelled |-> FALSE, named |-> FALSE,
             coding |-> TRUE, inspectable |-> TRUE, oracle |-> "files", touch |-> "apart",
             spelling |-> "plain", lists |-> {}, overwritten |-> FALSE, blank |-> FALSE]

Leak(t, touch, spelling, lists, over) ==
  [Plain(t) EXCEPT !.touch = touch, !.spelling = spelling, !.lists = lists,
                   !.overwritten = over]

\* Each task as it should be, one of them as a fixture with labels too, and
\* everything that can be wrong with a manifest.
MCSubmissions ==
  {Plain(t) : t \in {a, b, c, h}}
  \cup {[Plain(c) EXCEPT !.origin = "engineering_fixture", !.labelled = TRUE],
        [Plain(a) EXCEPT !.labelled = TRUE], [Plain(a) EXCEPT !.oracle = "missing"],
        [Plain(a) EXCEPT !.inspectable = FALSE], [Plain(a) EXCEPT !.coding = FALSE],
        [Plain(a) EXCEPT !.named = TRUE], [Plain(h) EXCEPT !.oracle = "unavailable"],
        [Plain(a) EXCEPT !.blank = TRUE],
        [Plain(b) EXCEPT !.oracle = "bare", !.overwritten = TRUE]}
  \cup {Leak(b, "changed", "plain", {"change_scope"}, FALSE),
        Leak(b, "deleted", "plain", {"change_scope"}, FALSE),
        Leak(b, "kept", "plain", {}, FALSE), Leak(b, "kept", "backslash", {}, TRUE),
        Leak(b, "kept", "backslash", {"test_adequacy"}, FALSE),
        Leak(b, "changed", "backslash", {"change_scope", "test_adequacy"}, TRUE),
        Leak(b, "changed", "dotted", {"change_scope"}, TRUE),
        Leak(b, "deleted", "dotted", {"change_scope"}, FALSE)}

Pair(s, t)  == ("change_scope" :> s) @@ ("test_adequacy" :> t)
Saw(v, s)   == [verdict |-> v, severity |-> s]
Clean       == Saw("clean", "info")

MadeOf(os, ls, outcome, command) ==
  [obs |-> os, ast |-> ls, shared |-> ls, outcome |-> outcome, command |-> command]

\* Right twice, wrong by a finding, a defect missed, one found, an abstention
\* over a low finding, everything failed, the oracle unavailable or late.
MCProfiles ==
  LET good == Pair("false", "false")  bad == Pair("true", "true") IN
  {MadeOf(Pair(Clean, Clean), good, "accepted", TRUE),
   MadeOf(Pair(Clean, Clean), bad, "rejected", TRUE),
   MadeOf(Pair(Saw("finding", "high"), Saw("finding", "medium")), bad, "rejected", TRUE),
   MadeOf(Pair(Saw("finding", "high"), Clean), Pair("true", "false"), "rejected", TRUE),
   MadeOf(Pair(Saw("abstain", "medium"), Saw("finding", "low")), good, "accepted", TRUE),
   MadeOf(Pair(ErrorObservation, ErrorObservation), good, "infrastructure_error", TRUE),
   MadeOf(Pair(Clean, Clean), good, "outcome_unknown", FALSE)}

=============================================================================
