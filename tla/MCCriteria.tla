----------------------------- MODULE MCCriteria -----------------------------
(***************************************************************************)
(* A library file that defines f, an application file that calls it, and a *)
(* test file; one requirement of two words.  Texts are chosen so that      *)
(* every branch of the inspectors is taken on some candidate.              *)
(***************************************************************************)
EXTENDS Criteria, TLC

CONSTANTS lib, app, test

Text(words, idents) ==
  [parses |-> TRUE, test |-> FALSE, sigs |-> Empty, calls |-> Empty, words |-> words,
   idents |-> idents, named |-> {}, tested |-> {}, marks |-> {}, handles |-> {}]

Sig(n, m, any) == [f |-> [required |-> n, max |-> m, varargs |-> any]]
Calls(text, n) == [text EXCEPT !.calls = [f |-> {n}]]

\* f takes one argument and does all that is asked; takes two and covers half
\* of the requirement by identifiers; takes two or more; is gone; is no Python.
Lib1 == [Text({"w1", "w2"}, {"w1"}) EXCEPT !.sigs = Sig(1, 1, FALSE), !.named = {"r", "s"},
           !.marks = {"empty", "other"}, !.handles = {"empty"}]
Lib2 == [Text({"w1"}, {"w1"}) EXCEPT !.sigs = Sig(2, 2, FALSE), !.handles = {"empty"}]
LibN == [Text({"w1", "w2", "s"}, {}) EXCEPT !.sigs = Sig(2, 2, TRUE), !.marks = {"empty"}]
Lib0 == Text({}, {})
LibX == [DiffText(Empty, Empty) EXCEPT !.words = {"w1", "w2"}, !.marks = {"empty"}]

App1 == Calls(Text({}, {}), 1)
App2 == Calls(Text({"w2"}, {"w2"}), 2)
App3 == Calls(Text({"w2"}, {"w2"}), 3)

Test0 == [Text({"w1", "w2"}, {}) EXCEPT !.test = TRUE]
Test1 == [Test0 EXCEPT !.tested = {"r"}]

MCVersions == (lib :> {Lib1, Lib2, LibN, Lib0, LibX}) @@ (app :> {App1, App2, App3})
                @@ (test :> {Test0, Test1})
\* "s" is a requirement of short words, which a text has to spell.
MCWordsOf  == [r |-> {"w1", "w2"}, s |-> {"s"}]

\* A library with its caller and no tests; all there is; an empty repository.
MCRepositories == {(lib :> Lib1) @@ (app :> App1),
                   (lib :> Lib1) @@ (app :> App2) @@ (test :> Test0),
                   Empty}

MCTasks ==
  [requirements : {{"r"}}, patterns : {{}, {"w2"}}, allowed : {NoList, {lib, test}},
   cases : {NoList, {"empty"}}]
  \cup [requirements : {{}, {"s"}}, patterns : {{}}, allowed : {NoList, {lib, app, test}},
        cases : {{"empty", "other"}}]

\* Some of everything, and everything; a claim that is no list; nothing.
MCClaims ==
  [allowed : {NoList, {lib, app, test}}, cases : {NoList}, changed : {NoList, {lib, app}},
   malformed : {FALSE}]
  \cup [allowed : {NoList, {lib, app, test}}, cases : {{"empty"}}, changed : {{test}},
        malformed : BOOLEAN]

MCFailures == {{}, {"test_adequacy", "change_scope"},
               {"requirement_coverage", "dependency_integration_risk", "error_boundary"}}

=============================================================================
