---------------------------- MODULE CodingBundle ----------------------------
(***************************************************************************)
(* A candidate artifact and the files two parsers read out of its bytes:   *)
(* bundle.py (gate, checklets, shared adjudicator, hard verifier) and      *)
(* independent_adjudication.py (_bundle_maps).  A file's text is reduced   *)
(* to the facts the inspectors look for; a path to its name, and whether   *)
(* the artifact spells it with a leading "./".                             *)
(***************************************************************************)
EXTENDS Naturals, Functions

CONSTANTS
  Production, Tests,  \* paths of Python files, as is_test_path divides them
  Snippet,            \* the path given to a text that is not a bundle
  Symbols,            \* public functions
  Words,              \* what requirements are made of
  Cases, AstCases,    \* boundary cases; those the syntax tree can show handled
  Requirements, WordsOf,
  Short,              \* requirements of words of two letters: see Hides
  Versions,           \* per path, the texts the file may have
  Deleted             \* an overlay's null: the file goes

Paths   == Production \cup Tests
Sources == UNION {Versions[p] : p \in Paths}
Names   == [path : Paths \cup {Snippet}, dotted : BOOLEAN]

\* _function_signature: arity without defaults, arity with them, *args.
Signatures == [required : Nat, max : Nat, varargs : BOOLEAN]

(* Facts of a text.  words, marks: substrings of it (of a test's path too), *)
(* parsable or not; the one word of a short requirement is the whole of it. *)
(* The others are read off the syntax tree, so a text that does not parse has   *)
(* none: sigs of its public functions, calls (argument counts per symbol),  *)
(* identifiers, requirements that name a function (named), has it a test_   *)
(* function, requirements that name one (tested), cases handled.  A tree    *)
(* may show what the text does not spell: see Hides.                        *)
IsSource(s) ==
  /\ s.parses \in BOOLEAN /\ s.test \in BOOLEAN
  /\ DOMAIN s.sigs \subseteq Symbols /\ Range(s.sigs) \subseteq Signatures
  /\ DOMAIN s.calls \subseteq Symbols /\ Range(s.calls) \subseteq SUBSET Nat
  /\ s.words \subseteq Words /\ s.idents \subseteq Words
  /\ s.named \subseteq Requirements /\ s.tested \subseteq Requirements
  /\ s.marks \subseteq Cases /\ s.handles \subseteq AstCases
  /\ ~ s.parses =>
       /\ DOMAIN s.sigs = {} /\ DOMAIN s.calls = {} /\ s.idents = {}
       /\ s.named = {} /\ s.tested = {} /\ ~ s.test /\ s.handles = {}

ASSUME BundleAssumption ==
  /\ Production \cap Tests = {} /\ Snippet \notin Tests
  /\ AstCases \subseteq Cases
  /\ WordsOf \in [Requirements -> SUBSET Words] /\ Short \subseteq Requirements
  /\ DOMAIN Versions = Paths
  /\ Deleted \notin Sources
  /\ \A s \in Sources : IsSource(s)

(* What a requirement may show in the tree and not in the text: one of      *)
(* short words is looked for as it stands in the text, "no-op", and as      *)
(* no_op among the functions; a string may be pieced together or escaped;   *)
(* Test_x is a test to the tree, whose names are lower-cased, and not to    *)
(* test_function_names.                                                     *)
Hides(s, r) ==
  \/ r \in s.named \cup s.tested /\ ~ WordsOf[r] \subseteq s.words
  \/ ~ WordsOf[r] \cap s.idents \subseteq s.words
  \/ r \in s.tested /\ ~ s.test

Empty == [x \in {} |-> x]
IsTest(n) == n.path \in Tests

Name(p)             == [path |-> p, dotted |-> FALSE]
Spelled(files, dot) == [n \in {[path |-> p, dotted |-> dot] : p \in DOMAIN files}
                          |-> files[n.path]]

\* The overlay is applied entry by entry: null pops the file, text sets it.
Overlaid(base, overlay) ==
  LET kept == {n \in DOMAIN overlay : overlay[n] # Deleted}
  IN  [n \in (DOMAIN base \ DOMAIN overlay) \cup kept |->
         IF n \in kept THEN overlay[n] ELSE base[n]]

\* CodingBundle.changed_paths: added, removed or different.
Changed(b) ==
  {n \in DOMAIN b.base \cup DOMAIN b.patched :
     ~ (n \in DOMAIN b.base /\ n \in DOMAIN b.patched /\ b.base[n] = b.patched[n])}

\* The text of a unified diff: lines of both sides, and no Python.
DiffText(base, overlay) ==
  LET sides == ({base[p] : p \in DOMAIN base \cap DOMAIN overlay} \cup Range(overlay))
                 \ {Deleted}
  IN  [parses |-> FALSE, test |-> FALSE, sigs |-> Empty, calls |-> Empty,
       words |-> UNION {s.words : s \in sides}, marks |-> UNION {s.marks : s \in sides},
       idents |-> {}, named |-> {}, tested |-> {}, handles |-> {}]

(* An artifact: a bundle (base and overlay); a bundle normalize_repo_path   *)
(* refuses, for an unsafe or a reserved path; a diff; or bare text.         *)
Forms == {"bundle", "refused", "diff", "snippet"}
Inspectable(a) == a.form # "refused"

-----------------------------------------------------------------------------
(* parse_coding_bundle.  Paths are normalised; a diff yields every path it  *)
(* names, each with the whole diff as its text; a text takes the path the   *)
(* producer claims to have changed, if that is exactly one.                 *)
Bundle(a, claimed) ==
  CASE a.form = "bundle" ->
         [base |-> Spelled(a.base, FALSE),
          patched |-> Spelled(Overlaid(a.base, a.overlay), FALSE)]
    [] a.form = "diff" ->
         [base |-> Empty,
          patched |-> [n \in {Name(p) : p \in DOMAIN a.overlay} |-> a.text]]
    [] a.form = "snippet" ->
         [base |-> Empty,
          patched |-> [n \in {Name(IF \E p \in Paths : claimed = {p}
                                   THEN CHOOSE p \in Paths : claimed = {p}
                                   ELSE Snippet)} |-> a.text]]

\* _bundle_maps: no path is normalised, so "./x" and "x" are two files; any
\* text that is not a bundle is the snippet.
AstBundle(a) ==
  IF a.form = "bundle"
  THEN [base |-> Spelled(a.base, FALSE),
        patched |-> Overlaid(Spelled(a.base, FALSE), Spelled(a.overlay, a.dotted))]
  ELSE [base |-> Empty, patched |-> [n \in {Name(Snippet)} |-> a.text]]

=============================================================================
