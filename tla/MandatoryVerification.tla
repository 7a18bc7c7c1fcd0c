------------------------ MODULE MandatoryVerification -----------------------
(***************************************************************************)
(* What VerificationRunner.run promises, with no gates, checklets, shadow  *)
(* policy or telemetry in sight: a registered artifact is put before the   *)
(* hard verifier exactly once, and the outcome the run returns is a        *)
(* function of the verifier's answer and of nothing else.                  *)
(*                                                                         *)
(* An answer is what the call of hard_verifier.verify came back with: an   *)
(* exception, or a result that is or is not bound to this artifact's       *)
(* digest.  It may also never come back (`hung`): the run promises to wait *)
(* for the verifier and for the checklets before it, not that they return. *)
(***************************************************************************)
EXTENDS ShadowPolicy

VARIABLES phase, answer, outcome

vars == <<phase, answer, outcome>>

NoAnswer == [kind |-> "none", outcome |-> "none", bound |-> FALSE]
Raised   == [kind |-> "raised", outcome |-> "none", bound |-> FALSE]
Answers  == [kind : {"result"}, outcome : HardOutcomes, bound : BOOLEAN] \cup {Raised}

\* The answer counts only when it is a result about this very artifact.
OutcomeOf(a) ==
  IF a.kind = "result" /\ a.bound THEN a.outcome ELSE "infrastructure_error"

TypeOK ==
  /\ phase \in {"new", "registered", "hung", "verified", "returned", "aborted", "crashed"}
  /\ answer \in Answers \cup {NoAnswer}
  /\ outcome \in HardOutcomes \cup {"none"}

Init == phase = "new" /\ answer = NoAnswer /\ outcome = "none"

\* The artifact store accepts the candidate, or raises and there is no run.
Register ==
  /\ phase = "new"
  /\ phase' \in {"registered", "aborted"}
  /\ UNCHANGED <<answer, outcome>>

Verify ==
  /\ phase = "registered"
  /\ answer' \in Answers
  /\ outcome' = OutcomeOf(answer')
  /\ phase' = "verified"

\* Something the registered run waits for never comes back.
Hang ==
  /\ phase = "registered"
  /\ phase' = "hung"
  /\ UNCHANGED <<answer, outcome>>

Return ==
  /\ phase = "verified"
  /\ phase' = "returned"
  /\ UNCHANGED <<answer, outcome>>

\* The process dies (a signal, a BaseException) at any point of a live run.
Crash ==
  /\ phase \in {"new", "registered", "hung", "verified"}
  /\ phase' = "crashed"
  /\ UNCHANGED <<answer, outcome>>

Next == Register \/ Verify \/ Hang \/ Return \/ Crash

SafeSpec == Init /\ [][Next]_vars

\* A registered run that does not die and does not wait for ever is verified
\* and returns.
Spec == SafeSpec /\ WF_vars(Verify \/ Hang \/ Return)

=============================================================================
