------------------------------ MODULE HardVerify ----------------------------
(***************************************************************************)
(* CommandHardVerifier.verify (hard_verify.py): build a workspace from the *)
(* artifact and the oracle's own files, take digests, run the oracle's     *)
(* command under a wall-clock bound, take the digests again.               *)
(*                                                                         *)
(* The command is an adversary of the measurement as much as its subject:  *)
(* while it runs it may write to the workspace and to candidate.artifact,  *)
(* put back what it has written, and start a helper process, in its own    *)
(* process group or escaped into another session, that outlives it.  It    *)
(* may also leave a named pipe in the place of a file: whoever opens that  *)
(* to read waits until somebody feeds it.  The digests of a file stand for *)
(* its content.                                                            *)
(***************************************************************************)
EXTENDS ShadowPolicy

VARIABLES
  pc,       \* where verify is
  input,    \* what is wrong with the artifact and the oracle files, if anything
  surface,  \* the candidate and oracle files in the workspace
  before,   \* before_digests
  copy,     \* candidate.artifact
  output,   \* the files the command's output goes to: still files, or a pipe
  blocked,  \* the file verify has opened and waits for: "no", or which
  main,     \* the command's own process
  code,     \* its exit status: "0", "5" (no tests collected), "other"
  helper,   \* a process it has started
  deadline, \* has timeout_seconds elapsed?
  outcome,  \* the outcome so far
  late,     \* history: process.wait raised TimeoutExpired
  atExit    \* history: what the command left when it exited of its own accord

files == <<surface, copy, output, blocked>>
tree  == <<main, code, helper, atExit>>
vars  == <<pc, input, files, before, tree, deadline, outcome, late>>

Inputs == {"sound", "mismatched", "unparsable", "overlapping", "escaping"}
Ended  == {"returned", "raised"}
HelperAlive == helper \in {"group", "escaped"}
Running     == main = "running" \/ HelperAlive

TypeOK ==
  /\ pc \in {"write", "materialize", "oracle", "before", "spawn", "wait", "kill",
             "after", "recheck", "cleanup"} \cup Ended
  /\ input \in Inputs
  /\ surface \in {"absent", "partial", "original", "altered", "pipe"}
  /\ before \in {"absent", "partial", "original", "altered"}
  /\ copy \in {"absent", "original", "altered", "pipe"}
  /\ output \in {"file", "pipe"}
  /\ blocked \in {"no", "output", "surface", "copy"}
  /\ main \in {"none", "running", "exited", "killed"}
  /\ code \in {"none", "0", "5", "other"}
  /\ helper \in {"none", "group", "escaped", "gone"}
  /\ deadline \in BOOLEAN
  /\ outcome \in HardOutcomes \cup {"none"}
  /\ late \in BOOLEAN
  /\ atExit \in {"none", "clean", "tampered", "unsettled"}

Init ==
  /\ pc = "write"
  /\ input \in Inputs
  /\ surface = "absent" /\ before = "absent" /\ copy = "absent"
  /\ output = "file" /\ blocked = "no"
  /\ main = "none" /\ code = "none" /\ helper = "none"
  /\ deadline = FALSE
  /\ outcome = "none"
  /\ late = FALSE
  /\ atExit = "none"

-----------------------------------------------------------------------------
(* Before the command runs.                                                 *)

\* candidate.artifact is written and hashed against the registered digest.
WriteCandidate ==
  /\ pc = "write"
  /\ copy' = "original"
  /\ pc' = IF input = "mismatched" THEN "raised" ELSE "materialize"
  /\ UNCHANGED <<input, surface, output, blocked, before, tree, deadline, outcome, late>>

\* An oracle file that would replace a candidate file is the caller's error;
\* anything else that keeps the workspace from being built is a result.
Materialize ==
  /\ pc = "materialize"
  /\ CASE input = "overlapping" -> pc' = "raised"  /\ UNCHANGED <<surface, outcome>>
       [] input = "unparsable"  -> pc' = "cleanup" /\ outcome' = "infrastructure_error"
                                     /\ UNCHANGED surface
       [] OTHER                 -> pc' = "oracle"  /\ surface' = "original"
                                     /\ UNCHANGED outcome
  /\ UNCHANGED <<input, copy, output, blocked, before, tree, deadline, late>>

\* Mutant: the command runs in a workspace that is only partly built.
MaterializeFailureIgnored ==
  /\ pc = "materialize"
  /\ input \notin {"overlapping", "unparsable"}
  /\ pc' = "oracle" /\ surface' = "partial"
  /\ UNCHANGED <<input, copy, output, blocked, before, tree, deadline, outcome, late>>

MaterializeFails ==
  /\ pc = "materialize"
  /\ input \notin {"overlapping", "unparsable"}
  /\ pc' = "cleanup" /\ outcome' = "infrastructure_error" /\ surface' = "partial"
  /\ UNCHANGED <<input, copy, output, blocked, before, tree, deadline, late>>

\* _write_extra_files: a path that leaves the workspace is refused.
WriteOracle ==
  /\ pc = "oracle"
  /\ pc' = IF input = "escaping" THEN "raised" ELSE "before"
  /\ UNCHANGED <<input, files, before, tree, deadline, outcome, late>>

\* An OSError of these writes is not caught by verify.
WriteFails ==
  /\ pc \in {"write", "oracle"}
  /\ pc' = "raised"
  /\ UNCHANGED <<input, files, before, tree, deadline, outcome, late>>

DigestBefore ==
  /\ pc = "before"
  /\ before' = surface
  /\ pc' = "spawn"
  /\ UNCHANGED <<input, files, tree, deadline, outcome, late>>

-----------------------------------------------------------------------------
(* _run_bounded and _kill_process_tree                                      *)
Spawn ==
  /\ pc = "spawn"
  /\ main' = "running"
  /\ pc' = "wait"
  /\ UNCHANGED <<input, files, before, code, helper, atExit, deadline, outcome, late>>

\* Mutant: the exception leaves the outcome unassigned.
SpawnFailsUnreported ==
  /\ pc = "spawn"
  /\ pc' = "after"
  /\ UNCHANGED <<input, files, before, tree, deadline, outcome, late>>

SpawnFails ==
  /\ pc = "spawn"
  /\ outcome' = "infrastructure_error"
  /\ pc' = "after"
  /\ UNCHANGED <<input, files, before, tree, deadline, late>>

OutcomeOfExit ==
  CASE code = "0" -> "accepted"
    [] code = "5" -> "infrastructure_error"
    [] OTHER      -> "rejected"

\* Mutant: output goes through pipes, which every descendant holds open.
WaitSeesEndOfPipes ==
  /\ pc = "wait" /\ main = "exited" /\ ~ HelperAlive /\ output = "file"
  /\ outcome' = OutcomeOfExit
  /\ pc' = "after"
  /\ UNCHANGED <<input, files, before, tree, deadline, late>>

\* Mutant: the exit status is returned in place of an outcome.
ExitStatusAsOutcome ==
  /\ pc = "wait" /\ main = "exited"
  /\ outcome' = code
  /\ pc' = "after"
  /\ UNCHANGED <<input, files, before, tree, deadline, late>>

\* The command's output goes to files, which are read once it has exited: its
\* descendants are not waited for.
WaitSeesExit ==
  /\ pc = "wait" /\ main = "exited" /\ output = "file"
  /\ outcome' = OutcomeOfExit
  /\ pc' = "after"
  /\ UNCHANGED <<input, files, before, tree, deadline, late>>

WaitTimesOut ==
  /\ pc = "wait" /\ main = "running" /\ deadline
  /\ outcome' = "outcome_unknown" /\ late' = TRUE
  /\ pc' = "kill"
  /\ UNCHANGED <<input, files, before, tree, deadline>>

\* Mutant: process.kill() without its process group.
KillOnlyTheChild ==
  /\ pc = "kill"
  /\ main' = IF main = "exited" THEN main ELSE "killed"
  /\ pc' = "after"
  /\ UNCHANGED <<input, files, before, code, helper, atExit, deadline, outcome, late>>

\* Nothing is killed when the command has exited by now.
KillTree ==
  /\ pc = "kill"
  /\ IF main = "exited"
     THEN UNCHANGED <<main, helper>>
     ELSE main' = "killed" /\ helper' = IF helper = "group" THEN "gone" ELSE helper
  /\ pc' = "after"
  /\ UNCHANGED <<input, files, before, code, atExit, deadline, outcome, late>>

-----------------------------------------------------------------------------
(* After it.                                                                *)
DigestAfter ==
  /\ pc = "after" /\ surface # "pipe"
  /\ outcome' = IF surface # before THEN "infrastructure_error" ELSE outcome
  /\ pc' = "recheck"
  /\ UNCHANGED <<input, files, before, tree, deadline, late>>

\* Mutant: an artifact that cannot be read any more passes.
RecheckIgnoresMissing ==
  /\ pc = "recheck"
  /\ outcome' = IF copy = "altered" THEN "infrastructure_error" ELSE outcome
  /\ pc' = "cleanup"
  /\ UNCHANGED <<input, files, before, tree, deadline, late>>

RecheckArtifact ==
  /\ pc = "recheck" /\ copy # "pipe"
  /\ outcome' = IF copy # "original" THEN "infrastructure_error" ELSE outcome
  /\ pc' = "cleanup"
  /\ UNCHANGED <<input, files, before, tree, deadline, late>>

\* _read, _text_digest and _file_digest open what is there by now.
OpensPipe ==
  /\ \/ pc = "wait" /\ main = "exited" /\ output = "pipe" /\ blocked' = "output"
     \/ pc = "after" /\ surface = "pipe" /\ blocked' = "surface"
     \/ pc = "recheck" /\ copy = "pipe" /\ blocked' = "copy"
  /\ UNCHANGED <<pc, input, surface, copy, output, before, tree, deadline, outcome, late>>

\* The temporary directory goes away, whatever still runs in it.
Cleanup ==
  /\ pc = "cleanup"
  /\ pc' = "returned"
  /\ UNCHANGED <<input, files, before, tree, deadline, outcome, late>>

-----------------------------------------------------------------------------
(* The command and its helper.                                              *)
Tampers ==
  /\ Running
  /\ \/ surface' \in {"original", "altered", "pipe"} \ {surface} /\ UNCHANGED <<copy, output>>
     \/ copy' \in {"absent", "original", "altered", "pipe"} \ {copy} /\ UNCHANGED <<surface, output>>
     \/ output' \in {"file", "pipe"} \ {output} /\ UNCHANGED <<surface, copy>>
  /\ UNCHANGED <<pc, input, blocked, before, tree, deadline, outcome, late>>

\* A helper feeds the pipe verify waits for: what is read from it is up to the
\* helper, and verify goes on.
Feeds ==
  /\ HelperAlive
  /\ blocked # "no" /\ blocked' = "no"
  /\ \/ blocked = "output" /\ outcome' = OutcomeOfExit /\ pc' = "after"
     \/ blocked = "surface" /\ outcome' \in {outcome, "infrastructure_error"} /\ pc' = "recheck"
     \/ blocked = "copy" /\ outcome' \in {outcome, "infrastructure_error"} /\ pc' = "cleanup"
  /\ UNCHANGED <<input, surface, copy, output, before, tree, deadline, late>>

StartsHelper ==
  /\ main = "running" /\ helper = "none"
  /\ helper' \in {"group", "escaped"}
  /\ UNCHANGED <<pc, input, files, before, main, code, atExit, deadline, outcome, late>>

CommandExits ==
  /\ main = "running"
  /\ main' = "exited"
  /\ code' \in {"0", "5", "other"}
  /\ atExit' = IF HelperAlive THEN "unsettled"
               ELSE IF surface = "original" /\ copy = "original" /\ output = "file"
               THEN "clean" ELSE "tampered"
  /\ UNCHANGED <<pc, input, files, before, helper, deadline, outcome, late>>

HelperExits ==
  /\ HelperAlive
  /\ helper' = "gone"
  /\ UNCHANGED <<pc, input, files, before, main, code, atExit, deadline, outcome, late>>

DeadlinePasses ==
  /\ ~ deadline
  /\ deadline' = TRUE
  /\ UNCHANGED <<pc, input, files, before, tree, outcome, late>>

-----------------------------------------------------------------------------
\* verify, which does nothing while it waits for a pipe.
Verifier ==
  /\ blocked = "no"
  /\ \/ WriteCandidate \/ Materialize \/ MaterializeFails \/ WriteOracle \/ WriteFails
     \/ DigestBefore \/ Spawn \/ SpawnFails \/ WaitSeesExit \/ WaitTimesOut \/ KillTree
     \/ DigestAfter \/ RecheckArtifact \/ OpensPipe \/ Cleanup

Next == Verifier \/ Tampers \/ Feeds \/ StartsHelper \/ CommandExits \/ HelperExits \/ DeadlinePasses

SafeSpec == Init /\ [][Next]_vars

\* verify runs whenever it can and time passes; the command and its helper owe
\* nothing, not even that a pipe they have left is ever fed.
Spec == SafeSpec /\ WF_vars(Verifier) /\ WF_vars(DeadlinePasses)

-----------------------------------------------------------------------------
(* "No adapter treats uncertainty as acceptance", nor as rejection: a       *)
(* verdict means that the whole workspace was built, that the command       *)
(* exited in time and of its own accord, and with a status that says so.    *)
VerdictIsEarned ==
  pc = "returned" /\ outcome \in {"accepted", "rejected"} =>
    /\ input = "sound" /\ before = "original"
    /\ main = "exited" /\ ~ late
    /\ IF outcome = "accepted" THEN code = "0" ELSE code \notin {"0", "5"}

(* What the command left behind is seen: if no helper outlived it, files    *)
(* that differ when it exits cost it the verdict, and files that do not     *)
(* differ and an exit in time give the verdict of its status.               *)
TamperingIsSeen ==
  pc = "returned" /\ ~ late =>
    /\ atExit = "tampered" => outcome = "infrastructure_error"
    /\ atExit = "clean" => outcome = OutcomeOfExit

(* When the tree was killed, nothing of its process group is left.          *)
KilledTreeIsGone == pc = "returned" /\ main = "killed" => helper # "group"

(* To the runner the whole verification is one step, the one it takes for   *)
(* granted: a registered artifact gets one answer, an exception or a hard   *)
(* outcome about that artifact, and nothing the command's descendants do    *)
(* afterwards revises it.                                                   *)
MV == INSTANCE MandatoryVerification WITH
  phase   <- IF pc \in Ended THEN "verified" ELSE "registered",
  answer  <- CASE pc = "returned" -> [kind |-> "result", outcome |-> outcome, bound |-> TRUE]
               [] pc = "raised"   -> [kind |-> "raised", outcome |-> "none", bound |-> FALSE]
               [] OTHER           -> [kind |-> "none", outcome |-> "none", bound |-> FALSE],
  outcome <- CASE pc = "returned" -> outcome
               [] pc = "raised"   -> "infrastructure_error"
               [] OTHER           -> "none"
AnswersTheRunner == [][MV!Verify]_(MV!vars)

(* "timeout_seconds is supposed to bound the whole verification"            *)
(* (hard_verify.py _kill_process_tree), and does not quite: verify comes    *)
(* back whatever processes the command leaves behind, unless it waits for   *)
(* ever for a named pipe left in the place of a file it reads;              *)
(* after a command that exited alone with every file as it was, it comes    *)
(* back in any case.  (hard_verify.py _run_bounded, _surface_digests.)      *)
HangsOnlyOnPipe == <>(pc \in Ended) \/ <>[](blocked # "no" /\ atExit # "clean")

(* A timeout kills the command and everything it spawned: nothing of its    *)
(* process group outlives a verification that has timed out.                *)
TimeoutKillsTree == pc = "returned" /\ late => main # "running" /\ helper # "group"

(* The inductive invariant behind the safety properties.                    *)
VerifyInv ==
  /\ pc \in {"write", "materialize", "oracle", "before", "spawn"} =>
       main = "none" /\ outcome = "none"
  /\ pc \in {"write", "materialize", "oracle", "before", "spawn", "wait"} => ~ late
  /\ pc \in {"before", "spawn", "wait", "kill", "after", "recheck"} => input = "sound"
  /\ pc = "materialize" => input # "mismatched"
  /\ pc = "oracle" => input \in {"sound", "escaping"}
  /\ pc = "kill" => late /\ main \in {"running", "exited"}
  /\ pc \in {"oracle", "before", "spawn"} => surface = "original"
  /\ pc \in {"materialize", "oracle", "before", "spawn"} => copy = "original"
  /\ pc \in {"spawn", "wait", "kill", "after", "recheck"} => before = "original"
  /\ main = "none" => helper = "none" /\ code = "none" /\ atExit = "none"
  /\ main # "none" => surface \in {"original", "altered", "pipe"}
  /\ main = "none" => output = "file" /\ surface # "pipe" /\ copy # "pipe"
  /\ blocked # "no" => main # "none" /\ atExit # "clean"
  /\ blocked = "output" => pc = "wait" /\ main = "exited"
  /\ blocked = "surface" => pc = "after"
  /\ blocked = "copy" => pc = "recheck"
  /\ main # "exited" => atExit = "none"
  /\ pc = "wait" => main \in {"running", "exited"} /\ outcome = "none"
  /\ pc \in {"kill", "after", "recheck", "cleanup", "returned"} => outcome # "none"
  /\ main = "running" => pc \in {"wait", "kill"}
  /\ main = "killed" => late /\ helper # "group"
  /\ atExit \in {"clean", "tampered"} => ~ HelperAlive
  /\ atExit = "clean" => surface = "original" /\ copy = "original" /\ output = "file"
  /\ pc \in {"kill", "after", "recheck", "cleanup", "returned"} /\ late =>
       outcome \in {"outcome_unknown", "infrastructure_error"}
  /\ outcome \in {"accepted", "rejected"} =>
       /\ input = "sound" /\ before = "original" /\ main = "exited" /\ ~ late
       /\ outcome = OutcomeOfExit
  /\ main = "exited" /\ ~ late /\ pc # "wait" => outcome \in {OutcomeOfExit, "infrastructure_error"}
  /\ atExit = "clean" /\ ~ late /\ pc # "wait" => outcome = OutcomeOfExit
  /\ atExit = "tampered" => surface # "original" \/ copy # "original" \/ output = "pipe"
  /\ atExit = "tampered" /\ ~ late /\ pc # "wait" => output = "file"
  /\ atExit = "tampered" /\ ~ late /\ pc \in {"recheck", "cleanup", "returned"}
       /\ surface # "original" => outcome = "infrastructure_error"
  /\ atExit = "tampered" /\ ~ late /\ pc \in {"cleanup", "returned"} =>
       outcome = "infrastructure_error"

=============================================================================
