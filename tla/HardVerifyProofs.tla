-------------------------- MODULE HardVerifyProofs --------------------------
(***************************************************************************)
(* Proofs about HardVerify: VerifyInv is inductive with the type           *)
(* invariant, and the safety properties and the refinement of the runner's *)
(* verification step follow from it.                                       *)
(***************************************************************************)
EXTENDS HardVerify, TLAPS

LEMMA InitHolds == Init => TypeOK /\ VerifyInv
  BY DEF Init, TypeOK, VerifyInv, Inputs, Ended, HelperAlive, HardOutcomes, OutcomeOfExit

(* Building the workspace: neither a command nor an outcome yet.            *)
LEMMA BuildStep ==
  ASSUME TypeOK, VerifyInv, blocked = "no",
         \/ WriteCandidate \/ Materialize \/ MaterializeFails
         \/ WriteOracle \/ WriteFails \/ DigestBefore
  PROVE  TypeOK' /\ VerifyInv'
<1> USE DEF TypeOK, VerifyInv, Inputs, Ended, HardOutcomes, HelperAlive, OutcomeOfExit,
            files, tree
<1>1. CASE WriteCandidate   BY <1>1 DEF WriteCandidate
<1>2. CASE Materialize
  <2>1. CASE input = "overlapping" BY <1>2, <2>1 DEF Materialize
  <2>2. CASE input = "unparsable"  BY <1>2, <2>2 DEF Materialize
  <2>3. CASE input \notin {"overlapping", "unparsable"}
    <3>1. pc = "materialize" /\ pc' = "oracle" /\ surface' = "original"
          /\ UNCHANGED <<input, copy, output, blocked, before, main, code, helper, atExit,
                         deadline, outcome, late>>
      BY <1>2, <2>3 DEF Materialize
    <3> QED BY <2>3, <3>1
  <2> QED BY <2>1, <2>2, <2>3
<1>3. CASE MaterializeFails
  <2>1. /\ pc = "materialize" /\ pc' = "cleanup"
        /\ outcome' = "infrastructure_error" /\ surface' = "partial"
        /\ UNCHANGED <<input, copy, output, blocked, before, main, code, helper, atExit,
                       deadline, late>>
    BY <1>3 DEF MaterializeFails
  <2>2. TypeOK'
    BY <2>1
  <2>3. main = "none" /\ ~ late /\ code = "none" /\ atExit = "none" /\ helper = "none"
    BY <2>1
  <2>4. VerifyInv'
    BY <2>1, <2>3
  <2> QED BY <2>2, <2>4
<1>4. CASE WriteOracle
  <2>1. CASE input = "escaping" BY <1>4, <2>1 DEF WriteOracle
  <2>2. CASE input # "escaping" BY <1>4, <2>2 DEF WriteOracle
  <2> QED BY <2>1, <2>2
<1>5. CASE WriteFails       BY <1>5 DEF WriteFails
<1>6. CASE DigestBefore     BY <1>6 DEF DigestBefore
<1> QED BY <1>1, <1>2, <1>3, <1>4, <1>5, <1>6

(* Running it under the bound: an exit in time gives the outcome of its     *)
(* status, a timeout gives none and leaves no process group behind if the   *)
(* command was still there to be killed.                                    *)
LEMMA BoundedStep ==
  ASSUME TypeOK, VerifyInv, blocked = "no",
         Spawn \/ SpawnFails \/ WaitSeesExit \/ WaitTimesOut \/ KillTree
  PROVE  TypeOK' /\ VerifyInv'
<1> USE DEF TypeOK, VerifyInv, Inputs, Ended, HardOutcomes, HelperAlive, OutcomeOfExit,
            files, tree
<1>1. CASE Spawn        BY <1>1 DEF Spawn
<1>2. CASE SpawnFails   BY <1>2 DEF SpawnFails
<1>3. CASE WaitSeesExit BY <1>3 DEF WaitSeesExit
<1>4. CASE WaitTimesOut BY <1>4 DEF WaitTimesOut
<1>5. CASE KillTree
  <2>1. CASE main = "exited" BY <1>5, <2>1 DEF KillTree
  <2>2. CASE main # "exited"
    <3>1. /\ main = "running" /\ pc' = "after" /\ main' = "killed"
          /\ helper' # "group" /\ helper' \in {"none", "escaped", "gone"}
          /\ UNCHANGED <<input, files, before, code, atExit, deadline, outcome, late>>
      BY <1>5, <2>2 DEF KillTree
    <3>2. late /\ atExit = "none"
      BY <1>5, <2>2 DEF KillTree
    <3>3. TypeOK'
      BY <3>1
    <3>4. VerifyInv'
      BY <1>5, <3>1, <3>2 DEF KillTree
    <3> QED BY <3>3, <3>4
  <2> QED BY <2>1, <2>2
<1> QED BY <1>1, <1>2, <1>3, <1>4, <1>5

(* The digests: a check can only turn an outcome into an error.             *)
LEMMA AttestStep ==
  ASSUME TypeOK, VerifyInv, blocked = "no",
         DigestAfter \/ RecheckArtifact \/ OpensPipe \/ Cleanup
  PROVE  TypeOK' /\ VerifyInv'
<1> USE DEF TypeOK, VerifyInv, Inputs, Ended, HardOutcomes, HelperAlive, OutcomeOfExit,
            files, tree
<1>1. CASE DigestAfter     BY <1>1 DEF DigestAfter
<1>2. CASE RecheckArtifact BY <1>2 DEF RecheckArtifact
<1>3. CASE Cleanup         BY <1>3 DEF Cleanup
<1>4. CASE OpensPipe
  <2>1. /\ pc \in {"wait", "after", "recheck"} /\ main # "none" /\ atExit # "clean"
        /\ blocked' \in {"output", "surface", "copy"}
        /\ blocked' = "output" => pc = "wait" /\ main = "exited"
        /\ blocked' = "surface" => pc = "after"
        /\ blocked' = "copy" => pc = "recheck"
    BY <1>4 DEF OpensPipe
  <2>2. UNCHANGED <<pc, input, surface, copy, output, before, main, code, helper, atExit,
                    deadline, outcome, late>>
    BY <1>4 DEF OpensPipe
  <2>3. TypeOK'
    BY <2>1, <2>2
  <2>4. /\ blocked' # "no" => main' # "none" /\ atExit' # "clean"
        /\ blocked' = "output" => pc' = "wait" /\ main' = "exited"
        /\ blocked' = "surface" => pc' = "after"
        /\ blocked' = "copy" => pc' = "recheck"
    BY <2>1, <2>2
  <2>5. OutcomeOfExit' = OutcomeOfExit /\ HelperAlive' = HelperAlive
    BY <2>2
  <2>6. VerifyInv'
    BY <2>2, <2>4, <2>5
  <2> QED BY <2>3, <2>6
<1> QED BY <1>1, <1>2, <1>3, <1>4

(* The command and its helper: they can touch nothing that has been settled *)
(* by an exit that left no helper behind.                                   *)
LEMMA CommandStep ==
  ASSUME TypeOK, VerifyInv,
         Tampers \/ Feeds \/ StartsHelper \/ CommandExits \/ HelperExits \/ DeadlinePasses
  PROVE  TypeOK' /\ VerifyInv'
<1> USE DEF TypeOK, VerifyInv, Inputs, Ended, HardOutcomes, HelperAlive, OutcomeOfExit,
            files, tree
<1>1. CASE Tampers
  <2>1. atExit = "none" \/ atExit = "unsettled"
    BY <1>1 DEF Tampers, Running
  <2>2. pc \notin {"write", "materialize", "oracle", "before", "spawn"}
    BY <1>1 DEF Tampers, Running
  <2>3. TypeOK'
    BY <1>1 DEF Tampers
  <2>4. /\ UNCHANGED <<pc, input, blocked, before, main, code, helper, atExit, deadline,
                       outcome, late>>
        /\ surface' = surface \/ surface' \in {"original", "altered", "pipe"}
        /\ main # "none"
    BY <1>1 DEF Tampers, Running
  <2>5. VerifyInv'
    BY <2>1, <2>2, <2>4
  <2> QED BY <2>3, <2>5
<1>2. CASE StartsHelper   BY <1>2 DEF StartsHelper
<1>3. CASE CommandExits
  <2>1. pc \in {"wait", "kill"}
    BY <1>3 DEF CommandExits
  <2>2. TypeOK'
    BY <1>3 DEF CommandExits
  <2>3. CASE HelperAlive
    BY <1>3, <2>1, <2>3 DEF CommandExits
  <2>4. CASE ~ HelperAlive /\ surface = "original" /\ copy = "original" /\ output = "file"
    BY <1>3, <2>1, <2>4 DEF CommandExits
  <2>5. CASE ~ HelperAlive /\ ~ (surface = "original" /\ copy = "original" /\ output = "file")
    BY <1>3, <2>1, <2>5 DEF CommandExits
  <2> QED BY <2>2, <2>3, <2>4, <2>5
<1>4. CASE HelperExits    BY <1>4 DEF HelperExits
<1>5. CASE DeadlinePasses BY <1>5 DEF DeadlinePasses
<1>6. CASE Feeds
  <2>1. atExit \notin {"clean", "tampered"}
    BY <1>6 DEF Feeds
  <2>2. CASE blocked = "output"  BY <1>6, <2>1, <2>2 DEF Feeds
  <2>3. CASE blocked = "surface" BY <1>6, <2>1, <2>3 DEF Feeds
  <2>4. CASE blocked = "copy"    BY <1>6, <2>1, <2>4 DEF Feeds
  <2> QED BY <1>6, <2>2, <2>3, <2>4 DEF Feeds
<1> QED BY <1>1, <1>2, <1>3, <1>4, <1>5, <1>6

LEMMA Stutter ==
  ASSUME TypeOK, VerifyInv, UNCHANGED vars
  PROVE  TypeOK' /\ VerifyInv'
  BY DEF vars, files, tree, TypeOK, VerifyInv, HelperAlive, OutcomeOfExit

LEMMA Inductive == SafeSpec => [](TypeOK /\ VerifyInv)
<1>1. TypeOK /\ VerifyInv /\ [Next]_vars => (TypeOK /\ VerifyInv)'
  BY BuildStep, BoundedStep, AttestStep, CommandStep, Stutter DEF Next, Verifier
<1> QED BY InitHolds, <1>1, PTL DEF SafeSpec

(* Every history of verify and of the command stays within the types.       *)
THEOREM VerifyTyped == SafeSpec => []TypeOK
BY Inductive, PTL

(* A hard verdict is never an uncertainty (hard_verify.py verify).          *)
THEOREM VerdictsAreEarned == SafeSpec => []VerdictIsEarned
<1>1. TypeOK /\ VerifyInv => VerdictIsEarned
  BY DEF TypeOK, VerifyInv, VerdictIsEarned, OutcomeOfExit
<1> QED BY Inductive, <1>1, PTL

(* Tampering that is there when the command exits alone is always seen, and *)
(* a clean exit is never punished (hard_verify.py verify, the two digests). *)
THEOREM LeftTamperingIsSeen == SafeSpec => []TamperingIsSeen
<1>1. TypeOK /\ VerifyInv => TamperingIsSeen
  BY DEF TypeOK, VerifyInv, TamperingIsSeen
<1> QED BY Inductive, <1>1, PTL

(* Where the tree was killed its process group is gone                      *)
(* (hard_verify.py _kill_process_tree).                                     *)
THEOREM KilledTreesAreGone == SafeSpec => []KilledTreeIsGone
<1>1. VerifyInv => KilledTreeIsGone
  BY DEF VerifyInv, KilledTreeIsGone
<1> QED BY Inductive, <1>1, PTL
-----------------------------------------------------------------------------
(* The runner's view.                                                       *)

\* What has ended does not change any more; what goes on has not answered.
LEMMA EndedKeeps ==
  ASSUME TypeOK, VerifyInv, [Next]_vars
  PROVE  /\ pc \in Ended => pc' = pc /\ outcome' = outcome
         /\ pc' = "returned" => outcome' \in HardOutcomes
<1> USE DEF Ended, files, tree
<1>1. CASE Verifier
  <2>1. CASE \/ WriteCandidate \/ Materialize \/ MaterializeFails \/ WriteOracle
             \/ WriteFails \/ DigestBefore
    BY <2>1 DEF WriteCandidate, Materialize, MaterializeFails, WriteOracle, WriteFails,
       DigestBefore
  <2>2. CASE \/ Spawn \/ SpawnFails \/ WaitSeesExit \/ WaitTimesOut \/ KillTree
             \/ DigestAfter \/ RecheckArtifact \/ OpensPipe
    BY <2>2 DEF Spawn, SpawnFails, WaitSeesExit, WaitTimesOut, KillTree, DigestAfter,
       RecheckArtifact, OpensPipe, TypeOK, VerifyInv
  <2>3. CASE Cleanup
    BY <2>3 DEF Cleanup, TypeOK, VerifyInv
  <2> QED BY <1>1, <2>1, <2>2, <2>3 DEF Verifier
<1>2. CASE Tampers \/ Feeds \/ StartsHelper \/ CommandExits \/ HelperExits \/ DeadlinePasses
  BY <1>2 DEF Tampers, Feeds, StartsHelper, CommandExits, HelperExits, DeadlinePasses,
     TypeOK, VerifyInv
<1>3. CASE UNCHANGED vars
  BY <1>3 DEF vars, TypeOK, VerifyInv
<1> QED BY <1>1, <1>2, <1>3 DEF Next

LEMMA StepAnswers == TypeOK /\ VerifyInv /\ [Next]_vars => [MV!Verify]_(MV!vars)
<1> SUFFICES ASSUME TypeOK, VerifyInv, [Next]_vars PROVE [MV!Verify]_(MV!vars)
  OBVIOUS
<1>1. CASE pc \in Ended
  <2>1. pc' = pc /\ outcome' = outcome
    BY <1>1, EndedKeeps
  <2> QED BY <2>1 DEF MV!vars
<1>2. CASE pc \notin Ended /\ pc' \notin Ended
  BY <1>2 DEF MV!vars, Ended
<1>3. CASE pc \notin Ended /\ pc' = "returned"
  <2>1. outcome' \in HardOutcomes
    BY <1>3, EndedKeeps
  <2>2. MV!HardOutcomes = HardOutcomes
    BY DEF MV!HardOutcomes, HardOutcomes
  <2> QED BY <1>3, <2>1, <2>2 DEF MV!Verify, MV!Answers, MV!OutcomeOf, MV!Raised, Ended
<1>4. CASE pc \notin Ended /\ pc' = "raised"
  BY <1>4 DEF MV!Verify, MV!Answers, MV!OutcomeOf, MV!Raised, Ended
<1> QED BY <1>1, <1>2, <1>3, <1>4 DEF Ended

(* The command verifier does what VerificationRunner.run assumes of the     *)
(* verifier it calls: seen from there, verify is MandatoryVerification's    *)
(* one Verify step.                                                         *)
THEOREM RunnerIsAnswered == SafeSpec => AnswersTheRunner
BY Inductive, StepAnswers, PTL DEF SafeSpec, AnswersTheRunner

=============================================================================
