----------------------- MODULE CheckletIsolationProofs ----------------------
(***************************************************************************)
(* Theorems about CheckletIsolation, for a pipe of any capacity and        *)
(* results of any length.                                                  *)
(***************************************************************************)
EXTENDS CheckletIsolation, TLAPS

LEMMA InitIsolated == Init => TypeOK /\ IsolationInv
<1>. SUFFICES ASSUME Init PROVE TypeOK /\ IsolationInv
  OBVIOUS
<1>. USE IsolationAssumption DEF Init, TypeOK, IsolationInv, AnswerIsWhole, OutputFitsThePipe,
   Alive, Waiting, Reading, Messages
<1>1. need \in 0..MaxMessage /\ written \in 0..need /\ read \in 0..written
  OBVIOUS
<1>2. written <= read + PipeCapacity
  OBVIOUS
<1>. QED BY <1>1, <1>2

LEMMA ChildStep ==
  ASSUME TypeOK, IsolationInv, Child
  PROVE  TypeOK' /\ IsolationInv'
<1>. USE IsolationAssumption DEF TypeOK, IsolationInv, AnswerIsWhole, OutputFitsThePipe,
         Alive, Waiting, Reading, Messages
<1>0. CASE ChildLoads
  BY <1>0 DEF ChildLoads
<1>1. CASE ChildPuts
  BY <1>1 DEF ChildPuts
<1>2. CASE ChildLeavesSilently
  BY <1>2 DEF ChildLeavesSilently
<1>3. CASE FeederWrites
  BY <1>3 DEF FeederWrites
<1>4. CASE ChildExits
  BY <1>4 DEF ChildExits
<1>5. CASE ChildDies
  BY <1>5 DEF ChildDies
<1>. QED BY <1>0, <1>1, <1>2, <1>3, <1>4, <1>5 DEF Child

\* Before the first read: the steps that lead up to a result or a timeout.
LEMMA WaitStep ==
  ASSUME TypeOK, IsolationInv,
         \/ Skip \/ PrepareFails \/ StartFails \/ Start \/ JoinSeesExit
         \/ JoinTimesOut \/ TermGraceEnds \/ KillGraceEnds
  PROVE  TypeOK' /\ IsolationInv'
<1>. USE IsolationAssumption DEF TypeOK, IsolationInv, AnswerIsWhole, OutputFitsThePipe,
         Alive, Waiting, Reading, Messages, ParentVarsBut, childVars
<1>1. CASE Skip
  BY <1>1 DEF Skip
<1>2. CASE PrepareFails
  BY <1>2 DEF PrepareFails
<1>3. CASE StartFails
  BY <1>3 DEF StartFails
<1>4. CASE Start
  BY <1>4 DEF Start
<1>5. CASE JoinSeesExit
  BY <1>5 DEF JoinSeesExit
<1>6. CASE JoinTimesOut
  BY <1>6 DEF JoinTimesOut
<1>7. CASE TermGraceEnds
  <2>1. CASE Alive
    BY <2>1, <1>7 DEF TermGraceEnds
  <2>2. CASE ~ Alive
    BY <2>2, <1>7 DEF TermGraceEnds
  <2>. QED BY <2>1, <2>2
<1>8. CASE KillGraceEnds
  BY <1>8 DEF KillGraceEnds
<1>. QED BY <1>1, <1>2, <1>3, <1>4, <1>5, <1>6, <1>7, <1>8

LEMMA ReadStep ==
  ASSUME TypeOK, IsolationInv,
         \/ GetFindsNothing \/ GetFindsBytes \/ ReceiveUnit \/ GetReturns
         \/ CleanupTerminates \/ CleanupKills \/ CleanupGivesUp
         \/ DrainFindsNothing \/ DrainFindsBytes \/ DrainReturns
  PROVE  TypeOK' /\ IsolationInv'
<1>. USE IsolationAssumption DEF TypeOK, IsolationInv, AnswerIsWhole, OutputFitsThePipe,
         Alive, Waiting, Reading, Messages, ParentVarsBut, childVars
<1>1. CASE GetFindsNothing
  BY <1>1 DEF GetFindsNothing
<1>2. CASE GetFindsBytes
  BY <1>2 DEF GetFindsBytes
<1>3. CASE ReceiveUnit
  BY <1>3 DEF ReceiveUnit
<1>4. CASE GetReturns
  BY <1>4 DEF GetReturns
<1>5. CASE CleanupTerminates
  <2>1. CASE Alive
    BY <2>1, <1>5 DEF CleanupTerminates
  <2>2. CASE ~ Alive
    BY <2>2, <1>5 DEF CleanupTerminates
  <2>. QED BY <2>1, <2>2
<1>6. CASE CleanupKills
  <2>1. CASE Alive
    BY <2>1, <1>6 DEF CleanupKills
  <2>2. CASE ~ Alive
    BY <2>2, <1>6 DEF CleanupKills
  <2>. QED BY <2>1, <2>2
<1>7. CASE CleanupGivesUp
  BY <1>7 DEF CleanupGivesUp
<1>8. CASE DrainFindsNothing
  BY <1>8 DEF DrainFindsNothing
<1>9. CASE DrainFindsBytes
  BY <1>9 DEF DrainFindsBytes
<1>10. CASE DrainReturns
  BY <1>10 DEF DrainReturns
<1>. QED BY <1>1, <1>2, <1>3, <1>4, <1>5, <1>6, <1>7, <1>8, <1>9, <1>10

LEMMA StepIsolated == TypeOK /\ IsolationInv /\ [Next]_vars => TypeOK' /\ IsolationInv'
<1>. SUFFICES ASSUME TypeOK, IsolationInv, [Next]_vars PROVE TypeOK' /\ IsolationInv'
  OBVIOUS
<1>1. CASE Child
  BY <1>1, ChildStep
<1>2. CASE Parent
  BY <1>2, WaitStep, ReadStep DEF Parent
<1>3. CASE DeadlinePasses
  BY <1>3 DEF DeadlinePasses, TypeOK, IsolationInv, AnswerIsWhole, OutputFitsThePipe,
     Alive, childVars
<1>4. CASE UNCHANGED vars
  BY <1>4 DEF vars, childVars, TypeOK, IsolationInv, AnswerIsWhole, OutputFitsThePipe, Alive
<1>. QED BY <1>1, <1>2, <1>3, <1>4 DEF Next

LEMMA Isolated == SafeSpec => [](TypeOK /\ IsolationInv)
<1>1. TypeOK /\ IsolationInv /\ [Next]_vars => (TypeOK /\ IsolationInv)'
  BY StepIsolated
<1>2. QED
  BY InitIsolated, <1>1, PTL DEF SafeSpec

(* Every history of the child and of the parent stays within the types.     *)
THEOREM IsolationTyped == SafeSpec => []TypeOK
BY Isolated, PTL

(* Whatever the child does and whenever it is stopped, an answer is one     *)
(* whole structured message.                                                *)
THEOREM AnswersAreWhole == SafeSpec => []AnswerIsWhole
<1>1. IsolationInv => AnswerIsWhole
  BY DEF IsolationInv
<1>2. QED
  BY <1>1, Isolated, PTL

(* No answer is longer than the pipe: a longer one is always a timeout.     *)
THEOREM AnswersFitThePipe == SafeSpec => []OutputFitsThePipe
<1>1. IsolationInv => OutputFitsThePipe
  BY DEF IsolationInv
<1>2. QED
  BY <1>1, Isolated, PTL

(* The registry moves on only when the child is gone or has been killed.    *)
THEOREM ChildrenAreKilled == SafeSpec => []NoChildLeftBehind
<1>1. IsolationInv => NoChildLeftBehind
  BY DEF IsolationInv, NoChildLeftBehind
<1>2. QED
  BY <1>1, Isolated, PTL
(* The registry can be stuck in a read only on a message whose sender died. *)
THEOREM OnlyTornMessagesStick == SafeSpec => []StuckOnTornMessage
<1>1. TypeOK /\ IsolationInv => StuckOnTornMessage
  BY IsolationAssumption DEF TypeOK, IsolationInv, StuckOnTornMessage, TornMessage, Alive,
     Reading
<1>2. QED
  BY <1>1, Isolated, PTL

LEMMA ObservationStep ==
  ASSUME TypeOK, IsolationInv, [Next]_vars
  PROVE  /\ result # "none" => result' = result
         /\ parent' = "done" => result' # "none"
<1>. USE DEF TypeOK, IsolationInv, ParentVarsBut, childVars, Waiting, Reading
<1>1. CASE Child
  BY <1>1 DEF Child, ChildLoads, ChildPuts, ChildLeavesSilently, FeederWrites, ChildExits, ChildDies
<1>2. CASE \/ Skip \/ PrepareFails \/ StartFails \/ Start \/ JoinSeesExit \/ JoinTimesOut
  BY <1>2 DEF Skip, PrepareFails, StartFails, Start, JoinSeesExit, JoinTimesOut
<1>3. CASE \/ TermGraceEnds \/ KillGraceEnds \/ GetFindsNothing \/ GetFindsBytes
           \/ ReceiveUnit \/ GetReturns
  BY <1>3 DEF TermGraceEnds, KillGraceEnds, GetFindsNothing, GetFindsBytes, ReceiveUnit,
     GetReturns
<1>4. CASE \/ CleanupTerminates \/ CleanupKills \/ CleanupGivesUp
           \/ DrainFindsNothing \/ DrainFindsBytes \/ DrainReturns
  BY <1>4 DEF CleanupTerminates, CleanupKills, CleanupGivesUp, DrainFindsNothing,
     DrainFindsBytes, DrainReturns
<1>5. CASE DeadlinePasses
  BY <1>5 DEF DeadlinePasses
<1>6. CASE UNCHANGED vars
  BY <1>6 DEF vars
<1>. QED BY <1>1, <1>2, <1>3, <1>4, <1>5, <1>6 DEF Next, Parent

(* No step revises an observation, and no iteration ends without one.       *)
THEOREM ObservedOnce == SafeSpec => OneObservation
<1>1. TypeOK /\ IsolationInv /\ [Next]_vars =>
        [/\ result # "none" => result' = result
         /\ parent' = "done" => result' # "none"]_vars
  BY ObservationStep
<1>2. QED
  BY <1>1, Isolated, PTL DEF SafeSpec, OneObservation

=============================================================================
