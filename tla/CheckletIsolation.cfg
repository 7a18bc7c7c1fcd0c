CONSTANTS
  PipeCapacity = 2
  MaxMessage = 3
SPECIFICATION Spec
INVARIANTS TypeOK AnswerIsWhole OutputFitsThePipe NoChildLeftBehind StuckOnTornMessage
PROPERTIES OneObservation DeliveredInTime HangsOnlyMidTransfer
CHECK_DEADLOCK FALSE
