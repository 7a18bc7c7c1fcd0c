CONSTANTS
  PipeCapacity = 2
  MaxMessage = 3
SPECIFICATION Spec
PROPERTY ReturnsAfterTimeout
CHECK_DEADLOCK FALSE
