CONSTANTS
  Writers = {w1, w2}
  Contents = {a}
  Blocks = 2
SPECIFICATION Spec
PROPERTY NeverOverwritten
CHECK_DEADLOCK FALSE
