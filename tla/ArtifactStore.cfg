CONSTANTS
  Writers = {w1, w2, w3}
  Contents = {a, b}
  Blocks = 2
SPECIFICATION Spec
INVARIANT SettledIsWhole
CHECK_DEADLOCK FALSE
