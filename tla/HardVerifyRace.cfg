SPECIFICATION SafeSpec
INVARIANT TimeoutKillsTree
CHECK_DEADLOCK FALSE
