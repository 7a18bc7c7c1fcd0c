SPECIFICATION Spec
INVARIANTS TypeOK VerdictIsEarned TamperingIsSeen KilledTreeIsGone
PROPERTIES AnswersTheRunner HangsOnlyOnPipe
CHECK_DEADLOCK FALSE
