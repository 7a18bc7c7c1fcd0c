CONSTANTS
  NumGates = 1
  NumChecklets = 2
  ArtifactTypes <- MCArtifactTypes
  AppliesTo <- MCAppliesTo
  CheckletSays <- MCCheckletSays
  SinkTears = TRUE
  MaxSinkFaults = 1
SPECIFICATION Spec
INVARIANTS TypeOK WaiveIsEarned LogSpeaksTrue EvidenceAccountedUpToTear
PROPERTY VerificationIsMandatory
CHECK_DEADLOCK FALSE
