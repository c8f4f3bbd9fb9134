SPECIFICATION NavFairSpec
CONSTANTS
  Position <- Together
  NoPosition = NoPosition
  MinTravel = 2
  Step <- EveryStep
  ScanOffset <- Together
  Verdict = {"low", "good"}
  Retention = 1
  MaxSyncWait = 0
  StopAfter = 1
  MaxPending = 1
  Destination = {dock, desk}
  NoDestination = NoDestination
  PoseTimeout = 1
  NavTimeout = 1
  QueueSize = 1
  Coordinate = {0, 1}
  Nanos = 2
  MaxInitial = 2
  MaxLow = 1
INVARIANTS MessagesAreUnderstood
PROPERTIES UnanchoredIsHeld
