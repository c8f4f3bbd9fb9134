SPECIFICATION NavSpec
CONSTANTS
  Position <- Places
  NoPosition = NoPosition
  MinTravel = 2
  Step <- EveryStep
  ScanOffset <- Together
  Verdict = {"low", "good"}
  Retention = 1
  MaxSyncWait = 0
  StopAfter = 2
  MaxPending = 1
  Destination = {dock, desk}
  NoDestination = NoDestination
  PoseTimeout = 1
  NavTimeout = 1
  QueueSize = 2
  Coordinate = {0, 1}
  Nanos = 2
  MaxInitial = 1
  MaxLow = 2
PROPERTIES LossIsHeld
