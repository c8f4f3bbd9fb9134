SPECIFICATION Spec
CONSTANTS
  MaxLost = 2
  ScanTimeout = 1
  Limit = 1
  SelfFilter = 2
  Spread = 1
  Horizon = 7
  MinSpeed = 1
  DesiredSpeed = 2
  Turn <- MCTurn
  MaxVelocity <- MCMax
  MinVelocity <- MCMin
  MaxAccel <- MCOne
  MaxDecel <- MCOne
  Deadband <- MCOne
  VelocityTimeout = 2
  StopTime = 3
  Report <- MCReport
  Far = 16
INVARIANTS KeepsItsDistance BlindStands Limited
PROPERTIES FollowingDrives
