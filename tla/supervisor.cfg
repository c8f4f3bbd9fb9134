SPECIFICATION FairSpec
CONSTANTS
  gMid = gMid
  gFar = gFar
  NoPose = NoPose
  NoGoal = NoGoal
  NoReport = NoReport
  Pose <- Places
  Goal <- MCGoal
  ReachedAt <- MCReachedAt
  MovedFrom <- MCMovedFrom
  LocalReport <- MCLocalReport
  LocReport <- LostReport
  Command = {drive}
  PoseTimeout = 1
  NavTimeout = 2
  BlockedTimeout = 1
  ProgressTimeout = 1
  ReplanCooldown = 1
  MaxReplans = 1
  MaxLost = 1
INVARIANTS ForwardIsSafe
PROPERTIES SessionSurvivesResend StallHolds GraceGrantedOnce GateSpec MissionEnds
