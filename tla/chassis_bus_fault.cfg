SPECIFICATION FairSpec
CONSTANTS
  N = 3
  Command <- MCCommand
  CmdTimeout = 2
  SpeedLimit = 1
  OdomSource = "feedback"
PROPERTIES WatchdogCovers
