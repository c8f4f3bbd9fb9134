SPECIFICATION KartoFairSpec
CONSTANTS
  Position = {0, 2}
  NoPosition = NoPosition
  MinTravel = 2
  Step <- MCSteps
  ScanOffset <- MCOffsets
  Verdict = {"rejected", "low", "good"}
  Retention = 3
  MaxSyncWait = 1
  StopAfter = 2
  MaxPending = 2
INVARIANTS ReadyNeverWaits
PROPERTIES WindowStaysBracketed PosesFollowGoodMatch OverdueScansLeave
