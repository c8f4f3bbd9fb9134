SPECIFICATION TeleopSpec
CONSTANTS
  N = 3
  Command <- Commands
  CmdTimeout = 1
  SpeedLimit = 1
  OdomSource = "feedback"
  Linear <- WheelsAhead
  Lateral <- WheelsAside
  Angular = 1
  Motion = {"w"}
  KeyTimeout = 1
  FifoSize = 2
  LinearSpeed = 1
  AngularSpeed = 1
INVARIANTS TurningIsArmed DrivesAsAsked
PROPERTIES DriveEnds OdometryRests
