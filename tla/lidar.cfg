SPECIFICATION Spec
CONSTANTS
  PerRev = 6
  PerFrame = 2
  Revs = 2
  Timeout = 4
  Stale = 4
  Delay = 1
  MaxDamage = 1
  WireLimit = 3
  SerialBaud = 2304
  Bytesizes = {7}
  Parities = {"none", "even", "mark"}
  Stopbits = {2}
  Flowcontrols = {"none", "hardware"}
  Rates = {96, 250}
  StandardRates = {96, 384, 2304, 40000}
  B38400 = 384
  Fastest = 40000
  BaudBase = 1152
  MaxFailures = 1
  Lines <- MCLines
INVARIANTS ScansAreWhole LineIsAsTold
PROPERTIES ScansAreFresh NoFrameLost ScansFlow
CHECK_DEADLOCK FALSE
