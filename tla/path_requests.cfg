SPECIFICATION PlannedSpec
CONSTANTS
  Pose <- Poses
  NoPose = "nowhere"
  Scan <- Scans
  NoScan = "no scan"
  Goal <- Goals
  NoGoal = "no goal"
  GoalFrom <- ToItsOwn
  Cell <- Cells
  NoCell = "no cell"
  StartCell <- Starts
  GoalCell <- Ends
  Flow <- Flows
  MinInterval = 1
  ScanTimeout = 1
  QueueSize = 2
  MaxFaults = 2
  Sub = 2
  CropMargin = 2
  Padding = 0
  MaxRadius = 2
  Unit = 1000
  MaxIterations = 60
  Site <- Rooms
  Heading <- Headings
  Objects <- Things
  Tilt <- Tilts
  Turn = 32
  Count = 8
  AngleMin = 0
  AngleMax = 32
  RangeMin = 1
  RangeMax = 12
  Stride = 2
  ReadRange = 8
  Mount <- AheadOfBase
  Footprint <- OneAround
  MapInflation = 0
  LayerInflation = 0
INVARIANTS PathsLeadToTheGoal RoutesAreShortest PointsMoveLeast SmoothedPathsStayFree WallsAreWhereSeen PathsStayOffWalls ObjectsAreWhereMet
PROPERTIES PlansOverTheSurroundings RequestsAreAnswered
