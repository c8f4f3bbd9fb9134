--------------------------- MODULE KartoSettings ---------------------------
(***************************************************************************)
(* How Karto is set up: the defaults of its node, what the flows put over  *)
(* them, what the node checks and what the matchers demand.  Three lists   *)
(* by three hands: the node does not check all that the matchers demand,   *)
(* and a matcher that gets something else stops the node at its first scan.*)
(*                                                                         *)
(* Lengths are in millimetres, times in milliseconds, everything else in   *)
(* thousandths.                                                            *)
(***************************************************************************)
EXTENDS MissionSettings

Modes == {"new_mapping", "continue_mapping", "localization"}

\* Named as in the environment.
ReferenceDefaults ==
  [SLAM_MODE |-> "new_mapping",
   MINIMUM_TRAVEL_DISTANCE |-> 50, MINIMUM_TRAVEL_HEADING |-> 50,
   SCAN_BUFFER_SIZE |-> 10, SCAN_BUFFER_MAXIMUM_SCAN_DISTANCE |-> 10000,
   CORRELATION_SEARCH_SPACE_DIMENSION |-> 500, CORRELATION_SEARCH_SPACE_RESOLUTION |-> 10,
   CORRELATION_SEARCH_SPACE_SMEAR_DEVIATION |-> 100,
   LOOP_SEARCH_MAXIMUM_DISTANCE |-> 3000,
   LOOP_SEARCH_SPACE_DIMENSION |-> 8000, LOOP_SEARCH_SPACE_RESOLUTION |-> 50,
   LOOP_SEARCH_SPACE_SMEAR_DEVIATION |-> 30,
   LOOP_MATCH_MINIMUM_RESPONSE_COARSE |-> 350, LOOP_MATCH_MINIMUM_RESPONSE_FINE |-> 450,
   LOOP_MATCH_MINIMUM_CHAIN_SIZE |-> 10,
   DISTANCE_VARIANCE_PENALTY |-> 500, ANGLE_VARIANCE_PENALTY |-> 1000,
   MINIMUM_ANGLE_PENALTY |-> 900, MINIMUM_DISTANCE_PENALTY |-> 500,
   MAX_LASER_RANGE |-> 8000, MIN_LASER_RANGE |-> 50,
   MAX_SYNC_WAIT |-> 200, ODOM_BUFFER_DURATION |-> 3000,
   MAP_RESOLUTION |-> 50, MAP_CROP_MARGIN |-> 500,
   LIDAR_X |-> 90, LIDAR_Y |-> 60, LIDAR_YAW |-> 0]

\* FromEnvironment, before Validate.  A key that is set to nothing counts as not set.
FromEnvironment(env) ==
  [key \in DOMAIN ReferenceDefaults |-> Setting(env, key, ReferenceDefaults[key])]

MustBePositive ==
  {"MINIMUM_TRAVEL_DISTANCE", "MINIMUM_TRAVEL_HEADING", "SCAN_BUFFER_MAXIMUM_SCAN_DISTANCE",
   "CORRELATION_SEARCH_SPACE_DIMENSION", "CORRELATION_SEARCH_SPACE_RESOLUTION",
   "LOOP_SEARCH_MAXIMUM_DISTANCE", "LOOP_SEARCH_SPACE_DIMENSION", "LOOP_SEARCH_SPACE_RESOLUTION",
   "MAX_LASER_RANGE", "MAX_SYNC_WAIT", "ODOM_BUFFER_DURATION", "MAP_RESOLUTION"}

\* The node ends where this is false.
Validate(config) ==
  /\ config.SLAM_MODE \in Modes
  /\ \A key \in MustBePositive : config[key] > 0
  /\ 0 <= config.MIN_LASER_RANGE /\ config.MIN_LASER_RANGE < config.MAX_LASER_RANGE
  /\ config.LOOP_MATCH_MINIMUM_CHAIN_SIZE >= 1
  /\ config.SCAN_BUFFER_SIZE >= 1

-----------------------------------------------------------------------------
\* The mapper's two matchers.

Grid(dimension, resolution, smear) ==
  [dimension |-> dimension, resolution |-> resolution, smear |-> smear]

\* Each matcher searches its own grid; the responses that close a loop are of the second.
MapperParameters(config) ==
  [sequential |-> Grid(config.CORRELATION_SEARCH_SPACE_DIMENSION,
                       config.CORRELATION_SEARCH_SPACE_RESOLUTION,
                       config.CORRELATION_SEARCH_SPACE_SMEAR_DEVIATION),
   loop |-> Grid(config.LOOP_SEARCH_SPACE_DIMENSION,
                 config.LOOP_SEARCH_SPACE_RESOLUTION,
                 config.LOOP_SEARCH_SPACE_SMEAR_DEVIATION),
   minimumCoarse |-> config.LOOP_MATCH_MINIMUM_RESPONSE_COARSE,
   minimumFine |-> config.LOOP_MATCH_MINIMUM_RESPONSE_FINE]

\* ScanMatcher::Create and CorrelationGrid::CalculateKernel: a whole number of cells, an odd
\* number of them with the middle one, and a smear between half a cell and ten.
GridFits(grid) ==
  /\ grid.dimension % (2 * grid.resolution) = 0
  /\ grid.resolution <= 2 * grid.smear /\ grid.smear <= 10 * grid.resolution

-----------------------------------------------------------------------------
\* The flows.

\* What every flow's karto_slam is given; only the mode differs between them.
KartoEnvironment(mode) ==
  [SLAM_MODE |-> mode,
   MINIMUM_TRAVEL_DISTANCE |-> 50, MINIMUM_TRAVEL_HEADING |-> 50,
   SCAN_BUFFER_SIZE |-> 10, SCAN_BUFFER_MAXIMUM_SCAN_DISTANCE |-> 10000,
   CORRELATION_SEARCH_SPACE_DIMENSION |-> 500, CORRELATION_SEARCH_SPACE_RESOLUTION |-> 10,
   LOOP_SEARCH_MAXIMUM_DISTANCE |-> 3000, MAX_LASER_RANGE |-> 8000,
   MAX_SYNC_WAIT |-> 200, ODOM_BUFFER_DURATION |-> 3000,
   MAP_RESOLUTION |-> 50, MAP_CROP_MARGIN |-> 500,
   LIDAR_X |-> 90, LIDAR_Y |-> 60, LIDAR_YAW |-> 0]

Mount == {"LIDAR_X", "LIDAR_Y", "LIDAR_YAW"}
MountOf(config) == [key \in Mount |-> config[key]]

\* Where a node believes the lidar sits on the robot: the planner is told, too, while the
\* controller has only its defaults, which are its own.
PlannerMount(env) ==
  [LIDAR_X |-> Setting(env, "LIDAR_X", 90), LIDAR_Y |-> Setting(env, "LIDAR_Y", 60),
   LIDAR_YAW |-> Setting(env, "LIDAR_YAW", 0)]
ControllerMount(env) ==
  [LIDAR_X |-> Setting(env, "LIDAR_X", 90), LIDAR_Y |-> Setting(env, "LIDAR_Y", 60),
   LIDAR_YAW |-> Setting(env, "LIDAR_YAW", 0)]

-----------------------------------------------------------------------------
\* In every mode Karto accepts what its flow sets and both matchers can be built on it; a
\* setting that the flow would leave out changes nothing, so that what the mapper's author
\* tried and what the robot drives with are the same; a scan that has waited its whole time
\* for odometry finds the odometry of its start still kept; and Karto, the planner and the
\* controller place the lidar's readings at the same spot.
KartoIsSetUp ==
  \A mode \in Modes :
    LET config == FromEnvironment(KartoEnvironment(mode))
        mapper == MapperParameters(config)
    IN /\ Validate(config)
       /\ GridFits(mapper.sequential) /\ GridFits(mapper.loop)
       /\ \A key \in DOMAIN config \ {"SLAM_MODE"} :
            FromEnvironment(Without(KartoEnvironment(mode), {key})) = config
       /\ config.MAX_SYNC_WAIT < config.ODOM_BUFFER_DURATION
       /\ MountOf(config) = PlannerMount(MountOf(KartoEnvironment(mode)))
       /\ MountOf(config) = ControllerMount(<<>>)
=============================================================================
