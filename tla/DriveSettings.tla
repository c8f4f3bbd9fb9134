---------------------------- MODULE DriveSettings ----------------------------
(***************************************************************************)
(* How the nodes between a path and the wheels are set up.  Each reads its *)
(* own environment over its own defaults and none sees another's: a        *)
(* controller that asks for less than the smoother's deadband stands for   *)
(* ever, a smoother that gains less than its deadband in one update never  *)
(* starts, a robot slower than the supervisor's idea of progress is taken  *)
(* for stuck, a wheel at its limit bends the robot's course.               *)
(*                                                                         *)
(* Lengths are in millimetres, angles in thousandths of a radian, times in *)
(* milliseconds.                                                           *)
(***************************************************************************)
EXTENDS MissionSettings, Sequences, FiniteSetsExt

\* A node's defaults with what its environment puts over them.
Over(env, defaults) == [key \in DOMAIN defaults |-> Setting(env, key, defaults[key])]

-----------------------------------------------------------------------------
\* The local controller.

ControllerDefaults ==
  [ROBOT_RADIUS |-> 150, SAFETY_MARGIN |-> 30, YAW_GOAL_TOLERANCE |-> 35,
   RPP_DESIRED_LINEAR_VEL |-> 40, RPP_REGULATED_MIN_SPEED |-> 12, RPP_MIN_APPROACH_SPEED |-> 8,
   RPP_MAX_ANGULAR_SPEED |-> 200, RPP_MIN_LOOKAHEAD_DIST |-> 200, RPP_MAX_LOOKAHEAD_DIST |-> 450,
   RPP_COLLISION_HORIZON |-> 1500, RPP_COLLISION_DT |-> 50]

\* Constants of the node, although the flow has keys for them.
ControllerConstants ==
  [POSE_TIMEOUT_MS |-> 1000, PATH_TIMEOUT_MS |-> 2500, SCAN_TIMEOUT_MS |-> 500,
   MAX_LOCALIZATION_LOST_COUNT |-> 12,
   ROTATION_SHIM_ENTER_ANGLE |-> 750, ROTATION_SHIM_EXIT_ANGLE |-> 350,
   ROTATION_SHIM_MIN_ANGULAR_SPEED |-> 50, ROTATION_SHIM_MAX_ANGULAR_SPEED |-> 200]

ControllerConfig(env) == Over(env, ControllerDefaults) @@ ControllerConstants

\* What RppController::compute clamps its speed to.
SlowestSpeed(c) == Max({c.RPP_MIN_APPROACH_SPEED, c.RPP_REGULATED_MIN_SPEED})
SpeedsAsked(c) == SlowestSpeed(c) .. c.RPP_DESIRED_LINEAR_VEL

\* On the spot: along the path, by the rotation shim, while the error is more than its exit
\* angle; and to the goal's heading, as fast as the error that is left is large.
TurnsToPath(c) ==
  {Min({Max({error, c.ROTATION_SHIM_MIN_ANGULAR_SPEED}), c.ROTATION_SHIM_MAX_ANGULAR_SPEED}) :
     error \in c.ROTATION_SHIM_EXIT_ANGLE + 1 .. c.ROTATION_SHIM_ENTER_ANGLE + 1}
TurnsToGoal(c) == c.YAW_GOAL_TOLERANCE + 1 .. c.RPP_MAX_ANGULAR_SPEED
TurnsAsked(c) == TurnsToPath(c) \union TurnsToGoal(c)

\* How far ahead in time it looks for collisions, at its fastest.
TimeLookedAt(c) ==
  Min({c.RPP_COLLISION_HORIZON, (1000 * c.RPP_MIN_LOOKAHEAD_DIST) \div c.RPP_DESIRED_LINEAR_VEL})

\* How near a point of the scan may be, and how near the planner takes it to be.
StopDistance(c) == c.ROBOT_RADIUS + c.SAFETY_MARGIN
ScanInflation(env) == Max({0, Setting(env, "DYNAMIC_OBSTACLE_INFLATION_M", 250)})

-----------------------------------------------------------------------------
\* The velocity smoother.

SmootherDefaults ==
  [SMOOTHING_FREQUENCY |-> 20,
   MAX_VX |-> 45, MAX_VY |-> 45, MAX_WZ |-> 200, MIN_VX |-> -45, MIN_VY |-> -45, MIN_WZ |-> -200,
   MAX_ACCEL_X |-> 100, MAX_ACCEL_Y |-> 100, MAX_ACCEL_WZ |-> 500,
   MAX_DECEL_X |-> -100, MAX_DECEL_Y |-> -100, MAX_DECEL_WZ |-> -500,
   DEADBAND_VX |-> 5, DEADBAND_VY |-> 5, DEADBAND_WZ |-> 20, VELOCITY_TIMEOUT_MS |-> 350]

OfAxes(vx, vy, wz) == [vx |-> vx, vy |-> vy, wz |-> wz]

\* Mutant: the deadbands of a slide and of a turn are taken for each other.
SmootherConfig_Mixed(env) ==
  LET c == Over(env, SmootherDefaults)
  IN [frequency |-> c.SMOOTHING_FREQUENCY, velocity_timeout_ms |-> c.VELOCITY_TIMEOUT_MS,
      max_velocity |-> OfAxes(c.MAX_VX, c.MAX_VY, c.MAX_WZ),
      min_velocity |-> OfAxes(c.MIN_VX, c.MIN_VY, c.MIN_WZ),
      max_accel |-> OfAxes(c.MAX_ACCEL_X, c.MAX_ACCEL_Y, c.MAX_ACCEL_WZ),
      max_decel |-> OfAxes(c.MAX_DECEL_X, c.MAX_DECEL_Y, c.MAX_DECEL_WZ),
      deadband |-> OfAxes(c.DEADBAND_WZ, c.DEADBAND_VY, c.DEADBAND_VX)]

\* loadConfig().
SmootherConfig(env) ==
  LET c == Over(env, SmootherDefaults)
  IN [frequency |-> c.SMOOTHING_FREQUENCY, velocity_timeout_ms |-> c.VELOCITY_TIMEOUT_MS,
      max_velocity |-> OfAxes(c.MAX_VX, c.MAX_VY, c.MAX_WZ),
      min_velocity |-> OfAxes(c.MIN_VX, c.MIN_VY, c.MIN_WZ),
      max_accel |-> OfAxes(c.MAX_ACCEL_X, c.MAX_ACCEL_Y, c.MAX_ACCEL_WZ),
      max_decel |-> OfAxes(c.MAX_DECEL_X, c.MAX_DECEL_Y, c.MAX_DECEL_WZ),
      deadband |-> OfAxes(c.DEADBAND_VX, c.DEADBAND_VY, c.DEADBAND_WZ)]

\* Its constructor throws where this is false.
SmootherAccepts(s) == s.frequency > 0 /\ s.velocity_timeout_ms >= 0

OneUpdate(s, rates) == [a \in DOMAIN rates |-> rates[a] \div s.frequency]
Smoother(s) == INSTANCE VelocitySmoother WITH
  Axis <- {"vx", "vy", "wz"}, MaxVelocity <- s.max_velocity, MinVelocity <- s.min_velocity,
  MaxAccel <- OneUpdate(s, s.max_accel), MaxDecel <- OneUpdate(s, s.max_decel),
  Deadband <- s.deadband, VelocityTimeout <- s.velocity_timeout_ms,
  target <- 0, current <- 0, targetAge <- 0

\* What one axis does after that many updates towards the same command.
After(s, a, updates, from, wanted) ==
  LET speed[n \in 0..updates] ==
        IF n = 0 THEN from ELSE Smoother(s)!SmoothAxis(a, speed[n - 1], wanted)
  IN speed[updates]

-----------------------------------------------------------------------------
\* The supervisor.

SupervisorDefaults ==
  [GOAL_TOLERANCE |-> 100, YAW_GOAL_TOLERANCE |-> 120, NAV_TIMEOUT_MS |-> 180000,
   POSE_TIMEOUT_MS |-> 1000, BLOCKED_TIMEOUT_MS |-> 5000, MAX_LOCALIZATION_LOST_COUNT |-> 12,
   REPLAN_COOLDOWN_MS |-> 3000, MAX_REPLAN_ATTEMPTS |-> 3, PROGRESS_TIMEOUT_MS |-> 10000,
   REQUIRED_MOVEMENT_RADIUS |-> 50, REQUIRED_MOVEMENT_ANGLE |-> 100]

\* The constructor of SupervisorProgress throws where this is false.
ProgressAccepts(c) ==
  c.REQUIRED_MOVEMENT_RADIUS >= 0 /\ c.REQUIRED_MOVEMENT_ANGLE >= 0 /\ c.PROGRESS_TIMEOUT_MS > 0

-----------------------------------------------------------------------------
\* The chassis.

ChassisDefaults ==
  [SPEED_LIMIT |-> 1500, CMD_VEL_TIMEOUT_SEC |-> 350, WHEEL_ANGLES_DEG |-> <<60, 180, 300>>,
   LINEAR_TICKS_PER_MPS |-> 13350, ANGULAR_TICKS_PER_RADPS |-> 1545]

\* A watchdog has at least 50 ms.
ChassisConfig(env) ==
  LET c == Over(env, ChassisDefaults)
  IN [c EXCEPT !.CMD_VEL_TIMEOUT_SEC = Max({50, @})]

\* No PID between the command and the wheels unless the environment asks for one.
WheelPid(env) == Setting(env, "PID_ENABLED", "") \in {"1", "true"}

\* In thousandths.
Sine == (60 :> 866) @@ (180 :> 0) @@ (300 :> -866)
Cosine == (60 :> 500) @@ (180 :> -1000) @@ (300 :> 500)
Kiwi(c) == INSTANCE KiwiDrive WITH
  Linear <- [w \in 1..3 |-> -((Sine[c.WHEEL_ANGLES_DEG[w]] * c.LINEAR_TICKS_PER_MPS) \div 1000)],
  Lateral <- [w \in 1..3 |-> (Cosine[c.WHEEL_ANGLES_DEG[w]] * c.LINEAR_TICKS_PER_MPS) \div 1000],
  Angular <- c.ANGULAR_TICKS_PER_RADPS

\* In thousandths of a tick a second.
WheelTicks(c, velocity) == Kiwi(c)!WheelSpeeds(velocity)

-----------------------------------------------------------------------------
\* The flow: its environments where motion depends on them, and its timers.

ControllerEnvironment ==
  [ROBOT_RADIUS |-> 150, SAFETY_MARGIN |-> 30, YAW_GOAL_TOLERANCE |-> 35,
   RPP_DESIRED_LINEAR_VEL |-> 50, RPP_REGULATED_MIN_SPEED |-> 12, RPP_MIN_APPROACH_SPEED |-> 8,
   RPP_MAX_ANGULAR_SPEED |-> 230, RPP_MIN_LOOKAHEAD_DIST |-> 200, RPP_MAX_LOOKAHEAD_DIST |-> 450,
   RPP_COLLISION_HORIZON |-> 1500, RPP_COLLISION_DT |-> 50,
   POSE_TIMEOUT_MS |-> 1000, PATH_TIMEOUT_MS |-> 2500, SCAN_TIMEOUT_MS |-> 500,
   ROTATION_SHIM_ENTER_ANGLE |-> 750, ROTATION_SHIM_EXIT_ANGLE |-> 350,
   ROTATION_SHIM_MIN_ANGULAR_SPEED |-> 50, ROTATION_SHIM_MAX_ANGULAR_SPEED |-> 230,
   MAX_LOCALIZATION_LOST_COUNT |-> 12]

SmootherEnvironment ==
  [SMOOTHING_FREQUENCY |-> 20,
   MAX_VX |-> 55, MAX_VY |-> 55, MAX_WZ |-> 230, MIN_VX |-> -45, MIN_VY |-> -45, MIN_WZ |-> -200,
   MAX_ACCEL_X |-> 120, MAX_ACCEL_Y |-> 120, MAX_ACCEL_WZ |-> 600,
   MAX_DECEL_X |-> -120, MAX_DECEL_Y |-> -120, MAX_DECEL_WZ |-> -600,
   DEADBAND_VX |-> 5, DEADBAND_VY |-> 5, DEADBAND_WZ |-> 20, VELOCITY_TIMEOUT_MS |-> 350]

SupervisorEnvironment ==
  [GOAL_TOLERANCE |-> 50, YAW_GOAL_TOLERANCE |-> 35] @@ SupervisorDefaults

PlannerEnvironment == [DYNAMIC_OBSTACLE_INFLATION_M |-> 180]

\* It repeats the node's defaults.
ChassisEnvironment == ChassisDefaults

Period == [local_planner |-> 100, velocity_smoother |-> 50]

-----------------------------------------------------------------------------
\* Every speed and every turn on the spot that the controller asks for comes out of the
\* smoother, a right turn no faster than the smoother's own limit for it.
CommandsComeThrough(c, s) ==
  /\ \A speed \in SpeedsAsked(c) : After(s, "vx", 20, 0, speed) = speed
  /\ \A turn \in TurnsAsked(c) :
       /\ After(s, "wz", 20, 0, turn) = turn
       /\ After(s, "wz", 20, 0, -turn) = Max({-turn, s.min_velocity["wz"]})

\* A robot that moves as slowly as the controller will is not taken for stuck.
SlowIsProgress(c, s, p) ==
  /\ SlowestSpeed(c) * p.PROGRESS_TIMEOUT_MS > 1000 * p.REQUIRED_MOVEMENT_RADIUS
  /\ \A turn \in TurnsAsked(c) : turn * p.PROGRESS_TIMEOUT_MS > 1000 * p.REQUIRED_MOVEMENT_ANGLE

\* The command that was found free of collisions may be the controller's last: the smoother
\* has dropped it before the time that was looked at is over, and no live node is dropped.
DropsInTime(c, s, k) ==
  /\ Period.local_planner < s.velocity_timeout_ms
  /\ Period.velocity_smoother < k.CMD_VEL_TIMEOUT_SEC
  /\ Period.local_planner + s.velocity_timeout_ms + Period.velocity_smoother
       < TimeLookedAt(c)
  \* A command to stand still comes to a stop within it, too.
  /\ \E updates \in 1 .. (TimeLookedAt(c) \div Period.velocity_smoother) :
       After(s, "vx", updates, c.RPP_DESIRED_LINEAR_VEL, 0) = 0

\* No wheel reaches its limit, which would turn the robot off its course, and every wheel
\* that is to turn gets a tick at least.
WheelsFollow(c, s, k) ==
  \A speed \in {0, SlowestSpeed(c), c.RPP_DESIRED_LINEAR_VEL} :
    \A turn \in {s.min_velocity["wz"], 0, s.max_velocity["wz"]} : \A w \in 1..3 :
      LET ticks == WheelTicks(k, <<speed, 0, turn>>)[w]
      IN /\ -1000 * k.SPEED_LIMIT <= ticks /\ ticks <= 1000 * k.SPEED_LIMIT
         /\ ticks \in {0} \union (Int \ (-999..999))

\* What the controller does not read of its environment says what it does anyway, except how
\* fast the shim turns, which is slower than the flow asks.
ConstantsAreToldOf(env) ==
  /\ \A key \in DOMAIN ControllerConstants \ {"ROTATION_SHIM_MAX_ANGULAR_SPEED"} :
       env[key] = ControllerConstants[key]
  /\ ControllerConstants.ROTATION_SHIM_MAX_ANGULAR_SPEED <= env.ROTATION_SHIM_MAX_ANGULAR_SPEED

\* In the flow, the nodes accept what they are given, no clamp has its bounds in the wrong
\* order, which C++ leaves undefined, what the controller asks for is what the wheels do, and
\* the planner leads past an obstacle where the controller will go.
DriveIsSetUp ==
  LET c == ControllerConfig(ControllerEnvironment)
      s == SmootherConfig(SmootherEnvironment)
      p == Over(SupervisorEnvironment, SupervisorDefaults)
      k == ChassisConfig(ChassisEnvironment)
  IN /\ SmootherAccepts(s) /\ ProgressAccepts(p) /\ Len(k.WHEEL_ANGLES_DEG) = 3
     /\ SpeedsAsked(c) # {} /\ c.RPP_MIN_LOOKAHEAD_DIST <= c.RPP_MAX_LOOKAHEAD_DIST
     /\ \A a \in DOMAIN s.max_velocity : s.min_velocity[a] <= s.max_velocity[a]
     /\ s.frequency * Period.velocity_smoother = 1000
     /\ ConstantsAreToldOf(ControllerEnvironment)
     /\ c.POSE_TIMEOUT_MS = p.POSE_TIMEOUT_MS
     /\ c.MAX_LOCALIZATION_LOST_COUNT = p.MAX_LOCALIZATION_LOST_COUNT
     /\ c.YAW_GOAL_TOLERANCE <= p.YAW_GOAL_TOLERANCE
     /\ StopDistance(c) <= ScanInflation(PlannerEnvironment)
     /\ CommandsComeThrough(c, s)
     /\ SlowIsProgress(c, s, p)
     /\ DropsInTime(c, s, k)
     /\ WheelsFollow(c, s, k)
     /\ ~WheelPid(ChassisEnvironment)
=============================================================================
