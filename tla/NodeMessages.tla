---------------------------- MODULE NodeMessages ----------------------------
(***************************************************************************)
(* The JSON messages of the navigation flow: what each node writes and     *)
(* what each reader makes of it.  No schema is shared: the nodes agree on  *)
(* keys, on units and on defaults, or they misunderstand each other        *)
(* without a word.  An object is a function from its keys; keys that no    *)
(* node reads are left out.                                                *)
(***************************************************************************)
EXTENDS MissionSettings, Sequences

CONSTANTS
  Coordinate,          \* of the poses that are written
  Nanos                \* nanoseconds of a second

ASSUME MessagesAssumption == Coordinate \subseteq Int /\ Nanos \in Nat \ {0}

Heading == -1..2
KnownPose == [x : Coordinate, y : Coordinate, yaw : Heading]

Has(message, keys) == keys \subseteq DOMAIN message
Value(message, key, default) == IF key \in DOMAIN message THEN message[key] ELSE default

-----------------------------------------------------------------------------
\* Odometry: the chassis to Karto.  A quaternion holds the half of the heading, in eighths
\* of a turn here; vectors on the diagonals are not of unit length.

HalfSin(eighths) == CASE eighths % 8 \in 1..3 -> 1 [] eighths % 8 \in 5..7 -> -1 [] OTHER -> 0
HalfCos(eighths) == HalfSin(eighths + 2)

Atan2(z, w) == CHOOSE e \in -3..4 : HalfSin(e) = z /\ HalfCos(e) = w

\* Of the host's clock, in nanoseconds.
Header(now) == [stamp |-> [sec |-> now \div Nanos, nanosec |-> now % Nanos]]

OdometryMessage(odom, now) ==
  [header |-> Header(now),
   pose |-> [pose |-> [position |-> [x |-> odom.x, y |-> odom.y],
                       orientation |-> [z |-> HalfSin(odom.yaw), w |-> HalfCos(odom.yaw)]]]]

Stamp(message) == message.header.stamp.sec * Nanos + message.header.stamp.nanosec

\* Twice an eighth is a quarter.
ParseOdometry(message) ==
  LET there == message.pose.pose
  IN [x |-> there.position.x, y |-> there.position.y,
      yaw |-> Atan2(there.orientation.z, there.orientation.w)]

-----------------------------------------------------------------------------
\* LaserScan: the lidar to Karto.  Of the host's clock too, from the moment the node
\* began to wait; the wait counts as the time of the revolution.

LaserScanMessage(ranges, since, waited) ==
  [header |-> Header(since),
   angle_increment |-> 1, scan_time |-> waited, time_increment |-> waited \div Len(ranges),
   range_min |-> 1, range_max |-> 2, ranges |-> ranges, intensities |-> ranges]

\* Of what Karto accepts, from when to when it was measured.
ParseLaserScan(message) ==
  LET count == Len(message.ranges)
      start == Stamp(message)
      end == start + (CHOOSE longest \in {message.scan_time, message.time_increment * count} :
                        longest >= message.scan_time /\ longest >= message.time_increment * count)
  IN IF /\ message.scan_time >= 0 /\ message.time_increment >= 0 /\ message.angle_increment >= 0
        /\ message.range_min >= 0 /\ message.range_max > message.range_min
        /\ count >= 2
        /\ Len(message.intensities) \in {0, count}
     THEN {[start |-> start, end |-> end, ranges |-> message.ranges]}
     ELSE {}

-----------------------------------------------------------------------------
\* CorrectedPose: Karto to four nodes; GoalPose: pose_goal to two.

CorrectedPoseMessage(p, predicted) ==
  [pose |-> [x |-> p.x, y |-> p.y, yaw |-> p.yaw], predicted |-> predicted]

GoalPoseMessage(target, start) ==
  [x |-> target.x, y |-> target.y, theta |-> target.yaw,
   start_x |-> start.x, start_y |-> start.y, start_theta |-> start.yaw]

NotRead == {}
Read(message, yaw) == {[x |-> message.x, y |-> message.y, yaw |-> yaw]}

\* The heading goes by two names, in the pose or beside it.
HeadingOf(message) == Value(message, "theta", Value(message, "yaw", 0))
HeadingIn(inner, message) == Value(inner, "theta", Value(inner, "yaw", HeadingOf(message)))

\* Mutant: the heading is looked for only beside the pose.
ReadPose_FlatHeading(message) ==
  IF Has(message, {"pose"}) THEN Read(message.pose, HeadingOf(message))
  ELSE IF Has(message, {"x", "y"}) THEN Read(message, HeadingOf(message)) ELSE NotRead

\* Of the supervisor.
ReadPose(message) ==
  IF Has(message, {"pose"}) /\ Has(message.pose, {"x", "y"})
  THEN Read(message.pose, HeadingIn(message.pose, message))
  ELSE IF Has(message, {"x", "y"}) THEN Read(message, HeadingOf(message)) ELSE NotRead

\* Of pose_goal, the same.
GoalReadPose(message) ==
  IF Has(message, {"pose"}) /\ Has(message.pose, {"x", "y"})
  THEN Read(message.pose, HeadingIn(message.pose, message))
  ELSE IF Has(message, {"x", "y"}) THEN Read(message, HeadingOf(message)) ELSE NotRead

\* Of the controller, which looks nowhere else once there is a pose.
ControllerReadPose(message) ==
  LET inner == Value(message, "pose", message)
  IN IF Has(inner, {"x", "y"}) THEN Read(inner, HeadingIn(inner, message)) ELSE NotRead

\* Of the planner.
PlannerReadPose(message) ==
  LET inner == Value(message, "pose", message)
  IN IF Has(inner, {"x", "y"})
     THEN Read(inner, Value(inner, "theta", Value(inner, "yaw", Value(message, "theta", 0))))
     ELSE NotRead

\* localization_mode, matched and lost_count, absent here, take the reader's defaults.
Localization(message) ==
  [mode |-> Value(message, "localization_mode", FALSE),
   matched |-> Value(message, "localization_matched", TRUE),
   lost |-> Value(message, "localization_lost_count", 0)]

\* REQUIRE_LOCALIZATION_MATCH only tells with localization_mode.
PoseReadyForGoal(message, required) ==
  LET matched == Value(message, "localization_matched", FALSE)
  IN ~required \/ ~Localization(message).mode \/ matched

-----------------------------------------------------------------------------
\* InitialPose: a line of the operator's, or the environment's, to Karto.  The node looks
\* for each key and a number anywhere in the text; Karto parses JSON.
Keys == {"x", "y", "yaw"}
Line == [json : BOOLEAN, at : [Keys -> {"absent", "text", "nested", "number"}]]

ReadNumber(line, key) == line.at[key] \in {"nested", "number"}

ValidPose(line) == \A key \in DOMAIN line.at : ReadNumber(line, key)

Parse(line) == line.json
Finite(value) == value = "number"
ParseInitialPose(line) == Parse(line) /\ \A key \in DOMAIN line.at : Finite(line.at[key])

\* The line of the operator's script, which asks for three finite numbers; text stands for
\* the others that its parser takes for a number.
set_initial_pose(asked) ==
  IF \A key \in Keys : Finite(asked[key]) THEN {[json |-> TRUE, at |-> asked]} ELSE {}

-----------------------------------------------------------------------------
\* CmdVelTwist: controller, smoother, supervisor, chassis.

CommandMessage(vx, wz, mode) ==
  [linear |-> [x |-> vx, y |-> 0], angular |-> [x |-> 0, y |-> 0, z |-> wz], state |-> mode]

\* Of the smoother.
SendTwist(twist) ==
  [linear |-> [x |-> twist.vx, y |-> twist.vy], angular |-> [x |-> 0, y |-> 0, z |-> twist.wz],
   state |-> "SMOOTHED"]

ReadTwist(message) ==
  LET linear == Value(message, "linear", <<>>)
      angular == Value(message, "angular", <<>>)
  IN [vx |-> Value(linear, "x", 0), vy |-> Value(linear, "y", 0), wz |-> Value(angular, "z", 0)]

\* Of the supervisor: the command as it came with one more key, or a zero.
Forwarded(command, state) == command @@ [supervisor_state |-> state]

BuildZeroCommand(reason) ==
  [linear |-> [x |-> 0, y |-> 0], angular |-> [x |-> 0, y |-> 0, z |-> 0],
   state |-> "safety_stop", reason |-> reason]

\* Of the chassis.
ParseCmdVel(message) == ReadTwist(message)

-----------------------------------------------------------------------------
\* LocalPlannerStatus: controller to supervisor.

\* What a tick of the controller reports.
LocalOutcome ==
  {<<"WAITING", "input_timeout">>, <<"GOAL_REACHED", "position_and_yaw_reached">>,
   <<"ALIGN_GOAL", "align_goal_yaw">>, <<"ROTATE_TO_PATH", "rotate_to_path">>,
   <<"FOLLOW_PATH", "rpp_selected">>}
  \union {<<"BLOCKED", reason>> :
            reason \in {"no_global_path", "empty_local_path", "invalid_path", "rotation_blocked",
                        "rotate_to_path_required", "collision_ahead"}}

StatusMessage(outcome) == [mode |-> outcome[1], reason |-> outcome[2]]

LocalReportOf(message) == <<Value(message, "mode", "UNKNOWN"), Value(message, "reason", "unknown")>>

-----------------------------------------------------------------------------
\* The goal: the supervisor ends the mission where the controller stops.

SquaredDistance(p, target) == (target.x - p.x) * (target.x - p.x) + (target.y - p.y) * (target.y - p.y)
YawError(p, target) == NormalizeAngle(target.yaw - p.yaw)

CheckSupervisorGoal(p, target, tolerance) ==
  /\ SquaredDistance(p, target) <= tolerance.position * tolerance.position
  /\ YawError(p, target) \in -tolerance.yaw..tolerance.yaw

\* Of the controller; elsewhere it follows the path.
GoalMode(p, target, tolerance) ==
  CASE SquaredDistance(p, target) > tolerance.position * tolerance.position -> "FOLLOW_PATH"
    [] OTHER -> IF YawError(p, target) \in -tolerance.yaw..tolerance.yaw
                THEN "GOAL_REACHED" ELSE "ALIGN_GOAL"

-----------------------------------------------------------------------------
\* From a match and the motion since, every reader of a CorrectedPose knows where the robot
\* is, and none holds the localization lost or waits for a match.
RobotIsWhereRead(corrected, wheels, motion) ==
  LET Heard(odom) == ParseOdometry(OdometryMessage(odom, 0))
      later == Compose(wheels, motion)
      predicted == Predict(ObserveMatch(corrected, Heard(wheels)), Heard(later))
      message == CorrectedPoseMessage(predicted, TRUE)
      place == {Compose(corrected, motion)}
  IN /\ ReadPose(message) = place /\ GoalReadPose(message) = place
     /\ ControllerReadPose(message) = place /\ PlannerReadPose(message) = place
     /\ PoseReadyForGoal(message, TRUE)
     /\ Localization(message) = [mode |-> FALSE, matched |-> TRUE, lost |-> 0]

\* The supervisor and the controller head for the same goal.
GoalIsShared(target, start) ==
  LET message == GoalPoseMessage(target, start)
  IN ReadPose(message) = {target} /\ ControllerReadPose(message) = {target}

\* A later moment has a later stamp.
StampsFollowTheClock == \A now \in 0..3 * Nanos : Stamp(OdometryMessage(Origin, now)) = now

\* Told the same tolerances, as in every flow, both say that the robot is there, or neither:
\* else it would stand until the mission times out, or be stopped while it turns.
GoalIsReachedTogether ==
  \A p, target \in [x : Coordinate, y : {0}, yaw : -2..4] :
    \A env \in [{"GOAL_TOLERANCE", "YAW_GOAL_TOLERANCE"} -> 0..2] :
      CheckSupervisorGoal(p, target, SupervisorConfig(env).tolerance)
        <=> GoalMode(p, target, ControllerTolerance(env)) = "GOAL_REACHED"

\* What Karto can parse, the node passes on; and both take the line of the script.
LinesArePassedOn ==
  /\ \A line \in Line : ParseInitialPose(line) => ValidPose(line)
  /\ \A asked \in [Keys -> {"text", "number"}] : \A line \in set_initial_pose(asked) :
       ValidPose(line) /\ ParseInitialPose(line)

\* The smoother smoothes what the controller asks for, the chassis drives what the smoother
\* sends when the supervisor lets it through, and a zero of the supervisor's stops it.
CommandsArrive(forwarded, state) ==
  LET Speed == -1..1
  IN \A v, w \in Speed :
       LET twist == ReadTwist(CommandMessage(v, w, "FOLLOW_PATH"))
           heard == ParseCmdVel(IF forwarded THEN Forwarded(SendTwist(twist), state)
                                ELSE BuildZeroCommand(state))
       IN heard = [vx |-> IF forwarded THEN v ELSE 0, vy |-> 0, wz |-> IF forwarded THEN w ELSE 0]

\* Karto takes every scan that the lidar sends, as measured while the node waited for it.
ScansAreUnderstood ==
  \A since, waited \in 0..Nanos : \A count \in 2..3 :
    LET ranges == [i \in 1..count |-> i]
    IN ParseLaserScan(LaserScanMessage(ranges, since, waited))
         = {[start |-> since, end |-> since + waited, ranges |-> ranges]}

\* The templates of the flow, with what an earlier mission may have left in them.
Template == UNION {[keys -> {2}] : keys \in SUBSET (StaticGoal \union {"GOAL_DISTANCE", "GOAL_LATERAL"})}
Asked == [relative : BOOLEAN, x : Coordinate, y : Coordinate, yaw : Heading]

MissionIsTheOneAsked ==
  \A env \in Template :
    /\ \A asked \in Asked, robot \in KnownPose : GoalIsTheOneAsked(env, asked, robot)
    /\ \A robot \in KnownPose : StartIsTheOneAsked(env, robot)
    /\ \A metadata \in [MapKeys -> Coordinate] : MapIsTheOneSaved(env, metadata)

PosesAreRead ==
  /\ \A corrected, wheels, motion \in KnownPose : RobotIsWhereRead(corrected, wheels, motion)
  /\ \A target, start \in KnownPose : GoalIsShared(target, start)
=============================================================================
