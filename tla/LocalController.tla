-------------------------- MODULE LocalController --------------------------
(***************************************************************************)
(* The regulated-pure-pursuit node.  It stores what it is sent and decides *)
(* a command on each tick.  Geometry is what the decision tells apart: the *)
(* points left of the local path, the class of the heading error, whether  *)
(* the carrot is ahead, and how far ahead the nearest scan point is.  Any  *)
(* geometry a pose and a path can have may come up at a tick.  The         *)
(* obstacle stays beside the line that is driven, at one offset; how far   *)
(* ahead the circle of the robot and the box of its self filter reach is   *)
(* measured at that offset.                                                *)
(***************************************************************************)
EXTENDS Integers

CONSTANTS
  MaxLost,       \* a localization_lost_count that is a loss (12)
  ScanTimeout,   \* scan_timeout
  Limit,         \* robot_radius + safety_margin: how far ahead the circle reaches
  SelfFilter,    \* FOOTPRINT_HALF_LENGTH + SELF_FILTER_PADDING, 0 beside the box
  Spread,        \* how much farther the nearest of every second point may be
  Far,           \* no scan point in range
  Horizon,       \* collision_horizon, in time units
  MinSpeed, DesiredSpeed,   \* RPP_REGULATED_MIN_SPEED, RPP_DESIRED_LINEAR_VEL
  Turn           \* the angular speeds of a command, within RPP_MAX_ANGULAR_SPEED

Mode == {"WAITING", "BLOCKED", "GOAL_REACHED", "ALIGN_GOAL", "ROTATE_TO_PATH", "FOLLOW_PATH"}
Axis == {"vx", "wz"}
Twist(v, w) == [a \in Axis |-> IF a = "vx" THEN v ELSE w]
Command == {Twist(v, w) : v \in 0..DesiredSpeed, w \in Turn}
Zero == Twist(0, 0)
NoCommand == <<>>

\* Distances ahead.
Gap == 0..Far

\* The localization fields of a pose message; outside a localization flow they are absent
\* and the defaults hold.
Localization == [mode : BOOLEAN, matched : BOOLEAN, lost : 0..MaxLost]
NoReport == [mode |-> FALSE, matched |-> TRUE, lost |-> 0]

VARIABLES
  havePose, poseFresh,   \* have_pose; now - pt <= pose_timeout
  loc,                   \* loc_mode, loc_match, lost
  haveGoal,
  pathFound, somePath, pathFresh,  \* path_found; path.size() > 0; now - pat <= path_timeout
  obs, scanAge,          \* the nearest of obs; now - st
  turning,               \* the shim's active_
  mode,                  \* of the last tick
  cmd                    \* its CmdVelTwist until it is received

vars == <<havePose, poseFresh, loc, haveGoal, pathFound, somePath, pathFresh, obs, scanAge, turning, mode, cmd>>
inputs == <<havePose, poseFresh, loc, haveGoal, pathFound, somePath, pathFresh, obs, scanAge>>

\* Nothing has come yet, and the clock is past every timeout.
Init ==
  /\ havePose = FALSE /\ poseFresh = FALSE /\ loc = NoReport
  /\ haveGoal = FALSE
  /\ pathFound = FALSE /\ somePath = FALSE /\ pathFresh = FALSE
  /\ obs = Far /\ scanAge = ScanTimeout + 1
  /\ turning = FALSE
  /\ mode = "WAITING" /\ cmd = NoCommand

\* readPose() refuses a message without x and y, and its time and fields count all the same.
OnCorrectedPose(valid, report) ==
  /\ havePose' = valid
  /\ loc' = report
  /\ poseFresh' = TRUE
  /\ UNCHANGED <<haveGoal, pathFound, somePath, pathFresh, obs, scanAge, turning, mode, cmd>>

\* readPathJson() reads waypoints only with path_found.
HasWaypoints(found, some) == found /\ some

OnPath(found, some) ==
  /\ pathFound' = found
  /\ somePath' = HasWaypoints(found, some)
  /\ pathFresh' = TRUE
  /\ UNCHANGED <<havePose, poseFresh, loc, haveGoal, obs, scanAge, turning, mode, cmd>>

\* Every goal, also one that repeats the last, resets the shim.
OnGoalPose(valid) ==
  /\ haveGoal' = valid
  /\ turning' = FALSE
  /\ UNCHANGED <<havePose, poseFresh, loc, pathFound, somePath, pathFresh, obs, scanAge, mode, cmd>>

\* readScan() takes every second beam and drops the points in the robot's own box: the
\* nearest point it keeps of an obstacle.  Of one that reaches into the box only what is
\* outside of it is left, if anything.
Kept(nearest) ==
  {point \in Gap : /\ nearest <= point /\ SelfFilter < point
                  /\ (point <= nearest + Spread \/ nearest <= SelfFilter)}

OnLaserScan(nearest) ==
  /\ obs' \in Kept(nearest)
  /\ scanAge' = 0
  /\ UNCHANGED <<havePose, poseFresh, loc, haveGoal, pathFound, somePath, pathFresh, turning, mode, cmd>>

\* A scan's age is counted; a pose or a path may pass its timeout (1000 ms, 2500 ms) at any
\* moment.
Elapse ==
  /\ scanAge' = IF scanAge > ScanTimeout THEN scanAge ELSE scanAge + 1
  /\ UNCHANGED <<havePose, poseFresh, loc, haveGoal, pathFound, somePath, pathFresh, obs, turning, mode, cmd>>

PoseExpires ==
  /\ poseFresh /\ poseFresh' = FALSE
  /\ UNCHANGED <<havePose, loc, haveGoal, pathFound, somePath, pathFresh, obs, scanAge, turning, mode, cmd>>

PathExpires ==
  /\ pathFresh /\ pathFresh' = FALSE
  /\ UNCHANGED <<havePose, poseFresh, loc, haveGoal, pathFound, somePath, obs, scanAge, turning, mode, cmd>>

-----------------------------------------------------------------------------
Healthy ==
  /\ havePose /\ haveGoal /\ poseFresh
  /\ scanAge <= ScanTimeout
  /\ ~loc.mode \/ (loc.matched /\ loc.lost < MaxLost)

HasPlan == Healthy /\ pathFound /\ pathFresh

Answer(m, c) == mode' = m /\ cmd' = c /\ UNCHANGED inputs

\* A stale path is an input timeout; a planner that found none blocks, however old.
TickWaiting ==
  /\ ~Healthy \/ (pathFound /\ ~pathFresh)
  /\ Answer("WAITING", Zero) /\ UNCHANGED turning

TickNoGlobalPath ==
  /\ Healthy /\ ~pathFound
  /\ Answer("BLOCKED", Zero) /\ UNCHANGED turning

\* Within GOAL_TOLERANCE of the goal: there, or turning on the spot, and no scan or path is
\* looked at.
TickAtGoal ==
  /\ HasPlan
  /\ \/ Answer("GOAL_REACHED", Zero)
     \/ \E w \in Turn \ {0} : Answer("ALIGN_GOAL", Twist(0, w))
  /\ UNCHANGED turning

\* The points that transformAndPrune() can leave, 2 for more: the robot may be at the end of
\* any path.
LocalPoints == IF somePath THEN {1, 2} ELSE {0}

TickEmptyPath ==
  /\ HasPlan /\ 0 \in LocalPoints
  /\ Answer("BLOCKED", Zero) /\ UNCHANGED turning

\* Only the last point of the path is left, or it has one: no direction for the shim, and
\* too short for the controller.
TickPathEnd ==
  /\ HasPlan /\ 1 \in LocalPoints
  /\ turning' = FALSE
  /\ Answer("BLOCKED", Zero)

\* error: below 0.35, up to 0.75, above.
Turns(error) == IF turning THEN error # "small" ELSE error = "large"

Clear(distance) == distance > Limit

TickRotate ==
  \E error \in {"small", "middle", "large"} :
     /\ HasPlan /\ 2 \in LocalPoints /\ Turns(error)
     /\ turning' = TRUE
     /\ IF Clear(obs)
        THEN \E w \in Turn \ {0} : Answer("ROTATE_TO_PATH", Twist(0, w))
        ELSE Answer("BLOCKED", Zero)

\* Mutant: only the robot's own place is checked.
TrajectoryClear_OriginOnly(v) == Clear(obs)

\* What drives at v for the horizon comes no nearer than the limit.
TrajectoryClear(v) == Clear(obs) /\ Clear(obs - v * Horizon)

\* The regulated speed, scaled by curvature, clearance and distance left, stays within its
\* two bounds.
Speed == MinSpeed..DesiredSpeed

TickFollow ==
  \E error \in {"small", "middle", "large"} :
     /\ HasPlan /\ 2 \in LocalPoints /\ ~Turns(error)
     /\ turning' = FALSE
     /\ \/ \E v \in Speed, w \in Turn :
             IF TrajectoryClear(v) THEN Answer("FOLLOW_PATH", Twist(v, w))
             ELSE Answer("BLOCKED", Zero)
        \/ Answer("BLOCKED", Zero)    \* the carrot is not ahead: rotate_to_path_required

\* The process is gone with what it stored.
Forget ==
  /\ havePose' = FALSE /\ poseFresh' = FALSE /\ loc' = NoReport /\ haveGoal' = FALSE
  /\ pathFound' = FALSE /\ somePath' = FALSE /\ pathFresh' = FALSE
  /\ obs' = Far /\ scanAge' = ScanTimeout + 1 /\ turning' = FALSE /\ mode' = "WAITING"

\* The Stop event: a last zero command.
OnStop == cmd' = Zero /\ Forget

Tick ==
  \/ TickWaiting \/ TickNoGlobalPath \/ TickAtGoal \/ TickEmptyPath
  \/ TickPathEnd \/ TickRotate \/ TickFollow

Next ==
  \/ \E valid \in BOOLEAN, report \in Localization : OnCorrectedPose(valid, report)
  \/ \E found, some \in BOOLEAN : OnPath(found, some)
  \/ \E valid \in BOOLEAN : OnGoalPose(valid)
  \/ \E nearest \in Gap : OnLaserScan(nearest)
  \/ Elapse \/ PoseExpires \/ PathExpires
  \/ Tick \/ OnStop

Spec == Init /\ [][Next]_vars

-----------------------------------------------------------------------------
TypeOK ==
  /\ {havePose, poseFresh, haveGoal, pathFound, somePath, pathFresh, turning} \subseteq BOOLEAN
  /\ loc \in Localization
  /\ obs \in Gap /\ scanAge \in 0..ScanTimeout + 1
  /\ mode \in Mode
  /\ cmd \in Command \cup {NoCommand}
=============================================================================
