-------------------------- MODULE MissionSettings --------------------------
(***************************************************************************)
(* What the operator asks of run_navigation.py, written into the nodes'    *)
(* environments over a template, and what the nodes read there.  A key     *)
(* that one side spells otherwise, or that a template still holds, gives   *)
(* a node its default or an old value without a word.  An environment is a *)
(* function from the keys that are set.                                    *)
(***************************************************************************)
EXTENDS PlanarPose, TLC

Setting(env, key, fallback) == IF key \in DOMAIN env THEN env[key] ELSE fallback
Without(env, keys) == [key \in DOMAIN env \ keys |-> env[key]]

StaticGoal == {"GOAL_X", "GOAL_Y", "GOAL_THETA"}
StartKeys == {"INITIAL_POSE_X", "INITIAL_POSE_Y", "INITIAL_POSE_YAW"}

-----------------------------------------------------------------------------
\* run_navigation.py

set_goal(env, asked) ==
  LET bare == Without(env, StaticGoal \union {"GOAL_DISTANCE", "GOAL_LATERAL"})
  IN IF asked.relative THEN [GOAL_DISTANCE |-> asked.x, GOAL_LATERAL |-> asked.y] @@ bare
     ELSE [GOAL_X |-> asked.x, GOAL_Y |-> asked.y, GOAL_THETA |-> asked.yaw] @@ bare

clear_static_goal(env) == Without(env, StaticGoal)

\* The controller is not told the width, which it does not need.
apply_map_metadata(env, id, metadata) ==
  (IF id = "local_planner" THEN Without(metadata, {"MAP_WIDTH"}) ELSE metadata) @@ env

set_initial(env, initial) ==
  [INITIAL_POSE_X |-> initial.x, INITIAL_POSE_Y |-> initial.y, INITIAL_POSE_YAW |-> initial.yaw] @@ env

-----------------------------------------------------------------------------
\* The nodes.

\* What a node takes where nothing is set.
Default == 3

\* Of pose_goal: absolute once both coordinates are there.
LoadConfig(env) ==
  [absolute |-> {"GOAL_X", "GOAL_Y"} \subseteq DOMAIN env,
   goal |-> [x |-> Setting(env, "GOAL_X", 0), y |-> Setting(env, "GOAL_Y", 0),
             yaw |-> Setting(env, "GOAL_THETA", 0)],
   distance |-> Setting(env, "GOAL_DISTANCE", Default), lateral |-> Setting(env, "GOAL_LATERAL", 0)]

GoalPoseFromCurrent(p, config) ==
  IF config.absolute THEN config.goal
  ELSE [x |-> p.x + Cos(p.yaw) * config.distance - Sin(p.yaw) * config.lateral,
        y |-> p.y + Sin(p.yaw) * config.distance + Cos(p.yaw) * config.lateral,
        yaw |-> p.yaw]

\* Of the supervisor; its times are NavSupervisor's constants.
SupervisorConfig(env) ==
  [goal |-> [x |-> Setting(env, "GOAL_X", 0), y |-> Setting(env, "GOAL_Y", 0)],
   tolerance |-> [position |-> Setting(env, "GOAL_TOLERANCE", Default),
                  yaw |-> Setting(env, "YAW_GOAL_TOLERANCE", Default)]]

\* Until a GoalPose arrives.
StartingGoal(env) == SupervisorConfig(env).goal @@ [yaw |-> 0]

\* Of the controller, when it has arrived.
ControllerTolerance(env) ==
  [position |-> Setting(env, "GOAL_TOLERANCE", Default),
   yaw |-> Setting(env, "YAW_GOAL_TOLERANCE", Default)]

\* Of initial_pose_control: with some of them missing it ends, with none it waits for the
\* operator.
AutoInitialPose(env) ==
  IF StartKeys \subseteq DOMAIN env
  THEN {[x |-> env["INITIAL_POSE_X"], y |-> env["INITIAL_POSE_Y"], yaw |-> env["INITIAL_POSE_YAW"]]}
  ELSE {}

\* What a node takes the map to be.
MapKeys == {"RESOLUTION", "MAP_WIDTH", "MAP_HEIGHT", "ORIGIN_X", "ORIGIN_Y"}
PoseGoalMap(env) == [key \in MapKeys |-> Setting(env, key, Default)]
ControllerMap(env) == [key \in MapKeys \ {"MAP_WIDTH"} |-> Setting(env, key, Default)]

-----------------------------------------------------------------------------
\* Whatever goal the template was left with, pose_goal heads for the place that is asked,
\* from where the robot is or in the map, and the supervisor keeps none of its own.
GoalIsTheOneAsked(env, asked, robot) ==
  LET target == GoalPoseFromCurrent(robot, LoadConfig(set_goal(env, asked)))
      place == [x |-> asked.x, y |-> asked.y, yaw |-> IF asked.relative THEN 0 ELSE asked.yaw]
  IN /\ target = IF asked.relative THEN Compose(robot, place) ELSE place
     /\ StartingGoal(clear_static_goal(env)) = Origin

\* Karto is anchored where the operator says the robot stands.
StartIsTheOneAsked(env, initial) == AutoInitialPose(set_initial(env, initial)) = {initial}

\* pose_goal and the controller hold the same pixel for the same place, those of the map.
MapIsTheOneSaved(env, metadata) ==
  /\ PoseGoalMap(apply_map_metadata(env, "pose_goal", metadata)) = metadata
  /\ ControllerMap(apply_map_metadata(env, "local_planner", metadata)) = Without(metadata, {"MAP_WIDTH"})
=============================================================================
