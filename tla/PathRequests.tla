---------------------------- MODULE PathRequests ----------------------------
(***************************************************************************)
(* From a goal to a path: pose_goal latches a goal and asks for paths to   *)
(* it, a start and a goal cell in two messages; the global planner pairs   *)
(* what it receives and plans over its map and over the obstacles that the *)
(* newest scan shows.                                                      *)
(*                                                                         *)
(* Each input of the planner keeps its order; between the two inputs none  *)
(* is assumed.  A* itself is left out: a path stands for what was planned, *)
(* from where to where and over which obstacles.  Times are ages, as in    *)
(* NavSupervisor.                                                          *)
(***************************************************************************)
EXTENDS Integers, Sequences, FiniteSets

CONSTANTS
  Pose, NoPose,
  Scan, NoScan,        \* NoScan: have_scan is false
  Goal, NoGoal,        \* goals in the world; goal_latched is false
  GoalFrom,            \* [Pose -> Goal]: relative to the pose, or absolute
  Cell, NoCell,        \* grid cells; nothing received
  StartCell, GoalCell, \* WorldToPlannerGrid, clamped to the map, for poses and goals
  Flow,                \* the settings SEND_ONCE and RELOAD_MAP_ON_PLAN of the flows
  MinInterval, ScanTimeout,
  QueueSize,           \* of the planner's inputs
  MaxFaults            \* bound on lost outputs and failed reloads

ASSUME RequestsAssumption ==
  /\ NoPose \notin Pose /\ NoScan \notin Scan /\ NoGoal \notin Goal /\ NoCell \notin Cell
  /\ GoalFrom \in [Pose -> Goal]
  /\ StartCell \in [Pose -> Cell] /\ GoalCell \in [Goal -> Cell]
  /\ Flow \subseteq [sendOnce : BOOLEAN, reload : BOOLEAN] /\ Flow # {}
  /\ MinInterval \in Nat /\ ScanTimeout \in Nat
  /\ QueueSize \in Nat \ {0} /\ MaxFaults \in Nat

VARIABLES
  flow,            \* the settings this flow runs with
  asked,           \* pose_goal: latched_goal, age of last_send_ms, replan_requested
  starts, goals,   \* the planner's queues of start_point and goal_point
  start, goal,     \* the pair being assembled
  robot,           \* latest_pose
  scan, scanAge,   \* latest_scan, last_scan_ms
  loaded,          \* map_loaded
  layer,           \* dynamic obstacles: those of a scan seen from a pose
  path,            \* what the last step published
  faults           \* losses and failed reloads so far

queues == <<starts, goals>>
planner == <<start, goal, robot, scan, scanAge, loaded, layer>>
vars == <<flow, asked, queues, planner, path, faults>>

Unset == -1

\* The layer holds the obstacles one scan shows from one pose, or none; a step
\* publishes one path, or none.
Clear == {}
NoPath == {}

Init ==
  /\ flow \in Flow
  /\ asked = [goal |-> NoGoal, age |-> Unset, replan |-> FALSE]
  /\ starts = <<>> /\ goals = <<>> /\ start = NoCell /\ goal = NoCell
  /\ robot = NoPose /\ scan = NoScan /\ scanAge = 0
  /\ loaded = TRUE /\ layer = Clear
  /\ path = NoPath /\ faults = 0

-----------------------------------------------------------------------------
\* pose_goal.

OnReplanRequest ==
  /\ asked' = [asked EXCEPT !.replan = TRUE]
  /\ path' = NoPath
  /\ UNCHANGED <<flow, queues, planner, faults>>

\* A pose is answered with a request: the first, one per interval unless SEND_ONCE,
\* and one for a replan request at once.
Due ==
  \/ asked.replan \/ asked.age = Unset
  \/ ~flow.sendOnce /\ asked.age >= MinInterval

\* Mutant: a replan request latches the goal anew.
LatchedGoal_Relatched(p) ==
  IF asked.goal = NoGoal \/ asked.replan THEN GoalFrom[p] ELSE asked.goal

LatchedGoal(p) == IF asked.goal = NoGoal THEN GoalFrom[p] ELSE asked.goal

Queued(queue, cell) ==
  IF Len(queue) = QueueSize THEN Append(Tail(queue), cell) ELSE Append(queue, cell)

\* The two cells are sent; a send that fails is logged and forgotten.
Send(startCell, goalCell, lost) ==
  /\ faults + Cardinality(lost) <= MaxFaults
  /\ faults' = faults + Cardinality(lost)
  /\ starts' = IF "start" \in lost THEN starts ELSE Queued(starts, startCell)
  /\ goals' = IF "goal" \in lost THEN goals ELSE Queued(goals, goalCell)

\* A pose that PoseReadyForGoal accepts; the others change nothing.
Request(p) ==
  /\ Due
  /\ asked' = [goal |-> LatchedGoal(p), age |-> 0, replan |-> FALSE]
  /\ \E lost \in SUBSET {"start", "goal"} : Send(StartCell[p], GoalCell[LatchedGoal(p)], lost)
  /\ path' = NoPath
  /\ UNCHANGED <<flow, planner>>

-----------------------------------------------------------------------------
\* The global planner's view of the obstacles.

Fresh == scan # NoScan /\ scanAge <= ScanTimeout

\* rebuild_dynamic_obstacles leaves the layer empty while no map is loaded.
Rebuilt(p, s) == IF loaded THEN {<<p, s>>} ELSE Clear

OnCorrectedPose(p) ==
  /\ robot' = p
  /\ layer' = IF Fresh THEN Rebuilt(p, scan) ELSE layer
  /\ path' = NoPath
  /\ UNCHANGED <<flow, asked, queues, start, goal, scan, scanAge, loaded, faults>>

\* NoScan: a message without ranges.
OnLaserScan(s) ==
  /\ scan' = s /\ scanAge' = 0
  /\ layer' = IF s # NoScan /\ robot # NoPose THEN Rebuilt(robot, s) ELSE layer
  /\ path' = NoPath
  /\ UNCHANGED <<flow, asked, queues, start, goal, robot, loaded, faults>>

-----------------------------------------------------------------------------
\* plan_and_publish_path.

\* Mutant: the age of the scan is not looked at again when planning.
PlannedOver_TrustsLayer ==
  IF ~flow.reload THEN layer
  ELSE IF Fresh /\ robot # NoPose THEN Rebuilt(robot, scan) ELSE Clear

\* The layer planned over: reloading the map empties it and rebuilds it from a fresh
\* scan; without a fresh scan it is emptied.
PlannedOver ==
  IF ~Fresh THEN Clear
  ELSE IF ~flow.reload THEN layer
  ELSE IF robot # NoPose THEN Rebuilt(robot, scan) ELSE Clear

\* Mutant: after a failed reload the planner does not try to load again.
Planned_GivesUp(s, g) ==
  /\ loaded
  /\ loaded' = TRUE
  /\ layer' = PlannedOver
  /\ path' = {[start |-> s, goal |-> g, over |-> PlannedOver]}
  /\ UNCHANGED faults

Planned(s, g) ==
  /\ flow.reload \/ loaded
  /\ loaded' = TRUE
  /\ layer' = PlannedOver
  /\ path' = {[start |-> s, goal |-> g, over |-> PlannedOver]}
  /\ UNCHANGED faults

ReloadFails ==
  /\ flow.reload
  /\ faults < MaxFaults
  /\ faults' = faults + 1
  /\ loaded' = FALSE /\ layer' = Clear
  /\ path' = NoPath

\* A complete pair is planned for and forgotten, whatever comes of it.
Assemble(s, g) ==
  IF s # NoCell /\ g # NoCell
  THEN start' = NoCell /\ goal' = NoCell /\ (Planned(s, g) \/ ReloadFails)
  ELSE start' = s /\ goal' = g /\ path' = NoPath /\ UNCHANGED <<loaded, layer, faults>>

OnStartPoint ==
  /\ starts # <<>>
  /\ starts' = Tail(starts)
  /\ Assemble(Head(starts), goal)
  /\ UNCHANGED <<flow, asked, goals, robot, scan, scanAge>>

OnGoalPoint ==
  /\ goals # <<>>
  /\ goals' = Tail(goals)
  /\ Assemble(start, Head(goals))
  /\ UNCHANGED <<flow, asked, starts, robot, scan, scanAge>>

Older(age, cap) == IF age = Unset \/ age >= cap THEN age ELSE age + 1

\* One unit of time for both nodes.
Elapse ==
  /\ asked' = [asked EXCEPT !.age = Older(@, MinInterval)]
  /\ scanAge' = Older(scanAge, ScanTimeout + 1)
  /\ path' = NoPath
  /\ UNCHANGED <<flow, queues, start, goal, robot, scan, loaded, layer, faults>>

Requests == \E p \in Pose : Request(p)

Next ==
  \/ OnReplanRequest
  \/ Requests
  \/ \E p \in Pose : OnCorrectedPose(p)
  \/ \E s \in Scan \union {NoScan} : OnLaserScan(s)
  \/ OnStartPoint
  \/ OnGoalPoint
  \/ Elapse

Spec == Init /\ [][Next]_vars

-----------------------------------------------------------------------------
\* What can be queued, shown and planned.
StartCells == {StartCell[p] : p \in Pose}
GoalCells == {GoalCell[g] : g \in Goal}
Layers == {Clear} \union {{o} : o \in Pose \X Scan}
Plans == [start : StartCells, goal : GoalCells, over : Layers]

TypeOK ==
  /\ flow \in Flow
  /\ asked \in [goal : Goal \union {NoGoal}, age : {Unset} \union 0..MinInterval,
                replan : BOOLEAN]
  /\ starts \in Seq(StartCells) /\ Len(starts) <= QueueSize
  /\ goals \in Seq(GoalCells) /\ Len(goals) <= QueueSize
  /\ start \in StartCells \union {NoCell} /\ goal \in GoalCells \union {NoCell}
  /\ robot \in Pose \union {NoPose} /\ scan \in Scan \union {NoScan}
  /\ scanAge \in 0..ScanTimeout + 1
  /\ loaded \in BOOLEAN /\ layer \in Layers
  /\ path \subseteq Plans
  /\ faults \in 0..MaxFaults

\* Whatever is replanned, lost, reordered or paired across requests, every path leads
\* to the goal latched with the first accepted pose.
PathsLeadToTheGoal ==
  /\ \A plan \in path : plan.goal = GoalCell[asked.goal]
  /\ goal # NoCell => goal = GoalCell[asked.goal]

\* What the newest scan shows of the robot's surroundings, if it is fresh.
Surroundings == IF Fresh /\ robot # NoPose THEN {<<robot, scan>>} ELSE Clear

\* With a map loaded, a path is planned over exactly what the newest scan shows from
\* the newest pose, and over nothing once that scan is stale; after a failed reload
\* at least over nothing older.
PlansOverTheSurroundings ==
  [][\A plan \in path' :
       plan.over = Surroundings \/ (~loaded /\ plan.over = Clear)]_vars

\* As long as paths are asked for they are planned: neither lost messages, nor pairs
\* put together from two requests, nor failed reloads stop the planner for good.
RequestsAreAnswered == []<><<Requests>>_vars => []<>(path # NoPath)
=============================================================================
