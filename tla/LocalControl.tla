---------------------------- MODULE LocalControl ----------------------------
(***************************************************************************)
(* The local controller, the velocity smoother behind it and the robot     *)
(* that drives what the smoother sends.  A time unit is the smoother's     *)
(* period (50 ms); the controller's is two (100 ms).  The two nodes handle *)
(* what is due within the unit, in any order.  The controller's process    *)
(* may die, and a stop of the dataflow reaches the nodes in any order.     *)
(***************************************************************************)
EXTENDS Integers

CONSTANTS
  MaxLost, ScanTimeout, Limit, SelfFilter, Spread, Horizon, MinSpeed, DesiredSpeed,   \* controller
  Turn, Far,
  MaxVelocity, MinVelocity, MaxAccel, MaxDecel, Deadband, VelocityTimeout,      \* smoother
  Report,        \* the localization reports that come
  StopTime       \* the units within which a robot that is blind stands

Axis == {"vx", "wz"}

ASSUME ControlAssumption ==
  /\ {MaxLost, ScanTimeout, Limit, SelfFilter, Spread, Horizon, Far, VelocityTimeout, StopTime} \subseteq Nat
  /\ MinSpeed \in Nat \ {0} /\ DesiredSpeed \in Nat /\ MinSpeed <= DesiredSpeed
  /\ Limit < Far /\ SelfFilter < Far
  /\ Turn \subseteq Int /\ 0 \in Turn
  /\ {MaxVelocity, MinVelocity, MaxAccel, MaxDecel, Deadband} \subseteq [Axis -> Int]
  /\ \A a \in Axis : MinVelocity[a] <= 0 /\ 0 <= MaxVelocity[a]

VARIABLES
  havePose, poseFresh, loc, haveGoal, pathFound, somePath, pathFresh, obs, scanAge, turning, mode, cmd,
  target, current, targetAge,
  due,      \* the timer events of this unit not handled yet
  odd,      \* the unit has no tick of the controller
  up,       \* the nodes that run
  gap,      \* from the robot ahead to the nearest obstacle
  blind     \* history: units since a tick of the controller that had what driving needs

C == INSTANCE LocalController
S == INSTANCE VelocitySmoother

\* The time allowed for standing covers the smoother's timeout, and the ramp down from
\* either limit begun by the tick after the last command to move: the flow's settings stop
\* within StopTime = 11 units, 550 ms.
ASSUME StopTimeAssumption ==
  /\ VelocityTimeout < StopTime
  /\ \A a \in Axis : /\ MaxVelocity[a] <= S!Abs(MaxDecel[a]) * (StopTime - 1)
                     /\ -MinVelocity[a] <= S!Abs(MaxDecel[a]) * (StopTime - 1)

\* One step of the acceleration, the limit and the slowest speed that the controller asks
\* for are moves the deadband lets through.  The node checks none of it; the flow's step of
\* 6 mm/s passes its deadband of 5 mm/s, and the defaults' step is their deadband.
ASSUME DeadbandAssumption ==
  LET least == {S!Abs(MaxAccel["vx"]), MaxVelocity["vx"], MinSpeed}
  IN  \A v \in least : 0 < v /\ Deadband["vx"] <= v

stored == <<havePose, poseFresh, loc, haveGoal, pathFound, somePath, pathFresh, obs, scanAge, turning, mode>>
controller == <<stored, cmd>>
smoother == <<target, current, targetAge>>
vars == <<controller, smoother, due, odd, up, gap, blind>>

\* Outside the circle, and outside the box in which nothing is seen.
Keep == IF SelfFilter > Limit THEN SelfFilter ELSE Limit

Init ==
  /\ C!Init /\ S!Init
  /\ due = {} /\ odd = TRUE
  /\ up = {"controller", "smoother"}
  /\ gap \in {g \in C!Gap : g > Keep}
  /\ blind = StopTime + 1

-----------------------------------------------------------------------------
\* A message or the end of its time matters at the next tick; only a scan's age is counted
\* from when it comes.
Receive ==
  /\ "controller" \in up
  /\ \/ C!OnLaserScan(gap)
     \/ /\ "controller" \in due
        /\ \/ \E valid \in BOOLEAN, report \in Report : C!OnCorrectedPose(valid, report)
           \/ \E found, some \in BOOLEAN : C!OnPath(found, some)
           \/ \E valid \in BOOLEAN : C!OnGoalPose(valid)
           \/ C!PoseExpires
           \/ C!PathExpires
  /\ UNCHANGED <<smoother, due, odd, up, gap, blind>>

\* A pose and a scan in time, a goal, a path that was found, and no loss of localization.
CanDrive ==
  /\ havePose /\ poseFresh /\ haveGoal
  /\ pathFound /\ pathFresh
  /\ scanAge <= ScanTimeout
  /\ loc.mode => loc.matched /\ loc.lost # MaxLost

ControllerTick ==
  /\ "controller" \in due /\ cmd = C!NoCommand
  /\ C!Tick
  /\ due' = due \ {"controller"}
  /\ blind' = IF CanDrive THEN 0 ELSE blind
  /\ UNCHANGED <<smoother, odd, up, gap>>

SmootherCommand ==
  /\ "smoother" \in up /\ cmd # C!NoCommand
  /\ S!OnCmdVelTwist(cmd)
  /\ cmd' = C!NoCommand
  /\ UNCHANGED <<stored, due, odd, up, gap, blind>>

SmootherTick ==
  /\ "smoother" \in due
  /\ S!OnTick
  /\ due' = due \ {"smoother"}
  /\ UNCHANGED <<controller, odd, up, gap, blind>>

\* An input the smoother cannot read.
SmootherBadInput ==
  /\ "smoother" \in up
  /\ S!OnBadInputOrStop
  /\ UNCHANGED <<controller, due, odd, up, gap, blind>>

-----------------------------------------------------------------------------
Leave(node) == node \in up /\ up' = up \ {node} /\ due' = due \ {node}

\* The Stop event: a last zero, and the node is gone.
ControllerStops ==
  /\ Leave("controller") /\ cmd = C!NoCommand
  /\ C!OnStop
  /\ UNCHANGED <<smoother, odd, gap, blind>>

SmootherStops ==
  /\ Leave("smoother")
  /\ S!OnBadInputOrStop
  /\ UNCHANGED <<controller, odd, gap, blind>>

\* The controller's process dies without a word.
ControllerDies ==
  /\ Leave("controller")
  /\ C!Forget
  /\ UNCHANGED <<cmd, smoother, odd, gap, blind>>

\* The robot drives a unit of time on what the smoother sent last; the nodes have handled
\* the unit before.  What is sent to a node that has left is lost.
Elapse ==
  /\ due = {} /\ (cmd = C!NoCommand \/ "smoother" \notin up)
  /\ IF cmd = C!NoCommand THEN C!Elapse
     ELSE cmd' = C!NoCommand /\ UNCHANGED stored
  /\ S!Elapse
  /\ gap' = IF current["vx"] >= gap THEN 0 ELSE gap - current["vx"]
  /\ blind' = IF blind > StopTime THEN blind ELSE blind + 1
  /\ odd' = ~odd
  /\ due' = {n \in up : n = "smoother" \/ odd}
  /\ UNCHANGED up

Next ==
  \/ Receive \/ ControllerTick \/ SmootherCommand \/ SmootherTick \/ SmootherBadInput
  \/ ControllerStops \/ SmootherStops \/ ControllerDies \/ Elapse

Spec == Init /\ [][Next]_vars

-----------------------------------------------------------------------------
TypeOK ==
  /\ C!TypeOK
  /\ target \in [Axis -> Int] /\ current \in [Axis -> Int] /\ targetAge \in -1..VelocityTimeout + 1
  /\ due \subseteq up /\ up \subseteq {"controller", "smoother"}
  /\ odd \in BOOLEAN
  /\ gap \in C!Gap
  /\ blind \in 0..StopTime + 1

\* The robot never drives into the distance it must keep from what stands before it: not
\* on an old scan, not while the smoother still slows down, not when the controller dies
\* between a command and the next.
KeepsItsDistance == gap > Limit

\* The fastest the robot may be n units after a scan that found it no faster than u and has
\* the controller ask for no more than w: the first tick with the scan comes within Reaction
\* units, and every unit after it an update brakes by a whole step.
Reaction == IF ScanTimeout < 2 THEN ScanTimeout ELSE 2
Fastest(u, w, n) ==
  LET slowed == u - S!Abs(MaxDecel["vx"]) * (IF n < Reaction THEN 0 ELSE n - Reaction + 1)
  IN  IF slowed > w THEN slowed ELSE w

\* The horizon is long enough: a robot of speed c that has reserve[c] before it can brake;
\* the horizon at w, less what of it lies in the self filter's box and what the beams may
\* miss, or the reserve that u had, is enough to drive as fast as Fastest allows until a
\* command on the oldest scan has timed out; and what is left of it by the next tick is the
\* reserve of w.
HorizonSuffices(reserve, left) ==
  LET speeds == 0..DesiredSpeed
      asked == MinSpeed..DesiredSpeed
      units == 0..ScanTimeout + VelocityTimeout
  IN  /\ reserve \in [speeds -> Nat] /\ reserve[0] = 0
      /\ \A c \in speeds : \A b \in 0..c :
           /\ reserve[b] <= reserve[c]
           /\ b <= c - S!Abs(MaxDecel["vx"]) => b + reserve[b] <= reserve[c]
      /\ left \in [speeds -> [asked -> [0..ScanTimeout + VelocityTimeout + 2 -> Nat]]]
      /\ \A u \in speeds, w \in asked :
           /\ left[u][w][0] + Spread + (Keep - Limit) <= w * Horizon \/ left[u][w][0] <= reserve[u]
           /\ \A n \in units : Fastest(u, w, n) + left[u][w][n + 1] <= left[u][w][n]
           /\ \A n \in 0..ScanTimeout + 2 : reserve[w] <= left[u][w][n]

\* A controller that loses its pose, its scan, its path, its goal or the localization, or
\* that is gone, has the robot standing within StopTime, through the last command, the
\* ramp or the smoother's own timeout.
BlindStands == blind > StopTime => current = S!Still

\* What leaves the smoother is within its limits, whatever the controller asks for, and
\* nothing moves without a command to answer for it.
Limited == S!Limited

\* A command to follow the path makes the robot drive, however small a step the smoother
\* allows and whatever its deadband swallows.
FollowingDrives == [][SmootherCommand /\ cmd["vx"] > 0 => current'["vx"] > 0]_vars
=============================================================================
