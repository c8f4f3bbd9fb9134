------------------------ MODULE LocalizedNavigation ------------------------
(***************************************************************************)
(* The flow adora_nano_localization_navigation.yml as far as motion goes:  *)
(* the Karto node publishes CorrectedPose and SafetyStop, the supervisor   *)
(* receives them in order with its other inputs and decides what reaches   *)
(* the chassis, and the robot moves only when a command does.  Karto's     *)
(* poses carry none of the supervisor's localization fields.               *)
(***************************************************************************)
EXTENDS KartoRuntime, NodeMessages, KartoSettings, DriveSettings, MapPaths, PoseConstraints

CONSTANTS
  Destination, NoDestination, \* the goals pose_goal may be given
  PoseTimeout, NavTimeout,   \* of the supervisor
  QueueSize,                 \* of the inputs from Karto
  MaxInitial, MaxLow         \* bounds: initial poses given, low matches met

VARIABLES
  mail,                      \* Karto's outputs on their way to the supervisor
  driven,                    \* the last command sent to the chassis moves it
  given, lows,               \* initial poses and low matches so far
  pose, poseAge, loc, local, goal, session, navState, decision

supVars == <<pose, poseAge, loc, local, goal, session, navState, decision>>
navVars == <<kartoVars, supVars, mail, driven, given, lows>>

\* Destinations the robot never reaches, and progress whenever a pose comes: what else
\* could hold the robot is left out, so that localization and the deadline do.
Sup == INSTANCE NavSupervisor WITH
  Pose <- {"here"}, NoPose <- "nowhere", Goal <- Destination, NoGoal <- NoDestination,
  ReachedAt <- [g \in Destination |-> {}], MovedFrom <- [p \in {"here"} |-> {"here"}],
  LocalReport <- {}, LocReport <- {}, NoReport <- "no report", Command <- {"drive"},
  BlockedTimeout <- 0, ProgressTimeout <- NavTimeout + 1, ReplanCooldown <- 0,
  MaxReplans <- 0, MaxLost <- StopAfter, out <- decision

NavInit ==
  /\ KartoInit /\ Sup!Init
  /\ mail = <<>> /\ driven = FALSE /\ given = 0 /\ lows = 0

-----------------------------------------------------------------------------
\* Karto's steps: what it sends joins the mail, the oldest dropped when it is full.
Posted == LET all == mail \o out'
          IN SubSeq(all, 1 + Max({0, Len(all) - QueueSize}), Len(all))

KartoStep == mail' = Posted /\ UNCHANGED <<supVars, driven>>

\* Wheel odometry: the position changes only while the robot is driven.
Odometry ==
  \E step \in Step, at \in Position :
    /\ odometry # <<>> /\ ~driven => at = Last(odometry).at
    /\ OnOdometry(step, at)
    /\ KartoStep
    /\ UNCHANGED <<given, lows>>

Scan(answer) ==
  /\ answer = "low" => lows < MaxLow
  /\ \E offset \in ScanOffset : OnLaserScan(offset, answer)
  /\ lows' = IF answer = "low" THEN lows + 1 ELSE lows
  /\ KartoStep
  /\ UNCHANGED given

\* A line in which the node finds three numbers; Karto may still refuse it.
InitialPose ==
  /\ given < MaxInitial
  /\ \E line \in {sent \in Line : ValidPose(sent)} :
       \/ ParseInitialPose(line) /\ OnInitialPose
       \/ ~ParseInitialPose(line) /\ OnBadInitialPose
  /\ given' = given + 1
  /\ KartoStep
  /\ UNCHANGED lows

\* The supervisor's steps; what it sends drives the chassis or stops it.
SupervisorStep ==
  /\ driven' = IF decision'.cmd = "silence" THEN driven ELSE decision'.cmd = "drive"
  /\ UNCHANGED <<kartoVars, given, lows>>

\* SafetyStop has no branch in the supervisor and is not one of the inputs after
\* which it evaluates.
OnSafetyStop ==
  /\ decision' = Sup!Silence
  /\ UNCHANGED <<pose, poseAge, loc, local, goal, session, navState>>

Deliver ==
  /\ mail # <<>>
  /\ IF Head(mail).id = "SafetyStop" THEN OnSafetyStop
     ELSE Sup!OnCorrectedPose("here", "no report")
  /\ mail' = Tail(mail)
  /\ SupervisorStep

LocalCommand == Sup!OnCmdVelTwist("drive") /\ UNCHANGED mail /\ SupervisorStep

Goal ==
  /\ \E destination \in Destination : Sup!OnGoalPose(destination)
  /\ UNCHANGED mail
  /\ SupervisorStep

SupervisorTick == Sup!OnTick /\ UNCHANGED mail /\ SupervisorStep

\* The clock of both nodes.
TimePasses ==
  /\ Wait /\ Sup!Elapse
  /\ UNCHANGED <<mail, driven, given, lows>>

NavNext ==
  \/ Odometry
  \/ \E answer \in Verdict : Scan(answer)
  \/ InitialPose
  \/ Deliver
  \/ LocalCommand
  \/ Goal
  \/ SupervisorTick
  \/ TimePasses

NavSpec == NavInit /\ [][NavNext]_navVars

\* Every node keeps running: wheels and lidar report, good matches among the scans,
\* messages arrive, the timer fires.
NavFairSpec ==
  /\ NavSpec
  /\ WF_navVars(Odometry) /\ WF_navVars(Scan("good"))
  /\ WF_navVars(Deliver) /\ WF_navVars(SupervisorTick) /\ WF_navVars(TimePasses)

-----------------------------------------------------------------------------
\* The edges of Karto's graph, and its scans, mean the same to those who make and use them.
MeasurementsAreUnderstood ==
  /\ \A relative, a, b, move \in KnownPose : \A w \in 1..2 :
       EdgeIsUnderstood(relative, a, b, move, [x |-> w, y |-> 1, yaw |-> 3 - w])
  /\ \A step \in [x : 0..1, y : {1}], turn \in -1..1, mount \in KnownPose, increment \in {2, 4} :
       \A last \in {3 * increment - 1, 3 * increment} : WallsStandStill(step, turn, mount, increment, last)

\* Every node of the flow makes of a message what its writer meant: where the robot is
\* and where it goes, when it was there, how fast it drives, and whether the controller is
\* blocked or there; of its settings what the operator asked for; of Karto's measurements
\* what they were taken for; of the numbers that Karto, the controller, the smoother and the
\* wheels are set up with, a robot that localizes and drives; and of its files, one map.
\* Nothing but agreement between the programs' sources and the flow ensures it.
MessagesAreUnderstood ==
  /\ PosesAreRead /\ StampsFollowTheClock /\ LinesArePassedOn
  /\ ScansAreUnderstood /\ MissionIsTheOneAsked /\ GoalIsReachedTogether
  /\ KartoIsSetUp /\ DriveIsSetUp /\ MapIsOne /\ MeasurementsAreUnderstood
  /\ decision # Sup!Silence => CommandsArrive(driven, navState)
  /\ \A outcome \in LocalOutcome :
       LET report == LocalReportOf(StatusMessage(outcome))
       IN (Sup!IsImmediateBlockedReason(report[2]) \/ Sup!IsBlockedMode(report[1], report[2]))
            <=> outcome[1] = "BLOCKED"

\* A robot whose prediction is revoked and never anchored again comes to a stop for
\* good: an initial pose, or a malformed one, silences the poses, and the supervisor
\* holds what has no fresh pose.
UnanchoredIsHeld == <>[]~tracking.anchored => <>[]~driven

\* README.md:34: zero velocity is published while localization is lost.  Once the
\* SafetyStop of a sustained loss has been delivered, no command passes while the
\* loss lasts.
LossIsHeld ==
  [][tracking.losses >= StopAfter /\ mail = <<>> => decision'.cmd # "drive"]_navVars

\* KARTO_ACCEPTANCE.md:51: a brief mismatch is recovered from.  With fewer low
\* matches than ask for a stop, an initialized node comes back to publishing poses.
MismatchRecovers == tracking.initialized ~> tracking.anchored
=============================================================================
