--------------------------- MODULE NavSupervisor ---------------------------
(***************************************************************************)
(* The navigation supervisor node: the only node wired to the chassis      *)
(* velocity input.  One action per input of its event loop; every action   *)
(* but the passage of time is a whole handler, the evaluation that follows *)
(* the message included.                                                   *)
(*                                                                         *)
(* Time stamps are kept as ages.  The code only compares `now - stamp'     *)
(* with a timeout, so an age stops counting one past the largest value its *)
(* comparisons tell apart; Unset is the code's stamp 0.  Poses and goals   *)
(* are abstract: what the node computes from their coordinates is which    *)
(* poses lie within tolerance of a goal (ReachedAt) and which count as     *)
(* movement from a baseline (MovedFrom).                                   *)
(***************************************************************************)
EXTENDS Integers

CONSTANTS
  Pose, Goal,        \* what CorrectedPose and GoalPose can carry
  NoPose, NoGoal,    \* have_pose, have_goal are false
  ReachedAt,         \* [Goal -> SUBSET Pose]: poses within both tolerances of the goal
  MovedFrom,         \* [Pose -> SUBSET Pose]: poses beyond the required movement
  LocalReport,       \* the <<mode, reason>> pairs of LocalPlannerStatus
  LocReport,         \* localization fields a pose message can carry
  NoReport,          \* a pose message without those fields
  Command,           \* local velocity commands
  PoseTimeout, NavTimeout, BlockedTimeout, ProgressTimeout, ReplanCooldown,
  MaxReplans, MaxLost

ASSUME SupervisorAssumption ==
  /\ NoPose \notin Pose /\ NoGoal \notin Goal /\ NoReport \notin LocReport
  /\ ReachedAt \in [Goal -> SUBSET Pose]
  /\ MovedFrom \in [Pose -> SUBSET Pose]
  /\ LocReport \subseteq [mode : BOOLEAN, lost : Nat]
  /\ Command \intersect {"silence", "stop"} = {}
  /\ PoseTimeout \in Nat /\ NavTimeout \in Nat /\ BlockedTimeout \in Nat
  /\ ReplanCooldown \in Nat /\ ProgressTimeout \in Nat \ {0}
  /\ MaxReplans \in Nat /\ MaxLost \in Nat

VARIABLES
  pose, poseAge,     \* last pose and its age
  loc,               \* localization_mode and localization_lost_count
  local,             \* <<local_mode, local_reason>>
  goal,              \* active goal
  session,           \* the bookkeeping of the active goal
  navState,          \* last_nav_state
  out                \* what the last step sent: command, reason, replan request

inputs == <<pose, poseAge, loc, local, goal>>
vars == <<pose, poseAge, loc, local, goal, session, navState, out>>

Unset == -1
Terminal == {"REACHED", "TIMEOUT", "LOCALIZATION_LOST"}
NoOutcome == "OPEN"
NavState == Terminal \union {"STARTING", "POSE_TIMEOUT", "WAIT_GOAL", "RUNNING", "BLOCKED"}

\* The reasons published with BLOCKED; "none" stands for the others, each of which
\* follows from the state.
Immediate == {"no_global_path", "collision_ahead", "rotation_blocked"}
Reason == Immediate \union {"none", "blocked_timeout", "stalled_no_progress"}

Silence == [cmd |-> "silence", reason |-> "none", replan |-> FALSE]

\* local_mode and local_reason before the first report.
Unheard == <<"UNKNOWN", "unknown">>

\* A session before its goal, and the one a changed goal opens: the progress
\* check starts from the current pose, if there is one.
NewSession(p, age) ==
  [goalAge |-> age, latch |-> NoOutcome, blocked |-> Unset, replans |-> 0,
   replanAge |-> Unset, baseline |-> p, still |-> IF p = NoPose THEN Unset ELSE 0]

Init ==
  /\ pose = NoPose /\ poseAge = Unset
  /\ loc = [mode |-> FALSE, lost |-> 0]
  /\ local = Unheard
  /\ goal = NoGoal
  /\ session = NewSession(NoPose, Unset)
  /\ navState = "STARTING"
  /\ out = Silence

-----------------------------------------------------------------------------
\* The evaluation.

IsImmediateBlockedReason(reason) == reason \in Immediate

IsBlockedMode(mode, reason) ==
  \/ mode \in {"STOP", "BLOCKED"}
  \/ reason \in {"no_valid_trajectory", "blocked_no_side", "front_blocked_stop_only",
                 "front_emergency_stop", "bypass_no_progress", "no_scan", "cmd_timeout"}

\* Mutant: once there is a pose it never gets stale.
Sensed_NeverStale(p, age, l, g, s) ==
  IF p = NoPose THEN "POSE_TIMEOUT"
  ELSE IF g = NoGoal THEN "WAIT_GOAL"
  ELSE IF p \in ReachedAt[g] THEN "REACHED"
  ELSE IF s.goalAge > NavTimeout THEN "TIMEOUT"
  ELSE IF l.mode /\ l.lost >= MaxLost THEN "LOCALIZATION_LOST"
  ELSE "RUNNING"

\* The first cascade: pose, goal, arrival, deadline, localization.
Sensed(p, age, l, g, s) ==
  IF p = NoPose \/ age > PoseTimeout THEN "POSE_TIMEOUT"
  ELSE IF g = NoGoal THEN "WAIT_GOAL"
  ELSE IF p \in ReachedAt[g] THEN "REACHED"
  ELSE IF s.goalAge > NavTimeout THEN "TIMEOUT"
  ELSE IF l.mode /\ l.lost >= MaxLost THEN "LOCALIZATION_LOST"
  ELSE "RUNNING"

\* Mutant: the timer starts over on every blocked evaluation.
BlockedSince_Restarts(sensed, report, since) ==
  IF sensed # "RUNNING" \/ IsImmediateBlockedReason(report[2]) THEN since
  ELSE IF ~IsBlockedMode(report[1], report[2]) THEN Unset ELSE 0

\* blocked_since_ms after the evaluation: it is touched only while RUNNING, and
\* not by a reason that blocks at once.
BlockedSince(sensed, report, since) ==
  IF sensed # "RUNNING" \/ IsImmediateBlockedReason(report[2]) THEN since
  ELSE IF ~IsBlockedMode(report[1], report[2]) THEN Unset
  ELSE IF since = Unset THEN 0 ELSE since

\* Mutant: an immediate reason waits for the timeout like the others.
LocallyBlocked_AlwaysTimed(report, since) ==
  IsBlockedMode(report[1], report[2]) /\ since > BlockedTimeout

\* The local planner's report blocks the robot: at once, or after the timeout.
LocallyBlocked(report, since) ==
  \/ IsImmediateBlockedReason(report[2])
  \/ IsBlockedMode(report[1], report[2]) /\ since > BlockedTimeout

\* Mutant: any new pose counts as progress, jitter included.
Moved_ByJitter(s, p) == s.baseline = NoPose \/ p # s.baseline

\* SupervisorProgress::stalled restarts its timer: the first pose, or enough movement.
Moved(s, p) == s.baseline = NoPose \/ p \in MovedFrom[s.baseline]

\* Mutant: the outcome is computed afresh on every evaluation.
Latched_Recomputed(s, found) == IF found \in Terminal THEN found ELSE NoOutcome

\* The terminal latch after an evaluation that found state `found'.
Latched(s, found) ==
  IF s.latch # NoOutcome THEN s.latch
  ELSE IF found \in Terminal THEN found ELSE NoOutcome

ShouldForwardLocalCommand(nav, latch) == nav = "RUNNING" /\ latch = NoOutcome

\* A request is due: attempts are left, and BLOCKED is new or has cooled down.
ReplanDue(nav, s) ==
  /\ nav = "BLOCKED"
  /\ s.replans < MaxReplans
  /\ navState # "BLOCKED" \/ s.replanAge = Unset \/ s.replanAge >= ReplanCooldown

BlockedReason(stalled, reason) ==
  IF stalled THEN "stalled_no_progress"
  ELSE IF IsImmediateBlockedReason(reason) THEN reason
  ELSE "blocked_timeout"

\* One evaluation with session s, after the handler stored its message: it reads
\* the stored inputs, and command c came with this event (or none did).
Evaluate(s, c) ==
  LET sensed  == Sensed(pose', poseAge', loc', goal', s)
      since   == BlockedSince(sensed, local', s.blocked)
      blocked == sensed = "RUNNING" /\ LocallyBlocked(local', since)
      watched == sensed = "RUNNING" /\ ~blocked
      moved   == watched /\ Moved(s, pose')
      stalled == watched /\ ~moved /\ s.still > ProgressTimeout
      found   == IF blocked \/ stalled THEN "BLOCKED" ELSE sensed
      latch   == Latched(s, found)
      nav     == IF latch # NoOutcome THEN latch ELSE found
      replan  == ReplanDue(nav, s)
  IN /\ session' = [s EXCEPT
           !.latch = latch,
           !.blocked = since,
           !.replans = IF replan THEN @ + 1 ELSE @,
           !.replanAge = IF replan THEN 0 ELSE @,
           !.baseline = IF moved THEN pose' ELSE @,
           !.still = IF moved THEN 0 ELSE @]
     /\ navState' = nav
     /\ out' = [cmd |-> IF ShouldForwardLocalCommand(nav, latch) THEN c ELSE "stop",
                reason |-> IF nav = "BLOCKED" THEN BlockedReason(stalled, local'[2])
                           ELSE "none",
                replan |-> replan]

-----------------------------------------------------------------------------
\* The handlers.

StorePose(p, r) ==
  /\ pose' = p
  /\ poseAge' = 0
  /\ loc' = IF r = NoReport THEN loc ELSE r
  /\ UNCHANGED <<local, goal>>

OnCorrectedPose(p, r) == StorePose(p, r) /\ Evaluate(session, "silence")

\* The inputs named Pose and Odometry store a pose and are not evaluated.
OnOtherPose(p, r) ==
  /\ StorePose(p, r)
  /\ out' = Silence
  /\ UNCHANGED <<session, navState>>

OnLocalPlannerStatus(report) ==
  /\ local' = report
  /\ UNCHANGED <<pose, poseAge, loc, goal>>
  /\ Evaluate(session, "silence")

\* Mutant: a repeated goal opens a session of its own.
OnGoalPose_Reopens(g) ==
  /\ goal' = g
  /\ UNCHANGED <<pose, poseAge, loc, local>>
  /\ Evaluate(NewSession(pose, 0), "silence")

\* pose_goal repeats the goal on every correction it forwards; only a different
\* one opens a session.
OnGoalPose(g) ==
  /\ goal' = g
  /\ UNCHANGED <<pose, poseAge, loc, local>>
  /\ Evaluate(IF g = goal THEN session ELSE NewSession(pose, 0), "silence")

OnCmdVelTwist(c) == UNCHANGED inputs /\ Evaluate(session, c)

\* The timer tick; also any evaluated input whose text does not parse, which the
\* handler's catch turns into an evaluation of what is stored.
OnTick == UNCHANGED inputs /\ Evaluate(session, "silence")

Older(age, cap) == IF age = Unset \/ age >= cap THEN age ELSE age + 1

\* One unit of time between two events.
Elapse ==
  /\ poseAge' = Older(poseAge, PoseTimeout + 1)
  /\ session' = [session EXCEPT
       !.goalAge = Older(@, NavTimeout + 1),
       !.blocked = Older(@, BlockedTimeout + 1),
       !.replanAge = Older(@, ReplanCooldown),
       !.still = Older(@, ProgressTimeout + 1)]
  /\ out' = Silence
  /\ UNCHANGED <<pose, loc, local, goal, navState>>

\* A corrected pose arrives, with or without localization fields.
PoseArrives == \E p \in Pose, r \in LocReport \union {NoReport} : OnCorrectedPose(p, r)

Next ==
  \/ PoseArrives
  \/ \E p \in Pose, r \in LocReport \union {NoReport} : OnOtherPose(p, r)
  \/ \E report \in LocalReport : OnLocalPlannerStatus(report)
  \/ \E g \in Goal : OnGoalPose(g)
  \/ \E c \in Command : OnCmdVelTwist(c)
  \/ OnTick
  \/ Elapse

Spec == Init /\ [][Next]_vars

\* The dora timer fires for as long as the flow runs, and the clock advances.
FairSpec == Spec /\ WF_vars(OnTick) /\ WF_vars(Elapse)

-----------------------------------------------------------------------------
\* The values of the variables: ages within what the code tells apart, a session
\* that belongs to the goal, a request count within the limit.
Ages(cap) == {Unset} \union 0..cap

SessionType ==
  [goalAge : Ages(NavTimeout + 1), latch : Terminal \union {NoOutcome},
   blocked : Ages(BlockedTimeout + 1), replans : 0..MaxReplans,
   replanAge : Ages(ReplanCooldown), baseline : Pose \union {NoPose},
   still : Ages(ProgressTimeout + 1)]

TypeOK ==
  /\ pose \in Pose \union {NoPose}
  /\ poseAge \in Ages(PoseTimeout + 1)
  /\ loc \in [mode : BOOLEAN, lost : Nat]
  /\ local \in LocalReport \union {Unheard}
  /\ goal \in Goal \union {NoGoal}
  /\ session \in SessionType
  /\ navState \in NavState
  /\ out \in [cmd : Command \union {"silence", "stop"}, reason : Reason, replan : BOOLEAN]

Moving == out.cmd \in Command

\* A command reaches the chassis only from a state in which every reason to hold
\* the robot is absent: a fresh pose, an open goal that is neither reached nor
\* overdue, localization, a local planner that does not report a blockage, and
\* movement within the progress timeout.  README.md:34.
ForwardIsSafe ==
  Moving =>
    /\ pose \in Pose /\ poseAge <= PoseTimeout
    /\ goal \in Goal /\ pose \notin ReachedAt[goal]
    /\ session.goalAge <= NavTimeout
    /\ session.latch = NoOutcome
    /\ ~(loc.mode /\ loc.lost >= MaxLost)
    /\ ~IsImmediateBlockedReason(local[2])
    /\ IsBlockedMode(local[1], local[2]) => session.blocked \in 0..BlockedTimeout
    /\ session.baseline \in Pose /\ session.still \in 0..ProgressTimeout

\* Nothing but a different goal restarts a mission: a goal that pose_goal repeats,
\* a new pose or a new report never gives time or requests back, never clears the
\* latch and never lets a latched robot move or ask for a path.
\* docs/OPERATIONS.md:114, docs/VALIDATION.md:68.
SessionKept ==
  /\ session'.goalAge >= session.goalAge
  /\ session'.replans >= session.replans
  /\ session.latch # NoOutcome =>
       session'.latch = session.latch /\ ~Moving' /\ ~out'.replan

SessionSurvivesResend == [][goal' = goal => SessionKept]_vars

\* The robot has stayed within the radius of its baseline for too long.
Stuck ==
  /\ session.baseline \in Pose /\ session.still > ProgressTimeout
  /\ pose \notin MovedFrom[session.baseline]

\* A stall ends by real displacement or a different goal only: jitter, repeated
\* goals, replanning and new reports of the local planner leave the robot held.
StallHolds ==
  [][Stuck /\ goal' = goal /\ pose' \notin MovedFrom[session.baseline]
       => ~Moving' /\ Stuck']_vars

\* The grace of a blockage is granted once: while the reports stay blocked, more of
\* them, new poses and repeated goals never put the timer back, so BlockedTimeout
\* bounds how long the robot may move under a blocked local planner.
BlockageKept ==
  session'.blocked >= session.blocked

GraceGrantedOnce ==
  [][goal' = goal /\ IsBlockedMode(local'[1], local'[2]) => BlockageKept]_vars

\* The supervisor implements the mission gate.
Gate == INSTANCE MissionGate WITH
  Outcome <- Terminal,
  outcome <- session.latch,
  replans <- session.replans,
  emitted <- IF out.replan THEN "replan" ELSE IF Moving THEN "motion" ELSE "nothing"

GateSpec == Gate!Spec

\* A mission whose goal stays ends in an outcome as long as corrected poses keep
\* arriving: blockage, stalls and repeated goals do not keep it open for ever.
MissionEnds ==
  \A g \in Goal : <>[](goal = g) /\ []<><<PoseArrives>>_vars => <>(session.latch # NoOutcome)
=============================================================================
