------------------------ MODULE NavSupervisorProofs ------------------------
(***************************************************************************)
(* Theorems about the navigation supervisor for every set of poses and     *)
(* goals, every tolerance and every timeout.                               *)
(***************************************************************************)
EXTENDS NavSupervisor, TLAPS

OutType == [cmd : Command \union {"silence", "stop"}, reason : Reason, replan : BOOLEAN]

\* The part of the evaluation that decides the navigation state returns one.
LEMMA LatchedType ==
  ASSUME NEW s \in SessionType, NEW found
  PROVE  /\ Latched(s, found) \in Terminal \union {NoOutcome}
         /\ s.latch # NoOutcome => Latched(s, found) = s.latch
         /\ Latched(s, found) = s.latch \/ Latched(s, found) = found
  BY DEF Latched, SessionType

LEMMA SensedType ==
  ASSUME NEW p, NEW age, NEW l, NEW g, NEW s
  PROVE  /\ Sensed(p, age, l, g, s) \in NavState \ {"BLOCKED", "STARTING"}
         /\ Sensed(p, age, l, g, s) \in Terminal => g # NoGoal
         /\ Sensed(p, age, l, g, s) = "RUNNING" =>
              /\ p # NoPose /\ ~(age > PoseTimeout) /\ g # NoGoal /\ p \notin ReachedAt[g]
              /\ ~(s.goalAge > NavTimeout) /\ ~(l.mode /\ l.lost >= MaxLost)
  BY DEF Sensed, NavState, Terminal

LEMMA BlockedSinceType ==
  ASSUME NEW sensed, NEW report, NEW since \in Ages(BlockedTimeout + 1)
  PROVE  /\ BlockedSince(sensed, report, since) \in Ages(BlockedTimeout + 1)
         /\ IsBlockedMode(report[1], report[2]) => BlockedSince(sensed, report, since) >= since
  BY SupervisorAssumption DEF BlockedSince, Ages, Unset

LEMMA BlockedReasonType ==
  ASSUME NEW stalled, NEW reason
  PROVE  BlockedReason(stalled, reason) \in Reason
  BY DEF BlockedReason, IsImmediateBlockedReason, Reason

\* What one evaluation does to the session and to the outputs, in the terms the
\* theorems use.
LEMMA EvaluateLaw ==
  ASSUME NEW s \in SessionType, NEW c \in Command \union {"silence"},
         pose' \in Pose \union {NoPose},
         local' \in LocalReport \union {Unheard},
         Evaluate(s, c)
  PROVE  /\ session' \in SessionType
         /\ navState' \in NavState
         /\ out' \in OutType
         /\ session'.goalAge = s.goalAge
         /\ session'.latch = s.latch \/ (session'.latch \in Terminal /\ goal' # NoGoal)
         /\ s.latch # NoOutcome => session'.latch = s.latch
         /\ session'.latch # NoOutcome => out'.cmd = "stop" /\ out'.replan = FALSE
         /\ out'.replan => s.replans < MaxReplans /\ session'.replans = s.replans + 1
         /\ ~out'.replan => session'.replans = s.replans
         /\ out'.replan => out'.cmd = "stop"
         /\ session'.replans >= s.replans
         /\ out'.cmd \in {c, "stop"}
         /\ out'.replan \/ out'.cmd # "stop" =>
              /\ pose' # NoPose /\ ~(poseAge' > PoseTimeout)
              /\ goal' # NoGoal /\ pose' \notin ReachedAt[goal']
              /\ ~(s.goalAge > NavTimeout) /\ ~(loc'.mode /\ loc'.lost >= MaxLost)
         /\ out'.cmd # "stop" =>
              /\ session'.latch = NoOutcome
              /\ ~LocallyBlocked(local', session'.blocked)
              /\ IsBlockedMode(local'[1], local'[2]) => session'.blocked # Unset
              /\ session'.baseline # NoPose
              /\ session'.still = 0 \/ ~(session'.still > ProgressTimeout)
         /\ \/ session'.baseline = s.baseline /\ session'.still = s.still
            \/ session'.still = 0 /\ Moved(s, pose')
         /\ IsBlockedMode(local'[1], local'[2]) => session'.blocked >= s.blocked
  <1> DEFINE sensed  == Sensed(pose', poseAge', loc', goal', s)
             since   == BlockedSince(sensed, local', s.blocked)
             blocked == sensed = "RUNNING" /\ LocallyBlocked(local', since)
             watched == sensed = "RUNNING" /\ ~blocked
             moved   == watched /\ Moved(s, pose')
             stalled == watched /\ ~moved /\ s.still > ProgressTimeout
             found   == IF blocked \/ stalled THEN "BLOCKED" ELSE sensed
             latch   == Latched(s, found)
             nav     == IF latch # NoOutcome THEN latch ELSE found
             replan  == ReplanDue(nav, s)
  <1>1. /\ session' = [s EXCEPT !.latch = latch, !.blocked = since,
                         !.replans = IF replan THEN @ + 1 ELSE @,
                         !.replanAge = IF replan THEN 0 ELSE @,
                         !.baseline = IF moved THEN pose' ELSE @,
                         !.still = IF moved THEN 0 ELSE @]
        /\ navState' = nav
        /\ out' = [cmd |-> IF ShouldForwardLocalCommand(nav, latch) THEN c ELSE "stop",
                   reason |-> IF nav = "BLOCKED" THEN BlockedReason(stalled, local'[2])
                              ELSE "none",
                   replan |-> replan]
    BY DEF Evaluate
  <1>2. sensed \in NavState \ {"BLOCKED", "STARTING"} /\ (sensed \in Terminal => goal' # NoGoal)
    BY SensedType
  <1>3. /\ since \in Ages(BlockedTimeout + 1)
        /\ IsBlockedMode(local'[1], local'[2]) => since >= s.blocked
    BY BlockedSinceType DEF SessionType
  <1>4. found \in NavState /\ (found \in Terminal => goal' # NoGoal)
    BY <1>2 DEF NavState, Terminal
  <1>5. /\ latch \in Terminal \union {NoOutcome}
        /\ s.latch # NoOutcome => latch = s.latch
        /\ latch = s.latch \/ (latch = found /\ found \in Terminal)
    BY DEF Latched, SessionType
  <1>6. nav \in NavState
    BY <1>4, <1>5 DEF NavState
  <1>7. replan \in BOOLEAN
    BY DEF ReplanDue
  <1>8. replan => nav = "BLOCKED" /\ s.replans < MaxReplans
    BY DEF ReplanDue
  <1>9. latch # NoOutcome => nav # "BLOCKED" /\ nav # "RUNNING"
    BY <1>5 DEF Terminal
  <1>10. BlockedReason(stalled, local'[2]) \in Reason
    BY BlockedReasonType
  <1>14. nav \in {"RUNNING", "BLOCKED"} => sensed = "RUNNING" /\ latch = NoOutcome
    BY <1>2, <1>5 DEF Terminal
  <1>15. sensed = "RUNNING" =>
           /\ pose' # NoPose /\ ~(poseAge' > PoseTimeout)
           /\ goal' # NoGoal /\ pose' \notin ReachedAt[goal']
           /\ ~(s.goalAge > NavTimeout) /\ ~(loc'.mode /\ loc'.lost >= MaxLost)
    BY SensedType
  <1>16. nav = "RUNNING" =>
           /\ ~LocallyBlocked(local', since)
           /\ IsBlockedMode(local'[1], local'[2]) => since # Unset
           /\ moved \/ (s.baseline # NoPose /\ ~(s.still > ProgressTimeout))
    BY <1>14 DEF BlockedSince, LocallyBlocked, Unset, Moved
  <1>17. moved => Moved(s, pose') /\ sensed = "RUNNING"
    OBVIOUS
  <1> HIDE DEF sensed, since, blocked, watched, moved, stalled, found, latch, nav, replan
  <1>11. session' \in SessionType
    <2>1. (IF replan THEN s.replans + 1 ELSE s.replans) \in 0..MaxReplans
      BY <1>8, SupervisorAssumption DEF SessionType
    <2>2. (IF replan THEN 0 ELSE s.replanAge) \in Ages(ReplanCooldown)
      BY SupervisorAssumption DEF SessionType, Ages
    <2>3. (IF moved THEN pose' ELSE s.baseline) \in Pose \union {NoPose}
      BY DEF SessionType
    <2>4. (IF moved THEN 0 ELSE s.still) \in Ages(ProgressTimeout + 1)
      BY SupervisorAssumption DEF SessionType, Ages
    <2> QED
      BY <1>1, <1>3, <1>5, <2>1, <2>2, <2>3, <2>4 DEF SessionType
  <1>12. out' \in OutType
    <2>1. (IF ShouldForwardLocalCommand(nav, latch) THEN c ELSE "stop")
            \in Command \union {"silence", "stop"}
      OBVIOUS
    <2>2. (IF nav = "BLOCKED" THEN BlockedReason(stalled, local'[2]) ELSE "none") \in Reason
      BY <1>10 DEF Reason
    <2> QED
      BY <1>1, <1>7, <2>1, <2>2 DEF OutType
  <1>13. /\ session'.goalAge = s.goalAge /\ session'.latch = latch
         /\ session'.replans = IF replan THEN s.replans + 1 ELSE s.replans
         /\ out'.replan = replan
         /\ out'.cmd = IF ShouldForwardLocalCommand(nav, latch) THEN c ELSE "stop"
         /\ session'.blocked = since
         /\ session'.baseline = IF moved THEN pose' ELSE s.baseline
         /\ session'.still = IF moved THEN 0 ELSE s.still
    BY <1>1 DEF SessionType
  <1>18. session'.replans >= s.replans
    BY <1>13 DEF SessionType
  <1>19. out'.cmd # "stop" => nav = "RUNNING"
    BY <1>13 DEF ShouldForwardLocalCommand
  <1>20. out'.replan \/ out'.cmd # "stop" => sensed = "RUNNING"
    BY <1>8, <1>13, <1>14, <1>19
  <1>21. out'.cmd # "stop" =>
           /\ session'.latch = NoOutcome
           /\ ~LocallyBlocked(local', session'.blocked)
           /\ IsBlockedMode(local'[1], local'[2]) => session'.blocked # Unset
           /\ session'.baseline # NoPose
           /\ session'.still = 0 \/ ~(session'.still > ProgressTimeout)
    BY <1>13, <1>14, <1>15, <1>16, <1>17, <1>19
  <1>22. \/ session'.baseline = s.baseline /\ session'.still = s.still
         \/ session'.still = 0 /\ Moved(s, pose')
    BY <1>13, <1>17
  <1>23. IsBlockedMode(local'[1], local'[2]) => session'.blocked >= s.blocked
    BY <1>3, <1>13
  <1> QED
    BY <1>1, <1>4, <1>5, <1>6, <1>7, <1>8, <1>9, <1>11, <1>12, <1>13, <1>15, <1>18,
       <1>20, <1>21, <1>22, <1>23
       DEF ShouldForwardLocalCommand

-----------------------------------------------------------------------------
LEMMA NewSessionType ==
  ASSUME TypeOK
  PROVE  NewSession(pose, 0) \in SessionType
  BY SupervisorAssumption DEF TypeOK, NewSession, SessionType, Ages

\* Elapse keeps every age in its range and lowers none.
LEMMA OlderType ==
  ASSUME NEW cap \in Nat, NEW age \in Ages(cap)
  PROVE  /\ Older(age, cap) \in Ages(cap)
         /\ Older(age, cap) >= age
  BY DEF Older, Ages, Unset

InputsTyped ==
  /\ pose \in Pose \union {NoPose} /\ poseAge \in Ages(PoseTimeout + 1)
  /\ loc \in [mode : BOOLEAN, lost : Nat] /\ local \in LocalReport \union {Unheard}
  /\ goal \in Goal \union {NoGoal}

\* The four kinds of step: an evaluation of the current session, one of the session
\* a different goal opens, a pose that is stored only, the passage of time.
StepKind ==
  \/ \E c \in Command \union {"silence"} : goal' = goal /\ Evaluate(session, c)
  \/ goal' \in Goal /\ goal' # goal /\ Evaluate(NewSession(pose, 0), "silence")
  \/ goal' = goal /\ out' = Silence /\ UNCHANGED <<session, navState>>
  \/ goal' = goal /\ Elapse

LEMMA StepKinds ==
  ASSUME TypeOK, Next
  PROVE  InputsTyped' /\ StepKind
<1>1. ASSUME NEW p \in Pose, NEW r \in LocReport \union {NoReport}, StorePose(p, r)
      PROVE  InputsTyped' /\ goal' = goal
  BY <1>1, SupervisorAssumption DEF TypeOK, InputsTyped, StorePose, Ages
<1>2. ASSUME NEW p \in Pose, NEW r \in LocReport \union {NoReport}, OnCorrectedPose(p, r)
      PROVE  InputsTyped' /\ StepKind
  BY <1>1, <1>2 DEF OnCorrectedPose, StepKind
<1>3. ASSUME NEW p \in Pose, NEW r \in LocReport \union {NoReport}, OnOtherPose(p, r)
      PROVE  InputsTyped' /\ StepKind
  BY <1>1, <1>3 DEF OnOtherPose, StepKind
<1>4. ASSUME NEW report \in LocalReport, OnLocalPlannerStatus(report)
      PROVE  InputsTyped' /\ StepKind
  BY <1>4, SupervisorAssumption DEF OnLocalPlannerStatus, TypeOK, InputsTyped, StepKind
<1>5. ASSUME NEW g \in Goal, OnGoalPose(g)
      PROVE  InputsTyped' /\ StepKind
  <2>1. CASE g = goal
    BY <1>5, <2>1 DEF OnGoalPose, TypeOK, InputsTyped, StepKind
  <2>2. CASE g # goal
    BY <1>5, <2>2 DEF OnGoalPose, TypeOK, InputsTyped, StepKind
  <2> QED
    BY <2>1, <2>2
<1>6. ASSUME NEW c \in Command, OnCmdVelTwist(c)
      PROVE  InputsTyped' /\ StepKind
  BY <1>6 DEF OnCmdVelTwist, inputs, TypeOK, InputsTyped, StepKind
<1>7. CASE OnTick
  BY <1>7 DEF OnTick, inputs, TypeOK, InputsTyped, StepKind
<1>8. CASE Elapse
  BY <1>8, OlderType, SupervisorAssumption DEF Elapse, TypeOK, InputsTyped, StepKind
<1> QED
  BY <1>2, <1>3, <1>4, <1>5, <1>6, <1>7, <1>8 DEF Next, PoseArrives

\* Time keeps the session in its type and changes nothing but ages, none downwards.
LEMMA ElapseLaw ==
  ASSUME TypeOK, Elapse
  PROVE  /\ session' \in SessionType
         /\ out' = Silence /\ navState' = navState
         /\ session'.goalAge >= session.goalAge
         /\ session'.still >= session.still /\ session'.blocked >= session.blocked
         /\ session'.latch = session.latch /\ session'.replans = session.replans
         /\ session'.baseline = session.baseline
<1> DEFINE ga == Older(session.goalAge, NavTimeout + 1)
           bl == Older(session.blocked, BlockedTimeout + 1)
           ra == Older(session.replanAge, ReplanCooldown)
           st == Older(session.still, ProgressTimeout + 1)
<1>1. /\ session' = [session EXCEPT !.goalAge = ga, !.blocked = bl,
                                    !.replanAge = ra, !.still = st]
      /\ out' = Silence /\ navState' = navState
  BY DEF Elapse
<1>2. session \in SessionType
  BY DEF TypeOK
<1>3. ga \in Ages(NavTimeout + 1) /\ ga >= session.goalAge
  BY <1>2, OlderType, SupervisorAssumption DEF SessionType
<1>4. bl \in Ages(BlockedTimeout + 1) /\ bl >= session.blocked
  BY <1>2, OlderType, SupervisorAssumption DEF SessionType
<1>5. ra \in Ages(ReplanCooldown)
  BY <1>2, OlderType, SupervisorAssumption DEF SessionType
<1>6. st \in Ages(ProgressTimeout + 1) /\ st >= session.still
  BY <1>2, OlderType, SupervisorAssumption DEF SessionType
<1> HIDE DEF ga, bl, ra, st
<1> QED
  BY <1>1, <1>2, <1>3, <1>4, <1>5, <1>6 DEF SessionType

\* Every variable keeps to the values the code can hold; in particular at most
\* MaxReplans requests are counted and every age stays within its bound.
THEOREM TypeCorrect == Spec => []TypeOK
<1>1. Init => TypeOK
  BY SupervisorAssumption
     DEF Init, TypeOK, NewSession, SessionType, Ages, Silence, Reason, NavState, Unset
<1>2. TypeOK /\ [Next]_vars => TypeOK'
  <2> SUFFICES ASSUME TypeOK, [Next]_vars PROVE TypeOK'
    OBVIOUS
  <2>1. CASE UNCHANGED vars
    BY <2>1 DEF vars, TypeOK
  <2>2. CASE Next
    <3>1. InputsTyped' /\ StepKind
      BY <2>2, StepKinds
    <3>2. ASSUME NEW s \in SessionType, NEW c \in Command \union {"silence"}, Evaluate(s, c)
          PROVE  TypeOK'
      BY <3>1, <3>2, EvaluateLaw DEF InputsTyped, OutType, TypeOK
    <3>3. CASE \E c \in Command \union {"silence"} : Evaluate(session, c)
      BY <3>2, <3>3 DEF TypeOK
    <3>4. CASE Evaluate(NewSession(pose, 0), "silence")
      BY <3>2, <3>4, NewSessionType
    <3>5. Silence \in OutType
      BY DEF Silence, OutType, Reason
    <3>6. CASE out' = Silence /\ UNCHANGED <<session, navState>>
      BY <3>1, <3>5, <3>6 DEF InputsTyped, TypeOK, OutType
    <3>7. CASE Elapse
      BY <3>1, <3>5, <3>7, ElapseLaw DEF InputsTyped, TypeOK, OutType
    <3> QED
      BY <3>1, <3>3, <3>4, <3>6, <3>7 DEF StepKind
  <2> QED
    BY <2>1, <2>2
<1> QED
  BY <1>1, <1>2, PTL DEF Spec

-----------------------------------------------------------------------------
\* Nothing but a different goal gives a mission time or requests back, clears its
\* latch, or moves a robot whose outcome is latched.
THEOREM LatchHolds == Spec => SessionSurvivesResend
<1>1. TypeOK /\ [Next]_vars => [goal' = goal => SessionKept]_vars
  <2> SUFFICES ASSUME TypeOK, Next, goal' = goal PROVE SessionKept
    OBVIOUS
  <2>1. session \in SessionType /\ InputsTyped' /\ StepKind
    BY StepKinds DEF TypeOK
  <2>2. CASE \E c \in Command \union {"silence"} : Evaluate(session, c)
    <3> PICK c \in Command \union {"silence"} : Evaluate(session, c)
      BY <2>2
    <3>1. /\ session'.goalAge = session.goalAge /\ session'.replans >= session.replans
          /\ session.latch # NoOutcome =>
               session'.latch = session.latch /\ out'.cmd = "stop" /\ ~out'.replan
      BY <2>1, EvaluateLaw DEF InputsTyped, SessionType, OutType
    <3> QED
      BY <2>1, <3>1, SupervisorAssumption DEF SessionKept, Moving, SessionType, Ages, Unset
  <2>3. CASE out' = Silence /\ UNCHANGED <<session, navState>>
    BY <2>1, <2>3, SupervisorAssumption
       DEF SessionKept, Moving, Silence, SessionType, Ages, Unset
  <2>4. CASE Elapse
    BY <2>1, <2>4, ElapseLaw, SupervisorAssumption DEF SessionKept, Moving, Silence, SessionType
  <2> QED
    BY <2>1, <2>2, <2>3, <2>4 DEF StepKind
<1> QED
  BY <1>1, TypeCorrect, PTL DEF Spec, SessionSurvivesResend

\* While the reports stay blocked nothing puts the blockage timer back, for every
\* timeout and every set of reports.
THEOREM GraceOnce == Spec => GraceGrantedOnce
<1>1. TypeOK /\ [Next]_vars
        => [goal' = goal /\ IsBlockedMode(local'[1], local'[2]) => BlockageKept]_vars
  <2> SUFFICES ASSUME TypeOK, Next, goal' = goal, IsBlockedMode(local'[1], local'[2])
               PROVE  BlockageKept
    OBVIOUS
  <2>1. session \in SessionType /\ InputsTyped' /\ StepKind
    BY StepKinds DEF TypeOK
  <2>2. CASE \E c \in Command \union {"silence"} : Evaluate(session, c)
    BY <2>1, <2>2, EvaluateLaw DEF InputsTyped, BlockageKept
  <2>3. CASE out' = Silence /\ UNCHANGED <<session, navState>>
    BY <2>1, <2>3, SupervisorAssumption DEF BlockageKept, SessionType, Ages, Unset
  <2>4. CASE Elapse
    BY <2>1, <2>4, ElapseLaw DEF BlockageKept
  <2> QED
    BY <2>1, <2>2, <2>3, <2>4 DEF StepKind
<1> QED
  BY <1>1, TypeCorrect, PTL DEF Spec, GraceGrantedOnce

\* The supervisor implements the mission gate: one outcome per goal, motion and at
\* most MaxReplans requests only while it is open.
THEOREM ImplementsGate == Spec => GateSpec
<1>1. Init => Gate!Init
  BY SupervisorAssumption DEF Init, Gate!Init, NewSession, Silence, Moving
<1>2. TypeOK /\ [Next]_vars => [Gate!Next]_(Gate!vars)
  <2> SUFFICES ASSUME TypeOK, [Next]_vars PROVE [Gate!Next]_(Gate!vars)
    OBVIOUS
  <2>1. CASE UNCHANGED vars
    BY <2>1 DEF vars, Gate!vars, Moving
  <2>2. CASE Next
    <3>1. session \in SessionType /\ InputsTyped' /\ StepKind
      BY <2>2, StepKinds DEF TypeOK
    <3>2. ASSUME goal' = goal, session'.latch = session.latch,
                 session'.replans = session.replans, out' = Silence
          PROVE  Gate!Hold
      BY <3>2, SupervisorAssumption DEF Gate!Hold, Moving, Silence
    <3>3. ASSUME NEW s \in SessionType, NEW c \in Command \union {"silence"}, Evaluate(s, c)
          PROVE  /\ session' \in SessionType /\ out' \in OutType
                 /\ \/ session'.latch = s.latch
                    \/ s.latch = NoOutcome /\ session'.latch \in Terminal /\ goal' # NoGoal
                 /\ session'.latch # NoOutcome => ~Moving' /\ ~out'.replan
                 /\ out'.replan => /\ ~Moving' /\ goal' # NoGoal /\ s.replans < MaxReplans
                                  /\ session'.replans = s.replans + 1
                 /\ ~out'.replan => session'.replans = s.replans
                 /\ Moving' => goal' # NoGoal /\ c \in Command
      BY <3>1, <3>3, EvaluateLaw, SupervisorAssumption DEF InputsTyped, Moving
    <3>4. CASE \E c \in Command \union {"silence"} : goal' = goal /\ Evaluate(session, c)
      <4> PICK c \in Command \union {"silence"} : goal' = goal /\ Evaluate(session, c)
        BY <3>4
      <4>1. CASE out'.replan
        BY <4>1, <3>1, <3>3 DEF Gate!Next, Gate!Replan, Gate!Open, OutType
      <4>2. CASE Moving'
        BY <4>2, <3>1, <3>3 DEF Gate!Next, Gate!Move, Gate!Open, OutType
      <4>3. CASE ~out'.replan /\ ~Moving' /\ session'.latch = session.latch
        BY <4>3, <3>1, <3>3 DEF Gate!Next, Gate!Hold, OutType
      <4>4. CASE ~out'.replan /\ ~Moving' /\ session'.latch # session.latch
        BY <4>4, <3>1, <3>3 DEF Gate!Next, Gate!Conclude, Gate!Open, OutType
      <4> QED
        BY <4>1, <4>2, <4>3, <4>4
    <3>5. CASE goal' \in Goal /\ goal' # goal /\ Evaluate(NewSession(pose, 0), "silence")
      <4> DEFINE s == NewSession(pose, 0)
      <4>1. s \in SessionType /\ s.latch = NoOutcome /\ s.replans = 0
        BY NewSessionType DEF NewSession
      <4>2. ~Moving'
        BY <3>3, <3>5, <4>1, SupervisorAssumption
      <4>3. CASE out'.replan
        BY <3>3, <3>5, <4>1, <4>2, <4>3, SupervisorAssumption
           DEF Gate!Next, Gate!Begin, SessionType, OutType
      <4>4. CASE ~out'.replan
        BY <3>3, <3>5, <4>1, <4>2, <4>4 DEF Gate!Next, Gate!Begin, SessionType, OutType
      <4> QED
        BY <4>3, <4>4
    <3>6. CASE goal' = goal /\ out' = Silence /\ UNCHANGED <<session, navState>>
      BY <3>2, <3>6 DEF Gate!Next
    <3>7. CASE goal' = goal /\ Elapse
      BY <3>2, <3>7, ElapseLaw DEF Gate!Next
    <3> QED
      BY <3>1, <3>4, <3>5, <3>6, <3>7 DEF StepKind
  <2> QED
    BY <2>1, <2>2
<1> QED
  BY <1>1, <1>2, TypeCorrect, PTL DEF Spec, GateSpec, Gate!Spec

-----------------------------------------------------------------------------
\* A progress check with a baseline has its timer running.
BaselineTimed == session.baseline # NoPose => session.still # Unset

IInv == TypeOK /\ BaselineTimed /\ ForwardIsSafe

LEMMA NotMovingSafe ==
  ASSUME out.cmd \notin Command
  PROVE  ForwardIsSafe
  BY DEF ForwardIsSafe, Moving

LEMMA ForwardInductive == IInv /\ TypeOK' /\ [Next]_vars => IInv'
  <1> SUFFICES ASSUME IInv, TypeOK', [Next]_vars PROVE IInv'
    OBVIOUS
  <1>1. CASE UNCHANGED vars
    BY <1>1 DEF vars, IInv, BaselineTimed, ForwardIsSafe, Moving
  <1>2. CASE Next
    <2>1. session \in SessionType /\ InputsTyped' /\ StepKind
      BY <1>2, StepKinds DEF IInv, TypeOK
    <2>2. ASSUME NEW s \in SessionType, NEW c \in Command \union {"silence"}, Evaluate(s, c),
                 s.baseline # NoPose => s.still # Unset
          PROVE  BaselineTimed' /\ ForwardIsSafe'
      <3>1. BaselineTimed'
        <4>1. \/ session'.baseline = s.baseline /\ session'.still = s.still
              \/ session'.still = 0
          BY <2>1, <2>2, EvaluateLaw DEF InputsTyped
        <4> QED
          BY <2>2, <4>1 DEF BaselineTimed, Unset
      <3>2. CASE out'.cmd = "stop"
        BY <3>1, <3>2, SupervisorAssumption DEF ForwardIsSafe, Moving
      <3>3. CASE out'.cmd # "stop"
        <4>1. /\ pose' # NoPose /\ ~(poseAge' > PoseTimeout)
              /\ goal' # NoGoal /\ pose' \notin ReachedAt[goal']
              /\ session'.goalAge = s.goalAge
              /\ ~(s.goalAge > NavTimeout) /\ ~(loc'.mode /\ loc'.lost >= MaxLost)
              /\ session'.latch = NoOutcome
              /\ ~LocallyBlocked(local', session'.blocked)
              /\ IsBlockedMode(local'[1], local'[2]) => session'.blocked # Unset
              /\ session'.baseline # NoPose
              /\ session'.still = 0 \/ ~(session'.still > ProgressTimeout)
          BY <2>1, <2>2, <3>3, EvaluateLaw DEF InputsTyped
        <4>2. session' \in SessionType
          BY DEF TypeOK
        <4>3. pose' \in Pose /\ poseAge' <= PoseTimeout /\ goal' \in Goal
          BY <2>1, <4>1, SupervisorAssumption DEF InputsTyped, Ages, Unset
        <4>4. session'.goalAge <= NavTimeout
          BY <4>1, <4>2, SupervisorAssumption DEF SessionType, Ages, Unset
        <4>5. /\ ~IsImmediateBlockedReason(local'[2])
              /\ IsBlockedMode(local'[1], local'[2]) => session'.blocked \in 0..BlockedTimeout
          BY <4>1, <4>2, SupervisorAssumption DEF LocallyBlocked, SessionType, Ages, Unset
        <4>6. session'.baseline \in Pose
          BY <4>1, <4>2 DEF SessionType
        <4>7. session'.still \in 0..ProgressTimeout
          BY <3>1, <4>1, <4>2, SupervisorAssumption DEF BaselineTimed, SessionType, Ages, Unset
        <4> QED
          BY <3>1, <4>1, <4>3, <4>4, <4>5, <4>6, <4>7 DEF ForwardIsSafe
      <3> QED
        BY <3>2, <3>3
    <2>3. CASE \E c \in Command \union {"silence"} : Evaluate(session, c)
      BY <2>1, <2>2, <2>3 DEF IInv, BaselineTimed
    <2>4. CASE Evaluate(NewSession(pose, 0), "silence")
      <3>1. NewSession(pose, 0).baseline # NoPose => NewSession(pose, 0).still # Unset
        BY DEF NewSession, Unset
      <3>2. NewSession(pose, 0) \in SessionType
        BY NewSessionType DEF IInv
      <3> QED
        BY <2>2, <2>4, <3>1, <3>2 DEF IInv
    <2>5. CASE out' = Silence /\ UNCHANGED <<session, navState>>
      BY <2>5, SupervisorAssumption
         DEF IInv, BaselineTimed, ForwardIsSafe, Moving, Silence
    <2>6. CASE Elapse
      <3>1. session'.baseline = session.baseline /\ session'.still >= session.still /\ out' = Silence
        BY <2>6, ElapseLaw DEF IInv
      <3>2. BaselineTimed'
        BY <2>1, <3>1, SupervisorAssumption
           DEF IInv, TypeOK, BaselineTimed, SessionType, Ages, Unset
      <3> QED
        BY <3>1, <3>2, SupervisorAssumption DEF IInv, ForwardIsSafe, Moving, Silence
    <2> QED
      BY <2>1, <2>3, <2>4, <2>5, <2>6 DEF StepKind
  <1> QED
    BY <1>1, <1>2 DEF IInv

\* A forwarded command is always backed by a fresh pose, an open goal within its
\* deadline, localization, an unblocked local planner and recent movement.
THEOREM ForwardingSafe == Spec => []ForwardIsSafe
<1>1. Init => BaselineTimed /\ ForwardIsSafe
  BY SupervisorAssumption DEF Init, BaselineTimed, ForwardIsSafe, Moving, NewSession, Silence
<1>2. IInv /\ TypeOK' /\ [Next]_vars => IInv'
  BY ForwardInductive
<1>3. IInv => ForwardIsSafe
  BY DEF IInv
<1>4. Init /\ TypeOK => IInv
  BY <1>1 DEF IInv
<1> QED
  BY <1>2, <1>3, <1>4, TypeCorrect, PTL DEF Spec

\* A stalled robot is held until it is displaced beyond the radius or gets a
\* different goal.
THEOREM StallHeld == Spec => StallHolds
<1>1. TypeOK /\ [Next]_vars
        => [Stuck /\ goal' = goal /\ pose' \notin MovedFrom[session.baseline]
              => ~Moving' /\ Stuck']_vars
  <2> SUFFICES ASSUME TypeOK, Next, Stuck, goal' = goal, pose' \notin MovedFrom[session.baseline]
               PROVE  ~Moving' /\ Stuck'
    OBVIOUS
  <2>1. session \in SessionType /\ InputsTyped' /\ StepKind
    BY StepKinds DEF TypeOK
  <2>2. session.baseline \in Pose /\ session.still > ProgressTimeout /\ session.baseline # NoPose
    BY SupervisorAssumption DEF Stuck
  <2>3. CASE \E c \in Command \union {"silence"} : Evaluate(session, c)
    <3> PICK c \in Command \union {"silence"} : Evaluate(session, c)
      BY <2>3
    <3>1. /\ session'.baseline = session.baseline /\ session'.still = session.still
          /\ out'.cmd # "stop" => session'.still = 0 \/ ~(session'.still > ProgressTimeout)
      BY <2>1, <2>2, EvaluateLaw DEF InputsTyped, Moved
    <3>2. out'.cmd = "stop"
      BY <2>2, <3>1, SupervisorAssumption
    <3> QED
      BY <2>2, <3>1, <3>2, SupervisorAssumption DEF Stuck, Moving
  <2>4. CASE out' = Silence /\ UNCHANGED <<session, navState>>
    BY <2>2, <2>4, SupervisorAssumption DEF Stuck, Moving, Silence
  <2>5. CASE Elapse
    <3>1. /\ session'.baseline = session.baseline /\ session'.still >= session.still
          /\ out' = Silence /\ session' \in SessionType
      BY <2>5, ElapseLaw
    <3> QED
      BY <2>1, <2>2, <3>1, SupervisorAssumption
         DEF Stuck, Moving, Silence, SessionType, Ages, Unset
  <2> QED
    BY <2>1, <2>3, <2>4, <2>5 DEF StepKind
<1> QED
  BY <1>1, TypeCorrect, PTL DEF Spec, StallHolds
=============================================================================
