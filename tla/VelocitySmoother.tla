-------------------------- MODULE VelocitySmoother --------------------------
(***************************************************************************)
(* The velocity smoother between the local controller and the supervisor's *)
(* gate.  Velocities are integers; an acceleration is what one update may  *)
(* change, that is the configured one times dt = 1 / SMOOTHING_FREQUENCY,  *)
(* a constant, however much time lies between two updates.                 *)
(***************************************************************************)
EXTENDS Integers

CONSTANTS
  Axis,                      \* vx, vy, wz
  MaxVelocity, MinVelocity,  \* [Axis -> Int]
  MaxAccel, MaxDecel,        \* [Axis -> Int], change of one update
  Deadband,                  \* [Axis -> Int]
  VelocityTimeout            \* VELOCITY_TIMEOUT_MS

Clamp(x, low, high) == IF x < low THEN low ELSE IF x > high THEN high ELSE x
Abs(x) == IF x < 0 THEN -x ELSE x

Still == [a \in Axis |-> 0]
None == -1

VARIABLES
  target,      \* target_
  current,     \* current_, which is also the last twist sent
  targetAge    \* time since last_target_ms_, None when there is no target

vars == <<target, current, targetAge>>

Init == target = Still /\ current = Still /\ targetAge = None

\* Mutant: the deadband takes its bound with it.
SmoothAxis_ClosedDeadband(a, now, wanted) ==
  LET asked == Clamp(wanted, MinVelocity[a], MaxVelocity[a])
      speedsUp == Abs(asked) > Abs(now) /\ (now = 0 \/ (asked < 0) = (now < 0))
      limit == Abs(IF speedsUp THEN MaxAccel[a] ELSE MaxDecel[a])
      value == now + Clamp(asked - now, -limit, limit)
  IN  IF Abs(value) <= Deadband[a] THEN 0 ELSE value

\* Mutant: the target is not brought within the limits.
SmoothAxis_AnyTarget(a, now, wanted) ==
  LET asked == wanted
      speedsUp == Abs(asked) > Abs(now) /\ (now = 0 \/ (asked < 0) = (now < 0))
      limit == Abs(IF speedsUp THEN MaxAccel[a] ELSE MaxDecel[a])
      value == now + Clamp(asked - now, -limit, limit)
  IN  IF Abs(value) < Deadband[a] THEN 0 ELSE value

\* smoothAxis() of velocity_smoother.cpp.
SmoothAxis(a, now, wanted) ==
  LET asked == Clamp(wanted, MinVelocity[a], MaxVelocity[a])
      speedsUp == Abs(asked) > Abs(now) /\ (now = 0 \/ (asked < 0) = (now < 0))
      limit == Abs(IF speedsUp THEN MaxAccel[a] ELSE MaxDecel[a])
      value == now + Clamp(asked - now, -limit, limit)
  IN  IF Abs(value) < Deadband[a] THEN 0 ELSE value

Reset == target' = Still /\ current' = Still /\ targetAge' = None

\* Mutant: the age of the command is not looked at.
Update_NoTimeout(twist, age) ==
  IF age = None
  THEN Reset
  ELSE /\ current' = [a \in Axis |-> SmoothAxis(a, current[a], twist[a])]
       /\ target' = twist
       /\ targetAge' = age

\* update() for a target of this age.
Update(twist, age) ==
  IF age = None \/ age > VelocityTimeout
  THEN Reset
  ELSE /\ current' = [a \in Axis |-> SmoothAxis(a, current[a], twist[a])]
       /\ target' = twist
       /\ targetAge' = age

\* setTarget() and an update at once: a command is one more update beside the ticks'.
OnCmdVelTwist(twist) == Update(twist, 0)
OnTick == Update(target, targetAge)

\* An input that does not parse, or the Stop event: reset() and a zero twist.
OnBadInputOrStop == Reset

Elapse ==
  /\ targetAge' = IF targetAge \in {None, VelocityTimeout + 1} THEN targetAge ELSE targetAge + 1
  /\ UNCHANGED <<target, current>>

Next ==
  \/ \E twist \in [Axis -> Int] : OnCmdVelTwist(twist)
  \/ OnTick
  \/ OnBadInputOrStop
  \/ Elapse

Spec == Init /\ [][Next]_vars

-----------------------------------------------------------------------------
TypeOK ==
  /\ target \in [Axis -> Int]
  /\ current \in [Axis -> Int]
  /\ targetAge \in -1..VelocityTimeout + 1

\* What leaves the smoother is within the limits whatever was asked of it, and nothing
\* moves without a command to answer for it.
Limited ==
  /\ \A a \in Axis : current[a] \in MinVelocity[a]..MaxVelocity[a]
  /\ targetAge = None => current = Still

\* One update changes an axis by no more than the larger of its two limits, unless it
\* stops it.
Ramped ==
  [][\A a \in Axis :
       \/ current'[a] = 0
       \/ Abs(current'[a] - current[a]) <= Abs(MaxAccel[a])
       \/ Abs(current'[a] - current[a]) <= Abs(MaxDecel[a])]_vars
=============================================================================
