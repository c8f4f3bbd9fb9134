--------------------------- MODULE ChassisProofs ---------------------------
(***************************************************************************)
(* The wheels' speeds and the watchdog's invariant, for any number of      *)
(* wheels, any set of commands, any speed limit and any timeout; the       *)
(* velocity that is read back from the wheels, whatever their angles; and  *)
(* the chassis that is driven from the keyboard.                           *)
(***************************************************************************)
EXTENDS TeleopDrive, TLAPS

\* The chassis' settings and its commands.
LEMMA SettingsTyped ==
  /\ N \in Nat \ {0} /\ CmdTimeout \in Nat /\ SpeedLimit \in Nat /\ SpeedLimit < SignBit
  /\ OdomSource \in {"feedback", "command", "auto"}
BY ChassisAssumption

LEMMA CommandsTyped ==
  /\ Command \subseteq [speed : [Wheel -> Int], active : BOOLEAN]
  /\ \A c \in Command : ~c.active => c.speed = [w \in Wheel |-> 0]
BY ChassisAssumption

\* What a command asks for, and what arms the watchdog.
LEMMA CommandShape ==
  ASSUME NEW c \in Command
  PROVE  /\ c.speed \in [Wheel -> Int] /\ c.active \in BOOLEAN
         /\ c.speed # Still => c.active
<1>1. c \in [speed : [Wheel -> Int], active : BOOLEAN]
  BY CommandsTyped, Zenon
<1>2. c.speed # [w \in Wheel |-> 0] => c.active
  BY CommandsTyped, Zenon
<1>3. c.speed \in [Wheel -> Int] /\ c.active \in BOOLEAN
  BY <1>1
<1>4. QED
  BY <1>2, <1>3, Zenon DEF Still

LEMMA TimeoutIsNat == CmdTimeout \in Nat
BY SettingsTyped

\* A speed survives the register's sign and magnitude: the servo holds, and reports, the
\* speed asked for, or the limit in its direction.
LEMMA SpeedRoundTrip ==
  ASSUME NEW v \in Int
  PROVE  Written(v) = IF v > SpeedLimit THEN SpeedLimit
                      ELSE IF v < -SpeedLimit THEN -SpeedLimit ELSE v
<1>1. SpeedLimit \in Int /\ 0 <= SpeedLimit /\ SpeedLimit < SignBit
  BY SettingsTyped
<1>2. CASE v < 0
  BY <1>1, <1>2 DEF Written, decode_signed_speed, SpeedWord, SignBit
<1>3. CASE v >= 0
  BY <1>1, <1>3 DEF Written, decode_signed_speed, SpeedWord, SignBit
<1>4. QED
  BY <1>2, <1>3

LEMMA WrittenIsLimited ==
  ASSUME NEW v \in Int
  PROVE  Written(v) \in -SpeedLimit..SpeedLimit
<1>1. SpeedLimit \in Int /\ 0 <= SpeedLimit
  BY SettingsTyped
<1>2. Written(v) = IF v > SpeedLimit THEN SpeedLimit
                   ELSE IF v < -SpeedLimit THEN -SpeedLimit ELSE v
  BY SpeedRoundTrip
<1>3. QED
  BY <1>1, <1>2

\* No wheel turns faster than the limit.
Limited == speed \in [Wheel -> -SpeedLimit..SpeedLimit]

LEMMA LimitedWhenWritten ==
  ASSUME NEW c \in Command
  PROVE  /\ [w \in Wheel |-> Written(c.speed[w])] \in [Wheel -> -SpeedLimit..SpeedLimit]
         /\ \A last \in Int : Limited =>
              [w \in Wheel |-> IF w <= last THEN Written(c.speed[w]) ELSE speed[w]]
                \in [Wheel -> -SpeedLimit..SpeedLimit]
BY WrittenIsLimited, CommandShape DEF Limited

LEMMA LimitedWhenStopped ==
  /\ Still \in [Wheel -> -SpeedLimit..SpeedLimit]
  /\ \A kept : Limited => Stopped(kept) \in [Wheel -> -SpeedLimit..SpeedLimit]
<1>1. 0 \in -SpeedLimit..SpeedLimit
  BY SettingsTyped
<1>2. Still \in [Wheel -> -SpeedLimit..SpeedLimit]
  BY <1>1, Zenon DEF Still
<1>3. ASSUME NEW kept, Limited
      PROVE  Stopped(kept) \in [Wheel -> -SpeedLimit..SpeedLimit]
  BY <1>1, <1>3 DEF Limited, Stopped
<1>4. QED
  BY <1>2, <1>3

\* Whatever was commanded, and whichever writes got through, every wheel's speed is
\* within the limit.
THEOREM SpeedsLimited == Spec => []Limited
<1>1. Init => Limited
  BY LimitedWhenStopped DEF Init, Limited
<1>2. Limited /\ [Next]_vars => Limited'
  <2> SUFFICES ASSUME Limited, [Next]_vars PROVE Limited'
    OBVIOUS
  <2>1. ASSUME NEW c \in Command, Apply(c) PROVE Limited'
    BY <2>1, LimitedWhenWritten DEF Apply, Limited
  <2>2. ASSUME NEW c \in Command, NEW k \in Wheel, ApplyFails(c, k) PROVE Limited'
    <3>1. PICK last \in {k - 1, k} :
            speed' = [w \in Wheel |-> IF w <= last THEN Written(c.speed[w]) ELSE speed[w]]
      BY <2>2 DEF ApplyFails
    <3>2. last \in Int
      BY SettingsTyped DEF Wheel
    <3>3. QED
      BY <3>1, <3>2, LimitedWhenWritten DEF Limited
  <2>3. CASE OnTick
    BY <2>3, LimitedWhenStopped DEF OnTick, Limited
  <2>4. ASSUME NEW kept, OnTickFails(kept) PROVE Limited'
    BY <2>4, LimitedWhenStopped DEF OnTickFails, Limited
  <2>5. ASSUME NEW kept, OnStop(kept) PROVE Limited'
    BY <2>5, LimitedWhenStopped DEF OnStop, Limited
  <2>6. CASE Settle \/ Elapse
    BY <2>6 DEF Settle, Elapse, Limited
  <2>7. CASE UNCHANGED vars
    BY <2>7 DEF vars, Limited
  <2>8. QED
    BY <2>1, <2>2, <2>3, <2>4, <2>5, <2>6, <2>7 DEF Next, OnCmdVelTwist, TickFails
<1>3. QED
  BY <1>1, <1>2, PTL DEF Spec

\* The wheels and the odometry hold integer speeds, the age stays within what the
\* watchdog's comparison tells apart, and the flags are truth values.
THEOREM TypeCorrect == Spec => []TypeOK
<1>1. Init => TypeOK
  <2> SUFFICES ASSUME Init PROVE TypeOK
    OBVIOUS
  <2>1. {speed, measured, odom} \subseteq Velocity
    BY DEF Init, Still, Velocity
  <2>2. age \in 0..CmdTimeout + 1
    BY TimeoutIsNat DEF Init
  <2>3. {active, running, torn} \subseteq BOOLEAN
    BY DEF Init
  <2>4. QED
    BY <2>1, <2>2, <2>3 DEF TypeOK
<1>2. TypeOK /\ Limited' /\ [Next]_vars => TypeOK'
  <2> SUFFICES ASSUME TypeOK, Limited', [Next]_vars PROVE TypeOK'
    OBVIOUS
  <2>0. speed' \in Velocity
    BY SettingsTyped DEF Limited, Velocity
  <2>a. Still \in Velocity /\ Unread \in Velocity
    BY DEF Still, Unread, Velocity, TypeOK
  <2>b. ASSUME NEW told \in Velocity, odom' \in Odometry(told) PROVE odom' \in Velocity
    <3>1. Readings(told) \subseteq Velocity
      BY DEF Readings, Velocity, TypeOK
    <3>2. QED
      BY <2>a, <2>b, <3>1 DEF Odometry
  <2>c. ASSUME measured' = measured, odom' \in Velocity PROVE {speed', measured', odom'} \subseteq Velocity
    BY <2>0, <2>c DEF TypeOK
  <2>1. ASSUME NEW c \in Command, Apply(c) PROVE TypeOK'
    <3>1. c.speed \in Velocity /\ c.active \in BOOLEAN
      BY CommandShape DEF Velocity
    <3>2. odom' \in Velocity
      BY <2>1, <3>1 DEF Apply, TypeOK
    <3>3. age' \in 0..CmdTimeout + 1
      BY <2>1, TimeoutIsNat DEF Apply
    <3>4. {active', running', torn'} \subseteq BOOLEAN
      BY <2>1, <3>1 DEF Apply, TypeOK
    <3>5. measured' = measured
      BY <2>1 DEF Apply
    <3>6. QED
      BY <2>c, <3>2, <3>3, <3>4, <3>5 DEF TypeOK
  <2>2. ASSUME NEW c \in Command, NEW k \in Wheel, ApplyFails(c, k) PROVE TypeOK'
    BY <2>c, <2>2 DEF TypeOK, ApplyFails
  <2>3. CASE OnTick
    <3>1. odom' \in Velocity
      BY <2>0, <2>3, <2>b DEF OnTick
    <3>2. QED
      BY <2>c, <2>3, <3>1 DEF TypeOK, OnTick
  <2>4. ASSUME NEW kept, OnTickFails(kept) PROVE TypeOK'
    <3>1. odom' \in Velocity
      BY <2>0, <2>4, <2>b DEF OnTickFails
    <3>2. QED
      BY <2>c, <2>4, <3>1 DEF TypeOK, OnTickFails
  <2>5. ASSUME NEW kept, OnStop(kept) PROVE TypeOK'
    BY <2>c, <2>5 DEF TypeOK, OnStop
  <2>6. CASE Elapse
    BY <2>c, <2>6, TimeoutIsNat DEF TypeOK, Elapse
  <2>7. CASE UNCHANGED vars
    BY <2>c, <2>7 DEF TypeOK, vars
  <2>8. CASE Settle
    <3>1. measured' \in Velocity
      BY <2>8 DEF Settle, TypeOK, Velocity
    <3>2. QED
      BY <2>0, <2>8, <3>1 DEF Settle, TypeOK
  <2>9. QED
    BY <2>1, <2>2, <2>3, <2>4, <2>5, <2>6, <2>7, <2>8 DEF Next, OnCmdVelTwist, TickFails
<1>3. QED
  BY <1>1, <1>2, SpeedsLimited, PTL DEF Spec

\* Whatever turns after a complete write is under the watchdog: the invariant the
\* watchdog's promise to stop the wheels rests on.
THEOREM Armed == Spec => []TurningIsArmed
<1>0. ASSUME NEW c \in Command, ~c.active PROVE [w \in Wheel |-> Written(c.speed[w])] = Still
  <2>1. c.speed = Still
    BY <1>0, CommandShape
  <2>2. Written(0) = 0
    <3>1. SpeedLimit \in Int /\ 0 <= SpeedLimit /\ 0 \in Int
      BY SettingsTyped
    <3>2. Written(0) = IF 0 > SpeedLimit THEN SpeedLimit
                       ELSE IF 0 < -SpeedLimit THEN -SpeedLimit ELSE 0
      BY <3>1, SpeedRoundTrip
    <3>3. QED
      BY <3>1, <3>2
  <2>3. QED
    BY <2>1, <2>2 DEF Still
<1>1. Init => TurningIsArmed
  BY DEF Init, TurningIsArmed
<1>2. TurningIsArmed /\ [Next]_vars => TurningIsArmed'
  <2> SUFFICES ASSUME TurningIsArmed, [Next]_vars PROVE TurningIsArmed'
    OBVIOUS
  <2> USE DEF TurningIsArmed
  <2>1. ASSUME NEW c \in Command, Apply(c) PROVE TurningIsArmed'
    <3>1. c.active \in BOOLEAN
      BY CommandShape
    <3>2. CASE c.active
      BY <2>1, <3>2 DEF Apply
    <3>3. CASE ~c.active
      BY <2>1, <3>3, <1>0 DEF Apply, Still
    <3>4. QED
      BY <3>1, <3>2, <3>3
  <2>2. ASSUME NEW c \in Command, NEW k \in Wheel, ApplyFails(c, k) PROVE TurningIsArmed'
    BY <2>2 DEF ApplyFails
  <2>3. CASE OnTick
    BY <2>3 DEF OnTick, Still
  <2>4. ASSUME NEW kept, OnTickFails(kept) PROVE TurningIsArmed'
    BY <2>4 DEF OnTickFails
  <2>5. ASSUME NEW kept, OnStop(kept) PROVE TurningIsArmed'
    <3>1. CASE kept = {}
      BY <2>5, <3>1 DEF OnStop, Stopped, Still
    <3>2. CASE kept # {}
      BY <2>5, <3>2 DEF OnStop
    <3>3. QED
      BY <3>1, <3>2
  <2>6. CASE Settle \/ Elapse
    BY <2>6 DEF Settle, Elapse, Still
  <2>7. CASE UNCHANGED vars
    BY <2>7 DEF vars, Still
  <2>8. QED
    BY <2>1, <2>2, <2>3, <2>4, <2>5, <2>6, <2>7 DEF Next, OnCmdVelTwist, TickFails
<1>3. QED
  BY <1>1, <1>2, PTL DEF Spec
-----------------------------------------------------------------------------
\* The wheels and the velocity.

\* What follows a wheel or a component, in turn.
LEMMA InTurn ==
  /\ Second(1) = 2 /\ Second(2) = 3 /\ Second(3) = 1
  /\ Third(1) = 3 /\ Third(2) = 1 /\ Third(3) = 2
BY DEF Second, Third

\* KiwiKinematics: chassis_velocity() of the speeds wheel_speeds() gives, times the
\* determinant, is that multiple of the velocity.
THEOREM VelocityIsReadBack ==
  ASSUME NEW v \in [1..3 -> Int]
  PROVE  ChassisVelocity(WheelSpeeds(v)) = [k \in 1..3 |-> Determinant * v[k]]
<1> DEFINE a == Linear[1]  b == Linear[2]  c == Linear[3]
           d == Lateral[1] e == Lateral[2] f == Lateral[3]
           g == Angular
<1>1. /\ a \in Int /\ b \in Int /\ c \in Int /\ d \in Int /\ e \in Int /\ f \in Int /\ g \in Int
      /\ v[1] \in Int /\ v[2] \in Int /\ v[3] \in Int
  BY KiwiAssumption
<1>2. /\ Row[1] = <<a, d, g>> /\ Row[2] = <<b, e, g>> /\ Row[3] = <<c, f, g>>
  BY DEF Row
<1>3. /\ Cofactor(1, 1) = e * g - g * f /\ Cofactor(1, 2) = g * c - b * g /\ Cofactor(1, 3) = b * f - e * c
      /\ Cofactor(2, 1) = f * g - g * d /\ Cofactor(2, 2) = g * a - c * g /\ Cofactor(2, 3) = c * d - f * a
      /\ Cofactor(3, 1) = d * g - g * e /\ Cofactor(3, 2) = g * b - a * g /\ Cofactor(3, 3) = a * e - d * b
  BY <1>1, <1>2, InTurn DEF Cofactor
<1> HIDE DEF a, b, c, d, e, f, g
<1>4. /\ WheelSpeeds(v)[1] = a * v[1] + d * v[2] + g * v[3]
      /\ WheelSpeeds(v)[2] = b * v[1] + e * v[2] + g * v[3]
      /\ WheelSpeeds(v)[3] = c * v[1] + f * v[2] + g * v[3]
  BY <1>2 DEF WheelSpeeds
<1>5. Determinant = a * (e * g - g * f) + d * (g * c - b * g) + g * (b * f - e * c)
  BY <1>2, <1>3 DEF Determinant
<1>6. ChassisVelocity(WheelSpeeds(v))[1] = Determinant * v[1]
  BY <1>1, <1>3, <1>4, <1>5, SMTT(60) DEF ChassisVelocity
<1>7. ChassisVelocity(WheelSpeeds(v))[2] = Determinant * v[2]
  BY <1>1, <1>3, <1>4, <1>5, SMTT(60) DEF ChassisVelocity
<1>8. ChassisVelocity(WheelSpeeds(v))[3] = Determinant * v[3]
  BY <1>1, <1>3, <1>4, <1>5, SMTT(60) DEF ChassisVelocity
<1>9. QED
  BY <1>6, <1>7, <1>8 DEF ChassisVelocity
-----------------------------------------------------------------------------
\* Driving by keyboard.

\* What is in the pipe and what was read from it last are lines.
Lines == latest \in K!Line /\ fifo \in Seq(K!Line)

\* Wheels that were all written turn as one line asks.
TurnsAsALine ==
  ~torn => \E line \in K!Line : speed = [w \in Wheel |-> Written(Told(line).speed[w])]

LEMMA StopsAreLines ==
  /\ "stop" \in K!Line
  /\ \A n \in Nat : [i \in 1..n |-> "stop"] \in Seq(K!Line)
BY DEF K!Line

LEMMA HeldLines ==
  ASSUME NEW lines \in Seq(K!Line), NEW w, NEW n
  PROVE  K!Held(lines, w, n) \in Seq(K!Line)
BY DEF K!Held

LEMMA WheelsAreThree == Wheel = 1..3
BY TeleopAssumption DEF Wheel

\* Every line is a motion of the chassis: a velocity, and a command that it takes.
LEMMA LinesAreCommands ==
  ASSUME NEW line \in K!Line
  PROVE  Told(line) \in Command /\ Twist(line) \in [1..3 -> Int]
<1>1. Told(line) \in Command
  BY TeleopAssumption DEF K!Line
<1>2. line \in {"w", "s", "q", "e", "a", "d", "stop"}
  BY TeleopAssumption DEF K!Line
<1>3. LinearSpeed \in Int /\ AngularSpeed \in Int /\ -LinearSpeed \in Int /\ -AngularSpeed \in Int
  BY TeleopAssumption
<1>4. \A a \in Int : \A b \in Int : \A c \in Int : <<a, b, c>> \in [1..3 -> Int]
  OBVIOUS
<1>5. Twist(line) \in [1..3 -> Int]
  BY <1>2, <1>3, <1>4 DEF Twist
<1>6. QED
  BY <1>1, <1>5

LEMMA StillIsStop == Still = [w \in Wheel |-> Written(Told("stop").speed[w])]
<1>1. Linear \in [1..3 -> Int] /\ Lateral \in [1..3 -> Int] /\ Angular \in Int
  BY KiwiAssumption
<1>2. ASSUME NEW w \in 1..3 PROVE Told("stop").speed[w] = 0
  <2>1. Row[w][1] = Linear[w] /\ Row[w][2] = Lateral[w] /\ Row[w][3] = Angular
    BY DEF Row
  <2>2. Told("stop").speed = WheelSpeeds(<<0, 0, 0>>)
    BY DEF Told, Twist
  <2>3. WheelSpeeds(<<0, 0, 0>>)[w] = Linear[w] * 0 + Lateral[w] * 0 + Angular * 0
    BY <2>1 DEF WheelSpeeds
  <2>4. Linear[w] \in Int /\ Lateral[w] \in Int
    BY <1>1
  <2>5. QED
    BY <1>1, <2>2, <2>3, <2>4
<1>3. Written(0) = 0
  <2>1. SpeedLimit \in Int /\ 0 <= SpeedLimit /\ 0 \in Int
    BY SettingsTyped
  <2>2. Written(0) = IF 0 > SpeedLimit THEN SpeedLimit
                     ELSE IF 0 < -SpeedLimit THEN -SpeedLimit ELSE 0
    BY <2>1, SpeedRoundTrip
  <2>3. QED
    BY <2>1, <2>2
<1>4. QED
  BY <1>2, <1>3, WheelsAreThree DEF Still

\* What each step of the keyboard's side leaves in the pipe.
LEMMA LinesStay ==
  ASSUME Lines, [TeleopNext]_teleopVars
  PROVE  Lines'
<1> USE StopsAreLines, HeldLines
<1>1. ASSUME NEW lines \in Seq(K!Line), NEW line \in K!Line PROVE Append(lines, line) \in Seq(K!Line)
  OBVIOUS
<1>2. ASSUME K!Start \/ K!Connect \/ K!NodeStarts \/ K!Elapse PROVE Lines'
  BY <1>2 DEF K!Start, K!Connect, K!NodeStarts, K!Elapse, Lines
<1>3. ASSUME NEW pressed \in K!Line, K!LoopTurn(pressed) PROVE Lines'
  BY <1>1, <1>3 DEF K!LoopTurn, K!WriteLine, Lines
<1>4. ASSUME NEW stops \in {1, 2}, K!Quit(stops) PROVE Lines'
  <2>1. PICK n \in 0..stops : fifo' = K!Held(fifo \o [i \in 1..n |-> "stop"], FALSE, node)
    BY <1>4 DEF K!Quit
  <2>2. fifo \o [i \in 1..n |-> "stop"] \in Seq(K!Line)
    BY DEF Lines
  <2>3. QED
    BY <1>4, <2>1, <2>2 DEF K!Quit, Lines
<1>5. ASSUME K!Killed PROVE Lines'
  BY <1>5 DEF K!Killed, Lines
<1>6. ASSUME K!ScriptStops PROVE Lines'
  BY <1>1, <1>6 DEF K!ScriptStops, Lines
<1>7. ASSUME K!NodeTick PROVE Lines'
  <2>1. fifo # <<>> => fifo[Len(fifo)] \in K!Line
    BY DEF Lines
  <2>2. <<>> \in Seq(K!Line)
    OBVIOUS
  <2>3. QED
    BY <1>7, <2>1, <2>2 DEF K!NodeTick, Lines
<1>8. ASSUME K!NodeLeaves PROVE Lines'
  BY <1>8 DEF K!NodeLeaves, Lines
<1>9. ASSUME UNCHANGED keyboard PROVE Lines'
  BY <1>9 DEF keyboard, Lines
<1>10. QED
  BY <1>2, <1>3, <1>4, <1>5, <1>6, <1>7, <1>8, <1>9
     DEF TeleopNext, Operator, Connects, NodeStarts, NodeTick, FlowStops, NodeStops, NodeDies,
         ChassisTick, ChassisTickFails, WheelsSettle, ChassisStops, TimePasses, teleopVars, K!Line

\* A line is sent to the chassis, or the chassis does something by itself, or nothing.
ChassisStep ==
  \/ \E line \in K!Line : Apply(Told(line))
  \/ \E line \in K!Line, k \in Wheel : ApplyFails(Told(line), k)
  \/ OnTick \/ TickFails \/ Settle \/ Elapse
  \/ \E kept \in SUBSET Wheel : OnStop(kept)
  \/ UNCHANGED vars

LEMMA ChassisSteps ==
  ASSUME Lines', [TeleopNext]_teleopVars
  PROVE  ChassisStep
<1>1. ASSUME NEW line \in K!Line, Send(line) PROVE ChassisStep
  BY <1>1, Zenon DEF Send, ChassisStep
<1>2. ASSUME NodeTick PROVE ChassisStep
  <2>1. K!CommandOf(latest', keyAge') \in K!Line
    BY StopsAreLines DEF Lines, K!CommandOf
  <2>2. QED
    BY <1>1, <1>2, <2>1 DEF NodeTick
<1>3. ASSUME NodeStops PROVE ChassisStep
  BY <1>1, <1>3, StopsAreLines DEF NodeStops
<1>4. ASSUME Operator \/ Connects \/ NodeStarts \/ NodeDies PROVE ChassisStep
  BY <1>4 DEF Operator, Connects, NodeStarts, NodeDies, ChassisStep
<1>5. ASSUME ChassisTick \/ ChassisTickFails \/ WheelsSettle \/ ChassisStops \/ TimePasses
      PROVE  ChassisStep
  BY <1>5, Zenon DEF ChassisTick, ChassisTickFails, WheelsSettle, ChassisStops, TimePasses, ChassisStep
<1>6. ASSUME UNCHANGED teleopVars PROVE ChassisStep
  BY <1>6 DEF teleopVars, ChassisStep
<1>7. QED
  BY <1>2, <1>3, <1>4, <1>5, <1>6, Zenon DEF TeleopNext, FlowStops

\* A chassis that is driven from the keyboard takes the steps of the chassis alone: what
\* holds of the one, whatever commands come, holds of the other.
THEOREM DrivenChassis == TeleopSpec => Spec /\ []Lines
<1>1. TeleopInit => Init /\ Lines
  BY StopsAreLines DEF TeleopInit, K!Init, Lines
<1>2. ASSUME Lines, [TeleopNext]_teleopVars
      PROVE  Lines' /\ [Next]_vars
  <2>1. Lines'
    BY <1>2, LinesStay
  <2>2. ChassisStep
    BY <1>2, <2>1, ChassisSteps
  <2>3. ASSUME NEW line \in K!Line, Apply(Told(line)) PROVE Next
    BY <2>3, LinesAreCommands DEF Next, OnCmdVelTwist
  <2>4. ASSUME NEW line \in K!Line, NEW k \in Wheel, ApplyFails(Told(line), k) PROVE Next
    BY <2>4, LinesAreCommands DEF Next, OnCmdVelTwist
  <2>5. QED
    BY <2>1, <2>2, <2>3, <2>4, Zenon DEF ChassisStep, Next
<1>3. QED
  BY <1>1, <1>2, PTL DEF TeleopSpec, Spec

LEMMA ALineTurns ==
  ASSUME TurnsAsALine, ChassisStep
  PROVE  TurnsAsALine'
<1>1. ASSUME speed' = Still PROVE TurnsAsALine'
  BY <1>1, StillIsStop, StopsAreLines DEF TurnsAsALine
<1>2. ASSUME speed' = speed, torn' = torn PROVE TurnsAsALine'
  BY <1>2 DEF TurnsAsALine
<1>3. ASSUME torn' PROVE TurnsAsALine'
  BY <1>3 DEF TurnsAsALine
<1>4. ASSUME NEW line \in K!Line, Apply(Told(line)) PROVE TurnsAsALine'
  BY <1>4 DEF Apply, TurnsAsALine
<1>5. ASSUME NEW line \in K!Line, NEW k \in Wheel, ApplyFails(Told(line), k) PROVE TurnsAsALine'
  BY <1>3, <1>5 DEF ApplyFails
<1>6. ASSUME OnTick PROVE TurnsAsALine'
  BY <1>1, <1>2, <1>6 DEF OnTick
<1>7. ASSUME NEW kept, OnTickFails(kept) PROVE TurnsAsALine'
  BY <1>3, <1>7 DEF OnTickFails
<1>8. ASSUME NEW kept, OnStop(kept) PROVE TurnsAsALine'
  <2>1. CASE kept = {}
    <3>1. speed' = Still
      BY <1>8, <2>1 DEF OnStop, Stopped, Still
    <3>2. QED
      BY <1>1, <3>1
  <2>2. CASE kept # {}
    BY <1>3, <1>8, <2>2 DEF OnStop
  <2>3. QED
    BY <2>1, <2>2
<1>9. ASSUME Settle \/ Elapse \/ UNCHANGED vars PROVE TurnsAsALine'
  BY <1>2, <1>9 DEF Settle, Elapse, vars
<1>10. QED
  BY <1>4, <1>5, <1>6, <1>7, <1>8, <1>9 DEF ChassisStep, TickFails

\* Whatever failed before, wheels that were all written turn as one key asks, and unless a
\* wheel is at its limit the odometry reads that key's velocity back from them.
THEOREM KeysAreDriven == TeleopSpec => []DrivesAsAsked
<1>1. TeleopInit => TurnsAsALine
  BY StillIsStop, StopsAreLines DEF TeleopInit, Init, TurnsAsALine
<1>2. ASSUME TurnsAsALine, Lines', [TeleopNext]_teleopVars
      PROVE  TurnsAsALine'
  BY <1>2, ChassisSteps, ALineTurns
<1>3. ASSUME TurnsAsALine
      PROVE  DrivesAsAsked
  <2> SUFFICES ASSUME ~torn
               PROVE  \E line \in K!Line :
                        LET asked == Told(line).speed
                        IN /\ speed = [w \in Wheel |-> Written(asked[w])]
                           /\ speed = asked => ChassisVelocity(speed)
                                = [k \in 1..3 |-> Determinant * Twist(line)[k]]
    BY DEF DrivesAsAsked
  <2>1. PICK line \in K!Line : speed = [w \in Wheel |-> Written(Told(line).speed[w])]
    BY <1>3 DEF TurnsAsALine
  <2>2. Told(line).speed = WheelSpeeds(Twist(line))
    BY DEF Told
  <2>3. ChassisVelocity(Told(line).speed) = [k \in 1..3 |-> Determinant * Twist(line)[k]]
    BY <2>2, LinesAreCommands, VelocityIsReadBack
  <2>4. QED
    BY <2>1, <2>3
<1>4. QED
  BY <1>1, <1>2, <1>3, DrivenChassis, PTL DEF TeleopSpec
=============================================================================
