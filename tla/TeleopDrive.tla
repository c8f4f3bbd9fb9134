----------------------------- MODULE TeleopDrive -----------------------------
(***************************************************************************)
(* Mapping by keyboard: the teleop process, the keyboard node and the      *)
(* chassis.  The chassis handles a command when it comes; the bus may fail *)
(* in it.                                                                  *)
(***************************************************************************)
EXTENDS Chassis, KiwiDrive, Sequences

CONSTANTS
  Motion, KeyTimeout, FifoSize,                     \* keyboard
  LinearSpeed, AngularSpeed                         \* KEY_LINEAR_SPEED, KEY_ANGULAR_SPEED

VARIABLES key, writer, fifo, node, latest, keyAge

\* The velocity a line asks for.
Twist(line) ==
  CASE line = "w" -> <<LinearSpeed, 0, 0>>
    [] line = "s" -> <<-LinearSpeed, 0, 0>>
    [] line = "q" -> <<0, LinearSpeed, 0>>
    [] line = "e" -> <<0, -LinearSpeed, 0>>
    [] line = "a" -> <<0, 0, AngularSpeed>>
    [] line = "d" -> <<0, 0, -AngularSpeed>>
    [] line = "stop" -> <<0, 0, 0>>

\* What the chassis makes of it.
Told(line) == [speed |-> WheelSpeeds(Twist(line)), active |-> line # "stop"]

K == INSTANCE Keyboard

keyboard == <<key, writer, fifo, node, latest, keyAge>>
teleopVars == <<vars, keyboard>>

ASSUME TeleopAssumption ==
  /\ Motion \subseteq {"w", "s", "q", "e", "a", "d"}
  /\ LinearSpeed \in Nat \ {0} /\ AngularSpeed \in Nat \ {0}
  /\ KeyTimeout \in Nat /\ FifoSize \in Nat \ {0}
  /\ N = 3 /\ Command = {Told(line) : line \in Motion \cup {"stop"}}
  /\ Determinant # 0

TeleopInit == Init /\ K!Init

\* The chassis gets the twist of a line, unless it has stopped.
Send(line) ==
  \/ Apply(Told(line))
  \/ \E k \in Wheel : ApplyFails(Told(line), k)
  \/ ~running /\ UNCHANGED vars

Operator ==
  /\ \/ K!Start
     \/ \E pressed \in Motion \cup {"stop"} : K!LoopTurn(pressed)
     \/ \E stops \in {1, 2} : K!Quit(stops)
     \/ K!Killed \/ K!ScriptStops
  /\ UNCHANGED vars

Connects == K!Connect /\ UNCHANGED vars

NodeStarts == K!NodeStarts /\ UNCHANGED vars
NodeTick == K!NodeTick /\ Send(K!CommandOf(latest', keyAge'))
NodeStops == K!NodeLeaves /\ Send("stop")
NodeDies == K!NodeLeaves /\ UNCHANGED vars

ChassisTick == OnTick /\ UNCHANGED keyboard
ChassisTickFails == TickFails /\ UNCHANGED keyboard
WheelsSettle == Settle /\ UNCHANGED keyboard
ChassisStops == (\E kept \in SUBSET Wheel : OnStop(kept)) /\ UNCHANGED keyboard

\* The stop script's next step, and any other end of the flow: each node by itself.
FlowStops == NodeStops \/ ChassisStops

TimePasses == Elapse /\ K!Elapse

TeleopNext ==
  \/ Operator \/ Connects
  \/ NodeStarts \/ NodeTick \/ FlowStops \/ NodeDies
  \/ ChassisTick \/ ChassisTickFails \/ WheelsSettle
  \/ TimePasses

\* The chassis' timer fires, time passes and the wheels follow their servos.  The operator
\* and the keyboard node need do nothing: a node that sends no more is what the watchdog is
\* for.  No read of the feedback need succeed.
TeleopSpec ==
  /\ TeleopInit /\ [][TeleopNext]_teleopVars
  /\ WF_teleopVars(UnreadTick /\ UNCHANGED keyboard)
  /\ WF_teleopVars(TimePasses) /\ WF_teleopVars(WheelsSettle)

-----------------------------------------------------------------------------
\* Once the operator asks for no motion any more, because the last key was a space, the
\* process was left or killed, or its writes are refused for good, the wheels stand, and
\* stay so: lines still in the pipe, a full pipe, and the end of either node change nothing.
HandsOff == [](key \in {"none", "stop"})
DriveEnds == <>HandsOff /\ <>[]~torn => <>[](speed = Still)

\* Whatever failed before, wheels that were all written turn as one line asks, and, unless
\* a wheel is held at its limit, the velocity the chassis reads back from them is that line's:
\* a motion the chassis can make is neither skewed nor reported as another one.
DrivesAsAsked ==
  ~torn => \E line \in K!Line :
    LET asked == Told(line).speed
    IN /\ speed = [w \in Wheel |-> Written(asked[w])]
       /\ speed = asked => ChassisVelocity(speed)
                            = [k \in 1..3 |-> Determinant * Twist(line)[k]]
=============================================================================
