------------------------------ MODULE Chassis ------------------------------
(***************************************************************************)
(* The chassis node's wheels, its command watchdog and the velocity its    *)
(* odometry integrates.  A command is written wheel by wheel over a serial *)
(* bus; a write that fails after its three tries ends the command there,   *)
(* and may or may not have reached the servo.  The speed a servo was told  *)
(* stays until it is written again; the wheel gets there in its own time,  *)
(* and what is read is how fast it turns.  The node runs with              *)
(* PID_ENABLED=0, the setting of every flow in the repository.  A velocity *)
(* is given by the speeds of its wheels: the kinematics is linear and      *)
(* invertible.                                                             *)
(***************************************************************************)
EXTENDS Integers

CONSTANTS
  N,              \* wheels, written in the order 1..N
  Command,        \* [speed : [1..N -> Int], active : BOOLEAN]
  CmdTimeout,     \* CMD_VEL_TIMEOUT_SEC
  SpeedLimit,     \* SPEED_LIMIT
  OdomSource      \* ODOM_SOURCE

Wheel == 1..N

\* Of a servo's speed register.
SignBit == 32768

\* A command within 1e-6 of zero is below one tick of every wheel; a magnitude has the
\* bits below the register's sign bit.
ASSUME ChassisAssumption ==
  /\ N \in Nat \ {0}
  /\ CmdTimeout \in Nat
  /\ SpeedLimit \in Nat /\ SpeedLimit < SignBit
  /\ OdomSource \in {"feedback", "command", "auto"}
  /\ Command \subseteq [speed : [Wheel -> Int], active : BOOLEAN]
  /\ \A c \in Command : ~c.active => c.speed = [w \in Wheel |-> 0]

VARIABLES
  speed,     \* the speed each servo was told
  measured,  \* how fast each wheel turns: ADDR_PRESENT_SPEED
  age,       \* of last_command_time
  active,    \* command_active
  odom,      \* the velocity set_velocity() left
  running,   \* the node has not been stopped
  torn       \* history: the last handler that wrote the wheels did not write all

vars == <<speed, measured, age, active, odom, running, torn>>

Still == [w \in Wheel |-> 0]

\* After init_motors.
Init ==
  /\ speed = Still /\ measured = Still /\ age = 0 /\ active = FALSE
  /\ odom = Still /\ running = TRUE /\ torn = FALSE

-----------------------------------------------------------------------------
\* set_wheel_speed(): the register's word is a sign and a magnitude.
SpeedWord(v) == LET magnitude == IF v < 0 THEN -v ELSE v
                    limited == IF magnitude > SpeedLimit THEN SpeedLimit ELSE magnitude
                IN  IF v < 0 THEN limited + SignBit ELSE limited

decode_signed_speed(word) == IF word >= SignBit THEN -(word - SignBit) ELSE word

\* What the servo holds, and reports once it is there, after v was written.
Written(v) == decode_signed_speed(SpeedWord(v))

FromCommand == OdomSource \in {"command", "auto"}
FromFeedback == OdomSource \in {"feedback", "auto"}

\* Mutant: the watchdog is armed only by a command that turns every wheel.
Apply_ArmsOnAll(c) ==
  /\ running
  /\ speed' = [w \in Wheel |-> Written(c.speed[w])]
  /\ age' = 0
  /\ active' = (\A w \in Wheel : c.speed[w] # 0)
  /\ odom' = IF FromCommand THEN c.speed ELSE odom
  /\ torn' = FALSE
  /\ UNCHANGED <<measured, running>>

\* Every write of a command is done.
Apply(c) ==
  /\ running
  /\ speed' = [w \in Wheel |-> Written(c.speed[w])]
  /\ age' = 0
  /\ active' = c.active
  /\ odom' = IF FromCommand THEN c.speed ELSE odom
  /\ torn' = FALSE
  /\ UNCHANGED <<measured, running>>

\* Wheel k's write fails: the wheels before it have their speed, it may have, and
\* neither the time nor command_active nor the odometry is touched.
ApplyFails(c, k) ==
  /\ running
  /\ \E last \in {k - 1, k} :
       speed' = [w \in Wheel |-> IF w <= last THEN Written(c.speed[w]) ELSE speed[w]]
  /\ torn' = TRUE
  /\ UNCHANGED <<measured, age, active, odom, running>>

Expired == active /\ age > CmdTimeout

\* The wheels stop() cannot write keep their speed.
Stopped(kept) == [w \in Wheel |-> IF w \in kept THEN speed[w] ELSE 0]

\* What the watchdog leaves of the velocity, to a read that fails.
Unread == IF Expired /\ FromCommand THEN Still ELSE odom

\* What the wheels are read to do after they were told these speeds: each may have got there
\* or may still turn as it did.
Readings(told) ==
  {[w \in Wheel |-> IF w \in there THEN told[w] ELSE measured[w]] : there \in SUBSET Wheel}

\* Mutant: the wheels are read only while a command is active.
Odometry_ReadsWhileActive(told) ==
  {Unread} \cup (IF FromFeedback /\ active /\ ~Expired THEN Readings(told) ELSE {})

\* The feedback is read after the watchdog; a read that fails changes nothing.
Odometry(told) == {Unread} \cup (IF FromFeedback THEN Readings(told) ELSE {})

\* A tick with a bus that takes every write.
OnTick ==
  /\ running
  /\ IF Expired THEN speed' = Still /\ active' = FALSE /\ torn' = FALSE
     ELSE UNCHANGED <<speed, active, torn>>
  /\ odom' \in Odometry(speed')
  /\ UNCHANGED <<measured, age, running>>

\* A tick in which the bus loses some of the writes of stop(), which ignores that:
\* the watchdog is disarmed all the same.
OnTickFails(kept) ==
  /\ running /\ Expired
  /\ speed' = Stopped(kept) /\ active' = FALSE /\ torn' = TRUE
  /\ odom' \in Odometry(Stopped(kept))
  /\ UNCHANGED <<measured, age, running>>

\* The Stop event or the end of the events: stop(), and the node is gone.
OnStop(kept) ==
  /\ running /\ running' = FALSE
  /\ speed' = Stopped(kept) /\ torn' = (kept # {})
  /\ UNCHANGED <<measured, age, active, odom>>

\* A wheel gets to the speed its servo was told, whether the node runs or not.
Settle ==
  /\ \E w \in Wheel : measured' = [measured EXCEPT ![w] = speed[w]]
  /\ UNCHANGED <<speed, age, active, odom, running, torn>>

\* One unit of time.
Elapse ==
  /\ age' = IF age > CmdTimeout THEN age ELSE age + 1
  /\ UNCHANGED <<speed, measured, active, odom, running, torn>>

OnCmdVelTwist == \E c \in Command : Apply(c) \/ \E k \in Wheel : ApplyFails(c, k)

Velocity == [Wheel -> Int]

TickFails == \E kept \in SUBSET Wheel : OnTickFails(kept)

Next ==
  \/ OnCmdVelTwist \/ OnTick \/ TickFails
  \/ \E kept \in SUBSET Wheel : OnStop(kept)
  \/ Settle \/ Elapse

Spec == Init /\ [][Next]_vars

\* A tick whose reads fail, and one whose reads succeed.
UnreadTick == OnTick /\ odom' = Unread
ReadTick == FromFeedback /\ OnTick /\ odom' \in Readings(speed')

\* The 50 ms timer of the flow fires, the clock advances and the wheels follow their servos;
\* no command need come, and no read need succeed.
FairSpec == Spec /\ WF_vars(UnreadTick) /\ WF_vars(Elapse) /\ WF_vars(Settle)

-----------------------------------------------------------------------------
TypeOK ==
  /\ {speed, measured, odom} \subseteq Velocity
  /\ age \in 0..CmdTimeout + 1
  /\ {active, running, torn} \subseteq BOOLEAN

\* Whatever turns after a complete write is under the watchdog, whatever failed before
\* it: no sequence of commands, failed writes, ticks and delays leaves a wheel turning
\* with the watchdog disarmed unless the last write itself was torn.
TurningIsArmed == ~torn /\ speed # Still => active

CommandsEnd == <>[][~OnCmdVelTwist]_vars
WheelsStop == <>[](speed = Still)

\* The odometry comes to rest behind the wheels.  They are read right after they are told to
\* stop, while they still turn, and a read that fails leaves what was read before: as long
\* as reads go on to succeed now and then, neither is integrated for good.
OdometryRests ==
  <>[](running /\ speed = Still) /\ WF_vars(ReadTick) => <>[](odom = Still)

\* docs/OPERATIONS.md:122: the chassis also has a command watchdog.  When the commands
\* end, the wheels come to a standstill, torn writes or not.
WatchdogCovers == CommandsEnd => WheelsStop
=============================================================================
