------------------------- MODULE LocalControlProofs -------------------------
(***************************************************************************)
(* Local control for every set of turns, distances and reports, every      *)
(* speed, limit and acceleration, and every timeout: what leaves the       *)
(* smoother is within its limits, a robot that is blind stands in time,    *)
(* one that is told to follow the path drives, and the robot keeps its     *)
(* distance whenever the horizon it looks ahead suffices.                  *)
(***************************************************************************)
EXTENDS LocalControl, TLAPS

LEMMA NumbersTyped ==
  /\ VelocityTimeout \in Nat /\ StopTime \in Nat /\ ScanTimeout \in Nat /\ MaxLost \in Nat
  /\ MinSpeed \in Nat \ {0} /\ DesiredSpeed \in Nat /\ VelocityTimeout < StopTime
  /\ \A a \in Axis :
       /\ MaxVelocity[a] \in Int /\ MinVelocity[a] \in Int
       /\ MaxAccel[a] \in Int /\ MaxDecel[a] \in Int /\ Deadband[a] \in Int
       /\ MinVelocity[a] <= 0 /\ 0 <= MaxVelocity[a]
BY ControlAssumption, StopTimeAssumption

-----------------------------------------------------------------------------
\* What one update does to one axis.

LEMMA AbsLaw ==
  ASSUME NEW x \in Int
  PROVE  S!Abs(x) \in Nat /\ S!Abs(x) = (IF x < 0 THEN -x ELSE x)
BY DEF S!Abs

LEMMA ClampLaw ==
  ASSUME NEW x \in Int, NEW low \in Int, NEW high \in Int, low <= high
  PROVE  /\ S!Clamp(x, low, high) \in low..high
         /\ x \in low..high => S!Clamp(x, low, high) = x
         /\ x < low => S!Clamp(x, low, high) = low
         /\ x > high => S!Clamp(x, low, high) = high
BY DEF S!Clamp

\* A velocity moves towards the one asked for, brought within the limits, never past it and
\* by no more than the step allowed, unless the deadband stops it.
LEMMA SmoothAxisLaw ==
  ASSUME NEW a \in Axis, NEW now \in Int, NEW wanted \in Int
  PROVE  \E step \in {S!Abs(MaxAccel[a]), S!Abs(MaxDecel[a])}, value \in Int :
           LET asked == S!Clamp(wanted, MinVelocity[a], MaxVelocity[a])
           IN  /\ S!SmoothAxis(a, now, wanted) = (IF S!Abs(value) < Deadband[a] THEN 0 ELSE value)
               /\ asked > now => value = (IF asked - now <= step THEN asked ELSE now + step)
               /\ asked < now => value = (IF now - asked <= step THEN asked ELSE now - step)
               /\ asked = now => value = asked
               /\ step = S!Abs(MaxDecel[a]) \/ S!Abs(asked) > S!Abs(now)
               /\ step = S!Abs(MaxAccel[a]) \/ S!Abs(asked) <= S!Abs(now)
                    \/ (now # 0 /\ (asked < 0) # (now < 0))
<1> DEFINE asked == S!Clamp(wanted, MinVelocity[a], MaxVelocity[a])
           speedsUp == S!Abs(asked) > S!Abs(now) /\ (now = 0 \/ (asked < 0) = (now < 0))
           step == IF speedsUp THEN S!Abs(MaxAccel[a]) ELSE S!Abs(MaxDecel[a])
           limit == S!Abs(IF speedsUp THEN MaxAccel[a] ELSE MaxDecel[a])
           value == now + S!Clamp(asked - now, -limit, limit)
<1>1. asked \in Int
  BY NumbersTyped DEF S!Clamp
<1>2. step \in Nat /\ limit = step
  BY NumbersTyped, AbsLaw
<1>3. S!SmoothAxis(a, now, wanted) = (IF S!Abs(value) < Deadband[a] THEN 0 ELSE value)
  BY DEF S!SmoothAxis
<1>4. /\ step = S!Abs(MaxDecel[a]) \/ S!Abs(asked) > S!Abs(now)
      /\ step = S!Abs(MaxAccel[a]) \/ S!Abs(asked) <= S!Abs(now) \/ (now # 0 /\ (asked < 0) # (now < 0))
  <2>1. S!Abs(asked) \in Int /\ S!Abs(now) \in Int
    BY <1>1, AbsLaw
  <2>2. QED
    BY <2>1
<1>5. step \in {S!Abs(MaxAccel[a]), S!Abs(MaxDecel[a])}
  OBVIOUS
<1> HIDE DEF asked, step, limit
<1>6. value \in Int
  BY <1>1, <1>2, ClampLaw
<1>7. /\ asked > now => value = (IF asked - now <= step THEN asked ELSE now + step)
      /\ asked < now => value = (IF now - asked <= step THEN asked ELSE now - step)
      /\ asked = now => value = asked
  BY <1>1, <1>2 DEF S!Clamp
<1>8. QED
  BY <1>3, <1>4, <1>5, <1>6, <1>7 DEF asked

\* What the proofs need of one update: it stays within the limits, does not turn back, brakes
\* by a whole step, and drives when driving is asked for.
LEMMA SmoothAxisBounds ==
  ASSUME NEW a \in Axis, NEW now \in Int, NEW wanted \in Int
  PROVE  /\ S!SmoothAxis(a, now, wanted) \in Int
         /\ now \in MinVelocity[a]..MaxVelocity[a] =>
              S!SmoothAxis(a, now, wanted) \in MinVelocity[a]..MaxVelocity[a]
         /\ 0 <= now /\ 0 <= wanted => 0 <= S!SmoothAxis(a, now, wanted)
         /\ \/ S!SmoothAxis(a, now, 0) = 0
            \/ S!Abs(S!SmoothAxis(a, now, 0)) <= S!Abs(now) - S!Abs(MaxDecel[a])
         /\ a = "vx" /\ 0 <= now /\ MinSpeed <= wanted => 0 < S!SmoothAxis(a, now, wanted)
<1> DEFINE asked == S!Clamp(wanted, MinVelocity[a], MaxVelocity[a])
<1>1. /\ MinVelocity[a] \in Int /\ MaxVelocity[a] \in Int /\ Deadband[a] \in Int
      /\ MinVelocity[a] <= 0 /\ 0 <= MaxVelocity[a] /\ MinSpeed \in Nat \ {0}
      /\ S!Abs(MaxAccel[a]) \in Nat /\ S!Abs(MaxDecel[a]) \in Nat
  BY NumbersTyped, AbsLaw
<1>2. /\ asked \in MinVelocity[a]..MaxVelocity[a] /\ asked \in Int
      /\ 0 <= wanted => 0 <= asked
      /\ MinSpeed <= wanted => (MinSpeed <= asked \/ asked = MaxVelocity[a])
  BY <1>1 DEF S!Clamp
<1> HIDE DEF asked
<1>3. PICK step \in {S!Abs(MaxAccel[a]), S!Abs(MaxDecel[a])}, value \in Int :
        /\ S!SmoothAxis(a, now, wanted) = (IF S!Abs(value) < Deadband[a] THEN 0 ELSE value)
        /\ asked > now => value = (IF asked - now <= step THEN asked ELSE now + step)
        /\ asked < now => value = (IF now - asked <= step THEN asked ELSE now - step)
        /\ asked = now => value = asked
        /\ step = S!Abs(MaxAccel[a]) \/ S!Abs(asked) <= S!Abs(now)
             \/ (now # 0 /\ (asked < 0) # (now < 0))
  BY SmoothAxisLaw DEF asked
<1>4. step \in Nat
  BY <1>1, <1>3
<1>5. S!SmoothAxis(a, now, wanted) \in Int
  BY <1>3
<1>6. now \in MinVelocity[a]..MaxVelocity[a] =>
        S!SmoothAxis(a, now, wanted) \in MinVelocity[a]..MaxVelocity[a]
  BY <1>1, <1>2, <1>3, <1>4
<1>7. 0 <= now /\ 0 <= wanted => 0 <= S!SmoothAxis(a, now, wanted)
  BY <1>1, <1>2, <1>3, <1>4
<1>8. ASSUME a = "vx", 0 <= now, MinSpeed <= wanted
      PROVE  0 < S!SmoothAxis(a, now, wanted)
  <2>1. /\ 0 < S!Abs(MaxAccel[a]) /\ Deadband[a] <= S!Abs(MaxAccel[a])
        /\ 0 < MaxVelocity[a] /\ Deadband[a] <= MaxVelocity[a]
        /\ 0 < MinSpeed /\ Deadband[a] <= MinSpeed
    BY <1>8, DeadbandAssumption
  <2>2. 0 < asked /\ Deadband[a] <= asked
    BY <1>1, <1>2, <1>8, <2>1
  <2>3. asked > now => step = S!Abs(MaxAccel[a])
    BY <1>2, <1>3, <1>8, <2>2, AbsLaw
  <2>4. 0 < value /\ Deadband[a] <= value
    BY <1>1, <1>2, <1>3, <1>4, <1>8, <2>1, <2>2, <2>3
  <2>5. S!Abs(value) = value
    BY <1>3, <2>4, AbsLaw
  <2>6. QED
    BY <1>1, <1>3, <2>4, <2>5
<1>9. \/ S!SmoothAxis(a, now, 0) = 0
      \/ S!Abs(S!SmoothAxis(a, now, 0)) <= S!Abs(now) - S!Abs(MaxDecel[a])
  <2> DEFINE still == S!Clamp(0, MinVelocity[a], MaxVelocity[a])
  <2>1. still = 0
    BY <1>1 DEF S!Clamp
  <2> HIDE DEF still
  <2>2. PICK braked \in {S!Abs(MaxAccel[a]), S!Abs(MaxDecel[a])}, slower \in Int :
          /\ S!SmoothAxis(a, now, 0) = (IF S!Abs(slower) < Deadband[a] THEN 0 ELSE slower)
          /\ still > now => slower = (IF still - now <= braked THEN still ELSE now + braked)
          /\ still < now => slower = (IF now - still <= braked THEN still ELSE now - braked)
          /\ still = now => slower = still
          /\ braked = S!Abs(MaxDecel[a]) \/ S!Abs(still) > S!Abs(now)
    BY SmoothAxisLaw DEF still
  <2>3. braked = S!Abs(MaxDecel[a])
    BY <2>1, <2>2, AbsLaw
  <2>4. slower = 0 \/ S!Abs(slower) <= S!Abs(now) - S!Abs(MaxDecel[a])
    BY <1>1, <2>1, <2>2, <2>3, AbsLaw
  <2>5. QED
    BY <2>2, <2>4
<1>10. QED
  BY <1>5, <1>6, <1>7, <1>8, <1>9

-----------------------------------------------------------------------------
\* The commands a tick can give: none but zero moves the robot slower than MinSpeed or
\* backwards, and none but zero is given blind.

Asked == {C!Twist(v, w) : v \in {0} \cup (MinSpeed..DesiredSpeed), w \in Turn}

LEMMA TickAnswers ==
  ASSUME C!Tick
  PROVE  cmd' \in Asked /\ (cmd' # C!Zero => CanDrive)
<1>1. 0 \in Turn
  BY ControlAssumption
<1>2. C!Zero \in Asked /\ \A w \in Turn : C!Twist(0, w) \in Asked
  BY <1>1 DEF Asked, C!Zero
<1>3. \A v \in MinSpeed..DesiredSpeed, w \in Turn : C!Twist(v, w) \in Asked
  BY DEF Asked
<1>4. C!HasPlan => CanDrive
  BY NumbersTyped DEF C!HasPlan, C!Healthy, CanDrive
<1>5. CASE C!TickWaiting \/ C!TickNoGlobalPath \/ C!TickEmptyPath \/ C!TickPathEnd
  BY <1>2, <1>5 DEF C!TickWaiting, C!TickNoGlobalPath, C!TickEmptyPath, C!TickPathEnd, C!Answer
<1>6. CASE C!TickAtGoal
  BY <1>2, <1>4, <1>6 DEF C!TickAtGoal, C!Answer
<1>7. CASE C!TickRotate
  BY <1>2, <1>4, <1>7 DEF C!TickRotate, C!Answer
<1>8. CASE C!TickFollow
  BY <1>2, <1>3, <1>4, <1>8 DEF C!TickFollow, C!Answer, C!Speed
<1>9. QED
  BY <1>5, <1>6, <1>7, <1>8 DEF C!Tick

\* The smoother's numbers, and what is pending for it.
Typed ==
  /\ target \in [Axis -> Int] /\ current \in [Axis -> Int] /\ targetAge \in -1..VelocityTimeout + 1
  /\ blind \in 0..StopTime + 1
  /\ cmd \in Asked \cup {C!NoCommand}
  /\ due \subseteq up /\ odd \in BOOLEAN

\* Nothing asks the robot to drive backwards, and it does not.
Ahead == 0 <= target["vx"] /\ 0 <= current["vx"]

\* A target is given up in the unit its time is over, and with the smoother.
GivenUp ==
  /\ targetAge = S!None => target = S!Still
  /\ targetAge = VelocityTimeout + 1 => "smoother" \in due
  /\ "smoother" \notin up => targetAge = S!None

\* A target that moves the robot is no older than what it was decided on, and the next
\* tick of a controller that runs confirms or ends it.
Answered ==
  /\ cmd \notin {C!NoCommand, C!Zero} => blind = 0
  /\ target # S!Still =>
       /\ blind <= targetAge
       /\ cmd = C!Zero => blind <= 2
       /\ "controller" \in up =>
            /\ blind <= (IF odd THEN 1 ELSE 2)
            /\ odd \/ "controller" \in due \/ blind = 0 \/ cmd = C!Zero

\* The updates left until StopTime.
Left == StopTime - blind + (IF "smoother" \in due THEN 1 ELSE 0)

\* From what speed an axis stops in n updates.
Stops(a, n) == S!Abs(MaxDecel[a]) * n

\* Without such a target the updates left suffice to stop.
Slowing ==
  target = S!Still =>
    IF blind <= StopTime THEN \A a \in Axis : S!Abs(current[a]) <= Stops(a, Left)
    ELSE current = S!Still

ControlInv == Typed /\ S!Limited /\ Ahead /\ GivenUp /\ Answered /\ Slowing

LEMMA StillLaw ==
  /\ S!Still = C!Zero /\ S!Still \in [Axis -> Int]
  /\ \A a \in Axis : S!Still[a] = 0
  /\ C!NoCommand \notin [Axis -> Int]
  /\ {"vx", "wz"} \subseteq Axis
<1>1. S!Still = C!Zero
  BY DEF S!Still, C!Zero, C!Twist, Axis, C!Axis
<1>2. ASSUME C!NoCommand \in [Axis -> Int] PROVE FALSE
  <2>1. DOMAIN C!NoCommand = Axis
    BY <1>2
  <2>2. DOMAIN C!NoCommand = 1..0
    BY DEF C!NoCommand
  <2>3. QED
    BY <2>1, <2>2 DEF Axis
<1>3. QED
  BY <1>1, <1>2 DEF S!Still, Axis

LEMMA AskedLaw ==
  ASSUME NEW c \in Asked
  PROVE  /\ c \in [Axis -> Int] /\ c # C!NoCommand
         /\ 0 <= c["vx"]
         /\ 0 < c["vx"] => MinSpeed <= c["vx"]
<1>1. PICK v \in {0} \cup (MinSpeed..DesiredSpeed), w \in Turn : c = C!Twist(v, w)
  BY DEF Asked
<1>2. v \in Int /\ 0 <= v /\ (0 < v => MinSpeed <= v) /\ w \in Int
  BY NumbersTyped, ControlAssumption
<1>3. c = [a \in Axis |-> IF a = "vx" THEN v ELSE w]
  BY <1>1 DEF C!Twist, C!Axis, Axis
<1>4. c \in [Axis -> Int] /\ c["vx"] = v
  BY <1>2, <1>3, StillLaw
<1>5. QED
  BY <1>2, <1>4, StillLaw

\* The smoother's three operations.
LEMMA UpdateLaw ==
  ASSUME NEW twist \in [Axis -> Int], NEW age \in -1..VelocityTimeout + 1,
         current \in [Axis -> Int], S!Limited, Ahead, 0 <= twist["vx"], S!Update(twist, age)
  PROVE  /\ target' \in [Axis -> Int] /\ current' \in [Axis -> Int]
         /\ targetAge' \in -1..VelocityTimeout
         /\ S!Limited' /\ Ahead'
         /\ targetAge' = S!None => target' = S!Still /\ current' = S!Still
         /\ age # S!None /\ age <= VelocityTimeout =>
              /\ target' = twist /\ targetAge' = age
              /\ \A a \in Axis : current'[a] = S!SmoothAxis(a, current[a], twist[a])
         /\ ~(age # S!None /\ age <= VelocityTimeout) => S!Reset
<1> USE NumbersTyped, StillLaw
<1>1. CASE age = S!None \/ age > VelocityTimeout
  <2>1. target' = S!Still /\ current' = S!Still /\ targetAge' = S!None /\ S!Reset
    BY <1>1 DEF S!Update, S!Reset
  <2>2. S!None \in -1..VelocityTimeout
    BY DEF S!None
  <2>3. S!Limited' /\ Ahead'
    BY <2>1 DEF S!Limited, Ahead
  <2>4. QED
    BY <1>1, <2>1, <2>2, <2>3
<1>2. CASE ~(age = S!None \/ age > VelocityTimeout)
  <2>1. /\ current' = [a \in Axis |-> S!SmoothAxis(a, current[a], twist[a])]
        /\ target' = twist /\ targetAge' = age
    BY <1>2 DEF S!Update
  <2>2. \A a \in Axis :
          /\ current'[a] = S!SmoothAxis(a, current[a], twist[a])
          /\ current'[a] \in MinVelocity[a]..MaxVelocity[a]
    BY <2>1, SmoothAxisBounds DEF S!Limited
  <2>3. current' \in [Axis -> Int] /\ 0 <= current'["vx"]
    BY <2>1, SmoothAxisBounds DEF Ahead
  <2>4. age # S!None /\ age \in -1..VelocityTimeout
    BY <1>2
  <2>5. S!Limited' /\ Ahead'
    BY <2>1, <2>2, <2>3, <2>4 DEF S!Limited, Ahead
  <2>6. QED
    BY <2>1, <2>2, <2>3, <2>4, <2>5
<1>3. QED
  BY <1>1, <1>2

\* The distance to stop grows with the updates left, an update at a time.
LEMMA StopsLaw ==
  ASSUME NEW a \in Axis
  PROVE  /\ \A n \in Int : Stops(a, n) \in Int
         /\ \A n \in Nat : 0 <= Stops(a, n)
         /\ \A n \in Int : Stops(a, n + 1) = Stops(a, n) + S!Abs(MaxDecel[a])
         /\ \A m, n \in Int : m <= n => Stops(a, m) <= Stops(a, n)
         /\ MaxVelocity[a] <= Stops(a, StopTime - 1) /\ -MinVelocity[a] <= Stops(a, StopTime - 1)
<1> DEFINE d == S!Abs(MaxDecel[a])
<1>1. d \in Nat
  BY NumbersTyped, AbsLaw
<1>2. MaxVelocity[a] <= Stops(a, StopTime - 1) /\ -MinVelocity[a] <= Stops(a, StopTime - 1)
  BY StopTimeAssumption DEF Stops
<1> HIDE DEF d
<1>3. \A n \in Int : d * n \in Int /\ d * (n + 1) = d * n + d
  BY <1>1
<1>4. \A n \in Nat : 0 <= d * n
  BY <1>1
<1>5. ASSUME NEW m \in Int, NEW n \in Int, m <= n PROVE d * m <= d * n
  <2>1. n - m \in Nat /\ 0 <= d * (n - m)
    BY <1>4, <1>5
  <2>2. d * (n - m) = d * n - d * m
    BY <1>1
  <2>3. QED
    BY <1>3, <2>1, <2>2
<1>6. QED
  BY <1>2, <1>3, <1>4, <1>5 DEF d, Stops

\* Zero is asked of an axis: it takes one update less to stop.
LEMMA Braking ==
  ASSUME NEW a \in Axis, NEW now \in Int, NEW n \in Nat, S!Abs(now) <= Stops(a, n + 1)
  PROVE  S!Abs(S!SmoothAxis(a, now, 0)) <= Stops(a, n)
<1>1. /\ Stops(a, n) \in Int /\ 0 <= Stops(a, n)
      /\ Stops(a, n + 1) = Stops(a, n) + S!Abs(MaxDecel[a])
  BY StopsLaw
<1>2. \/ S!SmoothAxis(a, now, 0) = 0
      \/ S!Abs(S!SmoothAxis(a, now, 0)) <= S!Abs(now) - S!Abs(MaxDecel[a])
  BY SmoothAxisBounds
<1>3. S!Abs(0) = 0 /\ S!Abs(now) \in Int /\ S!Abs(MaxDecel[a]) \in Int
  BY AbsLaw, NumbersTyped
<1>4. S!Abs(S!SmoothAxis(a, now, 0)) \in Int
  BY AbsLaw, SmoothAxisBounds
<1>5. QED
  BY <1>1, <1>2, <1>3, <1>4

\* At the limits an axis stops in StopTime - 1 updates; asked to stop it never speeds up.
LEMMA BrakingLimits ==
  ASSUME NEW a \in Axis, NEW now \in Int
  PROVE  /\ now \in MinVelocity[a]..MaxVelocity[a] => S!Abs(now) <= Stops(a, StopTime - 1)
         /\ \A n \in Nat : S!Abs(now) <= Stops(a, n) => S!Abs(S!SmoothAxis(a, now, 0)) <= Stops(a, n)
         /\ now = 0 => S!SmoothAxis(a, now, 0) = 0
<1>1. ASSUME now \in MinVelocity[a]..MaxVelocity[a] PROVE S!Abs(now) <= Stops(a, StopTime - 1)
  <2>1. MaxVelocity[a] <= Stops(a, StopTime - 1) /\ -MinVelocity[a] <= Stops(a, StopTime - 1)
    BY StopsLaw
  <2>2. Stops(a, StopTime - 1) \in Int /\ MinVelocity[a] \in Int /\ MaxVelocity[a] \in Int
    BY StopsLaw, NumbersTyped
  <2>3. QED
    BY <1>1, <2>1, <2>2, AbsLaw
<1>2. ASSUME NEW n \in Nat, S!Abs(now) <= Stops(a, n)
      PROVE  S!Abs(S!SmoothAxis(a, now, 0)) <= Stops(a, n)
  <2>1. Stops(a, n) <= Stops(a, n + 1)
    BY StopsLaw
  <2>2. /\ Stops(a, n) \in Int /\ Stops(a, n + 1) \in Int /\ S!Abs(now) \in Int
    BY StopsLaw, AbsLaw
  <2>3. S!Abs(now) <= Stops(a, n + 1)
    BY <1>2, <2>1, <2>2
  <2>4. QED
    BY <2>3, Braking
<1>3. ASSUME now = 0 PROVE S!SmoothAxis(a, now, 0) = 0
  <2>1. /\ S!SmoothAxis(a, 0, 0) \in Int
        /\ \/ S!SmoothAxis(a, 0, 0) = 0
           \/ S!Abs(S!SmoothAxis(a, 0, 0)) <= S!Abs(0) - S!Abs(MaxDecel[a])
    BY SmoothAxisBounds
  <2>2. S!Abs(0) = 0 /\ S!Abs(MaxDecel[a]) \in Nat
    BY AbsLaw, NumbersTyped
  <2>3. QED
    BY <1>3, <2>1, <2>2, AbsLaw
<1>4. QED
  BY <1>1, <1>2, <1>3

-----------------------------------------------------------------------------
\* The invariant, one operation at a time.

LEMMA ControlInit == Init => ControlInv
<1> SUFFICES ASSUME Init PROVE ControlInv
  OBVIOUS
<1> USE DEF Init, C!Init, S!Init
<1>1. Typed
  BY NumbersTyped, StillLaw DEF Typed, S!None
<1>2. S!Limited /\ Ahead
  BY NumbersTyped, StillLaw DEF S!Limited, Ahead
<1>3. GivenUp
  BY NumbersTyped DEF GivenUp, S!None
<1>4. Answered /\ Slowing
  BY NumbersTyped DEF Answered, Slowing
<1>5. QED
  BY <1>1, <1>2, <1>3, <1>4 DEF ControlInv

\* Steps that leave the smoother, the pending command and the clocks alone.
LEMMA ControlKept ==
  ASSUME ControlInv, UNCHANGED <<smoother, cmd, due, odd, up, blind>>
  PROVE  ControlInv'
BY DEF ControlInv, Typed, S!Limited, Ahead, GivenUp, Answered, Slowing, Left, smoother, controller

LEMMA ControlReceives ==
  ASSUME ControlInv, Receive
  PROVE  ControlInv'
<1>1. UNCHANGED cmd
  BY DEF Receive, C!OnLaserScan, C!OnCorrectedPose, C!OnPath, C!OnGoalPose, C!PoseExpires, C!PathExpires
<1>2. QED
  BY <1>1, ControlKept DEF Receive

LEMMA ControlTicks ==
  ASSUME ControlInv, ControllerTick
  PROVE  ControlInv'
<1>1. /\ cmd' \in Asked /\ (cmd' # C!Zero => CanDrive)
  BY TickAnswers DEF ControllerTick
<1>2. /\ due' = due \ {"controller"} /\ cmd = C!NoCommand /\ "controller" \in due
      /\ blind' = (IF CanDrive THEN 0 ELSE blind)
      /\ UNCHANGED <<target, current, targetAge, odd, up>>
  BY DEF ControllerTick, smoother
<1>3. Typed'
  BY <1>1, <1>2, NumbersTyped DEF ControlInv, Typed
<1>4. S!Limited' /\ Ahead' /\ GivenUp'
  BY <1>2 DEF ControlInv, S!Limited, Ahead, GivenUp
<1>5. Answered'
  BY <1>1, <1>2, NumbersTyped DEF ControlInv, Typed, Answered
<1>6. Slowing'
  <2>1. ASSUME target = S!Still, CanDrive, NEW a \in Axis
        PROVE  S!Abs(current[a]) <= Stops(a, Left')
    <3>1. Left' = StopTime + (IF "smoother" \in due THEN 1 ELSE 0) /\ blind' = 0
      BY <1>2, <2>1, NumbersTyped DEF Left
    <3>2. Left' \in Nat /\ StopTime - 1 <= Left' /\ StopTime - 1 \in Int
      BY <3>1, NumbersTyped
    <3>3. Stops(a, StopTime - 1) <= Stops(a, Left')
      BY <3>2, StopsLaw
    <3>4. S!Abs(current[a]) <= Stops(a, StopTime - 1)
      BY BrakingLimits, NumbersTyped DEF ControlInv, Typed, S!Limited
    <3>5. S!Abs(current[a]) \in Int /\ Stops(a, StopTime - 1) \in Int /\ Stops(a, Left') \in Int
      BY <3>2, AbsLaw, StopsLaw DEF ControlInv, Typed
    <3>6. QED
      BY <3>3, <3>4, <3>5
  <2>2. CASE CanDrive
    BY <1>2, <2>1, <2>2, NumbersTyped DEF Slowing
  <2>3. CASE ~CanDrive
    BY <1>2, <2>3 DEF ControlInv, Slowing, Left
  <2>4. QED
    BY <2>2, <2>3
<1>7. QED
  BY <1>3, <1>4, <1>5, <1>6 DEF ControlInv

\* The smoother takes a command.
LEMMA ControlCommands ==
  ASSUME ControlInv, SmootherCommand
  PROVE  ControlInv' /\ (cmd["vx"] > 0 => current'["vx"] > 0)
<1>1. /\ cmd \in Asked /\ cmd' = C!NoCommand /\ "smoother" \in up
      /\ UNCHANGED <<due, odd, up, blind>> /\ S!Update(cmd, 0)
  BY DEF SmootherCommand, S!OnCmdVelTwist, ControlInv, Typed
<1>2. /\ cmd \in [Axis -> Int] /\ 0 <= cmd["vx"] /\ (0 < cmd["vx"] => MinSpeed <= cmd["vx"])
  BY <1>1, AskedLaw
<1>3. 0 \in -1..VelocityTimeout + 1 /\ 0 # S!None /\ 0 <= VelocityTimeout
  BY NumbersTyped DEF S!None
<1>4. /\ target' = cmd /\ targetAge' = 0 /\ current' \in [Axis -> Int]
      /\ S!Limited' /\ Ahead'
      /\ \A a \in Axis : current'[a] = S!SmoothAxis(a, current[a], cmd[a])
  BY <1>1, <1>2, <1>3, UpdateLaw DEF ControlInv, Typed
<1>5. Typed'
  BY <1>1, <1>2, <1>4, NumbersTyped DEF ControlInv, Typed
<1>6. GivenUp'
  BY <1>1, <1>4, NumbersTyped DEF GivenUp, S!None
<1>7. Answered'
  <2>1. cmd # S!Still => cmd # C!NoCommand /\ cmd # C!Zero
    BY <1>1, AskedLaw, StillLaw
  <2>2. QED
    BY <1>1, <1>4, <2>1, NumbersTyped, StillLaw DEF ControlInv, Typed, Answered
<1>8. Slowing'
  <2>1. SUFFICES ASSUME cmd = S!Still PROVE Slowing'
    BY <1>4 DEF Slowing
  <2>2. Left' = Left /\ Left \in Int /\ (blind <= StopTime => Left \in Nat /\ StopTime - blind <= Left)
    BY <1>1, NumbersTyped DEF ControlInv, Typed, Left
  <2>3. \A a \in Axis : current[a] \in Int /\ current'[a] = S!SmoothAxis(a, current[a], 0)
    BY <1>4, <2>1, StillLaw DEF ControlInv, Typed
  <2>4. CASE target = S!Still /\ blind <= StopTime
    <3>1. \A a \in Axis : S!Abs(current[a]) <= Stops(a, Left)
      BY <2>4 DEF ControlInv, Slowing
    <3>2. \A a \in Axis : S!Abs(current'[a]) <= Stops(a, Left)
      BY <2>2, <2>3, <2>4, <3>1, BrakingLimits
    <3>3. QED
      BY <1>1, <2>2, <2>4, <3>2 DEF Slowing
  <2>5. CASE target = S!Still /\ ~(blind <= StopTime)
    <3>1. current = S!Still
      BY <2>5 DEF ControlInv, Slowing
    <3>2. \A a \in Axis : current'[a] = 0
      BY <2>3, <3>1, BrakingLimits, StillLaw
    <3>3. current' = S!Still
      BY <1>4, <3>2 DEF S!Still
    <3>4. QED
      BY <1>1, <2>5, <3>3 DEF Slowing
  <2>6. CASE target # S!Still
    <3>1. blind <= targetAge /\ blind <= 2
      BY <2>1, <2>6, StillLaw DEF ControlInv, Answered
    <3>2. blind <= StopTime
      BY <3>1, NumbersTyped DEF ControlInv, Typed
    <3>3. ASSUME NEW a \in Axis PROVE S!Abs(current'[a]) <= Stops(a, Left)
      <4>1. S!Abs(current[a]) <= Stops(a, StopTime - 1)
        BY BrakingLimits, <2>3 DEF ControlInv, S!Limited
      <4>2. Left \in Nat /\ StopTime - 1 <= Left + 1 /\ StopTime - 1 \in Int
        BY <2>2, <3>1, <3>2, NumbersTyped DEF ControlInv, Typed
      <4>3. Stops(a, StopTime - 1) <= Stops(a, Left + 1)
        BY <4>2, StopsLaw
      <4>4. Stops(a, StopTime - 1) \in Int /\ Stops(a, Left + 1) \in Int
        BY <4>2, StopsLaw
      <4>5. S!Abs(current[a]) \in Int
        BY <2>3, AbsLaw
      <4>6. S!Abs(current[a]) <= Stops(a, Left + 1)
        BY <4>1, <4>3, <4>4, <4>5
      <4>7. QED
        BY <2>3, <4>2, <4>6, Braking
    <3>4. QED
      BY <1>1, <2>2, <3>2, <3>3 DEF Slowing
  <2>7. QED
    BY <2>4, <2>5, <2>6
<1>9. cmd["vx"] > 0 => current'["vx"] > 0
  <2>1. "vx" \in Axis /\ current["vx"] \in Int /\ cmd["vx"] \in Int /\ 0 <= current["vx"]
    BY <1>2, StillLaw DEF ControlInv, Typed, Ahead
  <2>2. MinSpeed <= cmd["vx"] => 0 < S!SmoothAxis("vx", current["vx"], cmd["vx"])
    BY <2>1, SmoothAxisBounds
  <2>3. current'["vx"] = S!SmoothAxis("vx", current["vx"], cmd["vx"]) /\ current'["vx"] \in Int
    BY <1>4, <2>1
  <2>4. QED
    BY <1>2, <2>1, <2>2, <2>3
<1>10. QED
  BY <1>4, <1>5, <1>6, <1>7, <1>8, <1>9 DEF ControlInv

\* The smoother's tick.
LEMMA ControlSmooths ==
  ASSUME ControlInv, SmootherTick
  PROVE  ControlInv'
<1>1. /\ "smoother" \in due /\ due' = due \ {"smoother"} /\ S!Update(target, targetAge)
      /\ UNCHANGED <<cmd, odd, up, blind>>
  BY DEF SmootherTick, S!OnTick, controller
<1>2. /\ target' \in [Axis -> Int] /\ current' \in [Axis -> Int]
      /\ targetAge' \in -1..VelocityTimeout
      /\ S!Limited' /\ Ahead'
      /\ targetAge' = S!None => target' = S!Still /\ current' = S!Still
      /\ targetAge # S!None /\ targetAge <= VelocityTimeout =>
           /\ target' = target /\ targetAge' = targetAge
           /\ \A a \in Axis : current'[a] = S!SmoothAxis(a, current[a], target[a])
      /\ ~(targetAge # S!None /\ targetAge <= VelocityTimeout) => S!Reset
  BY <1>1, UpdateLaw DEF ControlInv, Typed, Ahead
<1>3. Typed' /\ GivenUp'
  <2>1. "smoother" \in up
    BY <1>1 DEF ControlInv, Typed
  <2>2. QED
    BY <1>1, <1>2, <2>1, NumbersTyped DEF ControlInv, Typed, GivenUp
<1>4. CASE ~(targetAge # S!None /\ targetAge <= VelocityTimeout)
  <2>1. target' = S!Still /\ current' = S!Still
    BY <1>2, <1>4 DEF S!Reset
  <2>2. Left' = StopTime - blind
    BY <1>1, NumbersTyped DEF ControlInv, Typed, Left
  <2>3. blind <= StopTime => \A a \in Axis : S!Abs(current'[a]) <= Stops(a, Left')
    BY <2>1, <2>2, StopsLaw, AbsLaw, StillLaw, NumbersTyped DEF ControlInv, Typed
  <2>4. Slowing'
    BY <1>1, <2>1, <2>3 DEF Slowing
  <2>5. Answered'
    BY <1>1, <2>1 DEF ControlInv, Answered
  <2>6. QED
    BY <1>2, <1>3, <2>4, <2>5 DEF ControlInv
<1>5. CASE targetAge # S!None /\ targetAge <= VelocityTimeout
  <2>1. target' = target /\ targetAge' = targetAge
    BY <1>2, <1>5
  <2>2. Answered'
    BY <1>1, <2>1 DEF ControlInv, Answered
  <2>3. Slowing'
    <3>1. SUFFICES ASSUME target = S!Still PROVE Slowing'
      BY <2>1 DEF Slowing
    <3>2. \A a \in Axis : current[a] \in Int /\ current'[a] = S!SmoothAxis(a, current[a], 0)
      BY <1>2, <1>5, <3>1, StillLaw DEF ControlInv, Typed
    <3>3. Left = StopTime - blind + 1 /\ Left' = StopTime - blind
      BY <1>1, NumbersTyped DEF ControlInv, Typed, Left
    <3>4. CASE blind <= StopTime
      <4>1. StopTime - blind \in Nat
        BY <3>4, NumbersTyped DEF ControlInv, Typed
      <4>2. \A a \in Axis : S!Abs(current[a]) <= Stops(a, StopTime - blind + 1)
        BY <3>1, <3>3, <3>4 DEF ControlInv, Slowing
      <4>3. \A a \in Axis : S!Abs(current'[a]) <= Stops(a, StopTime - blind)
        BY <3>2, <4>1, <4>2, Braking
      <4>4. QED
        BY <1>1, <3>3, <3>4, <4>3 DEF Slowing
    <3>5. CASE ~(blind <= StopTime)
      <4>1. current = S!Still
        BY <3>1, <3>5 DEF ControlInv, Slowing
      <4>2. \A a \in Axis : current'[a] = 0
        BY <3>2, <4>1, BrakingLimits, StillLaw
      <4>3. current' = S!Still
        BY <1>2, <4>2 DEF S!Still
      <4>4. QED
        BY <1>1, <3>5, <4>3 DEF Slowing
    <3>6. QED
      BY <3>4, <3>5
  <2>4. QED
    BY <1>2, <1>3, <2>2, <2>3 DEF ControlInv
<1>6. QED
  BY <1>4, <1>5

\* The smoother gives up, as an input it cannot read or the Stop event has it do.
LEMMA ControlResets ==
  ASSUME ControlInv, S!Reset, due' = due \/ (due' = due \ {"smoother"} /\ "smoother" \notin up'),
         up' \in {up, up \ {"smoother"}}, due' \subseteq up', UNCHANGED <<cmd, odd, blind>>
  PROVE  ControlInv'
<1>1. target' = S!Still /\ current' = S!Still /\ targetAge' = S!None
  BY DEF S!Reset
<1>2. Typed'
  BY <1>1, NumbersTyped, StillLaw DEF ControlInv, Typed, S!None
<1>3. S!Limited' /\ Ahead'
  BY <1>1, NumbersTyped, StillLaw DEF S!Limited, Ahead
<1>4. GivenUp' /\ Answered'
  BY <1>1, NumbersTyped DEF ControlInv, GivenUp, Answered, S!None
<1>5. Slowing'
  <2>1. blind <= StopTime => Left' \in Nat
    BY NumbersTyped DEF ControlInv, Typed, Left
  <2>2. blind <= StopTime => \A a \in Axis : S!Abs(current'[a]) <= Stops(a, Left')
    BY <1>1, <2>1, StopsLaw, AbsLaw, StillLaw
  <2>3. QED
    BY <1>1, <2>2 DEF Slowing
<1>6. QED
  BY <1>2, <1>3, <1>4, <1>5 DEF ControlInv

\* The controller leaves, with a last zero or without a word.
LEMMA ControlLeaves ==
  ASSUME ControlInv, Leave("controller"), UNCHANGED <<smoother, odd, blind>>,
         cmd' = cmd \/ (cmd = C!NoCommand /\ cmd' = C!Zero)
  PROVE  ControlInv'
<1>1. /\ "controller" \in up /\ up' = up \ {"controller"} /\ due' = due \ {"controller"}
      /\ UNCHANGED <<target, current, targetAge>>
  BY DEF Leave, smoother
<1>2. C!Zero \in Asked
  BY ControlAssumption DEF Asked, C!Zero
<1>3. Typed'
  BY <1>1, <1>2 DEF ControlInv, Typed
<1>4. S!Limited' /\ Ahead' /\ GivenUp'
  BY <1>1 DEF ControlInv, S!Limited, Ahead, GivenUp
<1>5. Answered'
  BY <1>1 DEF ControlInv, Typed, Answered
<1>6. Slowing'
  BY <1>1 DEF ControlInv, Slowing, Left
<1>7. QED
  BY <1>3, <1>4, <1>5, <1>6 DEF ControlInv

\* A unit of time: what was due is done, so a target that moves the robot is within its
\* timeout and the controller's period.
LEMMA ControlElapses ==
  ASSUME ControlInv, Elapse
  PROVE  ControlInv'
<1>1. /\ due = {} /\ (cmd = C!NoCommand \/ "smoother" \notin up) /\ cmd' = C!NoCommand
      /\ targetAge' = (IF targetAge \in {S!None, VelocityTimeout + 1} THEN targetAge ELSE targetAge + 1)
      /\ blind' = (IF blind > StopTime THEN blind ELSE blind + 1)
      /\ odd' = ~odd /\ due' = {n \in up : n = "smoother" \/ odd}
      /\ UNCHANGED <<target, current, up>>
  BY DEF Elapse, C!Elapse, S!Elapse
<1>2. /\ targetAge \in -1..VelocityTimeout /\ blind \in 0..StopTime + 1 /\ odd \in BOOLEAN
      /\ VelocityTimeout + 1 \notin -1..VelocityTimeout
  BY <1>1, NumbersTyped DEF ControlInv, Typed, GivenUp
<1>3. Typed'
  BY <1>1, <1>2, NumbersTyped DEF ControlInv, Typed, S!None
<1>4. S!Limited' /\ Ahead'
  BY <1>1, <1>2 DEF ControlInv, S!Limited, Ahead, S!None
<1>5. GivenUp'
  BY <1>1, <1>2, NumbersTyped DEF ControlInv, GivenUp, S!None
<1>6. Answered'
  <2>1. SUFFICES ASSUME target # S!Still PROVE Answered'
    BY <1>1 DEF Answered
  <2>2. targetAge # S!None /\ "smoother" \in up /\ cmd = C!NoCommand
    BY <1>1, <2>1 DEF ControlInv, GivenUp
  <2>3. /\ blind <= targetAge
        /\ "controller" \in up => blind <= (IF odd THEN 1 ELSE 0)
    BY <1>1, <1>2, <2>1, <2>2, StillLaw DEF ControlInv, Answered, C!NoCommand
  <2>4. targetAge' = targetAge + 1
    BY <1>1, <1>2, <2>2
  <2>5. blind' <= blind + 1 /\ blind' \in Int /\ blind \in Int
    BY <1>1, <1>2, NumbersTyped
  <2>6. "controller" \in up' =>
          /\ blind' <= (IF odd' THEN 1 ELSE 2)
          /\ odd' \/ "controller" \in due'
    <3>1. CASE odd
      <4>1. ~odd' /\ ("controller" \in up' => "controller" \in due')
        BY <1>1, <3>1
      <4>2. "controller" \in up' => blind <= 1
        BY <1>1, <2>3, <3>1
      <4>3. QED
        BY <2>5, <4>1, <4>2
    <3>2. CASE ~odd
      <4>1. odd'
        BY <1>1, <3>2
      <4>2. "controller" \in up' => blind <= 0
        BY <1>1, <2>3, <3>2
      <4>3. QED
        BY <2>5, <4>1, <4>2
    <3>3. QED
      BY <3>1, <3>2
  <2>7. cmd' = C!NoCommand /\ C!NoCommand # C!Zero
    BY <1>1, StillLaw
  <2>8. blind' <= targetAge'
    BY <1>2, <2>3, <2>4, <2>5
  <2>9. QED
    BY <2>6, <2>7, <2>8 DEF Answered
<1>7. Slowing'
  <2>1. SUFFICES ASSUME target = S!Still PROVE Slowing'
    BY <1>1 DEF Slowing
  <2>2. CASE "smoother" \notin up
    <3>1. current = S!Still
      BY <2>2 DEF ControlInv, GivenUp, S!Limited
    <3>2. blind' <= StopTime => Left' \in Nat
      BY <1>1, <1>2, NumbersTyped DEF Left
    <3>3. blind' <= StopTime => \A a \in Axis : S!Abs(current'[a]) <= Stops(a, Left')
      BY <1>1, <3>1, <3>2, StopsLaw, AbsLaw, StillLaw
    <3>4. QED
      BY <1>1, <3>1, <3>3 DEF Slowing
  <2>3. CASE "smoother" \in up
    <3>1. CASE blind < StopTime
      <4>1. Left' = Left /\ blind' <= StopTime /\ blind <= StopTime
        BY <1>1, <1>2, <2>3, <3>1, NumbersTyped DEF Left
      <4>2. QED
        BY <1>1, <2>1, <4>1 DEF ControlInv, Slowing
    <3>2. CASE blind = StopTime
      <4>1. Left = 0
        BY <1>1, <3>2, NumbersTyped DEF Left
      <4>2. \A a \in Axis : S!Abs(current[a]) <= 0
        <5>1. \A a \in Axis : S!Abs(current[a]) <= Stops(a, 0)
          BY <1>2, <2>1, <3>2, <4>1, NumbersTyped DEF ControlInv, Slowing
        <5>2. \A a \in Axis : Stops(a, 0) = 0
          BY NumbersTyped, AbsLaw DEF Stops
        <5>3. QED
          BY <5>1, <5>2
      <4>3. \A a \in Axis : current[a] = 0
        BY <4>2, AbsLaw DEF ControlInv, Typed
      <4>4. current = S!Still
        BY <4>3 DEF ControlInv, Typed, S!Still
      <4>5. blind' = StopTime + 1
        BY <1>1, <1>2, <3>2, NumbersTyped
      <4>6. QED
        BY <1>1, <4>4, <4>5, NumbersTyped DEF Slowing
    <3>3. CASE blind = StopTime + 1
      BY <1>1, <1>2, <2>1, <3>3, NumbersTyped DEF ControlInv, Slowing
    <3>4. QED
      BY <1>2, <3>1, <3>2, <3>3, NumbersTyped
  <2>4. QED
    BY <2>2, <2>3
<1>8. QED
  BY <1>3, <1>4, <1>5, <1>6, <1>7 DEF ControlInv

LEMMA ControlNext == ControlInv /\ [Next]_vars => ControlInv'
<1> SUFFICES ASSUME ControlInv, [Next]_vars PROVE ControlInv'
  OBVIOUS
<1>1. CASE Receive
  BY <1>1, ControlReceives
<1>2. CASE ControllerTick
  BY <1>2, ControlTicks
<1>3. CASE SmootherCommand
  BY <1>3, ControlCommands
<1>4. CASE SmootherTick
  BY <1>4, ControlSmooths
<1>5. CASE SmootherBadInput
  <2>1. due' \subseteq up'
    BY <1>5 DEF SmootherBadInput, ControlInv, Typed
  <2>2. QED
    BY <1>5, <2>1, ControlResets DEF SmootherBadInput, S!OnBadInputOrStop, controller
<1>6. CASE SmootherStops
  <2>1. due' \subseteq up' /\ "smoother" \notin up'
    BY <1>6 DEF SmootherStops, Leave, ControlInv, Typed
  <2>2. QED
    BY <1>6, <2>1, ControlResets DEF SmootherStops, Leave, S!OnBadInputOrStop, controller
<1>7. CASE ControllerStops
  BY <1>7, ControlLeaves DEF ControllerStops, C!OnStop
<1>8. CASE ControllerDies
  BY <1>8, ControlLeaves DEF ControllerDies
<1>9. CASE Elapse
  BY <1>9, ControlElapses
<1>10. CASE UNCHANGED vars
  BY <1>10, ControlKept DEF vars, controller
<1>11. QED
  BY <1>1, <1>2, <1>3, <1>4, <1>5, <1>6, <1>7, <1>8, <1>9, <1>10 DEF Next

-----------------------------------------------------------------------------
LEMMA ControlHolds == Spec => []ControlInv
BY ControlInit, ControlNext, PTL DEF Spec

\* Whatever the controller asks for, and however its commands, the ticks and the stops
\* interleave, what leaves the smoother is within its limits and answers a command.
THEOREM CommandsLimited == Spec => []Limited
<1>1. ControlInv => Limited
  BY DEF ControlInv, Limited
<1>2. QED
  BY <1>1, ControlHolds, PTL

\* A controller that lost what driving needs, or that is gone, has the robot standing
\* within StopTime: its next tick ends the target, or the target's own time does, and the
\* updates left suffice for the ramp.
THEOREM BlindStop == Spec => []BlindStands
<1>1. ControlInv => BlindStands
  <2> SUFFICES ASSUME ControlInv, blind > StopTime PROVE current = S!Still
    BY DEF BlindStands
  <2>1. CASE target = S!Still
    BY <2>1, NumbersTyped DEF ControlInv, Typed, Slowing
  <2>2. CASE target # S!Still
    <3>1. blind <= VelocityTimeout + 1
      BY <2>2, NumbersTyped DEF ControlInv, Typed, Answered
    <3>2. QED
      BY <3>1, NumbersTyped DEF ControlInv, Typed
  <2>3. QED
    BY <2>1, <2>2
<1>2. QED
  BY <1>1, ControlHolds, PTL

\* A command to follow the path gets through the limits, the step and the deadband.
THEOREM FollowingMoves == Spec => FollowingDrives
<1>1. ControlInv /\ [Next]_vars => [SmootherCommand /\ cmd["vx"] > 0 => current'["vx"] > 0]_vars
  BY ControlCommands
<1>2. QED
  BY <1>1, ControlHolds, PTL DEF Spec, FollowingDrives

-----------------------------------------------------------------------------
\* The distance kept, for every horizon that suffices.

Speeds == 0..DesiredSpeed
Drivable == MinSpeed..DesiredSpeed
Slower == S!Abs(MaxDecel["vx"])

LEMMA FastestLaw ==
  ASSUME NEW u \in Nat, NEW w \in Nat, NEW n \in Int, 0 <= n
  PROVE  /\ Fastest(u, w, n) \in Nat /\ Fastest(u, w, n - 1) \in Nat
         /\ w <= Fastest(u, w, n)
         /\ Fastest(u, w, n) <= Fastest(u, w, n - 1)
         /\ \/ Fastest(u, w, n - 1) - Slower <= Fastest(u, w, n)
            \/ Fastest(u, w, n - 1) <= w
         /\ n < Reaction => u <= Fastest(u, w, n)
         /\ n <= Reaction => u <= Fastest(u, w, n - 1)
<1> DEFINE Steps(m) == IF m < Reaction THEN 0 ELSE m - Reaction + 1
<1>1. Reaction \in Nat /\ Slower \in Nat
  BY NumbersTyped, AbsLaw, StillLaw DEF Reaction, Slower
<1>2. /\ Steps(n) \in Nat /\ Steps(n - 1) \in Nat
      /\ n < Reaction => Steps(n) = 0
      /\ n <= Reaction => Steps(n - 1) = 0
      /\ Steps(n) = Steps(n - 1) \/ Steps(n) = Steps(n - 1) + 1
  BY <1>1
<1>3. /\ Slower * Steps(n) \in Nat /\ Slower * Steps(n - 1) \in Nat
      /\ \/ Slower * Steps(n) = Slower * Steps(n - 1)
         \/ Slower * Steps(n) = Slower * Steps(n - 1) + Slower
      /\ n < Reaction => Slower * Steps(n) = 0
      /\ n <= Reaction => Slower * Steps(n - 1) = 0
  <2> HIDE DEF Steps
  <2>1. \A k \in Nat : Slower * k \in Nat /\ Slower * (k + 1) = Slower * k + Slower
    BY <1>1
  <2>2. Slower * 0 = 0
    BY <1>1
  <2>3. QED
    BY <1>2, <2>1, <2>2
<1>4. /\ Fastest(u, w, n) = (IF u - Slower * Steps(n) > w THEN u - Slower * Steps(n) ELSE w)
      /\ Fastest(u, w, n - 1) = (IF u - Slower * Steps(n - 1) > w THEN u - Slower * Steps(n - 1) ELSE w)
  BY DEF Fastest, Slower
<1> HIDE DEF Steps
<1>5. QED
  BY <1>1, <1>3, <1>4

\* An update towards a speed no faster than wanted.
LEMMA SlowedLaw ==
  ASSUME NEW now \in Nat, NEW wanted \in Nat
  PROVE  /\ S!SmoothAxis("vx", now, wanted) \in Nat
         /\ \/ S!SmoothAxis("vx", now, wanted) <= wanted
            \/ S!SmoothAxis("vx", now, wanted) <= now - Slower
<1> DEFINE asked == S!Clamp(wanted, MinVelocity["vx"], MaxVelocity["vx"])
<1>1. "vx" \in Axis /\ Slower \in Nat /\ S!Abs(MaxAccel["vx"]) \in Nat
  BY NumbersTyped, AbsLaw, StillLaw DEF Slower
<1>2. asked \in Nat /\ asked <= wanted
  BY <1>1, NumbersTyped DEF S!Clamp
<1> HIDE DEF asked
<1>3. PICK step \in {S!Abs(MaxAccel["vx"]), Slower}, value \in Int :
        /\ S!SmoothAxis("vx", now, wanted) = (IF S!Abs(value) < Deadband["vx"] THEN 0 ELSE value)
        /\ asked > now => value = (IF asked - now <= step THEN asked ELSE now + step)
        /\ asked < now => value = (IF now - asked <= step THEN asked ELSE now - step)
        /\ asked = now => value = asked
        /\ step = Slower \/ S!Abs(asked) > S!Abs(now)
  BY <1>1, SmoothAxisLaw DEF asked, Slower
<1>4. S!Abs(asked) = asked /\ S!Abs(now) = now
  BY <1>2, AbsLaw
<1>5. value \in Nat /\ (value <= wanted \/ value <= now - Slower)
  BY <1>1, <1>2, <1>3, <1>4
<1>6. QED
  BY <1>3, <1>5

\* The fastest of the speeds at which the horizon is free.
LEMMA LargestLaw ==
  ASSUME NEW o \in Nat, NEW v \in Drivable, o - v * Horizon > Limit
  PROVE  \E w \in Drivable : /\ o - w * Horizon > Limit
                             /\ \A x \in Drivable : o - x * Horizon > Limit => x <= w
<1> DEFINE Free(x) == o - x * Horizon > Limit
           a == o - Limit - 1
<1>1. Horizon \in Nat /\ Limit \in Nat /\ MinSpeed \in Nat /\ DesiredSpeed \in Nat
  BY ControlAssumption
<1>2. \A x \in Drivable : x \in Nat /\ x * Horizon \in Nat
  BY <1>1 DEF Drivable
<1>3. CASE Horizon = 0
  <2>1. \A x \in Drivable : x * Horizon = 0
    BY <1>1, <1>2, <1>3
  <2>2. Free(DesiredSpeed) /\ DesiredSpeed \in Drivable
    BY <1>1, <2>1 DEF Drivable
  <2>3. QED
    BY <1>1, <2>2 DEF Drivable
<1>4. CASE Horizon > 0
  <2> DEFINE k == a \div Horizon
  <2>1. a \in Nat /\ v * Horizon <= a
    BY <1>1, <1>2
  <2>2. k \in Int /\ Horizon * k <= a /\ a < Horizon * k + Horizon
    BY <1>1, <1>4, <2>1
  <2> HIDE DEF k
  <2>3. \A x \in Drivable : Free(x) => x <= k
    <3>1. SUFFICES ASSUME NEW x \in Drivable, Free(x), k + 1 <= x PROVE FALSE
      BY <1>2, <2>2
    <3>2. (x - (k + 1)) * Horizon >= 0
      BY <1>1, <1>2, <2>2, <3>1
    <3>3. (x - (k + 1)) * Horizon = x * Horizon - Horizon * k - Horizon
      BY <1>1, <1>2, <2>2
    <3>4. x * Horizon <= a
      BY <1>1, <1>2, <3>1
    <3>5. x * Horizon \in Int /\ Horizon * k \in Int
      BY <1>1, <1>2, <2>2
    <3>6. QED
      BY <1>1, <2>1, <2>2, <3>2, <3>3, <3>4, <3>5
  <2>4. CASE k <= DesiredSpeed
    <3>1. k \in Drivable
      BY <1>1, <2>2, <2>3, <2>4 DEF Drivable
    <3>2. k * Horizon = Horizon * k
      BY <1>1, <2>2
    <3>3. Free(k)
      BY <1>1, <1>2, <2>1, <2>2, <3>1, <3>2
    <3>4. QED
      BY <2>3, <3>1, <3>3
  <2>5. CASE ~(k <= DesiredSpeed)
    <3>1. DesiredSpeed \in Drivable
      BY <1>1 DEF Drivable
    <3>2. (k - DesiredSpeed) * Horizon >= 0
      BY <1>1, <2>2, <2>5
    <3>3. (k - DesiredSpeed) * Horizon = Horizon * k - DesiredSpeed * Horizon
      BY <1>1, <2>2
    <3>4. DesiredSpeed * Horizon \in Int /\ Horizon * k \in Int
      BY <1>1, <2>2
    <3>5. Free(DesiredSpeed)
      BY <1>1, <2>1, <2>2, <3>2, <3>3, <3>4
    <3>6. QED
      BY <1>1, <3>1, <3>5 DEF Drivable
  <2>6. QED
    BY <2>4, <2>5
<1>5. QED
  BY <1>1, <1>3, <1>4

\* A horizon that suffices, fact by fact.
LEMMA ReserveLaw ==
  ASSUME NEW reserve, NEW left, HorizonSuffices(reserve, left), NEW c \in Speeds
  PROVE  /\ reserve[c] \in Nat /\ reserve[0] = 0
         /\ \A b \in Speeds : b <= c => reserve[b] <= reserve[c]
         /\ \A b \in Speeds : b = 0 \/ b <= c - Slower => b <= c /\ b + reserve[b] <= reserve[c]
<1>1. reserve \in [Speeds -> Nat] /\ reserve[0] = 0
  BY DEF HorizonSuffices, Speeds
<1>2. \A b \in 0..c :
        /\ reserve[b] <= reserve[c]
        /\ b <= c - Slower => b + reserve[b] <= reserve[c]
  BY DEF HorizonSuffices, Speeds, Slower
<1>3. Slower \in Nat /\ DesiredSpeed \in Nat
  BY NumbersTyped, AbsLaw, StillLaw DEF Slower
<1>4. \A b \in Speeds : b <= c => b \in 0..c /\ reserve[b] <= reserve[c]
  BY <1>2, <1>3 DEF Speeds
<1>5. ASSUME NEW b \in Speeds, b = 0 \/ b <= c - Slower
      PROVE  b <= c /\ b + reserve[b] <= reserve[c]
  BY <1>1, <1>2, <1>3, <1>4, <1>5 DEF Speeds
<1>6. QED
  BY <1>1, <1>4, <1>5

LEMMA LeftLaw ==
  ASSUME NEW reserve, NEW left, HorizonSuffices(reserve, left), NEW u \in Speeds, NEW w \in Drivable
  PROVE  /\ left[u][w][0] + Spread + (Keep - Limit) <= w * Horizon \/ left[u][w][0] <= reserve[u]
         /\ \A n \in Nat : n <= ScanTimeout + VelocityTimeout + 2 => left[u][w][n] \in Nat
         /\ \A n \in Nat : n <= ScanTimeout + VelocityTimeout =>
              Fastest(u, w, n) + left[u][w][n + 1] <= left[u][w][n]
         /\ \A n \in Nat : n <= ScanTimeout + 2 => reserve[w] <= left[u][w][n]
<1>1. ScanTimeout \in Nat /\ VelocityTimeout \in Nat
  BY ControlAssumption
<1>2. left \in [Speeds -> [Drivable -> [0..ScanTimeout + VelocityTimeout + 2 -> Nat]]]
  BY DEF HorizonSuffices, Speeds, Drivable
<1>3. /\ left[u][w][0] + Spread + (Keep - Limit) <= w * Horizon \/ left[u][w][0] <= reserve[u]
      /\ \A n \in 0..ScanTimeout + VelocityTimeout :
           Fastest(u, w, n) + left[u][w][n + 1] <= left[u][w][n]
      /\ \A n \in 0..ScanTimeout + 2 : reserve[w] <= left[u][w][n]
  BY DEF HorizonSuffices, Speeds, Drivable
<1>4. \A n \in 0..ScanTimeout + VelocityTimeout + 2 : left[u][w][n] \in Nat
  BY <1>2
<1>5. QED
  BY <1>1, <1>3, <1>4

-----------------------------------------------------------------------------
\* Why the distance is kept.

Pending == cmd # C!NoCommand

\* The units until the controller's next tick.
Wait == IF "controller" \in due THEN 0 ELSE IF odd THEN 1 ELSE 2

\* The numbers the distance is made of.
DistanceTyped ==
  /\ gap \in Nat /\ gap > Keep
  /\ obs \in Nat /\ scanAge \in 0..ScanTimeout + 1
  /\ current["vx"] \in Speeds /\ target["vx"] \in Speeds

\* A command is sent in a unit with a tick; a controller that runs replaces a target within
\* two units.
Renewed ==
  /\ "controller" \in due => ~odd
  /\ Pending /\ "controller" \in up => ~odd /\ "controller" \notin due
  /\ Pending /\ "smoother" \in up => targetAge <= 2
  /\ ~Pending /\ "controller" \in up => targetAge + Wait <= 2

\* Room to brake from the speed that it has, or that the next update slows down.
CanBrake(reserve) ==
  gap - Keep > (IF "smoother" \in due THEN 0 ELSE current["vx"]) + reserve[current["vx"]]

\* n units after a scan that lets the robot drive at w: as fast as it may be, on that target.
Drives(u, w, n) ==
  /\ target["vx"] <= w
  /\ current["vx"] <= Fastest(u, w, IF "smoother" \in due THEN n - 1 ELSE n)

\* The same, with the command for it still on its way.
WillDrive(u, w, n) ==
  /\ cmd["vx"] <= w
  /\ current["vx"] <= Fastest(u, w, n - 1) /\ target["vx"] <= Fastest(u, w, n - 1)

\* A target is driven on what is left from its scan, which was no older than the timeout
\* when the target was decided on.
TargetCovered(reserve, left) ==
  IF target["vx"] = 0 THEN CanBrake(reserve)
  ELSE \E u \in Speeds, w \in Drivable, n \in 0..ScanTimeout + targetAge :
         /\ gap - Keep > left[u][w][n]
         /\ Drives(u, w, n)
         /\ current["vx"] <= w \/ CanBrake(reserve)

CommandCovered(left) ==
  Pending /\ cmd["vx"] > 0 =>
    \E u \in Speeds, w \in Drivable, n \in 0..ScanTimeout :
      gap - Keep > left[u][w][n] /\ WillDrive(u, w, n)

\* The fastest that the last scan allows.
Allowed(w) ==
  /\ w \in Drivable /\ obs - w * Horizon > Limit
  /\ \A v \in Drivable : obs - v * Horizon > Limit => v <= w

\* Nothing is decided on the last scan yet, and the robot is no faster than u.
Undecided(u, n) ==
  /\ n + Wait <= Reaction
  /\ current["vx"] <= u /\ target["vx"] <= u
  /\ Pending => cmd["vx"] <= u

\* A scan the next tick may decide on leaves enough for every command it allows.
ScanCovered(left) ==
  /\ "controller" \in up /\ scanAge + Wait <= ScanTimeout
  /\ \E v \in Drivable : obs - v * Horizon > Limit
  => \E u \in Speeds, w \in Drivable :
       /\ Allowed(w)
       /\ gap - Keep > left[u][w][scanAge]
       /\ \/ ~Pending /\ Drives(u, w, scanAge)
          \/ Pending /\ WillDrive(u, w, scanAge)
          \/ Undecided(u, scanAge)

DistanceInv(reserve, left) ==
  /\ DistanceTyped /\ Renewed
  /\ "smoother" \in up => TargetCovered(reserve, left) /\ CommandCovered(left) /\ ScanCovered(left)

-----------------------------------------------------------------------------
\* What a tick decides on.
LEMMA TickSees ==
  ASSUME C!Tick, cmd'["vx"] > 0
  PROVE  /\ scanAge <= ScanTimeout
         /\ cmd'["vx"] \in Drivable /\ obs - cmd'["vx"] * Horizon > Limit
<1>1. C!Zero["vx"] = 0 /\ \A w \in Turn : C!Twist(0, w)["vx"] = 0
  BY DEF C!Zero, C!Twist, C!Axis
<1>2. ~(0 > 0)
  OBVIOUS
<1>3. CASE C!TickWaiting \/ C!TickNoGlobalPath \/ C!TickEmptyPath \/ C!TickPathEnd
  BY <1>1, <1>2, <1>3 DEF C!TickWaiting, C!TickNoGlobalPath, C!TickEmptyPath, C!TickPathEnd, C!Answer
<1>4. CASE C!TickAtGoal
  BY <1>1, <1>2, <1>4 DEF C!TickAtGoal, C!Answer
<1>5. CASE C!TickRotate
  BY <1>1, <1>2, <1>5 DEF C!TickRotate, C!Answer
<1>6. CASE C!TickFollow
  <2>1. PICK v \in MinSpeed..DesiredSpeed, w \in Turn : C!TrajectoryClear(v) /\ cmd' = C!Twist(v, w)
    BY <1>1, <1>2, <1>6 DEF C!TickFollow, C!Answer, C!Speed
  <2>2. cmd'["vx"] = v
    BY <2>1 DEF C!Twist, C!Axis
  <2>3. scanAge <= ScanTimeout
    BY <1>6 DEF C!TickFollow, C!HasPlan, C!Healthy
  <2>4. QED
    BY <2>1, <2>2, <2>3 DEF C!TrajectoryClear, C!Clear, Drivable
<1>7. QED
  BY <1>3, <1>4, <1>5, <1>6 DEF C!Tick

LEMMA TickLooks ==
  ASSUME C!Tick
  PROVE  UNCHANGED <<obs, scanAge>>
BY DEF C!Tick, C!TickWaiting, C!TickNoGlobalPath, C!TickAtGoal, C!TickEmptyPath, C!TickPathEnd,
       C!TickRotate, C!TickFollow, C!Answer, C!inputs

LEMMA SpeedsLaw ==
  /\ DesiredSpeed \in Nat /\ MinSpeed \in Nat \ {0} /\ Horizon \in Nat
  /\ Limit \in Nat /\ Spread \in Nat /\ Keep \in Nat /\ Limit <= Keep /\ SelfFilter <= Keep
  /\ ScanTimeout \in Nat /\ VelocityTimeout \in Nat
  /\ Slower \in Nat /\ Reaction \in 0..2 /\ Reaction <= ScanTimeout
  /\ Speeds \subseteq Nat /\ Drivable \subseteq Speeds /\ 0 \in Speeds
<1>1. /\ DesiredSpeed \in Nat /\ MinSpeed \in Nat \ {0} /\ Horizon \in Nat
      /\ Limit \in Nat /\ SelfFilter \in Nat /\ Spread \in Nat
      /\ ScanTimeout \in Nat /\ VelocityTimeout \in Nat
  BY ControlAssumption
<1>2. Slower \in Nat
  BY NumbersTyped, AbsLaw, StillLaw DEF Slower
<1>3. Keep \in Nat /\ Limit <= Keep /\ SelfFilter <= Keep
  BY <1>1 DEF Keep
<1>4. QED
  BY <1>1, <1>2, <1>3 DEF Reaction, Speeds, Drivable

LEMMA AskedSpeeds ==
  ASSUME NEW c \in Asked
  PROVE  c["vx"] \in Speeds /\ c["vx"] \in Nat
<1>1. DesiredSpeed \in Nat /\ MinSpeed \in Nat
  BY ControlAssumption
<1>2. QED
  BY <1>1 DEF Asked, Speeds, C!Twist, C!Axis

LEMMA FastestNat ==
  ASSUME NEW u \in Speeds, NEW w \in Drivable, NEW n \in Nat
  PROVE  Fastest(u, w, n) \in Nat /\ Fastest(u, w, n - 1) \in Nat
<1>1. u \in Nat /\ w \in Nat /\ n \in Int /\ 0 <= n
  BY SpeedsLaw
<1>2. QED
  BY <1>1, FastestLaw

-----------------------------------------------------------------------------
\* The numbers of a state, for the solver.
LEMMA StateNumbers ==
  ASSUME ControlInv, DistanceTyped
  PROVE  /\ current["vx"] \in Speeds /\ current["vx"] \in Nat
         /\ target["vx"] \in Speeds /\ target["vx"] \in Nat
         /\ gap \in Nat /\ obs \in Nat /\ scanAge \in 0..ScanTimeout + 1
         /\ targetAge \in -1..VelocityTimeout + 1
         /\ Wait \in 0..2
         /\ Pending => cmd["vx"] \in Speeds /\ cmd["vx"] \in Nat
         /\ "smoother" \in due => "smoother" \in up
<1>1. Speeds \subseteq Nat /\ \A c \in Asked : c["vx"] \in Speeds
  BY SpeedsLaw, AskedSpeeds
<1>2. /\ current["vx"] \in Speeds /\ target["vx"] \in Speeds
      /\ gap \in Nat /\ obs \in Nat /\ scanAge \in 0..ScanTimeout + 1
  BY DEF DistanceTyped
<1>3. /\ targetAge \in -1..VelocityTimeout + 1
      /\ "smoother" \in due => "smoother" \in up
      /\ Pending => cmd \in Asked
  BY DEF ControlInv, Typed, Pending
<1>4. Wait \in 0..2
  BY DEF Wait
<1>5. QED
  BY <1>1, <1>2, <1>3, <1>4

\* An update after which the robot does not exceed the target, or has braked by a step,
\* keeps to what it may drive.
LEMMA FastestKept ==
  ASSUME NEW u \in Speeds, NEW w \in Drivable, NEW n \in Nat,
         NEW c \in Nat, NEW t \in Nat, NEW new \in Nat,
         c <= Fastest(u, w, n - 1), new <= t \/ new <= c - Slower
  PROVE  /\ t <= w => new <= Fastest(u, w, n)
         /\ t <= w => new <= Fastest(u, w, n - 1)
         /\ t <= Fastest(u, w, n - 1) => new <= Fastest(u, w, n - 1)
<1>1. u \in Nat /\ w \in Nat /\ n \in Int /\ 0 <= n /\ Slower \in Nat
  BY SpeedsLaw
<1>2. /\ Fastest(u, w, n) \in Nat /\ Fastest(u, w, n - 1) \in Nat
      /\ w <= Fastest(u, w, n)
      /\ Fastest(u, w, n) <= Fastest(u, w, n - 1)
      /\ \/ Fastest(u, w, n - 1) - Slower <= Fastest(u, w, n)
         \/ Fastest(u, w, n - 1) <= w
  BY <1>1, FastestLaw
<1>3. QED
  BY <1>1, <1>2

\* The room to brake, before the update and after it.
LEMMA BrakingKept ==
  ASSUME NEW reserve, NEW left, HorizonSuffices(reserve, left),
         NEW c \in Speeds, NEW new \in Speeds, NEW room \in Int,
         room > reserve[c], new = 0 \/ new <= c - Slower
  PROVE  room > new + reserve[new] /\ room > reserve[new]
BY ReserveLaw, SpeedsLaw

\* Two units into its target, and within the reach of its scan, the robot can brake before
\* the next update.
LEMMA CoveredBrakes ==
  ASSUME NEW reserve, NEW left, HorizonSuffices(reserve, left), ControlInv, DistanceTyped,
         TargetCovered(reserve, left), targetAge <= 2
  PROVE  /\ gap - Keep > reserve[current["vx"]]
         /\ target["vx"] > 0 => \E w \in Drivable : target["vx"] <= w /\ gap - Keep > reserve[w]
<1>1. CanBrake(reserve) => gap - Keep > reserve[current["vx"]]
  BY StateNumbers, SpeedsLaw, ReserveLaw DEF CanBrake
<1>2. CASE target["vx"] = 0
  BY <1>1, <1>2 DEF TargetCovered
<1>3. CASE target["vx"] # 0
  <2>1. PICK u \in Speeds, w \in Drivable, n \in 0..ScanTimeout + targetAge :
          /\ gap - Keep > left[u][w][n]
          /\ target["vx"] <= w
          /\ current["vx"] <= w \/ CanBrake(reserve)
    BY <1>3 DEF TargetCovered, Drives
  <2>2. n \in Nat /\ n <= ScanTimeout + 2 /\ n <= ScanTimeout + VelocityTimeout + 2
    BY StateNumbers, SpeedsLaw
  <2>3. reserve[w] <= left[u][w][n] /\ left[u][w][n] \in Nat /\ reserve[w] \in Nat
    BY <2>2, ReserveLaw, LeftLaw, SpeedsLaw
  <2>4. gap - Keep > reserve[w]
    BY <2>1, <2>3, StateNumbers, SpeedsLaw
  <2>5. current["vx"] <= w => reserve[current["vx"]] <= reserve[w]
    BY ReserveLaw, StateNumbers, SpeedsLaw
  <2>6. reserve[current["vx"]] \in Nat
    BY ReserveLaw, StateNumbers
  <2>7. gap - Keep > reserve[current["vx"]]
    BY <1>1, <2>1, <2>3, <2>4, <2>5, <2>6, StateNumbers, SpeedsLaw
  <2>8. QED
    BY <2>1, <2>4, <2>7
<1>4. QED
  BY <1>2, <1>3

LEMMA DistanceInit ==
  ASSUME NEW reserve, NEW left, HorizonSuffices(reserve, left), Init
  PROVE  DistanceInv(reserve, left)
<1>1. /\ target = S!Still /\ current = S!Still /\ targetAge = S!None
      /\ due = {} /\ odd = TRUE /\ cmd = C!NoCommand
      /\ gap \in C!Gap /\ gap > Keep /\ obs = Far /\ scanAge = ScanTimeout + 1
  BY DEF Init, S!Init, C!Init
<1>2. target["vx"] = 0 /\ current["vx"] = 0
  BY <1>1, StillLaw
<1>3. gap \in Nat /\ obs \in Nat
  BY <1>1, ControlAssumption DEF C!Gap
<1>4. DistanceTyped
  BY <1>1, <1>2, <1>3, SpeedsLaw DEF DistanceTyped
<1>5. Renewed
  BY <1>1, SpeedsLaw DEF Renewed, Pending, Wait, S!None
<1>6. TargetCovered(reserve, left)
  BY <1>1, <1>2, <1>3, ReserveLaw, SpeedsLaw DEF TargetCovered, CanBrake
<1>7. CommandCovered(left)
  BY <1>1 DEF CommandCovered, Pending
<1>8. ScanCovered(left)
  BY <1>1, SpeedsLaw DEF ScanCovered, Wait
<1>9. QED
  BY <1>4, <1>5, <1>6, <1>7, <1>8 DEF DistanceInv

\* A scan begins a reach of its own, from the fastest of what the robot drives and is to drive.
LEMMA DistanceScans ==
  ASSUME NEW reserve, NEW left, HorizonSuffices(reserve, left), ControlInv,
         DistanceInv(reserve, left), "controller" \in up, C!OnLaserScan(gap),
         UNCHANGED <<smoother, due, odd, up, gap, blind>>
  PROVE  DistanceInv(reserve, left)'
<1> USE SpeedsLaw
<1>1. /\ obs' \in C!Kept(gap) /\ scanAge' = 0
      /\ UNCHANGED <<cmd, target, current, targetAge, due, odd, up, gap>>
  BY DEF C!OnLaserScan, smoother
<1>a. obs' \in Nat /\ obs' <= gap + Spread
  <2>1. gap \in Nat /\ gap > Keep
    BY DEF DistanceInv, DistanceTyped
  <2>2. SelfFilter \in Nat /\ Far \in Nat
    BY ControlAssumption
  <2>3. ~(gap <= SelfFilter)
    BY <2>1, <2>2
  <2>4. QED
    BY <1>1, <2>2, <2>3 DEF C!Kept, C!Gap
<1>2. DistanceTyped /\ Renewed /\ DistanceTyped'
  BY <1>1, <1>a DEF DistanceInv, DistanceTyped
<1>3. Renewed'
  BY <1>1, <1>2 DEF Renewed, Pending, Wait
<1>4. SUFFICES ASSUME "smoother" \in up PROVE (TargetCovered(reserve, left) /\ CommandCovered(left) /\ ScanCovered(left))'
  BY <1>1, <1>2, <1>3 DEF DistanceInv
<1>5. TargetCovered(reserve, left) /\ CommandCovered(left)
  BY <1>4 DEF DistanceInv
<1>6. TargetCovered(reserve, left)'
  BY <1>1, <1>5 DEF TargetCovered, Drives, CanBrake
<1>7. CommandCovered(left)'
  BY <1>1, <1>5 DEF CommandCovered, WillDrive, Pending
<1>8. ScanCovered(left)'
  <2>1. SUFFICES ASSUME Wait <= ScanTimeout, NEW v \in Drivable, obs' - v * Horizon > Limit
                 PROVE  \E u \in Speeds, w \in Drivable :
                          /\ Allowed(w)'
                          /\ gap - Keep > left[u][w][0]
                          /\ Undecided(u, 0)'
    BY <1>1 DEF ScanCovered, Wait
  <2>2. PICK w \in Drivable : /\ obs' - w * Horizon > Limit
                              /\ \A x \in Drivable : obs' - x * Horizon > Limit => x <= w
    BY <1>a, <2>1, LargestLaw
  <2>3. Allowed(w)'
    BY <1>1, <2>2 DEF Allowed
  <2>4. targetAge <= 2
    BY <1>2, <1>4, StateNumbers DEF Renewed
  <2>5. \E u \in Speeds : gap - Keep > reserve[u] /\ current["vx"] <= u /\ target["vx"] <= u
                          /\ (Pending => cmd["vx"] <= u)
    <3>1. PICK a \in Speeds : gap - Keep > reserve[a] /\ current["vx"] <= a
      BY <1>2, <1>5, <2>4, CoveredBrakes, StateNumbers
    <3>2. PICK b \in Speeds : gap - Keep > reserve[b] /\ target["vx"] <= b
      BY <1>2, <1>5, <2>4, <3>1, CoveredBrakes, StateNumbers
    <3>3. PICK c \in Speeds : gap - Keep > reserve[c] /\ (Pending => cmd["vx"] <= c)
      <4>1. CASE Pending /\ cmd["vx"] > 0
        <5>1. PICK u \in Speeds, x \in Drivable, n \in 0..ScanTimeout :
                gap - Keep > left[u][x][n] /\ cmd["vx"] <= x
          BY <1>5, <4>1 DEF CommandCovered, WillDrive
        <5>2. n \in Nat /\ n <= ScanTimeout + 2 /\ n <= ScanTimeout + VelocityTimeout + 2
          OBVIOUS
        <5>3. reserve[x] <= left[u][x][n] /\ left[u][x][n] \in Nat /\ reserve[x] \in Nat
          BY <5>2, ReserveLaw, LeftLaw
        <5>4. QED
          <6>1. cmd["vx"] \in Nat /\ gap \in Nat /\ x \in Nat /\ x \in Speeds /\ Keep \in Nat
            BY <1>2, <4>1, StateNumbers
          <6>2. gap - Keep > reserve[x]
            BY <5>1, <5>3, <6>1
          <6>3. QED
            BY <5>1, <6>1, <6>2
      <4>2. CASE ~(Pending /\ cmd["vx"] > 0)
        BY <1>2, <3>1, <4>2, StateNumbers
      <4>3. QED
        BY <4>1, <4>2
    <3>4. PICK u \in {a, b, c} : a <= u /\ b <= u /\ c <= u
      <4>1. a \in Nat /\ b \in Nat /\ c \in Nat
        OBVIOUS
      <4>2. QED
        BY <4>1
    <3>5. QED
      BY <1>2, <3>1, <3>2, <3>3, <3>4, StateNumbers
  <2>6. PICK u \in Speeds : gap - Keep > reserve[u] /\ current["vx"] <= u /\ target["vx"] <= u
                            /\ (Pending => cmd["vx"] <= u)
    BY <2>5
  <2>7. gap - Keep > left[u][w][0]
    <3>1. left[u][w][0] + Spread + (Keep - Limit) <= w * Horizon \/ left[u][w][0] <= reserve[u]
      BY LeftLaw
    <3>2. left[u][w][0] \in Nat /\ reserve[u] \in Nat
      BY ReserveLaw, LeftLaw
    <3>3. w * Horizon \in Nat
      BY <2>2
    <3>4. QED
      BY <1>2, <1>a, <2>2, <2>6, <3>1, <3>2, <3>3, StateNumbers
  <2>8. Undecided(u, 0)'
    <3>1. Wait <= Reaction
      BY <2>1, <1>2, StateNumbers DEF Reaction
    <3>2. QED
      BY <1>1, <2>6, <3>1, <1>2, StateNumbers DEF Undecided, Wait, Pending
  <2>9. QED
    BY <2>3, <2>7, <2>8
<1>9. QED
  BY <1>6, <1>7, <1>8

\* What else is received says nothing of distances.
LEMMA DistanceKept ==
  ASSUME NEW reserve, NEW left, DistanceInv(reserve, left),
         UNCHANGED <<obs, scanAge, cmd, smoother, due, odd, up, gap>>
  PROVE  DistanceInv(reserve, left)'
<1>1. UNCHANGED <<obs, scanAge, cmd, target, current, targetAge, due, odd, up, gap>>
  BY DEF smoother
<1>2. DistanceTyped' /\ Renewed'
  BY <1>1 DEF DistanceInv, DistanceTyped, Renewed, Pending, Wait
<1>3. TargetCovered(reserve, left)' = TargetCovered(reserve, left)
  BY <1>1 DEF TargetCovered, CanBrake, Drives
<1>4. CommandCovered(left)' = CommandCovered(left)
  BY <1>1 DEF CommandCovered, Pending, WillDrive
<1>5. ScanCovered(left)' = ScanCovered(left)
  BY <1>1 DEF ScanCovered, Allowed, Drives, WillDrive, Undecided, Pending, Wait
<1>6. QED
  BY <1>1, <1>2, <1>3, <1>4, <1>5 DEF DistanceInv

LEMMA DistanceReceives ==
  ASSUME NEW reserve, NEW left, HorizonSuffices(reserve, left), ControlInv,
         DistanceInv(reserve, left), Receive
  PROVE  DistanceInv(reserve, left)'
<1>1. CASE C!OnLaserScan(gap)
  BY <1>1, DistanceScans DEF Receive
<1>2. CASE ~C!OnLaserScan(gap)
  <2>1. UNCHANGED <<obs, scanAge, cmd>>
    BY <1>2 DEF Receive, C!OnCorrectedPose, C!OnPath, C!OnGoalPose, C!PoseExpires, C!PathExpires
  <2>2. QED
    BY <2>1, DistanceKept DEF Receive, smoother
<1>3. QED
  BY <1>1, <1>2

\* A tick decides on the last scan.
LEMMA DistanceTicks ==
  ASSUME NEW reserve, NEW left, HorizonSuffices(reserve, left), ControlInv,
         DistanceInv(reserve, left), ControllerTick
  PROVE  DistanceInv(reserve, left)'
<1> USE SpeedsLaw
<1>1. /\ "controller" \in due /\ cmd = C!NoCommand /\ C!Tick /\ due' = due \ {"controller"}
      /\ UNCHANGED <<target, current, targetAge, odd, up, gap, obs, scanAge>>
  BY TickLooks DEF ControllerTick, smoother
<1>2. cmd' \in Asked /\ cmd' # C!NoCommand /\ cmd'["vx"] \in Speeds
  BY <1>1, TickAnswers, AskedLaw, AskedSpeeds
<1>3. DistanceTyped /\ Renewed /\ DistanceTyped'
  BY <1>1 DEF DistanceInv, DistanceTyped
<1>4. "controller" \in up /\ ~odd /\ Wait = 0 /\ Wait' = 2 /\ ~Pending /\ Pending'
  BY <1>1, <1>2, <1>3 DEF ControlInv, Typed, Renewed, Wait, Pending
<1>5. Renewed'
  BY <1>1, <1>3, <1>4, StateNumbers DEF Renewed
<1>6. SUFFICES ASSUME "smoother" \in up
               PROVE  (TargetCovered(reserve, left) /\ CommandCovered(left) /\ ScanCovered(left))'
  BY <1>1, <1>3, <1>5 DEF DistanceInv
<1>7. TargetCovered(reserve, left) /\ ScanCovered(left)
  BY <1>6 DEF DistanceInv
<1>8. "smoother" \in due' <=> "smoother" \in due
  BY <1>1
<1>9. TargetCovered(reserve, left)'
  BY <1>1, <1>7, <1>8 DEF TargetCovered, CanBrake, Drives
<1>10. ASSUME scanAge <= ScanTimeout, \E v \in Drivable : obs - v * Horizon > Limit
       PROVE  \E u \in Speeds, w \in Drivable :
                Allowed(w) /\ gap - Keep > left[u][w][scanAge] /\ WillDrive(u, w, scanAge)'
  <2>1. PICK u \in Speeds, w \in Drivable :
          /\ Allowed(w)
          /\ gap - Keep > left[u][w][scanAge]
          /\ Drives(u, w, scanAge) \/ Undecided(u, scanAge)
    <3>1. scanAge + Wait <= ScanTimeout
      BY <1>3, <1>4, <1>10, StateNumbers
    <3>2. \E u \in Speeds, w \in Drivable :
            /\ Allowed(w)
            /\ gap - Keep > left[u][w][scanAge]
            /\ \/ ~Pending /\ Drives(u, w, scanAge)
               \/ Pending /\ WillDrive(u, w, scanAge)
               \/ Undecided(u, scanAge)
      BY <1>4, <1>7, <1>10, <3>1 DEF ScanCovered
    <3>3. QED
      BY <1>4, <3>2
  <2>2. cmd'["vx"] <= w
    <3>1. CASE cmd'["vx"] > 0
      BY <1>1, <2>1, <3>1, TickSees DEF Allowed
    <3>2. CASE ~(cmd'["vx"] > 0)
      <4>1. cmd'["vx"] \in Nat /\ w \in Nat
        BY <1>2
      <4>2. QED
        BY <3>2, <4>1
    <3>3. QED
      BY <3>1, <3>2
  <2>3. /\ scanAge \in Nat /\ u \in Nat /\ w \in Nat
        /\ Fastest(u, w, scanAge) \in Nat /\ Fastest(u, w, scanAge - 1) \in Nat
        /\ w <= Fastest(u, w, scanAge)
        /\ Fastest(u, w, scanAge) <= Fastest(u, w, scanAge - 1)
        /\ scanAge <= Reaction => u <= Fastest(u, w, scanAge - 1)
    <3>1. scanAge \in Int /\ 0 <= scanAge /\ scanAge \in Nat
      BY <1>3, StateNumbers
    <3>2. u \in Nat /\ w \in Nat
      OBVIOUS
    <3>3. QED
      BY <3>1, <3>2, FastestLaw
  <2>4. current["vx"] \in Nat /\ target["vx"] \in Nat
    BY <1>3, StateNumbers
  <2>5. current["vx"] <= Fastest(u, w, scanAge - 1) /\ target["vx"] <= Fastest(u, w, scanAge - 1)
    <3>1. CASE Drives(u, w, scanAge)
      BY <2>3, <2>4, <3>1 DEF Drives
    <3>2. CASE Undecided(u, scanAge)
      BY <1>4, <2>3, <2>4, <3>2 DEF Undecided
    <3>3. QED
      BY <2>1, <3>1, <3>2
  <2>6. QED
    BY <1>1, <2>1, <2>2, <2>5 DEF WillDrive
<1>11. CommandCovered(left)'
  <2>1. SUFFICES ASSUME cmd'["vx"] > 0
                 PROVE  \E u \in Speeds, w \in Drivable, n \in 0..ScanTimeout :
                          gap - Keep > left[u][w][n] /\ WillDrive(u, w, n)'
    BY <1>1 DEF CommandCovered
  <2>2. scanAge \in 0..ScanTimeout
    BY <1>1, <1>3, <2>1, TickSees, StateNumbers
  <2>3. QED
    BY <1>1, <1>10, <2>1, <2>2, TickSees
<1>12. ScanCovered(left)'
  <2>1. SUFFICES ASSUME scanAge + Wait' <= ScanTimeout, \E v \in Drivable : obs - v * Horizon > Limit
                 PROVE  \E u \in Speeds, w \in Drivable :
                          Allowed(w)' /\ gap - Keep > left[u][w][scanAge] /\ WillDrive(u, w, scanAge)'
    BY <1>1, <1>4 DEF ScanCovered
  <2>2. scanAge <= ScanTimeout
    BY <1>3, <1>4, <2>1, StateNumbers
  <2>3. \A w : Allowed(w)' = Allowed(w)
    BY <1>1 DEF Allowed
  <2>4. QED
    BY <1>10, <2>1, <2>2, <2>3
<1>13. QED
  BY <1>9, <1>11, <1>12

\* A command replaces the target, and an update follows it at once.
LEMMA DistanceCommands ==
  ASSUME NEW reserve, NEW left, HorizonSuffices(reserve, left), ControlInv,
         DistanceInv(reserve, left), SmootherCommand
  PROVE  DistanceInv(reserve, left)'
<1> USE SpeedsLaw
<1>1. /\ "smoother" \in up /\ cmd \in Asked /\ Pending /\ cmd' = C!NoCommand /\ S!Update(cmd, 0)
      /\ UNCHANGED <<due, odd, up, gap, obs, scanAge>>
  BY DEF SmootherCommand, S!OnCmdVelTwist, ControlInv, Typed, stored, Pending
<1>2. cmd \in [Axis -> Int] /\ cmd["vx"] \in Speeds /\ cmd["vx"] \in Nat
  BY <1>1, AskedLaw, AskedSpeeds
<1>3. 0 \in -1..VelocityTimeout + 1 /\ 0 # S!None /\ 0 <= VelocityTimeout
  BY DEF S!None
<1>4. /\ target' = cmd /\ targetAge' = 0
      /\ \A a \in Axis : current'[a] = S!SmoothAxis(a, current[a], cmd[a])
  BY <1>1, <1>2, <1>3, UpdateLaw DEF ControlInv, Typed
<1>5. DistanceTyped /\ Renewed /\ TargetCovered(reserve, left) /\ CommandCovered(left) /\ ScanCovered(left)
  BY <1>1 DEF DistanceInv
<1>6. /\ current["vx"] \in Speeds /\ current["vx"] \in Nat
      /\ target["vx"] \in Speeds /\ target["vx"] \in Nat
      /\ gap \in Nat /\ obs \in Nat /\ scanAge \in Nat /\ scanAge <= ScanTimeout + 1
  BY <1>5, StateNumbers
<1>7. /\ current'["vx"] \in Nat
      /\ current'["vx"] <= cmd["vx"] \/ current'["vx"] <= current["vx"] - Slower
  <2>1. "vx" \in Axis
    BY StillLaw
  <2>2. current'["vx"] = S!SmoothAxis("vx", current["vx"], cmd["vx"])
    BY <1>4, <2>1
  <2>3. /\ S!SmoothAxis("vx", current["vx"], cmd["vx"]) \in Nat
        /\ \/ S!SmoothAxis("vx", current["vx"], cmd["vx"]) <= cmd["vx"]
           \/ S!SmoothAxis("vx", current["vx"], cmd["vx"]) <= current["vx"] - Slower
    BY <1>2, <1>6, SlowedLaw
  <2>4. QED
    BY <2>2, <2>3
<1>8. current'["vx"] \in Speeds
  BY <1>2, <1>6, <1>7 DEF Speeds
<1>9. DistanceTyped'
  BY <1>1, <1>2, <1>4, <1>5, <1>8 DEF DistanceTyped
<1>10. Wait' = Wait /\ ~Pending' /\ ("controller" \in up => Wait = 2)
  BY <1>1, <1>5 DEF Wait, Pending, Renewed
<1>11. Renewed'
  BY <1>1, <1>4, <1>5, <1>10 DEF Renewed
<1>12. targetAge <= 2 /\ gap - Keep > reserve[current["vx"]]
  <2>1. targetAge <= 2
    BY <1>1, <1>5 DEF Renewed
  <2>2. QED
    BY <1>5, <2>1, CoveredBrakes
<1>13. current'["vx"] = 0 \/ current'["vx"] <= current["vx"] - Slower => CanBrake(reserve)'
  <2>1. SUFFICES ASSUME current'["vx"] = 0 \/ current'["vx"] <= current["vx"] - Slower
                 PROVE  CanBrake(reserve)'
    OBVIOUS
  <2>2. gap - Keep \in Int
    BY <1>6
  <2>3. /\ gap - Keep > current'["vx"] + reserve[current'["vx"]]
        /\ gap - Keep > reserve[current'["vx"]]
    BY <1>6, <1>8, <1>12, <2>1, <2>2, BrakingKept
  <2>4. reserve[current'["vx"]] \in Nat
    BY <1>8, ReserveLaw
  <2>5. QED
    BY <1>1, <2>3, <2>4 DEF CanBrake
<1>14. TargetCovered(reserve, left)'
  <2>1. CASE cmd["vx"] = 0
    BY <1>4, <1>7, <1>13, <2>1 DEF TargetCovered
  <2>2. CASE cmd["vx"] # 0
    <3>1. PICK u \in Speeds, w \in Drivable, n \in 0..ScanTimeout :
            gap - Keep > left[u][w][n] /\ WillDrive(u, w, n)
      BY <1>1, <1>2, <1>5, <2>2 DEF CommandCovered
    <3>2. n \in Nat /\ cmd["vx"] \in Nat /\ w \in Nat
      BY <1>2
    <3>3. cmd["vx"] <= w /\ current["vx"] <= Fastest(u, w, n - 1)
      BY <3>1 DEF WillDrive
    <3>4. current'["vx"] <= Fastest(u, w, n) /\ current'["vx"] <= Fastest(u, w, n - 1)
      BY <1>6, <1>7, <3>2, <3>3, FastestKept
    <3>5. Drives(u, w, n)'
      BY <1>4, <3>3, <3>4 DEF Drives
    <3>6. current'["vx"] <= w \/ CanBrake(reserve)'
      BY <1>7, <1>13, <3>2, <3>3
    <3>7. n \in 0..ScanTimeout + targetAge'
      BY <1>4
    <3>8. QED
      BY <1>1, <1>4, <2>2, <3>1, <3>5, <3>6, <3>7 DEF TargetCovered
  <2>3. QED
    BY <2>1, <2>2
<1>15. CommandCovered(left)'
  BY <1>10 DEF CommandCovered
<1>16. ScanCovered(left)'
  <2>1. SUFFICES ASSUME "controller" \in up, scanAge + Wait <= ScanTimeout,
                        \E v \in Drivable : obs - v * Horizon > Limit
                 PROVE  \E u \in Speeds, w \in Drivable :
                          /\ Allowed(w)'
                          /\ gap - Keep > left[u][w][scanAge]
                          /\ Drives(u, w, scanAge)' \/ Undecided(u, scanAge)'
    BY <1>1, <1>10 DEF ScanCovered
  <2>2. PICK u \in Speeds, w \in Drivable :
          /\ Allowed(w)
          /\ gap - Keep > left[u][w][scanAge]
          /\ WillDrive(u, w, scanAge) \/ Undecided(u, scanAge)
    BY <1>1, <1>5, <2>1 DEF ScanCovered
  <2>3. Allowed(w)'
    BY <1>1, <2>2 DEF Allowed
  <2>4. ASSUME WillDrive(u, w, scanAge) PROVE Drives(u, w, scanAge)'
    <3>1. cmd["vx"] <= w /\ current["vx"] <= Fastest(u, w, scanAge - 1) /\ cmd["vx"] \in Nat
      BY <1>2, <2>4 DEF WillDrive
    <3>2. current'["vx"] <= Fastest(u, w, scanAge) /\ current'["vx"] <= Fastest(u, w, scanAge - 1)
      BY <1>6, <1>7, <3>1, FastestKept
    <3>3. QED
      BY <1>1, <1>4, <3>1, <3>2 DEF Drives
  <2>5. ASSUME Undecided(u, scanAge) PROVE Undecided(u, scanAge)'
    <3>1. cmd["vx"] <= u /\ current["vx"] <= u /\ cmd["vx"] \in Nat /\ u \in Nat
      BY <1>1, <1>2, <2>5 DEF Undecided
    <3>2. current'["vx"] <= u
      BY <1>6, <1>7, <3>1
    <3>3. QED
      BY <1>1, <1>4, <1>10, <2>5, <3>1, <3>2 DEF Undecided
  <2>6. QED
    BY <2>2, <2>3, <2>4, <2>5
<1>17. QED
  BY <1>9, <1>11, <1>14, <1>15, <1>16 DEF DistanceInv

\* The smoother gives up.
LEMMA DistanceResets ==
  ASSUME NEW reserve, NEW left, HorizonSuffices(reserve, left), ControlInv,
         DistanceInv(reserve, left), S!Reset,
         due' = due \/ due' = due \ {"smoother"}, up' = up \/ up' = up \ {"smoother"},
         UNCHANGED <<cmd, odd, gap, obs, scanAge>>
  PROVE  DistanceInv(reserve, left)'
<1> USE SpeedsLaw
<1>1. target'["vx"] = 0 /\ current'["vx"] = 0 /\ targetAge' = -1
  BY StillLaw DEF S!Reset, S!None
<1>2. DistanceTyped /\ Renewed
  BY DEF DistanceInv
<1>3. DistanceTyped'
  BY <1>1, <1>2 DEF DistanceTyped
<1>4. Wait' = Wait /\ Pending' = Pending /\ Wait \in 0..2
  BY DEF Wait, Pending
<1>5. Renewed'
  BY <1>1, <1>2, <1>4 DEF Renewed
<1>6. SUFFICES ASSUME "smoother" \in up
               PROVE  (TargetCovered(reserve, left) /\ CommandCovered(left) /\ ScanCovered(left))'
  BY <1>3, <1>5 DEF DistanceInv
<1>7. gap \in Nat /\ gap > Keep /\ scanAge \in Nat
  BY <1>2 DEF DistanceTyped
<1>8. TargetCovered(reserve, left)'
  <2>1. reserve[0] = 0
    BY ReserveLaw
  <2>2. CanBrake(reserve)'
    BY <1>1, <1>7, <2>1 DEF CanBrake
  <2>3. QED
    BY <1>1, <2>2 DEF TargetCovered
<1>9. ASSUME NEW u \in Speeds, NEW w \in Drivable, NEW n \in Nat
      PROVE  0 <= Fastest(u, w, n) /\ 0 <= Fastest(u, w, n - 1)
  BY FastestNat
<1>10. CommandCovered(left)'
  <2>1. CommandCovered(left)
    BY <1>6 DEF DistanceInv
  <2>2. SUFFICES ASSUME Pending, cmd["vx"] > 0
                 PROVE  \E u \in Speeds, w \in Drivable, n \in 0..ScanTimeout :
                          gap - Keep > left[u][w][n] /\ WillDrive(u, w, n)'
    BY <1>4 DEF CommandCovered
  <2>3. PICK u \in Speeds, w \in Drivable, n \in 0..ScanTimeout :
          gap - Keep > left[u][w][n] /\ cmd["vx"] <= w
    BY <2>1, <2>2 DEF CommandCovered, WillDrive
  <2>4. n \in Nat
    OBVIOUS
  <2>5. WillDrive(u, w, n)'
    BY <1>1, <1>9, <2>3, <2>4 DEF WillDrive
  <2>6. QED
    BY <2>3, <2>5
<1>11. ScanCovered(left)'
  <2>1. ScanCovered(left)
    BY <1>6 DEF DistanceInv
  <2>2. SUFFICES ASSUME "controller" \in up, scanAge + Wait <= ScanTimeout,
                        \E v \in Drivable : obs - v * Horizon > Limit
                 PROVE  \E u \in Speeds, w \in Drivable :
                          /\ Allowed(w)'
                          /\ gap - Keep > left[u][w][scanAge]
                          /\ \/ ~Pending /\ Drives(u, w, scanAge)'
                             \/ Pending /\ WillDrive(u, w, scanAge)'
                             \/ Undecided(u, scanAge)'
    BY <1>4 DEF ScanCovered
  <2>3. PICK u \in Speeds, w \in Drivable :
          /\ Allowed(w)
          /\ gap - Keep > left[u][w][scanAge]
          /\ \/ ~Pending /\ Drives(u, w, scanAge)
             \/ Pending /\ WillDrive(u, w, scanAge)
             \/ Undecided(u, scanAge)
    BY <2>1, <2>2 DEF ScanCovered
  <2>4. Allowed(w)'
    BY <2>3 DEF Allowed
  <2>5. 0 <= Fastest(u, w, scanAge) /\ 0 <= Fastest(u, w, scanAge - 1)
    BY <1>7, <1>9
  <2>6. 0 <= w /\ 0 <= u
    OBVIOUS
  <2>7. Drives(u, w, scanAge)'
    BY <1>1, <2>5, <2>6 DEF Drives
  <2>8. WillDrive(u, w, scanAge) => WillDrive(u, w, scanAge)'
    BY <1>1, <2>5 DEF WillDrive
  <2>9. Undecided(u, scanAge) => Undecided(u, scanAge)'
    BY <1>1, <1>4, <2>6 DEF Undecided
  <2>10. QED
    BY <2>3, <2>4, <2>7, <2>8, <2>9
<1>12. QED
  BY <1>8, <1>10, <1>11

\* The smoother's tick: towards the target, or giving it up.
LEMMA DistanceSmooths ==
  ASSUME NEW reserve, NEW left, HorizonSuffices(reserve, left), ControlInv,
         DistanceInv(reserve, left), SmootherTick
  PROVE  DistanceInv(reserve, left)'
<1> USE SpeedsLaw
<1>1. /\ "smoother" \in due /\ due' = due \ {"smoother"} /\ S!Update(target, targetAge)
      /\ UNCHANGED <<cmd, odd, up, gap, obs, scanAge>>
  BY DEF SmootherTick, S!OnTick, controller, stored
<1>2. "smoother" \in up
  BY <1>1 DEF ControlInv, Typed
<1>3. DistanceTyped /\ Renewed /\ TargetCovered(reserve, left) /\ CommandCovered(left) /\ ScanCovered(left)
  BY <1>2 DEF DistanceInv
<1>4. /\ current["vx"] \in Speeds /\ current["vx"] \in Nat
      /\ target["vx"] \in Speeds /\ target["vx"] \in Nat
      /\ gap \in Nat /\ scanAge \in Nat
  BY <1>3, StateNumbers
<1>5. /\ targetAge # S!None /\ targetAge <= VelocityTimeout =>
           /\ target' = target /\ targetAge' = targetAge
           /\ \A a \in Axis : current'[a] = S!SmoothAxis(a, current[a], target[a])
      /\ ~(targetAge # S!None /\ targetAge <= VelocityTimeout) => S!Reset
  BY <1>1, UpdateLaw DEF ControlInv, Typed, Ahead
<1>6. CASE S!Reset
  BY <1>1, <1>6, DistanceResets
<1>7. CASE targetAge # S!None /\ targetAge <= VelocityTimeout
  <2>1. target' = target /\ targetAge' = targetAge
    BY <1>5, <1>7
  <2>2. /\ current'["vx"] \in Nat
        /\ current'["vx"] <= target["vx"] \/ current'["vx"] <= current["vx"] - Slower
    <3>1. "vx" \in Axis
      BY StillLaw
    <3>2. current'["vx"] = S!SmoothAxis("vx", current["vx"], target["vx"])
      BY <1>5, <1>7, <3>1
    <3>3. /\ S!SmoothAxis("vx", current["vx"], target["vx"]) \in Nat
          /\ \/ S!SmoothAxis("vx", current["vx"], target["vx"]) <= target["vx"]
             \/ S!SmoothAxis("vx", current["vx"], target["vx"]) <= current["vx"] - Slower
      BY <1>4, SlowedLaw
    <3>4. QED
      BY <3>2, <3>3
  <2>3. current'["vx"] \in Speeds
    BY <1>4, <2>2 DEF Speeds
  <2>4. DistanceTyped'
    BY <1>1, <1>3, <2>1, <2>3 DEF DistanceTyped
  <2>5. Wait' = Wait /\ Pending' = Pending
    BY <1>1 DEF Wait, Pending
  <2>6. Renewed'
    BY <1>1, <1>3, <2>1, <2>5 DEF Renewed
  <2>7. ASSUME CanBrake(reserve), current'["vx"] = 0 \/ current'["vx"] <= current["vx"] - Slower
        PROVE  CanBrake(reserve)'
    <3>1. gap - Keep \in Int
      BY <1>4
    <3>2. gap - Keep > reserve[current["vx"]]
      <4>1. reserve[current["vx"]] \in Nat
        BY <1>4, ReserveLaw
      <4>2. QED
        BY <1>1, <1>4, <2>7, <4>1 DEF CanBrake
    <3>3. gap - Keep > current'["vx"] + reserve[current'["vx"]]
      BY <1>4, <2>3, <2>7, <3>1, <3>2, BrakingKept
    <3>4. QED
      BY <1>1, <3>3 DEF CanBrake
  <2>8. TargetCovered(reserve, left)'
    <3>1. CASE target["vx"] = 0
      BY <1>3, <2>1, <2>2, <2>7, <3>1 DEF TargetCovered
    <3>2. CASE target["vx"] # 0
      <4>1. PICK u \in Speeds, w \in Drivable, n \in 0..ScanTimeout + targetAge :
              /\ gap - Keep > left[u][w][n]
              /\ Drives(u, w, n)
              /\ current["vx"] <= w \/ CanBrake(reserve)
        BY <1>3, <3>2 DEF TargetCovered
      <4>2. n \in Nat /\ w \in Nat
        BY <1>3, StateNumbers
      <4>3. target["vx"] <= w /\ current["vx"] <= Fastest(u, w, n - 1)
        BY <1>1, <4>1 DEF Drives
      <4>4. current'["vx"] <= Fastest(u, w, n)
        BY <1>4, <2>2, <4>2, <4>3, FastestKept
      <4>5. Drives(u, w, n)'
        BY <1>1, <2>1, <4>3, <4>4 DEF Drives
      <4>6. current'["vx"] <= w \/ CanBrake(reserve)'
        BY <1>4, <2>2, <2>7, <4>1, <4>2, <4>3
      <4>7. QED
        BY <1>1, <2>1, <3>2, <4>1, <4>5, <4>6 DEF TargetCovered
    <3>3. QED
      BY <3>1, <3>2
  <2>9. ASSUME NEW u \in Speeds, NEW w \in Drivable, NEW n \in Nat, WillDrive(u, w, n)
        PROVE  WillDrive(u, w, n)'
    <3>1. current["vx"] <= Fastest(u, w, n - 1) /\ target["vx"] <= Fastest(u, w, n - 1)
      BY <2>9 DEF WillDrive
    <3>2. current'["vx"] <= Fastest(u, w, n - 1)
      BY <1>4, <2>2, <3>1, FastestKept
    <3>3. QED
      BY <1>1, <2>1, <2>9, <3>2 DEF WillDrive
  <2>10. CommandCovered(left)'
    <3>1. SUFFICES ASSUME Pending, cmd["vx"] > 0
                   PROVE  \E u \in Speeds, w \in Drivable, n \in 0..ScanTimeout :
                            gap - Keep > left[u][w][n] /\ WillDrive(u, w, n)'
      BY <1>1, <2>5 DEF CommandCovered
    <3>2. PICK u \in Speeds, w \in Drivable, n \in 0..ScanTimeout :
            gap - Keep > left[u][w][n] /\ WillDrive(u, w, n)
      BY <1>3, <3>1 DEF CommandCovered
    <3>3. n \in Nat
      OBVIOUS
    <3>4. QED
      BY <2>9, <3>2, <3>3
  <2>11. ScanCovered(left)'
    <3>1. SUFFICES ASSUME "controller" \in up, scanAge + Wait <= ScanTimeout,
                          \E v \in Drivable : obs - v * Horizon > Limit
                   PROVE  \E u \in Speeds, w \in Drivable :
                            /\ Allowed(w)'
                            /\ gap - Keep > left[u][w][scanAge]
                            /\ \/ ~Pending /\ Drives(u, w, scanAge)'
                               \/ Pending /\ WillDrive(u, w, scanAge)'
                               \/ Undecided(u, scanAge)'
      BY <1>1, <2>5 DEF ScanCovered
    <3>2. PICK u \in Speeds, w \in Drivable :
            /\ Allowed(w)
            /\ gap - Keep > left[u][w][scanAge]
            /\ \/ ~Pending /\ Drives(u, w, scanAge)
               \/ Pending /\ WillDrive(u, w, scanAge)
               \/ Undecided(u, scanAge)
      BY <1>3, <3>1 DEF ScanCovered
    <3>3. Allowed(w)'
      BY <1>1, <3>2 DEF Allowed
    <3>4. ASSUME Drives(u, w, scanAge) PROVE Drives(u, w, scanAge)'
      <4>1. target["vx"] <= w /\ current["vx"] <= Fastest(u, w, scanAge - 1)
        BY <1>1, <3>4 DEF Drives
      <4>2. current'["vx"] <= Fastest(u, w, scanAge)
        BY <1>4, <2>2, <4>1, FastestKept
      <4>3. QED
        BY <1>1, <2>1, <4>1, <4>2 DEF Drives
    <3>5. ASSUME Undecided(u, scanAge) PROVE Undecided(u, scanAge)'
      <4>1. current["vx"] <= u /\ target["vx"] <= u /\ u \in Nat
        BY <3>5 DEF Undecided
      <4>2. current'["vx"] <= u
        BY <1>4, <2>2, <4>1
      <4>3. QED
        BY <1>1, <2>1, <2>5, <3>5, <4>2 DEF Undecided
    <3>6. WillDrive(u, w, scanAge) => WillDrive(u, w, scanAge)'
      <4>1. scanAge' = scanAge /\ scanAge \in Nat
        BY <1>1, <1>4
      <4>2. ASSUME WillDrive(u, w, scanAge)
            PROVE  /\ current["vx"] <= Fastest(u, w, scanAge - 1)
                   /\ target["vx"] <= Fastest(u, w, scanAge - 1)
                   /\ cmd["vx"] <= w
        BY <4>2 DEF WillDrive
      <4>3. ASSUME WillDrive(u, w, scanAge)
            PROVE  current'["vx"] <= Fastest(u, w, scanAge - 1)
        BY <1>4, <2>2, <4>1, <4>2, <4>3, FastestKept
      <4>4. QED
        BY <1>1, <2>1, <4>1, <4>2, <4>3 DEF WillDrive
    <3>7. QED
      BY <3>2, <3>3, <3>4, <3>5, <3>6
  <2>12. QED
    BY <2>4, <2>6, <2>8, <2>10, <2>11 DEF DistanceInv
<1>8. QED
  BY <1>5, <1>6, <1>7

\* The controller leaves: nothing more is decided on the last scan.
LEMMA DistanceLeaves ==
  ASSUME NEW reserve, NEW left, HorizonSuffices(reserve, left), ControlInv,
         DistanceInv(reserve, left), Leave("controller"),
         obs' = Far, scanAge' = ScanTimeout + 1, UNCHANGED <<smoother, odd, gap>>,
         cmd' = cmd \/ (cmd = C!NoCommand /\ cmd' = C!Zero)
  PROVE  DistanceInv(reserve, left)'
<1> USE SpeedsLaw
<1>1. /\ "controller" \in up /\ up' = up \ {"controller"} /\ due' = due \ {"controller"}
      /\ UNCHANGED <<target, current, targetAge, gap>>
  BY DEF Leave, smoother
<1>2. "smoother" \in up' <=> "smoother" \in up
  BY <1>1
<1>3. "smoother" \in due' <=> "smoother" \in due
  BY <1>1
<1>4. DistanceTyped /\ Renewed
  BY DEF DistanceInv
<1>5. DistanceTyped'
  BY <1>1, <1>4, ControlAssumption DEF DistanceTyped
<1>6. Renewed'
  <2>1. Pending' /\ ~Pending => targetAge <= 2
    BY <1>1, <1>4, StateNumbers DEF Renewed
  <2>2. Pending /\ "smoother" \in up => targetAge <= 2
    BY <1>4 DEF Renewed
  <2>3. QED
    BY <1>1, <1>2, <2>1, <2>2 DEF Renewed
<1>7. SUFFICES ASSUME "smoother" \in up
               PROVE  (TargetCovered(reserve, left) /\ CommandCovered(left) /\ ScanCovered(left))'
  BY <1>2, <1>5, <1>6 DEF DistanceInv
<1>8. TargetCovered(reserve, left) /\ CommandCovered(left)
  BY <1>7 DEF DistanceInv
<1>9. TargetCovered(reserve, left)'
  BY <1>1, <1>3, <1>8 DEF TargetCovered, CanBrake, Drives
<1>10. CommandCovered(left)'
  <2>1. C!Zero["vx"] = 0
    BY StillLaw
  <2>2. CASE cmd' = cmd
    BY <1>1, <1>8, <2>2 DEF CommandCovered, Pending, WillDrive
  <2>3. CASE cmd' = C!Zero
    BY <2>1, <2>3 DEF CommandCovered
  <2>4. QED
    BY <2>2, <2>3
<1>11. ScanCovered(left)'
  BY <1>1 DEF ScanCovered
<1>12. QED
  BY <1>9, <1>10, <1>11

\* A unit of time: the robot drives on what is left from its scan, or into the room to brake.
LEMMA DistanceElapses ==
  ASSUME NEW reserve, NEW left, HorizonSuffices(reserve, left), ControlInv,
         DistanceInv(reserve, left), Elapse
  PROVE  DistanceInv(reserve, left)'
<1> USE SpeedsLaw
<1>1. /\ due = {} /\ (cmd = C!NoCommand \/ "smoother" \notin up) /\ cmd' = C!NoCommand
      /\ targetAge' = (IF targetAge \in {S!None, VelocityTimeout + 1} THEN targetAge ELSE targetAge + 1)
      /\ gap' = (IF current["vx"] >= gap THEN 0 ELSE gap - current["vx"])
      /\ odd' = ~odd /\ due' = {n \in up : n = "smoother" \/ odd}
      /\ UNCHANGED <<target, current, up, obs>>
  BY DEF Elapse, C!Elapse, S!Elapse, stored
<1>2. /\ scanAge' \in {scanAge, scanAge + 1}
      /\ scanAge' = scanAge + 1 => scanAge <= ScanTimeout
      /\ scanAge' = scanAge /\ scanAge <= ScanTimeout => cmd # C!NoCommand
  <2>1. scanAge' = scanAge \/ scanAge' = (IF scanAge > ScanTimeout THEN scanAge ELSE scanAge + 1)
    BY DEF Elapse, C!Elapse, stored
  <2>2. cmd = C!NoCommand => scanAge' = (IF scanAge > ScanTimeout THEN scanAge ELSE scanAge + 1)
    BY DEF Elapse, C!Elapse
  <2>3. scanAge \in Nat
    BY DEF DistanceInv, DistanceTyped
  <2>4. QED
    BY <2>1, <2>2, <2>3
<1>3. DistanceTyped /\ Renewed
  BY DEF DistanceInv
<1>4. /\ current["vx"] \in Speeds /\ current["vx"] \in Nat
      /\ target["vx"] \in Speeds /\ target["vx"] \in Nat
      /\ gap \in Nat /\ gap > Keep /\ obs \in Nat
      /\ scanAge \in Nat /\ scanAge <= ScanTimeout + 1
  BY <1>3, StateNumbers DEF DistanceTyped
<1>5. /\ targetAge \in -1..VelocityTimeout
      /\ target["vx"] # 0 => targetAge # S!None
      /\ "smoother" \notin up => targetAge = S!None /\ current["vx"] = 0
  <2>1. targetAge \in -1..VelocityTimeout + 1 /\ targetAge # VelocityTimeout + 1
    BY <1>1 DEF ControlInv, Typed, GivenUp
  <2>2. S!Still["vx"] = 0
    BY StillLaw
  <2>3. QED
    BY <2>1, <2>2 DEF ControlInv, GivenUp, S!Limited
<1>6. /\ targetAge' \in Int /\ targetAge' <= targetAge + 1
      /\ targetAge # S!None => targetAge' = targetAge + 1
      /\ targetAge = S!None => targetAge' = -1
  BY <1>1, <1>5 DEF S!None
<1>7. /\ Wait = (IF odd THEN 1 ELSE 2)
      /\ "controller" \in up => Wait' = Wait - 1
      /\ "controller" \in due' => ~odd'
      /\ "smoother" \in up => "smoother" \in due'
      /\ ~Pending'
  <2>1. "controller" \in due' <=> "controller" \in up /\ odd
    BY <1>1
  <2>2. "smoother" \in up => "smoother" \in due'
    BY <1>1
  <2>3. "controller" \notin due /\ odd' = ~odd /\ odd \in BOOLEAN
    BY <1>1 DEF ControlInv, Typed
  <2>4. Wait = (IF odd THEN 1 ELSE 2)
    BY <2>3 DEF Wait
  <2>5. "controller" \in up => Wait' = (IF odd THEN 0 ELSE 1)
    BY <2>1, <2>3 DEF Wait
  <2>6. "controller" \in up => Wait' = Wait - 1
    <3>1. 1 - 1 = 0 /\ 2 - 1 = 1
      OBVIOUS
    <3>2. QED
      BY <2>4, <2>5, <3>1
  <2>7. ~Pending'
    BY <1>1 DEF Pending
  <2>8. "controller" \in due' => ~odd'
    BY <2>1, <2>3
  <2>9. QED
    BY <2>2, <2>4, <2>6, <2>7, <2>8
<1>8. Renewed'
  <2>1. SUFFICES ASSUME "controller" \in up PROVE targetAge' + Wait' <= 2
    BY <1>1, <1>7 DEF Renewed
  <2>2. CASE targetAge = S!None
    BY <1>6, <1>7, <2>1, <2>2
  <2>3. CASE targetAge # S!None
    <3>1. "smoother" \in up /\ ~Pending
      BY <1>1, <1>5, <2>3 DEF Pending
    <3>2. targetAge + Wait <= 2
      BY <1>3, <2>1, <3>1 DEF Renewed
    <3>3. QED
      BY <1>5, <1>6, <1>7, <2>1, <3>2
  <2>4. QED
    BY <2>2, <2>3
<1>9. DistanceTyped' <=> gap' > Keep
  <2>1. scanAge' \in 0..ScanTimeout + 1
    BY <1>2, <1>4
  <2>2. gap' \in Nat
    BY <1>1, <1>4
  <2>3. QED
    BY <1>1, <1>3, <2>1, <2>2 DEF DistanceTyped
<1>10. CASE "smoother" \notin up
  <2>1. gap' > Keep
    BY <1>1, <1>4, <1>5, <1>10
  <2>2. QED
    BY <1>1, <1>8, <1>9, <1>10, <2>1 DEF DistanceInv
<1>11. CASE "smoother" \in up
  <2>2. TargetCovered(reserve, left) /\ ScanCovered(left) /\ ~Pending
    BY <1>1, <1>11 DEF DistanceInv, Pending
  <2>3. ASSUME NEW room \in Nat, gap - Keep > current["vx"] + room
        PROVE  gap' > Keep /\ gap' - Keep > room
    BY <1>1, <1>4, <2>3
  <2>4. CanBrake(reserve) => gap' > Keep /\ CanBrake(reserve)'
    <3>1. reserve[current["vx"]] \in Nat
      BY <1>4, ReserveLaw
    <3>2. SUFFICES ASSUME CanBrake(reserve) PROVE gap' > Keep /\ CanBrake(reserve)'
      OBVIOUS
    <3>3. gap - Keep > current["vx"] + reserve[current["vx"]]
      BY <1>1, <3>2 DEF CanBrake
    <3>4. gap' > Keep /\ gap' - Keep > reserve[current["vx"]]
      BY <2>3, <3>1, <3>3
    <3>5. QED
      BY <1>1, <1>7, <1>11, <3>1, <3>4 DEF CanBrake
  <2>5. ASSUME NEW u \in Speeds, NEW w \in Drivable, NEW n \in Nat, n <= ScanTimeout + VelocityTimeout,
               gap - Keep > left[u][w][n], current["vx"] <= Fastest(u, w, n)
        PROVE  gap' > Keep /\ gap' - Keep > left[u][w][n + 1]
    <3>1. Fastest(u, w, n) + left[u][w][n + 1] <= left[u][w][n] /\ left[u][w][n] \in Nat
      BY <2>5, LeftLaw
    <3>2. left[u][w][n + 1] \in Nat
      <4>1. n + 1 \in Nat /\ n + 1 <= ScanTimeout + VelocityTimeout + 2
        BY <2>5
      <4>2. QED
        BY <4>1, LeftLaw
    <3>3. Fastest(u, w, n) \in Nat
      BY FastestNat
    <3>4. gap - Keep > current["vx"] + left[u][w][n + 1]
      BY <1>4, <2>5, <3>1, <3>2, <3>3
    <3>5. QED
      BY <2>3, <3>2, <3>4
  <2>6. gap' > Keep /\ TargetCovered(reserve, left)'
    <3>1. CASE target["vx"] = 0
      BY <1>1, <2>2, <2>4, <3>1 DEF TargetCovered
    <3>2. CASE target["vx"] # 0
      <4>1. PICK u \in Speeds, w \in Drivable, n \in 0..ScanTimeout + targetAge :
              /\ gap - Keep > left[u][w][n]
              /\ Drives(u, w, n)
              /\ current["vx"] <= w \/ CanBrake(reserve)
        BY <2>2, <3>2 DEF TargetCovered
      <4>2. n \in Nat /\ n <= ScanTimeout + VelocityTimeout
        BY <1>5
      <4>3. target["vx"] <= w /\ current["vx"] <= Fastest(u, w, n)
        BY <1>1, <4>1 DEF Drives
      <4>4. gap' > Keep /\ gap' - Keep > left[u][w][n + 1]
        BY <2>5, <4>1, <4>2, <4>3
      <4>5. Drives(u, w, n + 1)'
        <5>1. n + 1 - 1 = n
          BY <4>2
        <5>2. QED
          BY <1>1, <1>7, <1>11, <4>3, <5>1 DEF Drives
      <4>6. n + 1 \in 0..ScanTimeout + targetAge'
        <5>1. targetAge' = targetAge + 1 /\ targetAge \in Int
          BY <1>5, <1>6, <3>2
        <5>2. n \in Nat /\ n <= ScanTimeout + targetAge
          BY <5>1
        <5>3. QED
          BY <5>1, <5>2
      <4>7. current'["vx"] <= w \/ CanBrake(reserve)'
        BY <1>1, <2>4, <4>1
      <4>8. QED
        BY <1>1, <3>2, <4>4, <4>5, <4>6, <4>7 DEF TargetCovered
    <3>3. QED
      BY <3>1, <3>2
  <2>7. CommandCovered(left)'
    BY <1>7 DEF CommandCovered
  <2>8. ScanCovered(left)'
    <3>1. SUFFICES ASSUME "controller" \in up, scanAge' + Wait' <= ScanTimeout,
                          \E v \in Drivable : obs - v * Horizon > Limit
                   PROVE  \E u \in Speeds, w \in Drivable :
                            /\ Allowed(w)'
                            /\ gap' - Keep > left[u][w][scanAge']
                            /\ Drives(u, w, scanAge)' \/ Undecided(u, scanAge)'
      BY <1>1, <1>7 DEF ScanCovered
    <3>2. scanAge' = scanAge + 1 /\ Wait' = Wait - 1 /\ Wait \in 1..2 /\ scanAge + Wait <= ScanTimeout
      BY <1>2, <1>4, <1>7, <2>2, <3>1 DEF Pending
    <3>3. PICK u \in Speeds, w \in Drivable :
            /\ Allowed(w)
            /\ gap - Keep > left[u][w][scanAge]
            /\ Drives(u, w, scanAge) \/ Undecided(u, scanAge)
      BY <2>2, <3>1, <3>2 DEF ScanCovered
    <3>4. Allowed(w)'
      BY <1>1, <3>3 DEF Allowed
    <3>5. current["vx"] <= Fastest(u, w, scanAge)
      <4>1. CASE Drives(u, w, scanAge)
        BY <1>1, <4>1 DEF Drives
      <4>2. CASE Undecided(u, scanAge)
        <5>1. scanAge < Reaction /\ current["vx"] <= u /\ u \in Nat
          BY <1>4, <3>2, <4>2 DEF Undecided
        <5>2. u \in Nat /\ w \in Nat /\ scanAge \in Int /\ 0 <= scanAge
          BY <1>4
        <5>3. u <= Fastest(u, w, scanAge) /\ Fastest(u, w, scanAge) \in Nat
          BY <5>1, <5>2, FastestLaw
        <5>4. QED
          BY <1>4, <5>1, <5>3
      <4>3. QED
        BY <3>3, <4>1, <4>2
    <3>6. gap' - Keep > left[u][w][scanAge + 1]
      <4>1. scanAge <= ScanTimeout + VelocityTimeout
        BY <1>4, <3>2
      <4>2. QED
        BY <1>4, <2>5, <3>3, <3>5, <4>1
    <3>7. ASSUME Drives(u, w, scanAge) PROVE Drives(u, w, scanAge)'
      <4>1. scanAge' - 1 = scanAge
        BY <1>4, <3>2
      <4>2. current["vx"] <= Fastest(u, w, scanAge' - 1)
        BY <3>5, <4>1
      <4>3. QED
        BY <1>1, <1>7, <1>11, <3>7, <4>2 DEF Drives
    <3>8. ASSUME Undecided(u, scanAge) PROVE Undecided(u, scanAge)'
      <4>1. scanAge + Wait <= Reaction /\ current["vx"] <= u /\ target["vx"] <= u
        BY <3>8 DEF Undecided
      <4>2. scanAge' + Wait' <= Reaction
        BY <1>4, <3>2, <4>1
      <4>3. QED
        BY <1>1, <1>7, <4>1, <4>2 DEF Undecided
    <3>9. gap' - Keep > left[u][w][scanAge']
      BY <3>2, <3>6
    <3>10. QED
      BY <3>3, <3>4, <3>7, <3>8, <3>9
  <2>9. QED
    BY <1>8, <1>9, <2>6, <2>7, <2>8 DEF DistanceInv
<1>12. QED
  BY <1>10, <1>11

LEMMA DistanceNext ==
  ASSUME NEW reserve, NEW left, HorizonSuffices(reserve, left), ControlInv,
         DistanceInv(reserve, left), [Next]_vars
  PROVE  DistanceInv(reserve, left)'
<1>1. CASE Receive
  BY <1>1, DistanceReceives
<1>2. CASE ControllerTick
  BY <1>2, DistanceTicks
<1>3. CASE SmootherCommand
  BY <1>3, DistanceCommands
<1>4. CASE SmootherTick
  BY <1>4, DistanceSmooths
<1>5. CASE SmootherBadInput
  BY <1>5, DistanceResets DEF SmootherBadInput, S!OnBadInputOrStop, controller, stored
<1>6. CASE SmootherStops
  BY <1>6, DistanceResets DEF SmootherStops, Leave, S!OnBadInputOrStop, controller, stored
<1>7. CASE ControllerStops
  <2>1. obs' = Far /\ scanAge' = ScanTimeout + 1 /\ cmd' = C!Zero
    BY <1>7 DEF ControllerStops, C!OnStop, C!Forget
  <2>2. QED
    BY <1>7, <2>1, DistanceLeaves DEF ControllerStops
<1>8. CASE ControllerDies
  <2>1. obs' = Far /\ scanAge' = ScanTimeout + 1 /\ cmd' = cmd
    BY <1>8 DEF ControllerDies, C!Forget
  <2>2. QED
    BY <1>8, <2>1, DistanceLeaves DEF ControllerDies
<1>9. CASE Elapse
  BY <1>9, DistanceElapses
<1>10. CASE UNCHANGED vars
  BY <1>10, DistanceKept DEF vars, controller, stored
<1>11. QED
  BY <1>1, <1>2, <1>3, <1>4, <1>5, <1>6, <1>7, <1>8, <1>9, <1>10 DEF Next

\* A horizon that suffices keeps the robot out of the distance it must keep, on whatever
\* scans, however late, and whoever leaves when: the scan that a command was decided on left
\* room for every unit until that command is replaced or timed out, and for the brakes.
THEOREM DistanceKeeps ==
  ASSUME NEW reserve, NEW left
  PROVE  HorizonSuffices(reserve, left) => (Spec => []KeepsItsDistance)
<1>1. CASE HorizonSuffices(reserve, left)
  <2> DEFINE Inv == ControlInv /\ DistanceInv(reserve, left)
  <2>1. Init => Inv
    BY <1>1, ControlInit, DistanceInit
  <2>2. Inv /\ [Next]_vars => Inv'
    BY <1>1, ControlNext, DistanceNext
  <2>3. Inv => KeepsItsDistance
    BY SpeedsLaw DEF DistanceInv, DistanceTyped, KeepsItsDistance
  <2>4. QED
    BY <2>1, <2>2, <2>3, PTL DEF Spec
<1>2. QED
  BY <1>1
===============================================================================
