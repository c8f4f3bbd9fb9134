------------------------- MODULE PathRequestsProofs -------------------------
(***************************************************************************)
(* Theorems about path requests for every set of poses, scans, goals and   *)
(* flows, every queue size and any number of faults; and about the paths   *)
(* the planner publishes for them, for every saved map, every layer of     *)
(* obstacles, every radius and every number of iterations of a smoothing;  *)
(* where the map and the messages of the lidar put what was hit, for every *)
(* survey and every set of objects.                                        *)
(***************************************************************************)
EXTENDS PlannedPaths, SequenceTheorems, FiniteSetTheorems, WellFoundedInduction, TLAPS

-----------------------------------------------------------------------------
\* Requests.

\* Every cell of a queue is the given one.
AllAre(queue, cell) == \A i \in 1..Len(queue) : queue[i] = cell

\* What a full or a free queue does with one more cell.
LEMMA QueuedLaw ==
  ASSUME NEW S, NEW queue \in Seq(S), Len(queue) <= QueueSize, NEW cell \in S
  PROVE  /\ Queued(queue, cell) \in Seq(S)
         /\ Len(Queued(queue, cell)) <= QueueSize
         /\ AllAre(queue, cell) => AllAre(Queued(queue, cell), cell)
<1>1. QueueSize \in Nat \ {0}
  BY RequestsAssumption
<1>2. CASE Len(queue) = QueueSize
  <2>1. queue # <<>>
    BY <1>1, <1>2
  <2>2. /\ Tail(queue) \in Seq(S) /\ Len(Tail(queue)) = Len(queue) - 1
        /\ \A i \in 1..Len(Tail(queue)) : Tail(queue)[i] = queue[i + 1]
    BY <2>1, HeadTailProperties
  <2>3. Queued(queue, cell) = Append(Tail(queue), cell)
    BY <1>2 DEF Queued
  <2>4. Append(Tail(queue), cell) \in Seq(S) /\ Len(Append(Tail(queue), cell)) = QueueSize
    BY <1>1, <1>2, <2>2
  <2>5. ASSUME AllAre(queue, cell), NEW i \in 1..QueueSize
        PROVE  Append(Tail(queue), cell)[i] = cell
    BY <1>1, <1>2, <2>2, <2>5 DEF AllAre
  <2>6. QED
    BY <1>1, <2>3, <2>4, <2>5 DEF AllAre
<1>3. CASE Len(queue) # QueueSize
  <2>1. Queued(queue, cell) = Append(queue, cell)
    BY <1>3 DEF Queued
  <2>2. QED
    BY <1>1, <1>3, <2>1 DEF AllAre
<1>4. QED
  BY <1>2, <1>3

\* Taking the first cell off a queue.
LEMMA TakenLaw ==
  ASSUME NEW S, NEW queue \in Seq(S), queue # <<>>, Len(queue) <= QueueSize
  PROVE  /\ Head(queue) \in S
         /\ Tail(queue) \in Seq(S) /\ Len(Tail(queue)) <= QueueSize
         /\ \A cell \in S : AllAre(queue, cell) => AllAre(Tail(queue), cell) /\ Head(queue) = cell
<1>1. QueueSize \in Nat
  BY RequestsAssumption
<1>2. /\ Head(queue) \in S
      /\ Tail(queue) \in Seq(S) /\ Len(Tail(queue)) = Len(queue) - 1
      /\ \A i \in 1..Len(Tail(queue)) : Tail(queue)[i] = queue[i + 1]
  BY HeadTailProperties
<1>3. Len(queue) \in Nat \ {0}
  BY EmptySeq
<1>4. Head(queue) = queue[1]
  OBVIOUS
<1>5. QED
  BY <1>1, <1>2, <1>3, <1>4 DEF AllAre

\* How many messages are lost is a number.
LEMMA LostIsNat ==
  ASSUME NEW lost \in SUBSET {"start", "goal"}
  PROVE  Cardinality(lost) \in Nat
<1>1. IsFiniteSet({"start"} \union {"goal"})
  BY FS_Singleton, FS_AddElement
<1>2. {"start", "goal"} = {"start"} \union {"goal"}
  OBVIOUS
<1>3. IsFiniteSet(lost)
  BY <1>1, <1>2, FS_Subset
<1>4. QED
  BY <1>3, FS_CardinalityType

\* An age within its cap stays there and never falls.
LEMMA OlderLaw ==
  ASSUME NEW cap \in Nat, NEW age \in {Unset} \union 0..cap
  PROVE  /\ Older(age, cap) \in {Unset} \union 0..cap
         /\ Older(age, cap) >= age
         /\ age # Unset => Older(age, cap) \in 0..cap
  BY DEF Older, Unset

\* The types of the variables each part of a step writes.
AskedType == [goal : Goal \union {NoGoal}, age : {Unset} \union 0..MinInterval,
              replan : BOOLEAN]
PathType == SUBSET Plans

\* What the constants are.
LEMMA Constants ==
  /\ MinInterval \in Nat /\ ScanTimeout \in Nat /\ MaxFaults \in Nat
  /\ ScanTimeout + 1 \in Nat
  /\ \A p \in Pose : GoalFrom[p] \in Goal /\ StartCell[p] \in StartCells
  /\ \A g \in Goal : GoalCell[g] \in GoalCells
  /\ NoCell \notin StartCells /\ NoCell \notin GoalCells
  /\ NoPose \notin Pose /\ NoScan \notin Scan /\ NoGoal \notin Goal
BY RequestsAssumption DEF StartCells, GoalCells

\* A layer is clear or what one scan shows from one pose.
LEMMA LayersLaw ==
  /\ {} \in Layers /\ Layers \subseteq SUBSET (Pose \X Scan)
  /\ \A p \in Pose, s \in Scan : {<<p, s>>} \in Layers
BY DEF Layers, Clear

\* What planning for a pair, or only keeping its half, writes.
LEMMA AssembleType ==
  ASSUME TypeOK, NEW s \in StartCells \union {NoCell}, NEW g \in GoalCells \union {NoCell},
         Assemble(s, g)
  PROVE  /\ start' \in StartCells \union {NoCell} /\ goal' \in {g, NoCell}
         /\ loaded' \in BOOLEAN /\ layer' \in Layers
         /\ path' \in PathType /\ faults' \in 0..MaxFaults
         /\ \A plan \in path' : plan.goal = g /\ plan.over = PlannedOver /\ g # NoCell
<1>1. PlannedOver \in Layers
  BY LayersLaw DEF PlannedOver, Rebuilt, Clear, Fresh, TypeOK
<1>2. CASE s # NoCell /\ g # NoCell
  <2>1. start' = NoCell /\ goal' = NoCell
    BY <1>2 DEF Assemble
  <2>2. CASE Planned(s, g)
    <3>1. [start |-> s, goal |-> g, over |-> PlannedOver]
            \in Plans
      BY <1>1, <1>2 DEF Plans
    <3>2. QED
      BY <1>1, <1>2, <2>1, <2>2, <3>1 DEF Planned, PathType, TypeOK
  <2>3. CASE ReloadFails
    <3>1. faults' \in 0..MaxFaults
      BY <2>3, Constants DEF ReloadFails, TypeOK
    <3>2. loaded' = FALSE /\ layer' = {} /\ path' = {}
      BY <2>3 DEF ReloadFails, NoPath, Clear
    <3>3. QED
      BY <2>1, <3>1, <3>2, LayersLaw DEF PathType
  <2>4. QED
    BY <1>2, <2>2, <2>3 DEF Assemble
<1>3. CASE ~(s # NoCell /\ g # NoCell)
  BY <1>3 DEF Assemble, PathType, NoPath, TypeOK
<1>4. QED
  BY <1>2, <1>3

\* The queues stay within their size, ages within what the comparisons tell apart, the
\* obstacles and the published path within the poses, scans and cells there are.
THEOREM TypeCorrect == Spec => []TypeOK
<1>1. Init => TypeOK
  BY Constants, LayersLaw, EmptySeq, RequestsAssumption DEF Init, TypeOK, Clear, NoPath, Unset
<1>2. TypeOK /\ [Next]_vars => TypeOK'
  <2> SUFFICES ASSUME TypeOK, [Next]_vars PROVE TypeOK'
    OBVIOUS
  <2>1. CASE OnReplanRequest
    <3>1. asked' \in AskedType
      BY <2>1 DEF OnReplanRequest, AskedType, TypeOK
    <3>2. QED
      BY <2>1, <3>1 DEF OnReplanRequest, AskedType, NoPath, TypeOK, queues, planner
  <2>2. ASSUME NEW p \in Pose, Request(p) PROVE TypeOK'
    <3>1. LatchedGoal(p) \in Goal
      BY Constants DEF LatchedGoal, TypeOK
    <3>2. asked' \in AskedType
      BY <2>2, <3>1, Constants DEF Request, AskedType
    <3>3. PICK lost \in SUBSET {"start", "goal"} : Send(StartCell[p], GoalCell[LatchedGoal(p)], lost)
      BY <2>2 DEF Request
    <3>4. starts' \in Seq(StartCells) /\ Len(starts') <= QueueSize
      BY <3>3, Constants, QueuedLaw DEF Send, TypeOK
    <3>5. goals' \in Seq(GoalCells) /\ Len(goals') <= QueueSize
      BY <3>1, <3>3, Constants, QueuedLaw DEF Send, TypeOK
    <3>6. faults' \in 0..MaxFaults
      <4>1. Cardinality(lost) \in Nat
        BY LostIsNat
      <4>2. faults' = faults + Cardinality(lost) /\ faults + Cardinality(lost) <= MaxFaults
        BY <3>3 DEF Send
      <4>3. QED
        BY <4>1, <4>2, Constants DEF TypeOK
    <3>7. QED
      BY <2>2, <3>2, <3>4, <3>5, <3>6 DEF Request, AskedType, NoPath, TypeOK, planner
  <2>3. ASSUME NEW p \in Pose, OnCorrectedPose(p) PROVE TypeOK'
    <3>1. layer' \in Layers
      BY <2>3, LayersLaw DEF OnCorrectedPose, Rebuilt, Clear, Fresh, TypeOK
    <3>2. QED
      BY <2>3, <3>1 DEF OnCorrectedPose, NoPath, TypeOK, queues
  <2>4. ASSUME NEW s \in Scan \union {NoScan}, OnLaserScan(s) PROVE TypeOK'
    <3>1. layer' \in Layers
      BY <2>4, LayersLaw DEF OnLaserScan, Rebuilt, Clear, TypeOK
    <3>2. scanAge' \in 0..ScanTimeout + 1
      BY <2>4, Constants DEF OnLaserScan
    <3>3. QED
      BY <2>4, <3>1, <3>2 DEF OnLaserScan, NoPath, TypeOK, queues
  <2>5. CASE OnStartPoint
    <3>1. Head(starts) \in StartCells /\ starts' \in Seq(StartCells) /\ Len(starts') <= QueueSize
      BY <2>5, TakenLaw DEF OnStartPoint, TypeOK
    <3>2. Assemble(Head(starts), goal)
      BY <2>5 DEF OnStartPoint
    <3>3. /\ start' \in StartCells \union {NoCell} /\ goal' \in GoalCells \union {NoCell}
          /\ loaded' \in BOOLEAN /\ layer' \in Layers
          /\ path' \in PathType /\ faults' \in 0..MaxFaults
      BY <3>1, <3>2, AssembleType DEF TypeOK
    <3>4. QED
      BY <2>5, <3>1, <3>3 DEF OnStartPoint, PathType, TypeOK
  <2>6. CASE OnGoalPoint
    <3>1. Head(goals) \in GoalCells /\ goals' \in Seq(GoalCells) /\ Len(goals') <= QueueSize
      BY <2>6, TakenLaw DEF OnGoalPoint, TypeOK
    <3>2. Assemble(start, Head(goals)) /\ start \in StartCells \union {NoCell}
      BY <2>6 DEF OnGoalPoint, TypeOK
    <3>3. /\ start' \in StartCells \union {NoCell} /\ goal' \in GoalCells \union {NoCell}
          /\ loaded' \in BOOLEAN /\ layer' \in Layers
          /\ path' \in PathType /\ faults' \in 0..MaxFaults
      BY <3>1, <3>2, AssembleType
    <3>4. QED
      BY <2>6, <3>1, <3>3 DEF OnGoalPoint, PathType, TypeOK
  <2>7. CASE Elapse
    <3>1. asked' \in AskedType
      <4>1. Older(asked.age, MinInterval) \in {Unset} \union 0..MinInterval
        BY Constants, OlderLaw DEF TypeOK
      <4>2. QED
        BY <2>7, <4>1 DEF Elapse, AskedType, TypeOK
    <3>2. scanAge' \in 0..ScanTimeout + 1
      BY <2>7, Constants, OlderLaw DEF Elapse, Unset, TypeOK
    <3>3. QED
      BY <2>7, <3>1, <3>2 DEF Elapse, AskedType, NoPath, TypeOK, queues
  <2>8. CASE UNCHANGED vars
    BY <2>8 DEF vars, queues, planner, TypeOK
  <2>9. QED
    BY <2>1, <2>2, <2>3, <2>4, <2>5, <2>6, <2>7, <2>8 DEF Next, Requests
<1>3. QED
  BY <1>1, <1>2, PTL DEF Spec

-----------------------------------------------------------------------------
\* The goal: every cell on its way from pose_goal to the planner is the latched
\* goal's, and there is none before a goal is latched.
GoalKnown ==
  IF asked.goal = NoGoal
  THEN goals = <<>> /\ goal = NoCell /\ path = NoPath
  ELSE AllAre(goals, GoalCell[asked.goal])

GoalInv == TypeOK /\ GoalKnown /\ PathsLeadToTheGoal

\* A pair with the latched goal yields a path to it.
LEMMA AssembleGoal ==
  ASSUME GoalInv, NEW s \in StartCells \union {NoCell}, NEW g \in GoalCells \union {NoCell},
         Assemble(s, g), asked' = asked,
         g # NoCell => asked.goal # NoGoal /\ g = GoalCell[asked.goal],
         asked.goal = NoGoal => goals' = <<>>,
         asked.goal # NoGoal => AllAre(goals', GoalCell[asked.goal])
  PROVE  GoalKnown' /\ PathsLeadToTheGoal'
<1>1. goal' \in {g, NoCell} /\ \A plan \in path' : plan.goal = g /\ g # NoCell
  BY AssembleType DEF GoalInv
<1>2. CASE asked.goal = NoGoal
  <2>1. g = NoCell
    BY <1>2
  <2>2. goal' = NoCell /\ path' = {}
    BY <1>1, <2>1
  <2>3. QED
    BY <1>2, <2>2 DEF GoalKnown, PathsLeadToTheGoal, NoPath
<1>3. CASE asked.goal # NoGoal
  BY <1>1, <1>3 DEF GoalKnown, PathsLeadToTheGoal, AllAre
<1>4. QED
  BY <1>2, <1>3

\* Whatever is replanned, lost, overflows or is paired across requests, every path
\* leads to the goal latched with the first accepted pose.
THEOREM OneGoal == Spec => []PathsLeadToTheGoal
<1>1. Init => GoalKnown /\ PathsLeadToTheGoal
  BY DEF Init, GoalKnown, PathsLeadToTheGoal, NoPath
<1>2. TypeOK /\ TypeOK' /\ GoalKnown /\ PathsLeadToTheGoal /\ [Next]_vars
        => GoalKnown' /\ PathsLeadToTheGoal'
  <2> SUFFICES ASSUME TypeOK, TypeOK', GoalKnown, PathsLeadToTheGoal, [Next]_vars
               PROVE  GoalKnown' /\ PathsLeadToTheGoal'
    OBVIOUS
  <2>a. GoalInv
    BY DEF GoalInv
  <2>b. ASSUME asked'.goal = asked.goal, goals' = goals, goal' = goal, path' = NoPath
        PROVE  GoalKnown' /\ PathsLeadToTheGoal'
    BY <2>b DEF GoalKnown, PathsLeadToTheGoal, AllAre, NoPath
  <2>1. CASE OnReplanRequest
    <3>1. asked'.goal = asked.goal
      BY <2>1 DEF OnReplanRequest, TypeOK
    <3>2. QED
      BY <2>1, <2>b, <3>1 DEF OnReplanRequest, queues, planner
  <2>2. ASSUME NEW p \in Pose, Request(p) PROVE GoalKnown' /\ PathsLeadToTheGoal'
    <3> DEFINE g == LatchedGoal(p)
    <3>1. g \in Goal /\ (asked.goal # NoGoal => g = asked.goal)
      BY Constants DEF LatchedGoal, TypeOK
    <3>2. asked'.goal = g /\ goal' = goal /\ path' = {}
      BY <2>2 DEF Request, planner, NoPath
    <3>3. PICK lost \in SUBSET {"start", "goal"} : Send(StartCell[p], GoalCell[g], lost)
      BY <2>2 DEF Request
    <3>4. goals' = goals \/ goals' = Queued(goals, GoalCell[g])
      BY <3>3 DEF Send
    <3>5. AllAre(goals, GoalCell[g])
      BY <3>1 DEF GoalKnown, AllAre
    <3>6. AllAre(goals', GoalCell[g])
      <4>1. goals \in Seq(GoalCells) /\ Len(goals) <= QueueSize /\ GoalCell[g] \in GoalCells
        BY <3>1, Constants DEF TypeOK
      <4>2. AllAre(goals, GoalCell[g]) => AllAre(Queued(goals, GoalCell[g]), GoalCell[g])
        BY <4>1, QueuedLaw
      <4>3. QED
        BY <3>4, <3>5, <4>2
    <3>7. goal # NoCell => goal = GoalCell[g]
      BY <3>1 DEF GoalKnown, PathsLeadToTheGoal
    <3>8. asked'.goal # NoGoal
      BY <3>1, <3>2, Constants
    <3>9. QED
      BY <3>2, <3>6, <3>7, <3>8 DEF GoalKnown, PathsLeadToTheGoal, AllAre
  <2>3. ASSUME NEW p \in Pose, OnCorrectedPose(p) PROVE GoalKnown' /\ PathsLeadToTheGoal'
    BY <2>3, <2>b DEF OnCorrectedPose, queues
  <2>4. ASSUME NEW s \in Scan \union {NoScan}, OnLaserScan(s)
        PROVE  GoalKnown' /\ PathsLeadToTheGoal'
    BY <2>4, <2>b DEF OnLaserScan, queues
  <2>5. CASE OnStartPoint
    <3>1. Head(starts) \in StartCells
      BY <2>5, TakenLaw DEF OnStartPoint, TypeOK
    <3>2. Assemble(Head(starts), goal) /\ asked' = asked /\ goals' = goals
      BY <2>5 DEF OnStartPoint
    <3>3. goal # NoCell => asked.goal # NoGoal /\ goal = GoalCell[asked.goal]
      BY DEF GoalKnown, PathsLeadToTheGoal
    <3>4. goal \in GoalCells \union {NoCell}
      BY DEF TypeOK
    <3>5. /\ asked.goal = NoGoal => goals' = <<>>
          /\ asked.goal # NoGoal => AllAre(goals', GoalCell[asked.goal])
      BY <3>2 DEF GoalKnown
    <3>6. QED
      BY <2>a, <3>1, <3>2, <3>3, <3>4, <3>5, AssembleGoal
  <2>6. CASE OnGoalPoint
    <3>1. asked.goal # NoGoal
      BY <2>6 DEF OnGoalPoint, GoalKnown
    <3>2. AllAre(goals, GoalCell[asked.goal]) /\ GoalCell[asked.goal] \in GoalCells
      BY <3>1, Constants DEF GoalKnown, TypeOK
    <3>3. /\ Head(goals) \in GoalCells /\ Head(goals) = GoalCell[asked.goal]
          /\ AllAre(Tail(goals), GoalCell[asked.goal])
      BY <2>6, <3>2, TakenLaw DEF OnGoalPoint, TypeOK
    <3>4. Assemble(start, Head(goals)) /\ asked' = asked /\ goals' = Tail(goals)
      BY <2>6 DEF OnGoalPoint
    <3>5. start \in StartCells \union {NoCell}
      BY DEF TypeOK
    <3>6. QED
      BY <2>a, <3>1, <3>3, <3>4, <3>5, AssembleGoal
  <2>7. CASE Elapse
    <3>1. asked'.goal = asked.goal
      BY <2>7 DEF Elapse, TypeOK
    <3>2. QED
      BY <2>7, <2>b, <3>1 DEF Elapse, queues
  <2>8. CASE UNCHANGED vars
    BY <2>8 DEF vars, queues, planner, GoalKnown, PathsLeadToTheGoal, AllAre
  <2>9. QED
    BY <2>1, <2>2, <2>3, <2>4, <2>5, <2>6, <2>7, <2>8 DEF Next, Requests
<1>3. QED
  BY <1>1, <1>2, TypeCorrect, PTL DEF Spec

-----------------------------------------------------------------------------
\* The obstacles: without reloading, a map stays loaded and the layer is what the
\* newest fresh scan shows.
LayerInv ==
  ~flow.reload => loaded /\ (Fresh => layer = Surroundings) /\ (robot = NoPose => layer = Clear)

\* With a map loaded, a path is planned over exactly what the newest scan shows from
\* the newest pose, and over nothing once that scan is stale; after a failed reload
\* at least over nothing older.
THEOREM CurrentObstacles == Spec => PlansOverTheSurroundings
<1>1. Init => LayerInv
  BY DEF Init, LayerInv, Fresh, Clear
<1>2. TypeOK /\ LayerInv /\ [Next]_vars => LayerInv'
  <2> SUFFICES ASSUME TypeOK, LayerInv, [Next]_vars, ~flow'.reload
               PROVE  /\ loaded'
                      /\ Fresh' => layer' = Surroundings'
                      /\ robot' = NoPose => layer' = Clear
    BY DEF LayerInv
  <2>a. flow' = flow
    BY DEF Next, Requests, OnReplanRequest, Request, OnCorrectedPose, OnLaserScan,
           OnStartPoint, OnGoalPoint, Elapse, vars
  <2>b. loaded /\ (Fresh => layer = Surroundings) /\ (robot = NoPose => layer = Clear)
    BY <2>a DEF LayerInv
  <2>1. CASE OnReplanRequest \/ UNCHANGED vars \/ Requests
    BY <2>1, <2>b DEF OnReplanRequest, vars, Requests, Request, planner, Fresh, Surroundings
  <2>2. ASSUME NEW p \in Pose, OnCorrectedPose(p)
        PROVE  /\ loaded' /\ (Fresh' => layer' = Surroundings')
               /\ robot' = NoPose => layer' = Clear
    BY <2>2, <2>b, Constants DEF OnCorrectedPose, Rebuilt, Fresh, Surroundings
  <2>3. ASSUME NEW s \in Scan \union {NoScan}, OnLaserScan(s)
        PROVE  /\ loaded' /\ (Fresh' => layer' = Surroundings')
               /\ robot' = NoPose => layer' = Clear
    BY <2>3, <2>b DEF OnLaserScan, Rebuilt, Fresh, Surroundings
  <2>4. CASE OnStartPoint \/ OnGoalPoint
    <3>1. /\ robot' = robot /\ scan' = scan /\ scanAge' = scanAge
          /\ (loaded' = loaded /\ layer' = layer) \/ (loaded' /\ layer' = PlannedOver)
      BY <2>4, <2>a DEF OnStartPoint, OnGoalPoint, Assemble, Planned, ReloadFails
    <3>2. QED
      BY <2>a, <2>b, <3>1 DEF PlannedOver, Fresh, Surroundings
  <2>5. CASE Elapse
    <3>1. /\ robot' = robot /\ scan' = scan /\ loaded' = loaded /\ layer' = layer
          /\ scanAge' = Older(scanAge, ScanTimeout + 1)
      BY <2>5 DEF Elapse
    <3>2. scanAge' >= scanAge /\ scanAge' \in Int /\ scanAge \in Int
      BY <3>1, Constants, OlderLaw DEF TypeOK, Unset
    <3>3. Fresh' => Fresh
      BY <3>1, <3>2, Constants DEF Fresh
    <3>4. QED
      BY <2>b, <3>1, <3>3 DEF Surroundings, Fresh
  <2>6. QED
    BY <2>1, <2>2, <2>3, <2>4, <2>5 DEF Next
<1>3. TypeOK /\ LayerInv /\ [Next]_vars =>
        [\A plan \in path' : plan.over = Surroundings \/ (~loaded /\ plan.over = Clear)]_vars
  <2> SUFFICES ASSUME TypeOK, LayerInv, Next, NEW plan \in path'
               PROVE  plan.over = Surroundings \/ (~loaded /\ plan.over = Clear)
    OBVIOUS
  <2>1. PlannedOver = Surroundings \/ (~loaded /\ PlannedOver = Clear)
    BY DEF LayerInv, PlannedOver, Surroundings, Rebuilt, Fresh, TypeOK
  <2>2. CASE OnStartPoint
    <3>1. Head(starts) \in StartCells /\ Assemble(Head(starts), goal)
      BY <2>2, TakenLaw DEF OnStartPoint, TypeOK
    <3>2. plan.over = PlannedOver
      BY <3>1, AssembleType DEF TypeOK
    <3>3. QED
      BY <2>1, <3>2
  <2>3. CASE OnGoalPoint
    <3>1. Head(goals) \in GoalCells /\ Assemble(start, Head(goals))
      BY <2>3, TakenLaw DEF OnGoalPoint, TypeOK
    <3>2. plan.over = PlannedOver
      BY <3>1, AssembleType DEF TypeOK
    <3>3. QED
      BY <2>1, <3>2
  <2>4. CASE path' = NoPath
    BY <2>4 DEF NoPath
  <2>5. QED
    BY <2>2, <2>3, <2>4 DEF Next, Requests, OnReplanRequest, Request, OnCorrectedPose,
       OnLaserScan, Elapse
<1>4. QED
  BY <1>1, <1>2, <1>3, TypeCorrect, PTL DEF Spec, PlansOverTheSurroundings

-----------------------------------------------------------------------------
\* Induction and recursion over an interval.

\* A set of naturals has a least one.
LEMMA LeastOf ==
  ASSUME NEW S \in SUBSET Nat, S # {}
  PROVE  \E m \in S : \A n \in S : m <= n
<1>1. PICK m \in S : \A n \in S : <<n, m>> \notin OpToRel(<, Nat)
  BY NatLessThanWellFounded, WFMin, Zenon
<1>2. \A n \in S : ~(n < m)
  BY <1>1, Zenon DEF OpToRel
<1>3. \A n \in S : m <= n
  BY <1>2
<1> QED  BY <1>3

\* Induction over an interval, for a set.
LEMMA Interval ==
  ASSUME NEW a \in Nat, NEW n \in Nat, NEW T, a \in T, \A k \in a + 1..n : k - 1 \in T => k \in T
  PROVE  \A k \in a..n : k \in T
<1> DEFINE Bad == {k \in a..n : k \notin T}
<1>1. SUFFICES ASSUME Bad # {} PROVE FALSE
  OBVIOUS
<1>2. Bad \in SUBSET Nat
  OBVIOUS
<1>3. PICK m \in Bad : \A k \in Bad : m <= k
  BY <1>1, <1>2, LeastOf
<1>4. m \in a..n /\ m \notin T /\ m # a
  BY <1>3
<1>5. m \in a + 1..n /\ m - 1 \in a..n /\ ~(m <= m - 1)
  BY <1>4
<1>6. m - 1 \in T
  BY <1>3, <1>5
<1> QED  BY <1>4, <1>5, <1>6

\* What a step makes of the first value, one after the other.
Iterated(f, a, n, first, step) ==
  f[a] = first /\ \A k \in a + 1..n : f[k] = step[<<k, f[k - 1]>>]

\* A recursive function over an interval exists.
LEMMA Recursion ==
  ASSUME NEW S, NEW first \in S, NEW step \in [Nat \X S -> S], NEW a \in Nat, NEW n \in Nat, a <= n
  PROVE  \E f \in [a..n -> S] : Iterated(f, a, n, first, step)
<1> DEFINE T == {k \in a..n : \E f \in [a..k -> S] : Iterated(f, a, k, first, step)}
<1>1. a \in T
  <2> DEFINE f == [k \in a..a |-> first]
  <2>1. f \in [a..a -> S] /\ f[a] = first /\ a + 1..a = {}
    OBVIOUS
  <2>2. Iterated(f, a, a, first, step)
    BY <2>1 DEF Iterated
  <2>3. a \in a..n
    OBVIOUS
  <2> QED  BY <2>1, <2>2, <2>3
<1>2. ASSUME NEW m \in a + 1..n, m - 1 \in T
      PROVE  m \in T
  <2>1. PICK g \in [a..m - 1 -> S] : Iterated(g, a, m - 1, first, step)
    BY <1>2
  <2>2. m \in Nat /\ m \in a..n /\ m - 1 \in a..m - 1 /\ a \in a..m - 1 /\ m \notin a..m - 1
    OBVIOUS
  <2> DEFINE next == step[<<m, g[m - 1]>>]
             f == [k \in a..m |-> IF k = m THEN next ELSE g[k]]
  <2>3. next \in S
    BY <2>1, <2>2
  <2> HIDE DEF next
  <2>4. \A k \in a..m - 1 : k \in a..m /\ k # m
    BY <2>2
  <2>5. \A k \in a..m : k # m => k \in a..m - 1
    BY <2>2
  <2>6. f \in [a..m -> S]
    BY <2>1, <2>3, <2>5
  <2>7. (\A k \in a..m - 1 : f[k] = g[k]) /\ f[m] = next
    BY <2>2, <2>4
  <2> HIDE DEF f
  <2>8. f[a] = first
    BY <2>1, <2>2, <2>7 DEF Iterated
  <2>9. ASSUME NEW k \in a + 1..m
        PROVE  f[k] = step[<<k, f[k - 1]>>]
    <3>1. k - 1 \in a..m - 1
      BY <2>2
    <3>2. CASE k = m
      BY <2>7, <3>1, <3>2 DEF next
    <3>3. CASE k # m
      <4>1. k \in a + 1..m - 1 /\ k \in a..m - 1
        BY <2>2, <3>3
      <4>2. g[k] = step[<<k, g[k - 1]>>]
        BY <2>1, <4>1 DEF Iterated
      <4> QED  BY <2>7, <3>1, <4>1, <4>2
    <3> QED  BY <3>2, <3>3
  <2>10. Iterated(f, a, m, first, step)
    BY <2>8, <2>9 DEF Iterated
  <2> QED  BY <2>2, <2>6, <2>10
<1> HIDE DEF T
<1>3. \A k \in a..n : k \in T
  BY <1>1, <1>2, Interval
<1>4. n \in T
  BY <1>3
<1> QED  BY <1>4 DEF T

-----------------------------------------------------------------------------
\* Smoothing.

\* A quotient that is not rounded.
LEMMA Quotient ==
  ASSUME NEW u \in Nat \ {0}, NEW c \in Int, NEW r \in 0..u - 1
  PROVE  (u * c + r) \div u = c
<1> DEFINE q == (u * c + r) \div u
           m == (u * c + r) % u
<1>1. u * c \in Int /\ u * c + r \in Int
  OBVIOUS
<1>2. q \in Int /\ m \in 0..u - 1 /\ u * c + r = u * q + m
  BY <1>1
<1> HIDE DEF q, m
<1>3. u * (c - q) = m - r
  BY <1>2
<1>4. CASE c - q >= 1
  <2>1. u * (c - q) >= u
    BY <1>2, <1>4
  <2> QED  BY <1>2, <1>3, <2>1
<1>5. CASE c - q <= -1
  <2>1. u * (c - q) <= -u
    BY <1>2, <1>5
  <2> QED  BY <1>2, <1>3, <2>1
<1>6. q = c
  BY <1>2, <1>4, <1>5
<1> QED  BY <1>6 DEF q

\* The smoothed point of a cell lies in that cell.
LEMMA CellOfCell ==
  ASSUME NEW c \in Int \X Int
  PROVE  CellOf(<<Unit * c[1], Unit * c[2]>>) = c
<1>1. Unit \in Nat \ {0}
  BY SearchAssumption
<1>2. Unit \div 2 \in 0..Unit - 1
  BY <1>1
<1>3. c[1] \in Int /\ c[2] \in Int /\ c = <<c[1], c[2]>>
  OBVIOUS
<1>4. (Unit * c[1] + Unit \div 2) \div Unit = c[1] /\ (Unit * c[2] + Unit \div 2) \div Unit = c[2]
  BY <1>1, <1>2, <1>3, Quotient
<1> QED  BY <1>3, <1>4 DEF CellOf

\* A path over the free cells with the ends of another.
Kept(p, given, free) ==
  /\ p \in Seq(Int \X Int) /\ Len(p) = Len(given)
  /\ p[1] = given[1] /\ p[Len(given)] = given[Len(given)]
  /\ \A i \in 1..Len(given) : CellOf(p[i]) \in free

\* A pass that ends clear keeps a path over the free cells.
LEMMA PassKeeps ==
  ASSUME NEW free, NEW given \in Seq(Int \X Int), Len(given) >= 2, NEW now, Kept(now, given, free),
         NEW r, r = Pass(given, now, free)
  PROVE  r.clear => Kept(r.moved, given, free)
<1> DEFINE n == Len(given)
           States == {s \in [moved : Seq(Int \X Int), clear : BOOLEAN] :
                        Len(s.moved) = n /\ (s.clear => Kept(s.moved, given, free))}
           first == [moved |-> now, clear |-> TRUE]
           Pt(i, p) == <<Drawn(given[i][1], p[i][1], p[i - 1][1], p[i + 1][1]),
                         Drawn(given[i][2], p[i][2], p[i - 1][2], p[i + 1][2])>>
           Go(i, s) == IF ~s.clear THEN s
                       ELSE [moved |-> [s.moved EXCEPT ![i] = Pt(i, s.moved)],
                             clear |-> CellOf(Pt(i, s.moved)) \in free]
           step == [x \in Nat \X States |-> IF x[1] \in 2..n - 1 THEN Go(x[1], x[2]) ELSE first]
           Eq(h) == h = [i \in 1..n - 1 |-> IF i = 1 THEN first ELSE Go(i, h[i - 1])]
<1>0. n \in Nat /\ n >= 2 /\ n - 1 \in Nat
  BY LenProperties
<1>1. first \in States
  BY DEF Kept
<1>2. ASSUME NEW i \in 2..n - 1, NEW s \in States
      PROVE  Go(i, s) \in States
  <2> DEFINE p == s.moved
             q == [p EXCEPT ![i] = Pt(i, p)]
             c == CellOf(Pt(i, p)) \in free
  <2>1. p \in Seq(Int \X Int) /\ Len(p) = n
    OBVIOUS
  <2>2. i \in 1..n /\ i - 1 \in 1..n /\ i + 1 \in 1..n /\ i # 1 /\ i # n /\ 1 \in 1..n /\ n \in 1..n
    <3> HIDE DEF n, p, q, c, States, Pt
    <3> QED  BY <1>0
  <2>3. \A j \in 1..n : given[j] \in Int \X Int /\ p[j] \in Int \X Int
    BY <2>1, ElementOfSeq
  <2>4. Pt(i, p) \in Int \X Int
    <3>1. /\ given[i][1] \in Int /\ p[i][1] \in Int /\ p[i - 1][1] \in Int /\ p[i + 1][1] \in Int
          /\ given[i][2] \in Int /\ p[i][2] \in Int /\ p[i - 1][2] \in Int /\ p[i + 1][2] \in Int
      BY <2>2, <2>3
    <3>2. \A w, x, y, z \in Int : Drawn(w, x, y, z) \in Int
      BY DEF Drawn
    <3> QED  BY <3>1, <3>2
  <2> HIDE DEF Pt
  <2>5. /\ q \in Seq(Int \X Int) /\ Len(q) = n /\ q[i] = Pt(i, p)
        /\ \A j \in 1..n : j # i => q[j] = p[j]
    BY <2>1, <2>2, <2>4, ExceptSeq
  <2>6. CASE ~s.clear
    BY <2>6
  <2>7. CASE s.clear
    <3>1. Go(i, s) = [moved |-> q, clear |-> c]
      BY <2>7
    <3>2. Kept(p, given, free)
      BY <2>7
    <3> HIDE DEF q
    <3>3. c => \A j \in 1..n : CellOf(q[j]) \in free
      BY <2>5, <3>2 DEF Kept
    <3>4. c => Kept(q, given, free)
      BY <2>2, <2>5, <3>2, <3>3 DEF Kept
    <3>5. c \in BOOLEAN
      OBVIOUS
    <3> HIDE DEF c
    <3> QED  BY <2>5, <3>1, <3>4, <3>5
  <2> QED  BY <2>6, <2>7
<1>3. step \in [Nat \X States -> States]
  <2> HIDE DEF States, Go, first
  <2> QED  BY <1>1, <1>2
<1>4. PICK f \in [1..n - 1 -> States] : Iterated(f, 1, n - 1, first, step)
  <2> HIDE DEF States, step, first
  <2>1. 1 \in Nat /\ 1 <= n - 1
    BY <1>0
  <2> QED  BY <1>0, <1>1, <1>3, <2>1, Recursion
<1>5. Eq(f)
  <2> HIDE DEF States, first, Go
  <2>1. f[1] = first
    BY <1>4 DEF Iterated
  <2>2. ASSUME NEW i \in 1..n - 1, i # 1
        PROVE  f[i] = Go(i, f[i - 1])
    <3>1. i \in 1 + 1..n - 1 /\ i \in 2..n - 1 /\ i - 1 \in 1..n - 1 /\ i \in Nat
      BY <1>0, <2>2
    <3>2. f[i] = step[<<i, f[i - 1]>>]
      BY <1>4, <3>1 DEF Iterated
    <3>3. f[i - 1] \in States
      BY <1>4, <3>1
    <3> QED  BY <3>1, <3>2, <3>3
  <2> QED  BY <1>4, <2>1, <2>2
<1> DEFINE h == CHOOSE g : Eq(g)
<1>6. Eq(h)
  <2> HIDE DEF Eq
  <2> QED  BY <1>5, Zenon
<1>7. r = h[n - 1]
  BY Zenon DEF Pass
<1> HIDE DEF h
<1>8. \A i \in 1..n - 1 : i \in {k \in 1..n - 1 : h[k] \in States}
  <2> HIDE DEF States, first, Go
  <2> DEFINE T == {k \in 1..n - 1 : h[k] \in States}
  <2>1. 1 \in T
    BY <1>0, <1>1, <1>6
  <2>2. ASSUME NEW k \in 1 + 1..n - 1, k - 1 \in T
        PROVE  k \in T
    <3>1. k \in 2..n - 1 /\ k \in 1..n - 1 /\ k # 1
      BY <1>0
    <3>2. h[k] = Go(k, h[k - 1])
      BY <1>6, <3>1
    <3> QED  BY <1>2, <2>2, <3>1, <3>2
  <2> HIDE DEF T
  <2>3. \A k \in 1..n - 1 : k \in T
    <3> HIDE DEF n
    <3> QED  BY <1>0, <2>1, <2>2, Interval
  <2> QED  BY <2>3 DEF T
<1>9. r \in States
  BY <1>0, <1>7, <1>8
<1> QED  BY <1>9

\* However many passes there are, what is settled on is a path over the free cells.
LEMMA SettleKeeps ==
  ASSUME NEW free, NEW given \in Seq(Int \X Int), Len(given) >= 2, Kept(given, given, free)
  PROVE  Kept(Settle(given, free), given, free)
<1> DEFINE S == {p \in Seq(Int \X Int) : Kept(p, given, free)}
           turn == [last \in Seq(Int \X Int) |->
                      IF Pass(given, last, free).clear THEN Pass(given, last, free).moved ELSE last]
           step == [x \in Nat \X S |-> turn[x[2]]]
           Eq(h) == h = [i \in 1..MaxIterations |-> IF i = 1 THEN given ELSE turn[h[i - 1]]]
<1>0. MaxIterations \in Nat /\ 1 <= MaxIterations /\ 1 \in Nat
  BY SearchAssumption
<1>1. given \in S
  OBVIOUS
<1>2. ASSUME NEW p \in S
      PROVE  turn[p] \in S
  <2>1. Kept(p, given, free) /\ p \in Seq(Int \X Int)
    OBVIOUS
  <2> DEFINE r == Pass(given, p, free)
  <2>2. r.clear => Kept(r.moved, given, free)
    BY <2>1, PassKeeps
  <2>3. turn[p] = IF r.clear THEN r.moved ELSE p
    BY <2>1
  <2> HIDE DEF r, turn
  <2>4. Kept(turn[p], given, free)
    BY <2>1, <2>2, <2>3
  <2>5. turn[p] \in Seq(Int \X Int)
    BY <2>4 DEF Kept
  <2> QED  BY <2>4, <2>5
<1> HIDE DEF S, turn
<1>3. step \in [Nat \X S -> S]
  BY <1>2
<1>4. PICK f \in [1..MaxIterations -> S] : Iterated(f, 1, MaxIterations, given, step)
  <2> HIDE DEF step
  <2> QED  BY <1>0, <1>1, <1>3, Recursion
<1>5. Eq(f)
  <2>1. f[1] = given
    BY <1>4 DEF Iterated
  <2>2. ASSUME NEW i \in 1..MaxIterations, i # 1
        PROVE  f[i] = turn[f[i - 1]]
    <3>1. i \in 1 + 1..MaxIterations /\ i - 1 \in 1..MaxIterations /\ i \in Nat
      BY <1>0, <2>2
    <3>2. f[i] = step[<<i, f[i - 1]>>]
      BY <1>4, <3>1 DEF Iterated
    <3>3. f[i - 1] \in S
      BY <1>4, <3>1
    <3> QED  BY <3>1, <3>2, <3>3
  <2> QED  BY <1>4, <2>1, <2>2
<1> DEFINE h == CHOOSE g : Eq(g)
<1>6. Eq(h)
  <2> HIDE DEF Eq
  <2> QED  BY <1>5, Zenon
<1>7. Settle(given, free) = h[MaxIterations]
  BY Zenon DEF Settle, turn
<1> HIDE DEF h
<1> DEFINE T == {k \in 1..MaxIterations : h[k] \in S}
<1>8. \A k \in 1..MaxIterations : k \in T
  <2>1. 1 \in T
    BY <1>0, <1>1, <1>6
  <2>2. ASSUME NEW k \in 1 + 1..MaxIterations, k - 1 \in T
        PROVE  k \in T
    <3>1. k \in 1..MaxIterations /\ k # 1
      BY <1>0
    <3>2. h[k] = turn[h[k - 1]]
      BY <1>6, <3>1
    <3> QED  BY <1>2, <2>2, <3>1, <3>2
  <2> HIDE DEF T
  <2> QED  BY <1>0, <2>1, <2>2, Interval
<1>9. h[MaxIterations] \in S
  BY <1>0, <1>8
<1> QED  BY <1>7, <1>9 DEF S

\* Smoothing keeps the number of points and the ends, and moves no point out of the free cells.
Smoothed(r, cells, free) ==
  /\ r \in Seq(Int \X Int) /\ Len(r) = Len(cells)
  /\ \A i \in 1..Len(cells) : CellOf(r[i]) \in free
  /\ cells # <<>> => CellOf(r[1]) = cells[1] /\ CellOf(r[Len(cells)]) = cells[Len(cells)]

\* Three smoothings keep the ends where they are and every point over a free cell.
LEMMA SmoothLaw ==
  ASSUME NEW free \in SUBSET (Int \X Int), NEW cells \in Seq(free), NEW r, r = Smooth(cells, free)
  PROVE  Smoothed(r, cells, free)
<1> DEFINE points == [i \in DOMAIN cells |-> <<Unit * cells[i][1], Unit * cells[i][2]>>]
           n == Len(cells)
<1>1. Unit \in Nat \ {0} /\ n \in Nat /\ DOMAIN cells = 1..n
  BY SearchAssumption, LenProperties
<1>2. ASSUME NEW i \in 1..n
      PROVE  cells[i] \in free /\ points[i] \in Int \X Int /\ CellOf(points[i]) = cells[i]
  <2>1. cells[i] \in free
    BY ElementOfSeq
  <2>2. cells[i] \in Int \X Int
    BY <2>1
  <2>3. CellOf(<<Unit * cells[i][1], Unit * cells[i][2]>>) = cells[i]
    BY <2>2, CellOfCell
  <2>4. points[i] = <<Unit * cells[i][1], Unit * cells[i][2]>>
    BY <1>1
  <2> QED  BY <1>1, <2>1, <2>2, <2>3, <2>4
<1>3. points \in Seq(Int \X Int) /\ Len(points) = n
  <2>1. points \in [1..n -> Int \X Int]
    BY <1>1, <1>2
  <2> HIDE DEF points
  <2>2. points \in Seq(Int \X Int)
    <3>1. points \in UNION {[1..m -> Int \X Int] : m \in Nat}
      BY <1>1, <2>1, Zenon
    <3> QED  BY <3>1, SeqDef
  <2>3. DOMAIN points = 1..n /\ DOMAIN points = 1..Len(points) /\ Len(points) \in Nat
    BY <2>1, <2>2, LenProperties
  <2> QED  BY <1>1, <2>2, <2>3
<1>4. r = IF Len(points) <= 3 THEN points
          ELSE Settle(Settle(Settle(points, free), free), free)
  BY DEF Smooth
<1> HIDE DEF points, n
<1>5. Kept(points, points, free)
  BY <1>2, <1>3 DEF Kept
<1>6. CASE n <= 3
  BY <1>1, <1>2, <1>3, <1>4, <1>6 DEF n, Smoothed
<1>7. CASE n > 3
  <2>1. ASSUME NEW p \in Seq(Int \X Int), Kept(p, points, free)
        PROVE  Settle(p, free) \in Seq(Int \X Int) /\ Kept(Settle(p, free), points, free)
    <3>1. Len(p) = n /\ Len(p) >= 2 /\ Kept(p, p, free)
      BY <1>1, <1>3, <1>7, <2>1 DEF Kept
    <3>2. Kept(Settle(p, free), p, free)
      BY <3>1, SettleKeeps
    <3> QED  BY <1>3, <2>1, <3>1, <3>2 DEF Kept
  <2> DEFINE a == Settle(points, free)
             b == Settle(a, free)
  <2>2. a \in Seq(Int \X Int) /\ Kept(a, points, free)
    BY <1>3, <1>5, <2>1
  <2>3. b \in Seq(Int \X Int) /\ Kept(b, points, free)
    <3> HIDE DEF a
    <3> QED  BY <2>1, <2>2
  <2>4. Settle(b, free) \in Seq(Int \X Int) /\ Kept(Settle(b, free), points, free)
    <3> HIDE DEF a, b
    <3> QED  BY <2>1, <2>3
  <2>5. r = Settle(b, free)
    BY <1>1, <1>3, <1>4, <1>7
  <2>6. 1 \in 1..n /\ n \in 1..n
    BY <1>1, <1>7
  <2> HIDE DEF a, b
  <2>7. r \in Seq(Int \X Int) /\ Len(r) = n /\ r[1] = points[1] /\ r[n] = points[n]
        /\ \A i \in 1..n : CellOf(r[i]) \in free
    BY <1>3, <2>4, <2>5 DEF Kept
  <2> QED  BY <1>2, <2>6, <2>7 DEF n, Smoothed
<1> QED  BY <1>1, <1>6, <1>7

-----------------------------------------------------------------------------
\* The search.

LEMMA MaxOfTwo ==
  ASSUME NEW a \in Int, NEW b \in Int
  PROVE  Max({a, b}) = IF a >= b THEN a ELSE b
<1> DEFINE m == IF a >= b THEN a ELSE b
<1>1. m \in {a, b} /\ \A y \in {a, b} : m >= y
  OBVIOUS
<1>2. \A x \in {a, b} : (\A y \in {a, b} : x >= y) => x = m
  OBVIOUS
<1>3. Max({a, b}) \in {a, b} /\ \A y \in {a, b} : Max({a, b}) >= y
  <2> HIDE DEF m
  <2> QED  BY <1>1 DEF Max
<1> QED  BY <1>2, <1>3

\* The least of two integers.
LEMMA MinOfTwo ==
  ASSUME NEW a \in Int, NEW b \in Int
  PROVE  Min({a, b}) = IF a <= b THEN a ELSE b
<1> DEFINE m == IF a <= b THEN a ELSE b
<1>1. m \in {a, b} /\ \A y \in {a, b} : m <= y
  OBVIOUS
<1>2. \A x \in {a, b} : (\A y \in {a, b} : x <= y) => x = m
  OBVIOUS
<1>3. Min({a, b}) \in {a, b} /\ \A y \in {a, b} : Min({a, b}) <= y
  <2> HIDE DEF m
  <2> QED  BY <1>1 DEF Min
<1> QED  BY <1>2, <1>3

\* Absolute values.
LEMMA AbsLaw ==
  ASSUME NEW n \in Int
  PROVE  Abs(n) \in Nat /\ (n >= 0 => Abs(n) = n) /\ (n < 0 => Abs(n) = -n)
BY DEF Abs

\* One step is shorter than two along the axes and no shorter than one.
LEMMA StepLengths ==
  /\ Straight \in Nat /\ Diagonal \in Nat /\ Straight > 0
  /\ Straight <= Diagonal /\ Diagonal <= Straight + Straight
BY DEF Straight, Diagonal

\* Neighbours are at most one column and one row apart, and are not one cell.
LEMMA NeighboursLaw ==
  ASSUME NEW a \in Int \X Int, NEW b \in Int \X Int
  PROVE  /\ Chebyshev(a, b) \in Nat
         /\ Chebyshev(a, b) >= Abs(a[1] - b[1]) /\ Chebyshev(a, b) >= Abs(a[2] - b[2])
         /\ Chebyshev(a, b) = Abs(a[1] - b[1]) \/ Chebyshev(a, b) = Abs(a[2] - b[2])
<1> DEFINE x == Abs(a[1] - b[1])
           y == Abs(a[2] - b[2])
<1>1. x \in Nat /\ y \in Nat
  BY AbsLaw
<1>2. Chebyshev(a, b) = Max({x, y})
  BY DEF Chebyshev, Apart
<1> HIDE DEF x, y
<1>3. Max({x, y}) = IF x >= y THEN x ELSE y
  BY <1>1, MaxOfTwo
<1>4. /\ Chebyshev(a, b) \in Nat /\ Chebyshev(a, b) >= x /\ Chebyshev(a, b) >= y
      /\ Chebyshev(a, b) = x \/ Chebyshev(a, b) = y
  BY <1>1, <1>2, <1>3
<1> QED  BY <1>4 DEF x, y

\* The octile distance of columns and rows apart.
LEMMA OctileLaw ==
  ASSUME NEW a \in Int \X Int, NEW t \in Int \X Int
  PROVE  /\ Octile(a, t) \in Nat
         /\ LET x == Abs(a[1] - t[1])
                y == Abs(a[2] - t[2])
            IN  Octile(a, t) = IF x >= y THEN Straight * (x - y) + Diagonal * y
                               ELSE Straight * (y - x) + Diagonal * x
<1> DEFINE x == Abs(a[1] - t[1])
           y == Abs(a[2] - t[2])
<1>1. x \in Nat /\ y \in Nat
  BY AbsLaw
<1>2. Octile(a, t) = Straight * Abs(x - y) + Diagonal * Min({x, y})
  BY DEF Octile, Apart
<1> HIDE DEF x, y
<1>3. Min({x, y}) = IF x <= y THEN x ELSE y
  BY <1>1, MinOfTwo
<1>4. Abs(x - y) = IF x >= y THEN x - y ELSE y - x
  BY <1>1 DEF Abs
<1>5. Octile(a, t) = IF x >= y THEN Straight * (x - y) + Diagonal * y
                     ELSE Straight * (y - x) + Diagonal * x
  BY <1>1, <1>2, <1>3, <1>4
<1>6. \A m, n \in Nat : Straight * m + Diagonal * n \in Nat
  BY StepLengths
<1>7. CASE x >= y
  <2>1. x - y \in Nat
    BY <1>1, <1>7
  <2> QED  BY <1>1, <1>5, <1>6, <1>7, <2>1 DEF x, y
<1>8. CASE x < y
  <2>1. y - x \in Nat /\ ~(x >= y)
    BY <1>1, <1>8
  <2> QED  BY <1>1, <1>5, <1>6, <1>8, <2>1 DEF x, y
<1> QED  BY <1>1, <1>7, <1>8

\* What a step changes of it.
LEMMA OctileChange ==
  ASSUME NEW x \in Nat, NEW y \in Nat, NEW u \in Nat, NEW v \in Nat,
         x - u \in -1..1, y - v \in -1..1
  PROVE  LET o == IF x >= y THEN Straight * (x - y) + Diagonal * y
                  ELSE Straight * (y - x) + Diagonal * x
             p == IF u >= v THEN Straight * (u - v) + Diagonal * v
                  ELSE Straight * (v - u) + Diagonal * u
         IN  o <= p + Diagonal /\ (x = u \/ y = v => o <= p + Straight)
BY DEF Straight, Diagonal

\* A step of one changes an absolute value by one at most.
LEMMA AbsChange ==
  ASSUME NEW m \in Int, NEW n \in Int, m - n \in -1..1
  PROVE  Abs(m) - Abs(n) \in -1..1
BY DEF Abs

\* A step brings the target no nearer, as the heuristic sees it, than the step is long.
LEMMA Consistent ==
  ASSUME NEW a \in Int \X Int, NEW b \in Int \X Int, Chebyshev(a, b) = 1, NEW t \in Int \X Int
  PROVE  /\ Length(a, b) \in Nat /\ Length(a, b) >= Straight
         /\ Octile(a, t) <= Length(a, b) + Octile(b, t)
<1> DEFINE x == Abs(a[1] - t[1])
           y == Abs(a[2] - t[2])
           u == Abs(b[1] - t[1])
           v == Abs(b[2] - t[2])
           o == IF x >= y THEN Straight * (x - y) + Diagonal * y
                ELSE Straight * (y - x) + Diagonal * x
           p == IF u >= v THEN Straight * (u - v) + Diagonal * v
                ELSE Straight * (v - u) + Diagonal * u
<1>1. x \in Nat /\ y \in Nat /\ u \in Nat /\ v \in Nat
  BY AbsLaw
<1>2. a[1] - b[1] \in -1..1 /\ a[2] - b[2] \in -1..1
  <2>1. Abs(a[1] - b[1]) <= 1 /\ Abs(a[2] - b[2]) <= 1
    BY NeighboursLaw
  <2> QED  BY <2>1 DEF Abs
<1>3. x - u \in -1..1
  <2>1. (a[1] - t[1]) - (b[1] - t[1]) \in -1..1
    BY <1>2
  <2> QED  BY <2>1, AbsChange
<1>4. y - v \in -1..1
  <2>1. (a[2] - t[2]) - (b[2] - t[2]) \in -1..1
    BY <1>2
  <2> QED  BY <2>1, AbsChange
<1>5. (a[1] = b[1] => x = u) /\ (a[2] = b[2] => y = v)
  OBVIOUS
<1>6. Octile(a, t) = o /\ Octile(b, t) = p
  BY OctileLaw
<1>7. o \in Nat /\ p \in Nat
  BY <1>6, OctileLaw
<1> HIDE DEF x, y, u, v
<1>8. o <= p + Diagonal /\ (x = u \/ y = v => o <= p + Straight)
  BY <1>1, <1>3, <1>4, OctileChange
<1> HIDE DEF o, p
<1>9. CASE a[1] = b[1] \/ a[2] = b[2]
  <2>1. Length(a, b) = Straight
    BY <1>9 DEF Length
  <2> QED  BY <1>5, <1>6, <1>7, <1>8, <1>9, <2>1, StepLengths
<1>10. CASE ~(a[1] = b[1] \/ a[2] = b[2])
  <2>1. Length(a, b) = Diagonal
    BY <1>10 DEF Length
  <2> QED  BY <1>6, <1>7, <1>8, <2>1, StepLengths
<1> QED  BY <1>9, <1>10

\* At the target nothing is left.
LEMMA OctileAtTarget ==
  ASSUME NEW t \in Int \X Int
  PROVE  Octile(t, t) = 0
<1>1. Abs(t[1] - t[1]) = 0 /\ Abs(t[2] - t[2]) = 0
  BY DEF Abs
<1>2. Straight * (0 - 0) + Diagonal * 0 = 0
  BY StepLengths
<1> QED  BY <1>1, <1>2, OctileLaw

\* A table computed once is that table.
LEMMA OnceLaw ==
  ASSUME NEW t
  PROVE  Once(t) = t
BY DEF Once

\* The entries that are updated, and those that are not.
LEMMA UpdatedLaw ==
  ASSUME NEW f, NEW g
  PROVE  Updated(f, g) = [x \in DOMAIN f \union DOMAIN g |-> IF x \in DOMAIN g THEN g[x] ELSE f[x]]
BY OnceLaw DEF Updated

\* What a search from the source knows.
SearchState(free) ==
  {s \in [open : SUBSET free, dist : UNION {[D -> Nat] : D \in SUBSET free},
          from : UNION {[D -> free] : D \in SUBSET free}] :
     s.open \subseteq DOMAIN s.dist /\ DOMAIN s.from = DOMAIN s.dist}

Closed(s) == DOMAIN s.dist \ s.open

\* The way to each cell but the source comes from a settled one.
WaysGoBack(s, source, free) ==
  /\ source \in DOMAIN s.dist /\ s.dist[source] = 0
  /\ \A v \in DOMAIN s.dist \ {source} :
       /\ s.from[v] \in Closed(s) /\ Joined(s.from[v], v, free)
       /\ s.dist[v] = s.dist[s.from[v]] + Length(s.from[v], v)

\* The neighbours of a settled cell are no farther than by way of it.
ClosedAreRelaxed(s, free) ==
  \A u \in Closed(s), v \in free :
    Joined(u, v, free) => v \in DOMAIN s.dist /\ s.dist[v] <= s.dist[u] + Length(u, v)

\* No settled cell promises more than an open one.
ClosedPromiseLess(s, target) ==
  \A u \in Closed(s), v \in s.open : Promise(s, u, target) <= Promise(s, v, target)

SearchInv(s, source, target, free) ==
  /\ s \in SearchState(free)
  /\ WaysGoBack(s, source, free)
  /\ ClosedAreRelaxed(s, free)
  /\ ClosedPromiseLess(s, target)
  /\ target \notin Closed(s)

\* The parts of a search state.
LEMMA StateTyped ==
  ASSUME NEW free, NEW s \in SearchState(free)
  PROVE  /\ s = [open |-> s.open, dist |-> s.dist, from |-> s.from]
         /\ s.open \subseteq DOMAIN s.dist /\ DOMAIN s.dist \subseteq free
         /\ DOMAIN s.from = DOMAIN s.dist
         /\ s.dist \in [DOMAIN s.dist -> Nat] /\ s.from \in [DOMAIN s.dist -> free]
<1>1. /\ s \in [open : SUBSET free, dist : UNION {[D -> Nat] : D \in SUBSET free},
                from : UNION {[D -> free] : D \in SUBSET free}]
      /\ s.open \subseteq DOMAIN s.dist /\ DOMAIN s.from = DOMAIN s.dist
  BY DEF SearchState
<1>2. PICK D \in SUBSET free : s.dist \in [D -> Nat]
  BY <1>1
<1>3. PICK E \in SUBSET free : s.from \in [E -> free]
  BY <1>1
<1> QED  BY <1>1, <1>2, <1>3

\* Parts that make a search state.
LEMMA StateMade ==
  ASSUME NEW free, NEW D \in SUBSET free, NEW o \in SUBSET D, NEW d \in [D -> Nat], NEW f \in [D -> free]
  PROVE  [open |-> o, dist |-> d, from |-> f] \in SearchState(free)
<1>1. d \in UNION {[E -> Nat] : E \in SUBSET free} /\ f \in UNION {[E -> free] : E \in SUBSET free}
  OBVIOUS
<1>2. o \in SUBSET free /\ DOMAIN d = D /\ DOMAIN f = D
  OBVIOUS
<1> HIDE DEF Closed
<1> QED  BY <1>1, <1>2 DEF SearchState

\* The open cell that is chosen promises no more than any other.
LEMMA NearestLaw ==
  ASSUME NEW free \in SUBSET (Int \X Int), NEW target \in free, NEW s \in SearchState(free), s.open # {}
  PROVE  /\ Nearest(s, target) \in s.open
         /\ \A d \in s.open : Promise(s, Nearest(s, target), target) <= Promise(s, d, target)
<1>1. ASSUME NEW c \in s.open
      PROVE  Promise(s, c, target) \in Nat
  <2>1. c \in DOMAIN s.dist /\ c \in Int \X Int /\ target \in Int \X Int
    BY StateTyped
  <2>2. s.dist[c] \in Nat
    BY <2>1, StateTyped
  <2>3. Octile(c, target) \in Nat
    BY <2>1, OctileLaw
  <2> QED  BY <2>2, <2>3 DEF Promise
<1> DEFINE P == {Promise(s, c, target) : c \in s.open}
<1>2. P \in SUBSET Nat /\ P # {}
  BY <1>1
<1>3. PICK m \in P : \A n \in P : m <= n
  BY <1>2, LeastOf
<1>4. PICK c \in s.open : m = Promise(s, c, target)
  BY <1>3
<1>5. \A d \in s.open : Promise(s, c, target) <= Promise(s, d, target)
  BY <1>3, <1>4
<1> QED  BY <1>5 DEF Nearest

\* Settling one more cell keeps what the search knows; no settled cell is opened again.
LEMMA ExpandLaw ==
  ASSUME NEW free \in SUBSET (Int \X Int), NEW source \in free, NEW target \in free,
         NEW s, SearchInv(s, source, target, free),
         NEW u, u = Nearest(s, target), s.open # {}, u # target,
         NEW r, r = Expand(s, target, free)
  PROVE  SearchInv(r, source, target, free) /\ u \notin Closed(s) /\ Closed(r) = Closed(s) \union {u}
<1> DEFINE D == DOMAIN s.dist
           closer == Closer(s, u, free)
           h(c) == Octile(c, target)
           add == [v \in closer |-> s.dist[u] + Length(u, v)]
           back == [v \in closer |-> u]
           dist == Updated(s.dist, add)
           from == Updated(s.from, back)
           open == (s.open \ {u}) \union closer
<1>0. /\ s \in SearchState(free) /\ s.open \subseteq D /\ D \subseteq free
      /\ DOMAIN s.from = D /\ s.dist \in [D -> Nat] /\ s.from \in [D -> free]
  BY StateTyped DEF SearchInv
<1>1. u \in s.open /\ \A d \in s.open : Promise(s, u, target) <= Promise(s, d, target)
  BY <1>0, NearestLaw
<1>2. r = [open |-> open, dist |-> dist, from |-> from]
  BY DEF Expand
<1>3. u \in D /\ u \in free /\ u \in Int \X Int /\ s.dist[u] \in Nat
  BY <1>0, <1>1
<1>4. \A c \in free : c \in Int \X Int /\ h(c) \in Nat
  BY OctileLaw
<1>5. ASSUME NEW a \in free, NEW b \in free, Joined(a, b, free)
      PROVE  Length(a, b) \in Nat /\ Length(a, b) > 0 /\ h(a) <= Length(a, b) + h(b)
  <2>1. Chebyshev(a, b) = 1
    BY <1>5 DEF Joined
  <2>2. a \in Int \X Int /\ b \in Int \X Int /\ target \in Int \X Int
    OBVIOUS
  <2>3. Length(a, b) \in Nat /\ Length(a, b) >= Straight /\ h(a) <= Length(a, b) + h(b)
    BY <2>1, <2>2, Consistent
  <2> QED  BY <2>3, StepLengths
<1> HIDE DEF h
<1>6. closer \subseteq free
  BY DEF Closer
<1>7. ASSUME NEW v \in closer
      PROVE  /\ v \in free /\ Joined(u, v, free) /\ Length(u, v) \in Nat
             /\ v \in D => s.dist[u] + Length(u, v) < s.dist[v]
             /\ s.dist[u] + h(u) <= s.dist[u] + Length(u, v) + h(v)
  <2>1. v \in free /\ Joined(u, v, free) /\ (v \in D => s.dist[u] + Length(u, v) < s.dist[v])
    BY <1>7 DEF Closer
  <2>2. Length(u, v) \in Nat /\ h(u) <= Length(u, v) + h(v) /\ h(u) \in Nat /\ h(v) \in Nat
    BY <1>3, <1>4, <1>5, <2>1
  <2> QED  BY <1>3, <2>1, <2>2
<1>8. \A c : Promise(s, c, target) = s.dist[c] + h(c)
  BY DEF Promise, h
<1> HIDE DEF closer
<1>9. closer \intersect Closed(s) = {} /\ u \notin closer /\ source \notin closer
  <2>1. ASSUME NEW v \in closer, v \in Closed(s)
        PROVE  FALSE
    <3>1. v \in D /\ s.dist[v] \in Nat /\ h(v) \in Nat /\ h(u) \in Nat
      BY <1>0, <1>3, <1>4, <2>1 DEF Closed
    <3>2. s.dist[v] + h(v) <= s.dist[u] + h(u)
      BY <1>1, <1>8, <2>1 DEF SearchInv, ClosedPromiseLess
    <3>3. s.dist[u] + Length(u, v) < s.dist[v] /\ s.dist[u] + h(u) <= s.dist[u] + Length(u, v) + h(v)
          /\ Length(u, v) \in Nat
      BY <1>7, <3>1
    <3> QED  BY <1>3, <3>1, <3>2, <3>3
  <2>2. u \notin closer
    <3>1. SUFFICES ASSUME u \in closer PROVE FALSE
      OBVIOUS
    <3>2. s.dist[u] + Length(u, u) < s.dist[u] /\ Length(u, u) \in Nat
      BY <1>3, <1>7, <3>1
    <3> QED  BY <1>3, <3>2
  <2>3. source \notin closer
    <3>1. SUFFICES ASSUME source \in closer PROVE FALSE
      OBVIOUS
    <3>2. source \in D /\ s.dist[source] = 0
      BY DEF SearchInv, WaysGoBack
    <3>3. s.dist[u] + Length(u, source) < 0 /\ Length(u, source) \in Nat
      BY <1>7, <3>1, <3>2
    <3> QED  BY <1>3, <3>3
  <2> QED  BY <2>1, <2>2, <2>3
<1>10. /\ dist = [x \in D \union closer |-> IF x \in closer THEN s.dist[u] + Length(u, x) ELSE s.dist[x]]
       /\ from = [x \in D \union closer |-> IF x \in closer THEN u ELSE s.from[x]]
  BY <1>0, UpdatedLaw
<1> HIDE DEF add, back, dist, from
<1>11. dist \in [D \union closer -> Nat] /\ from \in [D \union closer -> free]
  BY <1>0, <1>3, <1>7, <1>10
<1>12. open \subseteq D \union closer /\ D \union closer \subseteq free
  BY <1>0, <1>6
<1>13. r.open = open /\ r.dist = dist /\ r.from = from /\ DOMAIN r.dist = D \union closer
  BY <1>2, <1>11
<1>14. r \in SearchState(free)
  <2> DEFINE E == D \union closer
  <2>1. E \in SUBSET free /\ open \in SUBSET E /\ dist \in [E -> Nat] /\ from \in [E -> free]
    BY <1>11, <1>12
  <2> HIDE DEF E, open, D
  <2>2. [open |-> open, dist |-> dist, from |-> from] \in SearchState(free)
    BY <2>1, StateMade, Zenon
  <2> QED  BY <1>2, <2>2
<1>15. Closed(r) = Closed(s) \union {u} /\ u \notin Closed(s)
  BY <1>1, <1>3, <1>9, <1>13 DEF Closed
<1>16. /\ \A v \in closer : dist[v] = s.dist[u] + Length(u, v) /\ from[v] = u
       /\ \A v \in D : v \notin closer => dist[v] = s.dist[v] /\ from[v] = s.from[v]
  BY <1>10
<1>17. \A v \in Closed(r) : v \in D /\ v \notin closer /\ dist[v] = s.dist[v]
  BY <1>3, <1>9, <1>15, <1>16 DEF Closed
<1>18. WaysGoBack(r, source, free)
  <2>1. source \in D /\ s.dist[source] = 0
    BY DEF SearchInv, WaysGoBack
  <2>2. source \in DOMAIN r.dist /\ r.dist[source] = 0
    BY <1>9, <1>13, <1>16, <2>1
  <2>3. ASSUME NEW v \in (D \union closer) \ {source}
        PROVE  /\ from[v] \in Closed(r) /\ Joined(from[v], v, free)
               /\ dist[v] = dist[from[v]] + Length(from[v], v)
    <3>1. CASE v \in closer
      <4>1. from[v] = u /\ dist[v] = s.dist[u] + Length(u, v) /\ Joined(u, v, free)
        BY <1>7, <1>16, <3>1
      <4>2. u \in Closed(r) /\ dist[u] = s.dist[u]
        BY <1>15, <1>17
      <4> QED  BY <4>1, <4>2
    <3>2. CASE v \notin closer
      <4>1. v \in D \ {source}
        BY <3>2
      <4>2. /\ s.from[v] \in Closed(s) /\ Joined(s.from[v], v, free)
            /\ s.dist[v] = s.dist[s.from[v]] + Length(s.from[v], v)
        BY <4>1 DEF SearchInv, WaysGoBack
      <4>3. from[v] = s.from[v] /\ dist[v] = s.dist[v]
        BY <1>16, <3>2, <4>1
      <4>4. s.from[v] \in Closed(r) /\ dist[s.from[v]] = s.dist[s.from[v]]
        BY <1>15, <1>17, <4>2
      <4> QED  BY <4>2, <4>3, <4>4
    <3> QED  BY <3>1, <3>2
  <2> QED  BY <1>13, <2>2, <2>3 DEF WaysGoBack
<1>19. ClosedAreRelaxed(r, free)
  <2>1. ASSUME NEW w \in Closed(r), NEW v \in free, Joined(w, v, free)
        PROVE  v \in D \union closer /\ dist[v] <= dist[w] + Length(w, v)
    <3>0. w \in D /\ dist[w] = s.dist[w] /\ s.dist[w] \in Nat
      BY <1>0, <1>17
    <3>00. Length(w, v) \in Nat
      BY <1>0, <1>5, <2>1, <3>0
    <3>1. CASE w = u
      <4>1. CASE v \in closer
        BY <1>3, <1>16, <3>0, <3>00, <3>1, <4>1
      <4>2. CASE v \notin closer
        <5>1. v \in D /\ ~(s.dist[u] + Length(u, v) < s.dist[v])
          BY <2>1, <3>1, <4>2 DEF Closer, closer
        <5>2. dist[v] = s.dist[v] /\ s.dist[v] \in Nat
          BY <1>0, <1>16, <4>2, <5>1
        <5> QED  BY <1>3, <3>0, <3>00, <3>1, <5>1, <5>2
      <4> QED  BY <4>1, <4>2
    <3>2. CASE w \in Closed(s)
      <4>1. v \in D /\ s.dist[v] <= s.dist[w] + Length(w, v)
        BY <2>1, <3>2 DEF SearchInv, ClosedAreRelaxed
      <4>2. s.dist[v] \in Nat
        BY <1>0, <4>1
      <4>3. dist[v] = s.dist[v] \/ (dist[v] < s.dist[v] /\ dist[v] \in Nat)
        BY <1>7, <1>11, <1>16, <4>1
      <4> QED  BY <3>0, <3>00, <4>1, <4>2, <4>3
    <3> QED  BY <1>15, <3>1, <3>2
  <2> QED  BY <1>13, <2>1 DEF ClosedAreRelaxed
<1>20. ClosedPromiseLess(r, target)
  <2>1. ASSUME NEW w \in Closed(r), NEW v \in open
        PROVE  dist[w] + h(w) <= dist[v] + h(v)
    <3>0. /\ w \in D /\ dist[w] = s.dist[w] /\ s.dist[w] \in Nat /\ h(w) \in Nat
          /\ v \in free /\ h(v) \in Nat /\ h(u) \in Nat /\ dist[v] \in Nat
      BY <1>0, <1>3, <1>4, <1>11, <1>12, <1>17
    <3>1. s.dist[w] + h(w) <= s.dist[u] + h(u)
      <4>1. CASE w = u
        BY <1>3, <3>0, <4>1
      <4>2. CASE w \in Closed(s)
        BY <1>1, <1>8, <4>2 DEF SearchInv, ClosedPromiseLess
      <4> QED  BY <1>15, <4>1, <4>2
    <3>2. s.dist[u] + h(u) <= dist[v] + h(v)
      <4>1. CASE v \in closer
        BY <1>7, <1>16, <4>1
      <4>2. CASE v \notin closer
        <5>1. v \in s.open /\ v \in D
          BY <1>0, <4>2
        <5>2. s.dist[u] + h(u) <= s.dist[v] + h(v)
          BY <1>1, <1>8, <5>1
        <5> QED  BY <1>16, <4>2, <5>1, <5>2
      <4> QED  BY <4>1, <4>2
    <3> QED  BY <1>3, <3>0, <3>1, <3>2
  <2>2. \A c : Promise(r, c, target) = dist[c] + h(c)
    BY <1>13 DEF Promise, h
  <2> QED  BY <1>13, <2>1, <2>2 DEF ClosedPromiseLess
<1>21. target \notin Closed(r)
  BY <1>15 DEF SearchInv
<1> QED  BY <1>14, <1>15, <1>18, <1>19, <1>20, <1>21 DEF SearchInv

Ended(s, target) == s.open = {} \/ Nearest(s, target) = target

Start(source) == [open |-> {source}, dist |-> [c \in {source} |-> 0], from |-> [c \in {source} |-> c]]

\* A search starts within its invariant.
LEMMA StartLaw ==
  ASSUME NEW free \in SUBSET (Int \X Int), NEW source \in free, NEW target \in free
  PROVE  SearchInv(Start(source), source, target, free) /\ Closed(Start(source)) = {}
<1> DEFINE D == {source}
           s == Start(source)
<1>1. [c \in D |-> 0] \in [D -> Nat] /\ [c \in D |-> c] \in [D -> free] /\ D \in SUBSET D /\ D \in SUBSET free
  OBVIOUS
<1>2. s \in SearchState(free)
  <2> DEFINE d == [c \in D |-> 0]
             f == [c \in D |-> c]
  <2>1. s = [open |-> D, dist |-> d, from |-> f]
    BY DEF Start
  <2> HIDE DEF D, d, f, s
  <2> QED  BY <1>1, <2>1, StateMade DEF d, f
<1>3. s.open = D /\ DOMAIN s.dist = D /\ s.dist[source] = 0
  BY DEF Start
<1> HIDE DEF s
<1>4. Closed(s) = {}
  BY <1>3 DEF Closed
<1> QED  BY <1>2, <1>3, <1>4 DEF SearchInv, WaysGoBack, ClosedAreRelaxed, ClosedPromiseLess, s

\* The search, expansion by expansion.
Searched(h, n, source, target, free) ==
  h = [k \in 0..n |-> IF k = 0 THEN Start(source) ELSE Expand(h[k - 1], target, free)]

\* The search is a function.
LEMMA SearchExists ==
  ASSUME NEW free \in SUBSET (Int \X Int), NEW source \in free, NEW target \in free, NEW n \in Nat
  PROVE  \E h : Searched(h, n, source, target, free)
<1> DEFINE S == {s \in SearchState(free) : SearchInv(s, source, target, free)}
           step == [x \in Nat \X S |-> Expand(x[2], target, free)]
<1>1. Start(source) \in S
  BY StartLaw DEF SearchInv
<1>2. ASSUME NEW s \in S
      PROVE  Expand(s, target, free) \in S
  <2>1. SearchInv(s, source, target, free) /\ s \in SearchState(free)
    OBVIOUS
  <2>2. CASE Ended(s, target)
    <3>1. Expand(s, target, free) = s
      BY <2>2 DEF Expand, Ended
    <3> QED  BY <3>1
  <2>3. CASE ~Ended(s, target)
    <3>1. s.open # {} /\ Nearest(s, target) # target
      BY <2>3 DEF Ended
    <3>2. SearchInv(Expand(s, target, free), source, target, free)
      BY <2>1, <3>1, ExpandLaw
    <3> QED  BY <3>2 DEF SearchInv
  <2> QED  BY <2>2, <2>3
<1> HIDE DEF S
<1>3. step \in [Nat \X S -> S]
  BY <1>2
<1>4. PICK f \in [0..n -> S] : Iterated(f, 0, n, Start(source), step)
  <2> HIDE DEF step
  <2>1. 0 \in Nat /\ 0 <= n
    OBVIOUS
  <2> QED  BY <1>1, <1>3, <2>1, Recursion
<1>5. f[0] = Start(source)
  BY <1>4 DEF Iterated
<1>6. ASSUME NEW k \in 0..n, k # 0
      PROVE  f[k] = Expand(f[k - 1], target, free)
  <2>1. k \in 0 + 1..n /\ k - 1 \in 0..n /\ k \in Nat
    BY <1>6
  <2>2. f[k] = step[<<k, f[k - 1]>>]
    BY <1>4, <2>1 DEF Iterated
  <2>3. f[k - 1] \in S
    BY <1>4, <2>1
  <2> QED  BY <2>1, <2>2, <2>3
<1> QED  BY <1>4, <1>5, <1>6 DEF Searched

\* After as many expansions as there are free cells the search has ended.
LEMMA SearchEnds ==
  ASSUME NEW free \in SUBSET (Int \X Int), IsFiniteSet(free), NEW source \in free, NEW target \in free,
         NEW h, Searched(h, Cardinality(free), source, target, free)
  PROVE  /\ SearchInv(h[Cardinality(free)], source, target, free)
         /\ Ended(h[Cardinality(free)], target)
<1> DEFINE N == Cardinality(free)
           Law(k) == /\ SearchInv(h[k], source, target, free)
                     /\ Ended(h[k], target) \/ Cardinality(Closed(h[k])) = k
           T == {k \in 0..N : Law(k)}
<1>0. N \in Nat
  BY FS_CardinalityType
<1> HIDE DEF N
<1>1. ASSUME NEW k \in 0..N
      PROVE  h[k] = IF k = 0 THEN Start(source) ELSE Expand(h[k - 1], target, free)
  BY DEF Searched, N
<1>2. 0 \in T
  <2>1. h[0] = Start(source) /\ 0 \in 0..N
    BY <1>0, <1>1
  <2>2. Cardinality(Closed(h[0])) = 0
    BY <2>1, StartLaw, FS_EmptySet
  <2> QED  BY <2>1, <2>2, StartLaw
<1>3. ASSUME NEW k \in 0 + 1..N, k - 1 \in T
      PROVE  k \in T
  <2> DEFINE s == h[k - 1]
  <2>1. k \in 0..N /\ k - 1 \in Nat /\ h[k] = Expand(s, target, free)
    BY <1>0, <1>1
  <2>2. SearchInv(s, source, target, free)
    BY <1>3
  <2> HIDE DEF s
  <2>3. CASE Ended(s, target)
    <3>1. h[k] = s
      BY <2>1, <2>3 DEF Expand, Ended
    <3> QED  BY <2>1, <2>2, <2>3, <3>1
  <2>4. CASE ~Ended(s, target)
    <3> DEFINE u == Nearest(s, target)
    <3>1. s.open # {} /\ u # target
      BY <2>4 DEF Ended
    <3> HIDE DEF u
    <3>2. /\ SearchInv(h[k], source, target, free)
          /\ u \notin Closed(s) /\ Closed(h[k]) = Closed(s) \union {u}
      BY <2>1, <2>2, <3>1, ExpandLaw DEF u
    <3>3. IsFiniteSet(Closed(s))
      <4>1. Closed(s) \subseteq free
        BY <2>2, StateTyped DEF SearchInv, Closed
      <4> QED  BY <4>1, FS_Subset
    <3>4. Cardinality(Closed(s)) = k - 1
      BY <1>3, <2>4 DEF s
    <3>5. Cardinality(Closed(h[k])) = k
      <4>1. Cardinality(Closed(s) \union {u}) = Cardinality(Closed(s)) + 1
        BY <3>2, <3>3, FS_AddElement
      <4>2. (k - 1) + 1 = k
        BY <1>0
      <4> QED  BY <3>2, <3>4, <4>1, <4>2
    <3> QED  BY <2>1, <3>2, <3>5
  <2> QED  BY <2>3, <2>4
<1>4. N \in T
  <2> HIDE DEF T
  <2>1. \A k \in 0..N : k \in T
    BY <1>0, <1>2, <1>3, Interval
  <2> QED  BY <1>0, <2>1
<1>5. Law(N)
  BY <1>4
<1>6. Cardinality(Closed(h[N])) # N
  <2>1. Closed(h[N]) \subseteq free /\ target \notin Closed(h[N])
    BY <1>5, StateTyped DEF SearchInv, Closed
  <2>2. Closed(h[N]) # free
    BY <2>1
  <2> QED  BY <2>1, <2>2, FS_Subset DEF N
<1> QED  BY <1>5, <1>6 DEF N

\* One cell put before others.
LEMMA ConsLaw ==
  ASSUME NEW S, NEW x \in S, NEW s \in Seq(S)
  PROVE  /\ <<x>> \o s \in Seq(S) /\ Len(<<x>> \o s) = Len(s) + 1 /\ (<<x>> \o s)[1] = x
         /\ \A i \in 1..Len(s) : (<<x>> \o s)[i + 1] = s[i]
<1>1. <<x>> \in Seq(S) /\ Len(<<x>>) = 1 /\ <<x>>[1] = x
  OBVIOUS
<1>2. Len(s) \in Nat
  BY LenProperties
<1> QED  BY <1>1, <1>2, ConcatProperties

\* Free cells, each joined to the next and as much farther from the source as the step is long.
Leads(cells, s, free) ==
  /\ cells \in Seq(DOMAIN s.dist) /\ cells # <<>>
  /\ \A i \in 1..Len(cells) - 1 :
       /\ Joined(cells[i], cells[i + 1], free)
       /\ s.dist[cells[i + 1]] = s.dist[cells[i]] + Length(cells[i], cells[i + 1])

\* The cells before the cells that lead to the target.
Prepended(cells, s, source) == IF cells[1] = source THEN cells ELSE <<s.from[cells[1]]>> \o cells

Nearer(r, cells, s, free) ==
  /\ Leads(r, s, free) /\ r[Len(r)] = cells[Len(cells)]
  /\ s.dist[cells[1]] \in Nat /\ s.dist[r[1]] \in Nat
  /\ s.dist[cells[1]] >= s.dist[r[1]] + Straight

\* The cell before is nearer to the source, by a straight step at least.
LEMMA PrependedLaw ==
  ASSUME NEW free \in SUBSET (Int \X Int), NEW s \in SearchState(free),
         NEW source, WaysGoBack(s, source, free),
         NEW cells, Leads(cells, s, free), cells[1] # source,
         NEW r, r = Prepended(cells, s, source)
  PROVE  Nearer(r, cells, s, free)
<1> DEFINE D == DOMAIN s.dist
           x == s.from[cells[1]]
           n == Len(cells)
<1>1. /\ s \in SearchState(free) /\ D \subseteq free /\ s.open \subseteq D /\ s.dist \in [D -> Nat]
  BY StateTyped
<1>2. cells \in Seq(D) /\ n \in Nat /\ n >= 1 /\ cells[1] \in D
  <2>1. cells \in Seq(D) /\ cells # <<>>
    BY DEF Leads
  <2>2. n \in Nat /\ n # 0
    BY <2>1, LenProperties, EmptySeq
  <2> QED  BY <2>1, <2>2, ElementOfSeq
<1>3. /\ x \in D /\ Joined(x, cells[1], free)
      /\ s.dist[cells[1]] = s.dist[x] + Length(x, cells[1])
  <2>1. cells[1] \in D \ {source}
    BY <1>2
  <2> QED  BY <2>1 DEF WaysGoBack, Closed
<1>4. Length(x, cells[1]) \in Nat /\ Length(x, cells[1]) >= Straight
  <2>1. x \in Int \X Int /\ cells[1] \in Int \X Int /\ Chebyshev(x, cells[1]) = 1
    BY <1>1, <1>2, <1>3 DEF Joined
  <2> QED  BY <2>1, Consistent
<1>5. r = <<x>> \o cells
  BY DEF Prepended
<1> HIDE DEF x, D
<1>6. /\ r \in Seq(D) /\ Len(r) = n + 1 /\ r[1] = x
      /\ \A i \in 1..n : r[i + 1] = cells[i]
  BY <1>2, <1>3, <1>5, ConsLaw
<1> HIDE DEF n
<1>7. r # <<>>
  BY <1>2, <1>6, EmptySeq
<1>8. ASSUME NEW i \in 1..Len(r) - 1
      PROVE  /\ Joined(r[i], r[i + 1], free)
             /\ s.dist[r[i + 1]] = s.dist[r[i]] + Length(r[i], r[i + 1])
  <2>1. CASE i = 1
    <3>1. 1 \in 1..n
      BY <1>2
    <3>2. r[1] = x /\ r[1 + 1] = cells[1]
      BY <1>6, <3>1
    <3> QED  BY <1>3, <2>1, <3>2
  <2>2. CASE i # 1
    <3>1. i - 1 \in 1..n /\ i \in 1..n /\ (i - 1) + 1 = i /\ i - 1 \in 1..n - 1
      BY <1>2, <1>6, <2>2
    <3>2. r[i] = cells[i - 1] /\ r[i + 1] = cells[i]
      BY <1>6, <3>1
    <3>3. /\ Joined(cells[i - 1], cells[i], free)
          /\ s.dist[cells[i]] = s.dist[cells[i - 1]] + Length(cells[i - 1], cells[i])
      BY <3>1 DEF Leads, n
    <3> QED  BY <3>2, <3>3
  <2> QED  BY <2>1, <2>2
<1>9. Leads(r, s, free)
  BY <1>6, <1>7, <1>8 DEF Leads, D
<1>10. r[Len(r)] = cells[n]
  <2>1. n \in 1..n /\ Len(r) = n + 1
    BY <1>2, <1>6
  <2> QED  BY <1>6, <2>1
<1>11. s.dist[x] \in Nat /\ s.dist[cells[1]] \in Nat
  BY <1>1, <1>2, <1>3
<1>12. s.dist[cells[1]] >= s.dist[x] + Straight
  BY <1>3, <1>4, <1>11, StepLengths
<1> QED  BY <1>6, <1>9, <1>10, <1>11, <1>12 DEF n, Nearer

\* The way back, step by step.
Traced(way, n, s, source, target) ==
  way = [k \in 0..n |-> IF k = 0 THEN <<target>> ELSE Prepended(way[k - 1], s, source)]

\* The way back ends at the source.
LEMMA BackwardsLaw ==
  ASSUME NEW free \in SUBSET (Int \X Int), NEW source \in free, NEW target \in free,
         NEW s, SearchInv(s, source, target, free), target \in DOMAIN s.dist,
         NEW r, r = Backwards(s, source, target)
  PROVE  Leads(r, s, free) /\ r[1] = source /\ r[Len(r)] = target
<1> DEFINE D == DOMAIN s.dist
           n == s.dist[target] \div Straight
           S == {c \in Seq(D) : Leads(c, s, free) /\ c[Len(c)] = target}
           step == [x \in Nat \X S |-> Prepended(x[2], s, source)]
<1>1. s \in SearchState(free) /\ D \subseteq free /\ s.dist \in [D -> Nat] /\ s.dist[target] \in Nat
  BY StateTyped DEF SearchInv
<1>2. n \in Nat
  BY <1>1 DEF Straight
<1>0. WaysGoBack(s, source, free)
  BY DEF SearchInv
<1>3. <<target>> \in S /\ <<target>>[1] = target
  <2> HIDE DEF D
  <2>0. target \in D
    BY DEF D
  <2>1. <<target>> \in Seq(D) /\ Len(<<target>>) = 1 /\ <<target>>[1] = target
    BY <2>0
  <2> QED  BY <2>1, EmptySeq DEF Leads, D
<1>4. ASSUME NEW c \in S
      PROVE  Prepended(c, s, source) \in S
  <2>1. Leads(c, s, free) /\ c[Len(c)] = target
    OBVIOUS
  <2>2. CASE c[1] = source
    BY <2>2 DEF Prepended
  <2>3. CASE c[1] # source
    <3>1. Leads(Prepended(c, s, source), s, free) /\ Prepended(c, s, source)[Len(Prepended(c, s, source))] = target
      <4> HIDE DEF S, D, step
      <4>1. Nearer(Prepended(c, s, source), c, s, free)
        BY <1>0, <1>1, <2>1, <2>3, PrependedLaw
      <4> QED  BY <2>1, <4>1 DEF Nearer
    <3> QED  BY <3>1 DEF Leads
  <2> QED  BY <2>2, <2>3
<1> HIDE DEF n
<1>5. \E way : Traced(way, n, s, source, target)
  <2> HIDE DEF S
  <2>1. step \in [Nat \X S -> S]
    BY <1>4
  <2>2. PICK f \in [0..n -> S] : Iterated(f, 0, n, <<target>>, step)
    <3> HIDE DEF step
    <3>1. 0 \in Nat /\ 0 <= n
      BY <1>2
    <3> QED  BY <1>2, <1>3, <2>1, <3>1, Recursion
  <2>3. f[0] = <<target>>
    BY <2>2 DEF Iterated
  <2>4. ASSUME NEW k \in 0..n, k # 0
        PROVE  f[k] = Prepended(f[k - 1], s, source)
    <3>1. k \in 0 + 1..n /\ k - 1 \in 0..n /\ k \in Nat
      BY <1>2, <2>4
    <3>2. f[k] = step[<<k, f[k - 1]>>]
      BY <2>2, <3>1 DEF Iterated
    <3>3. f[k - 1] \in S
      BY <2>2, <3>1
    <3> QED  BY <3>1, <3>2, <3>3
  <2> QED  BY <2>2, <2>3, <2>4 DEF Traced
<1> DEFINE way == CHOOSE w : Traced(w, n, s, source, target)
<1>6. Traced(way, n, s, source, target)
  BY <1>5, Zenon
<1>7. r = way[n]
  BY Zenon DEF Backwards, Traced, Prepended, n
<1> HIDE DEF way
<1> DEFINE Law(k) == way[k] \in S /\ (way[k][1] = source \/ s.dist[way[k][1]] + k * Straight <= s.dist[target])
           T == {k \in 0..n : Law(k)}
<1>8. ASSUME NEW k \in 0..n
      PROVE  way[k] = IF k = 0 THEN <<target>> ELSE Prepended(way[k - 1], s, source)
  BY <1>6 DEF Traced
<1>9. 0 \in T
  <2>1. way[0] = <<target>> /\ 0 \in 0..n
    BY <1>2, <1>8
  <2>2. s.dist[target] + 0 * Straight <= s.dist[target]
    BY <1>1, StepLengths
  <2> QED  BY <1>3, <2>1, <2>2
<1>10. ASSUME NEW k \in 0 + 1..n, k - 1 \in T
       PROVE  k \in T
  <2> DEFINE c == way[k - 1]
  <2>1. k \in 0..n /\ k # 0 /\ k \in Nat /\ way[k] = Prepended(c, s, source)
    BY <1>2, <1>8
  <2>2. c \in S /\ (c[1] = source \/ s.dist[c[1]] + (k - 1) * Straight <= s.dist[target])
    BY <1>10
  <2> HIDE DEF c
  <2>3. way[k] \in S
    BY <1>4, <2>1, <2>2
  <2>4. CASE c[1] = source
    BY <2>1, <2>3, <2>4 DEF Prepended
  <2>5. CASE c[1] # source
    <3>1. /\ s.dist[c[1]] \in Nat /\ s.dist[way[k][1]] \in Nat
          /\ s.dist[c[1]] >= s.dist[way[k][1]] + Straight
      <4>1. Leads(c, s, free)
        BY <2>2
      <4> HIDE DEF S, D
      <4>2. Nearer(way[k], c, s, free)
        BY <1>0, <1>1, <2>1, <2>5, <4>1, PrependedLaw
      <4> QED  BY <4>2 DEF Nearer
    <3>2. s.dist[way[k][1]] + k * Straight <= s.dist[target]
      <4>1. s.dist[c[1]] + (k - 1) * Straight <= s.dist[target]
        BY <2>2, <2>5
      <4> HIDE DEF S, T, Law, D
      <4>2. \A a, b, d \in Nat : a >= b + Straight /\ a + (k - 1) * Straight <= d => b + k * Straight <= d
        BY <2>1 DEF Straight
      <4> QED  BY <1>1, <3>1, <4>1, <4>2
    <3> QED  BY <2>1, <2>3, <3>2
  <2> QED  BY <2>4, <2>5
<1>11. Law(n)
  <2> HIDE DEF T
  <2>1. \A k \in 0..n : k \in T
    BY <1>2, <1>9, <1>10, Interval
  <2>2. n \in T
    BY <1>2, <2>1
  <2> QED  BY <2>2 DEF T
<1>12. way[n][1] = source
  <2>1. SUFFICES ASSUME way[n][1] # source PROVE FALSE
    OBVIOUS
  <2>2. Leads(way[n], s, free) /\ s.dist[way[n][1]] + n * Straight <= s.dist[target]
    BY <1>11, <2>1
  <2> DEFINE b == Prepended(way[n], s, source)
  <2>3. /\ s.dist[way[n][1]] \in Nat /\ s.dist[b[1]] \in Nat
        /\ s.dist[way[n][1]] >= s.dist[b[1]] + Straight
    <3> HIDE DEF b
    <3>1. b = Prepended(way[n], s, source)
      BY DEF b
    <3>2. Nearer(b, way[n], s, free)
      BY <1>0, <1>1, <2>1, <2>2, <3>1, PrependedLaw
    <3> QED  BY <3>2 DEF Nearer
  <2>4. (n + 1) * Straight > s.dist[target]
    BY <1>1, <1>2 DEF n, Straight
  <2> QED  BY <1>1, <1>2, <2>2, <2>3, <2>4 DEF Straight
<1> QED  BY <1>7, <1>11, <1>12

-----------------------------------------------------------------------------
\* Walks.

\* A walk over the free cells; none passes between two obstacles.
Walk(cells, from, to, free) ==
  /\ cells \in Seq(free) /\ cells # <<>> /\ cells[1] = from /\ cells[Len(cells)] = to
  /\ \A i \in 1..Len(cells) - 1 : Joined(cells[i], cells[i + 1], free)

\* The way up to each of its cells.
Summed(sum, cells) ==
  sum = [i \in 1..Len(cells) |-> IF i = 1 THEN 0 ELSE sum[i - 1] + Length(cells[i - 1], cells[i])]

\* A step over the free cells has a length.
LEMMA JoinedLength ==
  ASSUME NEW free \in SUBSET (Int \X Int), NEW a \in free, NEW b \in free, Joined(a, b, free)
  PROVE  Length(a, b) \in Nat /\ Length(a, b) > 0
<1>1. a \in Int \X Int /\ b \in Int \X Int /\ Chebyshev(a, b) = 1
  BY DEF Joined
<1>2. Length(a, b) \in Nat /\ Length(a, b) >= Straight
  BY <1>1, Consistent
<1> QED  BY <1>2, StepLengths

\* A walk has cells, all of them free.
LEMMA WalkSize ==
  ASSUME NEW free, NEW w, NEW from, NEW to, Walk(w, from, to, free)
  PROVE  /\ Len(w) \in Nat /\ Len(w) >= 1 /\ from \in free /\ to \in free
         /\ \A i \in 1..Len(w) : w[i] \in free
<1>1. Len(w) \in Nat /\ Len(w) # 0
  BY LenProperties, EmptySeq DEF Walk
<1>2. \A i \in 1..Len(w) : w[i] \in free
  BY ElementOfSeq DEF Walk
<1>3. 1 \in 1..Len(w) /\ Len(w) \in 1..Len(w)
  BY <1>1
<1> QED  BY <1>1, <1>2, <1>3 DEF Walk

Adds(sum, w) ==
  /\ sum \in [1..Len(w) -> Nat]
  /\ sum[1] = 0 /\ PathLength(w) = sum[Len(w)]
  /\ \A i \in 2..Len(w) : sum[i] = sum[i - 1] + Length(w[i - 1], w[i])

\* The length of a path is a sum over its steps.
LEMMA PathLengthLaw ==
  ASSUME NEW free \in SUBSET (Int \X Int), NEW from, NEW to, NEW w, Walk(w, from, to, free)
  PROVE  \E sum : Adds(sum, w)
<1> DEFINE n == Len(w)
           step == [x \in Nat \X Nat |-> IF x[1] \in 2..n THEN x[2] + Length(w[x[1] - 1], w[x[1]]) ELSE 0]
<1>0. n \in Nat /\ n >= 1 /\ \A i \in 1..n : w[i] \in free
  BY WalkSize
<1>1. ASSUME NEW i \in 2..n
      PROVE  Length(w[i - 1], w[i]) \in Nat
  <2>1. i - 1 \in 1..n - 1 /\ i - 1 \in 1..n /\ i \in 1..n /\ (i - 1) + 1 = i
    BY <1>0
  <2>2. Joined(w[i - 1], w[i], free)
    BY <2>1 DEF Walk
  <2> QED  BY <1>0, <2>1, <2>2, JoinedLength
<1> HIDE DEF n
<1>2. step \in [Nat \X Nat -> Nat]
  BY <1>1
<1>3. PICK f \in [1..n -> Nat] : Iterated(f, 1, n, 0, step)
  <2> HIDE DEF step
  <2> QED  BY <1>0, <1>2, Recursion
<1>4. f[1] = 0
  BY <1>3 DEF Iterated
<1>5. ASSUME NEW i \in 2..n
      PROVE  f[i] = f[i - 1] + Length(w[i - 1], w[i])
  <2>1. i \in 1 + 1..n /\ i - 1 \in 1..n /\ i \in Nat
    BY <1>0
  <2>2. f[i] = step[<<i, f[i - 1]>>] /\ f[i - 1] \in Nat
    BY <1>3, <2>1 DEF Iterated
  <2> QED  BY <2>1, <2>2
<1>6. Summed(f, w)
  <2>1. \A i \in 1..n : i # 1 => i \in 2..n
    BY <1>0
  <2> QED  BY <1>3, <1>4, <1>5, <2>1 DEF Summed, n
<1> DEFINE sum == CHOOSE g : Summed(g, w)
<1>7. Summed(sum, w)
  BY <1>6, Zenon
<1>8. PathLength(w) = sum[n]
  BY Zenon DEF PathLength, Summed, n
<1> HIDE DEF sum
<1>9. sum = [i \in 1..n |-> IF i = 1 THEN 0 ELSE sum[i - 1] + Length(w[i - 1], w[i])]
  BY <1>7 DEF Summed, n
<1>10. sum[1] = 0
  <2>1. 1 \in 1..n
    BY <1>0
  <2> QED  BY <1>9, <2>1
<1>11. \A i \in 2..n : sum[i] = sum[i - 1] + Length(w[i - 1], w[i])
  <2>1. \A i \in 2..n : i \in 1..n /\ i # 1
    BY <1>0
  <2> QED  BY <1>9, <2>1
<1> DEFINE T == {k \in 1..n : sum[k] \in Nat}
<1>12. \A k \in 1..n : k \in T
  <2>1. 1 \in T
    BY <1>0, <1>10
  <2>2. ASSUME NEW k \in 1 + 1..n, k - 1 \in T
        PROVE  k \in T
    <3>1. k \in 2..n /\ k \in 1..n
      BY <1>0
    <3> QED  BY <1>1, <1>11, <2>2, <3>1
  <2> HIDE DEF T
  <2> QED  BY <1>0, <2>1, <2>2, Interval
<1>13. sum \in [1..n -> Nat]
  BY <1>9, <1>12
<1> QED  BY <1>8, <1>10, <1>11, <1>13 DEF n, Adds

\* A way from the source along which the distances grow is a walk as long as they say.
LEMMA LeadsLaw ==
  ASSUME NEW free \in SUBSET (Int \X Int), NEW s \in SearchState(free),
         NEW source, NEW target, s.dist[source] = 0,
         NEW c, Leads(c, s, free), c[1] = source, c[Len(c)] = target
  PROVE  Walk(c, source, target, free) /\ s.dist[target] = PathLength(c)
<1> DEFINE n == Len(c)
<1>1. DOMAIN s.dist \subseteq free
  BY StateTyped
<1>2. c \in Seq(free)
  BY <1>1 DEF Leads
<1>3. Walk(c, source, target, free)
  BY <1>2 DEF Leads, Walk
<1>0. PICK sum : Adds(sum, c)
  BY <1>3, PathLengthLaw, Zenon
<1>4. /\ sum \in [1..n -> Nat] /\ sum[1] = 0 /\ PathLength(c) = sum[n]
      /\ \A i \in 2..n : sum[i] = sum[i - 1] + Length(c[i - 1], c[i])
  BY <1>0 DEF Adds
<1>5. n \in Nat /\ n >= 1
  BY <1>3, WalkSize
<1> HIDE DEF n
<1> DEFINE T == {k \in 1..n : sum[k] = s.dist[c[k]]}
<1>6. 1 \in T
  BY <1>4, <1>5
<1>7. ASSUME NEW k \in 1 + 1..n, k - 1 \in T
      PROVE  k \in T
  <2>1. k \in 2..n /\ k \in 1..n /\ k - 1 \in 1..n - 1 /\ (k - 1) + 1 = k
    BY <1>5
  <2>2. s.dist[c[k]] = s.dist[c[k - 1]] + Length(c[k - 1], c[k])
    BY <2>1 DEF Leads, n
  <2>3. sum[k] = sum[k - 1] + Length(c[k - 1], c[k])
    BY <1>4, <2>1
  <2> QED  BY <1>7, <2>1, <2>2, <2>3
<1>8. n \in T
  <2> HIDE DEF T
  <2>1. \A k \in 1..n : k \in T
    BY <1>5, <1>6, <1>7, Interval
  <2> QED  BY <1>5, <2>1
<1> QED  BY <1>3, <1>4, <1>8 DEF n

\* The cells of such a way are distinct, so no more than there are.
LEMMA LeadsShort ==
  ASSUME NEW free \in SUBSET (Int \X Int), IsFiniteSet(free), NEW s \in SearchState(free),
         NEW c, Leads(c, s, free)
  PROVE  Len(c) <= Cardinality(free)
<1> DEFINE n == Len(c)
           d(i) == s.dist[c[i]]
<1>1. /\ DOMAIN s.dist \subseteq free /\ s.dist \in [DOMAIN s.dist -> Nat]
      /\ c \in Seq(DOMAIN s.dist)
  BY StateTyped DEF Leads
<1>2. n \in Nat
  BY <1>1, LenProperties
<1>3. \A i \in 1..n : c[i] \in DOMAIN s.dist
  BY <1>1, ElementOfSeq
<1>4. ASSUME NEW i \in 1..n
      PROVE  c[i] \in free /\ d(i) \in Nat
  BY <1>1, <1>3
<1>5. ASSUME NEW k \in 1 + 1..n
      PROVE  d(k - 1) < d(k)
  <2>1. k - 1 \in 1..n - 1 /\ k - 1 \in 1..n /\ k \in 1..n /\ (k - 1) + 1 = k
    BY <1>2
  <2>2. Joined(c[k - 1], c[k], free) /\ d(k) = d(k - 1) + Length(c[k - 1], c[k])
    BY <2>1 DEF Leads
  <2>3. Length(c[k - 1], c[k]) \in Nat /\ Length(c[k - 1], c[k]) > 0
    BY <1>4, <2>1, <2>2, JoinedLength
  <2>4. d(k - 1) \in Nat
    BY <1>4, <2>1
  <2> HIDE DEF d
  <2> QED  BY <2>2, <2>3, <2>4
<1> HIDE DEF d, n
<1> DEFINE T == {k \in 1..n : \A i \in 1..k - 1 : d(i) < d(k)}
<1>6. SUFFICES ASSUME n > Cardinality(free) PROVE FALSE
  <2>1. Cardinality(free) \in Nat
    BY FS_CardinalityType
  <2> QED  BY <1>2, <1>6, <2>1 DEF n
<1>7. \A k \in 1..n : k \in T
  <2>1. 1 \in T
    <3>1. Cardinality(free) \in Nat
      BY FS_CardinalityType
    <3>2. 1 \in 1..n
      BY <1>2, <1>6, <3>1
    <3> QED  BY <3>2
  <2>2. ASSUME NEW k \in 1 + 1..n, k - 1 \in T
        PROVE  k \in T
    <3>1. k \in 1..n /\ k - 1 \in 1..n /\ d(k - 1) < d(k) /\ d(k - 1) \in Nat /\ d(k) \in Nat
      BY <1>2, <1>4, <1>5
    <3>2. ASSUME NEW i \in 1..k - 1
          PROVE  d(i) < d(k)
      <4>1. i \in 1..n /\ d(i) \in Nat /\ (i = k - 1 \/ i \in 1..(k - 1) - 1)
        BY <1>2, <1>4
      <4>2. i \in 1..(k - 1) - 1 => d(i) < d(k - 1)
        BY <2>2
      <4> HIDE DEF T
      <4> QED  BY <3>1, <4>1, <4>2
    <3> QED  BY <3>1, <3>2
  <2> HIDE DEF T
  <2> QED  BY <1>2, <2>1, <2>2, Interval
<1>8. \E x, y \in 1..n : x # y /\ c[x] = c[y]
  <2> DEFINE f == [i \in 1..n |-> c[i]]
  <2>1. f \in [1..n -> free]
    BY <1>4
  <2>2. IsFiniteSet(1..n) /\ Cardinality(1..n) = n
    <3>1. 1 \in Int /\ n \in Int /\ (1 > n => n = 0) /\ n - 1 + 1 = n
      BY <1>2
    <3> QED  BY <3>1, FS_Interval
  <2>3. Cardinality(free) < Cardinality(1..n)
    <3>1. Cardinality(free) \in Nat
      BY FS_CardinalityType
    <3> QED  BY <1>2, <1>6, <2>2, <3>1
  <2> HIDE DEF f
  <2>4. \E x, y \in 1..n : x # y /\ f[x] = f[y]
    BY <2>1, <2>2, <2>3, FS_PigeonHole
  <2> QED  BY <2>4 DEF f
<1>9. PICK x \in 1..n, y \in 1..n : x # y /\ c[x] = c[y]
  BY <1>8
<1>10. d(x) = d(y) /\ d(x) \in Nat
  BY <1>4, <1>9 DEF d
<1>11. x \in 1..y - 1 \/ y \in 1..x - 1
  BY <1>2, <1>9
<1> QED  BY <1>7, <1>10, <1>11

\* When the search has ended no walk is shorter than what it found; if it found none there
\* is no walk.
LEMMA LeastLaw ==
  ASSUME NEW free \in SUBSET (Int \X Int), NEW source \in free, NEW target \in free,
         NEW s, SearchInv(s, source, target, free), Ended(s, target),
         NEW w, Walk(w, source, target, free)
  PROVE  s.open # {} /\ target \in DOMAIN s.dist /\ s.dist[target] <= PathLength(w)
<1> DEFINE n == Len(w)
           h(c) == Octile(c, target)
<1>1. /\ s \in SearchState(free) /\ DOMAIN s.dist \subseteq free /\ s.open \subseteq DOMAIN s.dist
      /\ s.dist \in [DOMAIN s.dist -> Nat]
  BY StateTyped DEF SearchInv
<1>2. /\ source \in DOMAIN s.dist /\ s.dist[source] = 0 /\ target \notin Closed(s)
      /\ ClosedAreRelaxed(s, free)
  BY DEF SearchInv, WaysGoBack
<1>3. \A c \in free : h(c) \in Nat
  BY OctileLaw
<1>4. h(target) = 0
  BY OctileAtTarget
<1> HIDE DEF h
<1>5. ASSUME s.open # {}
      PROVE  /\ target \in DOMAIN s.dist /\ s.dist[target] \in Nat
             /\ \A d \in s.open : s.dist[target] <= s.dist[d] + h(d)
  <2>1. Nearest(s, target) = target
    BY <1>5 DEF Ended
  <2>2. target \in s.open /\ \A d \in s.open : Promise(s, target, target) <= Promise(s, d, target)
    BY <1>1, <1>5, <2>1, NearestLaw
  <2>3. s.dist[target] + h(target) = s.dist[target]
    BY <1>1, <1>4, <2>2
  <2> QED  BY <1>1, <2>2, <2>3 DEF Promise, h
<1>0. PICK sum : Adds(sum, w)
  BY PathLengthLaw, Zenon
<1>6. /\ sum \in [1..n -> Nat] /\ sum[1] = 0 /\ PathLength(w) = sum[n]
      /\ \A i \in 2..n : sum[i] = sum[i - 1] + Length(w[i - 1], w[i])
  BY <1>0 DEF Adds
<1>7. n \in Nat /\ n >= 1 /\ \A i \in 1..n : w[i] \in free
  BY WalkSize
<1>8. ASSUME NEW i \in 1..n - 1
      PROVE  Joined(w[i], w[i + 1], free)
  BY DEF Walk
<1>9. w[1] = source /\ w[n] = target
  BY DEF Walk
<1> HIDE DEF n
<1> DEFINE Settled(k) == w[k] \in Closed(s) /\ s.dist[w[k]] <= sum[k]
           Open(k) == s.open # {} /\ s.dist[target] <= sum[k] + h(w[k])
           T == {k \in 1..n : Settled(k) \/ Open(k)}
\* A cell of the walk that is known by a way no longer.
<1>10. ASSUME NEW k \in 1..n, w[k] \in DOMAIN s.dist, s.dist[w[k]] <= sum[k]
       PROVE  k \in T
  <2>1. CASE w[k] \in Closed(s)
    BY <1>10, <2>1
  <2>2. CASE w[k] \notin Closed(s)
    <3>1. w[k] \in s.open
      BY <1>10, <2>2 DEF Closed
    <3>2. s.open # {} /\ s.dist[target] \in Nat /\ s.dist[target] <= s.dist[w[k]] + h(w[k])
      BY <1>5, <3>1
    <3>3. s.dist[w[k]] \in Nat /\ sum[k] \in Nat /\ h(w[k]) \in Nat
      BY <1>1, <1>3, <1>6, <1>7, <1>10
    <3>4. s.dist[target] <= sum[k] + h(w[k])
      BY <1>10, <3>2, <3>3
    <3> QED  BY <3>2, <3>4
  <2> QED  BY <2>1, <2>2
<1>11. 1 \in T
  <2> HIDE DEF T
  <2> QED  BY <1>2, <1>6, <1>7, <1>9, <1>10
<1>12. ASSUME NEW k \in 1 + 1..n, k - 1 \in T
       PROVE  k \in T
  <2> DEFINE u == w[k - 1]
             v == w[k]
             l == Length(u, v)
  <2>1. k \in 2..n /\ k \in 1..n /\ k - 1 \in 1..n - 1 /\ k - 1 \in 1..n /\ (k - 1) + 1 = k
    BY <1>7
  <2>2. u \in free /\ v \in free /\ Joined(u, v, free) /\ sum[k] = sum[k - 1] + l
    BY <1>6, <1>7, <1>8, <2>1
  <2>3. l \in Nat /\ h(u) <= l + h(v)
    <3>1. u \in Int \X Int /\ v \in Int \X Int /\ Chebyshev(u, v) = 1
      BY <2>2 DEF Joined
    <3> QED  BY <3>1, Consistent DEF h
  <2>4. sum[k - 1] \in Nat /\ sum[k] \in Nat /\ h(u) \in Nat /\ h(v) \in Nat
    BY <1>3, <1>6, <2>1, <2>2
  <2>5. Settled(k - 1) \/ Open(k - 1)
    BY <1>12
  <2>6. CASE Settled(k - 1)
    <3>1. u \in Closed(s) /\ s.dist[u] <= sum[k - 1]
      BY <2>6
    <3>2. v \in DOMAIN s.dist /\ s.dist[v] <= s.dist[u] + l
      BY <1>2, <2>2, <3>1 DEF ClosedAreRelaxed
    <3>3. s.dist[u] \in Nat /\ s.dist[v] \in Nat
      BY <1>1, <3>1, <3>2 DEF Closed
    <3> HIDE DEF u, l, T
    <3>4. s.dist[v] <= sum[k]
      <4>1. \A a, b, c, d, e \in Nat : a <= b + c /\ b <= d /\ e = d + c => a <= e
        OBVIOUS
      <4> QED  BY <2>2, <2>3, <2>4, <3>1, <3>2, <3>3, <4>1
    <3> QED  BY <1>10, <2>1, <3>2, <3>4
  <2>7. CASE Open(k - 1)
    <3>1. s.open # {} /\ s.dist[target] <= sum[k - 1] + h(u)
      BY <2>7
    <3>2. s.dist[target] \in Nat
      BY <1>5, <3>1
    <3> HIDE DEF u, v, l
    <3>3. s.dist[target] <= sum[k] + h(v)
      <4>1. \A a, b, c, d, e, f \in Nat : a <= b + c /\ c <= d + e /\ f = b + d => a <= f + e
        OBVIOUS
      <4> QED  BY <2>2, <2>3, <2>4, <3>1, <3>2, <4>1
    <3>4. Open(k)
      BY <3>1, <3>3 DEF v
    <3> QED  BY <2>1, <3>4
  <2> HIDE DEF T
  <2> QED  BY <2>5, <2>6, <2>7
<1>13. n \in T
  <2> HIDE DEF T
  <2>1. \A k \in 1..n : k \in T
    BY <1>7, <1>11, <1>12, Interval
  <2> QED  BY <1>7, <2>1
<1>14. Open(n)
  BY <1>2, <1>9, <1>13
<1>15. sum[n] + h(w[n]) = sum[n]
  <2>1. sum[n] \in Nat
    BY <1>6, <1>7
  <2> QED  BY <1>4, <1>9, <2>1
<1> QED  BY <1>5, <1>6, <1>14, <1>15

\* A* finds a shortest walk without a cell twice, and none only if there is none.
LEMMA FindPathLaw ==
  ASSUME NEW free \in SUBSET (Int \X Int), IsFiniteSet(free), NEW source, NEW target,
         NEW r, r = FindPath(source, target, free)
  PROVE  /\ r \in Seq(free)
         /\ r # <<>> => Walk(r, source, target, free) /\ Len(r) <= Cardinality(free)
         /\ \A w : Walk(w, source, target, free) => r # <<>> /\ PathLength(r) <= PathLength(w)
<1> DEFINE n == Cardinality(free)
           h == CHOOSE g : Searched(g, n, source, target, free)
           s == h[n]
<1>1. r = IF {source, target} \subseteq free /\ s.open # {} THEN Backwards(s, source, target) ELSE <<>>
  BY Zenon DEF FindPath, Searched, Start
<1>2. CASE ~({source, target} \subseteq free)
  <2>1. r = <<>>
    BY <1>1, <1>2
  <2>2. ASSUME NEW w PROVE ~Walk(w, source, target, free)
    BY <1>2, WalkSize
  <2> QED  BY <2>1, <2>2, EmptySeq
<1>3. CASE {source, target} \subseteq free
  <2>0. source \in free /\ target \in free /\ n \in Nat
    BY <1>3, FS_CardinalityType
  <2>1. Searched(h, n, source, target, free)
    <3>1. \E g : Searched(g, n, source, target, free)
      BY <2>0, SearchExists
    <3> QED  BY <3>1, Zenon
  <2> HIDE DEF h
  <2>2. SearchInv(s, source, target, free) /\ Ended(s, target)
    BY <2>0, <2>1, SearchEnds
  <2> HIDE DEF s
  <2>3. s \in SearchState(free) /\ s.dist[source] = 0
    BY <2>2 DEF SearchInv, WaysGoBack
  <2>4. CASE s.open = {}
    <3>1. r = <<>>
      BY <1>1, <2>4
    <3>2. ASSUME NEW w PROVE ~Walk(w, source, target, free)
      BY <2>0, <2>2, <2>4, LeastLaw
    <3> QED  BY <3>1, <3>2, EmptySeq
  <2>5. CASE s.open # {}
    <3>1. target \in s.open /\ s.open \subseteq DOMAIN s.dist
      BY <2>0, <2>2, <2>3, <2>5, NearestLaw, StateTyped DEF Ended
    <3>2. r = Backwards(s, source, target)
      BY <1>1, <1>3, <2>5
    <3>3. Leads(r, s, free) /\ r[1] = source /\ r[Len(r)] = target
      BY <2>0, <2>2, <3>1, <3>2, BackwardsLaw
    <3>4. Walk(r, source, target, free) /\ s.dist[target] = PathLength(r)
      <4>1. s \in SearchState(free) /\ s.dist[source] = 0
        BY <2>3
      <4>2. Leads(r, s, free) /\ r[1] = source /\ r[Len(r)] = target
        BY <3>3
      <4>3. Walk(r, source, target, free)
        BY <4>1, <4>2, LeadsLaw
      <4>4. s.dist[target] = PathLength(r)
        BY <4>1, <4>2, LeadsLaw
      <4> QED  BY <4>3, <4>4
    <3>5. ASSUME NEW w, Walk(w, source, target, free)
          PROVE  PathLength(r) <= PathLength(w)
      BY <2>0, <2>2, <3>4, <3>5, LeastLaw
    <3>6. Len(r) <= Cardinality(free)
      BY <2>3, <3>3, LeadsShort
    <3> QED  BY <3>4, <3>5, <3>6 DEF Walk
  <2> QED  BY <2>4, <2>5
<1> QED  BY <1>2, <1>3

-----------------------------------------------------------------------------
\* The reference: lengths of walks round by round.

LEMMA MinLaw ==
  ASSUME NEW S \in SUBSET Nat, S # {}
  PROVE  Min(S) \in S /\ \A n \in S : Min(S) <= n
<1>1. \E m \in S : \A n \in S : m <= n
  BY LeastOf
<1> QED  BY <1>1, Zenon DEF Min

\* The neighbours of a cell are around it.
LEMMA ThroughLaw ==
  ASSUME NEW free \in SUBSET (Int \X Int), NEW D \in SUBSET free, NEW dist \in [D -> Nat], NEW c \in free
  PROVE  /\ Through(c, dist, free) = {dist[u] + Length(u, c) : u \in {d \in D : Joined(d, c, free)}}
         /\ Through(c, dist, free) \in SUBSET Nat
<1> DEFINE around == {<<c[1] + i, c[2] + j>> : i \in -1..1, j \in -1..1}
<1>1. ASSUME NEW u \in D, Joined(u, c, free)
      PROVE  u \in around /\ Length(u, c) \in Nat
  <2>1. u \in Int \X Int /\ c \in Int \X Int /\ Chebyshev(u, c) = 1
    BY <1>1 DEF Joined
  <2>2. Abs(u[1] - c[1]) <= 1 /\ Abs(u[2] - c[2]) <= 1
    BY <2>1, NeighboursLaw
  <2>3. u[1] - c[1] \in -1..1 /\ u[2] - c[2] \in -1..1
    BY <2>1, <2>2 DEF Abs
  <2>4. u = <<c[1] + (u[1] - c[1]), c[2] + (u[2] - c[2])>>
    BY <2>1
  <2>5. u \in around
    BY <2>3, <2>4
  <2> HIDE DEF around
  <2> QED  BY <1>1, <2>5, JoinedLength
<1>2. {d \in around \intersect DOMAIN dist : Joined(d, c, free)} = {d \in D : Joined(d, c, free)}
  <2> HIDE DEF around
  <2> QED  BY <1>1
<1>3. Through(c, dist, free) = {dist[u] + Length(u, c) : u \in {d \in around \intersect DOMAIN dist : Joined(d, c, free)}}
  BY DEF Through
<1> HIDE DEF around
<1> QED  BY <1>1, <1>2, <1>3

\* Lengths known for some free cells.
Lengths(free) == UNION {[D -> Nat] : D \in SUBSET free}

\* The parts of a table of lengths.
LEMMA LengthsTyped ==
  ASSUME NEW free, NEW dist \in Lengths(free)
  PROVE  DOMAIN dist \in SUBSET free /\ dist \in [DOMAIN dist -> Nat]
<1>1. PICK D \in SUBSET free : dist \in [D -> Nat]
  BY DEF Lengths
<1> QED  BY <1>1

\* One round keeps or shortens what was known, and is at least as near as one step from it.
LEMMA RelaxedLaw ==
  ASSUME NEW free \in SUBSET (Int \X Int), NEW dist \in Lengths(free), NEW r, r = Relaxed(dist, free)
  PROVE  /\ r \in Lengths(free)
         /\ \A v \in DOMAIN dist : v \in DOMAIN r /\ r[v] <= dist[v]
         /\ \A u \in DOMAIN dist, v \in free :
              Joined(u, v, free) => v \in DOMAIN r /\ r[v] <= dist[u] + Length(u, v)
         /\ \A v \in DOMAIN r :
              \/ v \in DOMAIN dist /\ r[v] = dist[v]
              \/ \E u \in DOMAIN dist : Joined(u, v, free) /\ r[v] = dist[u] + Length(u, v)
<1> DEFINE D == DOMAIN dist
           through == [c \in free |-> Through(c, dist, free)]
           nearer == {c \in free : /\ through[c] # {}
                                   /\ c \in DOMAIN dist => Min(through[c]) < dist[c]}
           new == [c \in nearer |-> Min(through[c])]
<1>1. D \in SUBSET free /\ dist \in [D -> Nat]
  BY LengthsTyped
<1>2. r = Updated(dist, new)
  <2>1. Once([c \in free |-> Through(c, dist, free)]) = through
    BY OnceLaw
  <2> HIDE DEF through
  <2> QED  BY <2>1 DEF Relaxed
<1>3. ASSUME NEW c \in free
      PROVE  /\ through[c] = {dist[u] + Length(u, c) : u \in {d \in D : Joined(d, c, free)}}
             /\ through[c] \in SUBSET Nat
  <2>1. through[c] = Through(c, dist, free)
    OBVIOUS
  <2> HIDE DEF through
  <2> QED  BY <1>1, <2>1, ThroughLaw
<1> HIDE DEF through
<1>4. ASSUME NEW c \in nearer
      PROVE  /\ c \in free /\ new[c] \in Nat /\ new[c] \in through[c]
             /\ \A n \in through[c] : new[c] <= n
             /\ c \in D => new[c] < dist[c]
  <2>1. c \in free /\ through[c] # {} /\ new[c] = Min(through[c]) /\ (c \in D => Min(through[c]) < dist[c])
    OBVIOUS
  <2>2. through[c] \in SUBSET Nat
    BY <1>3, <2>1
  <2> HIDE DEF nearer, new
  <2>3. Min(through[c]) \in through[c] /\ \A n \in through[c] : Min(through[c]) <= n
    BY <2>1, <2>2, MinLaw
  <2> QED  BY <2>1, <2>2, <2>3
<1>5. ASSUME NEW c \in free, c \notin nearer, NEW n \in through[c]
      PROVE  c \in D /\ dist[c] <= n
  <2>1. through[c] \in SUBSET Nat /\ through[c] # {}
    BY <1>3, <1>5
  <2>2. c \in D /\ ~(Min(through[c]) < dist[c])
    BY <1>5, <2>1
  <2>3. Min(through[c]) \in Nat /\ Min(through[c]) <= n /\ n \in Nat
    BY <1>5, <2>1, MinLaw
  <2>4. dist[c] \in Nat
    BY <1>1, <2>2
  <2> QED  BY <2>2, <2>3, <2>4
<1>6. DOMAIN new = nearer /\ nearer \subseteq free
  OBVIOUS
<1> HIDE DEF nearer, new
<1>7. r = [x \in D \union nearer |-> IF x \in nearer THEN new[x] ELSE dist[x]]
  BY <1>2, <1>6, UpdatedLaw
<1>8. DOMAIN r = D \union nearer
  BY <1>7
<1>9. ASSUME NEW v \in DOMAIN r
      PROVE  /\ r[v] \in Nat
             /\ v \in nearer => r[v] = new[v]
             /\ v \notin nearer => v \in D /\ r[v] = dist[v]
  BY <1>1, <1>4, <1>7
<1>10. r \in Lengths(free)
  <2>1. r \in [D \union nearer -> Nat] /\ D \union nearer \in SUBSET free
    BY <1>1, <1>6, <1>7, <1>9
  <2> QED  BY <2>1 DEF Lengths
<1>11. ASSUME NEW v \in D
       PROVE  v \in DOMAIN r /\ r[v] <= dist[v]
  <2>1. v \in DOMAIN r /\ dist[v] \in Nat
    BY <1>1, <1>8
  <2> QED  BY <1>4, <1>9, <2>1
<1>12. ASSUME NEW u \in D, NEW v \in free, Joined(u, v, free)
       PROVE  v \in DOMAIN r /\ r[v] <= dist[u] + Length(u, v)
  <2>1. dist[u] + Length(u, v) \in through[v]
    BY <1>3, <1>12
  <2> DEFINE n == dist[u] + Length(u, v)
  <2> HIDE DEF n
  <2>2. CASE v \in nearer
    <3>1. v \in DOMAIN r /\ new[v] <= n
      BY <1>4, <1>8, <2>1, <2>2 DEF n
    <3> QED  BY <1>9, <2>2, <3>1 DEF n
  <2>3. CASE v \notin nearer
    <3>1. v \in D /\ dist[v] <= n
      BY <1>5, <2>1, <2>3 DEF n
    <3> QED  BY <1>8, <1>9, <2>3, <3>1 DEF n
  <2> QED  BY <2>2, <2>3
<1>13. ASSUME NEW v \in DOMAIN r
       PROVE  \/ v \in D /\ r[v] = dist[v]
              \/ \E u \in D : Joined(u, v, free) /\ r[v] = dist[u] + Length(u, v)
  <2>1. CASE v \in nearer
    <3>1. r[v] \in through[v] /\ v \in free
      BY <1>4, <1>9, <2>1
    <3> QED  BY <1>3, <3>1
  <2>2. CASE v \notin nearer
    BY <1>9, <2>2
  <2> QED  BY <2>1, <2>2
<1> QED  BY <1>10, <1>11, <1>12, <1>13

\* The rounds of Distances.
Rounded(h, n, source, free) ==
  h = [k \in 0..n |-> IF k = 0 THEN [c \in {source} |-> 0] ELSE Relaxed(h[k - 1], free)]

\* The rounds are a function.
LEMMA RoundsExist ==
  ASSUME NEW free \in SUBSET (Int \X Int), NEW source \in free, NEW n \in Nat
  PROVE  \E h : Rounded(h, n, source, free)
<1> DEFINE S == Lengths(free)
           first == [c \in {source} |-> 0]
           step == [x \in Nat \X S |-> Relaxed(x[2], free)]
<1>1. first \in S
  <2>1. {source} \in SUBSET free /\ first \in [{source} -> Nat]
    OBVIOUS
  <2> QED  BY <2>1 DEF Lengths
<1>2. ASSUME NEW d \in S
      PROVE  Relaxed(d, free) \in S
  BY RelaxedLaw
<1> HIDE DEF S, first
<1>3. step \in [Nat \X S -> S]
  BY <1>2
<1>4. PICK f \in [0..n -> S] : Iterated(f, 0, n, first, step)
  <2> HIDE DEF step
  <2>1. 0 \in Nat /\ 0 <= n
    OBVIOUS
  <2> QED  BY <1>1, <1>3, <2>1, Recursion
<1>5. f[0] = first
  BY <1>4 DEF Iterated
<1>6. ASSUME NEW k \in 0..n, k # 0
      PROVE  f[k] = Relaxed(f[k - 1], free)
  <2>1. k \in 0 + 1..n /\ k - 1 \in 0..n /\ k \in Nat
    BY <1>6
  <2>2. f[k] = step[<<k, f[k - 1]>>]
    BY <1>4, <2>1 DEF Iterated
  <2>3. f[k - 1] \in S
    BY <1>4, <2>1
  <2> QED  BY <2>1, <2>2, <2>3
<1>7. f = [k \in 0..n |-> IF k = 0 THEN first ELSE Relaxed(f[k - 1], free)]
  BY <1>4, <1>5, <1>6
<1> QED  BY <1>7, Zenon DEF Rounded, first

Rounds(h, n, source, free) ==
  /\ \A k \in 0..n : h[k] \in Lengths(free)
  /\ h[0] = [c \in {source} |-> 0]
  /\ \A k \in 0 + 1..n : h[k] = Relaxed(h[k - 1], free)

\* Every round is a table of lengths.
LEMMA RoundsTyped ==
  ASSUME NEW free \in SUBSET (Int \X Int), NEW source \in free, NEW n \in Nat,
         NEW h, Rounded(h, n, source, free)
  PROVE  Rounds(h, n, source, free)
<1> DEFINE T == {k \in 0..n : h[k] \in Lengths(free)}
<1>1. h = [k \in 0..n |-> IF k = 0 THEN [c \in {source} |-> 0] ELSE Relaxed(h[k - 1], free)]
  BY DEF Rounded
<1>2. 0 \in 0..n /\ \A k \in 0 + 1..n : k \in 0..n /\ k # 0
  OBVIOUS
<1>3. h[0] = [c \in {source} |-> 0]
  BY <1>1, <1>2
<1>4. \A k \in 0 + 1..n : h[k] = Relaxed(h[k - 1], free)
  BY <1>1, <1>2
<1>5. 0 \in T
  <2>1. {source} \in SUBSET free /\ [c \in {source} |-> 0] \in [{source} -> Nat]
    OBVIOUS
  <2> QED  BY <1>2, <1>3, <2>1 DEF Lengths
<1>6. ASSUME NEW k \in 0 + 1..n, k - 1 \in T
      PROVE  k \in T
  <2>1. h[k - 1] \in Lengths(free)
    BY <1>6
  <2> HIDE DEF T
  <2>2. h[k] \in Lengths(free)
    BY <1>4, <2>1, RelaxedLaw
  <2> QED  BY <1>2, <2>2 DEF T
<1>7. \A k \in 0..n : k \in T
  <2> HIDE DEF T
  <2>1. 0 \in Nat
    OBVIOUS
  <2> QED  BY <1>5, <1>6, <2>1, Interval
<1> QED  BY <1>3, <1>4, <1>7 DEF Rounds

\* A walk and one step more.
LEMMA FartherLaw ==
  ASSUME NEW free \in SUBSET (Int \X Int), NEW source, NEW u, NEW v \in free, Joined(u, v, free),
         NEW w, Walk(w, source, u, free)
  PROVE  /\ Walk(Append(w, v), source, v, free)
         /\ PathLength(w) \in Nat /\ PathLength(Append(w, v)) \in Nat
         /\ PathLength(Append(w, v)) = PathLength(w) + Length(u, v)
<1> DEFINE n == Len(w)
           x == Append(w, v)
<1>1. n \in Nat /\ n >= 1 /\ w \in Seq(free) /\ w[1] = source /\ w[n] = u
  BY WalkSize DEF Walk
<1>2. /\ x \in Seq(free) /\ x # <<>> /\ Len(x) = n + 1 /\ x[n + 1] = v
      /\ \A i \in 1..n : x[i] = w[i]
  BY <1>1, AppendProperties
<1>3. ASSUME NEW i \in 1..n - 1
      PROVE  Joined(w[i], w[i + 1], free)
  BY DEF Walk
<1> HIDE DEF n, x
<1>4. ASSUME NEW i \in 1..Len(x) - 1
      PROVE  Joined(x[i], x[i + 1], free)
  <2>1. CASE i = n
    <3>1. n \in 1..n
      BY <1>1
    <3>2. x[i] = u /\ x[i + 1] = v
      BY <1>1, <1>2, <2>1, <3>1
    <3> QED  BY <3>2
  <2>2. CASE i # n
    <3>1. i \in 1..n - 1 /\ i \in 1..n /\ i + 1 \in 1..n
      BY <1>1, <1>2, <2>2
    <3>2. x[i] = w[i] /\ x[i + 1] = w[i + 1]
      BY <1>2, <3>1
    <3> QED  BY <1>3, <3>1, <3>2
  <2> QED  BY <2>1, <2>2
<1>5. Walk(x, source, v, free)
  <2>1. x[1] = source /\ x[Len(x)] = v
    <3>1. 1 \in 1..n
      BY <1>1
    <3> QED  BY <1>1, <1>2, <3>1
  <2> QED  BY <1>2, <1>4, <2>1 DEF Walk
<1>6. PICK a : Adds(a, w)
  BY PathLengthLaw, Zenon
<1>7. PICK b : Adds(b, x)
  BY <1>5, PathLengthLaw, Zenon
<1>8. /\ a \in [1..n -> Nat] /\ a[1] = 0 /\ PathLength(w) = a[n]
      /\ \A i \in 2..n : a[i] = a[i - 1] + Length(w[i - 1], w[i])
  BY <1>6 DEF Adds, n
<1>9. /\ b \in [1..n + 1 -> Nat] /\ b[1] = 0 /\ PathLength(x) = b[n + 1]
      /\ \A i \in 2..n + 1 : b[i] = b[i - 1] + Length(x[i - 1], x[i])
  BY <1>2, <1>7 DEF Adds
<1> DEFINE T == {k \in 1..n : a[k] = b[k]}
<1>10. 1 \in T
  BY <1>1, <1>8, <1>9
<1>11. ASSUME NEW k \in 1 + 1..n, k - 1 \in T
       PROVE  k \in T
  <2>1. k \in 2..n /\ k \in 2..n + 1 /\ k \in 1..n /\ k - 1 \in 1..n
    BY <1>1
  <2>2. x[k - 1] = w[k - 1] /\ x[k] = w[k] /\ a[k - 1] = b[k - 1]
    BY <1>2, <1>11, <2>1
  <2> HIDE DEF T
  <2>3. a[k] = b[k]
    BY <1>8, <1>9, <2>1, <2>2
  <2> QED  BY <2>1, <2>3 DEF T
<1>12. a[n] = b[n]
  <2> HIDE DEF T
  <2>1. \A k \in 1..n : k \in T
    BY <1>1, <1>10, <1>11, Interval
  <2>2. n \in T
    BY <1>1, <2>1
  <2> QED  BY <2>2 DEF T
<1>13. b[n + 1] = b[n] + Length(u, v)
  <2>1. n + 1 \in 2..n + 1 /\ (n + 1) - 1 = n /\ n \in 1..n
    BY <1>1
  <2>2. x[n] = u
    BY <1>1, <1>2, <2>1
  <2>3. b[n + 1] = b[(n + 1) - 1] + Length(x[(n + 1) - 1], x[n + 1])
    BY <1>9, <2>1
  <2> QED  BY <1>2, <2>1, <2>2, <2>3
<1>14. a[n] \in Nat /\ b[n + 1] \in Nat
  BY <1>1, <1>8, <1>9
<1> QED  BY <1>5, <1>8, <1>9, <1>12, <1>13, <1>14 DEF x

\* Every length is that of a walk.
AreWalks(d, source, free) ==
  \A v \in DOMAIN d : \E w : Walk(w, source, v, free) /\ d[v] = PathLength(w)

\* What a round knows are lengths of walks.
LEMMA RoundsAreWalks ==
  ASSUME NEW free \in SUBSET (Int \X Int), NEW source \in free, NEW n \in Nat,
         NEW h, Rounded(h, n, source, free)
  PROVE  \A k \in 0..n : AreWalks(h[k], source, free)
<1> DEFINE Known(k) == \A v \in DOMAIN h[k] : \E w : Walk(w, source, v, free) /\ h[k][v] = PathLength(w)
           T == {k \in 0..n : Known(k)}
<1>1. /\ \A k \in 0..n : h[k] \in Lengths(free)
      /\ h[0] = [c \in {source} |-> 0]
      /\ \A k \in 0 + 1..n : h[k] = Relaxed(h[k - 1], free)
  <2>1. Rounds(h, n, source, free)
    BY RoundsTyped
  <2> QED  BY <2>1, Zenon DEF Rounds
<1>2. 0 \in T
  <2> DEFINE w == <<source>>
  <2>1. w \in Seq(free) /\ Len(w) = 1 /\ w[1] = source /\ w # <<>>
    BY EmptySeq
  <2> HIDE DEF w
  <2>2. Walk(w, source, source, free)
    BY <2>1 DEF Walk
  <2>3. PICK sum : Adds(sum, w)
    BY <2>2, PathLengthLaw, Zenon
  <2>4. PathLength(w) = 0
    BY <2>1, <2>3 DEF Adds
  <2>5. DOMAIN h[0] = {source} /\ h[0][source] = 0
    BY <1>1
  <2>6. Known(0)
    BY <2>2, <2>4, <2>5
  <2> QED  BY <2>6
<1>3. ASSUME NEW k \in 0 + 1..n, k - 1 \in T
      PROVE  k \in T
  <2> DEFINE d == h[k - 1]
             r == h[k]
  <2>1. k \in 0..n /\ k - 1 \in 0..n
    OBVIOUS
  <2>2. d \in Lengths(free) /\ r = Relaxed(d, free)
    BY <1>1, <2>1
  <2>3. \A u \in DOMAIN d : \E w : Walk(w, source, u, free) /\ d[u] = PathLength(w)
    BY <1>3
  <2> HIDE DEF d, r
  <2>4. ASSUME NEW v \in DOMAIN r
        PROVE  \E w : Walk(w, source, v, free) /\ r[v] = PathLength(w)
    <3>0. v \in free
      <4>1. r \in Lengths(free)
        BY <2>2, RelaxedLaw
      <4> QED  BY <4>1, LengthsTyped
    <3>1. CASE v \in DOMAIN d /\ r[v] = d[v]
      BY <2>3, <3>1, Zenon
    <3>2. CASE \E u \in DOMAIN d : Joined(u, v, free) /\ r[v] = d[u] + Length(u, v)
      <4>1. PICK u \in DOMAIN d : Joined(u, v, free) /\ r[v] = d[u] + Length(u, v)
        BY <3>2
      <4>2. PICK w : Walk(w, source, u, free) /\ d[u] = PathLength(w)
        BY <2>3
      <4>3. Walk(Append(w, v), source, v, free) /\ PathLength(Append(w, v)) = PathLength(w) + Length(u, v)
        BY <3>0, <4>1, <4>2, FartherLaw
      <4>4. r[v] = PathLength(Append(w, v))
        BY <4>1, <4>2, <4>3
      <4> QED  BY <4>3, <4>4, Zenon
    <3>3. \/ v \in DOMAIN d /\ r[v] = d[v]
          \/ \E u \in DOMAIN d : Joined(u, v, free) /\ r[v] = d[u] + Length(u, v)
      BY <2>2, RelaxedLaw
    <3> QED  BY <3>1, <3>2, <3>3
  <2>5. Known(k)
    BY <2>4 DEF r
  <2> QED  BY <2>1, <2>5
<1>4. \A k \in 0..n : k \in T
  <2> HIDE DEF T
  <2>1. 0 \in Nat
    OBVIOUS
  <2> QED  BY <1>2, <1>3, <2>1, Interval
<1> QED  BY <1>4, Zenon DEF AreWalks

\* After as many rounds as there are free cells no walk is shorter.
LEMMA RoundsAreLeast ==
  ASSUME NEW free \in SUBSET (Int \X Int), IsFiniteSet(free), NEW source \in free,
         NEW h, Rounded(h, Cardinality(free), source, free),
         NEW v, NEW w, Walk(w, source, v, free)
  PROVE  LET d == h[Cardinality(free)] IN v \in DOMAIN d /\ d[v] <= PathLength(w)
<1> DEFINE N == Cardinality(free)
           r == FindPath(source, v, free)
           n == Len(r)
<1>0. N \in Nat
  BY FS_CardinalityType
<1>1. /\ Walk(r, source, v, free) /\ n <= N /\ PathLength(r) <= PathLength(w)
  BY FindPathLaw
<1>2. /\ \A k \in 0..N : h[k] \in Lengths(free)
      /\ h[0] = [c \in {source} |-> 0]
      /\ \A k \in 0 + 1..N : h[k] = Relaxed(h[k - 1], free)
  <2>1. Rounds(h, N, source, free)
    BY <1>0, RoundsTyped
  <2> QED  BY <2>1, Zenon DEF Rounds
<1> HIDE DEF r
<1>3. n \in Nat /\ n >= 1 /\ r[1] = source /\ r[n] = v /\ \A i \in 1..n : r[i] \in free
  BY <1>1, WalkSize DEF Walk
<1>4. ASSUME NEW i \in 1..n - 1
      PROVE  Joined(r[i], r[i + 1], free)
  BY <1>1 DEF Walk
<1>5. PICK sum : Adds(sum, r)
  BY <1>1, PathLengthLaw, Zenon
<1>6. /\ sum \in [1..n -> Nat] /\ sum[1] = 0 /\ PathLength(r) = sum[n]
      /\ \A i \in 2..n : sum[i] = sum[i - 1] + Length(r[i - 1], r[i])
  BY <1>5 DEF Adds
<1>7. PICK g : Adds(g, w)
  BY PathLengthLaw, Zenon
<1>8. PathLength(w) \in Nat
  <2>1. Len(w) \in Nat /\ Len(w) >= 1
    BY WalkSize
  <2> QED  BY <1>7, <2>1 DEF Adds
<1> HIDE DEF n, N
<1>9. ASSUME NEW k \in 0..N
      PROVE  \A c \in DOMAIN h[k] : h[k][c] \in Nat
  BY <1>2, LengthsTyped
<1> DEFINE Near(k) == r[k] \in DOMAIN h[k - 1] /\ h[k - 1][r[k]] <= sum[k]
           T == {k \in 1..n : Near(k)}
<1>10. 1 \in T
  <2>1. 1 \in 1..n /\ 1 - 1 = 0
    BY <1>3
  <2>2. r[1] \in DOMAIN h[0] /\ h[0][r[1]] <= sum[1]
    BY <1>2, <1>3, <1>6
  <2> QED  BY <2>1, <2>2
<1>11. ASSUME NEW k \in 1 + 1..n, k - 1 \in T
       PROVE  k \in T
  <2> DEFINE a == h[(k - 1) - 1]
             b == h[k - 1]
             l == Length(r[k - 1], r[k])
  <2>1. /\ k \in 2..n /\ k \in 1..n /\ k - 1 \in 1..n - 1 /\ k - 1 \in 1..n /\ (k - 1) + 1 = k
        /\ k - 1 \in 0 + 1..N /\ k - 1 \in 0..N /\ (k - 1) - 1 \in 0..N
    BY <1>0, <1>1, <1>3
  <2>2. r[k - 1] \in DOMAIN a /\ a[r[k - 1]] <= sum[k - 1]
    BY <1>11
  <2>3. b = Relaxed(a, free) /\ a \in Lengths(free)
    BY <1>2, <2>1
  <2>4. Joined(r[k - 1], r[k], free) /\ r[k] \in free /\ r[k - 1] \in free
    BY <1>3, <1>4, <2>1
  <2>5. sum[k] = sum[k - 1] + l /\ l \in Nat
    BY <1>6, <2>1, <2>4, JoinedLength
  <2>6. sum[k - 1] \in Nat /\ a[r[k - 1]] \in Nat
    BY <1>6, <1>9, <2>1, <2>2
  <2> HIDE DEF a, b
  <2>7. r[k] \in DOMAIN b /\ b[r[k]] <= a[r[k - 1]] + l
    BY <2>2, <2>3, <2>4, RelaxedLaw
  <2>8. b[r[k]] \in Nat
    BY <1>9, <2>1, <2>7 DEF b
  <2> HIDE DEF l
  <2>9. b[r[k]] <= sum[k]
    <3>1. \A p, q, t, u, x \in Nat : p <= q + t /\ q <= u /\ x = u + t => p <= x
      OBVIOUS
    <3> QED  BY <2>2, <2>5, <2>6, <2>7, <2>8, <3>1
  <2>10. Near(k)
    BY <2>7, <2>9 DEF b
  <2> QED  BY <2>1, <2>10
<1>12. Near(n)
  <2> HIDE DEF T
  <2>1. \A k \in 1..n : k \in T
    BY <1>3, <1>10, <1>11, Interval
  <2>2. n \in T
    BY <1>3, <2>1
  <2> QED  BY <2>2 DEF T
<1> DEFINE U == {k \in n - 1..N : v \in DOMAIN h[k] /\ h[k][v] <= sum[n]}
<1>13. n - 1 \in U
  BY <1>0, <1>1, <1>3, <1>12 DEF n
<1>14. ASSUME NEW k \in (n - 1) + 1..N, k - 1 \in U
       PROVE  k \in U
  <2> DEFINE a == h[k - 1]
             b == h[k]
  <2>1. k \in n - 1..N /\ k \in 0 + 1..N /\ k \in 0..N /\ k - 1 \in 0..N /\ n \in 1..n
    BY <1>0, <1>3
  <2>2. v \in DOMAIN a /\ a[v] <= sum[n]
    BY <1>14
  <2>3. b = Relaxed(a, free) /\ a \in Lengths(free)
    BY <1>2, <2>1
  <2> HIDE DEF a, b
  <2>4. v \in DOMAIN b /\ b[v] <= a[v]
    BY <2>2, <2>3, RelaxedLaw
  <2>5. a[v] \in Nat /\ b[v] \in Nat /\ sum[n] \in Nat
    BY <1>6, <1>9, <2>1, <2>2, <2>4 DEF a, b
  <2>6. b[v] <= sum[n]
    BY <2>2, <2>4, <2>5
  <2> QED  BY <2>1, <2>4, <2>6 DEF b
<1>15. N \in U
  <2> HIDE DEF U
  <2>1. n - 1 \in Nat /\ N \in n - 1..N
    BY <1>0, <1>1, <1>3 DEF n
  <2>2. \A k \in n - 1..N : k \in U
    BY <1>0, <1>13, <1>14, <2>1, Interval
  <2> QED  BY <2>1, <2>2
<1>16. v \in DOMAIN h[N] /\ h[N][v] <= PathLength(r)
  BY <1>6, <1>15
<1>17. N \in 0..N
  BY <1>0
<1>18. h[N][v] \in Nat
  BY <1>9, <1>16, <1>17
<1>19. PathLength(r) \in Nat
  BY <1>3, <1>6
<1>20. PathLength(r) <= PathLength(w)
  BY <1>1
<1>21. h[N][v] <= PathLength(w)
  <2>1. \A p, q, t \in Nat : p <= q /\ q <= t => p <= t
    OBVIOUS
  <2> QED  BY <1>8, <1>16, <1>18, <1>19, <1>20, <2>1
<1> QED  BY <1>16, <1>21 DEF N

\* The lengths are those of shortest walks, to every cell that a walk reaches.
LEMMA DistancesLaw ==
  ASSUME NEW free \in SUBSET (Int \X Int), IsFiniteSet(free), NEW source \in free,
         NEW d, d = Distances(source, free)
  PROVE  /\ \A v \in DOMAIN d : \E w : Walk(w, source, v, free) /\ d[v] = PathLength(w)
         /\ \A v, w : Walk(w, source, v, free) => v \in DOMAIN d /\ d[v] <= PathLength(w)
<1> DEFINE n == Cardinality(free)
           h == CHOOSE g : Rounded(g, n, source, free)
<1>1. d = h[n]
  BY Zenon DEF Distances, Rounded
<1>2. n \in Nat
  BY FS_CardinalityType
<1>3. Rounded(h, n, source, free)
  <2>1. \E g : Rounded(g, n, source, free)
    BY <1>2, RoundsExist
  <2> QED  BY <2>1, Zenon
<1> HIDE DEF h
<1>4. ASSUME NEW v \in DOMAIN d
      PROVE  \E w : Walk(w, source, v, free) /\ d[v] = PathLength(w)
  <2>1. n \in 0..n
    BY <1>2
  <2>2. AreWalks(h[n], source, free)
    BY <1>2, <1>3, <2>1, RoundsAreWalks
  <2> QED  BY <1>1, <2>2, Zenon DEF AreWalks
<1>5. ASSUME NEW v, NEW w, Walk(w, source, v, free)
      PROVE  v \in DOMAIN d /\ d[v] <= PathLength(w)
  BY <1>1, <1>3, <1>5, RoundsAreLeast
<1> QED  BY <1>4, <1>5

-----------------------------------------------------------------------------
\* The nearest free cell.

\* The distance of rings around a point.
LEMMA ChebyshevLaw ==
  ASSUME NEW a \in Int \X Int, NEW b \in Int \X Int
  PROVE  /\ Chebyshev(a, b) \in Nat
         /\ \A m \in Nat : Chebyshev(a, b) <= m <=> a[1] - b[1] \in -m..m /\ a[2] - b[2] \in -m..m
<1> DEFINE x == Abs(a[1] - b[1])
           y == Abs(a[2] - b[2])
<1>1. /\ Chebyshev(a, b) \in Nat /\ Chebyshev(a, b) >= x /\ Chebyshev(a, b) >= y
      /\ Chebyshev(a, b) = x \/ Chebyshev(a, b) = y
  BY NeighboursLaw
<1>2. x \in Nat /\ y \in Nat
  BY AbsLaw
<1>3. ASSUME NEW m \in Nat
      PROVE  /\ x <= m <=> a[1] - b[1] \in -m..m
             /\ y <= m <=> a[2] - b[2] \in -m..m
  BY DEF Abs
<1>4. ASSUME NEW m \in Nat
      PROVE  Chebyshev(a, b) <= m <=> x <= m /\ y <= m
  <2> HIDE DEF x, y
  <2> DEFINE z == Chebyshev(a, b)
  <2> HIDE DEF z
  <2> QED  BY <1>1, <1>2 DEF z
<1> QED  BY <1>1, <1>3, <1>4

\* Neighbours lie in rings one apart, or the same; every ring is reached from the one inside.
LEMMA RingsLaw ==
  ASSUME NEW p \in Int \X Int, NEW a \in Int \X Int
  PROVE  /\ \A b \in Int \X Int : Chebyshev(a, b) = 1 => Chebyshev(b, p) <= Chebyshev(a, p) + 1
         /\ Chebyshev(a, p) # 0 =>
              \E b \in Int \X Int : Chebyshev(b, a) = 1 /\ Chebyshev(b, p) < Chebyshev(a, p)
<1> DEFINE m == Chebyshev(a, p)
<1>1. m \in Nat /\ a[1] - p[1] \in -m..m /\ a[2] - p[2] \in -m..m
  <2>1. m \in Nat /\ (m <= m <=> a[1] - p[1] \in -m..m /\ a[2] - p[2] \in -m..m)
    BY ChebyshevLaw
  <2> QED  BY <2>1
<1>2. \A k \in Nat : m <= k <=> a[1] - p[1] \in -k..k /\ a[2] - p[2] \in -k..k
  BY ChebyshevLaw
<1> HIDE DEF m
<1>3. ASSUME NEW b \in Int \X Int, Chebyshev(a, b) = 1
      PROVE  Chebyshev(b, p) <= m + 1
  <2>1. a[1] - b[1] \in -1..1 /\ a[2] - b[2] \in -1..1
    <3>1. 1 \in Nat /\ Chebyshev(a, b) <= 1
      BY <1>3
    <3> QED  BY <3>1, ChebyshevLaw
  <2>2. b[1] - p[1] \in -(m + 1)..m + 1 /\ b[2] - p[2] \in -(m + 1)..m + 1
    BY <1>1, <2>1
  <2>3. m + 1 \in Nat
    BY <1>1
  <2> QED  BY <2>2, <2>3, ChebyshevLaw
<1>4. ASSUME m # 0
      PROVE  \E b \in Int \X Int : Chebyshev(b, a) = 1 /\ Chebyshev(b, p) < m
  <2> DEFINE x == a[1] - p[1]
             y == a[2] - p[2]
             i == IF x > 0 THEN -1 ELSE IF x < 0 THEN 1 ELSE 0
             j == IF y > 0 THEN -1 ELSE IF y < 0 THEN 1 ELSE 0
             b == <<a[1] + i, a[2] + j>>
  <2>1. b \in Int \X Int /\ m - 1 \in Nat
    BY <1>1, <1>4
  <2>2. b[1] - a[1] = i /\ b[2] - a[2] = j /\ b[1] - p[1] = x + i /\ b[2] - p[2] = y + j
    OBVIOUS
  <2>3. x # 0 \/ y # 0
    <3>1. SUFFICES ASSUME x = 0, y = 0 PROVE FALSE
      OBVIOUS
    <3>2. 0 \in Nat /\ a[1] - p[1] \in -0..0 /\ a[2] - p[2] \in -0..0
      BY <3>1
    <3>3. m <= 0
      BY <1>2, <3>2
    <3> QED  BY <1>1, <1>4, <3>3
  <2>4. Chebyshev(b, a) <= 1 /\ ~(Chebyshev(b, a) <= 0)
    <3>1. i \in -1..1 /\ j \in -1..1 /\ ~(i \in -0..0 /\ j \in -0..0)
      BY <2>3
    <3> HIDE DEF b, i, j, x, y
    <3>2. b[1] - a[1] \in -1..1 /\ b[2] - a[2] \in -1..1
          /\ ~(b[1] - a[1] \in -0..0 /\ b[2] - a[2] \in -0..0)
      BY <2>2, <3>1
    <3>3. 0 \in Nat /\ 1 \in Nat
      OBVIOUS
    <3> QED  BY <2>1, <3>2, <3>3, ChebyshevLaw
  <2>5. x + i \in -(m - 1)..m - 1 /\ y + j \in -(m - 1)..m - 1
    BY <1>1, <1>4
  <2> HIDE DEF b, i, j, x, y
  <2>6. Chebyshev(b, p) <= m - 1
    <3>1. b[1] - p[1] \in -(m - 1)..m - 1 /\ b[2] - p[2] \in -(m - 1)..m - 1
      BY <2>2, <2>5
    <3> QED  BY <2>1, <3>1, ChebyshevLaw
  <2>7. Chebyshev(b, a) \in Nat /\ Chebyshev(b, p) \in Nat
    BY <2>1, ChebyshevLaw
  <2>8. Chebyshev(b, a) = 1 /\ Chebyshev(b, p) < m
    BY <1>1, <2>4, <2>6, <2>7
  <2> QED  BY <2>1, <2>8
<1> QED  BY <1>3, <1>4 DEF m

\* The eight cells around one.
Encircles(reached, cell) ==
  /\ reached \in [1..8 -> Int \X Int]
  /\ \A i, j \in 1..8 : reached[i] = reached[j] => i = j
  /\ \A c \in Int \X Int : (\E i \in 1..8 : reached[i] = c) <=> Chebyshev(c, cell) = 1

\* The eight offsets.
LEMMA Offsets ==
  /\ Len(Around) = 8 /\ DOMAIN Around = 1..8
  /\ \A i \in 1..8 : /\ Around[i][1] \in {-1, 0, 1} /\ Around[i][2] \in {-1, 0, 1}
                     /\ ~(Around[i][1] = 0 /\ Around[i][2] = 0)
  /\ \A i, j \in 1..8 : Around[i][1] = Around[j][1] /\ Around[i][2] = Around[j][2] => i = j
  /\ \A x, y \in {-1, 0, 1} :
       ~(x = 0 /\ y = 0) => \E i \in 1..8 : Around[i][1] = x /\ Around[i][2] = y
<1>1. /\ Len(Around) = 8 /\ DOMAIN Around = 1..8
      /\ Around[1] = <<-1, 0>> /\ Around[2] = <<1, 0>> /\ Around[3] = <<0, -1>> /\ Around[4] = <<0, 1>>
      /\ Around[5] = <<-1, -1>> /\ Around[6] = <<-1, 1>> /\ Around[7] = <<1, -1>> /\ Around[8] = <<1, 1>>
  BY DEF Around
<1>2. \A i \in 1..8 : i = 1 \/ i = 2 \/ i = 3 \/ i = 4 \/ i = 5 \/ i = 6 \/ i = 7 \/ i = 8
  OBVIOUS
<1>3. ASSUME NEW i \in 1..8
      PROVE  /\ Around[i][1] \in {-1, 0, 1} /\ Around[i][2] \in {-1, 0, 1}
             /\ ~(Around[i][1] = 0 /\ Around[i][2] = 0)
  BY <1>1, <1>2
<1>4. ASSUME NEW i \in 1..8, NEW j \in 1..8,
             Around[i][1] = Around[j][1] /\ Around[i][2] = Around[j][2]
      PROVE  i = j
  BY <1>1, <1>2, <1>4
<1>5. ASSUME NEW x \in {-1, 0, 1}, NEW y \in {-1, 0, 1}, ~(x = 0 /\ y = 0)
      PROVE  \E i \in 1..8 : Around[i][1] = x /\ Around[i][2] = y
  BY <1>1, <1>5
<1> QED  BY <1>1, <1>3, <1>4, <1>5

\* Around a cell are the eight at distance one.
LEMMA AroundLaw ==
  ASSUME NEW cell \in Int \X Int,
         NEW reached, reached = [i \in DOMAIN Around |-> <<cell[1] + Around[i][1], cell[2] + Around[i][2]>>]
  PROVE  Encircles(reached, cell) /\ Len(Around) = 8
<1>1. Len(Around) = 8 /\ DOMAIN Around = 1..8
  BY Offsets
<1>2. ASSUME NEW i \in 1..8
      PROVE  reached[i] = <<cell[1] + Around[i][1], cell[2] + Around[i][2]>>
  BY <1>1
<1>3. DOMAIN reached = 1..8
  BY <1>1
<1>4. ASSUME NEW i \in 1..8
      PROVE  /\ Around[i][1] \in {-1, 0, 1} /\ Around[i][2] \in {-1, 0, 1}
             /\ ~(Around[i][1] = 0 /\ Around[i][2] = 0)
  BY Offsets
<1>5. cell[1] \in Int /\ cell[2] \in Int
  OBVIOUS
<1>6. reached \in [1..8 -> Int \X Int]
  <2>1. ASSUME NEW i \in 1..8
        PROVE  reached[i] \in Int \X Int
    <3> DEFINE x == cell[1] + Around[i][1]
               y == cell[2] + Around[i][2]
    <3>1. x \in Int /\ y \in Int
      BY <1>4, <1>5
    <3>2. reached[i] = <<x, y>>
      BY <1>2
    <3> HIDE DEF x, y
    <3> QED  BY <3>1, <3>2
  <2> QED  BY <1>3, <2>1
<1>7. ASSUME NEW i \in 1..8, NEW j \in 1..8, reached[i] = reached[j]
      PROVE  i = j
  <2>1. /\ cell[1] + Around[i][1] = cell[1] + Around[j][1]
        /\ cell[2] + Around[i][2] = cell[2] + Around[j][2]
    <3> DEFINE x(m) == cell[1] + Around[m][1]
               y(m) == cell[2] + Around[m][2]
    <3>1. reached[i] = <<x(i), y(i)>> /\ reached[j] = <<x(j), y(j)>>
      BY <1>2
    <3> HIDE DEF x, y
    <3>2. x(i) = x(j) /\ y(i) = y(j)
      BY <1>7, <3>1
    <3> QED  BY <3>2 DEF x, y
  <2>2. Around[i][1] = Around[j][1] /\ Around[i][2] = Around[j][2]
    BY <1>4, <1>5, <2>1
  <2> QED  BY <2>2, Offsets
<1>8. ASSUME NEW c \in Int \X Int
      PROVE  (\E i \in 1..8 : reached[i] = c) <=> Chebyshev(c, cell) = 1
  <2>1. /\ Chebyshev(c, cell) \in Nat
        /\ Chebyshev(c, cell) <= 1 <=> c[1] - cell[1] \in -1..1 /\ c[2] - cell[2] \in -1..1
        /\ Chebyshev(c, cell) <= 0 <=> c[1] - cell[1] \in -0..0 /\ c[2] - cell[2] \in -0..0
    <3>1. 0 \in Nat /\ 1 \in Nat
      OBVIOUS
    <3> QED  BY <3>1, ChebyshevLaw
  <2>2. Chebyshev(c, cell) = 1 <=> /\ c[1] - cell[1] \in -1..1 /\ c[2] - cell[2] \in -1..1
                                   /\ ~(c[1] = cell[1] /\ c[2] = cell[2])
    <3> DEFINE z == Chebyshev(c, cell)
    <3> HIDE DEF z
    <3> QED  BY <1>5, <2>1 DEF z
  <2>3. c = <<c[1], c[2]>> /\ c[1] \in Int /\ c[2] \in Int
    OBVIOUS
  <2>4. ASSUME NEW i \in 1..8, reached[i] = c
        PROVE  Chebyshev(c, cell) = 1
    <3>1. c[1] = cell[1] + Around[i][1] /\ c[2] = cell[2] + Around[i][2]
      BY <1>2, <2>4
    <3> QED  BY <1>4, <1>5, <2>2, <3>1
  <2>5. ASSUME Chebyshev(c, cell) = 1
        PROVE  \E i \in 1..8 : reached[i] = c
    <3>1. c[1] - cell[1] \in {-1, 0, 1} /\ c[2] - cell[2] \in {-1, 0, 1}
          /\ ~(c[1] - cell[1] = 0 /\ c[2] - cell[2] = 0)
      BY <1>5, <2>2, <2>3, <2>5
    <3>2. c[1] = cell[1] + (c[1] - cell[1]) /\ c[2] = cell[2] + (c[2] - cell[2])
      BY <1>5, <2>3
    <3>3. PICK x \in {-1, 0, 1}, y \in {-1, 0, 1} :
            ~(x = 0 /\ y = 0) /\ c = <<cell[1] + x, cell[2] + y>>
      BY <2>3, <3>1, <3>2
    <3>4. PICK i \in 1..8 : Around[i][1] = x /\ Around[i][2] = y
      BY <3>3, Offsets
    <3> QED  BY <1>2, <3>3, <3>4
  <2> QED  BY <2>4, <2>5
<1> QED  BY <1>1, <1>6, <1>7, <1>8 DEF Encircles

Elems(s) == {s[i] : i \in 1..Len(s)}

Distinct(s) == \A i, j \in 1..Len(s) : s[i] = s[j] => i = j

\* Distinct sequences one after the other.
LEMMA JoinedOnce ==
  ASSUME NEW S, NEW s \in Seq(S), NEW t \in Seq(S)
  PROVE  /\ s \o t \in Seq(S) /\ Elems(s \o t) = Elems(s) \union Elems(t)
         /\ Distinct(s) /\ Distinct(t) /\ Elems(s) \intersect Elems(t) = {} => Distinct(s \o t)
<1> DEFINE r == s \o t
           m == Len(s)
           n == Len(t)
<1>1. /\ r \in Seq(S) /\ Len(r) = m + n /\ m \in Nat /\ n \in Nat
      /\ \A i \in 1..m : r[i] = s[i]
      /\ \A i \in 1..n : r[m + i] = t[i]
  <2>1. /\ Len(r) = m + n /\ m \in Nat /\ n \in Nat
        /\ \A i \in 1..m + n : r[i] = IF i <= m THEN s[i] ELSE t[i - m]
    BY ConcatProperties, LenProperties
  <2>2. r \in Seq(S)
    BY ConcatProperties
  <2> HIDE DEF r, m, n
  <2>3. ASSUME NEW i \in 1..m PROVE r[i] = s[i]
    <3>1. i \in 1..m + n /\ i <= m
      BY <2>1
    <3> QED  BY <2>1, <3>1
  <2>4. ASSUME NEW i \in 1..n PROVE r[m + i] = t[i]
    <3>1. m + i \in 1..m + n /\ ~(m + i <= m) /\ (m + i) - m = i
      BY <2>1
    <3> QED  BY <2>1, <3>1
  <2> QED  BY <2>1, <2>2, <2>3, <2>4
<1>2. \A i \in 1..m + n : i \in 1..m \/ (i - m \in 1..n /\ m + (i - m) = i)
  BY <1>1
<1>3. (\A i \in 1..m : i \in 1..m + n) /\ \A i \in 1..n : m + i \in 1..m + n
  BY <1>1
<1> HIDE DEF r, m, n
<1>4. Elems(r) = Elems(s) \union Elems(t)
  <2>1. ASSUME NEW x \in Elems(r) PROVE x \in Elems(s) \union Elems(t)
    <3>1. PICK i \in 1..m + n : x = r[i]
      BY <1>1 DEF Elems
    <3>2. CASE i \in 1..m
      BY <1>1, <3>1, <3>2 DEF Elems, m
    <3>3. CASE i - m \in 1..n /\ m + (i - m) = i
      <4>1. r[m + (i - m)] = t[i - m]
        BY <1>1, <3>3
      <4> QED  BY <3>1, <3>3, <4>1 DEF Elems, n
    <3> QED  BY <1>2, <3>2, <3>3
  <2>2. ASSUME NEW x \in Elems(s) PROVE x \in Elems(r)
    BY <1>1, <1>3 DEF Elems, m
  <2>3. ASSUME NEW x \in Elems(t) PROVE x \in Elems(r)
    <3>1. PICK i \in 1..n : x = t[i]
      BY DEF Elems, n
    <3>2. m + i \in 1..m + n /\ x = r[m + i]
      BY <1>1, <1>3, <3>1
    <3> QED  BY <1>1, <3>2 DEF Elems
  <2> QED  BY <2>1, <2>2, <2>3
<1>5. ASSUME Distinct(s), Distinct(t), Elems(s) \intersect Elems(t) = {}
      PROVE  Distinct(r)
  <2>1. ASSUME NEW i \in 1..m, NEW j \in 1..n PROVE s[i] # t[j]
    BY <1>5 DEF Elems, m, n
  <2>2. ASSUME NEW i \in 1..m + n, NEW j \in 1..m + n, r[i] = r[j]
        PROVE  i = j
    <3>1. CASE i \in 1..m /\ j \in 1..m
      BY <1>1, <1>5, <2>2, <3>1 DEF Distinct, m
    <3>2. CASE i \in 1..m /\ ~(j \in 1..m)
      <4>1. j - m \in 1..n /\ r[j] = t[j - m] /\ r[i] = s[i]
        <5>1. j - m \in 1..n /\ m + (j - m) = j
          BY <1>2, <3>2
        <5>2. r[m + (j - m)] = t[j - m]
          BY <1>1, <5>1
        <5> QED  BY <1>1, <3>2, <5>1, <5>2
      <4> QED  BY <2>1, <2>2, <3>2, <4>1
    <3>3. CASE j \in 1..m /\ ~(i \in 1..m)
      <4>1. i - m \in 1..n /\ r[i] = t[i - m] /\ r[j] = s[j]
        <5>1. i - m \in 1..n /\ m + (i - m) = i
          BY <1>2, <3>3
        <5>2. r[m + (i - m)] = t[i - m]
          BY <1>1, <5>1
        <5> QED  BY <1>1, <3>3, <5>1, <5>2
      <4> QED  BY <2>1, <2>2, <3>3, <4>1
    <3>4. CASE ~(i \in 1..m) /\ ~(j \in 1..m)
      <4>1. /\ i - m \in 1..n /\ m + (i - m) = i
            /\ j - m \in 1..n /\ m + (j - m) = j
        BY <1>2, <3>4
      <4>2. r[m + (i - m)] = t[i - m] /\ r[m + (j - m)] = t[j - m]
        BY <1>1, <4>1
      <4>3. t[i - m] = t[j - m]
        BY <2>2, <4>1, <4>2
      <4>4. i - m = j - m
        BY <1>5, <4>1, <4>3 DEF Distinct, n
      <4> QED  BY <4>1, <4>4
    <3> QED  BY <3>1, <3>2, <3>3, <3>4
  <2> QED  BY <1>1, <2>2 DEF Distinct
<1> QED  BY <1>1, <1>4, <1>5 DEF r

\* One more element.
LEMMA OneMore ==
  ASSUME NEW S, NEW s \in Seq(S), NEW x \in S
  PROVE  /\ Append(s, x) \in Seq(S) /\ Elems(Append(s, x)) = Elems(s) \union {x}
         /\ Distinct(s) /\ x \notin Elems(s) => Distinct(Append(s, x))
<1> DEFINE t == <<x>>
<1>1. t \in Seq(S) /\ Len(t) = 1 /\ t[1] = x
  OBVIOUS
<1>2. Append(s, x) = s \o t
  BY AppendIsConcat
<1> HIDE DEF t
<1>3. Elems(t) = {x} /\ Distinct(t)
  <2>1. \A i \in 1..Len(t) : i = 1
    BY <1>1
  <2>2. 1 \in 1..Len(t)
    BY <1>1
  <2> QED  BY <1>1, <2>1, <2>2 DEF Elems, Distinct
<1>4. /\ s \o t \in Seq(S) /\ Elems(s \o t) = Elems(s) \union Elems(t)
      /\ Distinct(s) /\ Distinct(t) /\ Elems(s) \intersect Elems(t) = {} => Distinct(s \o t)
  BY <1>1, JoinedOnce
<1> QED  BY <1>2, <1>3, <1>4

\* What is left of a sequence without its first.
LEMMA OneLess ==
  ASSUME NEW S, NEW s \in Seq(S), s # <<>>
  PROVE  /\ Head(s) \in S /\ Tail(s) \in Seq(S) /\ Elems(s) = {Head(s)} \union Elems(Tail(s))
         /\ Head(s) = s[1] /\ Len(s) \in Nat /\ Len(s) >= 1
         /\ Distinct(s) => Distinct(Tail(s)) /\ Head(s) \notin Elems(Tail(s))
<1> DEFINE t == Tail(s)
           n == Len(s)
<1>1. /\ Head(s) \in S /\ t \in Seq(S) /\ Len(t) = n - 1 /\ Head(s) = s[1]
      /\ \A i \in 1..Len(t) : t[i] = s[i + 1]
  BY HeadTailProperties
<1>2. n \in Nat /\ n # 0
  BY LenProperties, EmptySeq
<1> HIDE DEF t, n
<1>3. /\ 1 \in 1..n /\ \A i \in 1..n - 1 : i + 1 \in 1..n /\ i + 1 # 1
      /\ \A i \in 1..n : i = 1 \/ (i - 1 \in 1..n - 1 /\ (i - 1) + 1 = i)
  BY <1>2
<1>4. Elems(s) = {s[1]} \union Elems(t)
  <2>1. ASSUME NEW x \in Elems(s) PROVE x \in {s[1]} \union Elems(t)
    <3>1. PICK i \in 1..n : x = s[i]
      BY DEF Elems, n
    <3>2. CASE i - 1 \in 1..n - 1 /\ (i - 1) + 1 = i
      <4>1. t[i - 1] = s[(i - 1) + 1]
        BY <1>1, <3>2
      <4> QED  BY <1>1, <3>1, <3>2, <4>1 DEF Elems
    <3> QED  BY <1>3, <3>1, <3>2
  <2>2. ASSUME NEW x \in Elems(t) PROVE x \in Elems(s)
    <3>1. PICK i \in 1..n - 1 : x = t[i]
      BY <1>1 DEF Elems
    <3>2. i + 1 \in 1..n /\ x = s[i + 1]
      BY <1>1, <1>3, <3>1
    <3> QED  BY <3>2 DEF Elems, n
  <2>3. s[1] \in Elems(s)
    BY <1>3 DEF Elems, n
  <2> QED  BY <2>1, <2>2, <2>3
<1>5. ASSUME Distinct(s)
      PROVE  Distinct(t) /\ s[1] \notin Elems(t)
  <2>1. ASSUME NEW i \in 1..n - 1, NEW j \in 1..n - 1, t[i] = t[j] PROVE i = j
    <3>1. s[i + 1] = s[j + 1] /\ i + 1 \in 1..n /\ j + 1 \in 1..n
      BY <1>1, <1>3, <2>1
    <3>2. i + 1 = j + 1
      BY <1>5, <3>1 DEF Distinct, n
    <3> QED  BY <3>2
  <2>2. ASSUME NEW i \in 1..n - 1 PROVE t[i] # s[1]
    BY <1>1, <1>3, <1>5 DEF Distinct, n
  <2> QED  BY <1>1, <2>1, <2>2 DEF Distinct, Elems
<1> QED  BY <1>1, <1>2, <1>4, <1>5 DEF t, n

\* The neighbours of a cell.
Neighbours(cell) == {c \in Int \X Int : Chebyshev(c, cell) = 1}

Collected(new, reached, visited) ==
  new = [i \in 0..Len(Around) |->
          IF i = 0 THEN <<>>
          ELSE IF reached[i] \in visited THEN new[i - 1] ELSE Append(new[i - 1], reached[i])]

\* They are collected without those visited, each once.
LEMMA UnvisitedLaw ==
  ASSUME NEW cell \in Int \X Int, NEW visited, NEW r, r = Unvisited(cell, visited)
  PROVE  r \in Seq(Int \X Int) /\ Distinct(r) /\ Elems(r) = Neighbours(cell) \ visited
<1> DEFINE S == Seq(Int \X Int)
           reached == [i \in DOMAIN Around |-> <<cell[1] + Around[i][1], cell[2] + Around[i][2]>>]
           step == [x \in Nat \X S |->
                     IF x[1] \in 1..8 /\ reached[x[1]] \notin visited THEN Append(x[2], reached[x[1]]) ELSE x[2]]
           new == CHOOSE h : Collected(h, reached, visited)
<1>1. r = new[Len(Around)]
  BY Zenon DEF Unvisited, Collected
<1>2. /\ reached \in [1..8 -> Int \X Int] /\ Len(Around) = 8
      /\ \A i, j \in 1..8 : reached[i] = reached[j] => i = j
      /\ \A c \in Int \X Int : (\E i \in 1..8 : reached[i] = c) <=> Chebyshev(c, cell) = 1
  <2>1. Encircles(reached, cell) /\ Len(Around) = 8
    BY AroundLaw
  <2> HIDE DEF reached
  <2> QED  BY <2>1 DEF Encircles
<1> HIDE DEF reached
<1>3. <<>> \in S /\ Elems(<<>>) = {} /\ Distinct(<<>>)
  <2>1. <<>> \in S /\ Len(<<>>) = 0
    OBVIOUS
  <2> QED  BY <2>1 DEF Elems, Distinct
<1>4. \E h : Collected(h, reached, visited)
  <2>1. step \in [Nat \X S -> S]
    <3>1. \A s \in S, i \in 1..8 : Append(s, reached[i]) \in S
      BY <1>2, OneMore
    <3> HIDE DEF S
    <3> QED  BY <3>1
  <2> HIDE DEF S
  <2>2. PICK f \in [0..8 -> S] : Iterated(f, 0, 8, <<>>, step)
    <3> HIDE DEF step
    <3>1. 0 \in Nat /\ 8 \in Nat /\ 0 <= 8
      OBVIOUS
    <3> QED  BY <1>3, <2>1, <3>1, Recursion
  <2>3. f[0] = <<>>
    BY <2>2 DEF Iterated
  <2>4. ASSUME NEW i \in 0..8, i # 0
        PROVE  f[i] = IF reached[i] \in visited THEN f[i - 1] ELSE Append(f[i - 1], reached[i])
    <3>1. i \in 0 + 1..8 /\ i - 1 \in 0..8 /\ i \in Nat /\ i \in 1..8
      BY <2>4
    <3>2. f[i] = step[<<i, f[i - 1]>>] /\ f[i - 1] \in S
      BY <2>2, <3>1 DEF Iterated
    <3> QED  BY <3>1, <3>2
  <2>5. f = [i \in 0..Len(Around) |->
              IF i = 0 THEN <<>>
              ELSE IF reached[i] \in visited THEN f[i - 1] ELSE Append(f[i - 1], reached[i])]
    BY <1>2, <2>2, <2>3, <2>4
  <2> QED  BY <2>5, Zenon DEF Collected
<1>5. Collected(new, reached, visited)
  BY <1>4, Zenon
<1> HIDE DEF new
<1>6. ASSUME NEW i \in 0..8
      PROVE  new[i] = IF i = 0 THEN <<>>
                      ELSE IF reached[i] \in visited THEN new[i - 1] ELSE Append(new[i - 1], reached[i])
  BY <1>2, <1>5 DEF Collected
<1> DEFINE Passed(i) == {reached[j] : j \in 1..i}
           T == {i \in 0..8 : new[i] \in S /\ Distinct(new[i]) /\ Elems(new[i]) = Passed(i) \ visited}
<1>7. 0 \in T
  <2>1. 0 \in 0..8 /\ 1..0 = {}
    OBVIOUS
  <2>2. new[0] = <<>>
    BY <1>6, <2>1
  <2> QED  BY <1>3, <2>1, <2>2
<1>8. ASSUME NEW i \in 0 + 1..8, i - 1 \in T
      PROVE  i \in T
  <2>1. i \in 0..8 /\ i # 0 /\ i \in 1..8 /\ 1..i = (1..i - 1) \union {i} /\ \A j \in 1..i - 1 : j \in 1..8 /\ j # i
    OBVIOUS
  <2>2. new[i] = IF reached[i] \in visited THEN new[i - 1] ELSE Append(new[i - 1], reached[i])
    BY <1>6, <2>1
  <2>3. new[i - 1] \in S /\ Distinct(new[i - 1]) /\ Elems(new[i - 1]) = Passed(i - 1) \ visited
    BY <1>8
  <2>4. Passed(i) = Passed(i - 1) \union {reached[i]} /\ reached[i] \notin Passed(i - 1)
    BY <1>2, <2>1
  <2> HIDE DEF Passed
  <2>5. CASE reached[i] \in visited
    BY <2>1, <2>2, <2>3, <2>4, <2>5
  <2>6. CASE reached[i] \notin visited
    <3>1. reached[i] \in Int \X Int /\ reached[i] \notin Elems(new[i - 1])
      BY <1>2, <2>1, <2>3, <2>4
    <3>2. /\ Append(new[i - 1], reached[i]) \in S
          /\ Elems(Append(new[i - 1], reached[i])) = Elems(new[i - 1]) \union {reached[i]}
          /\ Distinct(Append(new[i - 1], reached[i]))
      BY <2>3, <3>1, OneMore
    <3> HIDE DEF S
    <3>3. new[i] = Append(new[i - 1], reached[i])
      BY <2>2, <2>6
    <3>4. Elems(new[i]) = Passed(i) \ visited
      BY <2>3, <2>4, <2>6, <3>2, <3>3
    <3> QED  BY <2>1, <3>2, <3>3, <3>4
  <2> QED  BY <2>5, <2>6
<1>9. 8 \in T
  <2> HIDE DEF T
  <2>1. 0 \in Nat /\ 8 \in Nat /\ 8 \in 0..8
    OBVIOUS
  <2>2. \A i \in 0..8 : i \in T
    BY <1>7, <1>8, <2>1, Interval
  <2> QED  BY <2>1, <2>2
<1>10. Passed(8) = Neighbours(cell)
  BY <1>2 DEF Neighbours
<1> HIDE DEF Passed
<1> QED  BY <1>1, <1>2, <1>9, <1>10

\* A sequence on which a function does not fall.
Ascending(s, d) == \A i, j \in 1..Len(s) : i <= j => d[s[i]] <= d[s[j]]

\* The first is the least.
LEMMA AscendingTail ==
  ASSUME NEW S, NEW d \in [S -> Nat], NEW s \in Seq(S), s # <<>>, Ascending(s, d)
  PROVE  Ascending(Tail(s), d) /\ \A x \in Elems(s) : d[Head(s)] <= d[x]
<1> DEFINE t == Tail(s)
           n == Len(s)
<1>1. t \in Seq(S) /\ Len(t) = n - 1 /\ Head(s) = s[1] /\ \A i \in 1..Len(t) : t[i] = s[i + 1]
  BY HeadTailProperties
<1>2. n \in Nat /\ n # 0
  BY LenProperties, EmptySeq
<1> HIDE DEF t, n
<1>3. ASSUME NEW i \in 1..n - 1, NEW j \in 1..n - 1, i <= j
      PROVE  d[t[i]] <= d[t[j]]
  <2>1. i + 1 \in 1..n /\ j + 1 \in 1..n /\ i + 1 <= j + 1
    BY <1>2, <1>3
  <2>2. d[s[i + 1]] <= d[s[j + 1]]
    BY <2>1 DEF Ascending, n
  <2> QED  BY <1>1, <2>2
<1>4. ASSUME NEW x \in Elems(s)
      PROVE  d[s[1]] <= d[x]
  <2>1. PICK i \in 1..n : x = s[i]
    BY DEF Elems, n
  <2>2. 1 \in 1..n /\ 1 <= i
    BY <1>2
  <2> QED  BY <2>1, <2>2 DEF Ascending, n
<1> QED  BY <1>1, <1>3, <1>4 DEF Ascending, t

\* One ascending sequence after another that is not below it.
LEMMA AscendingJoin ==
  ASSUME NEW S, NEW d \in [S -> Nat], NEW s \in Seq(S), NEW t \in Seq(S), Ascending(s, d), Ascending(t, d),
         \A x \in Elems(s), y \in Elems(t) : d[x] <= d[y]
  PROVE  Ascending(s \o t, d)
<1> DEFINE r == s \o t
           m == Len(s)
           n == Len(t)
<1>1. /\ Len(r) = m + n /\ m \in Nat /\ n \in Nat
      /\ \A i \in 1..m + n : r[i] = IF i <= m THEN s[i] ELSE t[i - m]
  BY ConcatProperties, LenProperties
<1> HIDE DEF r, m, n
<1>2. ASSUME NEW i \in 1..m + n, NEW j \in 1..m + n, i <= j
      PROVE  d[r[i]] <= d[r[j]]
  <2>1. CASE j <= m
    <3>1. i \in 1..m /\ j \in 1..m /\ r[i] = s[i] /\ r[j] = s[j]
      BY <1>1, <1>2, <2>1
    <3> QED  BY <1>2, <3>1 DEF Ascending, m
  <2>2. CASE i <= m /\ ~(j <= m)
    <3>1. i \in 1..m /\ j - m \in 1..n /\ r[i] = s[i] /\ r[j] = t[j - m]
      BY <1>1, <2>2
    <3>2. s[i] \in Elems(s) /\ t[j - m] \in Elems(t)
      BY <3>1 DEF Elems, m, n
    <3> QED  BY <3>1, <3>2
  <2>3. CASE ~(i <= m)
    <3>1. i - m \in 1..n /\ j - m \in 1..n /\ i - m <= j - m /\ r[i] = t[i - m] /\ r[j] = t[j - m]
      BY <1>1, <1>2, <2>3
    <3> QED  BY <3>1 DEF Ascending, n
  <2> QED  BY <1>1, <2>1, <2>2, <2>3
<1> QED  BY <1>1, <1>2 DEF Ascending, r

-----------------------------------------------------------------------------
\* The search for a free cell, ring by ring.
Ring(point) == [c \in Int \X Int |-> Chebyshev(c, point)]

Gone(s) == s.visited \ Elems(s.queue)

RingInv(s, point, free) ==
  /\ s \in [queue : Seq(Int \X Int), visited : SUBSET (Int \X Int)]
  /\ Distinct(s.queue) /\ Elems(s.queue) \subseteq s.visited /\ point \in s.visited
  /\ \A c \in s.visited : Ring(point)[c] <= MaxRadius + 1
  /\ Ascending(s.queue, Ring(point))
  /\ s.queue # <<>> =>
       \A c \in Elems(s.queue) : Ring(point)[c] <= Ring(point)[Head(s.queue)] + 1
  /\ \A c \in Gone(s) : Ring(point)[c] <= MaxRadius => c \notin free /\ Neighbours(c) \subseteq s.visited

\* Rings of neighbours, and of the cells between a cell and the point.
LEMMA RingLaw ==
  ASSUME NEW point \in Int \X Int
  PROVE  /\ Ring(point) \in [Int \X Int -> Nat] /\ MaxRadius \in Nat
         /\ \A c \in Int \X Int : Ring(point)[c] = 0 => c = point
         /\ Ring(point)[point] = 0
         /\ \A a \in Int \X Int : \A b \in Neighbours(a) :
              a \in Neighbours(b) /\ Ring(point)[b] <= Ring(point)[a] + 1
         /\ \A a \in Int \X Int : Ring(point)[a] # 0 =>
              \E b \in Neighbours(a) : Ring(point)[b] = Ring(point)[a] - 1
<1>1. Ring(point) \in [Int \X Int -> Nat] /\ MaxRadius \in Nat
  BY ChebyshevLaw, SearchAssumption DEF Ring
<1>2. \A a, b \in Int \X Int : Chebyshev(a, b) = Chebyshev(b, a)
  <2> SUFFICES ASSUME NEW a \in Int \X Int, NEW b \in Int \X Int
               PROVE  Chebyshev(a, b) = Chebyshev(b, a)
    OBVIOUS
  <2>1. Abs(a[1] - b[1]) = Abs(b[1] - a[1]) /\ Abs(a[2] - b[2]) = Abs(b[2] - a[2])
    BY DEF Abs
  <2> QED  BY <2>1 DEF Chebyshev, Apart
<1>3. ASSUME NEW a \in Int \X Int, NEW b \in Int \X Int
      PROVE  Chebyshev(a, b) = 0 <=> a = b
  <2>1. /\ Chebyshev(a, b) \in Nat
        /\ Chebyshev(a, b) <= 0 <=> a[1] - b[1] \in -0..0 /\ a[2] - b[2] \in -0..0
    <3>1. 0 \in Nat
      OBVIOUS
    <3> QED  BY <3>1, ChebyshevLaw
  <2>2. a = <<a[1], a[2]>> /\ b = <<b[1], b[2]>>
    OBVIOUS
  <2>3. a[1] - b[1] \in -0..0 /\ a[2] - b[2] \in -0..0 <=> a[1] = b[1] /\ a[2] = b[2]
    OBVIOUS
  <2>4. Chebyshev(a, b) <= 0 <=> Chebyshev(a, b) = 0
    <3> DEFINE z == Chebyshev(a, b)
    <3> HIDE DEF z
    <3> QED  BY <2>1 DEF z
  <2> QED  BY <2>1, <2>2, <2>3, <2>4
<1>4. \A c \in Int \X Int : Ring(point)[c] = Chebyshev(c, point)
  BY DEF Ring
<1>5. ASSUME NEW a \in Int \X Int, NEW b \in Neighbours(a)
      PROVE  a \in Neighbours(b) /\ Ring(point)[b] <= Ring(point)[a] + 1 /\ b \in Int \X Int
  <2>1. b \in Int \X Int /\ Chebyshev(b, a) = 1 /\ Chebyshev(a, b) = 1
    BY <1>2 DEF Neighbours
  <2>2. Chebyshev(b, point) <= Chebyshev(a, point) + 1
    BY <2>1, RingsLaw
  <2> QED  BY <1>4, <2>1, <2>2 DEF Neighbours
<1>6. ASSUME NEW a \in Int \X Int, Ring(point)[a] # 0
      PROVE  \E b \in Neighbours(a) : Ring(point)[b] = Ring(point)[a] - 1
  <2>1. PICK b \in Int \X Int : Chebyshev(b, a) = 1 /\ Chebyshev(b, point) < Chebyshev(a, point)
    BY <1>4, <1>6, RingsLaw
  <2>2. b \in Neighbours(a) /\ a \in Neighbours(b)
    BY <1>5, <2>1 DEF Neighbours
  <2>3. Ring(point)[a] <= Ring(point)[b] + 1 /\ Ring(point)[b] < Ring(point)[a]
    BY <1>4, <1>5, <2>1, <2>2
  <2>4. Ring(point)[a] \in Nat /\ Ring(point)[b] \in Nat
    BY <1>1, <2>1
  <2>5. Ring(point)[b] = Ring(point)[a] - 1
    BY <2>3, <2>4
  <2> QED  BY <2>2, <2>5
<1> QED  BY <1>1, <1>3, <1>4, <1>5, <1>6

\* What is not farther than the next cell of the queue is visited.
LEMMA InsideLaw ==
  ASSUME NEW point \in Int \X Int, NEW free, NEW s, RingInv(s, point, free),
         NEW c \in Int \X Int, Ring(point)[c] <= MaxRadius + 1,
         s.queue # <<>> => Ring(point)[c] <= Ring(point)[Head(s.queue)]
  PROVE  c \in s.visited
<1> DEFINE ring == Ring(point)
           most == ring[c]
           T == {n \in 0..most : \A x \in Int \X Int : ring[x] = n => x \in s.visited}
<1>1. /\ ring \in [Int \X Int -> Nat] /\ MaxRadius \in Nat
      /\ \A x \in Int \X Int : ring[x] = 0 => x = point
      /\ \A a \in Int \X Int : \A b \in Neighbours(a) : a \in Neighbours(b) /\ b \in Int \X Int
      /\ \A a \in Int \X Int : ring[a] # 0 => \E b \in Neighbours(a) : ring[b] = ring[a] - 1
  BY RingLaw DEF Neighbours
<1>2. /\ s.queue \in Seq(Int \X Int) /\ point \in s.visited
      /\ \A x \in Gone(s) : ring[x] <= MaxRadius => Neighbours(x) \subseteq s.visited
      /\ Ascending(s.queue, ring)
  BY DEF RingInv
<1>3. ASSUME s.queue # <<>>
      PROVE  \A x \in Elems(s.queue) : ring[Head(s.queue)] <= ring[x] /\ ring[x] \in Nat /\ ring[Head(s.queue)] \in Nat
  <2>1. \A x \in Elems(s.queue) : ring[Head(s.queue)] <= ring[x]
    BY <1>1, <1>2, <1>3, AscendingTail
  <2>2. Head(s.queue) \in Int \X Int
    BY <1>2, <1>3, OneLess
  <2>3. \A x \in Elems(s.queue) : x \in Int \X Int
    <3>1. \A i \in 1..Len(s.queue) : s.queue[i] \in Int \X Int
      BY <1>2, ElementOfSeq
    <3> QED  BY <3>1 DEF Elems
  <2> HIDE DEF ring
  <2> QED  BY <1>1, <2>1, <2>2, <2>3
<1>4. Elems(<<>>) = {}
  <2>1. Len(<<>>) = 0
    OBVIOUS
  <2> QED  BY <2>1 DEF Elems
<1>5. most \in Nat /\ most <= MaxRadius + 1 /\ (s.queue # <<>> => most <= ring[Head(s.queue)])
  BY <1>1
<1> HIDE DEF ring, most
<1>6. 0 \in T
  BY <1>1, <1>2, <1>5
<1>7. ASSUME NEW n \in 0 + 1..most, n - 1 \in T
      PROVE  n \in T
  <2>1. SUFFICES ASSUME NEW x \in Int \X Int, ring[x] = n PROVE x \in s.visited
    BY <1>5, <1>7
  <2>2. n \in Nat /\ n # 0 /\ n - 1 <= MaxRadius /\ n - 1 < most
    BY <1>1, <1>5
  <2>3. PICK b \in Neighbours(x) : ring[b] = n - 1
    BY <1>1, <2>1, <2>2
  <2>4. x \in Neighbours(b) /\ b \in Int \X Int
    BY <1>1
  <2>5. b \in s.visited
    BY <1>7, <2>3, <2>4
  <2>6. b \notin Elems(s.queue)
    <3>1. CASE s.queue = <<>>
      BY <1>4, <3>1
    <3>2. CASE s.queue # <<>>
      <4>1. SUFFICES ASSUME b \in Elems(s.queue) PROVE FALSE
        OBVIOUS
      <4>2. ring[Head(s.queue)] <= n - 1 /\ ring[Head(s.queue)] \in Nat
        BY <1>3, <2>3, <3>2, <4>1
      <4> QED  BY <1>5, <2>2, <3>2, <4>2
    <3> QED  BY <3>1, <3>2
  <2> QED  BY <1>2, <2>2, <2>3, <2>4, <2>5, <2>6 DEF Gone
<1>8. most \in T
  <2> HIDE DEF T
  <2>1. 0 \in Nat /\ most \in 0..most
    BY <1>5
  <2>2. \A n \in 0..most : n \in T
    BY <1>5, <1>6, <1>7, <2>1, Interval
  <2> QED  BY <2>1, <2>2
<1> QED  BY <1>8 DEF most

\* One turn takes the next cell from the queue and keeps the rings in order.
Widened(r, s, point, free) ==
  /\ RingInv(r, point, free)
  /\ Head(s.queue) \in s.visited \ Gone(s)
  /\ Gone(r) = Gone(s) \union {Head(s.queue)}

\* One turn of the loop keeps the rings in order.
LEMMA WidenLaw ==
  ASSUME NEW point \in Int \X Int, NEW free, NEW s, RingInv(s, point, free), s.queue # <<>>,
         ~Found(s, point, free)
  PROVE  Widened(Widen(s, point, free), s, point, free)
<1> DEFINE ring == Ring(point)
           at == Head(s.queue)
           rest == Tail(s.queue)
           new == Unvisited(at, s.visited)
           C == Int \X Int
<1>1. /\ ring \in [C -> Nat] /\ MaxRadius \in Nat
      /\ \A a \in C : \A b \in Neighbours(a) : ring[b] <= ring[a] + 1
  BY RingLaw
<1>2. /\ s.queue \in Seq(C) /\ s.visited \subseteq C
      /\ Distinct(s.queue) /\ Elems(s.queue) \subseteq s.visited /\ point \in s.visited
      /\ \A c \in s.visited : ring[c] <= MaxRadius + 1
      /\ Ascending(s.queue, ring)
      /\ \A c \in Elems(s.queue) : ring[c] <= ring[at] + 1
      /\ \A c \in Gone(s) : ring[c] <= MaxRadius => c \notin free /\ Neighbours(c) \subseteq s.visited
  BY DEF RingInv
<1>3. /\ at \in C /\ rest \in Seq(C) /\ Elems(s.queue) = {at} \union Elems(rest)
      /\ Distinct(rest) /\ at \notin Elems(rest)
  BY <1>2, OneLess
<1>4. Ascending(rest, ring)
  BY <1>1, <1>2, AscendingTail
<1>5. \A x \in Elems(s.queue) : ring[at] <= ring[x]
  BY <1>1, <1>2, AscendingTail
<1>6. ring[at] = Chebyshev(at, point)
  BY <1>3 DEF Ring
<1>7. Elems(rest) \subseteq C /\ Elems(rest) \subseteq s.visited /\ at \in s.visited
  BY <1>2, <1>3
<1>8. at \in s.visited \ Gone(s)
  BY <1>3, <1>7 DEF Gone
<1>9. ASSUME rest # <<>> PROVE Head(rest) \in Elems(rest)
  <2>1. Elems(rest) = {Head(rest)} \union Elems(Tail(rest))
    BY <1>3, <1>9, OneLess
  <2> QED  BY <2>1
<1>0. \A l, m, n \in Nat : l <= m + 1 /\ m <= n => l <= n + 1
  OBVIOUS
<1>10. CASE Chebyshev(at, point) > MaxRadius
  <2> DEFINE r == [s EXCEPT !.queue = rest]
  <2>1. Widen(s, point, free) = r
    BY <1>10, Zenon DEF Widen
  <2>2. r.queue = rest /\ r.visited = s.visited /\ r \in [queue : Seq(C), visited : SUBSET C]
    BY <1>3 DEF RingInv
  <2> HIDE DEF r
  <2>3. Gone(r) = Gone(s) \union {at}
    BY <1>3, <1>7, <2>2 DEF Gone
  <2>4. r.queue # <<>> => \A c \in Elems(r.queue) : ring[c] <= ring[Head(r.queue)] + 1
    <3>1. SUFFICES ASSUME rest # <<>>, NEW c \in Elems(rest) PROVE ring[c] <= ring[Head(rest)] + 1
      BY <2>2
    <3>2. ring[c] <= ring[at] + 1 /\ ring[at] <= ring[Head(rest)]
      BY <1>2, <1>3, <1>5, <1>9, <3>1
    <3>3. ring[c] \in Nat /\ ring[at] \in Nat /\ ring[Head(rest)] \in Nat
      BY <1>1, <1>3, <1>7, <1>9, <3>1
    <3> HIDE DEF ring, at, rest
    <3> QED  BY <1>0, <3>2, <3>3
  <2>5. \A c \in Gone(r) : ring[c] <= MaxRadius => c \notin free /\ Neighbours(c) \subseteq r.visited
    <3>1. ~(ring[at] <= MaxRadius)
      <4>1. ring[at] \in Nat /\ ring[at] > MaxRadius
        BY <1>1, <1>3, <1>6, <1>10
      <4> HIDE DEF ring, at
      <4> QED  BY <1>1, <4>1
    <3> QED  BY <1>2, <2>2, <2>3, <3>1
  <2>6. RingInv(r, point, free)
    BY <1>2, <1>3, <1>4, <1>7, <2>2, <2>4, <2>5 DEF RingInv
  <2> QED  BY <1>8, <2>1, <2>3, <2>6 DEF Widened
<1>11. CASE ~(Chebyshev(at, point) > MaxRadius)
  <2> DEFINE r == [queue |-> rest \o new, visited |-> s.visited \union ToSet(new)]
  <2>1. Widen(s, point, free) = r
    BY <1>11, Zenon DEF Widen
  <2>2. at \notin free /\ ring[at] <= MaxRadius
    <3>1. ring[at] <= MaxRadius
      <4>1. ring[at] \in Nat /\ ~(ring[at] > MaxRadius)
        BY <1>1, <1>3, <1>6, <1>11
      <4> HIDE DEF ring, at
      <4> QED  BY <1>1, <4>1
    <3>2. Chebyshev(at, point) <= MaxRadius
      BY <1>6, <3>1
    <3> QED  BY <3>1, <3>2 DEF Found
  <2>3. new \in Seq(C) /\ Distinct(new) /\ Elems(new) = Neighbours(at) \ s.visited
    BY <1>3, UnvisitedLaw
  <2>4. ToSet(new) = Elems(new)
    <3>1. DOMAIN new = 1..Len(new)
      BY <2>3, LenProperties
    <3> QED  BY <3>1 DEF ToSet, Elems
  <2> HIDE DEF new
  <2>5. \A x \in Elems(new) : x \in C /\ ring[x] = ring[at] + 1
    <3>1. SUFFICES ASSUME NEW x \in Elems(new) PROVE x \in C /\ ring[x] = ring[at] + 1
      OBVIOUS
    <3>2. x \in C /\ x \in Neighbours(at) /\ x \notin s.visited
      BY <2>3, <3>1 DEF Neighbours
    <3>3. ring[x] <= ring[at] + 1 /\ ring[x] \in Nat /\ ring[at] \in Nat
      BY <1>1, <1>3, <3>2
    <3>4. ~(ring[x] <= ring[at])
      <4>1. SUFFICES ASSUME ring[x] <= ring[at] PROVE FALSE
        OBVIOUS
      <4>2. ring[x] <= MaxRadius + 1
        BY <1>1, <2>2, <3>3, <4>1
      <4>3. x \in s.visited
        BY <3>2, <4>1, <4>2, InsideLaw
      <4> QED  BY <3>2, <4>3
    <3> QED  BY <3>2, <3>3, <3>4
  <2>6. /\ rest \o new \in Seq(C) /\ Elems(rest \o new) = Elems(rest) \union Elems(new)
        /\ Distinct(rest \o new)
    <3>1. Elems(rest) \intersect Elems(new) = {}
      BY <1>7, <2>3
    <3>2. /\ rest \o new \in Seq(C) /\ Elems(rest \o new) = Elems(rest) \union Elems(new)
          /\ Distinct(rest) /\ Distinct(new) /\ Elems(rest) \intersect Elems(new) = {} => Distinct(rest \o new)
      <4> HIDE DEF rest
      <4> QED  BY <1>3, <2>3, JoinedOnce
    <3> QED  BY <1>3, <2>3, <3>1, <3>2
  <2>7. Ascending(rest \o new, ring)
    <3>1. Ascending(new, ring)
      <4>1. \A i \in 1..Len(new) : ring[new[i]] = ring[at] + 1
        BY <2>5 DEF Elems
      <4>2. ring[at] + 1 <= ring[at] + 1
        BY <1>1, <1>3
      <4> QED  BY <4>1, <4>2 DEF Ascending
    <3>2. \A x \in Elems(rest), y \in Elems(new) : ring[x] <= ring[y]
      BY <1>2, <1>3, <2>5
    <3> QED  BY <1>1, <1>3, <1>4, <2>3, <3>1, <3>2, AscendingJoin
  <2>8. /\ r.queue = rest \o new /\ r.visited = s.visited \union Elems(new)
        /\ r \in [queue : Seq(C), visited : SUBSET C]
    BY <1>2, <2>4, <2>5, <2>6
  <2> HIDE DEF r
  <2>9. Gone(r) = Gone(s) \union {at}
    BY <1>3, <1>7, <2>3, <2>6, <2>8 DEF Gone
  <2>10. r.queue # <<>> => \A c \in Elems(r.queue) : ring[c] <= ring[Head(r.queue)] + 1
    <3>1. SUFFICES ASSUME r.queue # <<>>, NEW c \in Elems(r.queue) PROVE ring[c] <= ring[Head(r.queue)] + 1
      OBVIOUS
    <3>2. Head(r.queue) \in Elems(r.queue)
      <4>1. r.queue \in Seq(C)
        BY <2>6, <2>8
      <4>2. Elems(r.queue) = {Head(r.queue)} \union Elems(Tail(r.queue))
        BY <3>1, <4>1, OneLess
      <4> QED  BY <4>2
    <3>3. \A x \in Elems(r.queue) : ring[at] <= ring[x] /\ ring[x] <= ring[at] + 1 /\ ring[x] \in Nat
      <4>1. ASSUME NEW x \in Elems(rest) PROVE ring[at] <= ring[x] /\ ring[x] <= ring[at] + 1 /\ ring[x] \in Nat
        BY <1>1, <1>2, <1>3, <1>5, <1>7
      <4>2. ASSUME NEW x \in Elems(new) PROVE ring[at] <= ring[x] /\ ring[x] <= ring[at] + 1 /\ ring[x] \in Nat
        <5>1. ring[x] = ring[at] + 1 /\ ring[at] \in Nat
          BY <1>1, <1>3, <2>5
        <5> HIDE DEF ring, at
        <5> QED  BY <5>1
      <4> QED  BY <2>6, <2>8, <4>1, <4>2
    <3>4. ring[at] \in Nat
      BY <1>1, <1>3
    <3>5. ring[at] <= ring[Head(r.queue)] /\ ring[c] <= ring[at] + 1 /\ ring[c] \in Nat /\ ring[Head(r.queue)] \in Nat
      BY <3>2, <3>3
    <3> HIDE DEF ring, at
    <3> QED  BY <1>0, <3>4, <3>5
  <2>11. ASSUME NEW c \in Gone(r), ring[c] <= MaxRadius
         PROVE  c \notin free /\ Neighbours(c) \subseteq r.visited
    <3>1. CASE c = at
      BY <2>2, <2>3, <2>8, <3>1
    <3>2. CASE c \in Gone(s)
      BY <1>2, <2>8, <2>11, <3>2
    <3> QED  BY <2>9, <3>1, <3>2
  <2>12. \A c \in r.visited : ring[c] <= MaxRadius + 1
    <3>1. ASSUME NEW c \in Elems(new) PROVE ring[c] <= MaxRadius + 1
      <4>1. ring[c] = ring[at] + 1 /\ ring[at] \in Nat /\ ring[at] <= MaxRadius /\ MaxRadius \in Nat
        BY <1>1, <1>3, <2>2, <2>5
      <4> HIDE DEF ring, at
      <4> QED  BY <4>1
    <3> QED  BY <1>2, <2>8, <3>1
  <2>13. Elems(r.queue) \subseteq r.visited /\ point \in r.visited
    BY <1>2, <1>7, <2>6, <2>8
  <2>14. Distinct(r.queue) /\ Ascending(r.queue, ring)
    BY <2>6, <2>7, <2>8
  <2>15. RingInv(r, point, free)
    BY <2>8, <2>10, <2>11, <2>12, <2>13, <2>14 DEF RingInv
  <2> QED  BY <1>8, <2>1, <2>9, <2>15 DEF Widened
<1> QED  BY <1>10, <1>11

\* The cells that may be visited are as many as the turns.
Ball(point) == {c \in Int \X Int : Ring(point)[c] <= MaxRadius + 1}

\* How many cells there are within a radius.
LEMMA BallLaw ==
  ASSUME NEW point \in Int \X Int
  PROVE  IsFiniteSet(Ball(point)) /\ Cardinality(Ball(point)) = Visits /\ Visits \in Nat
<1> DEFINE m == MaxRadius + 1
           S == point[1] - m..point[1] + m
           T == point[2] - m..point[2] + m
<1>1. m \in Nat /\ 2 * MaxRadius + 3 \in Nat
  BY SearchAssumption
<1>2. ASSUME NEW c \in Int \X Int
      PROVE  Ring(point)[c] <= m <=> c \in S \X T
  <2>1. Chebyshev(c, point) <= m <=> c[1] - point[1] \in -m..m /\ c[2] - point[2] \in -m..m
    <3> HIDE DEF m
    <3> QED  BY <1>1, ChebyshevLaw
  <2>2. c = <<c[1], c[2]>> /\ c[1] \in Int /\ c[2] \in Int /\ point[1] \in Int /\ point[2] \in Int
    OBVIOUS
  <2>3. /\ c[1] - point[1] \in -m..m <=> c[1] \in S
        /\ c[2] - point[2] \in -m..m <=> c[2] \in T
    <3> HIDE DEF m
    <3> QED  BY <1>1, <2>2
  <2>4. Ring(point)[c] = Chebyshev(c, point)
    BY DEF Ring
  <2> HIDE DEF S, T, m
  <2> QED  BY <2>1, <2>2, <2>3, <2>4
<1>3. S \subseteq Int /\ T \subseteq Int
  OBVIOUS
<1>4. Ball(point) = S \X T
  <2> HIDE DEF S, T
  <2> QED  BY <1>2, <1>3 DEF Ball
<1>5. /\ IsFiniteSet(S) /\ Cardinality(S) = 2 * MaxRadius + 3
      /\ IsFiniteSet(T) /\ Cardinality(T) = 2 * MaxRadius + 3
  <2>1. ASSUME NEW a \in Int
        PROVE  IsFiniteSet(a - m..a + m) /\ Cardinality(a - m..a + m) = 2 * MaxRadius + 3
    <3>1. a - m \in Int /\ a + m \in Int /\ ~(a - m > a + m) /\ (a + m) - (a - m) + 1 = 2 * MaxRadius + 3
      BY <1>1, SearchAssumption
    <3> HIDE DEF m
    <3> QED  BY <3>1, FS_Interval
  <2> QED  BY <2>1
<1> HIDE DEF S, T
<1>6. IsFiniteSet(S \X T) /\ Cardinality(S \X T) = Cardinality(S) * Cardinality(T)
  BY <1>5, FS_Product
<1> QED  BY <1>1, <1>4, <1>5, <1>6 DEF Visits

\* The turns of the loop.
First(point) == [queue |-> <<point>>, visited |-> {point}]

Widening(h, n, point, free) ==
  h = [k \in 0..n |-> IF k = 0 THEN [queue |-> <<point>>, visited |-> {point}]
                      ELSE Widen(h[k - 1], point, free)]

\* The loop starts with the point itself.
LEMMA FirstLaw ==
  ASSUME NEW point \in Int \X Int, NEW free
  PROVE  RingInv(First(point), point, free) /\ Gone(First(point)) = {}
<1> DEFINE s == First(point)
           q == <<point>>
           ring == Ring(point)
<1>1. q \in Seq(Int \X Int) /\ Len(q) = 1 /\ q[1] = point /\ Head(q) = point /\ q # <<>>
  OBVIOUS
<1>2. s.queue = q /\ s.visited = {point} /\ s \in [queue : Seq(Int \X Int), visited : SUBSET (Int \X Int)]
  BY <1>1 DEF First
<1>3. ring \in [Int \X Int -> Nat] /\ MaxRadius \in Nat /\ ring[point] = 0
  BY RingLaw
<1> HIDE DEF q, s, ring
<1>4. \A i \in 1..Len(q) : i = 1
  BY <1>1
<1>5. Elems(q) = {point}
  <2>1. 1 \in 1..Len(q)
    BY <1>1
  <2> QED  BY <1>1, <1>4, <2>1 DEF Elems
<1>6. Distinct(q) /\ Ascending(q, ring)
  <2>1. 0 <= 0
    OBVIOUS
  <2> QED  BY <1>1, <1>3, <1>4, <2>1 DEF Distinct, Ascending
<1>7. ring[point] <= MaxRadius + 1 /\ ring[point] <= ring[point] + 1
  BY <1>3
<1>8. Gone(s) = {}
  BY <1>2, <1>5 DEF Gone
<1> QED  BY <1>1, <1>2, <1>5, <1>6, <1>7, <1>8 DEF RingInv, ring, s

\* Until the search ends every turn takes another cell from the queue.
Stopped(s, point, free) == s.queue = <<>> \/ Found(s, point, free)

Progress(s, k, point, free) ==
  RingInv(s, point, free) /\ (Stopped(s, point, free) \/ Cardinality(Gone(s)) = k)

\* Turn by turn one more cell is gone.
LEMMA ProgressLaw ==
  ASSUME NEW point \in Int \X Int, NEW free, NEW k \in Nat, NEW s, Progress(s, k, point, free)
  PROVE  Progress(Widen(s, point, free), k + 1, point, free)
<1> DEFINE r == Widen(s, point, free)
<1>1. RingInv(s, point, free)
  BY DEF Progress
<1>2. CASE Stopped(s, point, free)
  <2>1. r = s
    BY <1>2, Zenon DEF Stopped, Widen
  <2> QED  BY <1>1, <1>2, <2>1 DEF Progress
<1>3. CASE ~Stopped(s, point, free)
  <2>1. s.queue # <<>> /\ ~Found(s, point, free)
    BY <1>3 DEF Stopped
  <2>2. Widened(r, s, point, free)
    BY <1>1, <2>1, WidenLaw
  <2> HIDE DEF r
  <2>3. IsFiniteSet(Gone(s))
    <3>1. s.visited \subseteq Ball(point)
      BY <1>1 DEF RingInv, Ball
    <3>2. Gone(s) \in SUBSET Ball(point)
      BY <3>1 DEF Gone
    <3> QED  BY <3>2, BallLaw, FS_Subset
  <2>4. Cardinality(Gone(s)) = k
    BY <1>3 DEF Progress
  <2>5. Cardinality(Gone(r)) = k + 1
    BY <2>2, <2>3, <2>4, FS_AddElement DEF Widened
  <2> QED  BY <2>2, <2>5 DEF Progress, Widened, r
<1> QED  BY <1>2, <1>3

\* There are not more cells than turns.
LEMMA ProgressEnds ==
  ASSUME NEW point \in Int \X Int, NEW free, NEW s, Progress(s, Visits, point, free)
  PROVE  RingInv(s, point, free) /\ Stopped(s, point, free)
<1>1. RingInv(s, point, free)
  BY DEF Progress
<1>2. SUFFICES ASSUME ~Stopped(s, point, free) PROVE FALSE
  BY <1>1
<1>3. s.queue # <<>> /\ Cardinality(Gone(s)) = Visits
  BY <1>2 DEF Progress, Stopped
<1>4. Head(s.queue) \in Elems(s.queue)
  <2>1. s.queue \in Seq(Int \X Int)
    BY <1>1 DEF RingInv
  <2>2. Elems(s.queue) = {Head(s.queue)} \union Elems(Tail(s.queue))
    BY <1>3, <2>1, OneLess
  <2> QED  BY <2>2
<1>5. s.visited \subseteq Ball(point) /\ Head(s.queue) \in s.visited
  BY <1>1, <1>4 DEF RingInv, Ball
<1>6. Gone(s) \in SUBSET Ball(point) /\ Head(s.queue) \in Ball(point) /\ Head(s.queue) \notin Gone(s)
  BY <1>4, <1>5 DEF Gone
<1>7. IsFiniteSet(Ball(point)) /\ Cardinality(Ball(point)) = Visits
  BY BallLaw
<1>8. Cardinality(Ball(point)) = Cardinality(Gone(s)) => Ball(point) = Gone(s)
  BY <1>6, <1>7, FS_Subset
<1> QED  BY <1>3, <1>6, <1>7, <1>8

\* The turns are a function, and the last has ended.
LEMMA TurnsLaw ==
  ASSUME NEW point \in Int \X Int, NEW free
  PROVE  /\ \E h : Widening(h, Visits, point, free)
         /\ \A h : Widening(h, Visits, point, free) => Progress(h[Visits], Visits, point, free)
<1> DEFINE n == Visits
           S == {s \in [queue : Seq(Int \X Int), visited : SUBSET (Int \X Int)] : RingInv(s, point, free)}
           step == [x \in Nat \X S |-> Widen(x[2], point, free)]
<1>1. n \in Nat
  BY BallLaw
<1>2. First(point) \in S
  BY FirstLaw DEF RingInv
<1>3. ASSUME NEW s \in S
      PROVE  Widen(s, point, free) \in S
  <2>1. CASE s.queue = <<>> \/ Found(s, point, free)
    <3>1. Widen(s, point, free) = s
      BY <2>1, Zenon DEF Widen
    <3> QED  BY <3>1
  <2>2. CASE ~(s.queue = <<>> \/ Found(s, point, free))
    <3>1. Widened(Widen(s, point, free), s, point, free)
      BY <2>2, WidenLaw
    <3>2. RingInv(Widen(s, point, free), point, free)
      BY <3>1 DEF Widened
    <3> QED  BY <3>2 DEF RingInv
  <2> QED  BY <2>1, <2>2
<1> HIDE DEF S, n
<1>4. step \in [Nat \X S -> S]
  BY <1>3
<1>5. PICK f \in [0..n -> S] : Iterated(f, 0, n, First(point), step)
  <2> HIDE DEF step
  <2>1. 0 \in Nat /\ 0 <= n
    BY <1>1
  <2> QED  BY <1>1, <1>2, <1>4, <2>1, Recursion
<1>6. f[0] = First(point)
  BY <1>5 DEF Iterated
<1>7. ASSUME NEW k \in 0..n, k # 0
      PROVE  f[k] = Widen(f[k - 1], point, free)
  <2>1. k \in 0 + 1..n /\ k - 1 \in 0..n /\ k \in Nat
    BY <1>1, <1>7
  <2>2. f[k] = step[<<k, f[k - 1]>>]
    BY <1>5, <2>1 DEF Iterated
  <2>3. f[k - 1] \in S
    BY <1>5, <2>1
  <2> QED  BY <2>1, <2>2, <2>3
<1>8. Widening(f, n, point, free)
  BY <1>5, <1>6, <1>7 DEF Widening, First
<1>9. ASSUME NEW h, Widening(h, n, point, free)
      PROVE  Progress(h[n], n, point, free)
  <2> DEFINE T == {k \in 0..n : Progress(h[k], k, point, free)}
  <2>1. 0 \in T
    <3>1. 0 \in 0..n /\ h[0] = First(point)
      BY <1>1, <1>9 DEF Widening, First
    <3>2. Cardinality({}) = 0
      BY FS_EmptySet
    <3> QED  BY <3>1, <3>2, FirstLaw DEF Progress
  <2>2. ASSUME NEW k \in 0 + 1..n, k - 1 \in T
        PROVE  k \in T
    <3>1. k \in 0..n /\ k # 0 /\ k - 1 \in Nat /\ (k - 1) + 1 = k
      BY <1>1
    <3>2. h[k] = Widen(h[k - 1], point, free)
      BY <1>9, <3>1 DEF Widening
    <3>3. Progress(h[k - 1], k - 1, point, free)
      BY <2>2
    <3>4. Progress(Widen(h[k - 1], point, free), (k - 1) + 1, point, free)
      BY <3>1, <3>3, ProgressLaw
    <3> QED  BY <3>1, <3>2, <3>4
  <2> HIDE DEF T
  <2>3. 0 \in Nat /\ n \in 0..n
    BY <1>1
  <2>4. \A k \in 0..n : k \in T
    BY <1>1, <2>1, <2>2, <2>3, Interval
  <2> QED  BY <2>3, <2>4 DEF T
<1> QED  BY <1>8, <1>9 DEF n

\* What the search finds is a free cell that no other is nearer than.
LEMMA NearestFreeLaw ==
  ASSUME NEW point \in Int \X Int, NEW free \in SUBSET (Int \X Int), NEW r, r = NearestFree(point, free)
  PROVE  MovedLeast(r, point, free)
<1> DEFINE h == CHOOSE t : Widening(t, Visits, point, free)
           s == h[Visits]
<1>1. r = IF s.queue = <<>> THEN point ELSE Head(s.queue)
  BY Zenon DEF NearestFree, Widening
<1>2. Widening(h, Visits, point, free)
  BY TurnsLaw, Zenon
<1> HIDE DEF h
<1>3. Progress(s, Visits, point, free)
  BY <1>2, TurnsLaw
<1> HIDE DEF s
<1>4. RingInv(s, point, free) /\ Stopped(s, point, free)
  BY <1>3, ProgressEnds
<1>5. ASSUME NEW f \in free, Chebyshev(f, point) <= MaxRadius,
             s.queue # <<>> => Chebyshev(f, point) < Chebyshev(Head(s.queue), point)
      PROVE  FALSE
  <2> DEFINE ring == Ring(point)
  <2>1. /\ s.queue \in Seq(Int \X Int) /\ Ascending(s.queue, ring)
        /\ \A x \in Gone(s) : ring[x] <= MaxRadius => x \notin free
    BY <1>4 DEF RingInv
  <2>2. ring \in [Int \X Int -> Nat] /\ MaxRadius \in Nat
    BY RingLaw
  <2>0. \A c \in Int \X Int : ring[c] = Chebyshev(c, point)
    BY DEF Ring
  <2> HIDE DEF ring
  <2>3. ring[f] = Chebyshev(f, point) /\ ring[f] \in Nat
    BY <2>0, <2>2
  <2>4. ASSUME s.queue # <<>>
        PROVE  ring[f] < ring[Head(s.queue)] /\ ring[Head(s.queue)] \in Nat
    <3>1. Head(s.queue) \in Int \X Int
      BY <2>1, <2>4, OneLess
    <3> QED  BY <1>5, <2>0, <2>2, <2>3, <2>4, <3>1
  <2>5. f \in s.visited
    <3>1. ring[f] <= MaxRadius + 1 /\ (s.queue # <<>> => ring[f] <= ring[Head(s.queue)])
      <4> DEFINE m == ring[f]
                 n == ring[Head(s.queue)]
      <4>1. m \in Nat /\ m <= MaxRadius /\ MaxRadius \in Nat /\ (s.queue # <<>> => m < n /\ n \in Nat)
        BY <1>5, <2>2, <2>3, <2>4
      <4> HIDE DEF m, n
      <4>2. m <= MaxRadius + 1 /\ (s.queue # <<>> => m <= n)
        BY <4>1
      <4> QED  BY <4>2 DEF m, n
    <3> QED  BY <1>4, <3>1, InsideLaw DEF ring
  <2>6. f \notin Elems(s.queue)
    <3>1. CASE s.queue = <<>>
      <4>1. Len(<<>>) = 0
        OBVIOUS
      <4> QED  BY <3>1, <4>1 DEF Elems
    <3>2. CASE s.queue # <<>>
      <4>1. \A x \in Elems(s.queue) : ring[Head(s.queue)] <= ring[x]
        BY <2>1, <2>2, <3>2, AscendingTail
      <4>2. SUFFICES ASSUME f \in Elems(s.queue) PROVE FALSE
        OBVIOUS
      <4>3. ring[Head(s.queue)] <= ring[f]
        BY <4>1, <4>2
      <4> QED  BY <2>3, <2>4, <3>2, <4>3
    <3> QED  BY <3>1, <3>2
  <2> QED  BY <1>5, <2>1, <2>3, <2>5, <2>6 DEF Gone
<1>6. CASE s.queue = <<>>
  <2>1. r = point
    BY <1>1, <1>6
  <2>2. ~\E f \in free : Chebyshev(f, point) <= MaxRadius
    BY <1>5, <1>6
  <2> QED  BY <2>1, <2>2, Zenon DEF MovedLeast
<1>7. CASE s.queue # <<>>
  <2>1. r = Head(s.queue) /\ r \in free /\ Chebyshev(r, point) <= MaxRadius
    BY <1>1, <1>4, <1>7 DEF Stopped, Found
  <2>2. ASSUME NEW f \in free
        PROVE  Chebyshev(r, point) <= Chebyshev(f, point)
    <3>1. Chebyshev(r, point) \in Nat /\ Chebyshev(f, point) \in Nat /\ MaxRadius \in Nat
      BY <2>1, ChebyshevLaw, SearchAssumption
    <3>2. SUFFICES ASSUME ~(Chebyshev(r, point) <= Chebyshev(f, point)) PROVE FALSE
      OBVIOUS
    <3>3. Chebyshev(f, point) < Chebyshev(r, point) /\ Chebyshev(f, point) <= MaxRadius
      <4> DEFINE x == Chebyshev(f, point)
                 y == Chebyshev(r, point)
      <4>1. x \in Nat /\ y \in Nat /\ MaxRadius \in Nat /\ ~(y <= x) /\ y <= MaxRadius
        BY <2>1, <3>1, <3>2
      <4> HIDE DEF x, y
      <4>2. x < y /\ x <= MaxRadius
        BY <4>1
      <4> QED  BY <4>2 DEF x, y
    <3> QED  BY <1>5, <2>1, <3>3
  <2> QED  BY <2>1, <2>2, Zenon DEF MovedLeast
<1> QED  BY <1>6, <1>7

-----------------------------------------------------------------------------
\* The planner's map.

\* A function takes finitely many values on a finite set.
LEMMA FiniteImage ==
  ASSUME NEW S, IsFiniteSet(S), NEW f, DOMAIN f = S
  PROVE  IsFiniteSet({f[x] : x \in S})
<1> DEFINE T == {f[x] : x \in S}
           g == [x \in S |-> f[x]]
<1>1. g \in Surjection(S, T)
  BY DEF Surjection
<1> HIDE DEF g, T
<1>2. IsFiniteSet(T)
  BY <1>1, FS_Surjection
<1> QED  BY <1>2 DEF T

\* A finite set of integers has a least and a greatest.
LEMMA Extremes ==
  ASSUME NEW S \in SUBSET Int, IsFiniteSet(S), S # {}
  PROVE  Min(S) \in S /\ Max(S) \in S /\ \A y \in S : Min(S) <= y /\ y <= Max(S)
<1> DEFINE n == Cardinality(S)
<1>1. n \in Nat /\ ExistsBijection(1..n, S)
  BY FS_CardinalityType
<1>2. PICK f \in [1..n -> S] : \A x \in S : \E i \in 1..n : f[i] = x
  BY <1>1 DEF ExistsBijection, Bijection, Surjection
<1> HIDE DEF n
<1>3. n >= 1
  <2>1. PICK x \in S : TRUE
    OBVIOUS
  <2>2. PICK i \in 1..n : f[i] = x
    BY <1>2, <2>1
  <2> QED  BY <1>1, <2>2
<1>4. \A i \in 1..n : f[i] \in Int
  BY <1>2
<1> DEFINE T == {k \in 1..n : /\ \E m \in 1..k : \A i \in 1..k : f[m] <= f[i]
                              /\ \E m \in 1..k : \A i \in 1..k : f[i] <= f[m]}
<1>5. 1 \in T
  BY <1>3, <1>4
<1>6. ASSUME NEW k \in 1 + 1..n, k - 1 \in T
      PROVE  k \in T
  <2>1. k \in 1..n /\ k - 1 \in 1..n /\ k \in 1..k
    BY <1>1, <1>3
  <2>2. PICK a \in 1..k - 1, b \in 1..k - 1 :
          /\ \A i \in 1..k - 1 : f[a] <= f[i]
          /\ \A i \in 1..k - 1 : f[i] <= f[b]
    BY <1>6
  <2>3. /\ a \in 1..k /\ b \in 1..k /\ f[a] \in Int /\ f[b] \in Int /\ f[k] \in Int
        /\ \A i \in 1..k : i \in 1..n /\ f[i] \in Int /\ (i = k \/ i \in 1..k - 1)
    BY <1>1, <1>4, <2>1
  <2>4. \E m \in 1..k : \A i \in 1..k : f[m] <= f[i]
    <3>1. CASE f[a] <= f[k]
      <4>1. \A i \in 1..k : f[a] <= f[i]
        BY <2>2, <2>3, <3>1
      <4> QED  BY <2>3, <4>1
    <3>2. CASE ~(f[a] <= f[k])
      <4>1. \A i \in 1..k : f[k] <= f[i]
        BY <2>2, <2>3, <3>2
      <4> QED  BY <2>1, <4>1
    <3> QED  BY <3>1, <3>2
  <2>5. \E m \in 1..k : \A i \in 1..k : f[i] <= f[m]
    <3>1. CASE f[k] <= f[b]
      <4>1. \A i \in 1..k : f[i] <= f[b]
        BY <2>2, <2>3, <3>1
      <4> QED  BY <2>3, <4>1
    <3>2. CASE ~(f[k] <= f[b])
      <4>1. \A i \in 1..k : f[i] <= f[k]
        BY <2>2, <2>3, <3>2
      <4> QED  BY <2>1, <4>1
    <3> QED  BY <3>1, <3>2
  <2> QED  BY <2>1, <2>4, <2>5
<1>7. n \in T
  <2> HIDE DEF T
  <2>1. \A k \in 1..n : k \in T
    BY <1>1, <1>5, <1>6, Interval
  <2> QED  BY <1>1, <1>3, <2>1
<1>8. PICK a \in 1..n, b \in 1..n : /\ \A i \in 1..n : f[a] <= f[i]
                                    /\ \A i \in 1..n : f[i] <= f[b]
  BY <1>7
<1> HIDE DEF T
<1>9. f[a] \in S /\ f[b] \in S /\ (\A y \in S : f[a] <= y) /\ (\A y \in S : f[b] >= y)
  <2>1. \A y \in S : \E i \in 1..n : y = f[i] /\ f[a] <= f[i] /\ f[i] <= f[b]
    BY <1>2, <1>8
  <2>2. \A y \in S : y \in Int
    OBVIOUS
  <2> QED  BY <1>2, <1>4, <1>8, <2>1, <2>2
<1>10. Min(S) \in S /\ \A y \in S : Min(S) <= y
  BY <1>9, Zenon DEF Min
<1>11. Max(S) \in S /\ \A y \in S : Max(S) >= y
  BY <1>9, Zenon DEF Max
<1>12. \A y \in S : y \in Int
  OBVIOUS
<1> QED  BY <1>10, <1>11, <1>12

\* The coordinates of places have a least and a greatest.
LEMMA Coordinates ==
  ASSUME NEW S \in SUBSET (Int \X Int), IsFiniteSet(S), S # {}, NEW k \in 1..2
  PROVE  /\ Min({p[k] : p \in S}) \in Int /\ Max({p[k] : p \in S}) \in Int
         /\ \A q \in S : Min({p[k] : p \in S}) <= q[k] /\ q[k] <= Max({p[k] : p \in S})
<1> DEFINE f == [p \in S |-> p[k]]
           T == {p[k] : p \in S}
<1>1. IsFiniteSet({f[x] : x \in S})
  <2>1. DOMAIN f = S
    OBVIOUS
  <2> HIDE DEF f
  <2> QED  BY <2>1, FiniteImage
<1>2. {f[x] : x \in S} = T
  OBVIOUS
<1>3. T \in SUBSET Int /\ T # {}
  <2>1. \A p \in S : p[1] \in Int /\ p[2] \in Int /\ (k = 1 \/ k = 2)
    OBVIOUS
  <2> QED  BY <2>1
<1> HIDE DEF T, f
<1>4. Min(T) \in T /\ Max(T) \in T /\ \A y \in T : Min(T) <= y /\ y <= Max(T)
  BY <1>1, <1>2, <1>3, Extremes
<1>5. \A q \in S : q[k] \in T
  BY DEF T
<1> QED  BY <1>3, <1>4, <1>5 DEF T

\* A survey has places, finitely many.
LEMMA PlacesLaw ==
  ASSUME NEW survey \in Seq([at : Int \X Int, points : SUBSET (Int \X Int)]), survey # <<>>,
         \A i \in DOMAIN survey : IsFiniteSet(survey[i].points)
  PROVE  Places(survey) \in SUBSET (Int \X Int) /\ IsFiniteSet(Places(survey)) /\ Places(survey) # {}
<1> DEFINE n == Len(survey)
           f == [i \in 1..n |-> {survey[i].at} \union survey[i].points]
<1>1. n \in Nat /\ n # 0 /\ DOMAIN survey = 1..n
  BY LenProperties, EmptySeq
<1>2. ASSUME NEW i \in 1..n
      PROVE  survey[i].at \in Int \X Int /\ survey[i].points \in SUBSET (Int \X Int)
             /\ IsFiniteSet(survey[i].points)
  <2>1. survey[i] \in [at : Int \X Int, points : SUBSET (Int \X Int)]
    BY ElementOfSeq
  <2> QED  BY <1>1, <2>1
<1>3. Places(survey) = UNION {f[i] : i \in 1..n}
  BY <1>1 DEF Places
<1>4. ASSUME NEW i \in 1..n
      PROVE  f[i] \in SUBSET (Int \X Int) /\ IsFiniteSet(f[i]) /\ survey[i].at \in f[i]
  <2>1. IsFiniteSet({survey[i].at} \union survey[i].points)
    BY <1>2, FS_Singleton, FS_Union
  <2> QED  BY <1>2, <2>1
<1>5. IsFiniteSet({f[i] : i \in 1..n})
  <2>1. DOMAIN f = 1..n /\ IsFiniteSet(1..n)
    BY <1>1, FS_Interval
  <2> HIDE DEF f
  <2> QED  BY <2>1, FiniteImage
<1> HIDE DEF f, n
<1>6. IsFiniteSet(Places(survey))
  <2>1. \A S \in {f[i] : i \in 1..n} : IsFiniteSet(S)
    BY <1>4
  <2> QED  BY <1>3, <1>5, <2>1, FS_UNION
<1>7. 1 \in 1..n
  BY <1>1
<1>8. survey[1].at \in Places(survey)
  BY <1>3, <1>4, <1>7
<1>9. Places(survey) \in SUBSET (Int \X Int)
  BY <1>3, <1>4
<1> QED  BY <1>6, <1>8, <1>9

\* A grid drawn from a survey, and the image of it, cropped or not, have some columns and rows.
LEMMA GridSize ==
  ASSUME NEW survey \in Seq([at : Int \X Int, points : SUBSET (Int \X Int)]), survey # <<>>,
         \A i \in DOMAIN survey : IsFiniteSet(survey[i].points),
         NEW grid, grid = BuildOccupancyGrid(survey)
  PROVE  grid.width \in Int /\ grid.height \in Int /\ grid.origin \in Int \X Int
<1> DEFINE seen == Places(survey)
           Low(k) == ((Min({p[k] : p \in seen}) - CropMargin) \div Sub) * Sub
           High(k) == -((-(Max({p[k] : p \in seen}) + CropMargin)) \div Sub) * Sub
           Size(k) == Max({1, (High(k) - Low(k)) \div Sub})
<1>1. grid.width = Size(1) /\ grid.height = Size(2) /\ grid.origin = <<Low(1), Low(2)>>
  BY DEF BuildOccupancyGrid
<1>2. seen \in SUBSET (Int \X Int) /\ IsFiniteSet(seen) /\ seen # {}
  BY PlacesLaw
<1> HIDE DEF seen
<1>3. ASSUME NEW k \in 1..2
      PROVE  Size(k) \in Int /\ Low(k) \in Int
  <2>1. Min({p[k] : p \in seen}) \in Int /\ Max({p[k] : p \in seen}) \in Int
    BY <1>2, Coordinates
  <2>2. Sub \in Nat \ {0} /\ CropMargin \in Nat
    BY GridAssumption
  <2>3. Low(k) \in Int /\ High(k) \in Int
    <3> DEFINE least == Min({p[k] : p \in seen})
               most == Max({p[k] : p \in seen})
    <3>3. least \in Int /\ most \in Int
      BY <2>1
    <3>1. least - CropMargin \in Int /\ -(most + CropMargin) \in Int
      <4> HIDE DEF least, most
      <4> QED  BY <2>2, <3>3
    <3>2. \A i \in Int : (i \div Sub) * Sub \in Int /\ -(i \div Sub) * Sub \in Int
      BY <2>2
    <3> HIDE DEF least, most
    <3> QED  BY <3>1, <3>2 DEF least, most
  <2> HIDE DEF Low, High
  <2>4. (High(k) - Low(k)) \div Sub \in Int
    BY <2>2, <2>3
  <2> DEFINE d == (High(k) - Low(k)) \div Sub
  <2> HIDE DEF d
  <2>5. Max({1, d}) \in Int
    <3>1. d \in Int /\ 1 \in Int
      BY <2>4 DEF d
    <3> QED  BY <3>1, MaxOfTwo
  <2> QED  BY <2>3, <2>5 DEF d
<1> HIDE DEF Size, Low
<1>4. 1 \in 1..2 /\ 2 \in 1..2
  OBVIOUS
<1> QED  BY <1>1, <1>3, <1>4

\* A map has finitely many cells.
LEMMA ValidLaw ==
  ASSUME NEW map, map.width \in Int, map.height \in Int
  PROVE  Valid(map) \in SUBSET (Int \X Int) /\ IsFiniteSet(Valid(map))
<1> DEFINE W == 0..map.width - 1
           H == 0..map.height - 1
<1>1. Valid(map) = W \X H /\ W \subseteq Int /\ H \subseteq Int
  BY DEF Valid
<1>2. IsFiniteSet(W) /\ IsFiniteSet(H)
  BY FS_Interval
<1> HIDE DEF W, H
<1> QED  BY <1>1, <1>2, FS_Product

\* The size and origin of a cropped map.
LEMMA FinalizedSize ==
  ASSUME NEW map, map.width \in Int, map.height \in Int, map.origin \in Int \X Int,
         \E c \in Valid(map) : map.pixel[c] # Unknown,
         NEW r, r = FinalizeMap(map)
  PROVE  r.width \in Int /\ r.height \in Int /\ r.origin \in Int \X Int
<1> DEFINE known == {c \in Valid(map) : map.pixel[c] # Unknown}
           keep == CropBounds(map)
<1>1. known \in SUBSET (Int \X Int) /\ IsFiniteSet(known) /\ known # {}
  BY ValidLaw, FS_Subset
<1>2. /\ keep.left = Max({0, Min({c[1] : c \in known}) - Padding})
      /\ keep.right = Min({map.width - 1, Max({c[1] : c \in known}) + Padding})
      /\ keep.top = Max({0, Min({c[2] : c \in known}) - Padding})
      /\ keep.bottom = Min({map.height - 1, Max({c[2] : c \in known}) + Padding})
  BY DEF CropBounds
<1>3. /\ r.width = keep.right - keep.left + 1 /\ r.height = keep.bottom - keep.top + 1
      /\ r.origin = <<map.origin[1] + keep.left * Sub, map.origin[2] + (map.height - 1 - keep.bottom) * Sub>>
  BY DEF FinalizeMap, NewOrigin
<1> HIDE DEF known, keep
<1>4. Padding \in Int
  BY GridAssumption
<1>5. /\ Min({c[1] : c \in known}) \in Int /\ Max({c[1] : c \in known}) \in Int
      /\ Min({c[2] : c \in known}) \in Int /\ Max({c[2] : c \in known}) \in Int
  <2>1. 1 \in 1..2 /\ 2 \in 1..2
    OBVIOUS
  <2> QED  BY <1>1, <2>1, Coordinates
<1>6. \A a, b \in Int : Max({a, b}) \in Int /\ Min({a, b}) \in Int
  BY MaxOfTwo, MinOfTwo
<1> DEFINE low(k) == Min({c[k] : c \in known})
           high(k) == Max({c[k] : c \in known})
<1>7. /\ low(1) - Padding \in Int /\ low(2) - Padding \in Int /\ 0 \in Int
      /\ high(1) + Padding \in Int /\ high(2) + Padding \in Int
      /\ map.width - 1 \in Int /\ map.height - 1 \in Int
  BY <1>4, <1>5
<1>8. /\ keep.left = Max({0, low(1) - Padding}) /\ keep.right = Min({map.width - 1, high(1) + Padding})
      /\ keep.top = Max({0, low(2) - Padding}) /\ keep.bottom = Min({map.height - 1, high(2) + Padding})
  BY <1>2
<1> HIDE DEF low, high
<1>9. keep.left \in Int /\ keep.right \in Int /\ keep.top \in Int /\ keep.bottom \in Int
  <2>1. Max({0, low(1) - Padding}) \in Int /\ Max({0, low(2) - Padding}) \in Int
    BY <1>6, <1>7
  <2>2. Min({map.width - 1, high(1) + Padding}) \in Int /\ Min({map.height - 1, high(2) + Padding}) \in Int
    BY <1>6, <1>7
  <2> QED  BY <1>8, <2>1, <2>2
<1>10. map.origin[1] + keep.left * Sub \in Int /\ map.origin[2] + (map.height - 1 - keep.bottom) * Sub \in Int
  BY <1>9, GridAssumption
<1> QED  BY <1>3, <1>9, <1>10

\* The size and origin of the planner's map.
LEMMA MapLaw ==
  ASSUME NEW s \in Site
  PROVE  MapOf[s].width \in Int /\ MapOf[s].height \in Int /\ MapOf[s].origin \in Int \X Int
<1> DEFINE grid == BuildOccupancyGrid(s.survey)
           saved == SavedMap(grid)
           map == IF s.cropped THEN FinalizeMap(saved) ELSE saved
<1>1. grid.width \in Int /\ grid.height \in Int /\ grid.origin \in Int \X Int
  BY SiteAssumption, GridSize
<1>2. Grid[s] = grid
  BY OnceLaw DEF Grid
<1>3. saved.width = grid.width /\ saved.height = grid.height /\ saved.origin = grid.origin
  BY DEF SavedMap
<1>4. Valid(saved) = Valid(grid)
  BY <1>3 DEF Valid
<1>5. map.width \in Int /\ map.height \in Int /\ map.origin \in Int \X Int
  <2>1. CASE s.cropped
    <3>1. \E c \in Valid(saved) : saved.pixel[c] # Unknown
      BY <1>4, <2>1, SiteAssumption
    <3> HIDE DEF saved
    <3>2. /\ FinalizeMap(saved).width \in Int /\ FinalizeMap(saved).height \in Int
          /\ FinalizeMap(saved).origin \in Int \X Int
      BY <1>1, <1>3, <3>1, FinalizedSize
    <3> QED  BY <2>1, <3>2
  <2>2. CASE ~s.cropped
    BY <1>1, <1>3, <2>2
  <2> QED  BY <2>1, <2>2
<1>6. MapOf[s] = LoadMap(map, MapInflation)
  <2>1. MapOf[s] = LET m == SavedMap(Grid[s])
                   IN LoadMap(IF s.cropped THEN FinalizeMap(m) ELSE m, MapInflation)
    BY OnceLaw DEF MapOf
  <2> QED  BY <1>2, <2>1
<1> HIDE DEF map
<1>7. MapOf[s].width = map.width /\ MapOf[s].height = map.height /\ MapOf[s].origin = map.origin
  BY <1>6 DEF LoadMap
<1> QED  BY <1>5, <1>7

\* The planner's free cells are finitely many.
LEMMA FreeLaw ==
  ASSUME NEW s \in Site, NEW over \in Layers
  PROVE  /\ FreeOf[<<s, over>>] \in SUBSET (Int \X Int)
         /\ IsFiniteSet(FreeOf[<<s, over>>])
<1>1. Valid(MapOf[s]) \in SUBSET (Int \X Int) /\ IsFiniteSet(Valid(MapOf[s]))
  BY MapLaw, ValidLaw
<1>2. FreeOf[<<s, over>>] = FreeCells(MapOf[s], over)
  BY OnceLaw DEF FreeOf
<1>3. FreeCells(MapOf[s], over) \in SUBSET Valid(MapOf[s])
  BY DEF FreeCells
<1> QED  BY <1>1, <1>2, <1>3, FS_Subset

\* A place of the world has a cell of the planner's.
LEMMA PlannerCellLaw ==
  ASSUME NEW s \in Site, NEW place \in Int \X Int
  PROVE  PlannerCell(place, MapOf[s]) \in Int \X Int
<1> DEFINE map == MapOf[s]
           cell == ImageCell(place, map)
<1>1. map.width \in Int /\ map.height \in Int /\ map.origin \in Int \X Int
  BY MapLaw
<1> HIDE DEF map
<1>2. cell[1] \in Int /\ cell[2] \in Int
  <2> DEFINE x == place[1] - map.origin[1]
             y == place[2] - map.origin[2]
  <2>1. cell[1] = x \div Sub /\ cell[2] = map.height - 1 - y \div Sub
    BY DEF ImageCell, CellAt
  <2>2. x \in Int /\ y \in Int
    BY <1>1
  <2> HIDE DEF x, y
  <2>3. x \div Sub \in Int /\ y \div Sub \in Int
    BY <2>2, GridAssumption
  <2> QED  BY <1>1, <2>1, <2>3
<1> HIDE DEF cell
<1> DEFINE column == Min({map.width - 1, cell[1]})
           row == Min({map.height - 1, cell[2]})
<1>3. column \in Int /\ row \in Int
  <2>1. map.width - 1 \in Int /\ map.height - 1 \in Int
    BY <1>1
  <2> QED  BY <1>2, <2>1, MinOfTwo
<1>4. PlannerCell(place, map) = <<Max({0, column}), Max({0, row})>>
  BY DEF PlannerCell, cell
<1> HIDE DEF column, row
<1>5. Max({0, column}) \in Int /\ Max({0, row}) \in Int
  <2>1. 0 \in Int
    OBVIOUS
  <2> QED  BY <1>3, <2>1, MaxOfTwo
<1> QED  BY <1>4, <1>5 DEF map

-----------------------------------------------------------------------------
\* Publications.

LEMMA LengthTyped ==
  ASSUME NEW free \in SUBSET (Int \X Int), NEW from, NEW to, NEW w, Walk(w, from, to, free)
  PROVE  PathLength(w) \in Nat
<1>1. PICK sum : Adds(sum, w)
  BY PathLengthLaw, Zenon
<1>2. Len(w) \in Nat /\ Len(w) >= 1
  BY WalkSize
<1> QED  BY <1>1, <1>2 DEF Adds

\* What is published for a plan of a site.
LEMMA PublicationLaw ==
  ASSUME NEW s \in Site, NEW plan \in Plans,
         NEW free, free = FreeOf[<<s, plan.over>>],
         NEW route, route = Publication[<<s, plan>>]
  PROVE  /\ free \in SUBSET (Int \X Int) /\ IsFiniteSet(free)
         /\ route.free = free
         /\ route.asks.from \in Int \X Int /\ route.from = NearestFree(route.asks.from, free)
         /\ route.asks.to \in Int \X Int /\ route.to = NearestFree(route.asks.to, free)
         /\ route.cells = FindPath(route.from, route.to, free)
         /\ route.waypoints = Smooth(route.cells, free)
<1>1. plan.over \in Layers /\ plan.start \in Int \X Int /\ plan.goal \in Int \X Int
  BY RequestsAssumption, PlannedAssumption DEF Plans, StartCells, GoalCells
<1>2. route = Published(plan, MapOf[s], free, Grid[s])
  BY OnceLaw DEF Publication
<1>3. /\ route.free = free
      /\ route.from = NearestFree(route.asks.from, free)
      /\ route.to = NearestFree(route.asks.to, free)
      /\ route.cells = FindPath(route.from, route.to, free)
      /\ route.waypoints = Smooth(route.cells, free)
  BY <1>2 DEF Published
<1>4. free \in SUBSET (Int \X Int) /\ IsFiniteSet(free)
  BY <1>1, FreeLaw
<1>5. route.asks.from \in Int \X Int /\ route.asks.to \in Int \X Int
  <2>1. route.asks.from = PlannerCell(plan.start, MapOf[s]) /\ route.asks.to = PlannerCell(plan.goal, MapOf[s])
    BY <1>2 DEF Published
  <2> QED  BY <1>1, <2>1, PlannerCellLaw
<1> QED  BY <1>3, <1>4, <1>5

\* The waypoints of a publication stay free.
LEMMA SmoothedLaw ==
  ASSUME NEW s \in Site, NEW plan \in Plans, NEW route, route = Publication[<<s, plan>>]
  PROVE  SmoothedStaysFree(route, route.waypoints) /\ route.waypoints \in Seq(Int \X Int)
<1> DEFINE free == FreeOf[<<s, plan.over>>]
           cells == route.cells
           points == route.waypoints
           n == Len(cells)
<1>1. /\ free \in SUBSET (Int \X Int) /\ IsFiniteSet(free)
      /\ route.free = free
      /\ cells = FindPath(route.from, route.to, free)
      /\ points = Smooth(cells, free)
  BY PublicationLaw
<1> HIDE DEF free, cells, points
<1>2. cells \in Seq(free) /\ (cells # <<>> => Walk(cells, route.from, route.to, free))
  BY <1>1, FindPathLaw
<1>3. /\ points \in Seq(Int \X Int) /\ Len(points) = n
      /\ \A i \in 1..n : CellOf(points[i]) \in free
      /\ cells # <<>> => CellOf(points[1]) = cells[1] /\ CellOf(points[n]) = cells[n]
  <2>1. free \in SUBSET (Int \X Int) /\ cells \in Seq(free) /\ points = Smooth(cells, free)
    BY <1>1, <1>2
  <2>2. Smoothed(points, cells, free)
    BY <2>1, SmoothLaw
  <2> QED  BY <2>2 DEF Smoothed
<1>4. cells # <<>> => cells[1] = route.from /\ cells[n] = route.to
  BY <1>2 DEF Walk
<1>5. DOMAIN points = 1..n
  BY <1>3
<1>6. Last(points) = points[n]
  BY <1>3 DEF Last
<1>7. \A p \in ToSet(points) : CellOf(p) \in route.free
  <2>1. SUFFICES ASSUME NEW p \in ToSet(points) PROVE CellOf(p) \in route.free
    OBVIOUS
  <2>2. PICK i \in 1..n : p = points[i]
    BY <1>5 DEF ToSet
  <2> QED  BY <1>1, <1>3, <2>2
<1> QED  BY <1>3, <1>4, <1>6, <1>7 DEF SmoothedStaysFree, cells, points

\* The cells of a publication are a shortest walk.
LEMMA ShortestLaw ==
  ASSUME NEW s \in Site, NEW plan \in Plans, NEW route, route = Publication[<<s, plan>>]
  PROVE  IsShortest(route, route.cells, Shortest[<<s, plan>>])
<1> DEFINE free == FreeOf[<<s, plan.over>>]
           cells == route.cells
           from == route.from
           to == route.to
           dist == Shortest[<<s, plan>>]
<1>1. /\ free \in SUBSET (Int \X Int) /\ IsFiniteSet(free)
      /\ route.free = free
      /\ cells = FindPath(from, to, free)
  BY PublicationLaw
<1>2. dist = IF from \in free THEN Distances(from, free) ELSE << >>
  <2>1. Publication = [o \in Site \X Plans |->
                        Published(o[2], MapOf[o[1]], FreeOf[<<o[1], o[2].over>>], Grid[o[1]])]
    BY OnceLaw DEF Publication
  <2>2. <<s, plan>> \in DOMAIN Publication
    BY <2>1
  <2>3. Shortest = [case \in DOMAIN Publication |->
                      IF Publication[case].from \in Publication[case].free
                      THEN Distances(Publication[case].from, Publication[case].free) ELSE << >>]
    BY OnceLaw DEF Shortest
  <2>4. dist = IF route.from \in route.free THEN Distances(route.from, route.free) ELSE << >>
    BY <2>2, <2>3
  <2> QED  BY <1>1, <2>4
<1> HIDE DEF free, cells, from, to, dist
<1>3. /\ cells \in Seq(free)
      /\ cells # <<>> => Walk(cells, from, to, free)
      /\ \A w : Walk(w, from, to, free) => cells # <<>> /\ PathLength(cells) <= PathLength(w)
  BY <1>1, FindPathLaw
<1>4. CASE cells = <<>>
  <2>1. SUFFICES ASSUME to \in DOMAIN dist PROVE FALSE
    BY <1>4 DEF IsShortest, cells, to, dist
  <2>2. from \in free
    <3>1. DOMAIN << >> = {}
      OBVIOUS
    <3> QED  BY <1>2, <2>1, <3>1
  <2>3. dist = Distances(from, free)
    BY <1>2, <2>2
  <2>4. PICK w : Walk(w, from, to, free) /\ dist[to] = PathLength(w)
    BY <1>1, <2>1, <2>2, <2>3, DistancesLaw
  <2> QED  BY <1>3, <1>4, <2>4
<1>5. CASE cells # <<>>
  <2>1. Walk(cells, from, to, free)
    BY <1>3, <1>5
  <2>2. /\ Len(cells) \in Nat /\ Len(cells) >= 1 /\ from \in free /\ to \in free
        /\ \A i \in 1..Len(cells) : cells[i] \in free
    BY <2>1, WalkSize
  <2>3. dist = Distances(from, free)
    BY <1>2, <2>2
  <2>4. to \in DOMAIN dist /\ dist[to] <= PathLength(cells)
    BY <1>1, <2>1, <2>2, <2>3, DistancesLaw
  <2>5. PICK w : Walk(w, from, to, free) /\ dist[to] = PathLength(w)
    BY <1>1, <2>2, <2>3, <2>4, DistancesLaw
  <2>6. PathLength(cells) <= dist[to]
    BY <1>3, <2>5
  <2>7. PathLength(cells) \in Nat /\ PathLength(w) \in Nat
    BY <1>1, <2>1, <2>5, LengthTyped
  <2>8. PathLength(cells) = dist[to]
    BY <2>4, <2>5, <2>6, <2>7
  <2>9. cells[1] = from /\ Last(cells) = to
    BY <2>1 DEF Walk, Last
  <2>10. ToSet(cells) \subseteq free
    BY <1>3, <2>2 DEF ToSet
  <2>11. ASSUME NEW i \in 1..Len(cells) - 1
         PROVE  /\ Chebyshev(cells[i], cells[i + 1]) = 1
                /\ {<<cells[i][1], cells[i + 1][2]>>, <<cells[i + 1][1], cells[i][2]>>} \subseteq free
    <3>1. Joined(cells[i], cells[i + 1], free)
      BY <2>1 DEF Walk
    <3> QED  BY <3>1 DEF Joined
  <2> QED  BY <1>1, <1>5, <2>8, <2>9, <2>10, <2>11 DEF IsShortest, cells, from, to, dist
<1> QED  BY <1>4, <1>5

\* The ends of a publication are moved as little as can be.
LEMMA EndsLaw ==
  ASSUME NEW s \in Site, NEW plan \in Plans, NEW route, route = Publication[<<s, plan>>]
  PROVE  EndsMoveLeast(route)
<1> DEFINE free == FreeOf[<<s, plan.over>>]
<1>1. /\ free \in SUBSET (Int \X Int) /\ route.free = free
      /\ route.asks.from \in Int \X Int /\ route.from = NearestFree(route.asks.from, free)
      /\ route.asks.to \in Int \X Int /\ route.to = NearestFree(route.asks.to, free)
  BY PublicationLaw
<1> HIDE DEF free
<1>2. MovedLeast(route.from, route.asks.from, free)
  BY <1>1, NearestFreeLaw
<1>3. MovedLeast(route.to, route.asks.to, free)
  BY <1>1, NearestFreeLaw
<1> QED  BY <1>1, <1>2, <1>3 DEF EndsMoveLeast

\* The requests of a planned run are those of PathRequests, over one of the sites.
LEMMA RequestsOfPlanned == PlannedSpec => Spec /\ [](site \in Site)
<1>1. PlannedInit => Init /\ site \in Site
  BY DEF PlannedInit
<1>2. [PlannedNext]_plannedVars => [Next]_vars
  BY DEF PlannedNext, plannedVars
<1>3. site \in Site /\ [PlannedNext]_plannedVars => (site \in Site)'
  BY DEF PlannedNext, plannedVars
<1> QED  BY <1>1, <1>2, <1>3, PTL DEF PlannedSpec, Spec

\* The three smoothings of plan_and_publish_path (Nav2SimpleSmoother) leave every waypoint
\* over a cell that is free, and the first and the last where they were.
THEOREM PathsStayFree == PlannedSpec => []SmoothedPathsStayFree
<1>1. TypeOK /\ site \in Site => SmoothedPathsStayFree
  BY SmoothedLaw DEF TypeOK, SmoothedPathsStayFree
<1> QED  BY <1>1, RequestsOfPlanned, TypeCorrect, PTL

\* A* (AStar::findPath) returns a walk over free cells that no other is shorter than, and
\* none only if there is none.
THEOREM ShortestRoutes == PlannedSpec => []RoutesAreShortest
<1>1. TypeOK /\ site \in Site => RoutesAreShortest
  BY ShortestLaw DEF TypeOK, RoutesAreShortest
<1> QED  BY <1>1, RequestsOfPlanned, TypeCorrect, PTL

\* A start or goal in an obstacle moves to the nearest free cell (nearest_free_point), on
\* every map and with every layer.
THEOREM NearestCells == PlannedSpec => []PointsMoveLeast
<1>1. TypeOK /\ site \in Site => PointsMoveLeast
  BY EndsLaw DEF TypeOK, PointsMoveLeast
<1> QED  BY <1>1, RequestsOfPlanned, TypeCorrect, PTL

-----------------------------------------------------------------------------
\* The cells a beam crosses.

\* The sides of the line, and the way it goes along each.
Wide(from, to) == Abs(to[1] - from[1])
Tall(from, to) == Abs(to[2] - from[2])
East(from, to) == IF from[1] < to[1] THEN 1 ELSE -1
North(from, to) == IF from[2] < to[2] THEN 1 ELSE -1

\* A step of the line, and the walk that takes it n times.
Stepped(at, from, to) ==
  LET along == IF 2 * at.error >= -Tall(from, to) THEN 1 ELSE 0
      up == IF 2 * at.error <= Wide(from, to) THEN 1 ELSE 0
  IN [cell |-> <<at.cell[1] + along * East(from, to), at.cell[2] + up * North(from, to)>>,
      error |-> at.error + along * (-Tall(from, to)) + up * Wide(from, to)]

LineFrom(from, to) == [cell |-> from, error |-> Wide(from, to) + (-Tall(from, to))]

DrawnLine(h, n, from, to) ==
  h = [i \in 0..n |-> IF i = 0 THEN LineFrom(from, to) ELSE Stepped(h[i - 1], from, to)]

\* Twice an offset is within a length.
HalfOf(offset, length) == -length <= 2 * offset /\ 2 * offset <= length

\* Steps along both sides that stay on the line, the longer side at every step.
OnLine(s, i, from, to) ==
  \E a, b \in Nat :
    LET w == Wide(from, to)
        t == Tall(from, to)
        off == w * b - t * a
    IN /\ s.cell = <<from[1] + a * East(from, to), from[2] + b * North(from, to)>>
       /\ s.error = w - t + off
       /\ w >= t => a = i /\ HalfOf(off, w)
       /\ w < t => b = i /\ HalfOf(off, t)

\* How a step is chosen by the error.
Chosen(along, up, off, w, t) ==
  /\ along = IF 2 * (w - t + off) >= -t THEN 1 ELSE 0
  /\ up = IF 2 * (w - t + off) <= w THEN 1 ELSE 0

\* The offset after a step.
LEMMA OffsetLaw ==
  ASSUME NEW w \in Nat, NEW t \in Nat, NEW off \in Int, NEW along, NEW up, Chosen(along, up, off, w, t),
         NEW next, next = off + up * w - along * t
  PROVE  /\ w >= t /\ HalfOf(off, w) => along = 1 /\ HalfOf(next, w)
         /\ w < t /\ HalfOf(off, t) => up = 1 /\ HalfOf(next, t)
<1>1. CASE 2 * (w - t + off) >= -t /\ 2 * (w - t + off) <= w
  <2>1. along = 1 /\ up = 1 /\ next = off + w - t
    BY <1>1 DEF Chosen
  <2> QED  BY <1>1, <2>1 DEF HalfOf
<1>2. CASE 2 * (w - t + off) >= -t /\ ~(2 * (w - t + off) <= w)
  <2>1. along = 1 /\ up = 0 /\ next = off - t
    BY <1>2 DEF Chosen
  <2> QED  BY <1>2, <2>1 DEF HalfOf
<1>3. CASE ~(2 * (w - t + off) >= -t) /\ 2 * (w - t + off) <= w
  <2>1. along = 0 /\ up = 1 /\ next = off + w
    BY <1>3 DEF Chosen
  <2> QED  BY <1>3, <2>1 DEF HalfOf
<1>4. CASE ~(2 * (w - t + off) >= -t) /\ ~(2 * (w - t + off) <= w)
  BY <1>4 DEF HalfOf
<1> QED  BY <1>1, <1>2, <1>3, <1>4

\* The sides are what they should be.
LEMMA SidesLaw ==
  ASSUME NEW from \in Int \X Int, NEW to \in Int \X Int
  PROVE  /\ Wide(from, to) \in Nat /\ Tall(from, to) \in Nat
         /\ East(from, to) \in {1, -1} /\ North(from, to) \in {1, -1}
         /\ to[1] = from[1] + Wide(from, to) * East(from, to)
         /\ to[2] = from[2] + Tall(from, to) * North(from, to)
BY DEF Wide, Tall, East, North, Abs

\* A step stays on the line.
LEMMA SteppedLaw ==
  ASSUME NEW from \in Int \X Int, NEW to \in Int \X Int, NEW i \in Nat, NEW s, OnLine(s, i, from, to)
  PROVE  OnLine(Stepped(s, from, to), i + 1, from, to)
<1> DEFINE w == Wide(from, to)
           t == Tall(from, to)
           x == East(from, to)
           y == North(from, to)
           r == Stepped(s, from, to)
           along == IF 2 * s.error >= -t THEN 1 ELSE 0
           up == IF 2 * s.error <= w THEN 1 ELSE 0
<1>1. w \in Nat /\ t \in Nat /\ x \in {1, -1} /\ y \in {1, -1}
  BY SidesLaw
<1>2. PICK a \in Nat, b \in Nat :
        /\ s.cell = <<from[1] + a * x, from[2] + b * y>>
        /\ s.error = w - t + (w * b - t * a)
        /\ w >= t => a = i /\ HalfOf(w * b - t * a, w)
        /\ w < t => b = i /\ HalfOf(w * b - t * a, t)
  BY DEF OnLine
<1>3. r.cell = <<s.cell[1] + along * x, s.cell[2] + up * y>> /\ r.error = s.error + along * (-t) + up * w
  BY DEF Stepped
<1> HIDE DEF w, t, x, y, r
<1> DEFINE off == w * b - t * a
           next == off + up * w - along * t
<1>4. off \in Int /\ s.error = w - t + off
  BY <1>1, <1>2
<1>5. Chosen(along, up, off, w, t)
  BY <1>4 DEF Chosen
<1>6. along \in {0, 1} /\ up \in {0, 1}
  OBVIOUS
<1> HIDE DEF along, up
<1>7. next = w * (b + up) - t * (a + along)
  <2>1. CASE along = 0 /\ up = 0
    BY <1>1, <2>1
  <2>2. CASE along = 0 /\ up = 1
    BY <1>1, <2>2
  <2>3. CASE along = 1 /\ up = 0
    BY <1>1, <2>3
  <2>4. CASE along = 1 /\ up = 1
    BY <1>1, <2>4
  <2> QED  BY <1>6, <2>1, <2>2, <2>3, <2>4
<1>8. /\ w >= t /\ HalfOf(off, w) => along = 1 /\ HalfOf(next, w)
      /\ w < t /\ HalfOf(off, t) => up = 1 /\ HalfOf(next, t)
  <2> HIDE DEF off
  <2>1. next = off + up * w - along * t
    OBVIOUS
  <2> HIDE DEF next
  <2> QED  BY <1>1, <1>4, <1>5, <2>1, OffsetLaw
<1> DEFINE c == a + along
           d == b + up
<1>9. c \in Nat /\ d \in Nat
  BY <1>6
<1>10. r.cell = <<from[1] + c * x, from[2] + d * y>>
  <2>1. from[1] \in Int /\ from[2] \in Int
    OBVIOUS
  <2>2. from[1] + a * x + along * x = from[1] + c * x /\ from[2] + b * y + up * y = from[2] + d * y
    BY <1>1, <1>6, <2>1
  <2> QED  BY <1>2, <1>3, <2>2
<1>11. r.error = w - t + next
  <2> HIDE DEF off
  <2>1. along * (-t) = -(along * t) /\ up * w \in Int /\ along * t \in Int
    BY <1>1, <1>6
  <2> QED  BY <1>1, <1>3, <1>4, <2>1
<1>12. (w >= t => c = i + 1 /\ HalfOf(next, w)) /\ (w < t => d = i + 1 /\ HalfOf(next, t))
  <2> HIDE DEF next
  <2>1. (w >= t => a = i /\ HalfOf(off, w)) /\ (w < t => b = i /\ HalfOf(off, t))
    BY <1>2
  <2> HIDE DEF off
  <2> QED  BY <1>8, <2>1
<1> HIDE DEF c, d, next
<1>13. next = w * d - t * c
  BY <1>7 DEF c, d
<1> QED  BY <1>9, <1>10, <1>11, <1>12, <1>13 DEF OnLine, w, t, x, y, r

\* A walk begins on the line.
LEMMA LineFromLaw ==
  ASSUME NEW from \in Int \X Int, NEW to \in Int \X Int
  PROVE  OnLine(LineFrom(from, to), 0, from, to)
<1> DEFINE w == Wide(from, to)
           t == Tall(from, to)
           x == East(from, to)
           y == North(from, to)
           s == LineFrom(from, to)
<1>1. w \in Nat /\ t \in Nat /\ x \in {1, -1} /\ y \in {1, -1}
  BY SidesLaw
<1>2. s.cell = from /\ s.error = w + (-t)
  BY DEF LineFrom
<1> HIDE DEF w, t, x, y, s
<1>3. 0 \in Nat /\ w * 0 - t * 0 = 0 /\ HalfOf(0, w) /\ HalfOf(0, t)
  BY <1>1 DEF HalfOf
<1>4. s.cell = <<from[1] + 0 * x, from[2] + 0 * y>>
  BY <1>1, <1>2
<1>5. s.error = w - t + (w * 0 - t * 0)
  BY <1>1, <1>2, <1>3
<1> QED  BY <1>3, <1>4, <1>5 DEF OnLine, w, t, x, y, s

\* The steps are a function, and all of them on the line.
LEMMA DrawnLaw ==
  ASSUME NEW from \in Int \X Int, NEW to \in Int \X Int, NEW n \in Nat
  PROVE  /\ \E h : DrawnLine(h, n, from, to)
         /\ \A h : DrawnLine(h, n, from, to) => \A i \in 0..n : OnLine(h[i], i, from, to)
<1> DEFINE S == [cell : Int \X Int, error : Int]
           first == LineFrom(from, to)
           step == [z \in Nat \X S |-> Stepped(z[2], from, to)]
<1>1. /\ Wide(from, to) \in Nat /\ Tall(from, to) \in Nat
      /\ East(from, to) \in Int /\ North(from, to) \in Int
  BY SidesLaw
<1>2. first \in S
  BY <1>1 DEF LineFrom
<1>3. ASSUME NEW s \in S
      PROVE  Stepped(s, from, to) \in S
  BY <1>1 DEF Stepped
<1> HIDE DEF S
<1>4. step \in [Nat \X S -> S]
  BY <1>3
<1>5. PICK f \in [0..n -> S] : Iterated(f, 0, n, first, step)
  <2> HIDE DEF step, first
  <2>1. 0 \in Nat /\ 0 <= n
    OBVIOUS
  <2> QED  BY <1>2, <1>4, <2>1, Recursion
<1> HIDE DEF first
<1>6. f[0] = first
  BY <1>5 DEF Iterated
<1>7. ASSUME NEW k \in 0..n, k # 0
      PROVE  f[k] = Stepped(f[k - 1], from, to)
  <2>1. k \in 0 + 1..n /\ k - 1 \in 0..n /\ k \in Nat
    BY <1>7
  <2>2. f[k] = step[<<k, f[k - 1]>>]
    BY <1>5, <2>1 DEF Iterated
  <2>3. f[k - 1] \in S
    BY <1>5, <2>1
  <2> QED  BY <2>1, <2>2, <2>3
<1>8. DrawnLine(f, n, from, to)
  BY <1>5, <1>6, <1>7 DEF DrawnLine, first
<1>9. ASSUME NEW h, DrawnLine(h, n, from, to)
      PROVE  \A i \in 0..n : OnLine(h[i], i, from, to)
  <2> DEFINE T == {k \in 0..n : OnLine(h[k], k, from, to)}
  <2>1. 0 \in T
    <3>1. 0 \in 0..n /\ h[0] = first
      BY <1>9 DEF DrawnLine, first
    <3> QED  BY <3>1, LineFromLaw DEF first
  <2>2. ASSUME NEW k \in 0 + 1..n, k - 1 \in T
        PROVE  k \in T
    <3>1. k \in 0..n /\ k # 0 /\ k - 1 \in Nat /\ (k - 1) + 1 = k
      OBVIOUS
    <3>2. h[k] = Stepped(h[k - 1], from, to)
      BY <1>9, <3>1 DEF DrawnLine
    <3>3. OnLine(h[k - 1], k - 1, from, to)
      BY <2>2
    <3>4. OnLine(Stepped(h[k - 1], from, to), (k - 1) + 1, from, to)
      BY <3>1, <3>3, SteppedLaw
    <3> QED  BY <3>1, <3>2, <3>4
  <2> HIDE DEF T
  <2>3. 0 \in Nat
    OBVIOUS
  <2>4. \A k \in 0..n : k \in T
    BY <2>1, <2>2, <2>3, Interval
  <2> QED  BY <2>4 DEF T
<1> QED  BY <1>8, <1>9

\* A line that is not at its end has gone less than its way along either side.
LEMMA WayLaw ==
  ASSUME NEW w \in Nat, NEW t \in Nat, t <= w, NEW a \in 0..w - 1, NEW b \in Nat, HalfOf(w * b - t * a, w)
  PROVE  b <= t
<1> SUFFICES ASSUME b >= t + 1 PROVE FALSE
  OBVIOUS
<1>1. w * b >= w * (t + 1) /\ t * a <= t * w
  <2>1. w * (b - (t + 1)) >= 0 /\ t * (w - a) >= 0
    OBVIOUS
  <2> QED  BY <2>1
<1>2. w * (t + 1) = w * t + w /\ t * w = w * t /\ w * t \in Nat
  OBVIOUS
<1> DEFINE p == w * b
           q == t * a
           r == w * t
<1>3. p \in Int /\ q \in Int /\ r \in Int /\ p >= r + w /\ q <= r /\ 2 * (p - q) <= w
  BY <1>1, <1>2 DEF HalfOf
<1> HIDE DEF p, q, r
<1> QED  BY <1>3

\* A cell on the way lies near the line and is not the last.
LEMMA OnLineLaw ==
  ASSUME NEW from \in Int \X Int, NEW to \in Int \X Int, NEW i \in Nat,
         i < Wide(from, to) \/ i < Tall(from, to), NEW s, OnLine(s, i, from, to)
  PROVE  NearLine(s.cell, from, to) /\ s.cell # to
<1> DEFINE w == Wide(from, to)
           t == Tall(from, to)
           x == East(from, to)
           y == North(from, to)
           d == <<to[1] - from[1], to[2] - from[2]>>
           c == s.cell
           e == <<c[1] - from[1], c[2] - from[2]>>
<1>1. /\ w \in Nat /\ t \in Nat /\ x \in {1, -1} /\ y \in {1, -1}
      /\ to[1] = from[1] + w * x /\ to[2] = from[2] + t * y
  BY SidesLaw
<1>2. PICK a \in Nat, b \in Nat :
        /\ s.cell = <<from[1] + a * x, from[2] + b * y>>
        /\ w >= t => a = i /\ HalfOf(w * b - t * a, w)
        /\ w < t => b = i /\ HalfOf(w * b - t * a, t)
  BY DEF OnLine
<1>3. i < w \/ i < t
  OBVIOUS
<1>4. Abs(to[1] - from[1]) = w /\ Abs(to[2] - from[2]) = t
  BY DEF Wide, Tall
<1> HIDE DEF w, t, x, y
<1>5. /\ a <= w /\ b <= t /\ (a # w \/ b # t)
      /\ HalfOf(w * b - t * a, Max({w, t}))
  <2>1. Max({w, t}) = IF w >= t THEN w ELSE t
    BY <1>1, MaxOfTwo
  <2>2. CASE w >= t
    <3>1. a = i /\ i < w /\ HalfOf(w * b - t * a, w) /\ Max({w, t}) = w
      BY <1>1, <1>2, <1>3, <2>1, <2>2
    <3>2. a \in 0..w - 1
      BY <1>1, <3>1
    <3>3. b <= t
      BY <1>1, <2>2, <3>1, <3>2, WayLaw
    <3> QED  BY <1>1, <3>1, <3>2, <3>3
  <2>3. CASE w < t
    <3>1. b = i /\ i < t /\ HalfOf(w * b - t * a, t) /\ Max({w, t}) = t
      BY <1>1, <1>2, <1>3, <2>1, <2>3
    <3>2. b \in 0..t - 1 /\ w <= t
      BY <1>1, <2>3, <3>1
    <3>3. HalfOf(t * a - w * b, t)
      <4> DEFINE p == w * b
                 q == t * a
      <4>1. p \in Int /\ q \in Int /\ HalfOf(p - q, t)
        BY <1>1, <3>1
      <4> HIDE DEF p, q
      <4>2. HalfOf(q - p, t)
        BY <1>1, <4>1 DEF HalfOf
      <4> QED  BY <4>2 DEF p, q
    <3>4. a <= w
      BY <1>1, <3>2, <3>3, WayLaw
    <3> QED  BY <1>1, <3>1, <3>2, <3>4
  <2> QED  BY <1>1, <2>2, <2>3
<1>6. from[1] \in Int /\ from[2] \in Int /\ c[1] = from[1] + a * x /\ c[2] = from[2] + b * y
  BY <1>2
<1>7. c # to
  <2>1. x = 1 \/ x = -1
    BY <1>1
  <2>2. y = 1 \/ y = -1
    BY <1>1
  <2>3. a # w => c[1] # to[1]
    BY <1>1, <1>6, <2>1
  <2>4. b # t => c[2] # to[2]
    BY <1>1, <1>6, <2>2
  <2> QED  BY <1>5, <2>3, <2>4
<1>8. c[1] \in Min({from[1], to[1]})..Max({from[1], to[1]})
  <2>1. /\ to[1] \in Int
        /\ Min({from[1], to[1]}) = (IF from[1] <= to[1] THEN from[1] ELSE to[1])
        /\ Max({from[1], to[1]}) = (IF from[1] >= to[1] THEN from[1] ELSE to[1])
    BY MinOfTwo, MaxOfTwo
  <2>2. CASE x = 1
    BY <1>1, <1>5, <1>6, <2>1, <2>2
  <2>3. CASE x = -1
    BY <1>1, <1>5, <1>6, <2>1, <2>3
  <2> QED  BY <1>1, <2>2, <2>3
<1>9. c[2] \in Min({from[2], to[2]})..Max({from[2], to[2]})
  <2>1. /\ to[2] \in Int
        /\ Min({from[2], to[2]}) = (IF from[2] <= to[2] THEN from[2] ELSE to[2])
        /\ Max({from[2], to[2]}) = (IF from[2] >= to[2] THEN from[2] ELSE to[2])
    BY MinOfTwo, MaxOfTwo
  <2>2. CASE y = 1
    BY <1>1, <1>5, <1>6, <2>1, <2>2
  <2>3. CASE y = -1
    BY <1>1, <1>5, <1>6, <2>1, <2>3
  <2> QED  BY <1>1, <2>2, <2>3
<1>10. 2 * Abs(d[1] * e[2] - d[2] * e[1]) <= Max({Abs(d[1]), Abs(d[2])})
  <2> DEFINE off == w * b - t * a
             m == Max({w, t})
  <2>1. Abs(d[1]) = w /\ Abs(d[2]) = t
    BY <1>4
  <2>2. d[1] = w * x /\ d[2] = t * y /\ e[1] = a * x /\ e[2] = b * y
    BY <1>1, <1>6
  <2>3. d[1] * e[2] - d[2] * e[1] = off \/ d[1] * e[2] - d[2] * e[1] = -off
    <3> HIDE DEF d, e
    <3>1. CASE x = 1 /\ y = 1
      BY <1>1, <2>2, <3>1
    <3>2. CASE x = 1 /\ y = -1
      BY <1>1, <2>2, <3>2
    <3>3. CASE x = -1 /\ y = 1
      BY <1>1, <2>2, <3>3
    <3>4. CASE x = -1 /\ y = -1
      BY <1>1, <2>2, <3>4
    <3> QED  BY <1>1, <3>1, <3>2, <3>3, <3>4
  <2>4. off \in Int /\ m \in Int /\ HalfOf(off, m)
    BY <1>1, <1>5, MaxOfTwo
  <2> HIDE DEF off, m, d, e
  <2>5. 2 * Abs(off) <= m /\ Abs(-off) = Abs(off)
    BY <2>4 DEF HalfOf, Abs
  <2> QED  BY <2>1, <2>3, <2>5 DEF m
<1> QED  BY <1>7, <1>8, <1>9, <1>10 DEF NearLine

\* A beam crosses cells near its line, and not the one it ends in.
LEMMA CrossedLaw ==
  ASSUME NEW from \in Int \X Int, NEW to \in Int \X Int, NEW c \in Crossed(from, to)
  PROVE  NearLine(c, from, to) /\ c # to
<1> DEFINE w == Wide(from, to)
           t == Tall(from, to)
           n == Max({w, -(-t)})
           h == CHOOSE g : DrawnLine(g, n, from, to)
<1>1. w \in Nat /\ t \in Nat
  BY SidesLaw
<1>2. n \in Nat /\ (n = w \/ n = t)
  <2> HIDE DEF w, t
  <2>1. -(-t) = t
    BY <1>1
  <2> QED  BY <1>1, <2>1, MaxOfTwo
<1>3. Crossed(from, to) = {h[i].cell : i \in 0..n - 1}
  BY Zenon DEF Crossed, DrawnLine, LineFrom, Stepped, Wide, Tall, East, North
<1> HIDE DEF h, n
<1>4. DrawnLine(h, n, from, to)
  <2>1. \E g : DrawnLine(g, n, from, to)
    BY <1>2, DrawnLaw
  <2> QED  BY <2>1, Zenon DEF h
<1>5. PICK i \in 0..n - 1 : c = h[i].cell
  BY <1>3
<1>6. i \in 0..n /\ i \in Nat /\ (i < w \/ i < t)
  BY <1>2, <1>5
<1>7. OnLine(h[i], i, from, to)
  BY <1>2, <1>4, <1>6, DrawnLaw
<1> HIDE DEF w, t
<1> QED  BY <1>5, <1>6, <1>7, OnLineLaw DEF w, t

-----------------------------------------------------------------------------
\* The grid.

\* A quotient and what is left.
LEMMA Divided ==
  ASSUME NEW u \in Nat \ {0}, NEW x \in Int
  PROVE  x \div u \in Int /\ u * (x \div u) <= x /\ x < u * (x \div u) + u
<1> DEFINE q == x \div u
           r == x % u
<1>1. q \in Int /\ r \in 0..u - 1 /\ x = u * q + r
  OBVIOUS
<1> HIDE DEF r, q
<1>2. u * q \in Int
  BY <1>1
<1> DEFINE p == u * q
<1>3. p <= x /\ x < p + u
  <2> HIDE DEF p
  <2>1. p \in Int /\ x = p + r
    BY <1>1, <1>2 DEF p
  <2> QED  BY <1>1, <2>1
<1> QED  BY <1>1, <1>3 DEF q

\* The cell of a place inside.
LEMMA QuotientBounds ==
  ASSUME NEW u \in Nat \ {0}, NEW n \in Int, NEW x \in Int, 0 <= x, x < u * n
  PROVE  x \div u \in 0..n - 1
<1> DEFINE q == x \div u
<1>1. q \in Int /\ u * q <= x /\ x < u * q + u
  BY Divided
<1> HIDE DEF q
<1>2. q >= 0
  <2>1. SUFFICES ASSUME q <= -1 PROVE FALSE
    BY <1>1
  <2>2. u * (q + 1) <= 0
    BY <2>1, <1>1
  <2>3. u * (q + 1) = u * q + u
    BY <1>1
  <2> QED  BY <1>1, <2>2, <2>3
<1>3. q <= n - 1
  <2>1. SUFFICES ASSUME q >= n PROVE FALSE
    BY <1>1
  <2>2. u * (q - n) >= 0
    BY <2>1, <1>1
  <2>3. u * (q - n) = u * q - u * n /\ u * q \in Int /\ u * n \in Int
    BY <1>1
  <2> DEFINE a == u * q
             b == u * n
  <2>4. a >= b /\ a <= x /\ x < b /\ a \in Int /\ b \in Int
    BY <1>1, <2>2, <2>3
  <2> HIDE DEF a, b
  <2> QED  BY <2>4
<1> QED  BY <1>1, <1>2, <1>3 DEF q

\* Whole cells to the left of a place change its cell by as many.
LEMMA QuotientShift ==
  ASSUME NEW u \in Nat \ {0}, NEW x \in Int, NEW k \in Int
  PROVE  (x - k * u) \div u = x \div u - k
<1> DEFINE q == x \div u
           r == x - u * q
<1>1. q \in Int /\ u * q <= x /\ x < u * q + u
  BY Divided
<1> HIDE DEF q
<1>2. u * q \in Int /\ k * u = u * k /\ u * (q - k) = u * q - u * k
  BY <1>1
<1>3. r \in 0..u - 1 /\ x - k * u = u * (q - k) + r /\ q - k \in Int
  <2> DEFINE a == u * q
             b == u * k
  <2>1. a \in Int /\ b \in Int /\ a <= x /\ x < a + u /\ r = x - a /\ k * u = b /\ u * (q - k) = a - b
    BY <1>1, <1>2
  <2> HIDE DEF a, b, r
  <2>2. r \in 0..u - 1 /\ x - k * u = u * (q - k) + r
    BY <2>1
  <2> QED  BY <1>1, <2>2
<1> HIDE DEF r
<1>4. (x - k * u) \div u = q - k
  BY <1>3, Quotient
<1> QED  BY <1>4 DEF q

\* Along one axis: bounds in whole cells hold what lies between, the margin being kept.
LEMMA AxisLaw ==
  ASSUME NEW u \in Nat \ {0}, NEW margin \in Nat, margin > 0, NEW least \in Int, NEW most \in Int,
         NEW q \in Int, least <= q, q <= most,
         NEW low, low = ((least - margin) \div u) * u,
         NEW high, high = -((-(most + margin)) \div u) * u
  PROVE  (q - low) \div u \in 0..Max({1, (high - low) \div u}) - 1
<1> DEFINE a == (least - margin) \div u
           b == (-(most + margin)) \div u
           n == -b - a
<1>1. a \in Int /\ u * a <= least - margin
  <2>1. least - margin \in Int
    OBVIOUS
  <2> QED  BY <2>1, Divided
<1>2. b \in Int /\ u * b <= -(most + margin)
  <2>1. -(most + margin) \in Int
    OBVIOUS
  <2> QED  BY <2>1, Divided
<1>3. low = a * u /\ high = -b * u
  OBVIOUS
<1> HIDE DEF a, b
<1>4. n \in Int /\ u * n = -(u * b) - u * a /\ u * a \in Int /\ u * b \in Int /\ a * u = u * a /\ b * u = u * b
  BY <1>1, <1>2
<1>5. low = u * a /\ high = -(u * b) /\ high - low = u * n
  <2>1. -b * u = -(u * b)
    BY <1>2
  <2> QED  BY <1>3, <1>4, <2>1
<1>6. (high - low) \div u = n
  <2>1. 0 \in 0..u - 1 /\ u * n + 0 = high - low
    BY <1>4, <1>5
  <2>2. (u * n + 0) \div u = n
    BY <1>4, <2>1, Quotient
  <2> QED  BY <2>1, <2>2
<1>7. low \in Int /\ q - low \in Int /\ 0 <= q - low /\ q - low < u * n
  <2> DEFINE c == u * a
             d == u * b
  <2>1. c \in Int /\ d \in Int /\ low = c /\ u * n = -d - c /\ c <= least - margin /\ d <= -(most + margin)
    BY <1>1, <1>2, <1>4, <1>5
  <2> HIDE DEF c, d, n
  <2> QED  BY <2>1
<1> HIDE DEF n
<1>8. (q - low) \div u \in 0..n - 1
  BY <1>4, <1>7, QuotientBounds
<1>9. n >= 1
  BY <1>4, <1>8
<1>10. Max({1, n}) = n
  BY <1>4, <1>9, MaxOfTwo
<1> QED  BY <1>6, <1>8, <1>10

\* With a margin the grid has a cell for every place of the survey.
LEMMA PlacesInside ==
  ASSUME NEW survey \in Seq([at : Int \X Int, points : SUBSET (Int \X Int)]), survey # <<>>,
         \A i \in DOMAIN survey : IsFiniteSet(survey[i].points), CropMargin > 0,
         NEW grid, grid = BuildOccupancyGrid(survey), NEW place \in Places(survey)
  PROVE  CellAt(place, grid.origin) \in Valid(grid)
<1> DEFINE seen == Places(survey)
           Least(k) == Min({p[k] : p \in seen})
           Most(k) == Max({p[k] : p \in seen})
           Low(k) == ((Least(k) - CropMargin) \div Sub) * Sub
           High(k) == -((-(Most(k) + CropMargin)) \div Sub) * Sub
           Size(k) == Max({1, (High(k) - Low(k)) \div Sub})
<1>1. grid.width = Size(1) /\ grid.height = Size(2) /\ grid.origin = <<Low(1), Low(2)>>
  BY DEF BuildOccupancyGrid
<1>2. seen \in SUBSET (Int \X Int) /\ IsFiniteSet(seen) /\ seen # {} /\ place \in seen
  BY PlacesLaw
<1>3. Sub \in Nat \ {0} /\ CropMargin \in Nat
  BY GridAssumption
<1> HIDE DEF seen
<1>4. ASSUME NEW k \in 1..2
      PROVE  (place[k] - Low(k)) \div Sub \in 0..Size(k) - 1
  <2>1. Least(k) \in Int /\ Most(k) \in Int /\ Least(k) <= place[k] /\ place[k] <= Most(k)
    BY <1>2, Coordinates
  <2>2. place[k] \in Int
    <3>1. place \in Int \X Int /\ (k = 1 \/ k = 2)
      BY <1>2
    <3> QED  BY <3>1
  <2> DEFINE least == Least(k)
             most == Most(k)
             low == Low(k)
             high == High(k)
  <2>3. low = ((least - CropMargin) \div Sub) * Sub /\ high = -((-(most + CropMargin)) \div Sub) * Sub
    OBVIOUS
  <2>4. least \in Int /\ most \in Int /\ least <= place[k] /\ place[k] <= most
    BY <2>1
  <2>5. Size(k) = Max({1, (high - low) \div Sub})
    OBVIOUS
  <2> HIDE DEF least, most, low, high, Size
  <2>6. (place[k] - low) \div Sub \in 0..Max({1, (high - low) \div Sub}) - 1
    BY <1>3, <2>2, <2>3, <2>4, AxisLaw
  <2> QED  BY <2>5, <2>6 DEF low
<1> HIDE DEF Low, Size
<1>5. /\ (place[1] - grid.origin[1]) \div Sub \in 0..grid.width - 1
      /\ (place[2] - grid.origin[2]) \div Sub \in 0..grid.height - 1
  <2>1. 1 \in 1..2 /\ 2 \in 1..2
    OBVIOUS
  <2> QED  BY <1>1, <1>4, <2>1
<1> QED  BY <1>5 DEF CellAt, Valid

\* A survey has finitely many beams, between places of it.
LEMMA BeamsLaw ==
  ASSUME NEW survey \in Seq([at : Int \X Int, points : SUBSET (Int \X Int)]), survey # <<>>,
         \A i \in DOMAIN survey : IsFiniteSet(survey[i].points)
  PROVE  /\ IsFiniteSet(Beams(survey))
         /\ \A b \in Beams(survey) : /\ b[2] \in Places(survey) /\ b[3] \in Places(survey)
                                     /\ b[2] \in Int \X Int /\ b[3] \in Int \X Int
<1> DEFINE n == Len(survey)
           f == [i \in 1..n |-> {<<i, survey[i].at, hit>> : hit \in survey[i].points}]
<1>1. n \in Nat /\ DOMAIN survey = 1..n
  BY LenProperties
<1>2. Beams(survey) = UNION {f[i] : i \in 1..n}
  BY <1>1 DEF Beams
<1>3. ASSUME NEW i \in 1..n
      PROVE  IsFiniteSet(f[i])
  <2> DEFINE P == survey[i].points
             g == [hit \in P |-> <<i, survey[i].at, hit>>]
  <2>1. IsFiniteSet(P) /\ DOMAIN g = P
    BY <1>1
  <2>2. f[i] = {g[hit] : hit \in P}
    OBVIOUS
  <2> HIDE DEF P, g, f
  <2>3. IsFiniteSet({g[hit] : hit \in P})
    BY <2>1, FiniteImage
  <2> QED  BY <2>2, <2>3
<1>4. IsFiniteSet({f[i] : i \in 1..n})
  <2>1. DOMAIN f = 1..n /\ IsFiniteSet(1..n)
    BY <1>1, FS_Interval
  <2> HIDE DEF f
  <2> QED  BY <2>1, FiniteImage
<1>5. IsFiniteSet(Beams(survey))
  <2> HIDE DEF f, n
  <2>1. \A S \in {f[i] : i \in 1..n} : IsFiniteSet(S)
    BY <1>3
  <2> QED  BY <1>2, <1>4, <2>1, FS_UNION
<1>6. ASSUME NEW b \in Beams(survey)
      PROVE  b[2] \in Places(survey) /\ b[3] \in Places(survey)
  BY DEF Beams, Places
<1>7. Places(survey) \in SUBSET (Int \X Int)
  BY PlacesLaw
<1> QED  BY <1>5, <1>6, <1>7

\* What a cell of the grid is judged to be.
LEMMA JudgedLaw ==
  ASSUME NEW hits \in Nat, NEW misses \in Nat
  PROVE  /\ Judged(hits, misses) \in {-1, 0, 100}
         /\ Judged(hits, misses) >= 65 => hits # 0 /\ Judged(hits, misses) = 100
         /\ hits # 0 /\ misses = 0 => Judged(hits, misses) = 100
<1>1. CASE hits + misses = 0
  <2>1. Judged(hits, misses) = -1
    BY <1>1 DEF Judged
  <2> QED  BY <1>1, <2>1
<1>2. CASE hits + misses > 0 /\ 100 * hits >= 65 * (hits + misses)
  <2>1. Judged(hits, misses) = 100 /\ hits # 0
    BY <1>2 DEF Judged
  <2> QED  BY <2>1
<1>3. CASE hits + misses > 0 /\ ~(100 * hits >= 65 * (hits + misses))
  <2>1. Judged(hits, misses) \in {0, -1}
    BY <1>3 DEF Judged
  <2> QED  BY <1>3, <2>1
<1> QED  BY <1>1, <1>2, <1>3

\* Every other beam passes the cell this beam ends in.
Cleared(b, beams, origin) ==
  LET Ends(o) == CellAt(o[3], origin)
  IN \A o \in beams : Ends(o) # Ends(b) => ~NearLine(Ends(b), CellAt(o[2], origin), Ends(o))

\* A cell has an integer column and row.
LEMMA CellAtLaw ==
  ASSUME NEW place \in Int \X Int, NEW origin \in Int \X Int
  PROVE  CellAt(place, origin) \in Int \X Int
<1> DEFINE x == place[1] - origin[1]
           y == place[2] - origin[2]
<1>1. x \in Int /\ y \in Int
  OBVIOUS
<1>2. CellAt(place, origin) = <<x \div Sub, y \div Sub>>
  BY DEF CellAt
<1> HIDE DEF x, y
<1>3. x \div Sub \in Int /\ y \div Sub \in Int
  BY <1>1, GridAssumption
<1> QED  BY <1>2, <1>3

\* The thresholds take the cell for a wall.
Occupied(grid, c) == grid.cells[c] >= 65

\* The only value that does.
Wall(grid, c) == grid.cells[c] = 100

\* A cell is a wall only where a beam ends, and where one does and it is clear of the others.
Told(c, grid, survey) ==
  /\ grid.cells[c] \in {-1, 0, 100} /\ (Occupied(grid, c) => Wall(grid, c))
  /\ Occupied(grid, c) => \E b \in Beams(survey) : CellAt(b[3], grid.origin) = c
  /\ \A b \in Beams(survey) :
       CellAt(b[3], grid.origin) = c /\ Cleared(b, Beams(survey), grid.origin) => Wall(grid, c)

\* Cells of the grid: some beam ends in a wall, and a cell that beams end in is one if it is
\* clear of the others.
LEMMA CellsLaw ==
  ASSUME NEW survey \in Seq([at : Int \X Int, points : SUBSET (Int \X Int)]), survey # <<>>,
         \A i \in DOMAIN survey : IsFiniteSet(survey[i].points),
         NEW grid, grid = BuildOccupancyGrid(survey), NEW c \in Valid(grid)
  PROVE  Told(c, grid, survey)
<1> DEFINE beams == Beams(survey)
           origin == grid.origin
           End(b) == CellAt(b[3], origin)
           end == [b \in beams |-> End(b)]
           crossed == [b \in beams |-> Crossed(CellAt(b[2], origin), end[b])]
           Hits == {b \in beams : end[b] = c}
           Misses == {b \in beams : c \in crossed[b]}
<1>1. origin \in Int \X Int /\ grid.width \in Int /\ grid.height \in Int
  BY GridSize
<1>2. grid.cells[c] = Judged(Cardinality(Hits), Cardinality(Misses))
  <2> DEFINE size == [width |-> grid.width, height |-> grid.height]
             F(d) == Judged(Cardinality({b \in beams : end[b] = d}),
                            Cardinality({b \in beams : d \in crossed[b]}))
  <2>1. grid.cells = [d \in Valid(size) |-> F(d)]
    BY Zenon DEF BuildOccupancyGrid
  <2>2. c \in Valid(size)
    BY DEF Valid
  <2> HIDE DEF size, F
  <2>3. grid.cells[c] = F(c)
    BY <2>1, <2>2
  <2> QED  BY <2>3 DEF F
<1>3. /\ IsFiniteSet(beams)
      /\ \A b \in beams : b[2] \in Int \X Int /\ b[3] \in Int \X Int
  BY BeamsLaw
<1> HIDE DEF beams, origin
<1>4. ASSUME NEW b \in beams
      PROVE  /\ end[b] = End(b) /\ crossed[b] = Crossed(CellAt(b[2], origin), End(b))
             /\ End(b) \in Int \X Int /\ CellAt(b[2], origin) \in Int \X Int
  BY <1>1, <1>3, CellAtLaw
<1> HIDE DEF end, crossed
<1>5. Hits \in SUBSET beams /\ Misses \in SUBSET beams
  OBVIOUS
<1>6. IsFiniteSet(Hits) /\ Cardinality(Hits) \in Nat /\ Cardinality(Misses) \in Nat
  <2> HIDE DEF Hits, Misses
  <2> QED  BY <1>3, <1>5, FS_Subset, FS_CardinalityType
<1>7. ASSUME Occupied(grid, c)
      PROVE  Wall(grid, c) /\ \E b \in beams : End(b) = c
  <2>1. Cardinality(Hits) # 0 /\ Wall(grid, c)
    <3> HIDE DEF Hits, Misses
    <3> QED  BY <1>2, <1>6, <1>7, JudgedLaw DEF Occupied, Wall
  <2>2. Hits # {}
    BY <2>1, FS_EmptySet
  <2> QED  BY <1>4, <2>1, <2>2
<1>8. ASSUME NEW b \in beams, End(b) = c, Cleared(b, beams, origin)
      PROVE  Wall(grid, c)
  <2>1. b \in Hits
    BY <1>4, <1>8
  <2>2. ASSUME NEW o \in Misses
        PROVE  FALSE
    <3>1. o \in beams /\ c \in Crossed(CellAt(o[2], origin), End(o))
      BY <1>4
    <3>2. NearLine(c, CellAt(o[2], origin), End(o)) /\ c # End(o)
      BY <1>4, <3>1, CrossedLaw
    <3> QED  BY <1>8, <3>1, <3>2 DEF Cleared
  <2>3. Misses = {}
    BY <2>2
  <2>4. Cardinality(Misses) = 0
    BY <2>3, FS_EmptySet
  <2>5. Cardinality(Hits) # 0
    <3> HIDE DEF Hits
    <3> QED  BY <1>6, <2>1, FS_EmptySet
  <2> DEFINE hits == Cardinality(Hits)
             misses == Cardinality(Misses)
  <2>6. grid.cells[c] = Judged(hits, misses)
    BY <1>2
  <2>7. hits \in Nat /\ misses \in Nat /\ hits # 0 /\ misses = 0
    BY <1>6, <2>4, <2>5
  <2> HIDE DEF hits, misses
  <2>8. Judged(hits, misses) = 100
    BY <2>7, JudgedLaw
  <2> QED  BY <2>6, <2>8 DEF Wall
<1>9. grid.cells[c] \in {-1, 0, 100}
  <2> HIDE DEF Hits, Misses
  <2> QED  BY <1>2, <1>6, JudgedLaw
<1> QED  BY <1>7, <1>8, <1>9 DEF Told, beams, origin

-----------------------------------------------------------------------------
\* The images.

Dark(map, c) == c \in Valid(map) /\ 100 * map.pixel[c] < 65 * 255

Sized(map) == map.width \in Int /\ map.height \in Int /\ map.origin \in Int \X Int

\* Dark pixels of an image are the walls of the grid, upside down.
LEMMA SavedLaw ==
  ASSUME NEW grid, Sized(grid), NEW map, map = SavedMap(grid)
  PROVE  /\ Sized(map) /\ map.origin = grid.origin /\ map.height = grid.height
         /\ \A c : Dark(map, c) => /\ <<c[1], grid.height - 1 - c[2]>> \in Valid(grid)
                                   /\ Occupied(grid, <<c[1], grid.height - 1 - c[2]>>)
         /\ \A c \in Valid(grid) : Wall(grid, c) => Dark(map, <<c[1], grid.height - 1 - c[2]>>)
<1>1. /\ map.origin = grid.origin /\ map.width = grid.width /\ map.height = grid.height
      /\ map.pixel = [c \in Valid(grid) |-> Pixel(grid.cells[<<c[1], grid.height - 1 - c[2]>>])]
  BY DEF SavedMap
<1>2. Sized(map) /\ Valid(map) = Valid(grid)
  BY <1>1 DEF Sized, Valid
<1>3. ASSUME NEW c \in Valid(grid)
      PROVE  /\ <<c[1], grid.height - 1 - c[2]>> \in Valid(grid)
             /\ grid.height - 1 - (grid.height - 1 - c[2]) = c[2] /\ c = <<c[1], c[2]>>
  BY DEF Valid, Sized
<1>4. ASSUME NEW c, Dark(map, c)
      PROVE  /\ <<c[1], grid.height - 1 - c[2]>> \in Valid(grid)
             /\ Occupied(grid, <<c[1], grid.height - 1 - c[2]>>)
  <2> DEFINE v == grid.cells[<<c[1], grid.height - 1 - c[2]>>]
  <2>1. c \in Valid(grid) /\ 100 * Pixel(v) < 65 * 255
    BY <1>1, <1>2, <1>4 DEF Dark
  <2> HIDE DEF v
  <2>2. v >= 65
    BY <2>1 DEF Pixel, Unknown
  <2> QED  BY <1>3, <2>1, <2>2 DEF v, Occupied
<1>5. ASSUME NEW c \in Valid(grid), Wall(grid, c)
      PROVE  Dark(map, <<c[1], grid.height - 1 - c[2]>>)
  <2> DEFINE d == <<c[1], grid.height - 1 - c[2]>>
  <2>1. d \in Valid(grid) /\ <<d[1], grid.height - 1 - d[2]>> = c
    BY <1>3
  <2> HIDE DEF d
  <2>2. map.pixel[d] = Pixel(100)
    BY <1>1, <1>5, <2>1 DEF Wall
  <2>3. Pixel(100) = 0
    BY DEF Pixel
  <2> QED  BY <1>2, <2>1, <2>2, <2>3 DEF Dark, d
<1> QED  BY <1>1, <1>2, <1>4, <1>5

\* Bounds that hold every known cell of an image.
KnownWithin(keep, map) ==
  /\ keep.left \in Nat /\ keep.top \in Nat
  /\ keep.right \in Int /\ keep.right <= map.width - 1
  /\ keep.bottom \in Int /\ keep.bottom <= map.height - 1
  /\ \A c \in Valid(map) : map.pixel[c] # Unknown =>
       c[1] \in keep.left..keep.right /\ c[2] \in keep.top..keep.bottom

\* A crop keeps every known cell.
LEMMA BoundsLaw ==
  ASSUME NEW map, Sized(map), \E c \in Valid(map) : map.pixel[c] # Unknown
  PROVE  KnownWithin(CropBounds(map), map)
<1> DEFINE known == {c \in Valid(map) : map.pixel[c] # Unknown}
           keep == CropBounds(map)
           low(k) == Min({c[k] : c \in known})
           high(k) == Max({c[k] : c \in known})
<1>1. known \in SUBSET (Int \X Int) /\ IsFiniteSet(known) /\ known # {}
  BY ValidLaw, FS_Subset DEF Sized
<1>2. /\ keep.left = Max({0, low(1) - Padding}) /\ keep.right = Min({map.width - 1, high(1) + Padding})
      /\ keep.top = Max({0, low(2) - Padding}) /\ keep.bottom = Min({map.height - 1, high(2) + Padding})
  BY DEF CropBounds
<1>3. Padding \in Nat /\ map.width - 1 \in Int /\ map.height - 1 \in Int
  BY GridAssumption DEF Sized
<1>4. \A c \in known : c[1] \in 0..map.width - 1 /\ c[2] \in 0..map.height - 1
  BY DEF Valid
<1> HIDE DEF known
<1>5. ASSUME NEW k \in 1..2
      PROVE  low(k) \in Int /\ high(k) \in Int /\ \A c \in known : low(k) <= c[k] /\ c[k] <= high(k)
  BY <1>1, Coordinates
<1> HIDE DEF low, high, keep
<1>6. /\ low(1) \in Int /\ high(1) \in Int /\ \A c \in known : low(1) <= c[1] /\ c[1] <= high(1)
      /\ low(2) \in Int /\ high(2) \in Int /\ \A c \in known : low(2) <= c[2] /\ c[2] <= high(2)
  <2>1. 1 \in 1..2 /\ 2 \in 1..2
    OBVIOUS
  <2> QED  BY <1>5, <2>1
<1>7. /\ keep.left = (IF 0 >= low(1) - Padding THEN 0 ELSE low(1) - Padding)
      /\ keep.top = (IF 0 >= low(2) - Padding THEN 0 ELSE low(2) - Padding)
  <2>1. 0 \in Int /\ low(1) - Padding \in Int /\ low(2) - Padding \in Int
    BY <1>3, <1>6
  <2> QED  BY <1>2, <2>1, MaxOfTwo
<1>8. /\ keep.right = (IF map.width - 1 <= high(1) + Padding THEN map.width - 1 ELSE high(1) + Padding)
      /\ keep.bottom = (IF map.height - 1 <= high(2) + Padding THEN map.height - 1 ELSE high(2) + Padding)
  <2>1. high(1) + Padding \in Int /\ high(2) + Padding \in Int
    BY <1>3, <1>6
  <2> QED  BY <1>2, <1>3, <2>1, MinOfTwo
<1>9. /\ keep.left \in Nat /\ keep.top \in Nat
      /\ keep.right \in Int /\ keep.right <= map.width - 1
      /\ keep.bottom \in Int /\ keep.bottom <= map.height - 1
  BY <1>3, <1>6, <1>7, <1>8
<1>10. ASSUME NEW c \in known
       PROVE  c[1] \in keep.left..keep.right /\ c[2] \in keep.top..keep.bottom
  <2>1. c[1] \in 0..map.width - 1 /\ low(1) <= c[1] /\ c[1] <= high(1)
    BY <1>4, <1>6
  <2>2. c[2] \in 0..map.height - 1 /\ low(2) <= c[2] /\ c[2] <= high(2)
    BY <1>4, <1>6
  <2>3. c[1] \in keep.left..keep.right
    BY <1>3, <1>6, <1>7, <1>8, <2>1
  <2>4. c[2] \in keep.top..keep.bottom
    BY <1>3, <1>6, <1>7, <1>8, <2>2
  <2> QED  BY <2>3, <2>4
<1> QED  BY <1>9, <1>10 DEF KnownWithin, known, keep

\* What two images show at the cells of places: what is dark in one is dark in the other.
SameWalls(a, b) ==
  /\ \A place \in Int \X Int : Dark(a, ImageCell(place, a)) => Dark(b, ImageCell(place, b))
  /\ \A c : Dark(b, c) => \E d : /\ Dark(a, d)
                                 /\ \A place \in Int \X Int : ImageCell(place, a) = d => ImageCell(place, b) = c

\* An image that another was cut out of, with as many columns cut off on the left and rows
\* at the top.
CutOut(a, b, left, top) ==
  /\ left \in Int /\ top \in Int
  /\ b.origin = <<a.origin[1] + left * Sub, a.origin[2] + (a.height - top - b.height) * Sub>>
  /\ \A c : Dark(a, c) => Dark(b, <<c[1] - left, c[2] - top>>)

\* A crop moves no wall.
LEMMA CroppedLaw ==
  ASSUME NEW map, Sized(map), \E c \in Valid(map) : map.pixel[c] # Unknown, NEW r, r = FinalizeMap(map)
  PROVE  SameWalls(map, r) /\ \E left, top : CutOut(map, r, left, top)
<1> DEFINE keep == CropBounds(map)
           size == [width |-> keep.right - keep.left + 1, height |-> keep.bottom - keep.top + 1]
<1>1. KnownWithin(keep, map)
  BY BoundsLaw
<1>2. /\ r.width = keep.right - keep.left + 1 /\ r.height = keep.bottom - keep.top + 1
      /\ r.origin = <<map.origin[1] + keep.left * Sub, map.origin[2] + (map.height - 1 - keep.bottom) * Sub>>
      /\ r.pixel = [c \in Valid(size) |-> map.pixel[<<c[1] + keep.left, c[2] + keep.top>>]]
  BY DEF FinalizeMap, NewOrigin
<1>3. Valid(r) = Valid(size)
  BY <1>2 DEF Valid
<1> HIDE DEF keep, size
<1>4. /\ map.width \in Int /\ map.height \in Int /\ map.origin[1] \in Int /\ map.origin[2] \in Int
      /\ keep.left \in Int /\ keep.top \in Int /\ keep.right \in Int /\ keep.bottom \in Int
      /\ Sub \in Nat \ {0}
  BY <1>1, GridAssumption DEF KnownWithin, Sized
<1>5. ASSUME NEW place \in Int \X Int
      PROVE  /\ ImageCell(place, map) \in Int \X Int
             /\ ImageCell(place, r) = <<ImageCell(place, map)[1] - keep.left, ImageCell(place, map)[2] - keep.top>>
  <2> DEFINE x == place[1] - map.origin[1]
             y == place[2] - map.origin[2]
             m == map.height - 1 - keep.bottom
  <2>1. x \in Int /\ y \in Int /\ m \in Int
    BY <1>4
  <2>2. /\ ImageCell(place, map) = <<x \div Sub, map.height - 1 - y \div Sub>>
        /\ ImageCell(place, r) = <<(place[1] - r.origin[1]) \div Sub, r.height - 1 - (place[2] - r.origin[2]) \div Sub>>
    BY DEF ImageCell, CellAt
  <2>3. place[1] - r.origin[1] = x - keep.left * Sub /\ place[2] - r.origin[2] = y - m * Sub
    <3> DEFINE p == keep.left * Sub
               q == m * Sub
    <3>1. p \in Int /\ q \in Int
      BY <1>4, <2>1
    <3>2. r.origin[1] = map.origin[1] + p /\ r.origin[2] = map.origin[2] + q
      BY <1>2
    <3> HIDE DEF p, q
    <3>3. place[1] - r.origin[1] = x - p /\ place[2] - r.origin[2] = y - q
      BY <1>4, <3>1, <3>2
    <3> QED  BY <3>3 DEF p, q
  <2> HIDE DEF x, y
  <2>4. x \div Sub \in Int /\ y \div Sub \in Int
    BY <1>4, <2>1
  <2>5. (x - keep.left * Sub) \div Sub = x \div Sub - keep.left
    BY <1>4, <2>1, QuotientShift
  <2>6. (y - m * Sub) \div Sub = y \div Sub - m
    <3> HIDE DEF m
    <3> QED  BY <1>4, <2>1, QuotientShift
  <2>7. r.height - 1 - (y \div Sub - m) = map.height - 1 - y \div Sub - keep.top
    BY <1>2, <1>4, <2>4
  <2>8. ImageCell(place, r) = <<x \div Sub - keep.left, map.height - 1 - y \div Sub - keep.top>>
    BY <2>2, <2>3, <2>5, <2>6, <2>7
  <2>9. map.height - 1 - y \div Sub \in Int
    BY <1>4, <2>4
  <2> QED  BY <2>2, <2>4, <2>8, <2>9
<1>6. ASSUME NEW c, Dark(map, c)
      PROVE  Dark(r, <<c[1] - keep.left, c[2] - keep.top>>)
  <2> DEFINE d == <<c[1] - keep.left, c[2] - keep.top>>
  <2>1. c \in Valid(map) /\ 100 * map.pixel[c] < 65 * 255
    BY <1>6 DEF Dark
  <2>2. map.pixel[c] # Unknown
    BY <2>1 DEF Unknown
  <2>3. c[1] \in keep.left..keep.right /\ c[2] \in keep.top..keep.bottom
    BY <1>1, <2>1, <2>2 DEF KnownWithin
  <2>4. c = <<c[1], c[2]>>
    BY <2>1 DEF Valid
  <2>5. d \in Valid(r) /\ <<d[1] + keep.left, d[2] + keep.top>> = c
    <3>1. /\ c[1] - keep.left \in 0..r.width - 1 /\ c[2] - keep.top \in 0..r.height - 1
          /\ c[1] - keep.left + keep.left = c[1] /\ c[2] - keep.top + keep.top = c[2]
      BY <1>2, <1>4, <2>3
    <3> QED  BY <2>4, <3>1 DEF Valid
  <2> HIDE DEF d
  <2>6. r.pixel[d] = map.pixel[c]
    BY <1>2, <1>3, <2>5
  <2> QED  BY <2>1, <2>5, <2>6 DEF Dark, d
<1>7. ASSUME NEW place \in Int \X Int, Dark(map, ImageCell(place, map))
      PROVE  Dark(r, ImageCell(place, r))
  BY <1>5, <1>6, <1>7
<1>8. ASSUME NEW c, Dark(r, c)
      PROVE  \E d : /\ Dark(map, d)
                    /\ \A place \in Int \X Int : ImageCell(place, map) = d => ImageCell(place, r) = c
  <2> DEFINE d == <<c[1] + keep.left, c[2] + keep.top>>
  <2>1. c \in Valid(r) /\ 100 * r.pixel[c] < 65 * 255 /\ r.pixel[c] = map.pixel[d]
    BY <1>2, <1>3, <1>8 DEF Dark
  <2>2. c[1] \in 0..r.width - 1 /\ c[2] \in 0..r.height - 1 /\ c = <<c[1], c[2]>>
    BY <2>1 DEF Valid
  <2>3. /\ keep.left >= 0 /\ keep.top >= 0 /\ keep.right <= map.width - 1 /\ keep.bottom <= map.height - 1
    BY <1>1 DEF KnownWithin
  <2>4. d[1] \in 0..map.width - 1 /\ d[2] \in 0..map.height - 1
    BY <1>2, <1>4, <2>2, <2>3
  <2>5. Dark(map, d)
    BY <2>1, <2>4 DEF Dark, Valid
  <2>6. ASSUME NEW place \in Int \X Int, ImageCell(place, map) = d
        PROVE  ImageCell(place, r) = c
    <3>1. ImageCell(place, r) = <<d[1] - keep.left, d[2] - keep.top>>
      BY <1>5, <2>6
    <3>2. d[1] - keep.left = c[1] /\ d[2] - keep.top = c[2]
      BY <1>2, <1>4, <2>2
    <3> QED  BY <2>2, <3>1, <3>2
  <2> QED  BY <2>5, <2>6
<1>9. CutOut(map, r, keep.left, keep.top)
  <2>1. map.height - keep.top - r.height = map.height - 1 - keep.bottom
    BY <1>2, <1>4
  <2> QED  BY <1>2, <1>4, <1>6, <2>1 DEF CutOut
<1> QED  BY <1>7, <1>8, <1>9 DEF SameWalls

-----------------------------------------------------------------------------
\* From survey to planner.

\* A place on the map is in the cell the goal node takes it for.
LEMMA OnMap ==
  ASSUME NEW map, Sized(map), NEW place, ImageCell(place, map) \in Valid(map)
  PROVE  PlannerCell(place, map) = ImageCell(place, map)
<1> DEFINE cell == ImageCell(place, map)
<1>1. /\ cell[1] \in 0..map.width - 1 /\ cell[2] \in 0..map.height - 1 /\ cell = <<cell[1], cell[2]>>
      /\ map.width - 1 \in Int /\ map.height - 1 \in Int
  BY DEF Valid, Sized
<1>2. PlannerCell(place, map) = <<Max({0, Min({map.width - 1, cell[1]})}), Max({0, Min({map.height - 1, cell[2]})})>>
  BY DEF PlannerCell
<1> HIDE DEF cell
<1>3. Min({map.width - 1, cell[1]}) = cell[1] /\ Min({map.height - 1, cell[2]}) = cell[2]
  BY <1>1, MinOfTwo
<1>4. Max({0, cell[1]}) = cell[1] /\ Max({0, cell[2]}) = cell[2]
  BY <1>1, MaxOfTwo
<1> QED  BY <1>1, <1>2, <1>3, <1>4 DEF cell

\* The image the planner loads, cropped or not, has the walls of the grid.
ImageOf(s) ==
  LET map == SavedMap(Grid[s]) IN IF s.cropped THEN FinalizeMap(map) ELSE map

\* The image of a site and its walls.
LEMMA ImageLaw ==
  ASSUME NEW s \in Site
  PROVE  /\ Grid[s] = BuildOccupancyGrid(s.survey) /\ Sized(Grid[s])
         /\ MapOf[s] = LoadMap(ImageOf(s), MapInflation)
         /\ Sized(ImageOf(s)) /\ SameWalls(SavedMap(Grid[s]), ImageOf(s))
         /\ \E left, top : CutOut(SavedMap(Grid[s]), ImageOf(s), left, top)
<1> DEFINE saved == SavedMap(Grid[s])
<1>1. Grid[s] = BuildOccupancyGrid(s.survey)
  BY OnceLaw DEF Grid
<1>2. Sized(Grid[s])
  <2> DEFINE grid == BuildOccupancyGrid(s.survey)
  <2>1. grid.width \in Int /\ grid.height \in Int /\ grid.origin \in Int \X Int
    BY SiteAssumption, GridSize
  <2> HIDE DEF grid
  <2> QED  BY <1>1, <2>1 DEF Sized, grid
<1>3. MapOf[s] = LoadMap(ImageOf(s), MapInflation)
  BY OnceLaw DEF MapOf, ImageOf
<1>4. Sized(saved)
  BY <1>2, SavedLaw
<1>5. s.cropped => \E c \in Valid(saved) : saved.pixel[c] # Unknown
  <2>1. Valid(saved) = Valid(Grid[s])
    BY DEF SavedMap, Valid
  <2> QED  BY <1>1, <2>1, SiteAssumption
<1> HIDE DEF saved
<1>6. CASE s.cropped
  <2>1. ImageOf(s) = FinalizeMap(saved)
    BY <1>6 DEF ImageOf, saved
  <2>2. SameWalls(saved, FinalizeMap(saved)) /\ \E left, top : CutOut(saved, FinalizeMap(saved), left, top)
    BY <1>4, <1>5, <1>6, CroppedLaw
  <2>3. Sized(FinalizeMap(saved))
    BY <1>4, <1>5, <1>6, FinalizedSize DEF Sized
  <2> QED  BY <1>1, <1>2, <1>3, <2>1, <2>2, <2>3 DEF saved
<1>7. CASE ~s.cropped
  <2>1. ImageOf(s) = saved
    BY <1>7 DEF ImageOf, saved
  <2>2. SameWalls(saved, saved)
    BY DEF SameWalls
  <2>3. CutOut(saved, saved, 0, 0)
    <3>1. ASSUME NEW c, Dark(saved, c)
          PROVE  Dark(saved, <<c[1] - 0, c[2] - 0>>)
      <4>1. c = <<c[1] - 0, c[2] - 0>>
        BY <1>4, <3>1 DEF Dark, Valid, Sized
      <4> QED  BY <3>1, <4>1
    <3>2. saved.origin = <<saved.origin[1] + 0 * Sub, saved.origin[2] + (saved.height - 0 - saved.height) * Sub>>
      BY <1>4, GridAssumption DEF Sized
    <3> QED  BY <3>1, <3>2 DEF CutOut
  <2> QED  BY <1>1, <1>2, <1>3, <1>4, <2>1, <2>2, <2>3 DEF saved
<1> QED  BY <1>6, <1>7

\* Hits are walls, and walls are hits.
LEMMA PlacedLaw ==
  ASSUME NEW s \in Site, CropMargin > 0
  PROVE  Placed(s)
<1> DEFINE survey == s.survey
           beams == Beams(survey)
           grid == Grid[s]
           saved == SavedMap(grid)
           image == ImageOf(s)
           map == MapOf[s]
           Ends(b) == <<CellAt(b[2], grid.origin), CellAt(b[3], grid.origin)>>
           ends == Once([b \in beams |-> Ends(b)])
           Clearly(b) == \A o \in beams : ends[o][2] # ends[b][2] => ~NearLine(ends[b][2], ends[o][1], ends[o][2])
           shown == [b \in beams |-> PlannerCell(b[3], map)]
<1>1. /\ survey \in Seq([at : Int \X Int, points : SUBSET (Int \X Int)]) /\ survey # <<>>
      /\ \A i \in DOMAIN survey : IsFiniteSet(survey[i].points)
  BY SiteAssumption
<1>2. grid = BuildOccupancyGrid(survey) /\ Sized(grid) /\ map = LoadMap(image, MapInflation)
      /\ Sized(image) /\ SameWalls(saved, image)
  BY ImageLaw
<1> HIDE DEF survey, grid, image, map
<1>3. /\ Sized(saved) /\ saved.origin = grid.origin /\ saved.height = grid.height
      /\ \A c : Dark(saved, c) => /\ <<c[1], grid.height - 1 - c[2]>> \in Valid(grid)
                                  /\ Occupied(grid, <<c[1], grid.height - 1 - c[2]>>)
      /\ \A c \in Valid(grid) : Wall(grid, c) => Dark(saved, <<c[1], grid.height - 1 - c[2]>>)
  BY <1>2, SavedLaw
<1> HIDE DEF saved
<1>4. \A c \in Valid(grid) : Told(c, grid, survey)
  BY <1>1, <1>2, CellsLaw
<1>5. map.width = image.width /\ map.height = image.height /\ map.origin = image.origin
      /\ \A c : c \in map.walls <=> Dark(image, c)
  BY <1>2 DEF LoadMap, Dark
<1>6. ASSUME NEW b \in beams
      PROVE  /\ b[2] \in Int \X Int /\ b[3] \in Int \X Int
             /\ CellAt(b[3], grid.origin) \in Valid(grid)
             /\ ImageCell(b[3], saved) = <<CellAt(b[3], grid.origin)[1], grid.height - 1 - CellAt(b[3], grid.origin)[2]>>
  <2>1. b[2] \in Int \X Int /\ b[3] \in Int \X Int /\ b[3] \in Places(survey)
    BY <1>1, BeamsLaw
  <2>2. CellAt(b[3], grid.origin) \in Valid(grid)
    BY <1>1, <1>2, <2>1, PlacesInside
  <2>3. ImageCell(b[3], saved) = <<CellAt(b[3], grid.origin)[1], grid.height - 1 - CellAt(b[3], grid.origin)[2]>>
    BY <1>3 DEF ImageCell
  <2> QED  BY <2>1, <2>2, <2>3
<1>7. ASSUME NEW place, Dark(image, ImageCell(place, image))
      PROVE  PlannerCell(place, map) = ImageCell(place, image)
  <2>1. Sized(map) /\ Valid(map) = Valid(image) /\ ImageCell(place, map) = ImageCell(place, image)
    BY <1>2, <1>5 DEF Sized, Valid, ImageCell
  <2>2. ImageCell(place, map) \in Valid(map)
    BY <1>7, <2>1 DEF Dark
  <2> QED  BY <2>1, <2>2, OnMap
<1>8. ASSUME NEW b \in beams, Clearly(b)
      PROVE  shown[b] \in map.walls
  <2> DEFINE c == CellAt(b[3], grid.origin)
  <2>1. \A o \in beams : /\ ends[o][1] = CellAt(o[2], grid.origin)
                          /\ ends[o][2] = CellAt(o[3], grid.origin)
    BY OnceLaw
  <2> HIDE DEF ends, beams
  <2>2. Cleared(b, beams, grid.origin)
    BY <1>8, <2>1 DEF Cleared
  <2>3. c \in Valid(grid)
    BY <1>6
  <2>4. Wall(grid, c)
    <3> HIDE DEF c
    <3>1. Told(c, grid, survey)
      BY <1>4, <2>3
    <3> QED  BY <2>2, <3>1 DEF Told, c, beams
  <2>5. Dark(saved, ImageCell(b[3], saved))
    BY <1>3, <1>6, <2>3, <2>4
  <2>6. Dark(image, ImageCell(b[3], image))
    BY <1>2, <1>6, <2>5 DEF SameWalls
  <2>7. shown[b] = ImageCell(b[3], image)
    BY <1>7, <2>6
  <2> QED  BY <1>5, <2>6, <2>7
<1>9. ASSUME NEW c \in map.walls
      PROVE  c \in Range(shown)
  <2>1. Dark(image, c)
    BY <1>5
  <2>2. PICK d : /\ Dark(saved, d)
                 /\ \A place \in Int \X Int : ImageCell(place, saved) = d => ImageCell(place, image) = c
    BY <1>2, <2>1 DEF SameWalls
  <2> DEFINE e == <<d[1], grid.height - 1 - d[2]>>
  <2>3. e \in Valid(grid) /\ Occupied(grid, e)
    BY <1>3, <2>2
  <2>4. PICK b \in beams : CellAt(b[3], grid.origin) = e
    <3> HIDE DEF e
    <3>1. \E b \in Beams(survey) : CellAt(b[3], grid.origin) = e
      BY <1>4, <2>3 DEF Told
    <3> QED  BY <3>1
  <2>5. ImageCell(b[3], saved) = d
    <3>1. d \in Valid(saved)
      BY <2>2 DEF Dark
    <3>2. d = <<d[1], d[2]>> /\ d[2] \in Int
      BY <1>3, <3>1 DEF Valid, Sized
    <3>3. grid.height - 1 - (grid.height - 1 - d[2]) = d[2]
      BY <1>2, <3>2 DEF Sized
    <3> QED  BY <1>6, <2>4, <3>2, <3>3
  <2>6. ImageCell(b[3], image) = c
    BY <1>6, <2>2, <2>5
  <2>7. shown[b] = c /\ b \in DOMAIN shown
    BY <1>7, <2>1, <2>6
  <2> QED  BY <2>7 DEF Range
<1>10. map.walls \subseteq Range(shown)
  BY <1>9
<1> QED  BY <1>8, <1>10 DEF Placed, survey, grid, map

\* On every map, drawn with a margin (BuildOccupancyGrid), saved (SaveMapAtomic), cropped or
\* not (finalize_map.py) and loaded (MapLoader), a place that was hit and that no other beam
\* may have passed is a wall where the goal node and the planner put it, and there are no
\* other walls than places that were hit.
THEOREM PlacesKept == CropMargin > 0 => (PlannedSpec => []WallsAreWhereSeen)
<1> SUFFICES ASSUME CropMargin > 0 PROVE PlannedSpec => []WallsAreWhereSeen
  OBVIOUS
<1>1. site \in Site => WallsAreWhereSeen
  <2> SUFFICES ASSUME site \in Site PROVE WallsAreWhereSeen
    OBVIOUS
  <2>1. AllPlaced[site] = Placed(site)
    BY OnceLaw DEF AllPlaced
  <2> QED  BY <2>1, PlacedLaw DEF WallsAreWhereSeen
<1> QED  BY <1>1, RequestsOfPlanned, PTL

-----------------------------------------------------------------------------
\* Where paths are followed.

\* A point of a cell is in the middle of Sub places of its part.
LEMMA RoundedOnce ==
  ASSUME NEW s \in Nat \ {0}, NEW u \in Nat \ {0}, NEW i \in Int
  PROVE  (s * i + (s * u) \div 2) \div (s * u) = (i + u \div 2) \div u
<1> DEFINE m == s * u
           f == m \div 2
           v == u \div 2
           q == (i + v) \div u
           e == i - u * q
           r == s * e + f
<1>1. m \in Nat \ {0}
  OBVIOUS
<1>2. v \in Nat /\ 2 * v <= u /\ u <= 2 * v + 1
  OBVIOUS
<1>3. f \in Nat /\ 2 * f <= m /\ m <= 2 * f + 1
  <2> HIDE DEF m
  <2> QED  BY <1>1
<1> HIDE DEF v, f
<1>4. q \in Int /\ u * q <= i + v /\ i + v < u * q + u
  <2>1. i + v \in Int
    BY <1>2
  <2> QED  BY <2>1, Divided
<1> HIDE DEF q
<1>5. u * q \in Int /\ e \in Int /\ i = u * q + e /\ -v <= e /\ e <= u - v - 1
  <2>1. u * q \in Int
    BY <1>4
  <2> DEFINE p == u * q
  <2>2. p \in Int /\ p <= i + v /\ i + v < p + u /\ e = i - p
    BY <1>4, <2>1
  <2> HIDE DEF p, e
  <2>3. e \in Int /\ i = p + e /\ -v <= e /\ e <= u - v - 1
    BY <1>2, <2>2
  <2> QED  BY <2>1, <2>3 DEF p
<1> HIDE DEF e
<1>6. s * i = m * q + s * e
  <2>1. s * (u * q + e) = s * (u * q) + s * e
    BY <1>5
  <2>2. s * (u * q) = (s * u) * q
    BY <1>4
  <2> QED  BY <1>5, <2>1, <2>2
<1>7. s * v \in Int /\ 2 * (s * v) <= m /\ m + s <= 2 * (s * v) + 2 * s
  <2>1. s * (u - 2 * v) >= 0 /\ s * (2 * v + 1 - u) >= 0
    BY <1>2
  <2>2. s * (u - 2 * v) = s * u - 2 * (s * v) /\ s * (2 * v + 1 - u) = 2 * (s * v) + s - s * u
    BY <1>2
  <2>3. s * v \in Int /\ s * u \in Int
    BY <1>2
  <2> DEFINE a == s * v
             b == s * u
  <2>4. a \in Int /\ b \in Int /\ b - 2 * a >= 0 /\ 2 * a + s - b >= 0
    BY <2>1, <2>2, <2>3
  <2> HIDE DEF a, b
  <2>5. 2 * a <= b /\ b + s <= 2 * a + 2 * s
    BY <2>4
  <2> QED  BY <2>3, <2>5 DEF a, b
<1>8. s * e \in Int /\ s * e >= -(s * v) /\ s * e <= m - s * v - s
  <2>1. s * (e + v) >= 0 /\ s * (u - v - 1 - e) >= 0
    BY <1>2, <1>5
  <2>2. s * (e + v) = s * e + s * v /\ s * (u - v - 1 - e) = s * u - s * v - s - s * e
    BY <1>2, <1>5
  <2>3. s * e \in Int /\ s * v \in Int /\ s * u \in Int
    BY <1>2, <1>5
  <2> DEFINE a == s * v
             b == s * u
             c == s * e
  <2>4. a \in Int /\ b \in Int /\ c \in Int /\ c + a >= 0 /\ b - a - s - c >= 0
    BY <2>1, <2>2, <2>3
  <2> HIDE DEF a, b, c
  <2>5. c >= -a /\ c <= b - a - s
    BY <2>4
  <2> QED  BY <2>3, <2>5 DEF a, b, c
<1> HIDE DEF m
<1>9. r \in 0..m - 1
  <2> DEFINE a == s * v
             c == s * e
  <2>1. a \in Int /\ c \in Int /\ 2 * a <= m /\ m + s <= 2 * a + 2 * s /\ c >= -a /\ c <= m - a - s /\ r = c + f
    BY <1>7, <1>8
  <2> HIDE DEF a, c, r
  <2>2. a <= f
    BY <1>1, <1>3, <2>1
  <2>3. f < a + s
    BY <1>1, <1>3, <2>1
  <2> QED  BY <1>1, <1>3, <2>1, <2>2, <2>3
<1>10. s * i + f = m * q + r
  <2> DEFINE c == s * e
             d == m * q
             g == s * i
  <2>1. c \in Int /\ d \in Int /\ g \in Int /\ g = d + c /\ r = c + f
    BY <1>1, <1>4, <1>6, <1>8
  <2> HIDE DEF c, d, g, r
  <2>2. g + f = d + r
    BY <1>3, <2>1
  <2> QED  BY <2>2 DEF d, g
<1>11. (m * q + r) \div m = q
  <2> HIDE DEF r
  <2> QED  BY <1>1, <1>4, <1>9, Quotient
<1>12. (s * i + f) \div m = q
  BY <1>10, <1>11
<1> QED  BY <1>12 DEF m, f, q, v

\* A point halfway between two cells.
Tied(p) == (2 * p + Unit) % (2 * Unit) = 0

\* Counted from the other side a point is in the same cell, but halfway between two.
LEMMA RoundedBack ==
  ASSUME NEW n \in Int, NEW p \in Int, ~Tied(p)
  PROVE  (n * Unit - p + Unit \div 2) \div Unit = n - (p + Unit \div 2) \div Unit
<1> DEFINE u == Unit
           v == u \div 2
           r == (p + v) \div u
           e == p - u * r
<1>1. u \in Nat \ {0} /\ ~((2 * p + u) % (2 * u) = 0)
  BY SearchAssumption DEF Tied
<1> HIDE DEF u
<1>2. v \in Nat /\ 2 * v <= u /\ u <= 2 * v + 1
  BY <1>1
<1> HIDE DEF v
<1>3. r \in Int /\ u * r <= p + v /\ p + v < u * r + u
  <2>1. p + v \in Int
    BY <1>2
  <2> QED  BY <1>1, <2>1, Divided
<1> HIDE DEF r
<1>4. u * r \in Int /\ e \in Int /\ p = u * r + e /\ -v <= e /\ e <= u - v - 1
  <2>1. u * r \in Int
    BY <1>1, <1>3
  <2> DEFINE a == u * r
  <2>2. a \in Int /\ a <= p + v /\ p + v < a + u /\ e = p - a
    BY <1>3, <2>1
  <2> HIDE DEF a, e
  <2>3. e \in Int /\ p = a + e /\ -v <= e /\ e <= u - v - 1
    BY <1>1, <1>2, <2>2
  <2> QED  BY <2>1, <2>3 DEF a
<1> HIDE DEF e
<1>5. 2 * e + u # 0
  <2>1. SUFFICES ASSUME 2 * e + u = 0 PROVE FALSE
    OBVIOUS
  <2>2. 2 * p + u = (2 * u) * r
    <3>1. (2 * u) * r = 2 * (u * r)
      BY <1>1, <1>3
    <3> DEFINE a == u * r
    <3>2. a \in Int /\ p = a + e
      BY <1>4
    <3> HIDE DEF a
    <3>3. 2 * p + u = 2 * a
      BY <1>1, <1>4, <2>1, <3>2
    <3> QED  BY <3>1, <3>3 DEF a
  <2> DEFINE k == 2 * u
             x == 2 * p + u
             y == x % k
             z == x \div k
  <2>3. k \in Nat \ {0} /\ x \in Int
    BY <1>1
  <2> HIDE DEF k
  <2>4. x = k * r
    BY <2>2 DEF k
  <2> HIDE DEF x
  <2>5. y \in 0..k - 1 /\ z \in Int /\ x = k * z + y
    BY <2>3
  <2>6. z = r
    <3>1. 0 \in 0..k - 1 /\ k * r + 0 = x
      BY <1>3, <2>3, <2>4
    <3>2. (k * r + 0) \div k = r
      BY <1>3, <2>3, <3>1, Quotient
    <3> QED  BY <3>1, <3>2
  <2> HIDE DEF y, z
  <2>7. y = 0
    <3> DEFINE a == k * r
    <3>1. a \in Int /\ x = a /\ x = a + y
      BY <1>3, <2>3, <2>4, <2>5, <2>6
    <3> HIDE DEF a
    <3> QED  BY <2>3, <2>5, <3>1
  <2> QED  BY <1>1, <2>7 DEF x, y, k
<1> DEFINE w == v - e
<1>6. w \in 0..u - 1
  BY <1>1, <1>2, <1>4, <1>5
<1>7. n * u - p + v = u * (n - r) + w /\ n - r \in Int
  <2> DEFINE a == u * r
             b == n * u
  <2>1. a \in Int /\ b \in Int /\ u * (n - r) = b - a
    BY <1>1, <1>3
  <2>2. p = a + e
    BY <1>4
  <2> HIDE DEF a, b
  <2>3. b - p + v = b - a + w
    BY <1>2, <1>4, <2>1, <2>2
  <2> QED  BY <1>3, <2>1, <2>3 DEF b
<1> HIDE DEF w
<1>8. (u * (n - r) + w) \div u = n - r
  BY <1>1, <1>6, <1>7, Quotient
<1>9. (n * u - p + v) \div u = n - r
  BY <1>7, <1>8
<1> QED  BY <1>9 DEF u, v, r

\* One coordinate of where a waypoint is followed, the map's origin so many cells from the
\* grid's; and its cell there.
FollowedAt(x, i, origin, shift) == x = (origin + shift * Sub) * Unit + Sub * i + (Sub * Unit) \div 2
FollowedIn(x, i, origin, shift) ==
  (x - origin * Unit) \div (Sub * Unit) = (i + Unit \div 2) \div Unit + shift

\* The cell is that of the map, shifted.
LEMMA FollowedAxis ==
  ASSUME NEW i \in Int, NEW origin \in Int, NEW shift \in Int, NEW x, FollowedAt(x, i, origin, shift)
  PROVE  FollowedIn(x, i, origin, shift)
<1> DEFINE m == Sub * Unit
           f == m \div 2
           y == Sub * i + f
<1>1. Sub \in Nat \ {0} /\ Unit \in Nat \ {0}
  BY GridAssumption, SearchAssumption
<1>2. m \in Nat \ {0}
  BY <1>1
<1>3. y \div m = (i + Unit \div 2) \div Unit
  BY <1>1, RoundedOnce
<1>4. f \in Int
  <2> HIDE DEF m
  <2> QED  BY <1>2
<1> HIDE DEF f
<1>5. y \in Int
  BY <1>1, <1>4
<1>6. x - origin * Unit = y - (-shift) * m
  <2>1. (origin + shift * Sub) * Unit = origin * Unit + shift * m
    <3>1. (origin + shift * Sub) * Unit = origin * Unit + (shift * Sub) * Unit
      BY <1>1
    <3>2. (shift * Sub) * Unit = shift * m
      BY <1>1
    <3> QED  BY <3>1, <3>2
  <2>2. (-shift) * m = -(shift * m)
    BY <1>2
  <2>3. x = (origin + shift * Sub) * Unit + Sub * i + f
    BY DEF FollowedAt, f
  <2> DEFINE a == origin * Unit
             b == shift * m
             c == Sub * i
  <2>4. a \in Int /\ b \in Int /\ c \in Int /\ x = a + b + c + f /\ y = c + f /\ (-shift) * m = -b
    BY <1>1, <1>2, <2>1, <2>2, <2>3
  <2> HIDE DEF a, b, c, y
  <2>5. x - a = y - (-b)
    BY <1>4, <2>4
  <2> QED  BY <2>4, <2>5 DEF a
<1> HIDE DEF y, m
<1>7. (y - (-shift) * m) \div m = y \div m - (-shift)
  <2>1. -shift \in Int
    OBVIOUS
  <2> QED  BY <1>2, <1>5, <2>1, QuotientShift
<1>8. y \div m \in Int
  BY <1>2, <1>5
<1>9. y \div m - (-shift) = y \div m + shift
  BY <1>8
<1> QED  BY <1>3, <1>6, <1>7, <1>9 DEF FollowedIn, m, y

\* A waypoint followed in a wall of the grid lies in a wall of the planner's.
LEMMA FollowedLaw ==
  ASSUME NEW s \in Site, NEW p \in Int \X Int, ~Tied(p[2]),
         NEW c, c = [k \in 1..2 |-> (InWorld(p, MapOf[s])[k] - Grid[s].origin[k] * Unit) \div (Sub * Unit)],
         c \in Valid(Grid[s]), Occupied(Grid[s], c)
  PROVE  CellOf(p) \in MapOf[s].walls
<1> DEFINE grid == Grid[s]
           saved == SavedMap(grid)
           image == ImageOf(s)
           map == MapOf[s]
           q == (p[1] + Unit \div 2) \div Unit
           r == (p[2] + Unit \div 2) \div Unit
<1>1. /\ grid = BuildOccupancyGrid(s.survey) /\ Sized(grid) /\ map = LoadMap(image, MapInflation)
      /\ Sized(image) /\ \E left, top : CutOut(saved, image, left, top)
  BY ImageLaw
<1>2. PICK left, top : CutOut(saved, image, left, top)
  BY <1>1
<1>3. /\ c = [k \in 1..2 |-> (InWorld(p, map)[k] - grid.origin[k] * Unit) \div (Sub * Unit)]
      /\ c \in Valid(grid) /\ Occupied(grid, c)
  OBVIOUS
<1>4. Wall(grid, c)
  <2>1. /\ s.survey \in Seq([at : Int \X Int, points : SUBSET (Int \X Int)]) /\ s.survey # <<>>
        /\ \A i \in DOMAIN s.survey : IsFiniteSet(s.survey[i].points)
    BY SiteAssumption
  <2> HIDE DEF grid
  <2>2. Told(c, grid, s.survey)
    BY <1>1, <1>3, <2>1, CellsLaw
  <2> QED  BY <1>3, <2>2 DEF Told
<1> HIDE DEF grid, image, map
<1>5. Dark(saved, <<c[1], grid.height - 1 - c[2]>>) /\ saved.origin = grid.origin /\ saved.height = grid.height
  BY <1>1, <1>3, <1>4, SavedLaw
<1> HIDE DEF saved
<1>6. map.origin = image.origin /\ map.height = image.height /\ \A d : d \in map.walls <=> Dark(image, d)
  BY <1>1 DEF LoadMap, Dark
<1> DEFINE h == map.height
           up == grid.height - top - h
           back == (h - 1) * Unit - p[2]
<1>7. /\ left \in Int /\ top \in Int /\ h \in Int /\ grid.height \in Int /\ up \in Int
      /\ grid.origin[1] \in Int /\ grid.origin[2] \in Int /\ p[1] \in Int /\ p[2] \in Int
      /\ Unit \in Nat \ {0}
  BY <1>1, <1>2, <1>6, SearchAssumption DEF CutOut, Sized
<1>8. /\ map.origin[1] = grid.origin[1] + left * Sub
      /\ map.origin[2] = grid.origin[2] + up * Sub
  BY <1>2, <1>5, <1>6 DEF CutOut
<1>9. /\ InWorld(p, map)[1] = map.origin[1] * Unit + Sub * p[1] + (Sub * Unit) \div 2
      /\ InWorld(p, map)[2] = map.origin[2] * Unit + Sub * back + (Sub * Unit) \div 2
  <2> DEFINE half == (Sub * Unit) \div 2
             pair == <<p[1], back>>
             at(k) == map.origin[k] * Unit + Sub * pair[k] + half
  <2>1. InWorld(p, map) = [k \in 1..2 |-> at(k)]
    BY Zenon DEF InWorld
  <2>2. pair[1] = p[1] /\ pair[2] = back
    OBVIOUS
  <2> HIDE DEF half, back, pair
  <2> QED  BY <2>1, <2>2 DEF half
<1>10. q \in Int /\ r \in Int
  <2> DEFINE v == Unit \div 2
  <2>1. v \in Int
    BY <1>7
  <2> HIDE DEF v
  <2>2. p[1] + v \in Int /\ p[2] + v \in Int
    BY <1>7, <2>1
  <2>3. \A x \in Int : x \div Unit \in Int
    BY <1>7
  <2> QED  BY <2>2, <2>3 DEF v
<1>11. c[1] = q + left
  <2>1. c[1] = (InWorld(p, map)[1] - grid.origin[1] * Unit) \div (Sub * Unit)
    BY <1>3
  <2>2. FollowedAt(InWorld(p, map)[1], p[1], grid.origin[1], left)
    BY <1>8, <1>9 DEF FollowedAt
  <2>3. FollowedIn(InWorld(p, map)[1], p[1], grid.origin[1], left)
    BY <1>7, <2>2, FollowedAxis
  <2> QED  BY <2>1, <2>3 DEF FollowedIn
<1>12. c[2] = (h - 1) - r + up
  <2>1. c[2] = (InWorld(p, map)[2] - grid.origin[2] * Unit) \div (Sub * Unit)
    BY <1>3
  <2>2. back \in Int
    BY <1>7
  <2>3. FollowedAt(InWorld(p, map)[2], back, grid.origin[2], up)
    BY <1>8, <1>9 DEF FollowedAt
  <2>4. (back + Unit \div 2) \div Unit = (h - 1) - r
    <3>1. h - 1 \in Int
      BY <1>7
    <3> QED  BY <1>7, <3>1, RoundedBack
  <2> HIDE DEF back, up, r, h
  <2>5. FollowedIn(InWorld(p, map)[2], back, grid.origin[2], up)
    BY <1>7, <2>2, <2>3, FollowedAxis
  <2> QED  BY <2>1, <2>4, <2>5 DEF FollowedIn
<1> HIDE DEF q, r, h
<1>13. c[1] - left = q /\ grid.height - 1 - c[2] - top = r
  BY <1>7, <1>10, <1>11, <1>12
<1> DEFINE d == <<c[1], grid.height - 1 - c[2]>>
<1>14. Dark(image, <<d[1] - left, d[2] - top>>)
  BY <1>2, <1>5 DEF CutOut
<1>15. <<d[1] - left, d[2] - top>> = <<q, r>>
  BY <1>13
<1>16. CellOf(p) = <<q, r>>
  BY DEF CellOf, q, r
<1> QED  BY <1>6, <1>14, <1>15, <1>16 DEF map

\* No free cell is a wall.
LEMMA WallsBlock ==
  ASSUME NEW s \in Site, NEW over \in Layers
  PROVE  FreeOf[<<s, over>>] \intersect MapOf[s].walls = {}
<1> DEFINE map == MapOf[s]
           image == ImageOf(s)
<1>1. map = LoadMap(image, MapInflation) /\ Sized(image)
  BY ImageLaw
<1> HIDE DEF map, image
<1>2. map.blocked = Inflated(map.walls, MapInflation, image) /\ map.walls \in SUBSET Valid(image)
  BY <1>1 DEF LoadMap
<1>3. ASSUME NEW c \in map.walls
      PROVE  c \in map.blocked
  <2>1. c \in Valid(image) /\ c[1] - c[1] = 0 /\ c[2] - c[2] = 0
    BY <1>1, <1>2 DEF Valid, Sized
  <2>2. Apart(c, c)[1] = 0 /\ Apart(c, c)[2] = 0
    BY <2>1 DEF Apart, Abs
  <2>3. 0 * 0 + 0 * 0 <= MapInflation * MapInflation
    BY PlannedAssumption
  <2> QED  BY <1>2, <2>1, <2>2, <2>3 DEF Inflated
<1>4. FreeOf[<<s, over>>] = FreeCells(map, over)
  BY OnceLaw DEF FreeOf, map
<1>5. FreeCells(map, over) \intersect map.blocked = {}
  BY DEF FreeCells
<1> QED  BY <1>3, <1>4, <1>5 DEF map

\* The waypoints of what is published lie halfway between no two rows.
Untied(points) == \A p \in ToSet(points) : ~Tied(p[2])

\* A grid has a value for every cell of its size.
LEMMA CellsDrawn ==
  ASSUME NEW survey, NEW grid, grid = BuildOccupancyGrid(survey)
  PROVE  DOMAIN grid.cells = Valid(grid)
<1> DEFINE beams == Beams(survey)
           end == [b \in beams |-> CellAt(b[3], grid.origin)]
           crossed == [b \in beams |-> Crossed(CellAt(b[2], grid.origin), end[b])]
           size == [width |-> grid.width, height |-> grid.height]
           F(d) == Judged(Cardinality({b \in beams : end[b] = d}),
                          Cardinality({b \in beams : d \in crossed[b]}))
<1>1. grid.cells = [d \in Valid(size) |-> F(d)]
  BY Zenon DEF BuildOccupancyGrid
<1>2. Valid(size) = Valid(grid)
  BY DEF Valid
<1> HIDE DEF size, F
<1> QED  BY <1>1, <1>2

\* A publication is followed off the walls.
LEMMA OffWalls ==
  ASSUME NEW s \in Site, NEW plan \in Plans, NEW route, route = Publication[<<s, plan>>],
         Untied(route.waypoints), NEW c \in route.followed, c \in DOMAIN Grid[s].cells
  PROVE  Grid[s].cells[c] < 65
<1> DEFINE grid == Grid[s]
           map == MapOf[s]
           points == route.waypoints
<1>1. plan.over \in Layers
  BY DEF Plans
<1>2. route.followed = Followed(points, map, grid)
  <2>1. route = Published(plan, map, FreeOf[<<s, plan.over>>], grid)
    BY OnceLaw DEF Publication
  <2> QED  BY <2>1 DEF Published
<1>3. points \in Seq(Int \X Int) /\ \A p \in ToSet(points) : CellOf(p) \in route.free
  BY SmoothedLaw DEF SmoothedStaysFree
<1>4. route.free = FreeOf[<<s, plan.over>>]
  BY PublicationLaw
<1> HIDE DEF points
<1>5. PICK p \in ToSet(points) :
        c = [k \in 1..2 |-> (InWorld(p, map)[k] - grid.origin[k] * Unit) \div (Sub * Unit)]
  BY <1>2 DEF Followed
<1>6. p \in Int \X Int /\ ~Tied(p[2]) /\ CellOf(p) \in route.free
  <2>1. p \in Int \X Int
    BY <1>3 DEF ToSet
  <2> QED  BY <1>3, <2>1 DEF Untied, points
<1>7. c \in Valid(grid) /\ grid.cells[c] \in Int
  <2>1. grid = BuildOccupancyGrid(s.survey)
    BY ImageLaw
  <2>2. DOMAIN grid.cells = Valid(grid)
    BY <2>1, CellsDrawn
  <2>3. c \in Valid(grid)
    BY <2>2
  <2>4. /\ s.survey \in Seq([at : Int \X Int, points : SUBSET (Int \X Int)]) /\ s.survey # <<>>
        /\ \A i \in DOMAIN s.survey : IsFiniteSet(s.survey[i].points)
    BY SiteAssumption
  <2> HIDE DEF grid
  <2>5. Told(c, grid, s.survey)
    BY <2>1, <2>3, <2>4, CellsLaw
  <2>6. grid.cells[c] \in {-1, 0, 100}
    BY <2>5 DEF Told
  <2> QED  BY <2>3, <2>6
<1>8. ~Occupied(grid, c)
  <2>1. CellOf(p) \notin map.walls
    BY <1>1, <1>4, <1>6, WallsBlock
  <2> HIDE DEF grid, map
  <2> QED  BY <1>5, <1>6, <1>7, <2>1, FollowedLaw DEF grid, map
<1> QED  BY <1>7, <1>8 DEF Occupied, grid

\* Where readPathJson of the controller places the waypoints of a path, the grid that the
\* map was drawn from has no wall, cropped or not; a waypoint halfway between two rows may
\* be rounded to either.
THEOREM PathsOffWalls ==
  PlannedSpec => [](  (\A plan \in path : Untied(Publication[<<site, plan>>].waypoints))
                    => PathsStayOffWalls)
<1>1. TypeOK /\ site \in Site =>
        ((\A plan \in path : Untied(Publication[<<site, plan>>].waypoints)) => PathsStayOffWalls)
  BY OffWalls DEF TypeOK, PathsStayOffWalls
<1> QED  BY <1>1, RequestsOfPlanned, TypeCorrect, PTL

-----------------------------------------------------------------------------
\* From sensor to message.

\* A whole circle of beams, one that is read on every axis.
AxesRead == AngleMin = 0 /\ AngleMax = Turn /\ Count % (4 * Stride) = 0

\* Less than half a beam.
Slight(tilt) == tilt \in Int /\ -Turn < (2 * tilt) * Count /\ (2 * tilt) * Count < Turn

\* The beam of an axis.
AxisBeam(axis) == (axis - 1) * (Count \div 4)

AngleOf(axis, tilt) == ((5 - axis) * (Turn \div 4) + tilt) % Turn

\* A remainder.
LEMMA Remainder ==
  ASSUME NEW u \in Nat \ {0}, NEW c \in Int, NEW r \in 0..u - 1, NEW x, x = u * c + r
  PROVE  x % u = r
<1> DEFINE q == x \div u
           m == x % u
           p == u * c
<1>1. q = c
  BY Quotient
<1>2. x \in Int /\ p \in Int
  OBVIOUS
<1>3. m \in 0..u - 1 /\ x = u * q + m
  BY <1>2
<1> HIDE DEF q, m
<1>4. x = p + m
  BY <1>1, <1>3
<1>5. x = p + r
  OBVIOUS
<1> HIDE DEF p
<1>6. m = r
  BY <1>2, <1>3, <1>4, <1>5
<1> QED  BY <1>6 DEF m

\* The numbers of beams and of units of a circle.
LEMMA Circle ==
  ASSUME AxesRead
  PROVE  /\ Turn \in Nat \ {0} /\ Turn = 4 * (Turn \div 4) /\ Turn \div 4 \in Nat \ {0}
         /\ Count \in Nat \ {0} /\ Count = 4 * (Count \div 4) /\ Count \div 4 \in Nat \ {0}
         /\ (Count \div 4) % Stride = 0 /\ Stride \in Nat \ {0} /\ Span = Turn
<1>1. /\ Turn \in Nat /\ Count \in Nat /\ Stride \in Nat /\ Turn % 4 = 0 /\ Turn > 0 /\ Count >= 2
      /\ Stride > 0
  BY ScanAssumption
<1>2. Turn = 4 * (Turn \div 4) /\ Turn \div 4 \in Nat \ {0}
  BY <1>1
<1> DEFINE k == 4 * Stride
           m == Count \div k
           n == Stride * m
<1>3. k \in Nat \ {0} /\ Count % k = 0
  BY <1>1 DEF AxesRead
<1>4. m \in Nat /\ Count = k * m
  <2> HIDE DEF k
  <2> QED  BY <1>1, <1>3
<1> HIDE DEF m
<1>5. Count = 4 * n /\ n \in Nat
  <2>1. k * m = 4 * n
    BY <1>1, <1>4
  <2> QED  BY <1>1, <1>4, <2>1
<1>6. Count \div 4 = n
  <2> HIDE DEF n, k
  <2> QED  BY <1>5
<1>7. n % Stride = 0
  <2>1. 0 \in 0..Stride - 1 /\ n = Stride * m + 0
    BY <1>1, <1>4
  <2> HIDE DEF n
  <2> QED  BY <1>1, <1>4, <2>1, Remainder
<1>8. n # 0
  <2> HIDE DEF n, k
  <2> QED  BY <1>1, <1>5
<1>9. Span = Turn
  BY <1>1 DEF Span, AxesRead
<1> QED  BY <1>1, <1>2, <1>5, <1>6, <1>7, <1>8, <1>9

\* The angle of a point on an axis, counted as the message counts.
LEMMA CountedLaw ==
  ASSUME AxesRead, NEW axis \in 1..4, NEW tilt, Slight(tilt), NEW angle, angle = AngleOf(axis, tilt)
  PROVE  /\ angle \in 0..Turn - 1 /\ Counted(angle) \in 0..Turn - 1
         /\ \/ Counted(angle) = (axis - 1) * (Turn \div 4) - tilt
            \/ axis = 1 /\ Counted(angle) = Turn - tilt
<1> DEFINE t == Turn \div 4
           x == (5 - axis) * t + tilt
<1>1. Turn \in Nat \ {0} /\ Turn = 4 * t /\ t \in Nat \ {0} /\ Count \in Nat /\ Count >= 4
  BY Circle
<1>2. tilt \in Int /\ -t < tilt /\ tilt < t
  <2>1. tilt \in Int /\ -Turn < (2 * tilt) * Count /\ (2 * tilt) * Count < Turn
    BY DEF Slight
  <2> HIDE DEF t
  <2>2. CASE tilt >= 0
    <3>1. (2 * tilt) * Count >= (2 * tilt) * 4
      BY <1>1, <2>1, <2>2
    <3> QED  BY <1>1, <2>1, <2>2, <3>1
  <2>3. CASE tilt < 0
    <3>1. (2 * tilt) * Count <= (2 * tilt) * 4
      BY <1>1, <2>1, <2>3
    <3> QED  BY <1>1, <2>1, <2>3, <3>1
  <2> QED  BY <2>1, <2>2, <2>3
<1>3. angle = x % Turn /\ Counted(angle) = (Turn - angle) % Turn
  BY DEF AngleOf, Counted
<1> HIDE DEF t
<1>4. ASSUME NEW y \in 0..Turn - 1
      PROVE  y % Turn = y
  <2>1. y = Turn * 0 + y /\ 0 \in Int
    BY <1>1
  <2> QED  BY <1>1, <2>1, Remainder
<1>5. ASSUME NEW y \in Int, Turn <= y, y < 2 * Turn
      PROVE  y % Turn = y - Turn
  <2>1. y = Turn * 1 + (y - Turn) /\ 1 \in Int /\ y - Turn \in 0..Turn - 1
    BY <1>1, <1>5
  <2> QED  BY <1>1, <2>1, Remainder
<1>6. CASE axis = 1 /\ tilt > 0
  <2>1. x = Turn + tilt
    BY <1>1, <1>2, <1>6
  <2>2. angle = tilt
    BY <1>1, <1>2, <1>3, <1>5, <1>6, <2>1
  <2>3. Turn - tilt \in 0..Turn - 1 /\ tilt \in 0..Turn - 1
    BY <1>1, <1>2, <1>6
  <2> QED  BY <1>3, <1>4, <1>6, <2>2, <2>3
<1>7. CASE axis = 1 /\ tilt = 0
  <2>1. x = Turn
    BY <1>1, <1>7
  <2>2. angle = 0
    BY <1>1, <1>3, <1>5, <2>1
  <2>3. Counted(angle) = 0
    BY <1>1, <1>3, <1>5, <2>2
  <2> QED  BY <1>1, <1>7, <2>2, <2>3
<1>8. CASE axis = 1 /\ tilt < 0
  <2>1. x = Turn + tilt /\ x \in 0..Turn - 1
    BY <1>1, <1>2, <1>8
  <2>2. angle = Turn + tilt
    BY <1>3, <1>4, <2>1
  <2>3. Turn - angle = -tilt /\ -tilt \in 0..Turn - 1
    BY <1>1, <1>2, <1>8, <2>2
  <2>4. Counted(angle) = -tilt
    BY <1>3, <1>4, <2>3
  <2> QED  BY <1>1, <1>2, <1>8, <2>1, <2>2, <2>3, <2>4
<1>9. CASE axis # 1
  <2>1. x \in 1..Turn - 1
    <3>1. CASE axis = 2
      BY <1>1, <1>2, <3>1
    <3>2. CASE axis = 3
      BY <1>1, <1>2, <3>2
    <3>3. CASE axis = 4
      BY <1>1, <1>2, <3>3
    <3> QED  BY <1>9, <3>1, <3>2, <3>3
  <2>2. angle = x
    BY <1>1, <1>3, <1>4, <2>1
  <2>3. Turn - x = (axis - 1) * t - tilt
    <3>1. CASE axis = 2
      BY <1>1, <1>2, <3>1
    <3>2. CASE axis = 3
      BY <1>1, <1>2, <3>2
    <3>3. CASE axis = 4
      BY <1>1, <1>2, <3>3
    <3> QED  BY <1>9, <3>1, <3>2, <3>3
  <2> HIDE DEF x
  <2>4. Turn - x \in 0..Turn - 1
    BY <1>1, <2>1
  <2>5. Counted(angle) = Turn - x
    BY <1>3, <1>4, <2>2, <2>4
  <2> QED  BY <1>1, <2>1, <2>2, <2>3, <2>4, <2>5 DEF t
<1> QED  BY <1>2, <1>6, <1>7, <1>8, <1>9

\* It falls to the beam of its axis, in any case nearer than nothing.
LEMMA BeamLaw ==
  ASSUME AxesRead, NEW axis \in 1..4, NEW tilt, Slight(tilt), NEW angle, angle = AngleOf(axis, tilt)
  PROVE  /\ angle \in 0..Turn - 1 /\ InAngleWindow(Counted(angle))
         /\ BeamOf(Counted(angle)) = AxisBeam(axis) /\ AxisBeam(axis) \in 0..Count - 1
         /\ Error(Counted(angle)) \in Nat /\ Error(Counted(angle)) < Count * Turn
<1> DEFINE t == Turn \div 4
           n == Count \div 4
           c == Counted(angle)
           k == (2 * tilt) * Count
           b == (axis - 1) * n
<1>1. /\ Turn \in Nat \ {0} /\ Turn = 4 * t /\ t \in Nat \ {0} /\ Span = Turn
      /\ Count \in Nat \ {0} /\ Count = 4 * n /\ n \in Nat \ {0}
  BY Circle
<1>2. /\ angle \in 0..Turn - 1 /\ c \in 0..Turn - 1
      /\ c = (axis - 1) * t - tilt \/ (axis = 1 /\ c = Turn - tilt)
  BY CountedLaw
<1>3. tilt \in Int /\ k \in Int /\ -Turn < k /\ k < Turn
  BY <1>1 DEF Slight
<1> HIDE DEF t, n, c
<1>4. InAngleWindow(c)
  BY <1>1, <1>2 DEF InAngleWindow, AxesRead
<1>5. Relative(c) = c
  <2>1. c = Turn * 0 + c /\ 0 \in Int
    BY <1>1, <1>2
  <2>2. c % Turn = c
    BY <1>1, <1>2, <2>1, Remainder
  <2>3. c - AngleMin = c
    BY <1>2 DEF AxesRead
  <2> QED  BY <2>2, <2>3 DEF Relative
<1>6. b \in 0..Count - 1
  <2>1. CASE axis = 1
    BY <1>1, <2>1
  <2>2. CASE axis = 2
    BY <1>1, <2>2
  <2>3. CASE axis = 3
    BY <1>1, <2>3
  <2>4. CASE axis = 4
    BY <1>1, <2>4
  <2> QED  BY <2>1, <2>2, <2>3, <2>4
<1> DEFINE r == Turn - k
           m == 2 * Turn
<1>7. m \in Nat \ {0} /\ r \in 0..m - 1
  <2> HIDE DEF k
  <2> QED  BY <1>1, <1>3
<1>8. BeamOf(c) = b
  <2>1. BeamOf(c) = (((2 * c) * Count + Turn) \div m) % Count
    BY <1>1, <1>5 DEF BeamOf
  <2>2. CASE c = (axis - 1) * t - tilt
    <3>1. (2 * c) * Count + Turn = m * b + r
      <4>1. (2 * c) * Count = (2 * ((axis - 1) * t)) * Count - k
        BY <1>1, <1>3, <2>2
      <4>2. (2 * ((axis - 1) * t)) * Count = m * b
        <5>1. CASE axis = 1
          BY <1>1, <5>1
        <5>2. CASE axis = 2
          BY <1>1, <5>2
        <5>3. CASE axis = 3
          BY <1>1, <5>3
        <5>4. CASE axis = 4
          BY <1>1, <5>4
        <5> QED  BY <5>1, <5>2, <5>3, <5>4
      <4> DEFINE y == m * b
      <4>3. y \in Int /\ (2 * c) * Count = y - k
        BY <1>1, <1>6, <4>1, <4>2
      <4> HIDE DEF y, k
      <4>4. (2 * c) * Count + Turn = y + r
        BY <1>1, <1>3, <4>3
      <4> QED  BY <4>4 DEF y
    <3> HIDE DEF m, r, b
    <3>2. (m * b + r) \div m = b
      BY <1>6, <1>7, Quotient
    <3>3. b % Count = b
      <4>1. b = Count * 0 + b /\ 0 \in Int
        BY <1>1, <1>6
      <4> QED  BY <1>1, <1>6, <4>1, Remainder
    <3> QED  BY <2>1, <3>1, <3>2, <3>3
  <2>3. CASE axis = 1 /\ c = Turn - tilt
    <3>1. (2 * c) * Count + Turn = m * Count + r
      <4>1. (2 * c) * Count = (2 * Turn) * Count - k
        BY <1>1, <1>3, <2>3
      <4> DEFINE y == m * Count
      <4>2. y \in Int /\ (2 * c) * Count = y - k
        BY <1>1, <4>1
      <4> HIDE DEF y, k
      <4>3. (2 * c) * Count + Turn = y + r
        BY <1>1, <1>3, <4>2
      <4> QED  BY <4>3 DEF y
    <3>2. b = 0
      BY <1>1, <2>3
    <3> HIDE DEF m, r, b
    <3>3. (m * Count + r) \div m = Count
      BY <1>1, <1>7, Quotient
    <3>4. Count % Count = 0
      <4>1. Count = Count * 1 + 0 /\ 1 \in Int /\ 0 \in 0..Count - 1
        BY <1>1
      <4> QED  BY <1>1, <4>1, Remainder
    <3> QED  BY <2>1, <3>1, <3>2, <3>3, <3>4
  <2> QED  BY <1>2, <2>2, <2>3
<1> HIDE DEF b, k, r, m
<1>9. Error(c) \in Nat /\ Error(c) < Count * Turn
  <2> DEFINE x == c * Count
             y == b * Turn
             z == Count * Turn
  <2>1. x \in Int /\ y \in Int /\ z \in Int /\ 0 <= x /\ x < z /\ 0 <= y /\ y < z
    <3>1. x \in Int /\ y \in Int /\ z \in Int /\ 0 <= x /\ 0 <= y
      BY <1>1, <1>2, <1>6
    <3>2. x <= (Turn - 1) * Count /\ (Turn - 1) * Count = z - Count
      BY <1>1, <1>2
    <3>3. y <= (Count - 1) * Turn /\ (Count - 1) * Turn = z - Turn
      BY <1>1, <1>6
    <3> HIDE DEF x, y, z
    <3> QED  BY <1>1, <3>1, <3>2, <3>3
  <2>2. Error(c) = IF x - y < 0 THEN -(x - y) ELSE x - y
    BY <1>1, <1>5, <1>8 DEF Error
  <2> HIDE DEF x, y, z
  <2>3. Error(c) \in Nat /\ Error(c) < z
    BY <2>1, <2>2
  <2> QED  BY <2>3 DEF z
<1> QED  BY <1>2, <1>4, <1>6, <1>8, <1>9 DEF AxisBeam, b, n, c

\* Two axes have two beams.
LEMMA BeamsApart ==
  ASSUME AxesRead, NEW a \in 1..4, NEW b \in 1..4, AxisBeam(a) = AxisBeam(b)
  PROVE  a = b
<1> DEFINE n == Count \div 4
<1>1. n \in Nat \ {0}
  BY Circle
<1>2. (a - 1) * n = (b - 1) * n
  BY DEF AxisBeam
<1> HIDE DEF n
<1>3. (a - b) * n = 0
  <2>1. (a - 1) * n = a * n - n /\ (b - 1) * n = b * n - n /\ (a - b) * n = a * n - b * n
    BY <1>1
  <2>2. a * n \in Int /\ b * n \in Int
    BY <1>1
  <2> QED  BY <1>1, <1>2, <2>1, <2>2
<1>4. CASE a < b
  <2>1. (b - a) * n >= 1 * n /\ (a - b) * n = -((b - a) * n) /\ (b - a) * n \in Int
    BY <1>1, <1>4
  <2> QED  BY <1>1, <1>3, <2>1
<1>5. CASE a > b
  <2>1. (a - b) * n >= 1 * n
    BY <1>1, <1>5
  <2> QED  BY <1>1, <1>3, <2>1
<1> QED  BY <1>4, <1>5

\* What BuildLaserScan has before it has taken a point to a beam, and how it takes one.
Unmeasured == [range |-> 0, error |-> Count * Turn]

Taking(beams, point) ==
  LET angle == Counted(point.angle)
      i == BeamOf(angle)
  IN IF InAngleWindow(angle) /\ Error(angle) < beams[i].error
     THEN [beams EXCEPT ![i] =
            [range |-> IF point.distance \in RangeMin..RangeMax THEN point.distance
                       ELSE @.range,
             error |-> Error(angle)]]
     ELSE beams

TakenFrom(t, points) ==
  t = [k \in 0..Len(points) |->
         IF k = 0 THEN [i \in 0..Count - 1 |-> Unmeasured] ELSE Taking(t[k - 1], points[k])]

InRange(d) == IF d \in RangeMin..RangeMax THEN d ELSE 0

Ranged == [0..Count - 1 -> [range : Nat, error : Nat]]

\* The beams once the first k points on these axes are taken.
Held(beams, axes, dist, k) ==
  /\ beams \in Ranged
  /\ \A j \in 1..k : beams[AxisBeam(axes[j])].range = InRange(dist[axes[j]])
  /\ \A i \in 0..Count - 1 : (\A j \in 1..k : AxisBeam(axes[j]) # i) => beams[i] = Unmeasured

\* A sequence of the members of a set, each once.
Listing(s, S) ==
  /\ s \in Seq(S)
  /\ \A a \in S : \E i \in 1..Len(s) : s[i] = a
  /\ \A i, j \in 1..Len(s) : s[i] = s[j] => i = j

\* The points on these axes, at these distances.
Points(h, axes, dist, tilt) ==
  /\ h \in Seq([angle : Int, distance : Nat]) /\ Len(h) = Len(axes)
  /\ \A k \in 1..Len(h) : h[k] = [angle |-> AngleOf(axes[k], tilt), distance |-> dist[axes[k]]]

\* A point goes to the beam of its axis, which no other has.
LEMMA TakingLaw ==
  ASSUME AxesRead, NEW tilt, Slight(tilt), NEW S \in SUBSET (1..4), NEW dist \in [1..4 -> Nat],
         NEW axes, Listing(axes, S), NEW h, Points(h, axes, dist, tilt),
         NEW k \in 1..Len(h), NEW beams, Held(beams, axes, dist, k - 1)
  PROVE  Held(Taking(beams, h[k]), axes, dist, k)
<1> DEFINE a == axes[k]
           angle == Counted(h[k].angle)
           i == AxisBeam(a)
           next == Taking(beams, h[k])
<1>1. /\ a \in 1..4 /\ h[k].angle = AngleOf(a, tilt) /\ h[k].distance = dist[a] /\ dist[a] \in Nat
      /\ \A j \in 1..k : axes[j] \in 1..4 /\ (axes[j] = a => j = k)
  <2>1. axes \in Seq(S) /\ Len(h) = Len(axes) /\ Len(axes) \in Nat
    BY DEF Listing, Points
  <2>2. \A j \in 1..k : j \in 1..Len(axes) /\ axes[j] \in S
    BY <2>1, ElementOfSeq
  <2>6. k \in 1..k /\ S \subseteq 1..4
    BY <2>1
  <2>7. \A j \in 1..k : axes[j] \in 1..4
    BY <2>2, <2>6
  <2>3. k \in 1..Len(axes) /\ a \in 1..4
    BY <2>1, <2>6, <2>7
  <2>4. \A j \in 1..k : axes[j] = a => j = k
    BY <2>2, <2>3 DEF Listing
  <2>5. h[k] = [angle |-> AngleOf(a, tilt), distance |-> dist[a]]
    BY DEF Points
  <2>8. h[k].angle = AngleOf(a, tilt) /\ h[k].distance = dist[a]
    BY <2>5
  <2>9. dist[a] \in Nat
    BY <2>3
  <2> QED  BY <2>3, <2>4, <2>7, <2>8, <2>9
<1>2. /\ InAngleWindow(angle) /\ BeamOf(angle) = i /\ i \in 0..Count - 1
      /\ Error(angle) \in Nat /\ Error(angle) < Count * Turn
  BY <1>1, BeamLaw
<1>3. \A j \in 1..k - 1 : AxisBeam(axes[j]) # i
  <2> SUFFICES ASSUME NEW j \in 1..k - 1, AxisBeam(axes[j]) = i PROVE FALSE
    OBVIOUS
  <2>1. j \in 1..k /\ k \in Int
    BY DEF Points
  <2>2. axes[j] = a
    BY <1>1, <2>1, BeamsApart
  <2> QED  BY <1>1, <2>1, <2>2
<1> HIDE DEF a, angle, i
<1>4. beams[i] = Unmeasured /\ beams \in Ranged
  BY <1>2, <1>3 DEF Held
<1> DEFINE kept == [range |-> InRange(dist[a]), error |-> Error(angle)]
<1>5. next = [beams EXCEPT ![i] = kept]
  <2>1. beams[i].error = Count * Turn /\ beams[i].range = 0
    BY <1>4 DEF Unmeasured
  <2>2. next = [beams EXCEPT ![i] = [range |-> IF h[k].distance \in RangeMin..RangeMax THEN h[k].distance
                                                ELSE beams[i].range,
                                      error |-> Error(angle)]]
    BY <1>2, <2>1 DEF Taking, angle
  <2> QED  BY <1>1, <2>1, <2>2 DEF InRange
<1>6. kept \in [range : Nat, error : Nat]
  BY <1>1, <1>2 DEF InRange
<1> HIDE DEF kept, next
<1>7. next \in Ranged /\ next[i] = kept /\ \A x \in 0..Count - 1 : x # i => next[x] = beams[x]
  BY <1>2, <1>4, <1>5, <1>6 DEF Ranged
<1>8. \A j \in 1..k : next[AxisBeam(axes[j])].range = InRange(dist[axes[j]])
  <2> SUFFICES ASSUME NEW j \in 1..k
               PROVE  next[AxisBeam(axes[j])].range = InRange(dist[axes[j]])
    OBVIOUS
  <2>1. CASE j = k
    BY <1>7, <2>1 DEF i, a, kept
  <2>2. CASE j # k
    <3>1. j \in 1..k - 1 /\ axes[j] \in 1..4
      BY <1>1, <2>2 DEF Points
    <3>2. AxisBeam(axes[j]) \in 0..Count - 1 /\ AxisBeam(axes[j]) # i
      <4>1. \E angle2 : angle2 = AngleOf(axes[j], tilt)
        OBVIOUS
      <4> QED  BY <1>3, <3>1, <4>1, BeamLaw
    <3>3. beams[AxisBeam(axes[j])].range = InRange(dist[axes[j]])
      BY <3>1 DEF Held
    <3> QED  BY <1>7, <3>2, <3>3
  <2> QED  BY <2>1, <2>2
<1>9. \A x \in 0..Count - 1 : (\A j \in 1..k : AxisBeam(axes[j]) # x) => next[x] = Unmeasured
  <2> SUFFICES ASSUME NEW x \in 0..Count - 1, \A j \in 1..k : AxisBeam(axes[j]) # x
               PROVE  next[x] = Unmeasured
    OBVIOUS
  <2>1. k \in 1..k /\ \A j \in 1..k - 1 : j \in 1..k
    BY DEF Points
  <2>2. x # i /\ \A j \in 1..k - 1 : AxisBeam(axes[j]) # x
    BY <2>1 DEF i, a
  <2>3. beams[x] = Unmeasured
    BY <2>2 DEF Held
  <2> QED  BY <1>7, <2>2, <2>3
<1> QED  BY <1>7, <1>8, <1>9 DEF Held, next

\* The ranges of a message: of every axis that has a point, and of nothing else.
Ranges(message, dist, S) ==
  /\ \A a \in S : message[AxisBeam(a)] = InRange(dist[a])
  /\ \A i \in 0..Count - 1 : (\A a \in S : AxisBeam(a) # i) => message[i] = 0

\* The message of these points: the range of every axis, and nothing between them.
LEMMA ScanLaw ==
  ASSUME AxesRead, NEW tilt, Slight(tilt), NEW S \in SUBSET (1..4), NEW dist \in [1..4 -> Nat],
         NEW axes, Listing(axes, S), NEW h, Points(h, axes, dist, tilt)
  PROVE  Ranges(BuildLaserScan(h), dist, S)
<1> DEFINE n == Len(h)
           first == [i \in 0..Count - 1 |-> Unmeasured]
           t == CHOOSE f : TakenFrom(f, h)
           step == [z \in Nat \X Ranged |-> IF z[1] \in 1..n THEN Taking(z[2], h[z[1]]) ELSE z[2]]
<1>1. BuildLaserScan(h) = [i \in 0..Count - 1 |-> t[n][i].range]
  BY Zenon DEF BuildLaserScan, TakenFrom, Unmeasured, Taking
<1> HIDE DEF t
<1>2. n \in Nat /\ n = Len(axes) /\ \A k \in 1..n : h[k] \in [angle : Int, distance : Nat]
  <2> DEFINE P == [angle : Int, distance : Nat]
  <2>1. h \in Seq(P) /\ n = Len(axes)
    BY DEF Points
  <2> HIDE DEF P
  <2>2. n \in Nat /\ \A k \in 1..n : h[k] \in P
    BY <2>1, ElementOfSeq
  <2> QED  BY <2>1, <2>2 DEF P
<1>3. first \in Ranged
  <2>1. Count * Turn \in Nat
    BY Circle
  <2> QED  BY <2>1 DEF Ranged, Unmeasured
<1>4. ASSUME NEW beams \in Ranged, NEW k \in 1..n
      PROVE  Taking(beams, h[k]) \in Ranged
  <2> DEFINE angle == Counted(h[k].angle)
             i == BeamOf(angle)
  <2>1. k \in 1..Len(axes) /\ axes[k] \in 1..4 /\ h[k].angle = AngleOf(axes[k], tilt) /\ h[k].distance \in Nat
    <3>1. axes \in Seq(S) /\ k \in 1..Len(axes)
      BY <1>2 DEF Listing
    <3>2. axes[k] \in S
      BY <3>1, ElementOfSeq
    <3>3. h[k] = [angle |-> AngleOf(axes[k], tilt), distance |-> dist[axes[k]]]
      BY DEF Points
    <3>4. axes[k] \in 1..4
      BY <3>2
    <3> QED  BY <3>1, <3>3, <3>4
  <2>2. i \in 0..Count - 1 /\ Error(angle) \in Nat
    BY <2>1, BeamLaw
  <2> DEFINE kept == [range |-> IF h[k].distance \in RangeMin..RangeMax THEN h[k].distance
                                ELSE beams[i].range,
                      error |-> Error(angle)]
  <2>3. kept \in [range : Nat, error : Nat]
    BY <2>1, <2>2 DEF Ranged
  <2>4. Taking(beams, h[k]) = IF InAngleWindow(angle) /\ Error(angle) < beams[i].error
                              THEN [beams EXCEPT ![i] = kept] ELSE beams
    BY DEF Taking
  <2> HIDE DEF kept, i, angle
  <2> QED  BY <2>2, <2>3, <2>4 DEF Ranged
<1> HIDE DEF first
<1>5. step \in [Nat \X Ranged -> Ranged]
  <2> HIDE DEF n
  <2> QED  BY <1>4
<1>6. PICK f \in [0..n -> Ranged] : Iterated(f, 0, n, first, step)
  <2> HIDE DEF step, n
  <2>1. 0 \in Nat /\ 0 <= n
    BY <1>2
  <2> QED  BY <1>2, <1>3, <1>5, <2>1, Recursion
<1> HIDE DEF n
<1>7. TakenFrom(f, h)
  <2>1. f[0] = first
    BY <1>6 DEF Iterated
  <2>2. ASSUME NEW k \in 0..n, k # 0
        PROVE  f[k] = Taking(f[k - 1], h[k])
    <3>1. k \in 0 + 1..n /\ k - 1 \in 0..n /\ k \in Nat /\ k \in 1..n
      BY <2>2, <1>2
    <3>2. f[k] = step[<<k, f[k - 1]>>]
      BY <1>6, <3>1 DEF Iterated
    <3>3. f[k - 1] \in Ranged
      BY <1>6, <3>1
    <3> QED  BY <3>1, <3>2, <3>3
  <2> HIDE DEF step
  <2>3. f = [k \in 0..n |-> IF k = 0 THEN first ELSE Taking(f[k - 1], h[k])]
    BY <1>6, <2>1, <2>2
  <2> QED  BY <2>3, Zenon DEF TakenFrom, first, n
<1>8. TakenFrom(t, h)
  BY <1>7, Zenon DEF t
<1>9. Held(t[n], axes, dist, n)
  <2> DEFINE T == {k \in 0..n : Held(t[k], axes, dist, k)}
  <2>0. t = [k \in 0..n |-> IF k = 0 THEN first ELSE Taking(t[k - 1], h[k])]
    BY <1>8, Zenon DEF TakenFrom, first, n
  <2>1. 0 \in T
    <3>1. 0 \in 0..n /\ t[0] = first
      BY <1>2, <2>0
    <3>2. 1..0 = {} /\ \A i \in 0..Count - 1 : first[i] = Unmeasured
      BY DEF first
    <3> QED  BY <1>3, <3>1, <3>2 DEF Held
  <2>2. ASSUME NEW k \in 0 + 1..n, k - 1 \in T
        PROVE  k \in T
    <3>1. k \in 0..n /\ k # 0 /\ k \in 1..Len(h)
      BY <1>2 DEF n
    <3>2. t[k] = Taking(t[k - 1], h[k])
      BY <2>0, <3>1
    <3>3. Held(t[k - 1], axes, dist, k - 1)
      BY <2>2
    <3>4. Held(Taking(t[k - 1], h[k]), axes, dist, k)
      BY <3>1, <3>3, TakingLaw
    <3> QED  BY <3>1, <3>2, <3>4
  <2> HIDE DEF T
  <2>3. 0 \in Nat /\ n \in 0..n
    BY <1>2
  <2>4. \A k \in 0..n : k \in T
    BY <1>2, <2>1, <2>2, <2>3, Interval
  <2> QED  BY <2>3, <2>4 DEF T
<1>10. ASSUME NEW a \in S
       PROVE  BuildLaserScan(h)[AxisBeam(a)] = InRange(dist[a])
  <2>1. PICK j \in 1..n : axes[j] = a
    BY <1>2 DEF Listing
  <2>2. t[n][AxisBeam(a)].range = InRange(dist[a])
    BY <1>9, <2>1 DEF Held
  <2>3. AxisBeam(a) \in 0..Count - 1
    <3>1. a \in 1..4 /\ \E angle : angle = AngleOf(a, tilt)
      OBVIOUS
    <3> QED  BY <3>1, BeamLaw
  <2> QED  BY <1>1, <2>2, <2>3
<1>11. ASSUME NEW i \in 0..Count - 1, \A a \in S : AxisBeam(a) # i
       PROVE  BuildLaserScan(h)[i] = 0
  <2>1. \A j \in 1..n : AxisBeam(axes[j]) # i
    <3>1. axes \in Seq(S)
      BY DEF Listing
    <3>2. \A j \in 1..n : axes[j] \in S
      BY <1>2, <3>1, ElementOfSeq
    <3> QED  BY <1>11, <3>2
  <2>2. t[n][i] = Unmeasured
    BY <1>9, <2>1 DEF Held
  <2> QED  BY <1>1, <2>2 DEF Unmeasured
<1> QED  BY <1>10, <1>11 DEF Ranges

\* A listing gets longer by an axis that is not in it yet, or by nothing.
LEMMA Lengthened ==
  ASSUME NEW S, NEW s, Listing(s, S), NEW a, a \notin S, NEW more, NEW T,
         \/ more = <<a>> /\ T = S \union {a}
         \/ more = <<>> /\ T = S
  PROVE  Listing(s \o more, T)
<1>1. s \in Seq(S)
  BY DEF Listing
<1>2. CASE more = <<>> /\ T = S
  BY <1>1, <1>2 DEF Listing
<1>3. CASE more = <<a>> /\ T = S \union {a}
  <2> DEFINE n == Len(s)
             u == s \o <<a>>
  <2>1. n \in Nat /\ u \in Seq(T) /\ Len(u) = n + 1
    <3>1. s \in Seq(T) /\ <<a>> \in Seq(T)
      BY <1>1, <1>3
    <3> QED  BY <1>1, <3>1
  <2>2. \A i \in 1..n : u[i] = s[i] /\ s[i] \in S
    BY <1>1
  <2>3. u[n + 1] = a
    BY <1>1
  <2> HIDE DEF n, u
  <2>4. ASSUME NEW b \in T
        PROVE  \E i \in 1..Len(u) : u[i] = b
    <3>1. CASE b = a
      BY <2>1, <2>3, <3>1
    <3>2. CASE b # a
      <4>1. PICK i \in 1..n : s[i] = b
        BY <1>3, <3>2 DEF Listing, n
      <4> QED  BY <2>1, <2>2, <4>1
    <3> QED  BY <3>1, <3>2
  <2>5. ASSUME NEW i \in 1..Len(u), NEW j \in 1..Len(u), u[i] = u[j]
        PROVE  i = j
    <3>1. (i \in 1..n \/ i = n + 1) /\ (j \in 1..n \/ j = n + 1)
      BY <2>1
    <3>2. CASE i \in 1..n /\ j \in 1..n
      BY <2>2, <2>5, <3>2 DEF Listing, n
    <3>3. CASE i = n + 1 /\ j = n + 1
      BY <3>3
    <3> QED  BY <2>2, <2>3, <2>5, <3>1, <3>2, <3>3
  <2>6. Listing(u, T)
    BY <2>1, <2>4, <2>5 DEF Listing
  <2> QED  BY <1>3, <2>6 DEF u
<1> QED  BY <1>2, <1>3

\* The axes a sensor meets something on, and how far.
FacedAxes(pose, objects) == {a \in 1..4 : Facing(pose, objects, a) # {}}

Distance(pose, objects) ==
  [a \in 1..4 |-> IF Facing(pose, objects, a) = {} THEN 0 ELSE Min(Facing(pose, objects, a))]

\* The distance is of something met.
LEMMA DistanceLaw ==
  ASSUME NEW pose, NEW objects
  PROVE  /\ Distance(pose, objects) \in [1..4 -> Nat]
         /\ \A a \in FacedAxes(pose, objects) :
              /\ Distance(pose, objects)[a] = Min(Facing(pose, objects, a))
              /\ Distance(pose, objects)[a] \in Facing(pose, objects, a)
              /\ Distance(pose, objects)[a] \in 1..RangeMax + 1
<1>1. ASSUME NEW a \in 1..4, Facing(pose, objects, a) # {}
      PROVE  /\ Min(Facing(pose, objects, a)) \in Facing(pose, objects, a)
             /\ Min(Facing(pose, objects, a)) \in 1..RangeMax + 1
  <2> DEFINE F == Facing(pose, objects, a)
  <2>1. F \subseteq 1..RangeMax + 1 /\ F \subseteq Nat
    BY DEF Facing
  <2> HIDE DEF F
  <2>2. F # {}
    BY <1>1 DEF F
  <2>3. F \in SUBSET Nat
    BY <2>1
  <2>4. Min(F) \in F
    BY <2>2, <2>3, MinLaw
  <2> QED  BY <2>1, <2>4 DEF F
<1>2. RangeMax \in Nat
  BY ScanAssumption
<1> QED  BY <1>1, <1>2 DEF Distance, FacedAxes

\* A revolution has one point for each of those axes.
LEMMA RevolutionLaw ==
  ASSUME AxesRead, NEW pose, NEW objects, NEW tilt, Slight(tilt)
  PROVE  \E axes : /\ Listing(axes, FacedAxes(pose, objects))
                   /\ Points(Revolution(pose, objects, tilt), axes, Distance(pose, objects), tilt)
<1> DEFINE F(a) == Facing(pose, objects, a)
           one(a) == IF F(a) = {} THEN <<>> ELSE <<a>>
           met == one(1) \o one(4) \o one(3) \o one(2)
           S == FacedAxes(pose, objects)
           dist == Distance(pose, objects)
           h == Revolution(pose, objects, tilt)
<1>1. h = [i \in DOMAIN met |-> [angle |-> ((5 - met[i]) * (Turn \div 4) + tilt) % Turn,
                                 distance |-> Min(F(met[i]))]]
  BY Zenon DEF Revolution
<1>2. Listing(met, S)
  <2> DEFINE T(a) == {b \in {a} : F(b) # {}}
  <2>0. \A a \in 1..4 : (one(a) = <<a>> /\ T(a) = {a}) \/ (one(a) = <<>> /\ T(a) = {})
    OBVIOUS
  <2>00. S = ((T(1) \union T(4)) \union T(3)) \union T(2)
    BY DEF FacedAxes
  <2>000. \A a \in 1..4 : T(a) \subseteq {a}
    OBVIOUS
  <2> HIDE DEF one, T, F
  <2>1. Listing(one(1), T(1))
    <3>1. Listing(<<1>>, {1})
      BY DEF Listing
    <3>2. Listing(<<>>, {})
      <4>1. <<>> \in Seq({}) /\ Len(<<>>) = 0 /\ 1..0 = {}
        OBVIOUS
      <4> QED  BY <4>1 DEF Listing
    <3>3. (one(1) = <<1>> /\ T(1) = {1}) \/ (one(1) = <<>> /\ T(1) = {})
      BY <2>0
    <3> QED  BY <3>1, <3>2, <3>3
  <2>2. Listing(one(1) \o one(4), T(1) \union T(4))
    <3>1. 4 \notin T(1) /\ \/ one(4) = <<4>> /\ T(1) \union T(4) = T(1) \union {4}
                           \/ one(4) = <<>> /\ T(1) \union T(4) = T(1)
      BY <2>0, <2>000
    <3> QED  BY <2>1, <3>1, Lengthened
  <2> DEFINE S4 == T(1) \union T(4)
             S3 == S4 \union T(3)
  <2>3. Listing((one(1) \o one(4)) \o one(3), S3)
    <3>1. 3 \notin S4 /\ \/ one(3) = <<3>> /\ S3 = S4 \union {3}
                         \/ one(3) = <<>> /\ S3 = S4
      BY <2>0, <2>000
    <3> QED  BY <2>2, <3>1, Lengthened
  <2>4. Listing(((one(1) \o one(4)) \o one(3)) \o one(2), S3 \union T(2))
    <3>1. 2 \notin S3 /\ \/ one(2) = <<2>> /\ S3 \union T(2) = S3 \union {2}
                         \/ one(2) = <<>> /\ S3 \union T(2) = S3
      BY <2>0, <2>000
    <3> HIDE DEF S3
    <3> QED  BY <2>3, <3>1, Lengthened
  <2> QED  BY <2>00, <2>4
<1> HIDE DEF met
<1>3. met \in Seq(S) /\ DOMAIN met = 1..Len(met) /\ Len(met) \in Nat
  BY <1>2 DEF Listing
<1>4. \A i \in 1..Len(met) : met[i] \in S
  BY <1>3, ElementOfSeq
<1> DEFINE P == [angle : Int, distance : Nat]
           entry(i) == [angle |-> AngleOf(met[i], tilt), distance |-> dist[met[i]]]
<1>5. ASSUME NEW i \in 1..Len(met)
      PROVE  h[i] = entry(i) /\ entry(i) \in P
  <2>1. met[i] \in S /\ met[i] \in 1..4
    BY <1>4 DEF FacedAxes
  <2>2. dist[met[i]] = Min(F(met[i])) /\ dist[met[i]] \in Nat
    BY <2>1, DistanceLaw
  <2>3. AngleOf(met[i], tilt) \in 0..Turn - 1
    BY <2>1, BeamLaw
  <2>4. Turn \in Nat
    BY ScanAssumption
  <2>5. h[i] = [angle |-> AngleOf(met[i], tilt), distance |-> Min(F(met[i]))]
    BY <1>1, <1>3 DEF AngleOf
  <2> HIDE DEF dist, h, F
  <2> QED  BY <2>2, <2>3, <2>4, <2>5
<1>6. DOMAIN h = 1..Len(met)
  BY <1>1, <1>3
<1> HIDE DEF P, entry, h, dist
<1>7. h = [i \in 1..Len(met) |-> h[i]]
  BY <1>1, <1>3 DEF h
<1>8. h \in Seq(P) /\ Len(h) = Len(met)
  <2>1. \A i \in 1..Len(met) : h[i] \in P
    BY <1>5
  <2> QED  BY <1>3, <1>7, <2>1
<1>9. Points(h, met, dist, tilt)
  BY <1>5, <1>8 DEF Points, P, entry
<1> QED  BY <1>2, <1>9 DEF h, dist

-----------------------------------------------------------------------------
\* From message to readers.

\* The beam of an axis is read, and points along the axis.
LEMMA TowardLaw ==
  ASSUME AxesRead, NEW a \in 1..4
  PROVE  AxisBeam(a) \in Strided /\ AxisBeam(a) \in 0..Count - 1 /\ Toward(AxisBeam(a)) = Axis[a]
<1> DEFINE n == Count \div 4
           i == AxisBeam(a)
           circle == Count * Turn
<1>1. /\ Turn \in Nat \ {0} /\ Count \in Nat \ {0} /\ Count = 4 * n /\ n \in Nat \ {0}
      /\ n % Stride = 0 /\ Stride \in Nat \ {0} /\ Span = Turn
  BY Circle
<1>2. i = (a - 1) * n /\ i \in 0..Count - 1
  <2> HIDE DEF n
  <2>1. (a - 1) * n \in 0..Count - 1
    <3>1. CASE a = 1
      BY <1>1, <3>1
    <3>2. CASE a = 2
      BY <1>1, <3>2
    <3>3. CASE a = 3
      BY <1>1, <3>3
    <3>4. CASE a = 4
      BY <1>1, <3>4
    <3> QED  BY <3>1, <3>2, <3>3, <3>4
  <2> QED  BY <2>1 DEF AxisBeam, n
<1> HIDE DEF n, i
<1>3. i % Stride = 0
  <2> DEFINE m == n \div Stride
  <2>1. m \in Int /\ n = Stride * m
    BY <1>1
  <2> HIDE DEF m
  <2> DEFINE c == (a - 1) * m
  <2>2. c \in Int /\ i = Stride * c + 0
    BY <1>1, <1>2, <2>1
  <2>3. 0 \in 0..Stride - 1
    BY <1>1
  <2> HIDE DEF c
  <2> QED  BY <1>1, <2>2, <2>3, Remainder
<1>4. (AngleMin * Count + i * Span) * 4 = circle * (a - 1) + 0
  <2>1. AngleMin * Count + i * Span = i * Turn
    BY <1>1, <1>2 DEF AxesRead
  <2>2. (i * Turn) * 4 = ((4 * n) * Turn) * (a - 1)
    <3>1. CASE a = 1
      BY <1>1, <1>2, <3>1
    <3>2. CASE a = 2
      BY <1>1, <1>2, <3>2
    <3>3. CASE a = 3
      BY <1>1, <1>2, <3>3
    <3>4. CASE a = 4
      BY <1>1, <1>2, <3>4
    <3> QED  BY <3>1, <3>2, <3>3, <3>4
  <2>3. circle \in Int /\ circle * (a - 1) \in Int
    BY <1>1
  <2> QED  BY <1>1, <2>1, <2>2, <2>3
<1>5. circle \in Nat \ {0} /\ 0 \in 0..circle - 1
  BY <1>1
<1> HIDE DEF circle
<1>6. ((AngleMin * Count + i * Span) * 4) \div circle = a - 1
  <2>1. (circle * (a - 1) + 0) \div circle = a - 1
    BY <1>5, Quotient
  <2> QED  BY <1>4, <2>1
<1>7. ((a - 1) % 4) + 1 = a
  OBVIOUS
<1>8. Toward(i) = Axis[a]
  BY <1>6, <1>7 DEF Toward, circle
<1> QED  BY <1>2, <1>3, <1>8 DEF Strided, i

\* Where the sensor meets something, seen from the base.
Base(pose, objects, a) == [k \in 1..2 |-> Mount[k] + Distance(pose, objects)[a] * Axis[a][k]]

Within(pose, objects, low, high) ==
  {a \in FacedAxes(pose, objects) :
     low <= Distance(pose, objects)[a] /\ Distance(pose, objects)[a] <= high}

\* What is in the message.
LEMMA RangesLaw ==
  ASSUME AxesRead, NEW pose, NEW objects, NEW tilt, Slight(tilt),
         NEW message, message = BuildLaserScan(Revolution(pose, objects, tilt))
  PROVE  /\ Ranges(message, Distance(pose, objects), FacedAxes(pose, objects))
         /\ \A i \in 0..Count - 1 : message[i] \in Nat
<1> DEFINE S == FacedAxes(pose, objects)
           dist == Distance(pose, objects)
<1>1. S \in SUBSET (1..4) /\ dist \in [1..4 -> Nat]
  BY DistanceLaw DEF FacedAxes
<1>2. PICK axes : Listing(axes, S) /\ Points(Revolution(pose, objects, tilt), axes, dist, tilt)
  BY RevolutionLaw
<1> HIDE DEF S, dist
<1>3. Ranges(message, dist, S)
  BY <1>1, <1>2, ScanLaw
<1>4. ASSUME NEW i \in 0..Count - 1
      PROVE  message[i] \in Nat
  <2>1. CASE \E a \in S : AxisBeam(a) = i
    <3>1. PICK a \in S : AxisBeam(a) = i
      BY <2>1
    <3>2. dist[a] \in Nat
      BY <1>1
    <3>3. message[i] = InRange(dist[a])
      BY <1>3, <3>1 DEF Ranges
    <3> QED  BY <3>2, <3>3 DEF InRange
  <2>2. CASE \A a \in S : AxisBeam(a) # i
    BY <1>3, <2>2 DEF Ranges
  <2> QED  BY <2>1, <2>2
<1> QED  BY <1>3, <1>4 DEF S, dist

\* Where the ranges of some beams end, and where the sensor meets something.
Read(message, beams, low, high) ==
  {OnBase(message, i) : i \in {j \in beams : low <= message[j] /\ message[j] <= high}}

Bounded(low, high, pose, objects) ==
  {Base(pose, objects, a) : a \in Within(pose, objects, low, high)}

\* The axes that a reader finds again in the message.
LEMMA ReadLaw ==
  ASSUME AxesRead, NEW pose, NEW objects, NEW tilt, Slight(tilt),
         NEW message, message = BuildLaserScan(Revolution(pose, objects, tilt)),
         NEW beams \in SUBSET (0..Count - 1), Strided \subseteq beams,
         NEW low \in Nat, NEW high \in Nat, RangeMin <= low, high <= RangeMax
  PROVE  Read(message, beams, low, high) = Bounded(low, high, pose, objects)
<1> DEFINE S == FacedAxes(pose, objects)
           dist == Distance(pose, objects)
           read == {j \in beams : low <= message[j] /\ message[j] <= high}
           met == Within(pose, objects, low, high)
<1>1. Ranges(message, dist, S)
  BY RangesLaw
<1>2. RangeMin \in Nat /\ RangeMax \in Nat /\ RangeMin > 0
  BY ScanAssumption
<1>3. ASSUME NEW a \in S
      PROVE  a \in 1..4 /\ message[AxisBeam(a)] = InRange(dist[a]) /\ dist[a] \in Nat
  <2>1. a \in 1..4 /\ dist[a] \in Nat
    BY DistanceLaw DEF FacedAxes
  <2> QED  BY <1>1, <2>1 DEF Ranges
<1>4. ASSUME NEW i \in read
      PROVE  \E a \in met : i = AxisBeam(a)
  <2>1. i \in 0..Count - 1 /\ low <= message[i] /\ message[i] <= high
    OBVIOUS
  <2>2. PICK a \in S : i = AxisBeam(a)
    <3>1. message[i] # 0
      BY <1>2, <2>1
    <3> HIDE DEF S, dist, read
    <3> QED  BY <1>1, <2>1, <3>1 DEF Ranges
  <2>3. low <= dist[a] /\ dist[a] <= high
    <3>1. message[i] = InRange(dist[a]) /\ dist[a] \in Nat
      BY <1>3, <2>2
    <3> HIDE DEF dist
    <3> QED  BY <1>2, <2>1, <3>1 DEF InRange
  <2> QED  BY <2>2, <2>3 DEF Within
<1>5. ASSUME NEW a \in met
      PROVE  /\ AxisBeam(a) \in read
             /\ OnBase(message, AxisBeam(a)) = Base(pose, objects, a)
  <2>1. a \in S /\ low <= dist[a] /\ dist[a] <= high
    BY DEF Within
  <2>2. a \in 1..4 /\ message[AxisBeam(a)] = InRange(dist[a]) /\ dist[a] \in Nat
    BY <1>3, <2>1
  <2>3. message[AxisBeam(a)] = dist[a]
    <3> HIDE DEF dist
    <3> QED  BY <1>2, <2>1, <2>2 DEF InRange
  <2>4. AxisBeam(a) \in Strided /\ Toward(AxisBeam(a)) = Axis[a]
    BY <2>2, TowardLaw
  <2>5. AxisBeam(a) \in read
    BY <2>1, <2>3, <2>4
  <2>6. OnBase(message, AxisBeam(a)) = Base(pose, objects, a)
    BY <2>3, <2>4 DEF OnBase, Base
  <2> QED  BY <2>5, <2>6
<1> HIDE DEF read, met
<1>6. ASSUME NEW point \in {OnBase(message, i) : i \in read}
      PROVE  point \in {Base(pose, objects, a) : a \in met}
  <2>1. PICK i \in read : point = OnBase(message, i)
    OBVIOUS
  <2>2. PICK a \in met : i = AxisBeam(a)
    BY <1>4
  <2> QED  BY <1>5, <2>1, <2>2
<1>7. ASSUME NEW point \in {Base(pose, objects, a) : a \in met}
      PROVE  point \in {OnBase(message, i) : i \in read}
  <2>1. PICK a \in met : point = Base(pose, objects, a)
    OBVIOUS
  <2> QED  BY <1>5, <2>1
<1>8. {OnBase(message, i) : i \in read} = {Base(pose, objects, a) : a \in met}
  BY <1>6, <1>7
<1> QED  BY <1>8 DEF read, met, Read, Bounded

\* What each reader takes from the message.
LEMMA ReadersLaw ==
  ASSUME AxesRead, ReadRange <= RangeMax, NEW pose, NEW objects, NEW tilt, Slight(tilt),
         NEW message, message = BuildLaserScan(Revolution(pose, objects, tilt))
  PROVE  /\ BasePoints(message) = Bounded(RangeMin, RangeMax, pose, objects)
         /\ PlannerObstacles(message) =
              {p \in Bounded(RangeMin, ReadRange, pose, objects) : ~InsideFootprint(p)}
         /\ ControllerObstacles(message) =
              {p \in Bounded(RangeMin + 1, ReadRange, pose, objects) : ~InsideFootprint(p)}
<1>1. /\ RangeMin \in Nat /\ RangeMin + 1 \in Nat /\ RangeMax \in Nat /\ ReadRange \in Nat
      /\ RangeMin <= RangeMin + 1 /\ RangeMax <= RangeMax /\ RangeMin <= RangeMin /\ RangeMin > 0
  BY ScanAssumption
<1>2. Strided \in SUBSET (0..Count - 1) /\ Strided \subseteq Strided /\ 0..Count - 1 \in SUBSET (0..Count - 1)
  BY DEF Strided
<1>3. Min({ReadRange, RangeMax}) = ReadRange
  <2>1. {ReadRange, RangeMax} \in SUBSET Nat /\ {ReadRange, RangeMax} # {}
    BY <1>1
  <2> DEFINE m == Min({ReadRange, RangeMax})
  <2>2. m \in {ReadRange, RangeMax} /\ \A n \in {ReadRange, RangeMax} : m <= n
    BY <2>1, MinLaw
  <2> HIDE DEF m
  <2>3. m = ReadRange
    BY <1>1, <2>2
  <2> QED  BY <2>3 DEF m
<1>4. BasePoints(message) = Bounded(RangeMin, RangeMax, pose, objects)
  <2> DEFINE all == 0..Count - 1
  <2>1. Strided \subseteq all /\ all \in SUBSET (0..Count - 1)
    BY <1>2
  <2> HIDE DEF all
  <2>2. Read(message, all, RangeMin, RangeMax) = Bounded(RangeMin, RangeMax, pose, objects)
    BY <1>1, <2>1, ReadLaw
  <2> QED  BY <2>2 DEF BasePoints, Read, all
<1>5. Read(message, Strided, RangeMin, ReadRange) = Bounded(RangeMin, ReadRange, pose, objects)
  BY <1>1, <1>2, ReadLaw
<1>6. Read(message, Strided, RangeMin + 1, ReadRange) = Bounded(RangeMin + 1, ReadRange, pose, objects)
  BY <1>1, <1>2, ReadLaw
<1>7. \A i \in 0..Count - 1 : message[i] \in Int
  <2>1. \A i \in 0..Count - 1 : message[i] \in Nat
    BY RangesLaw
  <2> QED  BY <2>1
<1>8. {j \in Strided : RangeMin + 1 <= message[j] /\ message[j] <= ReadRange}
        = {j \in Strided : RangeMin < message[j] /\ message[j] <= ReadRange}
  <2>1. ASSUME NEW j \in Strided
        PROVE  RangeMin + 1 <= message[j] <=> RangeMin < message[j]
    <3>1. message[j] \in Int
      BY <1>2, <1>7
    <3> QED  BY <1>1, <3>1
  <2> QED  BY <2>1
<1>9. PlannerObstacles(message) =
        {p \in Bounded(RangeMin, ReadRange, pose, objects) : ~InsideFootprint(p)}
  BY <1>3, <1>5 DEF PlannerObstacles, Read
<1>10. ControllerObstacles(message) =
         {p \in Bounded(RangeMin + 1, ReadRange, pose, objects) : ~InsideFootprint(p)}
  BY <1>3, <1>6, <1>8 DEF ControllerObstacles, Read
<1> QED  BY <1>4, <1>9, <1>10

\* Two points are not in one place of the world.
LEMMA WorldApart ==
  ASSUME NEW pose, pose.heading \in 1..4, pose.place \in Int \X Int,
         NEW p \in [1..2 -> Int], NEW q \in [1..2 -> Int], World(p, pose) = World(q, pose)
  PROVE  p = q
<1> DEFINE h == pose.heading
           x == pose.place[1]
           y == pose.place[2]
<1>1. /\ x \in Int /\ y \in Int
      /\ p[1] \in Int /\ p[2] \in Int /\ q[1] \in Int /\ q[2] \in Int
  OBVIOUS
<1>2. \A r : World(r, pose)[1] = x + (Axis[h][1] * r[1] - Axis[h][2] * r[2])
             /\ World(r, pose)[2] = y + (Axis[h][2] * r[1] + Axis[h][1] * r[2])
  BY DEF World, Turned
<1> DEFINE c == Axis[h][1]
           s == Axis[h][2]
           p1 == p[1]
           p2 == p[2]
           q1 == q[1]
           q2 == q[2]
<1>3. /\ x + (c * p1 - s * p2) = x + (c * q1 - s * q2)
      /\ y + (s * p1 + c * p2) = y + (s * q1 + c * q2)
  BY <1>2
<1>4. (c = 1 /\ s = 0) \/ (c = 0 /\ s = 1) \/ (c = -1 /\ s = 0) \/ (c = 0 /\ s = -1)
  BY DEF Axis
<1> HIDE DEF x, y, c, s, p1, p2, q1, q2
<1>5. x \in Int /\ y \in Int /\ p1 \in Int /\ p2 \in Int /\ q1 \in Int /\ q2 \in Int
  BY <1>1 DEF p1, p2, q1, q2
<1>6. p1 = q1 /\ p2 = q2
  BY <1>3, <1>4, <1>5
<1> QED  BY <1>6 DEF p1, p2, q1, q2

\* The sensor meets nothing nearer than it measures, and at its least range nothing but
\* the robot.
FarEnough(pose, objects) ==
  \A a \in FacedAxes(pose, objects) :
    /\ RangeMin <= Distance(pose, objects)[a]
    /\ RangeMin = Distance(pose, objects)[a] => InsideFootprint(Base(pose, objects, a))

\* What the sensor meets is what the readers take from the message.
LEMMA AgreedLaw ==
  ASSUME AxesRead, ReadRange <= RangeMax, NEW o \in Pose \X Scan,
         Slight(Tilt[o[2]]), FarEnough(Placing(o[1]), Objects[o[2]])
  PROVE  Agreed(o)
<1> DEFINE pose == Placing(o[1])
           objects == Objects[o[2]]
           message == Message[o]
           dist == Distance(pose, objects)
           S == FacedAxes(pose, objects)
           At(points) == {World(point, pose) : point \in points}
           base(a) == Base(pose, objects, a)
           all == BasePoints(message)
           Others(places) == {q \in places : \A point \in all :
                               World(point, pose) = q => ~InsideFootprint(point)}
<1>1. message = BuildLaserScan(Revolution(pose, objects, Tilt[o[2]]))
  BY OnceLaw DEF Message
<1>2. Seen[o] = At(PlannerObstacles(message))
  BY OnceLaw DEF Seen
<1>3. pose.heading \in 1..4 /\ pose.place \in Int \X Int
  BY RequestsAssumption, PlannedAssumption DEF Placing
<1>4. /\ all = Bounded(RangeMin, RangeMax, pose, objects)
      /\ PlannerObstacles(message) = {p \in Bounded(RangeMin, ReadRange, pose, objects) : ~InsideFootprint(p)}
      /\ ControllerObstacles(message) = {p \in Bounded(RangeMin + 1, ReadRange, pose, objects) : ~InsideFootprint(p)}
  <2> HIDE DEF message, pose, objects
  <2> QED  BY <1>1, ReadersLaw
<1>5. /\ \A a \in S : /\ a \in 1..4 /\ dist[a] \in Nat /\ dist[a] = Min(Facing(pose, objects, a))
                      /\ dist[a] \in Facing(pose, objects, a)
                      /\ RangeMin <= dist[a] /\ (RangeMin = dist[a] => InsideFootprint(base(a)))
      /\ \A a \in 1..4 : a \notin S => Facing(pose, objects, a) = {}
  <2>1. dist \in [1..4 -> Nat] /\ \A a \in S : dist[a] = Min(Facing(pose, objects, a))
                                               /\ dist[a] \in Facing(pose, objects, a)
    BY DistanceLaw
  <2>2. S \subseteq 1..4 /\ \A a \in 1..4 : a \notin S => Facing(pose, objects, a) = {}
    BY DEF FacedAxes
  <2>3. \A a \in S : RangeMin <= dist[a] /\ (RangeMin = dist[a] => InsideFootprint(base(a)))
    BY DEF FarEnough
  <2> HIDE DEF dist, S
  <2> QED  BY <2>1, <2>2, <2>3
<1>6. ASSUME NEW reach \in Nat
      PROVE  Met(pose, objects, reach) = {World(base(a), pose) : a \in {b \in S : dist[b] <= reach}}
  <2>1. {a \in 1..4 : \E d \in Facing(pose, objects, a) :
                        d = Min(Facing(pose, objects, a)) /\ d <= reach} = {b \in S : dist[b] <= reach}
    <3> DEFINE found(a) == \E d \in Facing(pose, objects, a) :
                             d = Min(Facing(pose, objects, a)) /\ d <= reach
    <3> HIDE DEF pose, objects, dist, S
    <3>1. \A a \in S : a \in 1..4 /\ (found(a) <=> dist[a] <= reach)
      BY <1>5
    <3>2. \A a \in 1..4 : a \notin S => ~found(a)
      BY <1>5
    <3> HIDE DEF found
    <3>3. {a \in 1..4 : found(a)} = {b \in S : dist[b] <= reach}
      BY <3>1, <3>2
    <3> QED  BY <3>3 DEF found
  <2>2. \A a \in {b \in S : dist[b] <= reach} :
          base(a) = [k \in 1..2 |-> Mount[k] + Min(Facing(pose, objects, a)) * Axis[a][k]]
    BY <1>5 DEF Base
  <2> DEFINE met == {b \in S : dist[b] <= reach}
             spot(a) == [k \in 1..2 |-> Mount[k] + Min(Facing(pose, objects, a)) * Axis[a][k]]
  <2>3. Met(pose, objects, reach) = {World(spot(a), pose) : a \in met}
    <3> HIDE DEF pose, objects
    <3> QED  BY <2>1 DEF Met
  <2>4. \A a \in met : base(a) = spot(a)
    BY <2>2
  <2> HIDE DEF met, spot, base, pose, objects
  <2>5. Met(pose, objects, reach) = {World(base(a), pose) : a \in met}
    BY <2>3, <2>4
  <2> QED  BY <2>5 DEF met
<1>7. \A low, high \in Nat : low <= RangeMin =>
        Within(pose, objects, low, high) = {b \in S : dist[b] <= high}
  BY <1>5, ScanAssumption DEF Within
<1>8. \A a \in S : base(a) \in [1..2 -> Int]
  <2> SUFFICES ASSUME NEW a \in S PROVE base(a) \in [1..2 -> Int]
    OBVIOUS
  <2>1. a \in 1..4 /\ dist[a] \in Int
    BY <1>5
  <2>2. \A k \in 1..2 : Mount[k] \in Int
    BY ScanAssumption
  <2>3. \A k \in 1..2 : Axis[a][k] \in Int
    <3> DEFINE b == a
    <3>1. b \in {1, 2, 3, 4}
      BY <2>1
    <3> HIDE DEF b
    <3>2. \A k \in 1..2 : Axis[b][k] \in Int
      BY <3>1 DEF Axis
    <3> QED  BY <3>2 DEF b
  <2> HIDE DEF dist
  <2> QED  BY <2>1, <2>2, <2>3 DEF Base, dist
<1> DEFINE near == {b \in S : dist[b] <= ReadRange}
           far == {b \in S : dist[b] <= RangeMax}
<1>9. RangeMin \in Nat /\ RangeMax \in Nat /\ ReadRange \in Nat
  BY ScanAssumption
<1>10. all = {base(a) : a \in far} /\ At(all) = Met(pose, objects, RangeMax)
  <2>1. all = {base(a) : a \in far}
    BY <1>4, <1>7, <1>9 DEF Bounded
  <2>2. Met(pose, objects, RangeMax) = {World(base(a), pose) : a \in far}
    BY <1>6, <1>9
  <2> HIDE DEF all, base, far, pose, objects
  <2> QED  BY <2>1, <2>2
<1>11. PlannerObstacles(message) = {p \in {base(a) : a \in near} : ~InsideFootprint(p)}
  BY <1>4, <1>7, <1>9 DEF Bounded
<1>12. ControllerObstacles(message) = PlannerObstacles(message)
  <2>1. \A a \in near : ~InsideFootprint(base(a)) => a \in Within(pose, objects, RangeMin + 1, ReadRange)
    BY <1>5, <1>9 DEF Within
  <2>2. Within(pose, objects, RangeMin + 1, ReadRange) \subseteq near
    BY DEF Within
  <2>3. ControllerObstacles(message) =
          {p \in {base(a) : a \in Within(pose, objects, RangeMin + 1, ReadRange)} : ~InsideFootprint(p)}
    BY <1>4 DEF Bounded
  <2> HIDE DEF near, base, pose, objects, message
  <2> QED  BY <1>11, <2>1, <2>2, <2>3
<1>13. near \subseteq far
  BY <1>5, <1>9
<1>14. Met(pose, objects, ReadRange) = {World(base(a), pose) : a \in near}
  BY <1>6, <1>9
<1>15. Seen[o] = Others(Met(pose, objects, ReadRange))
  <2>1. ASSUME NEW q \in Seen[o]
        PROVE  q \in Others(Met(pose, objects, ReadRange))
    <3>1. PICK a \in near : q = World(base(a), pose) /\ ~InsideFootprint(base(a))
      BY <1>2, <1>11
    <3>2. ASSUME NEW point \in all, World(point, pose) = q
          PROVE  ~InsideFootprint(point)
      <4>1. PICK b \in far : point = base(b)
        BY <1>10
      <4>2. base(a) \in [1..2 -> Int] /\ base(b) \in [1..2 -> Int]
        BY <1>8
      <4>3. World(base(b), pose) = World(base(a), pose)
        BY <3>1, <3>2, <4>1
      <4> HIDE DEF base, pose
      <4>4. base(b) = base(a)
        BY <1>3, <4>2, <4>3, WorldApart
      <4> QED  BY <3>1, <4>1, <4>4
    <3>3. q \in Met(pose, objects, ReadRange)
      BY <1>14, <3>1
    <3> QED  BY <3>2, <3>3
  <2>2. ASSUME NEW q \in Others(Met(pose, objects, ReadRange))
        PROVE  q \in Seen[o]
    <3>1. PICK a \in near : q = World(base(a), pose)
      BY <1>14
    <3>2. base(a) \in all
      BY <1>10, <1>13
    <3>3. ~InsideFootprint(base(a))
      BY <3>1, <3>2
    <3>4. base(a) \in PlannerObstacles(message)
      BY <1>11, <3>3
    <3> HIDE DEF base, pose, message
    <3> QED  BY <1>2, <3>1, <3>4
  <2> QED  BY <2>1, <2>2
<1>16. At(ControllerObstacles(message)) = Seen[o]
  BY <1>2, <1>12
<1> HIDE DEF message
<1> QED  BY <1>10, <1>15, <1>16 DEF Agreed, message

\* Every scan is taken with the whole circle and read on its axes, its angles are off by
\* less than half a beam, and the sensor measures what it meets.
ScansInView ==
  /\ AxesRead /\ ReadRange <= RangeMax
  /\ \A x \in Scan : Slight(Tilt[x])
  /\ \A o \in Pose \X Scan : FarEnough(Placing(o[1]), Objects[o[2]])

\* From the sensor's points (BuildLaserScanJson) to the planner's layer
\* (rebuild_dynamic_obstacles), the controller's obstacles (readScan) and Karto's points
\* (PrepareFixedBeamScan), every object met stands where it is, but for the robot's own.
THEOREM ObstaclesKept == ScansInView => (PlannedSpec => []ObjectsAreWhereMet)
<1> SUFFICES ASSUME ScansInView PROVE PlannedSpec => []ObjectsAreWhereMet
  OBVIOUS
<1>1. TypeOK => ObjectsAreWhereMet
  <2> SUFFICES ASSUME TypeOK, NEW o \in layer PROVE AllAgreed[o]
    BY DEF ObjectsAreWhereMet
  <2>1. o \in Pose \X Scan
    BY DEF TypeOK, Layers, Clear
  <2>2. AllAgreed[o] = Agreed(o)
    BY <2>1, OnceLaw DEF AllAgreed
  <2>3. Slight(Tilt[o[2]]) /\ FarEnough(Placing(o[1]), Objects[o[2]])
    BY <2>1 DEF ScansInView
  <2> QED  BY <2>1, <2>2, <2>3, AgreedLaw DEF ScansInView
<1> QED  BY <1>1, RequestsOfPlanned, TypeCorrect, PTL
=============================================================================
