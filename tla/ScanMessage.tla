---------------------------- MODULE ScanMessage ----------------------------
(***************************************************************************)
(* A revolution of the lidar as a LaserScan message, and the obstacles     *)
(* that the planner, the local controller and Karto read from it.          *)
(*                                                                         *)
(* Angles are in units of which Turn make a circle, distances in places.   *)
(* What the sensor measures stands in the four directions of its axes,     *)
(* each point off by less than half a beam.                                *)
(***************************************************************************)
EXTENDS Integers, Sequences, SequencesExt, FiniteSetsExt

CONSTANTS
  Turn,                 \* units of a circle
  Count,                \* TARGET_POINT_COUNT
  AngleMin, AngleMax,   \* ANGLE_MIN_DEG, ANGLE_MAX_DEG
  RangeMin, RangeMax,   \* RANGE_MIN, RANGE_MAX
  Stride,               \* DYNAMIC_SCAN_STRIDE, SCAN_POINT_STRIDE
  ReadRange,            \* DYNAMIC_OBSTACLE_MAX_RANGE, the controller's scan_range
  Mount,                \* LIDAR_X, LIDAR_Y; LIDAR_YAW is 0
  Footprint             \* FOOTPRINT_HALF_LENGTH and WIDTH with SELF_FILTER_PADDING

ASSUME ScanAssumption ==
  /\ {Turn, Count, RangeMin, RangeMax, Stride, ReadRange} \subseteq Nat
  /\ Turn % 4 = 0 /\ Turn > 0 /\ Count >= 2 /\ Turn % Count = 0
  /\ AngleMin \in 0..Turn /\ AngleMax \in 0..Turn /\ AngleMin # AngleMax
  /\ RangeMin > 0 /\ RangeMin < RangeMax /\ Stride > 0 /\ ReadRange > 0
  /\ Mount \in Int \X Int /\ Footprint \in Nat \X Nat

-----------------------------------------------------------------------------
\* BuildLaserScanJson.

\* Mutant: the sensor's clockwise angles are taken as they are.
Counted_Mirrored(angle) == angle

\* The sensor counts clockwise, the message counterclockwise.
Counted(angle) == (Turn - angle) % Turn

InAngleWindow(angle) ==
  IF AngleMin <= AngleMax THEN AngleMin <= angle /\ angle <= AngleMax
  ELSE AngleMin <= angle \/ angle <= AngleMax

\* configured_span_deg
Span == IF AngleMax >= AngleMin THEN AngleMax - AngleMin ELSE Turn - AngleMin + AngleMax

Relative(angle) == (angle - AngleMin) % Turn

\* The beam a point falls to, rounded, and how far it is from the beam's angle; the
\* distance does not wrap with the index.
BeamOf(angle) == ((2 * Relative(angle) * Count + Span) \div (2 * Span)) % Count
Error(angle) ==
  LET off == Relative(angle) * Count - BeamOf(angle) * Span IN IF off < 0 THEN -off ELSE off

\* The range of each beam: of the point nearest to its angle; 0 without one.  A point out
\* of range counts as the nearest all the same, and leaves the range as it was.
BuildLaserScan(points) ==
  LET Unmeasured == [range |-> 0, error |-> Count * Turn]
      Take(beams, point) ==
        LET angle == Counted(point.angle)
            i == BeamOf(angle)
        IN IF InAngleWindow(angle) /\ Error(angle) < beams[i].error
           THEN [beams EXCEPT ![i] =
                  [range |-> IF point.distance \in RangeMin..RangeMax THEN point.distance
                             ELSE @.range,
                   error |-> Error(angle)]]
           ELSE beams
      taken[k \in 0..Len(points)] ==
        IF k = 0 THEN [i \in 0..Count - 1 |-> Unmeasured] ELSE Take(taken[k - 1], points[k])
  IN [i \in 0..Count - 1 |-> taken[Len(points)][i].range]

-----------------------------------------------------------------------------
\* The readers of the message.

Axis == <<<<1, 0>>, <<0, 1>>, <<-1, 0>>, <<0, -1>>>>

\* A vector turned by a direction, its cosine and sine.
Turned(v, direction) ==
  <<direction[1] * v[1] - direction[2] * v[2], direction[2] * v[1] + direction[1] * v[2]>>

\* The unit vector of a beam; the ones between the axes measure nothing.
Toward(i) == Axis[((((AngleMin * Count + i * Span) * 4) \div (Count * Turn)) % 4) + 1]

\* Where the range of a beam ends, seen from the base.
OnBase(ranges, i) == [k \in 1..2 |-> Mount[k] + ranges[i] * Toward(i)[k]]

InsideFootprint(point) ==
  \A k \in 1..2 : -Footprint[k] <= point[k] /\ point[k] <= Footprint[k]

\* Every Stride'th beam.
Strided == {i \in 0..Count - 1 : i % Stride = 0}

\* rebuild_dynamic_obstacles of the planner: the robot itself is left out.
PlannerObstacles(ranges) ==
  {point \in {OnBase(ranges, i) :
                i \in {j \in Strided : RangeMin <= ranges[j] /\ ranges[j] <= Min({ReadRange, RangeMax})}} :
     ~InsideFootprint(point)}

\* readScan of the controller: what lies at the least range is left out too.
ControllerObstacles(ranges) ==
  {point \in {OnBase(ranges, i) :
                i \in {j \in Strided : RangeMin < ranges[j] /\ ranges[j] <= Min({ReadRange, RangeMax})}} :
     ~InsideFootprint(point)}

\* PrepareFixedBeamScan of Karto: all beams, the robot itself too.
BasePoints(ranges) ==
  {OnBase(ranges, i) : i \in {j \in 0..Count - 1 : RangeMin <= ranges[j] /\ ranges[j] <= RangeMax}}

\* Where a point seen from the base is in the world: the pose's heading is an axis.
World(point, pose) ==
  LET turned == Turned(point, Axis[pose.heading]) IN [k \in 1..2 |-> pose.place[k] + turned[k]]

-----------------------------------------------------------------------------
\* The obstacles around a robot, and the sensor that measures them.

\* The distance of the nearest one on an axis of the sensor, if there is one.
Facing(pose, obstacles, axis) ==
  LET from == World(Mount, pose)
      direction == Turned(Axis[axis], Axis[pose.heading])
  IN {d \in 1..RangeMax + 1 : [k \in 1..2 |-> from[k] + d * direction[k]] \in obstacles}

\* One revolution, clockwise from ahead, every angle off by tilt.
Revolution(pose, obstacles, tilt) ==
  LET facing(axis) == Facing(pose, obstacles, axis)
      one(axis) == IF facing(axis) = {} THEN <<>> ELSE <<axis>>
      met == one(1) \o one(4) \o one(3) \o one(2)
  IN [i \in DOMAIN met |-> [angle |-> ((5 - met[i]) * (Turn \div 4) + tilt) % Turn,
                            distance |-> Min(facing(met[i]))]]

\* The obstacles that a sensor with this reach meets first, one on each axis.
Met(pose, obstacles, reach) ==
  {World([k \in 1..2 |-> Mount[k] + Min(Facing(pose, obstacles, axis)) * Axis[axis][k]], pose) :
     axis \in {a \in 1..4 : \E d \in Facing(pose, obstacles, a) :
                 d = Min(Facing(pose, obstacles, a)) /\ d <= reach}}
=============================================================================
