-------------------------- MODULE PoseConstraints --------------------------
(***************************************************************************)
(* What an edge of the pose graph demands of two poses: the error that the *)
(* Ceres solver makes small, and the points of a scan that are measured    *)
(* while the robot moves.  Headings are in whole quarter turns.            *)
(***************************************************************************)
EXTENDS PlanarPose

\* The solver's own normal form, which has the other half turn.
Normalize(angle) == ((angle + 2) % 4) - 2

\* A constraint weighs an error by the inverse of its sigma, which is positive.
Weight == [x : Nat \ {0}, y : Nat \ {0}, yaw : Nat \ {0}]
Weighted(weight, error) ==
  [x |-> weight.x * error.x, y |-> weight.y * error.y, yaw |-> weight.yaw * error.yaw]

\* A point seen from a pose: Rotation(yaw)^T (point - from).
InverseTransform(from, point) ==
  [x |-> Cos(from.yaw) * (point.x - from.x) + Sin(from.yaw) * (point.y - from.y),
   y |-> Cos(from.yaw) * (point.y - from.y) - Sin(from.yaw) * (point.x - from.x)]

\* Of b, which the constraint wants at `relative' of a.
PoseGraphError(relative, a, b) ==
  LET seen == InverseTransform(a, b)
  IN [x |-> seen.x - relative.x, y |-> seen.y - relative.y,
      yaw |-> Normalize(b.yaw - a.yaw - relative.yaw)]

NoError == [x |-> 0, y |-> 0, yaw |-> 0]

\* The target stands at the constraint's pose of the source, up to whole turns.
Holds(relative, a, b) ==
  LET there == Compose(a, relative) IN b.x = there.x /\ b.y = there.y /\ b.yaw % 4 = there.yaw % 4

-----------------------------------------------------------------------------
\* Where a point seen from a pose is.
Transform(from, point) ==
  [x |-> from.x + Cos(from.yaw) * point.x - Sin(from.yaw) * point.y,
   y |-> from.y + Sin(from.yaw) * point.x + Cos(from.yaw) * point.y]

\* The points of a scan as if it had been measured at once, in its middle, by a lidar that
\* sits at `mount' on the base; dropped when odometry does not bracket all it needs.
\* `buffered' has the base's pose at every stamp that the buffer can interpolate.
Deskew(scan, buffered, mount) ==
  LET reference == (scan.start + scan.end) \div 2
      Stamp(i) == LET at == scan.start + i * scan.timeIncrement IN IF at < scan.end THEN at ELSE scan.end
      Lidar(stamp) == Compose(buffered[stamp], mount)
      Angle(i) == scan.angleMin + i * scan.angleIncrement
      Point(i) == [x |-> scan.ranges[i] * Cos(Angle(i)), y |-> scan.ranges[i] * Sin(Angle(i))]
      valid == {i \in DOMAIN scan.ranges : scan.rangeMin <= scan.ranges[i] /\ scan.ranges[i] <= scan.rangeMax}
  IN IF {reference} \union {Stamp(i) : i \in valid} \subseteq DOMAIN buffered
     THEN {InverseTransform(Lidar(reference), Transform(Lidar(Stamp(i)), Point(i))) : i \in valid}
     ELSE {}

-----------------------------------------------------------------------------
\* Whatever the weights, an edge has no error exactly where it holds, and its error is the
\* same wherever the whole map lies.
EdgeIsUnderstood(relative, a, b, move, weight) ==
  /\ Weighted(weight, PoseGraphError(relative, a, b)) = NoError <=> Holds(relative, a, b)
  /\ PoseGraphError(relative, Compose(move, a), Compose(move, b)) = PoseGraphError(relative, a, b)

\* The distance to the wall of a square room, that a heading meets from a place in it.
Room == 20
ToWall(at, heading) ==
  CASE heading % 4 = 0 -> Room - at.x [] heading % 4 = 1 -> Room - at.y
    [] heading % 4 = 2 -> Room + at.x [] OTHER -> Room + at.y
OnWall(point) == Room \in {point.x, -point.x, point.y, -point.y}

\* A scan of four beams, one per quarter, that a robot takes of the room on its way; the
\* lidar waits between the beams, for an even time so that the scan has a middle.
RoomScan(way, mount, increment) ==
  [start |-> 0, end |-> 3 * increment, timeIncrement |-> increment, angleMin |-> 0, angleIncrement |-> 1,
   ranges |-> [i \in 0..3 |-> LET lidar == Compose(way[i * increment], mount)
                              IN ToWall(lidar, lidar.yaw + i)],
   rangeMin |-> 0, rangeMax |-> 2 * Room]

\* However the robot drives and turns during a scan, the walls stand still in what is left
\* of it: each point lies on one, seen from where the lidar was in the middle of the scan.
\* Without the odometry of every beam, which lasts until `last' here, there is no scan.
WallsStandStill(step, turn, mount, increment, last) ==
  LET way == [t \in 0..last |-> [x |-> step.x * t, y |-> step.y * t, yaw |-> NormalizeAngle(turn * t)]]
      whole == [t \in 0..3 * increment |->
                  [x |-> step.x * t, y |-> step.y * t, yaw |-> NormalizeAngle(turn * t)]]
      seen == Deskew(RoomScan(whole, mount, increment), way, mount)
      middle == Compose(whole[(3 * increment) \div 2], mount)
  IN IF last >= 3 * increment THEN seen # {} /\ \A point \in seen : OnWall(Transform(middle, point))
     ELSE seen = {}
=============================================================================
