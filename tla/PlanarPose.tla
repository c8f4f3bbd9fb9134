----------------------------- MODULE PlanarPose -----------------------------
(***************************************************************************)
(* Planar poses as the nodes compute with them.  Headings are whole        *)
(* quarter turns, so that sines and cosines are integers and equality is   *)
(* exact.                                                                  *)
(***************************************************************************)
EXTENDS Integers

Pose == [x : Int, y : Int, yaw : Int]
Origin == [x |-> 0, y |-> 0, yaw |-> 0]

\* In (-2, 2] quarter turns.
NormalizeAngle(angle) == ((angle + 1) % 4) - 1

Cos(angle) == CASE angle % 4 = 0 -> 1 [] angle % 4 = 2 -> -1 [] OTHER -> 0
Sin(angle) == CASE angle % 4 = 1 -> 1 [] angle % 4 = 3 -> -1 [] OTHER -> 0

Compose(a, b) ==
  [x |-> a.x + Cos(a.yaw) * b.x - Sin(a.yaw) * b.y,
   y |-> a.y + Sin(a.yaw) * b.x + Cos(a.yaw) * b.y,
   yaw |-> NormalizeAngle(a.yaw + b.yaw)]

\* The pose from which this one is the origin.
InverseOf(p) ==
  [x |-> -Cos(p.yaw) * p.x - Sin(p.yaw) * p.y,
   y |-> Sin(p.yaw) * p.x - Cos(p.yaw) * p.y,
   yaw |-> -p.yaw]

\* The pose of the odometry's origin in the map, from a match.
ObserveMatch(corrected, wheels) == Compose(corrected, InverseOf(wheels))

\* The pose in the map at a later odometry.
Predict(mapFromOdom, wheels) == Compose(mapFromOdom, wheels)
=============================================================================
