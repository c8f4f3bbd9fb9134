--------------------------- MODULE MCPathRequests ---------------------------
(***************************************************************************)
(* Two poses with a goal each; the settings of the three flows that plan.  *)
(* The maps are surveyed by one or two scans: a room with a pillar, not    *)
(* cropped; a wall to go around, a wall with a gap at a corner, and one    *)
(* that closes the goals off, cropped to 5 cells by 4.  The goal of the    *)
(* second pose lies below the cropped maps.                                *)
(***************************************************************************)
EXTENDS PlannedPaths

Poses == {"a", "b"}
Scans == {"s", "t"}
Goals == {"to a", "to b"}
ToItsOwn == [p \in Poses |-> IF p = "a" THEN "to a" ELSE "to b"]

\* The place in the middle of a cell of a cropped map.
At(column, row) == <<2 * column - 3, 5 - 2 * row>>

Cells == {At(0, 0), At(4, 0), At(3, 4)}
Starts == [p \in Poses |-> At(0, 0)]
Ends == [g \in Goals |-> IF g = "to a" THEN At(4, 0) ELSE At(3, 4)]
Flows == {[sendOnce |-> FALSE, reload |-> FALSE],
          [sendOnce |-> TRUE, reload |-> FALSE],
          [sendOnce |-> FALSE, reload |-> TRUE]}

ScanFrom(at, points) == [at |-> at, points |-> points]
Pillar == <<ScanFrom(At(0, 0), {At(4, 3), At(4, 2)})>>
Wall == <<ScanFrom(At(0, 3), {At(3, 0), At(3, 1), At(3, 2)}), ScanFrom(At(4, 3), {At(3, 2)})>>
Gap == <<ScanFrom(At(0, 3), {At(1, 0), At(1, 1)}), ScanFrom(At(4, 0), {At(2, 2), At(2, 3)}),
         ScanFrom(At(0, 1), {At(1, 1)}), ScanFrom(At(4, 2), {At(2, 2)})>>
Corner == <<ScanFrom(At(4, 3), {At(0, 0), At(1, 0), At(0, 1)})>>
Closed == <<ScanFrom(At(0, 0), {At(2, 0), At(2, 1)}), ScanFrom(At(4, 3), {At(2, 2), At(2, 3)})>>

\* The top of the survey on the edge of a cell, so that it gets no margin there.
OnEdge(survey) ==
  LET Up(place) == IF place[2] = 5 THEN <<place[1], 4>> ELSE place
  IN [i \in DOMAIN survey |-> ScanFrom(Up(survey[i].at), {Up(p) : p \in survey[i].points})]

Rooms == {[survey |-> Pillar, cropped |-> FALSE], [survey |-> OnEdge(Wall), cropped |-> TRUE],
          [survey |-> OnEdge(Corner), cropped |-> TRUE],
          [survey |-> OnEdge(Gap), cropped |-> TRUE], [survey |-> Closed, cropped |-> TRUE]}

\* Scan s meets the goal of the first pose or its neighbour, t the way below the start;
\* both meet the robot, and t a wall that is too far for the planner.
Headings == [p \in Poses |-> IF p = "a" THEN 1 ELSE 4]
Things == [x \in Scans |-> IF x = "s" THEN {At(0, 0), At(4, 0), <<3, 4>>}
                          ELSE {At(0, 0), At(0, 2), <<-2, 1>>, <<7, 5>>}]
Tilts == [x \in Scans |-> IF x = "s" THEN 1 ELSE -1]
AheadOfBase == <<1, 0>>
OneAround == <<1, 1>>
=============================================================================
