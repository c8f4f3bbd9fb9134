---------------------------- MODULE PlannedPaths ----------------------------
(***************************************************************************)
(* The requests of PathRequests answered over a saved map: which path the  *)
(* planner publishes for a planned pair, over the obstacles its layer      *)
(* shows, and where in the world the controller follows it.                *)
(*                                                                         *)
(* A request names each cell by the place of the world it was computed     *)
(* from; the goal node has the origin and size of the planner's map.       *)
(***************************************************************************)
EXTENDS PathRequests, PathSearch, ScanMessage

CONSTANTS
  Site,                \* saved maps: [survey, cropped]
  Heading,             \* [Pose -> an axis]; its place is StartCell's
  Objects, Tilt,       \* [Scan -> places of the world], [Scan -> error of its angles]
  MapInflation,        \* INFLATION_RADIUS_CELLS
  LayerInflation       \* DYNAMIC_OBSTACLE_INFLATION_M, in cells

ASSUME PlannedAssumption ==
  /\ Cell \subseteq Int \X Int
  /\ Heading \in [Pose -> 1..4]
  /\ Objects \in [Scan -> SUBSET (Int \X Int)] /\ Tilt \in [Scan -> Int]
  /\ MapInflation \in Nat /\ LayerInflation \in Nat

\* A survey without scans gives no map, and one without a known cell is not cropped.
ASSUME SiteAssumption ==
  \A s \in Site :
    /\ s.survey \in Seq([at : Int \X Int, points : SUBSET (Int \X Int)]) /\ s.survey # <<>>
    /\ \A i \in DOMAIN s.survey : IsFiniteSet(s.survey[i].points)
    /\ s.cropped => \E c \in Valid(BuildOccupancyGrid(s.survey)) :
                      SavedMap(BuildOccupancyGrid(s.survey)).pixel[c] # Unknown

VARIABLE site          \* the map of this run

plannedVars == <<vars, site>>

PlannedInit == Init /\ site \in Site

PlannedNext == Next /\ UNCHANGED site

PlannedSpec ==
  /\ PlannedInit /\ [][PlannedNext]_plannedVars
  /\ WF_plannedVars(OnStartPoint /\ UNCHANGED site)
  /\ WF_plannedVars(OnGoalPoint /\ UNCHANGED site)

-----------------------------------------------------------------------------
\* The robot at a pose, and the message of a scan taken there.
Placing(p) == [place |-> StartCell[p], heading |-> Heading[p]]

Message ==
  Once([o \in Pose \X Scan |->
         BuildLaserScan(Revolution(Placing(o[1]), Objects[o[2]], Tilt[o[2]]))])

\* The places the planner takes for obstacles.
Seen == Once([o \in Pose \X Scan |->
               {World(point, Placing(o[1])) : point \in PlannerObstacles(Message[o])}])

\* For every site the grid, and the map the planner loads.
Grid == Once([s \in Site |-> BuildOccupancyGrid(s.survey)])

MapOf ==
  LET Loaded(s) == LET map == SavedMap(Grid[s])
                   IN LoadMap(IF s.cropped THEN FinalizeMap(map) ELSE map, MapInflation)
  IN Once([s \in Site |-> Loaded(s)])

\* isOccupied fails: neither the inflated map nor the inflated layer covers the cell.
FreeCells(map, over) ==
  LET layered == DynamicObstacles(UNION {Seen[o] : o \in over}, LayerInflation, map)
  IN Valid(map) \ (map.blocked \union layered)

FreeOf == Once([o \in Site \X Layers |-> FreeCells(MapOf[o[1]], o[2])])

\* Mutant: the row is counted from below the map.
InWorld_OffByOne(point, map) ==
  LET image == <<point[1], map.height * Unit - point[2]>>
  IN [k \in 1..2 |-> map.origin[k] * Unit + Sub * image[k] + (Sub * Unit) \div 2]

\* readPathJson: where the controller follows a waypoint, in 1/Unit of a place.
InWorld(point, map) ==
  LET image == <<point[1], (map.height - 1) * Unit - point[2]>>
  IN [k \in 1..2 |-> map.origin[k] * Unit + Sub * image[k] + (Sub * Unit) \div 2]

\* The cells of a grid that waypoints lie in once the controller has placed them.
Followed(points, map, grid) ==
  {[k \in 1..2 |-> (InWorld(p, map)[k] - grid.origin[k] * Unit) \div (Sub * Unit)] :
     p \in ToSet(points)}

\* What plan_and_publish_path publishes for a plan over these free cells; no waypoints if
\* it finds no path, and nothing to follow.
Published(plan, map, free, grid) ==
  LET asks == [from |-> PlannerCell(plan.start, map), to |-> PlannerCell(plan.goal, map)]
      from == NearestFree(asks.from, free)
      to == NearestFree(asks.to, free)
      cells == FindPath(from, to, free)
      points == Smooth(cells, free)
  IN [free |-> free, asks |-> asks, from |-> from, to |-> to,
      cells |-> cells, waypoints |-> points, followed |-> Followed(points, map, grid)]

\* Every publication there can be.
Publication ==
  Once([o \in Site \X Plans |->
         Published(o[2], MapOf[o[1]], FreeOf[<<o[1], o[2].over>>], Grid[o[1]])])

-----------------------------------------------------------------------------
\* The lengths of walks to a cell by way of the neighbours that walks are known to.
Through(c, dist, free) ==
  LET around == {<<c[1] + i, c[2] + j>> : i \in -1..1, j \in -1..1} \intersect DOMAIN dist
  IN {dist[u] + Length(u, c) : u \in {d \in around : Joined(d, c, free)}}

\* Lengths of walks known so far, and those of walks one step longer.
Relaxed(dist, free) ==
  LET through == Once([c \in free |-> Through(c, dist, free)])
      nearer == {c \in free : /\ through[c] # {}
                              /\ c \in DOMAIN dist => Min(through[c]) < dist[c]}
  IN Updated(dist, [c \in nearer |-> Min(through[c])])

\* The cells that walks reach, with the least length to each; a shortest walk has no cell
\* twice.
Distances(source, free) ==
  LET rounds[k \in 0..Cardinality(free)] ==
        IF k = 0 THEN [c \in {source} |-> 0] ELSE Relaxed(rounds[k - 1], free)
  IN rounds[Cardinality(free)]

\* Those lengths for every publication.
Shortest ==
  LET From(route) == IF route.from \in route.free THEN Distances(route.from, route.free)
                     ELSE << >>
      Of(routes) == [case \in DOMAIN routes |-> From(routes[case])]
  IN Once(Of(Publication))

IsShortest(route, cells, dist) ==
  IF cells = <<>> THEN route.to \notin DOMAIN dist
  ELSE /\ cells[1] = route.from /\ Last(cells) = route.to
       /\ ToSet(cells) \subseteq route.free
       /\ \A i \in 1..Len(cells) - 1 :
            /\ Chebyshev(cells[i], cells[i + 1]) = 1
            /\ {<<cells[i][1], cells[i + 1][2]>>, <<cells[i + 1][1], cells[i][2]>>}
                  \subseteq route.free
       /\ PathLength(cells) = dist[route.to]

\* A published path walks over free cells, never between two obstacles that touch at a
\* corner, from the start to the goal, each moved to the nearest free cell if it has to
\* be; no walk is shorter, and none is published only if there is none.
RoutesAreShortest ==
  \A plan \in path :
    IsShortest(Publication[<<site, plan>>], Publication[<<site, plan>>].cells, Shortest[<<site, plan>>])

MovedLeast(moved, c, free) ==
  IF \E f \in free : Chebyshev(f, c) <= MaxRadius
  THEN moved \in free /\ \A f \in free : Chebyshev(moved, c) <= Chebyshev(f, c)
  ELSE moved = c

EndsMoveLeast(route) ==
  /\ MovedLeast(route.from, route.asks.from, route.free)
  /\ MovedLeast(route.to, route.asks.to, route.free)

\* A start or goal in an obstacle is moved to a free cell that no other is nearer than,
\* and stays if the nearest is out of MaxRadius.
PointsMoveLeast == \A plan \in path : EndsMoveLeast(Publication[<<site, plan>>])

SmoothedStaysFree(route, points) ==
  /\ Len(points) = Len(route.cells)
  /\ \A p \in ToSet(points) : CellOf(p) \in route.free
  /\ route.cells # <<>> => CellOf(points[1]) = route.from /\ CellOf(Last(points)) = route.to

\* Smoothing moves no waypoint into an obstacle, and neither end.
SmoothedPathsStayFree ==
  \A plan \in path :
    SmoothedStaysFree(Publication[<<site, plan>>], Publication[<<site, plan>>].waypoints)

-----------------------------------------------------------------------------
\* The cell lies within half a cell of the line between two others: a beam along it may
\* have crossed the cell.
NearLine(c, from, to) ==
  LET d == <<to[1] - from[1], to[2] - from[2]>>
      e == <<c[1] - from[1], c[2] - from[2]>>
  IN /\ \A k \in 1..2 : c[k] \in Min({from[k], to[k]})..Max({from[k], to[k]})
     /\ 2 * Abs(d[1] * e[2] - d[2] * e[1]) <= Max({Abs(d[1]), Abs(d[2])})

\* From survey to planner: a place that was hit is a wall where the goal node and the
\* layer put that place, unless other beams may have passed it; and a wall is only
\* where some place was hit.  Cropping the map changes neither.
Placed(s) ==
  LET beams == Beams(s.survey)
      ends == Once([b \in beams |-> <<CellAt(b[2], Grid[s].origin), CellAt(b[3], Grid[s].origin)>>])
      Clearly(b) == \A o \in beams :
        ends[o][2] # ends[b][2] => ~NearLine(ends[b][2], ends[o][1], ends[o][2])
      shown == [b \in beams |-> PlannerCell(b[3], MapOf[s])]
  IN /\ \A b \in beams : Clearly(b) => shown[b] \in MapOf[s].walls
     /\ MapOf[s].walls \subseteq Range(shown)

AllPlaced == Once([s \in Site |-> Placed(s)])

WallsAreWhereSeen == AllPlaced[site]

\* Where the controller follows a path, cropped map or not, the grid that was drawn from
\* the survey has no wall.
PathsStayOffWalls ==
  \A plan \in path : \A c \in Publication[<<site, plan>>].followed :
    c \in DOMAIN Grid[site].cells => Grid[site].cells[c] < 65

-----------------------------------------------------------------------------
\* From sensor to readers: the planner's layer and the controller's obstacles are the
\* objects the sensor met, each at its place, short of the robot itself and of what is
\* out of their reach; Karto's points are all of them.
Agreed(o) ==
  LET pose == Placing(o[1])
      objects == Objects[o[2]]
      Others(places) == {q \in places : \A point \in BasePoints(Message[o]) :
                          World(point, pose) = q => ~InsideFootprint(point)}
      At(points) == {World(point, pose) : point \in points}
  IN /\ Seen[o] = Others(Met(pose, objects, ReadRange))
     /\ At(ControllerObstacles(Message[o])) = Seen[o]
     /\ At(BasePoints(Message[o])) = Met(pose, objects, RangeMax)

AllAgreed == Once([o \in Pose \X Scan |-> Agreed(o)])

ObjectsAreWhereMet == \A o \in layer : AllAgreed[o]
=============================================================================
