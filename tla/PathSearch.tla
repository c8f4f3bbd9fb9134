----------------------------- MODULE PathSearch -----------------------------
(***************************************************************************)
(* What the global planner computes for one request: the nearest free      *)
(* cells to the start and the goal, A* over the free cells, and the        *)
(* smoothing of the path it finds.                                         *)
(*                                                                         *)
(* A cell is a pair.  Lengths are in 1/10000 of a cell, which orders the   *)
(* sums of 1 and sqrt 2 of paths this short as the doubles do; smoothed    *)
(* points are in 1/Unit of a cell, rounded down.                           *)
(***************************************************************************)
EXTENDS GridMap

CONSTANTS
  MaxRadius,           \* MAX_NEAREST_FREE_RADIUS_CELLS
  Unit,                \* resolution of smoothed points
  MaxIterations        \* of one smoothing

ASSUME SearchAssumption ==
  /\ MaxRadius \in Nat
  /\ Unit \in Nat \ {0} /\ MaxIterations \in Nat \ {0}

\* The comparison makes TLC compute a table once.
Once(table) == CHOOSE t \in {table} : t = table

\* A table with the entries of another.
Updated(table, entries) ==
  Once([x \in DOMAIN table \union DOMAIN entries |->
          IF x \in DOMAIN entries THEN entries[x] ELSE table[x]])

-----------------------------------------------------------------------------
\* nearest_free_point: breadth first, over cells outside the map too.

\* Mutant: the four straight neighbours only.
Around_Straight == <<<<-1, 0>>, <<1, 0>>, <<0, -1>>, <<0, 1>>>>

Around ==
  <<<<-1, 0>>, <<1, 0>>, <<0, -1>>, <<0, 1>>, <<-1, -1>>, <<-1, 1>>, <<1, -1>>, <<1, 1>>>>

Chebyshev(a, b) == LET d == Apart(a, b) IN Max({d[1], d[2]})

\* The cell to look at next is free and near enough.
Found(s, point, free) ==
  s.queue # <<>> /\ Chebyshev(Head(s.queue), point) <= MaxRadius /\ Head(s.queue) \in free

\* Of the cells around one, those not visited, in order.
Unvisited(cell, visited) ==
  LET reached == [i \in DOMAIN Around |-> <<cell[1] + Around[i][1], cell[2] + Around[i][2]>>]
      new[i \in 0..Len(Around)] ==
        IF i = 0 THEN <<>>
        ELSE IF reached[i] \in visited THEN new[i - 1] ELSE Append(new[i - 1], reached[i])
  IN new[Len(Around)]

\* One turn of the loop.
Widen(s, point, free) ==
  LET current == Head(s.queue)
      new == Unvisited(current, s.visited)
  IN IF s.queue = <<>> \/ Found(s, point, free) THEN s
     ELSE IF Chebyshev(current, point) > MaxRadius THEN [s EXCEPT !.queue = Tail(@)]
     ELSE [queue |-> Tail(s.queue) \o new, visited |-> s.visited \union ToSet(new)]

\* The cells that may be visited, each of them once.
Visits == (2 * MaxRadius + 3) * (2 * MaxRadius + 3)

NearestFree(point, free) ==
  LET turns[k \in 0..Visits] ==
        IF k = 0 THEN [queue |-> <<point>>, visited |-> {point}]
        ELSE Widen(turns[k - 1], point, free)
      end == turns[Visits].queue
  IN IF end = <<>> THEN point ELSE Head(end)

-----------------------------------------------------------------------------
\* findPath: A* with the octile heuristic.

Straight == 10000
Diagonal == 14142

\* Mutant: a diagonal may pass between two obstacles.
Joined_CutsCorners(a, b, free) == b \in free /\ Chebyshev(a, b) = 1

\* The edges of the graph: between free neighbours; a diagonal also needs both cells
\* beside it free.
Joined(a, b, free) ==
  /\ b \in free /\ Chebyshev(a, b) = 1
  /\ <<a[1], b[2]>> \in free /\ <<b[1], a[2]>> \in free

Length(a, b) == IF a[1] = b[1] \/ a[2] = b[2] THEN Straight ELSE Diagonal

Octile(a, b) ==
  LET d == Apart(a, b)
  IN Straight * Abs(d[1] - d[2]) + Diagonal * Min({d[1], d[2]})

\* The search knows the open cells, the shortest way found to each cell, and the cell before
\* on it.
Promise(s, c, target) == s.dist[c] + Octile(c, target)

\* The open cell that promises the shortest path.
Nearest(s, target) ==
  CHOOSE c \in s.open : \A d \in s.open : Promise(s, c, target) <= Promise(s, d, target)

\* The neighbours of a cell that get nearer by way of it.
Closer(s, u, free) ==
  {v \in free : Joined(u, v, free) /\ (v \in DOMAIN s.dist => s.dist[u] + Length(u, v) < s.dist[v])}

\* The nearest cell is settled and its neighbours are relaxed; a cell may be opened again.
Expand(s, target, free) ==
  LET u == Nearest(s, target)
      closer == Closer(s, u, free)
  IN IF s.open = {} \/ u = target THEN s
     ELSE [open |-> (s.open \ {u}) \union closer,
           dist |-> Updated(s.dist, [v \in closer |-> s.dist[u] + Length(u, v)]),
           from |-> Updated(s.from, [v \in closer |-> u])]

\* The way the search came; no step of it is shorter than a straight one.
Backwards(s, source, target) ==
  LET steps == s.dist[target] \div Straight
      way[k \in 0..steps] ==
        IF k = 0 THEN <<target>>
        ELSE LET cells == way[k - 1]
             IN IF cells[1] = source THEN cells ELSE <<s.from[cells[1]]>> \o cells
  IN way[steps]

\* It ends at the target or when no cell is open; it settles no cell twice.
FindPath(source, target, free) ==
  LET cells == Cardinality(free)
      search[k \in 0..cells] ==
        IF k = 0 THEN [open |-> {source}, dist |-> [c \in {source} |-> 0], from |-> [c \in {source} |-> c]]
        ELSE Expand(search[k - 1], target, free)
  IN IF {source, target} \subseteq free /\ search[cells].open # {}
     THEN Backwards(search[cells], source, target) ELSE <<>>

\* Of a path that is not empty.
PathLength(cells) ==
  LET sum[i \in 1..Len(cells)] == IF i = 1 THEN 0 ELSE sum[i - 1] + Length(cells[i - 1], cells[i])
  IN sum[Len(cells)]

-----------------------------------------------------------------------------
\* Nav2SimpleSmoother.

\* lround of a point.
CellOf(point) == <<(point[1] + Unit \div 2) \div Unit, (point[2] + Unit \div 2) \div Unit>>

\* One coordinate drawn to where it was (0.2) and between its neighbours (0.3).
Drawn(was, now, before, after) == now + (2 * (was - now) + 3 * (before + after - 2 * now)) \div 10

\* One pass over the inner points, each from the ones already moved; a point that
\* would leave the free cells ends it.
Pass(given, now, free) ==
  LET moves[i \in 1..Len(given) - 1] ==
        IF i = 1 THEN [moved |-> now, clear |-> TRUE]
        ELSE LET before == moves[i - 1]
                 p == before.moved
                 At(k) == Drawn(given[i][k], p[i][k], p[i - 1][k], p[i + 1][k])
                 point == <<At(1), At(2)>>
             IN IF ~before.clear THEN before
                ELSE [moved |-> [p EXCEPT ![i] = point], clear |-> CellOf(point) \in free]
  IN moves[Len(given) - 1]

\* Mutant: on a collision the path of the pass that collided is kept.
Settle_KeepsCollision(given, free) ==
  LET turn[last \in Seq(Int \X Int)] == Pass(given, last, free).moved
      settled[i \in 1..MaxIterations] == IF i = 1 THEN given ELSE turn[settled[i - 1]]
  IN settled[MaxIterations]

\* Passes until nothing changes; a collision gives back the path of the pass before, from
\* which every other pass collides too.
Settle(given, free) ==
  LET turn[last \in Seq(Int \X Int)] ==
        LET pass == Pass(given, last, free) IN IF pass.clear THEN pass.moved ELSE last
      settled[i \in 1..MaxIterations] == IF i = 1 THEN given ELSE turn[settled[i - 1]]
  IN settled[MaxIterations]

\* Short paths stay; the others are smoothed and refined twice.
Smooth(cells, free) ==
  LET points == [i \in DOMAIN cells |-> <<Unit * cells[i][1], Unit * cells[i][2]>>]
  IN IF Len(points) <= 3 THEN points
     ELSE Settle(Settle(Settle(points, free), free), free)
=============================================================================
