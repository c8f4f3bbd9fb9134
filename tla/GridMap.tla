------------------------------ MODULE GridMap -------------------------------
(***************************************************************************)
(* The occupancy grid drawn from a saved pose graph, the image and YAML    *)
(* that hold it, the crop of finalize_map.py, and what the planner and the *)
(* goal node make of them: which cells are occupied, and which cell is     *)
(* which place of the world.                                               *)
(*                                                                         *)
(* Places are pairs of integers, Sub of them along the side of a cell; a   *)
(* survey is a sequence of scans, each with the place it was taken from    *)
(* and the places it hit, in the world (the poses' rotations applied).     *)
(* Cells count from the lower left in a grid, from the upper left in an    *)
(* image.                                                                  *)
(***************************************************************************)
EXTENDS Integers, Sequences, SequencesExt, FiniteSetsExt

CONSTANTS
  Sub,                 \* places along a cell: the resolution
  CropMargin,          \* MAP_CROP_MARGIN, in places
  Padding              \* finalize_map's --padding, in cells

ASSUME GridAssumption == Sub \in Nat \ {0} /\ CropMargin \in Nat /\ Padding \in Nat

\* isValid, for a map of this size.
Valid(map) == {<<column, row>> : column \in 0..map.width - 1, row \in 0..map.height - 1}

Abs(n) == IF n < 0 THEN -n ELSE n

\* The columns and the rows between two cells.
Apart(a, b) == <<Abs(a[1] - b[1]), Abs(a[2] - b[2])>>

CellAt(place, origin) == <<(place[1] - origin[1]) \div Sub, (place[2] - origin[2]) \div Sub>>

-----------------------------------------------------------------------------
\* BuildOccupancyGrid.

\* The cells a beam passes before the one it ends in; each step goes on along the longer side.
Crossed(from, to) ==
  LET dx == Abs(to[1] - from[1])
      dy == -Abs(to[2] - from[2])
      sx == IF from[1] < to[1] THEN 1 ELSE -1
      sy == IF from[2] < to[2] THEN 1 ELSE -1
      steps == Max({dx, -dy})
      walk[i \in 0..steps] ==
        IF i = 0 THEN [cell |-> from, error |-> dx + dy]
        ELSE LET at == walk[i - 1]
                 along == IF 2 * at.error >= dy THEN 1 ELSE 0
                 up == IF 2 * at.error <= dx THEN 1 ELSE 0
             IN [cell |-> <<at.cell[1] + along * sx, at.cell[2] + up * sy>>,
                 error |-> at.error + along * dy + up * dx]
  IN {walk[i].cell : i \in 0..steps - 1}

\* 100 and 0 from the thresholds 0.65 and 0.25; in between, or never seen, -1.
Judged(hits, misses) ==
  LET total == hits + misses
  IN CASE total = 0 -> -1
       [] total > 0 /\ 100 * hits >= 65 * total -> 100
       [] total > 0 /\ 100 * hits <= 25 * total -> 0
       [] OTHER -> -1

\* Beams of a survey: the place of the scan and the place it hit.
Beams(survey) ==
  UNION {{<<i, survey[i].at, hit>> : hit \in survey[i].points} : i \in DOMAIN survey}

\* The places it scanned from or hit.
Places(survey) == UNION {{survey[i].at} \union survey[i].points : i \in DOMAIN survey}

BuildOccupancyGrid(survey) ==
  LET beams == Beams(survey)
      seen == Places(survey)
      Low(k) == ((Min({p[k] : p \in seen}) - CropMargin) \div Sub) * Sub
      High(k) == -((-(Max({p[k] : p \in seen}) + CropMargin)) \div Sub) * Sub
      origin == <<Low(1), Low(2)>>
      Size(k) == Max({1, (High(k) - Low(k)) \div Sub})
      end == [b \in beams |-> CellAt(b[3], origin)]
      crossed == [b \in beams |-> Crossed(CellAt(b[2], origin), end[b])]
      size == [width |-> Size(1), height |-> Size(2)]
  IN [origin |-> origin, width |-> size.width, height |-> size.height,
      cells |-> [c \in Valid(size) |->
                  Judged(Cardinality({b \in beams : end[b] = c}),
                         Cardinality({b \in beams : c \in crossed[b]}))]]

-----------------------------------------------------------------------------
\* SaveMapAtomic and finalize_map: image and YAML.

Unknown == 205

Pixel(value) == IF value < 0 THEN Unknown ELSE IF value >= 65 THEN 0 ELSE 254

\* The top row comes first.
SavedMap(grid) ==
  [origin |-> grid.origin, width |-> grid.width, height |-> grid.height,
   pixel |-> [c \in Valid(grid) |-> Pixel(grid.cells[<<c[1], grid.height - 1 - c[2]>>])]]

\* Mutant: the origin moves up by the rows cut off at the top.
NewOrigin_FromTheTop(map, left, top, bottom) ==
  <<map.origin[1] + left * Sub, map.origin[2] + top * Sub>>

\* It moves by the columns cut off on the left and the rows at the bottom.
NewOrigin(map, left, top, bottom) ==
  <<map.origin[1] + left * Sub, map.origin[2] + (map.height - 1 - bottom) * Sub>>

\* The known cells and some padding.
CropBounds(map) ==
  LET known == {c \in Valid(map) : map.pixel[c] # Unknown}
  IN [left |-> Max({0, Min({c[1] : c \in known}) - Padding}),
      right |-> Min({map.width - 1, Max({c[1] : c \in known}) + Padding}),
      top |-> Max({0, Min({c[2] : c \in known}) - Padding}),
      bottom |-> Min({map.height - 1, Max({c[2] : c \in known}) + Padding})]

\* Unknown borders are cut off.
FinalizeMap(map) ==
  LET keep == CropBounds(map)
      size == [width |-> keep.right - keep.left + 1, height |-> keep.bottom - keep.top + 1]
  IN [origin |-> NewOrigin(map, keep.left, keep.top, keep.bottom),
      width |-> size.width, height |-> size.height,
      pixel |-> [c \in Valid(size) |-> map.pixel[<<c[1] + keep.left, c[2] + keep.top>>]]]

-----------------------------------------------------------------------------
\* The planner and the goal node on a map.

\* Walls grow by a disc when the map is loaded.
Inflated(cells, radius, map) ==
  {c \in Valid(map) : \E o \in cells :
     LET d == Apart(c, o) IN d[1] * d[1] + d[2] * d[2] <= radius * radius}

\* load_planning_map.  Walls are what is dark, so unknown cells are free; they are inflated
\* once.
LoadMap(map, radius) ==
  LET walls == {c \in Valid(map) : 100 * map.pixel[c] < 65 * 255}
  IN [origin |-> map.origin, width |-> map.width, height |-> map.height,
      walls |-> walls, blocked |-> Inflated(walls, radius, map)]

ImageCell(place, map) ==
  LET cell == CellAt(place, map.origin) IN <<cell[1], map.height - 1 - cell[2]>>

\* WorldToPlannerGrid of the goal node: a place outside the map goes to its border.
PlannerCell(place, map) ==
  LET cell == ImageCell(place, map)
  IN <<Max({0, Min({map.width - 1, cell[1]})}), Max({0, Min({map.height - 1, cell[2]})})>>

\* An obstacle of the layer grows by a disc of its own.
AddDynamicObstacle(cell, radius, map) ==
  {<<cell[1] + d[1], cell[2] + d[2]>> :
     d \in {o \in (-radius..radius) \X (-radius..radius) : o[1] * o[1] + o[2] * o[2] <= radius * radius}}
  \intersect Valid(map)

\* The cells of the obstacles seen at these places; those outside the map are left out.
LayerCells(places, map) == {ImageCell(p, map) : p \in places} \intersect Valid(map)

\* dynamic_obstacles_ after it was cleared and filled.
DynamicObstacles(places, radius, map) ==
  UNION {AddDynamicObstacle(cell, radius, map) : cell \in LayerCells(places, map)}
=============================================================================
