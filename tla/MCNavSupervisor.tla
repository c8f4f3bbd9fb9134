-------------------------- MODULE MCNavSupervisor --------------------------
(***************************************************************************)
(* A corridor of places one step apart.  Two steps are the required        *)
(* movement, so a robot can jitter by one without progress and accumulate  *)
(* two small steps into progress; a goal is reached at its own place.      *)
(***************************************************************************)
EXTENDS NavSupervisor

Places == 0..2
Apart(p, q) == p - q >= 2 \/ q - p >= 2

\* gFar is at the end of the corridor, gMid in its middle.
CONSTANTS gMid, gFar
MCGoal == {gMid, gFar}
MCReachedAt == [g \in MCGoal |-> IF g = gFar THEN {2} ELSE {1}]
MCMovedFrom == [p \in Places |-> {q \in Places : Apart(p, q)}]

\* A report that lets the robot move, one that blocks after the timeout, one that
\* blocks at once.
MCLocalReport ==
  {<<"FOLLOW_PATH", "rpp_selected">>, <<"BLOCKED", "empty_local_path">>,
   <<"BLOCKED", "collision_ahead">>}

\* A pose either carries a match count at the limit or no localization fields.
LostReport == {[mode |-> TRUE, lost |-> 1]}
NoLocReport == {}
=============================================================================
