---------------------------- MODULE MissionGate ----------------------------
(***************************************************************************)
(* What the navigation supervisor promises about one mission, whatever the *)
(* sensors, the clock and the local planner do: a mission is a goal; it    *)
(* ends at most once, with one outcome; motion passes only while it is     *)
(* open; it may ask for at most MaxReplans new paths; and nothing but a    *)
(* different goal opens another one.                                       *)
(***************************************************************************)
EXTENDS Naturals

CONSTANTS Goal, NoGoal, Outcome, NoOutcome, MaxReplans

VARIABLES
  goal,      \* the mission, or NoGoal before the first
  outcome,   \* how it ended, NoOutcome while it is open
  replans,   \* new paths asked for in this mission
  emitted    \* what the last step let out: "motion", "replan" or "nothing"

vars == <<goal, outcome, replans, emitted>>

Open == goal # NoGoal /\ outcome = NoOutcome

Init ==
  /\ goal = NoGoal
  /\ outcome = NoOutcome
  /\ replans = 0
  /\ emitted = "nothing"

\* A different goal opens a fresh mission, which may end, or ask for its first
\* path, in the same step; it never moves the robot in that step.
Begin(g) ==
  /\ g # goal
  /\ goal' = g
  /\ \/ outcome' \in Outcome \union {NoOutcome} /\ replans' = 0 /\ emitted' = "nothing"
     \/ MaxReplans > 0 /\ outcome' = NoOutcome /\ replans' = 1 /\ emitted' = "replan"

\* A local command passes to the chassis.
Move ==
  /\ Open
  /\ emitted' = "motion"
  /\ UNCHANGED <<goal, outcome, replans>>

\* A new global path is asked for.
Replan ==
  /\ Open
  /\ replans < MaxReplans
  /\ replans' = replans + 1
  /\ emitted' = "replan"
  /\ UNCHANGED <<goal, outcome>>

\* The robot is held, or nothing is said.
Hold ==
  /\ emitted' = "nothing"
  /\ UNCHANGED <<goal, outcome, replans>>

\* The mission ends.
Conclude(o) ==
  /\ Open
  /\ outcome' = o
  /\ emitted' = "nothing"
  /\ UNCHANGED <<goal, replans>>

Next ==
  \/ \E g \in Goal : Begin(g)
  \/ Move
  \/ Replan
  \/ Hold
  \/ \E o \in Outcome : Conclude(o)

Spec == Init /\ [][Next]_vars
=============================================================================
