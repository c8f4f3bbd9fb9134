--------------------------- MODULE MCKartoRuntime ---------------------------
(***************************************************************************)
(* A robot that stands or moves by the minimum travel, odometry with gaps  *)
(* of two (or a clock that does not advance), scans one unit ahead of the  *)
(* odometry or behind it.                                                  *)
(***************************************************************************)
EXTENDS KartoRuntime

MCSteps == {0, 2}
MCOffsets == {-1, 1}
=============================================================================
