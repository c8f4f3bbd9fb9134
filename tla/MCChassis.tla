------------------------------ MODULE MCChassis ------------------------------
(***************************************************************************)
(* The three wheels of the Kiwi drive: forward leaves the wheel at 180     *)
(* degrees still, turning turns them all.                                  *)
(***************************************************************************)
EXTENDS Chassis

MCCommand ==
  {[speed |-> <<0, 0, 0>>, active |-> FALSE],
   [speed |-> <<-1, 0, 1>>, active |-> TRUE],
   [speed |-> <<1, 1, 1>>, active |-> TRUE]}
=============================================================================
