---------------------------- MODULE MCTeleopDrive ----------------------------
(***************************************************************************)
(* The wheels of the Kiwi drive, at 60, 180 and 300 degrees, and the key   *)
(* w, which leaves the second still and turns the others at their limit.   *)
(***************************************************************************)
EXTENDS TeleopDrive

WheelsAhead == <<-1, 0, 1>>
WheelsAside == <<1, -2, 1>>
Commands == {Told(line) : line \in Motion \cup {"stop"}}
=============================================================================
