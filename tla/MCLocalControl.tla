--------------------------- MODULE MCLocalControl ---------------------------
(***************************************************************************)
(* Distances are in steps of the slowest speed per time unit.  The ratios  *)
(* keep what the flow has: an acceleration step is a deadband, the command *)
(* timeout is longer than the controller's period, the horizon (29 units   *)
(* there) is longer than the scan and command timeouts together (10 and    *)
(* 7), and MIN_WZ is nearer to zero than the turn the controller may ask   *)
(* for (-0.20, -0.23).                                                     *)
(***************************************************************************)
EXTENDS LocalControl

MCReport == {[mode |-> TRUE, matched |-> TRUE, lost |-> n] : n \in {0, 2}}
MCTurn == {-2, 0}
MCMax == [a \in Axis |-> IF a = "vx" THEN 2 ELSE 1]
MCMin == [a \in Axis |-> -1]
MCOne == [a \in Axis |-> 1]

-----------------------------------------------------------------------------
\* What must be left of the horizon n units after a scan, from the last unit back: what the
\* robot may drive until a command on the oldest scan has timed out, and a reserve for the
\* fastest speed asked for until the tick after the scan is too old.
MCLeftFrom(u, w, reserve, scanTimeout, timeout, fastest(_, _, _)) ==
  LET left[n \in 0..scanTimeout + timeout + 2] ==
        LET braking == IF n <= scanTimeout + 2 THEN reserve[w] ELSE 0
            driving == IF n <= scanTimeout + timeout THEN fastest(u, w, n) + left[n + 1] ELSE 0
        IN  IF braking > driving THEN braking ELSE driving
  IN  left

MCReserve == [v \in 0..DesiredSpeed |-> v \div 2]
MCLeft ==
  [u \in 0..DesiredSpeed |-> [w \in MinSpeed..DesiredSpeed |->
     MCLeftFrom(u, w, MCReserve, ScanTimeout, VelocityTimeout, Fastest)]]

ASSUME MCHorizonSuffices == HorizonSuffices(MCReserve, MCLeft)

\* The flow: speeds in mm/s, times in units of 50 ms, a horizon of 1.5 s, scans of 500 ms and
\* commands of 350 ms, 12..50 mm/s, and 120 mm/s/s at 20 updates a second.
FlowDecel == [a \in Axis |-> 6]
Flow == INSTANCE LocalControl WITH
  Limit <- 3565, SelfFilter <- 3600, Spread <- 20, Far <- 80000,
  Horizon <- 29, ScanTimeout <- 10, VelocityTimeout <- 7,
  MinSpeed <- 12, DesiredSpeed <- 50, MaxDecel <- FlowDecel

FlowReserve == [v \in 0..50 |-> (v * v) \div 4]
FlowLeft ==
  [u \in 0..50 |-> [w \in 12..50 |-> MCLeftFrom(u, w, FlowReserve, 10, 7, Flow!Fastest)]]

ASSUME FlowHorizonSuffices == Flow!HorizonSuffices(FlowReserve, FlowLeft)
=============================================================================
