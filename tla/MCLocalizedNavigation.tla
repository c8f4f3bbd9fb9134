----------------------- MODULE MCLocalizedNavigation -----------------------
(***************************************************************************)
(* Two positions the minimum travel apart; a scan is taken at the newest   *)
(* odometry, so none waits and the queue's behaviour stays with the        *)
(* KartoRuntime run.                                                       *)
(***************************************************************************)
EXTENDS LocalizedNavigation

Places == {0, 2}
Together == {0}
EveryStep == {1}
=============================================================================
