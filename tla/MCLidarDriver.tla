--------------------------- MODULE MCLidarDriver ---------------------------
(***************************************************************************)
(* Revolutions of six points in frames of two.  The device starts to turn  *)
(* at any of them, so a revolution begins within a frame as often as at    *)
(* its start.  The programs before left the line as they liked: with       *)
(* parity, at a rate faster or slower than 38400, and in a kernel that     *)
(* has rates of any value, at one of those.                                *)
(***************************************************************************)
EXTENDS LidarDriver

MCLines ==
  {[DefaultLine(TRUE) EXCEPT !.flags = {"PARENB"}, !.bother = TRUE, !.speed = 250],
   [DefaultLine(TRUE) EXCEPT !.flags = {"CMSPAR"}, !.speed = SerialBaud],
   [DefaultLine(FALSE) EXCEPT !.flags = {"CMSPAR"}, !.divisor = 4]}

ASSUME MCRevolutionsAreLong == RevolutionsAreLong
=============================================================================
