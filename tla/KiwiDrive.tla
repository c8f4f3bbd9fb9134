----------------------------- MODULE KiwiDrive -----------------------------
(***************************************************************************)
(* The kinematics of the three-wheeled chassis: the wheels' speeds for a   *)
(* velocity, and the velocity for the wheels' speeds.                      *)
(*                                                                         *)
(* A velocity is <<linear, lateral, angular>>.  Units are chosen per       *)
(* component so that the wheels' angles give whole numbers: at 60, 180 and *)
(* 300 degrees a linear unit turns the wheels by <<-1, 0, 1>>.             *)
(***************************************************************************)
EXTENDS Integers

CONSTANTS
  Linear, Lateral,    \* ticks of each wheel for a unit: -sin and cos of WHEEL_ANGLES_DEG
  Angular             \* ANGULAR_TICKS_PER_RADPS

ASSUME KiwiAssumption ==
  Linear \in [1..3 -> Int] /\ Lateral \in [1..3 -> Int] /\ Angular \in Int

\* Row w says how wheel w turns for each component of the velocity.
Row == [w \in 1..3 |-> <<Linear[w], Lateral[w], Angular>>]

WheelSpeeds(v) == [w \in 1..3 |-> Row[w][1] * v[1] + Row[w][2] * v[2] + Row[w][3] * v[3]]

\* The other two of 1, 2 and 3, in turn.
Second(i) == (i % 3) + 1
Third(i) == ((i + 1) % 3) + 1

Cofactor(w, k) ==
  Row[Second(w)][Second(k)] * Row[Third(w)][Third(k)]
    - Row[Second(w)][Third(k)] * Row[Third(w)][Second(k)]

\* The chassis refuses a determinant of 0.
Determinant == Row[1][1] * Cofactor(1, 1) + Row[1][2] * Cofactor(1, 2) + Row[1][3] * Cofactor(1, 3)

\* Mutant: the matrix of cofactors is not transposed.
ChassisVelocity_Transposed(s) ==
  [k \in 1..3 |-> Cofactor(k, 1) * s[1] + Cofactor(k, 2) * s[2] + Cofactor(k, 3) * s[3]]

\* Before the division by the determinant.
ChassisVelocity(s) ==
  [k \in 1..3 |-> Cofactor(1, k) * s[1] + Cofactor(2, k) * s[2] + Cofactor(3, k) * s[3]]
=============================================================================
