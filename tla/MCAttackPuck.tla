---------------------------- MODULE MCAttackPuck -----------------------------
(* One unit is 3.75 pixels: a radius is 8, a stick 32.                     *)
EXTENDS AttackPuck

Unit(x, y, dx, dy) == [x |-> x, y |-> y, to |-> Point(dx, dy)]

\* 15, 3 and 13 degrees.
const_StickSlope == <<4, 15>>
const_SafeSlope == <<1, 19>>
const_AimSlope == <<3, 13>>

\* In reach of the places of the foes or not, turned to them or away.
const_Selves == {Unit(0, 0, 1, 0), Unit(0, 0, 0, 1), Unit(-12, 5, 1, 0)}

\* Beside the way from the first place to the foes, behind it, and on the right
\* of a blow at the first foe, out of its way.
const_Mates == {Unit(16, 7, 1, 0), Unit(-8, -17, 0, 1), Unit(6, 20, 0, 1)}

const_Foes == {Unit(31, 0, 1, 0), Unit(31, 0, -1, 0), Unit(15, -8, 0, 1), Unit(22, 16, 0, -1)}
=============================================================================
