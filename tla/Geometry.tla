------------------------------ MODULE Geometry -------------------------------
(***************************************************************************)
(* What MyStrategy asks about units of the world: distances, angles, and   *)
(* whether one is between two others.                                      *)
(*                                                                         *)
(* A unit has integer coordinates, in a unit of length of the reader's     *)
(* choice, and a vector "to" for its direction.  Angles are compared by    *)
(* cross and dot products, distances by their squares.                     *)
(***************************************************************************)
EXTENDS Integers

CONSTANT StickSlope   (* <<a, b>>: tan(getStickSector() / 2) = a / b       *)

ASSUME StickAssumption == StickSlope \in (Nat \ {0}) \X (Nat \ {0})

Point(x, y)  == [x |-> x, y |-> y]
At(u)        == Point(u.x, u.y)
Vector(u, p) == Point(p.x - u.x, p.y - u.y)
Cross(v, w)  == v.x * w.y - v.y * w.x
Dot(v, w)    == v.x * w.x + v.y * w.y
Abs(n)       == IF n < 0 THEN -n ELSE n

\* getDistanceTo(), squared.
SquareTo(u, p) == Dot(Vector(u, p), Vector(u, p))

\* |getAngleTo()| <= PI / 2.
IsAhead(u, p) == Dot(u.to, Vector(u, p)) >= 0

\* The sign is that of getStickSector() / 2 - |getAngleTo()|, or negative.
SectorMargin(u, p) ==
  Dot(u.to, Vector(u, p)) * StickSlope[1]
    - Abs(Cross(u.to, Vector(u, p))) * StickSlope[2]

\* getAngleTo() < atan(a / b), for slope = <<a, b>>.  The angle has a sign:
\* everything on the left, where it is negative, is below.
AngleBelow(u, p, slope) ==
  LET v == Vector(u, p)
  IN  \/ Cross(u.to, v) < 0
      \/ Dot(u.to, v) >= 0 /\ Cross(u.to, v) * slope[2] < Dot(u.to, v) * slope[1]

\* |getAngleTo()| < atan(a / b).
AngleWithin(u, p, slope) ==
  Abs(Cross(u.to, Vector(u, p))) * slope[2] < Dot(u.to, Vector(u, p)) * slope[1]

-----------------------------------------------------------------------------
(* isInBetween().                                                          *)

\* The difference of the two angles, both in -PI..PI, exceeds PI when the
\* short way from one direction to the other passes behind the unit.  What is
\* exactly behind counts as on the left.
IsWrapped(u, v, w) ==
  LET OnLeft(z) == Cross(u.to, z) > 0 \/ (Cross(u.to, z) = 0 /\ Dot(u.to, z) < 0)
  IN  \/ OnLeft(v) /\ Cross(u.to, w) < 0 /\ Cross(w, v) < 0
      \/ OnLeft(w) /\ Cross(u.to, v) < 0 /\ Cross(v, w) < 0

\* dL < gap, where dL = tan(dA) * distanceToBetween.  The tangent is negative
\* for a dA of more than a quarter turn, and its sign changes when dA wraps.
isInBetween(first, between, second, gap) ==
  LET v == Vector(second, first)
      w == Vector(second, between)
      dot   == IF IsWrapped(second, v, w) THEN -Dot(v, w) ELSE Dot(v, w)
      cross == Abs(Cross(v, w))
  IN  /\ SquareTo(second, between) < SquareTo(second, first)
      /\ \/ cross = 0
         \/ dot < 0
         \/ cross * cross * Dot(w, w) < gap * gap * dot * dot
=============================================================================
