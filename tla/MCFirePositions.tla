--------------------------- MODULE MCFirePositions ---------------------------
(* One unit is 15 pixels; the rink is 24 units high and wide.              *)
EXTENDS FirePositions

Unit(x, y, dx, dy) == [x |-> x, y |-> y, to |-> Point(dx, dy)]

const_StickSlope == <<1, 4>>

\* Standing; slow enough for AimsAtFarCorner; across the middle of the rink, by
\* one unit too much for it; fast, and maybe out of the rink.
const_Drifts == {Point(0, 0), Point(4, 2), Point(1, -3), Point(-6, 5)}

\* In every part of the rink: near both nets, at the edges, at the centre.
const_Hockeyists ==
  {Unit(5, 5, 1, 0), Unit(5, 14, 0, 1), Unit(9, 7, -1, 0), Unit(15, 14, 1, 0),
   Unit(13, 24, 0, -1), Unit(17, 7, 1, 0), Unit(19, 22, -1, 1), Unit(23, 13, 0, 1)}

const_Enemies ==
  {Unit(4, 6, 0, 1), Unit(8, 14, -1, 0), Unit(10, 21, -1, -1), Unit(15, 8, 1, -1),
   Unit(16, 22, 1, 0), Unit(18, 13, 1, 1), Unit(22, 23, -1, 0)}

const_Goalies == [left |-> {Unit(4, 12, 1, 0)}, right |-> {Unit(24, 17, -1, 0)}]
=============================================================================
