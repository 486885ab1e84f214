---------------------------- MODULE FirePositions ----------------------------
(***************************************************************************)
(* Where MyStrategy sends a hockeyist: the fire point of attackNet(), the  *)
(* place of the first defender in defendInitial() and the exit of          *)
(* haveRest(), in a world where everybody moves between two calls.         *)
(*                                                                         *)
(* Positions are compared by the sum of distance and penalty, with the     *)
(* code's cut of the distance to an integer.                               *)
(***************************************************************************)
EXTENDS Geometry, SequencesExt

CONSTANTS
  Left, Right, Top, Bottom,      (* the rink                               *)
  NetDepth, NetHeight,           (* of both nets                           *)
  Radius,                        (* of a hockeyist                         *)
  PuckRadius, StickLength,
  EnemyPenalty, BetweenPenalty, StickPenalty,
  QuarterPenalty,                (* of 90 degrees in fillDefenderPositions() *)
  Undecided,                     (* "attacker is not decided yet"          *)
  SubstitutionHeight,
  Drifts,                        (* how far its speed may take a hockeyist *)
                                 (* until it could strike: [x, y]          *)
  Hockeyists, Enemies, Goalies   (* the units tried: [x, y, to], where the *)
                                 (* vector "to" is the direction           *)

\* Divisions of the code are exact here, and the two nets are at the sides.
ASSUME GeometryAssumption ==
  /\ \A n \in {Left, Right, Top, Bottom, NetDepth, NetHeight, Radius} : n \in Nat
  /\ Radius > 0 /\ Radius % 2 = 0 /\ NetDepth % 2 = 0 /\ NetHeight % 4 = 0
  /\ Left < Right /\ Right % 2 = 0 /\ Top < Bottom /\ (Bottom - Top) % 4 = 0
  /\ (Bottom + Top) % 4 = 0 /\ NetHeight + 2 * Radius <= Bottom - Top

\* Sizes as in the game: the rink is wider than high, a net is some hockeyists
\* wide but not deep, and everybody stands in the rink, goalies near their net.
ASSUME SizesAssumption ==
  /\ Bottom - Top <= Right - Left /\ Left + Radius < Right \div 2
  /\ NetDepth <= 4 * Radius /\ 4 * Radius <= NetHeight /\ NetHeight < 8 * Radius
  /\ Undecided \in Nat \ {0} /\ SubstitutionHeight \in Nat /\ Radius < SubstitutionHeight
  /\ \A u \in Hockeyists \cup Enemies :
       u.x \in Left..Right /\ u.y \in (Top + Radius)..(Bottom - Radius)
  /\ \A d \in Drifts : d.x \in Int /\ d.y \in Int
  /\ \A g \in Goalies["left"] : g.x \in Left..(Right - 4 * Radius)
  /\ \A g \in Goalies["right"] : g.x \in (Left + 4 * Radius)..Right

VARIABLES
  me,        (* the player whose strategy this is: its net is at that side *)
  self,      (* m_self                                                     *)
  enemies,   (* the opponents in the order of World::getHockeyists()       *)
  goalies,   (* of each team: a set of at most one unit                    *)
  preferred, (* m_firePositionMap[m_self->getId()]                         *)
  call,      (* the action of the last call, "none" before it              *)
  target,    (* where it sends the hockeyist                               *)
  aim,       (* net of attackNet()                                         *)
  ghost,     (* ghost of attackNet(): the place predicted for the strike   *)
  aiming,    (* attackNet() turns the hockeyist to the net                 *)
  skipped    (* positions that fillDefenderPositions() did not add         *)

vars == <<me, self, enemies, goalies, preferred, call, target, aim, ghost,
          aiming, skipped>>

-----------------------------------------------------------------------------
(* Points and vectors.                                                     *)

Players   == {"left", "right"}
Fires     == {"eUNKNOWN", "eUP", "eDOWN"}
opponent  == CHOOSE p \in Players : p # me

Larger(a, b) == IF a > b THEN a ELSE b
Lesser(a, b) == IF a < b THEN a ELSE b

\* getDistanceTo(), cut to an integer.
DistanceTo(u, p) ==
  CHOOSE n \in 0..(Right + Bottom) :
    n * n <= SquareTo(u, p) /\ SquareTo(u, p) < (n + 1) * (n + 1)

NetFront(player) == IF player = "left" THEN Left ELSE Right
NetBack(player)  == IF player = "left" THEN Left - NetDepth ELSE Right + NetDepth
NetTop           == (Top + Bottom - NetHeight) \div 2
NetBottom        == (Top + Bottom + NetHeight) \div 2

-----------------------------------------------------------------------------
(* getNet() and the firing positions.                                      *)

\* Mutant: the near corner is attacked.
MUT_getNet(player, attacker, preference) ==
  LET netY  == (NetBottom + NetTop) \div 2
      isUp  == IF preference = "eUNKNOWN" THEN attacker.y < netY ELSE preference = "eUP"
  IN  Point((NetBack(player) + NetFront(player)) \div 2,
            netY + (IF isUp THEN -1 ELSE 1) * (NetHeight \div 2))

\* "attack far corner": eUP fires from above at the lower corner.
getNet(player, attacker, preference) ==
  LET netY  == (NetBottom + NetTop) \div 2
      isUp  == IF preference = "eUNKNOWN" THEN attacker.y < netY ELSE preference = "eUP"
  IN  Point((NetBack(player) + NetFront(player)) \div 2,
            netY + (IF isUp THEN 1 ELSE -1) * (NetHeight \div 2))

\* Mutant: the whole rink is in reach.
MUT_Line(goal, xDirection, yDirection, yMargin) ==
  {Point(goal.x + Abs(y - goal.y) * xDirection, y) :
     y \in {z \in Top..Bottom :
              /\ (z - goal.y) * yDirection >= yMargin
              /\ ((z - goal.y) * yDirection - yMargin) % (Radius \div 2) = 0}}

\* The loop of both fill...Positions(): the points of the 45 degree line from
\* goal, from yMargin away from it up to the edge of the rink.
Line(goal, xDirection, yDirection, yMargin) ==
  {Point(goal.x + Abs(y - goal.y) * xDirection, y) :
     y \in {z \in (Top + Radius)..(Bottom - Radius) :
              /\ (z - goal.y) * yDirection >= yMargin
              /\ ((z - goal.y) * yDirection - yMargin) % (Radius \div 2) = 0}}

\* The penalty of a position.  Enemies are looked at in their order, and one
\* that stands there hides what those after it do.
Penalty(p) ==
  LET hockeyists == enemies \o SetToSeq(goalies[opponent])
      Occupies(i) == /\ SquareTo(hockeyists[i], p) <= Radius * Radius
                     /\ IsAhead(hockeyists[i], p)
      IsFree(i)   == \A j \in 1..i : ~Occupies(j)
      places      == DOMAIN hockeyists
      Charge(holds, amount) == IF holds THEN amount ELSE 0
  IN  Charge(\E i \in places : Occupies(i), EnemyPenalty)
      + Charge(\E i \in places :
                 /\ IsFree(i) /\ IsAhead(hockeyists[i], p)
                 /\ isInBetween(p, hockeyists[i], self, PuckRadius), BetweenPenalty)
      + Charge(\E i \in places :
                 /\ IsFree(i) /\ SectorMargin(hockeyists[i], p) >= 0
                 /\ SquareTo(hockeyists[i], p) <= StickLength * StickLength, StickPenalty)

\* Mutant: the direction is taken from the place of the hockeyist.
MUT_fillFirePositions(preference) ==
  LET goal == getNet(opponent, self, preference)
      isDown == self.y > goal.y
      xDirection == IF NetFront(me) > NetFront(opponent) THEN 1 ELSE -1
  IN  Line(goal, xDirection, IF isDown THEN 1 ELSE -1,
           IF goalies[opponent] = {} THEN 2 * Radius ELSE NetHeight)

fillFirePositions(preference) ==
  LET goal == getNet(opponent, self, preference)
      isDown == IF preference = "eUNKNOWN" THEN self.y > goal.y ELSE preference = "eDOWN"
      xDirection == IF NetFront(me) > NetFront(opponent) THEN 1 ELSE -1
  IN  Line(goal, xDirection, IF isDown THEN 1 ELSE -1,
           IF goalies[opponent] = {} THEN 2 * Radius ELSE NetHeight)

\* The points that may come first when positions are sorted by distance and
\* penalty, at or after the lowest of what the penalty can be.
First(positions, Low(_), High(_)) ==
  {p \in positions : \A q \in positions :
     DistanceTo(self, p) + Low(p) <= DistanceTo(self, q) + High(q)}

\* "don't go above top or bottom".
Clamp(p) == Point(p.x, Lesser(Larger(p.y, Top + Radius), Bottom - Radius))

getFirePoints(preference) ==
  LET positions == fillFirePositions(preference)
  IN  IF goalies[opponent] = {} THEN {At(self)}
      ELSE IF positions = {} THEN {Clamp(At(self))}
      ELSE {Clamp(p) : p \in First(positions, Penalty, Penalty)}

\* Distances from the middle of the upper or the lower half.
upQuater   == (3 * Top + Bottom) \div 4
downQuater == (Top + 3 * Bottom) \div 4
EnemyScore(quater) == Abs(quater - enemies[1].y) + Abs(quater - enemies[2].y)
Score(quater) == EnemyScore(quater) - Abs(quater - self.y)

\* At least twice as far from the opponent's net as from the own one.
IsFarFromOpponent ==
  LET center == (Top + Bottom) \div 2
  IN  SquareTo(self, Point(NetFront(opponent), center))
        > 4 * SquareTo(self, Point(NetFront(me), center))

\* Mutant: however small the difference is.
MUT_choosePreference ==
  IF preferred = "eUNKNOWN" /\ IsFarFromOpponent
  THEN IF Score(upQuater) < Score(downQuater) THEN "eDOWN" ELSE "eUP"
  ELSE preferred

\* The start of attackNet(): far from the opponent's net, the half with fewer
\* enemies is remembered.
choosePreference ==
  IF /\ preferred = "eUNKNOWN" /\ IsFarFromOpponent
     /\ 3 * Abs(Score(upQuater) - Score(downQuater)) > 2 * (Bottom - Top)
  THEN IF Score(upQuater) < Score(downQuater) THEN "eDOWN" ELSE "eUP"
  ELSE preferred

-----------------------------------------------------------------------------
(* The places of the first defender and of a hockeyist at rest.            *)

attacker   == enemies[1]
IsUndecided == Abs(attacker.y - (Top + Bottom) \div 2) < Undecided

\* Statistics::getMySide(): found once, the nets stay where they are.
mySide == IF NetFront(me) < NetFront(opponent) THEN "eLEFT_SIDE" ELSE "eRIGHT_SIDE"

\* In front of the goalie, or of the net.
BeforeGoalie ==
  LET x == IF goalies[me] = {} THEN NetFront(me)
           ELSE (CHOOSE g \in goalies[me] : TRUE).x
  IN  Point(IF mySide = "eLEFT_SIDE" THEN x + 4 * Radius ELSE x - 4 * Radius, self.y)

\* Mutant: the same margin with and without a goalie.
MUT_DefenceLine ==
  LET goal == getNet(me, attacker, "eUNKNOWN")
      xDirection == IF NetFront(me) > NetFront(opponent) THEN -1 ELSE 1
  IN  Line(goal, xDirection, IF attacker.y > goal.y THEN 1 ELSE -1, 2 * Radius)

DefenceLine ==
  LET goal == getNet(me, attacker, "eUNKNOWN")
      xDirection == IF NetFront(me) > NetFront(opponent) THEN -1 ELSE 1
  IN  Line(goal, xDirection, IF attacker.y > goal.y THEN 1 ELSE -1,
           IF goalies[me] = {} THEN 2 * Radius ELSE 4 * Radius)

\* "don't add secured positions (behind defender)".
Secured(positions) ==
  {p \in positions : isInBetween(p, self, attacker, PuckRadius)}

fillDefenderPositions ==
  IF IsUndecided THEN {BeforeGoalie} ELSE DefenceLine \ Secured(DefenceLine)

\* The penalty is half of the angle: only its quarter turn is told apart.
LowAngle(p)  == IF IsAhead(self, p) THEN 0 ELSE QuarterPenalty
HighAngle(p) == LowAngle(p) + QuarterPenalty

\* Statistics::getSubstitutionRange(): the points [x, y] of a half-open
\* rectangle, half of the strip of the rink.
IsInRange(p) ==
  /\ p.y >= Top /\ p.y < Top + SubstitutionHeight
  /\ IF mySide = "eLEFT_SIDE" THEN p.x >= Left /\ p.x < Right \div 2
     ELSE p.x >= Right \div 2 /\ p.x < Right

\* Mutant: the edge that does not belong to the range.
MUT_getSubstitutionPoint ==
  LET isXInside == IsInRange(Point(self.x, Top))
      x == IF isXInside THEN self.x ELSE Right \div 2
  IN  IF IsInRange(self) THEN At(self) ELSE Point(x, Top + Radius)

getSubstitutionPoint ==
  LET isXInside == IsInRange(Point(self.x, Top))
      edge == IF mySide = "eLEFT_SIDE" THEN (Right \div 2) - Radius
              ELSE (Right \div 2) + Radius
  IN  IF IsInRange(self) THEN At(self)
      ELSE Point(IF isXInside THEN self.x ELSE edge, Top + Radius)

-----------------------------------------------------------------------------
(* The calls and the world.                                                *)

\* Nobody stands where somebody else does.
IsFreeFor(u, others) == \A o \in others : At(o) # At(u)
Units == {self, enemies[1], enemies[2]} \cup goalies["left"] \cup goalies["right"]

Chosen(name, point) == /\ call' = name
                       /\ target' = point
Unmoved == UNCHANGED <<me, self, enemies, goalies>>

\* Where a hockeyist may be after the cooldown of a swing and the turn to the
\* net; a ghost does not stop at the edge of the rink.
getGhost(u) == {Point(u.x + d.x, u.y + d.y) : d \in Drifts}

\* Mutant: a diameter further away.
MUT_IsNear(p) == SquareTo(ghost', p) < 16 * Radius * Radius

\* "start aiming a bit before fire point".
IsNear(p) == SquareTo(ghost', p) < 4 * Radius * Radius

attackNet ==
  /\ call = "none"
  /\ preferred' = choosePreference
  /\ aim' = getNet(opponent, self, "eUNKNOWN")
  /\ ghost' \in getGhost(self)
  /\ \E p \in getFirePoints(preferred') : Chosen("attackNet", p)
  /\ aiming' = IsNear(target')
  /\ Unmoved /\ UNCHANGED skipped

\* At one of the positions already: to the puck, which the attacker holds.
defendInitial ==
  LET positions == fillDefenderPositions
      isAlreadyDefending == \E p \in positions : SquareTo(self, p) < Radius * Radius
  IN  /\ call = "none"
      /\ skipped' = IF IsUndecided THEN {} ELSE Secured(DefenceLine)
      /\ IF isAlreadyDefending THEN Chosen("takePuck", At(attacker))
         ELSE IF positions = {} THEN Chosen("defendInitial", At(self))
         ELSE \E p \in First(positions, LowAngle, HighAngle) : Chosen("defendInitial", p)
      /\ Unmoved /\ UNCHANGED <<preferred, aim, ghost, aiming>>

haveRest ==
  /\ call = "none"
  /\ Chosen("haveRest", getSubstitutionPoint)
  /\ Unmoved /\ UNCHANGED <<preferred, aim, ghost, aiming, skipped>>

\* Between two calls somebody moves or a goalie comes or leaves, and the
\* preferences are forgotten if the puck was loose.
World ==
  /\ \/ /\ self' \in {u \in Hockeyists : IsFreeFor(u, Units \ {self})}
        /\ UNCHANGED <<enemies, goalies>>
     \/ /\ \E i \in DOMAIN enemies :
             \E u \in {v \in Enemies : IsFreeFor(v, Units \ {enemies[i]})} :
                enemies' = [enemies EXCEPT ![i] = u]
        /\ UNCHANGED <<self, goalies>>
     \/ /\ \E p \in Players :
             \E g \in {{}} \cup {{v} : v \in {w \in Goalies[p] : IsFreeFor(w, Units)}} :
                goalies' = [goalies EXCEPT ![p] = g]
        /\ UNCHANGED <<self, enemies>>
  /\ preferred' \in {preferred, "eUNKNOWN"}
  /\ call' = "none" /\ target' = At(self') /\ aim' = At(self')
  /\ ghost' = At(self') /\ aiming' = FALSE /\ skipped' = {}
  /\ UNCHANGED me

Init ==
  /\ me \in Players
  /\ self \in Hockeyists
  /\ enemies \in {e \in [1..2 -> Enemies] : At(e[1]) # At(e[2])}
  /\ IsFreeFor(self, {enemies[1], enemies[2]})
  /\ goalies = [p \in Players |-> {}]
  /\ preferred = "eUNKNOWN"
  /\ call = "none" /\ target = At(self) /\ aim = At(self)
  /\ ghost = At(self) /\ aiming = FALSE /\ skipped = {}

Next == attackNet \/ defendInitial \/ haveRest \/ World

Spec == Init /\ [][Next]_vars

-----------------------------------------------------------------------------
(* Properties.                                                             *)

CentreY   == (NetTop + NetBottom) \div 2
HasGoalie == goalies[opponent] # {}

\* Type correctness: among others, every point that is chosen is one where a
\* hockeyist can be, although getFirePoint() alone cuts it to the rink.
TypeOK ==
  /\ me \in Players /\ preferred \in Fires
  /\ self \in Hockeyists /\ enemies \in Seq(Enemies) /\ Len(enemies) = 2
  /\ \A p \in Players : goalies[p] \subseteq Goalies[p] /\ Cardinality(goalies[p]) <= 1
  /\ call \in {"none", "attackNet", "defendInitial", "takePuck", "haveRest"}
  /\ target.x \in Left..Right /\ target.y \in (Top + Radius)..(Bottom - Radius)
  /\ \A p \in {aim, ghost} : p.x \in Int /\ p.y \in Int
  /\ aiming \in BOOLEAN

\* Against a goalie the fire point lies beyond the near post, in front of the
\* net, on the preferred side or else on that of the hockeyist: the sides of
\* getNet(), of the loop and of the preference are three computations.
FiresFromItsSide ==
  call = "attackNet" /\ HasGoalie =>
    /\ IF preferred = "eUP" \/ (preferred = "eUNKNOWN" /\ self.y < CentreY)
       THEN target.y <= NetTop ELSE target.y >= NetBottom
    /\ IF me = "left" THEN target.x <= Right - Radius ELSE target.x >= Left + Radius

\* attackNet() aims once the ghost is near the fire point, at the far corner
\* for the half where the hockeyist itself is now: it does not pass the
\* preference on.  That is the corner the fire point was computed for as long
\* as the hockeyist does not drift up or down by more than half a net less its
\* diameter until it can strike.  A faster one with a preference may still be
\* in the other half, and then aims at the near corner.
AimsAtFarCorner ==
  /\ aiming /\ HasGoalie
  /\ Abs(ghost.y - self.y) <= (NetHeight \div 2) - 2 * Radius
  => aim = getNet(opponent, self, preferred)

\* A side is preferred only if the enemies really are nearer to the other:
\* the place of the hockeyist itself, which counts too, cannot outweigh them.
FewerEnemiesThere ==
  [][/\ preferred' = "eUP" /\ preferred # "eUP" =>
          EnemyScore(upQuater) > EnemyScore(downQuater)
     /\ preferred' = "eDOWN" /\ preferred # "eDOWN" =>
          EnemyScore(downQuater) > EnemyScore(upQuater)]_vars

\* With a goalie in the net the first defender is sent to the half of the net
\* where the attacker is, on its own side of the rink's middle.
GuardsAttackersHalf ==
  call = "defendInitial" /\ ~IsUndecided /\ goalies[me] # {}
    /\ target # At(self) =>
      (target.y - CentreY) * (attacker.y - CentreY) > 0

\* At rest a hockeyist is sent into the substitution area of its own half.
RestsInItsArea == call = "haveRest" => IsInRange(target)

\* The positions that are not added are "secured positions (behind
\* defender)": seen from the attacker, they are on the defender's side.
SkippedAreSecured ==
  \A p \in skipped : Dot(Vector(attacker, p), Vector(attacker, At(self))) > 0
=============================================================================
