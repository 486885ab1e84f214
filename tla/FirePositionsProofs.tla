------------------------ MODULE FirePositionsProofs -------------------------
(***************************************************************************)
(* Theorems about FirePositions, for a rink, nets and units of any size    *)
(* that the two named assumptions allow, and any places of the units.      *)
(***************************************************************************)
EXTENDS FirePositions, FiniteSetTheorems, SequenceTheorems, TLAPS

Half(n) == n \div 2

-----------------------------------------------------------------------------
(* The rink.                                                               *)

LEMMA ConstantsType ==
  /\ Left \in Nat /\ Right \in Nat /\ Top \in Nat /\ Bottom \in Nat
  /\ NetDepth \in Nat /\ NetHeight \in Nat /\ Radius \in Nat /\ Radius > 0
  /\ Half(NetDepth) \in Nat /\ 2 * Half(NetDepth) = NetDepth
  /\ Half(NetHeight) \in Nat /\ 2 * Half(NetHeight) = NetHeight
BY GeometryAssumption DEF Half

LEMMA NetIs ==
  /\ NetTop \in Int /\ NetBottom \in Int /\ CentreY \in Int
  /\ NetBottom = NetTop + NetHeight
  /\ CentreY = NetTop + Half(NetHeight)
  /\ CentreY = (Top + Bottom) \div 2
  /\ NetTop >= Top + Radius /\ NetBottom <= Bottom - Radius
BY GeometryAssumption DEF Half, NetTop, NetBottom, CentreY

LEMMA OpponentIs ==
  ASSUME me \in Players
  PROVE  /\ me = "left" => opponent = "right"
         /\ me = "right" => opponent = "left"
         /\ me = "left" \/ me = "right"
  BY DEF opponent, Players

\* The goal lies in the middle of a net's depth, at the corner that is far from
\* the side of the attack.
LEMMA GetNetIs ==
  ASSUME NEW player \in Players, NEW attackerOf, attackerOf.y \in Int, NEW preference
  PROVE  LET goal == getNet(player, attackerOf, preference)
             isUp == IF preference = "eUNKNOWN" THEN attackerOf.y < CentreY
                     ELSE preference = "eUP"
         IN  /\ goal.x = IF player = "left" THEN Left - Half(NetDepth)
                         ELSE Right + Half(NetDepth)
             /\ goal.y = IF isUp THEN NetBottom ELSE NetTop
<1> DEFINE isUp == IF preference = "eUNKNOWN" THEN attackerOf.y < CentreY
                   ELSE preference = "eUP"
           goal == getNet(player, attackerOf, preference)
<1>1. (NetBottom + NetTop) \div 2 = CentreY
  BY NetIs DEF CentreY
<1>2. goal = Point((NetBack(player) + NetFront(player)) \div 2,
                   CentreY + (IF isUp THEN 1 ELSE -1) * Half(NetHeight))
  BY <1>1 DEF getNet, Half
<1>3. (NetBack(player) + NetFront(player)) \div 2
        = IF player = "left" THEN Left - Half(NetDepth) ELSE Right + Half(NetDepth)
  BY GeometryAssumption DEF NetBack, NetFront, Half, Players
<1>4. CentreY + (IF isUp THEN 1 ELSE -1) * Half(NetHeight)
        = IF isUp THEN NetBottom ELSE NetTop
  <2> HIDE DEF isUp
  <2>1. CentreY + 1 * Half(NetHeight) = NetBottom /\ CentreY + (-1) * Half(NetHeight) = NetTop
    BY NetIs, ConstantsType
  <2> QED  BY <2>1
<1>5. goal.x = (NetBack(player) + NetFront(player)) \div 2
      /\ goal.y = CentreY + (IF isUp THEN 1 ELSE -1) * Half(NetHeight)
  BY <1>2 DEF Point
<1>6. goal.y = (IF isUp THEN NetBottom ELSE NetTop)
  BY <1>4, <1>5
<1> QED  BY <1>3, <1>5, <1>6

\* The points of the 45 degree line.
LEMMA OnLine ==
  ASSUME NEW goal, NEW xDirection, NEW yDirection, NEW yMargin,
         NEW p \in Line(goal, xDirection, yDirection, yMargin)
  PROVE  /\ p.y \in (Top + Radius)..(Bottom - Radius)
         /\ (p.y - goal.y) * yDirection >= yMargin
         /\ p.x = goal.x + Abs(p.y - goal.y) * xDirection
<1>1. PICK z \in (Top + Radius)..(Bottom - Radius) :
         /\ p = Point(goal.x + Abs(z - goal.y) * xDirection, z)
         /\ (z - goal.y) * yDirection >= yMargin
  BY DEF Line
<1>2. p.y = z /\ p.x = goal.x + Abs(z - goal.y) * xDirection
  BY <1>1 DEF Point
<1> QED  BY <1>1, <1>2

LEMMA AbsIs ==
  ASSUME NEW n \in Int
  PROVE  Abs(n) = (IF n >= 0 THEN n ELSE -n) /\ Abs(n) \in Nat
  BY DEF Abs

LEMMA Nearer ==
  ASSUME NEW dx \in Int, NEW dy \in Int, NEW n \in Nat, dx * dx + dy * dy < 4 * n * n
  PROVE  dy < 2 * n /\ -dy < 2 * n
<1>1. dx * dx >= 0 /\ dy * dy < 4 * n * n
  <2>1. dx * dx >= 0
    OBVIOUS
  <2>2. dx * dx \in Int /\ dy * dy \in Int /\ 4 * n * n \in Int
    OBVIOUS
  <2> QED  BY <2>1, <2>2
<1>2. ASSUME NEW m \in Int, m >= 2 * n PROVE m * m >= 4 * n * n
  <2>1. m * m >= (2 * n) * m
    BY <1>2
  <2>2. (2 * n) * m >= (2 * n) * (2 * n)
    BY <1>2
  <2> QED  BY <2>1, <2>2
<1>3. (-dy) * (-dy) = dy * dy /\ -dy \in Int
  OBVIOUS
<1>4. ~(dy >= 2 * n)
  BY <1>1, <1>2
<1>5. ~(-dy >= 2 * n)
  BY <1>1, <1>2, <1>3
<1> QED  BY <1>4, <1>5

-----------------------------------------------------------------------------
(* The units.                                                              *)

InRink(p) == p.x \in Left..Right /\ p.y \in (Top + Radius)..(Bottom - Radius)

LEMMA UnitsType ==
  ASSUME TypeOK
  PROVE  /\ InRink(self) /\ InRink(attacker) /\ InRink(At(self)) /\ InRink(At(attacker))
         /\ self.x \in Int /\ self.y \in Int /\ attacker.x \in Int /\ attacker.y \in Int
<1>1. attacker \in Hockeyists \cup Enemies /\ self \in Hockeyists \cup Enemies
  <2>1. enemies \in Seq(Enemies) /\ 1 \in 1..Len(enemies) /\ self \in Hockeyists
    BY DEF TypeOK
  <2> QED  BY <2>1 DEF attacker
<1>2. \A u \in Hockeyists \cup Enemies : InRink(u)
  BY SizesAssumption DEF InRink
<1>3. \A u : At(u).x = u.x /\ At(u).y = u.y
  BY DEF At, Point
<1>4. InRink(self) /\ InRink(attacker)
  BY <1>1, <1>2
<1> QED  BY <1>3, <1>4, ConstantsType DEF InRink

LEMMA DirectionIs ==
  ASSUME me \in Players
  PROVE  /\ (NetFront(me) > NetFront(opponent)) <=> me = "right"
         /\ (mySide = "eLEFT_SIDE") <=> me = "left"
  BY OpponentIs, GeometryAssumption DEF NetFront, mySide

-----------------------------------------------------------------------------
(* The fire point.                                                         *)

LEMMA ZeroMod ==
  ASSUME NEW n \in Nat \ {0}
  PROVE  0 % n = 0
  OBVIOUS

\* The side from which the goal is fired at.
IsUpper(preference) ==
  IF preference = "eUNKNOWN" THEN self.y < CentreY ELSE preference = "eUP"

\* getNet() and the loop of fillFirePositions() agree on the side.
LEMMA FireLine ==
  ASSUME TypeOK, goalies[opponent] # {}, NEW preference \in Fires
  PROVE  \E goal :
           /\ goal.x = IF me = "left" THEN Right + Half(NetDepth) ELSE Left - Half(NetDepth)
           /\ goal.y = IF IsUpper(preference) THEN NetBottom ELSE NetTop
           /\ fillFirePositions(preference)
                = Line(goal, IF me = "left" THEN -1 ELSE 1,
                       IF IsUpper(preference) THEN -1 ELSE 1, NetHeight)
<1> DEFINE goal == getNet(opponent, self, preference)
<1>1. me \in Players /\ opponent \in Players /\ self.y \in Int
  BY UnitsType, OpponentIs DEF TypeOK, Players
<1>2. /\ goal.x = IF opponent = "left" THEN Left - Half(NetDepth) ELSE Right + Half(NetDepth)
      /\ goal.y = IF IsUpper(preference) THEN NetBottom ELSE NetTop
  BY <1>1, GetNetIs DEF IsUpper
<1> DEFINE isDown == IF preference = "eUNKNOWN" THEN self.y > goal.y ELSE preference = "eDOWN"
<1>3. isDown <=> ~IsUpper(preference)
  <2>1. CASE preference = "eUNKNOWN"
    <3>1. NetTop < CentreY /\ CentreY < NetBottom
      BY NetIs, ConstantsType, SizesAssumption
    <3>2. isDown <=> self.y > (IF self.y < CentreY THEN NetBottom ELSE NetTop)
      BY <1>2, <2>1 DEF IsUpper
    <3>3. IsUpper(preference) <=> self.y < CentreY
      BY <2>1 DEF IsUpper
    <3> HIDE DEF isDown
    <3> QED  BY <3>1, <3>2, <3>3, <1>1, NetIs
  <2>2. CASE preference # "eUNKNOWN"
    BY <2>2 DEF IsUpper, Fires
  <2> QED  BY <2>1, <2>2
<1>4. fillFirePositions(preference)
        = Line(goal, IF NetFront(me) > NetFront(opponent) THEN 1 ELSE -1,
               IF isDown THEN 1 ELSE -1, NetHeight)
  BY DEF fillFirePositions
<1>5. (IF NetFront(me) > NetFront(opponent) THEN 1 ELSE -1) = (IF me = "left" THEN -1 ELSE 1)
  BY <1>1, DirectionIs, OpponentIs
<1>6. (IF isDown THEN 1 ELSE -1) = (IF IsUpper(preference) THEN -1 ELSE 1)
  BY <1>3
<1> HIDE DEF goal, isDown
<1> QED  BY <1>1, <1>2, <1>4, <1>5, <1>6, OpponentIs

\* A point to fire from lies on the rink, beyond the near post.
LEMMA FireLinePoint ==
  ASSUME TypeOK, goalies[opponent] # {}, NEW preference \in Fires,
         NEW p \in fillFirePositions(preference)
  PROVE  /\ InRink(p)
         /\ IF IsUpper(preference) THEN p.y <= NetTop ELSE p.y >= NetBottom
         /\ IF me = "left" THEN p.x <= Right - Radius ELSE p.x >= Left + Radius
<1>1. PICK goal :
           /\ goal.x = IF me = "left" THEN Right + Half(NetDepth) ELSE Left - Half(NetDepth)
           /\ goal.y = IF IsUpper(preference) THEN NetBottom ELSE NetTop
           /\ fillFirePositions(preference)
                = Line(goal, IF me = "left" THEN -1 ELSE 1,
                       IF IsUpper(preference) THEN -1 ELSE 1, NetHeight)
  BY FireLine
<1> DEFINE a == Abs(p.y - goal.y)
<1>2. /\ p.y \in (Top + Radius)..(Bottom - Radius)
      /\ (p.y - goal.y) * (IF IsUpper(preference) THEN -1 ELSE 1) >= NetHeight
      /\ p.x = goal.x + a * (IF me = "left" THEN -1 ELSE 1)
  BY <1>1, OnLine
<1>3. goal.x \in Int /\ goal.y \in Int /\ p.y \in Int
  BY <1>1, <1>2, NetIs, ConstantsType
<1>4. a \in Nat /\ a = IF p.y >= goal.y THEN p.y - goal.y ELSE goal.y - p.y
  <2>1. p.y - goal.y \in Int /\ (p.y - goal.y >= 0 <=> p.y >= goal.y)
        /\ -(p.y - goal.y) = goal.y - p.y
    BY <1>3
  <2> QED  BY <2>1, AbsIs
<1> HIDE DEF a
<1>5. /\ IF IsUpper(preference) THEN p.y <= NetTop ELSE p.y >= NetBottom
      /\ a >= NetHeight /\ a <= Bottom - Top - 2 * Radius
  <2>1. CASE IsUpper(preference)
    <3>1. goal.y = NetBottom /\ goal.y - p.y >= NetHeight
      BY <1>1, <1>2, <1>3, <2>1
    <3> QED  BY <2>1, <3>1, <1>2, <1>3, <1>4, NetIs, ConstantsType
  <2>2. CASE ~IsUpper(preference)
    <3>1. goal.y = NetTop /\ p.y - goal.y >= NetHeight
      BY <1>1, <1>2, <1>3, <2>2
    <3> QED  BY <2>2, <3>1, <1>2, <1>3, <1>4, NetIs, ConstantsType
  <2> QED  BY <2>1, <2>2
<1>6. /\ p.x \in Left..Right
      /\ IF me = "left" THEN p.x <= Right - Radius ELSE p.x >= Left + Radius
  <2>1. CASE me = "left"
    <3>1. p.x = Right + Half(NetDepth) - a
      BY <1>1, <1>2, <1>4, <2>1, ConstantsType
    <3> QED  BY <2>1, <3>1, <1>4, <1>5, ConstantsType, SizesAssumption
  <2>2. CASE me # "left"
    <3>1. p.x = Left - Half(NetDepth) + a
      BY <1>1, <1>2, <1>4, <2>2, ConstantsType
    <3> QED  BY <2>2, <3>1, <1>4, <1>5, ConstantsType, SizesAssumption
  <2> QED  BY <2>1, <2>2
<1> QED  BY <1>2, <1>5, <1>6 DEF InRink

\* The line always reaches the rink: its first point is level with a post.
LEMMA FireLineExists ==
  ASSUME TypeOK, goalies[opponent] # {}, NEW preference \in Fires
  PROVE  fillFirePositions(preference) # {}
<1>1. PICK goal :
           /\ goal.x = IF me = "left" THEN Right + Half(NetDepth) ELSE Left - Half(NetDepth)
           /\ goal.y = IF IsUpper(preference) THEN NetBottom ELSE NetTop
           /\ fillFirePositions(preference)
                = Line(goal, IF me = "left" THEN -1 ELSE 1,
                       IF IsUpper(preference) THEN -1 ELSE 1, NetHeight)
  BY FireLine
<1> DEFINE z == IF IsUpper(preference) THEN NetTop ELSE NetBottom
           d == IF IsUpper(preference) THEN -1 ELSE 1
<1>2. z \in (Top + Radius)..(Bottom - Radius)
  BY NetIs, ConstantsType
<1>3. (z - goal.y) * d = NetHeight
  BY <1>1, NetIs, ConstantsType
<1>4. ((z - goal.y) * d - NetHeight) % (Radius \div 2) = 0
  <2>1. Radius \div 2 \in Nat \ {0}
    BY GeometryAssumption
  <2>2. (z - goal.y) * d - NetHeight = 0
    BY <1>3, ConstantsType
  <2> QED  BY <2>1, <2>2, ZeroMod
<1>5. NetHeight >= NetHeight
  BY ConstantsType
<1> HIDE DEF z, d
<1>6. Point(goal.x + Abs(z - goal.y) * (IF me = "left" THEN -1 ELSE 1), z)
        \in Line(goal, IF me = "left" THEN -1 ELSE 1, d, NetHeight)
  BY <1>2, <1>3, <1>4, <1>5 DEF Line
<1> QED  BY <1>1, <1>6 DEF d

LEMMA ClampIs ==
  ASSUME NEW p, p.y \in Int, p.x \in Left..Right
  PROVE  /\ InRink(Clamp(p)) /\ Clamp(p).x = p.x
         /\ InRink(p) => Clamp(p).y = p.y
<1>1. Clamp(p).x = p.x /\ Clamp(p).y = Lesser(Larger(p.y, Top + Radius), Bottom - Radius)
  BY DEF Clamp, Point
<1>2. Top + Radius <= Bottom - Radius
  BY GeometryAssumption
<1> QED  BY <1>1, <1>2, ConstantsType DEF InRink, Lesser, Larger

LEMMA FirePointIs ==
  ASSUME TypeOK, NEW preference \in Fires, NEW p \in getFirePoints(preference)
  PROVE  /\ InRink(p)
         /\ goalies[opponent] # {} =>
              /\ IF IsUpper(preference) THEN p.y <= NetTop ELSE p.y >= NetBottom
              /\ IF me = "left" THEN p.x <= Right - Radius ELSE p.x >= Left + Radius
<1>1. CASE goalies[opponent] = {}
  BY <1>1, UnitsType DEF getFirePoints
<1>2. CASE goalies[opponent] # {}
  <2>1. fillFirePositions(preference) # {}
    BY <1>2, FireLineExists
  <2>2. PICK q \in First(fillFirePositions(preference), Penalty, Penalty) : p = Clamp(q)
    BY <1>2, <2>1 DEF getFirePoints
  <2>3. q \in fillFirePositions(preference)
    BY <2>2 DEF First
  <2>4. /\ InRink(q)
        /\ IF IsUpper(preference) THEN q.y <= NetTop ELSE q.y >= NetBottom
        /\ IF me = "left" THEN q.x <= Right - Radius ELSE q.x >= Left + Radius
    BY <1>2, <2>3, FireLinePoint
  <2>5. q.y \in Int /\ q.x \in Left..Right
    BY <2>4, ConstantsType DEF InRink
  <2> QED  BY <2>2, <2>4, <2>5, ClampIs
<1> QED  BY <1>1, <1>2

\* When the ghost is near the fire point and the hockeyist not far above or below
\* it, the corner that is aimed at is the one the fire point was made for.
LEMMA SameCorner ==
  ASSUME TypeOK, goalies[opponent] # {}, NEW preference \in Fires,
         NEW p \in getFirePoints(preference), NEW g, g.x \in Int, g.y \in Int,
         SquareTo(g, p) < 4 * Radius * Radius,
         Abs(g.y - self.y) <= Half(NetHeight) - 2 * Radius
  PROVE  getNet(opponent, self, "eUNKNOWN") = getNet(opponent, self, preference)
<1>1. InRink(p) /\ self.x \in Int /\ self.y \in Int
  BY FirePointIs, UnitsType
<1>2. p.x \in Int /\ p.y \in Int
  BY <1>1, ConstantsType DEF InRink
<1>3. (p.x - g.x) * (p.x - g.x) + (p.y - g.y) * (p.y - g.y) < 4 * Radius * Radius
  BY DEF SquareTo, Dot, Vector, Point
<1>4. p.x - g.x \in Int /\ p.y - g.y \in Int /\ g.y - self.y \in Int
  BY <1>1, <1>2
<1>5. p.y - g.y < 2 * Radius /\ -(p.y - g.y) < 2 * Radius
  BY <1>3, <1>4, ConstantsType, Nearer
<1>9. /\ g.y - self.y <= Half(NetHeight) - 2 * Radius
      /\ -(g.y - self.y) <= Half(NetHeight) - 2 * Radius
  BY <1>4, AbsIs, ConstantsType
<1>10. p.y - self.y < Half(NetHeight) /\ -(p.y - self.y) < Half(NetHeight)
  BY <1>1, <1>2, <1>5, <1>9, ConstantsType
<1>6. IF IsUpper(preference) THEN p.y <= NetTop ELSE p.y >= NetBottom
  BY FirePointIs
<1>7. self.y < CentreY <=> IsUpper(preference)
  <2>2. CASE IsUpper(preference)
    BY <1>1, <1>2, <1>10, <1>6, <2>2, NetIs, ConstantsType
  <2>3. CASE ~IsUpper(preference)
    BY <1>1, <1>2, <1>10, <1>6, <2>3, NetIs, ConstantsType
  <2> QED  BY <2>2, <2>3
<1>8. (NetBottom + NetTop) \div 2 = CentreY
  BY NetIs DEF CentreY
<1> QED  BY <1>7, <1>8 DEF getNet, IsUpper

-----------------------------------------------------------------------------
(* The first defender.                                                     *)

LEMMA DefenceLineIs ==
  ASSUME TypeOK
  PROVE  \E goal :
           /\ goal.x = IF me = "left" THEN Left - Half(NetDepth) ELSE Right + Half(NetDepth)
           /\ goal.y = IF attacker.y < CentreY THEN NetBottom ELSE NetTop
           /\ DefenceLine
                = Line(goal, IF me = "left" THEN 1 ELSE -1,
                       IF attacker.y < CentreY THEN -1 ELSE 1,
                       IF goalies[me] = {} THEN 2 * Radius ELSE 4 * Radius)
<1> DEFINE goal == getNet(me, attacker, "eUNKNOWN")
<1>1. me \in Players /\ attacker.y \in Int
  BY UnitsType DEF TypeOK
<1>2. /\ goal.x = IF me = "left" THEN Left - Half(NetDepth) ELSE Right + Half(NetDepth)
      /\ goal.y = IF attacker.y < CentreY THEN NetBottom ELSE NetTop
  BY <1>1, GetNetIs
<1>3. DefenceLine
        = Line(goal, IF NetFront(me) > NetFront(opponent) THEN -1 ELSE 1,
               IF attacker.y > goal.y THEN 1 ELSE -1,
               IF goalies[me] = {} THEN 2 * Radius ELSE 4 * Radius)
  BY DEF DefenceLine
<1> HIDE DEF goal
<1>4. attacker.y > goal.y <=> ~(attacker.y < CentreY)
  <2>1. NetTop < CentreY /\ CentreY < NetBottom
    BY NetIs, ConstantsType, SizesAssumption
  <2> QED  BY <1>1, <1>2, <2>1, NetIs
<1>5. /\ (IF NetFront(me) > NetFront(opponent) THEN -1 ELSE 1) = (IF me = "left" THEN 1 ELSE -1)
      /\ (IF attacker.y > goal.y THEN 1 ELSE -1) = (IF attacker.y < CentreY THEN -1 ELSE 1)
  BY <1>1, <1>4, DirectionIs, OpponentIs
<1> QED  BY <1>2, <1>3, <1>5

LEMMA SignOfProduct ==
  ASSUME NEW m \in Int, NEW n \in Int, (m > 0 /\ n > 0) \/ (m < 0 /\ n < 0)
  PROVE  m * n > 0
  OBVIOUS

\* A point to defend from lies on the rink, and with a goalie in the half of
\* the net where the attacker is.
LEMMA DefencePoint ==
  ASSUME TypeOK, NEW p \in DefenceLine
  PROVE  /\ InRink(p)
         /\ goalies[me] # {} /\ attacker.y # CentreY =>
              (p.y - CentreY) * (attacker.y - CentreY) > 0
<1>1. PICK goal :
           /\ goal.x = IF me = "left" THEN Left - Half(NetDepth) ELSE Right + Half(NetDepth)
           /\ goal.y = IF attacker.y < CentreY THEN NetBottom ELSE NetTop
           /\ DefenceLine
                = Line(goal, IF me = "left" THEN 1 ELSE -1,
                       IF attacker.y < CentreY THEN -1 ELSE 1,
                       IF goalies[me] = {} THEN 2 * Radius ELSE 4 * Radius)
  BY DefenceLineIs
<1> DEFINE a == Abs(p.y - goal.y)
           margin == IF goalies[me] = {} THEN 2 * Radius ELSE 4 * Radius
<1>2. /\ p.y \in (Top + Radius)..(Bottom - Radius)
      /\ (p.y - goal.y) * (IF attacker.y < CentreY THEN -1 ELSE 1) >= margin
      /\ p.x = goal.x + a * (IF me = "left" THEN 1 ELSE -1)
  BY <1>1, OnLine
<1>3. goal.x \in Int /\ goal.y \in Int /\ p.y \in Int /\ attacker.y \in Int
  BY <1>1, <1>2, NetIs, ConstantsType, UnitsType
<1>4. a \in Nat /\ a = IF p.y >= goal.y THEN p.y - goal.y ELSE goal.y - p.y
  <2>1. p.y - goal.y \in Int /\ (p.y - goal.y >= 0 <=> p.y >= goal.y)
        /\ -(p.y - goal.y) = goal.y - p.y
    BY <1>3
  <2> QED  BY <2>1, AbsIs
<1>5. /\ margin \in Nat /\ margin >= 2 * Radius
      /\ goalies[me] # {} => margin = 4 * Radius
  BY ConstantsType
<1> HIDE DEF a, margin
<1>6. /\ a >= margin /\ a <= Bottom - Top - 2 * Radius
      /\ IF attacker.y < CentreY THEN p.y <= NetBottom - margin ELSE p.y >= NetTop + margin
  <2>1. CASE attacker.y < CentreY
    <3>1. goal.y = NetBottom /\ goal.y - p.y >= margin
      BY <1>1, <1>2, <1>3, <2>1
    <3> QED  BY <2>1, <3>1, <1>2, <1>3, <1>4, <1>5, NetIs, ConstantsType
  <2>2. CASE ~(attacker.y < CentreY)
    <3>1. goal.y = NetTop /\ p.y - goal.y >= margin
      BY <1>1, <1>2, <1>3, <2>2
    <3> QED  BY <2>2, <3>1, <1>2, <1>3, <1>4, <1>5, NetIs, ConstantsType
  <2> QED  BY <2>1, <2>2
<1>7. p.x \in Left..Right
  <2>1. CASE me = "left"
    <3>1. p.x = Left - Half(NetDepth) + a
      BY <1>1, <1>2, <1>4, <2>1, ConstantsType
    <3> QED  BY <3>1, <1>4, <1>5, <1>6, ConstantsType, SizesAssumption
  <2>2. CASE me # "left"
    <3>1. p.x = Right + Half(NetDepth) - a
      BY <1>1, <1>2, <1>4, <2>2, ConstantsType
    <3> QED  BY <3>1, <1>4, <1>5, <1>6, ConstantsType, SizesAssumption
  <2> QED  BY <2>1, <2>2
<1>8. ASSUME goalies[me] # {}, attacker.y # CentreY
      PROVE  (p.y - CentreY) * (attacker.y - CentreY) > 0
  <2>1. margin > Half(NetHeight)
    BY <1>5, <1>8, ConstantsType, SizesAssumption
  <2>2. \/ p.y - CentreY > 0 /\ attacker.y - CentreY > 0
        \/ p.y - CentreY < 0 /\ attacker.y - CentreY < 0
    BY <1>3, <1>5, <1>6, <1>8, <2>1, NetIs, ConstantsType
  <2>3. p.y - CentreY \in Int /\ attacker.y - CentreY \in Int
    BY <1>3, NetIs
  <2> QED  BY <2>2, <2>3, SignOfProduct
<1> QED  BY <1>2, <1>7, <1>8 DEF InRink

\* The place of a first defender whose attacker is not decided yet.
LEMMA BeforeGoalieIs ==
  ASSUME TypeOK
  PROVE  InRink(BeforeGoalie)
<1> DEFINE x == IF goalies[me] = {} THEN NetFront(me)
                ELSE (CHOOSE g \in goalies[me] : TRUE).x
<1>1. me \in Players /\ goalies[me] \subseteq Goalies[me]
  BY DEF TypeOK
<1>2. CASE me = "left"
  <2>1. x \in Left..(Right - 4 * Radius)
    <3>1. CASE goalies[me] = {}
      <4>1. x = Left
        BY <1>2, <3>1 DEF NetFront
      <4>2. Left <= Right - 4 * Radius
        BY ConstantsType, SizesAssumption, GeometryAssumption
      <4> QED  BY <4>1, <4>2, ConstantsType
    <3>2. CASE goalies[me] # {}
      BY <1>1, <1>2, <3>2, SizesAssumption
    <3> QED  BY <3>1, <3>2
  <2>2. BeforeGoalie = Point(x + 4 * Radius, self.y)
    BY <1>1, <1>2, DirectionIs DEF BeforeGoalie
  <2> HIDE DEF x
  <2> QED  BY <2>1, <2>2, UnitsType, ConstantsType DEF InRink, Point
<1>3. CASE me = "right"
  <2>1. x \in (Left + 4 * Radius)..Right
    <3>1. CASE goalies[me] = {}
      <4>1. x = Right
        BY <1>3, <3>1 DEF NetFront
      <4>2. Left + 4 * Radius <= Right
        BY ConstantsType, SizesAssumption, GeometryAssumption
      <4> QED  BY <4>1, <4>2, ConstantsType
    <3>2. CASE goalies[me] # {}
      BY <1>1, <1>3, <3>2, SizesAssumption
    <3> QED  BY <3>1, <3>2
  <2>2. BeforeGoalie = Point(x - 4 * Radius, self.y)
    BY <1>1, <1>3, DirectionIs DEF BeforeGoalie
  <2> HIDE DEF x
  <2> QED  BY <2>1, <2>2, UnitsType, ConstantsType DEF InRink, Point
<1> QED  BY <1>1, <1>2, <1>3 DEF Players

\* The place at rest.
LEMMA SubstitutionPointIs ==
  ASSUME TypeOK
  PROVE  IsInRange(getSubstitutionPoint) /\ InRink(getSubstitutionPoint)
<1>1. me \in Players /\ InRink(self) /\ self.x \in Int /\ self.y \in Int
  BY UnitsType DEF TypeOK
<1>2. CASE IsInRange(self)
  <2>1. getSubstitutionPoint = At(self)
    BY <1>2 DEF getSubstitutionPoint
  <2> QED  BY <1>1, <1>2, <2>1 DEF IsInRange, InRink, At, Point
<1>3. CASE ~IsInRange(self)
  <2> DEFINE edge == IF mySide = "eLEFT_SIDE" THEN (Right \div 2) - Radius
                     ELSE (Right \div 2) + Radius
             isXInside == IsInRange(Point(self.x, Top))
             x == IF isXInside THEN self.x ELSE edge
             InHalf(n) == IF mySide = "eLEFT_SIDE" THEN n >= Left /\ n < Right \div 2
                          ELSE n >= Right \div 2 /\ n < Right
  <2>1. getSubstitutionPoint = Point(x, Top + Radius)
    BY <1>3 DEF getSubstitutionPoint
  <2>2. Right \div 2 \in Nat /\ 2 * (Right \div 2) = Right
    BY GeometryAssumption
  <2>3. InHalf(edge) /\ edge \in Left..Right
    BY <2>2, ConstantsType, SizesAssumption
  <2>4. isXInside => InHalf(self.x)
    BY DEF IsInRange, Point
  <2>5. InHalf(x) /\ x \in Left..Right
    BY <1>1, <2>3, <2>4 DEF InRink
  <2>6. Top + Radius \in (Top + Radius)..(Bottom - Radius) /\ Top + Radius < Top + SubstitutionHeight
    BY ConstantsType, GeometryAssumption, SizesAssumption
  <2> HIDE DEF x
  <2> QED  BY <2>1, <2>5, <2>6, ConstantsType DEF IsInRange, InRink, Point
<1> QED  BY <1>2, <1>3

-----------------------------------------------------------------------------
(* The inductive invariant: what a call has decided stays right until the  *)
(* world moves, and goalies are known for both players.                    *)

GoaliesInv == goalies \in [Players -> SUBSET (Goalies["left"] \cup Goalies["right"])]

IInv == /\ TypeOK /\ GoaliesInv /\ FiresFromItsSide /\ AimsAtFarCorner
        /\ GuardsAttackersHalf /\ RestsInItsArea

LEMMA PointInt ==
  ASSUME NEW player \in Players, NEW attackerOf, attackerOf.y \in Int, NEW preference
  PROVE  /\ getNet(player, attackerOf, preference).x \in Int
         /\ getNet(player, attackerOf, preference).y \in Int
<1> DEFINE goal == getNet(player, attackerOf, preference)
<1>1. /\ goal.x = IF player = "left" THEN Left - Half(NetDepth) ELSE Right + Half(NetDepth)
      /\ goal.y = NetBottom \/ goal.y = NetTop
  BY GetNetIs
<1>2. Left - Half(NetDepth) \in Int /\ Right + Half(NetDepth) \in Int
  BY ConstantsType
<1> QED  BY <1>1, <1>2, NetIs

LEMMA PairIs ==
  ASSUME NEW S, NEW f \in [1..2 -> S]
  PROVE  f \in Seq(S) /\ Len(f) = 2
<1>1. f \in Seq(S)
  <2>1. \E n \in Nat : f \in [1..n -> S]
    OBVIOUS
  <2> QED  BY <2>1, SeqDef, Zenon
<1>2. DOMAIN f = 1..2
  OBVIOUS
<1> QED  BY <1>1, <1>2

LEMMA Initially == Init => IInv
<1> SUFFICES ASSUME Init PROVE IInv
  OBVIOUS
<1>1. enemies \in Seq(Enemies) /\ Len(enemies) = 2
  <2>1. enemies \in [1..2 -> Enemies]
    BY DEF Init
  <2> QED  BY <2>1, PairIs
<1>2. GoaliesInv /\ \A p \in Players : goalies[p] = {}
  BY DEF Init, GoaliesInv
<1>3. \A p \in Players : goalies[p] \subseteq Goalies[p] /\ Cardinality(goalies[p]) <= 1
  BY <1>2, FS_EmptySet
<1>4. self \in Hockeyists /\ At(self).x = self.x /\ At(self).y = self.y
  BY DEF Init, At, Point
<1>5. InRink(self) /\ self.x \in Int /\ self.y \in Int
  BY <1>4, SizesAssumption, ConstantsType DEF InRink
<1>6. TypeOK
  BY <1>1, <1>3, <1>4, <1>5 DEF Init, TypeOK, Fires, InRink
<1> QED
  BY <1>2, <1>6 DEF Init, IInv, FiresFromItsSide, AimsAtFarCorner, GuardsAttackersHalf,
                    RestsInItsArea

\* A call leaves the units alone.
LEMMA UnmovedIs ==
  ASSUME Unmoved
  PROVE  /\ me' = me /\ self' = self /\ enemies' = enemies /\ goalies' = goalies
         /\ opponent' = opponent /\ attacker' = attacker /\ mySide' = mySide
         /\ IsUndecided' = IsUndecided
  BY DEF Unmoved, opponent, attacker, mySide, IsUndecided, NetFront

LEMMA AttackNetStep ==
  ASSUME IInv, attackNet
  PROVE  IInv'
<1> USE DEF IInv
<1>1. /\ Unmoved /\ call' = "attackNet" /\ UNCHANGED skipped
      /\ target' \in getFirePoints(preferred')
      /\ aim' = getNet(opponent, self, "eUNKNOWN")
      /\ ghost' \in getGhost(self) /\ aiming' = IsNear(target')
  BY DEF attackNet, Chosen
<1>2. preferred' \in Fires
  BY DEF attackNet, choosePreference, TypeOK, Fires
<1>3. opponent \in Players /\ self.y \in Int
  BY UnitsType, OpponentIs DEF TypeOK, Players
<1>4. /\ InRink(target')
      /\ goalies[opponent] # {} =>
           /\ IF IsUpper(preferred') THEN target'.y <= NetTop ELSE target'.y >= NetBottom
           /\ IF me = "left" THEN target'.x <= Right - Radius ELSE target'.x >= Left + Radius
  BY <1>1, <1>2, FirePointIs
<1>5. /\ aim'.x \in Int /\ aim'.y \in Int /\ ghost'.x \in Int /\ ghost'.y \in Int
      /\ aiming' \in BOOLEAN
  <2>1. aim'.x \in Int /\ aim'.y \in Int
    BY <1>1, <1>3, PointInt
  <2>2. PICK d \in Drifts : ghost' = [x |-> self.x + d.x, y |-> self.y + d.y]
    BY <1>1 DEF getGhost, Point
  <2>3. d.x \in Int /\ d.y \in Int /\ self.x \in Int /\ self.y \in Int
    BY SizesAssumption, UnitsType
  <2>4. ghost'.x \in Int /\ ghost'.y \in Int
    BY <2>2, <2>3
  <2> QED  BY <1>1, <2>1, <2>4 DEF IsNear
<1>6. TypeOK' /\ GoaliesInv'
  BY <1>1, <1>2, <1>4, <1>5, UnmovedIs DEF TypeOK, GoaliesInv, InRink
<1>7. FiresFromItsSide'
  <2>1. (preferred' = "eUP" \/ (preferred' = "eUNKNOWN" /\ self.y < CentreY))
          <=> IsUpper(preferred')
    BY DEF IsUpper
  <2> QED  BY <1>1, <1>4, <2>1, UnmovedIs DEF FiresFromItsSide, HasGoalie
<1>8. AimsAtFarCorner'
  <2> SUFFICES ASSUME goalies[opponent] # {}, IsNear(target'),
                      Abs(ghost'.y - self.y) <= Half(NetHeight) - 2 * Radius
               PROVE  aim' = getNet(opponent, self, preferred')
    <3>1. self' = self /\ goalies' = goalies /\ opponent' = opponent
      BY <1>1, UnmovedIs
    <3> QED  BY <1>1, <3>1 DEF AimsAtFarCorner, HasGoalie, Half
  <2>1. SquareTo(ghost', target') < 4 * Radius * Radius
    BY DEF IsNear
  <2> QED  BY <1>1, <1>2, <1>5, <2>1, SameCorner
<1> QED  BY <1>1, <1>6, <1>7, <1>8 DEF GuardsAttackersHalf, RestsInItsArea

LEMMA DefendInitialStep ==
  ASSUME IInv, defendInitial
  PROVE  IInv'
<1> USE DEF IInv
<1> DEFINE positions == fillDefenderPositions
<1>1. /\ Unmoved /\ UNCHANGED <<preferred, aim, ghost, aiming>>
      /\ \/ call' = "takePuck" /\ target' = At(attacker)
         \/ call' = "defendInitial" /\ target' = At(self)
         \/ call' = "defendInitial" /\ target' \in positions
  <2>1. \/ call' = "takePuck" /\ target' = At(attacker)
        \/ call' = "defendInitial" /\ target' = At(self)
        \/ \E p \in First(positions, LowAngle, HighAngle) :
              call' = "defendInitial" /\ target' = p
    BY DEF defendInitial, Chosen
  <2>2. First(positions, LowAngle, HighAngle) \subseteq positions
    BY DEF First
  <2>3. /\ Unmoved /\ UNCHANGED <<preferred, aim, ghost, aiming>>
    BY DEF defendInitial
  <2> QED  BY <2>1, <2>2, <2>3
<1>2. /\ IsUndecided => positions = {BeforeGoalie}
      /\ ~IsUndecided => positions \subseteq DefenceLine
  BY DEF fillDefenderPositions, Secured
<1>3. InRink(target')
  BY <1>1, <1>2, UnitsType, BeforeGoalieIs, DefencePoint
<1>4. TypeOK' /\ GoaliesInv'
  BY <1>1, <1>3, UnmovedIs DEF TypeOK, GoaliesInv, InRink
<1>5. GuardsAttackersHalf'
  <2> SUFFICES ASSUME call' = "defendInitial", ~IsUndecided, goalies[me] # {},
                      target' # At(self)
               PROVE  (target'.y - CentreY) * (attacker.y - CentreY) > 0
    <3>1. /\ self' = self /\ goalies' = goalies /\ me' = me /\ attacker' = attacker
          /\ IsUndecided' = IsUndecided /\ At(self)' = At(self)
      BY <1>1, UnmovedIs
    <3> QED  BY <3>1 DEF GuardsAttackersHalf
  <2>1. attacker.y # CentreY
    <3> SUFFICES ASSUME attacker.y = CentreY PROVE IsUndecided
      OBVIOUS
    <3>1. attacker.y - (Top + Bottom) \div 2 = 0
      BY NetIs
    <3> QED  BY <3>1, AbsIs, SizesAssumption DEF IsUndecided
  <2>2. target' \in DefenceLine
    BY <1>1, <1>2
  <2> QED  BY <2>1, <2>2, DefencePoint
<1>6. AimsAtFarCorner'
  BY <1>1, UnmovedIs DEF AimsAtFarCorner, HasGoalie
<1> QED  BY <1>1, <1>4, <1>5, <1>6 DEF FiresFromItsSide, RestsInItsArea

LEMMA HaveRestStep ==
  ASSUME IInv, haveRest
  PROVE  IInv'
<1> USE DEF IInv
<1>1. /\ Unmoved /\ call' = "haveRest" /\ target' = getSubstitutionPoint
      /\ UNCHANGED <<preferred, aim, ghost, aiming, skipped>>
  BY DEF haveRest, Chosen
<1>2. IsInRange(target') /\ InRink(target')
  BY <1>1, SubstitutionPointIs
<1>3. TypeOK' /\ GoaliesInv'
  BY <1>1, <1>2, UnmovedIs DEF TypeOK, GoaliesInv, InRink
<1>4. RestsInItsArea'
  BY <1>1, <1>2, UnmovedIs DEF RestsInItsArea, IsInRange
<1>5. AimsAtFarCorner'
  BY <1>1, UnmovedIs DEF AimsAtFarCorner, HasGoalie
<1> QED  BY <1>1, <1>3, <1>4, <1>5 DEF FiresFromItsSide, GuardsAttackersHalf

LEMMA WorldStep ==
  ASSUME IInv, World
  PROVE  IInv'
<1> USE DEF IInv
<1>1. /\ me' = me /\ preferred' \in Fires /\ call' = "none" /\ aiming' = FALSE
      /\ target' = At(self') /\ aim' = At(self') /\ ghost' = At(self')
  BY DEF World, TypeOK, Fires
<1>2. self' \in Hockeyists
  BY DEF World, TypeOK
<1>3. enemies' \in Seq(Enemies) /\ Len(enemies') = 2
  <2>1. enemies \in Seq(Enemies) /\ Len(enemies) = 2
    BY DEF TypeOK
  <2>2. \/ enemies' = enemies
        \/ \E i \in DOMAIN enemies, u \in Enemies : enemies' = [enemies EXCEPT ![i] = u]
    BY DEF World
  <2>3. \A i \in DOMAIN enemies, u \in Enemies :
           /\ [enemies EXCEPT ![i] = u] \in Seq(Enemies)
           /\ Len([enemies EXCEPT ![i] = u]) = 2
    BY <2>1, ExceptSeq
  <2> QED  BY <2>1, <2>2, <2>3
<1>4. /\ GoaliesInv'
      /\ \A p \in Players : goalies'[p] \subseteq Goalies[p] /\ Cardinality(goalies'[p]) <= 1
  <2>1. CASE goalies' = goalies
    BY <2>1 DEF TypeOK, GoaliesInv
  <2>2. CASE goalies' # goalies
    <3>1. PICK p \in Players : \E g \in {{}} \cup {{v} : v \in Goalies[p]} :
             goalies' = [goalies EXCEPT ![p] = g]
      BY <2>2 DEF World
    <3>2. PICK g \in {{}} \cup {{v} : v \in Goalies[p]} :
             goalies' = [goalies EXCEPT ![p] = g]
      BY <3>1
    <3>3. g \subseteq Goalies[p] /\ Cardinality(g) <= 1
      <4>1. CASE g = {}
        BY <4>1, FS_EmptySet
      <4>2. CASE g # {}
        <5>1. PICK v \in Goalies[p] : g = {v}
          BY <3>2, <4>2
        <5>2. Cardinality({v}) = 1
          BY FS_Singleton
        <5> QED  BY <5>1, <5>2
      <4> QED  BY <4>1, <4>2
    <3>4. p = "left" \/ p = "right"
      BY DEF Players
    <3>5. g \in SUBSET (Goalies["left"] \cup Goalies["right"])
      BY <3>3, <3>4
    <3> QED  BY <3>2, <3>3, <3>5 DEF TypeOK, GoaliesInv
  <2> QED  BY <2>1, <2>2
<1>5. InRink(self') /\ At(self').x = self'.x /\ At(self').y = self'.y
  BY <1>2, SizesAssumption DEF InRink, At, Point
<1>6. self'.x \in Int /\ self'.y \in Int
  BY <1>5, ConstantsType DEF InRink
<1>7. TypeOK'
  BY <1>1, <1>2, <1>3, <1>4, <1>5, <1>6 DEF TypeOK, InRink
<1> QED
  BY <1>1, <1>4, <1>7 DEF FiresFromItsSide, AimsAtFarCorner, GuardsAttackersHalf, RestsInItsArea

LEMMA Step == IInv /\ [Next]_vars => IInv'
<1> SUFFICES ASSUME IInv, [Next]_vars PROVE IInv'
  OBVIOUS
<1>1. CASE UNCHANGED vars
  <2>1. /\ me' = me /\ self' = self /\ enemies' = enemies /\ goalies' = goalies
        /\ preferred' = preferred /\ call' = call /\ target' = target /\ aim' = aim
        /\ ghost' = ghost /\ aiming' = aiming
    BY <1>1 DEF vars
  <2>2. Unmoved
    BY <2>1 DEF Unmoved
  <2>3. TypeOK' /\ GoaliesInv'
    BY <2>1 DEF IInv, TypeOK, GoaliesInv
  <2>4. FiresFromItsSide' /\ AimsAtFarCorner'
    BY <2>1, <2>2, UnmovedIs DEF IInv, FiresFromItsSide, AimsAtFarCorner, HasGoalie
  <2>5. GuardsAttackersHalf' /\ RestsInItsArea'
    BY <2>1, <2>2, UnmovedIs DEF IInv, GuardsAttackersHalf, RestsInItsArea, IsInRange
  <2> QED  BY <2>3, <2>4, <2>5 DEF IInv
<1> QED
  BY <1>1, AttackNetStep, DefendInitialStep, HaveRestStep, WorldStep DEF Next

LEMMA Invariance == Spec => []IInv
BY Initially, Step, PTL DEF Spec

\* Wherever the units are, a hockeyist is only ever sent to a point of the rink
\* that keeps its radius from the edges above and below.
THEOREM TypeCorrect == Spec => []TypeOK
BY Invariance, PTL DEF IInv

\* Against a goalie it fires from beyond the near post, in front of the net, on
\* the preferred side or else on its own.
THEOREM FireSide == Spec => []FiresFromItsSide
BY Invariance, PTL DEF IInv

\* When it aims, it aims at the corner that the fire point was computed for,
\* unless it is fast enough to cross the middle of the rink in the meantime.
THEOREM FarCorner == Spec => []AimsAtFarCorner
BY Invariance, PTL DEF IInv

\* The first defender guards the half of the net where the attacker is.
THEOREM Guards == Spec => []GuardsAttackersHalf
BY Invariance, PTL DEF IInv

\* A hockeyist rests in the substitution area of its own half.
THEOREM Rests == Spec => []RestsInItsArea
BY Invariance, PTL DEF IInv

-----------------------------------------------------------------------------
(* The preferred half.                                                     *)

\* The distances of one place from the two quarters differ by no more than the
\* quarters do.
LEMMA QuartersApart ==
  ASSUME NEW y \in Int
  PROVE  /\ upQuater \in Int /\ downQuater \in Int
         /\ 2 * (downQuater - upQuater) = Bottom - Top
         /\ Abs(upQuater - y) \in Nat /\ Abs(downQuater - y) \in Nat
         /\ Abs(upQuater - y) - Abs(downQuater - y) <= downQuater - upQuater
         /\ Abs(downQuater - y) - Abs(upQuater - y) <= downQuater - upQuater
<1>1. upQuater \in Int /\ downQuater \in Int /\ 2 * (downQuater - upQuater) = Bottom - Top
  BY GeometryAssumption DEF upQuater, downQuater
<1>2. downQuater >= upQuater
  BY <1>1, GeometryAssumption
<1>3. /\ Abs(upQuater - y) \in Nat
      /\ Abs(upQuater - y) = IF upQuater - y >= 0 THEN upQuater - y ELSE -(upQuater - y)
  BY <1>1, AbsIs
<1>4. /\ Abs(downQuater - y) \in Nat
      /\ Abs(downQuater - y) = IF downQuater - y >= 0 THEN downQuater - y ELSE -(downQuater - y)
  BY <1>1, AbsIs
<1> QED  BY <1>1, <1>2, <1>3, <1>4

LEMMA EnemyScoreIs ==
  ASSUME TypeOK
  PROVE  EnemyScore(upQuater) \in Int /\ EnemyScore(downQuater) \in Int
<1>1. enemies[1] \in Enemies /\ enemies[2] \in Enemies
  <2>1. enemies \in Seq(Enemies) /\ 1 \in 1..Len(enemies) /\ 2 \in 1..Len(enemies)
    BY DEF TypeOK
  <2> QED  BY <2>1, ElementOfSeq
<1>2. enemies[1].y \in Int /\ enemies[2].y \in Int
  BY <1>1, SizesAssumption, ConstantsType
<1> QED  BY <1>2, QuartersApart DEF EnemyScore

LEMMA PreferenceStep ==
  ASSUME IInv, attackNet, preferred' # preferred
  PROVE  /\ preferred' = "eUP" => EnemyScore(upQuater) > EnemyScore(downQuater)
         /\ preferred' = "eDOWN" => EnemyScore(downQuater) > EnemyScore(upQuater)
<1> DEFINE up == Score(upQuater)
           down == Score(downQuater)
<1>1. /\ 3 * Abs(up - down) > 2 * (Bottom - Top)
      /\ preferred' = IF up < down THEN "eDOWN" ELSE "eUP"
  BY DEF attackNet, choosePreference
<1>2. self.y \in Int /\ EnemyScore(upQuater) \in Int /\ EnemyScore(downQuater) \in Int
  BY UnitsType, EnemyScoreIs DEF IInv
<1>3. /\ up = EnemyScore(upQuater) - Abs(upQuater - self.y)
      /\ down = EnemyScore(downQuater) - Abs(downQuater - self.y)
  BY DEF Score
<1> HIDE DEF up, down
<1>4. /\ Abs(upQuater - self.y) \in Nat /\ Abs(downQuater - self.y) \in Nat
      /\ 2 * (Abs(upQuater - self.y) - Abs(downQuater - self.y)) <= Bottom - Top
      /\ 2 * (Abs(downQuater - self.y) - Abs(upQuater - self.y)) <= Bottom - Top
  <2>1. /\ upQuater \in Int /\ downQuater \in Int
        /\ 2 * (downQuater - upQuater) = Bottom - Top
        /\ Abs(upQuater - self.y) \in Nat /\ Abs(downQuater - self.y) \in Nat
        /\ Abs(upQuater - self.y) - Abs(downQuater - self.y) <= downQuater - upQuater
        /\ Abs(downQuater - self.y) - Abs(upQuater - self.y) <= downQuater - upQuater
    BY <1>2, QuartersApart
  <2> QED  BY <2>1, ConstantsType
<1>5. up \in Int /\ down \in Int /\ Bottom - Top \in Nat
  BY <1>2, <1>3, <1>4, GeometryAssumption
<1>6. Abs(up - down) = IF up - down >= 0 THEN up - down ELSE -(up - down)
  BY <1>5, AbsIs
<1>7. CASE up < down
  <2>1. 3 * (down - up) > 2 * (Bottom - Top)
    BY <1>1, <1>5, <1>6, <1>7
  <2>2. EnemyScore(downQuater) > EnemyScore(upQuater)
    BY <2>1, <1>2, <1>3, <1>4, <1>5
  <2> QED  BY <1>1, <1>7, <2>2
<1>8. CASE ~(up < down)
  <2>1. 3 * (up - down) > 2 * (Bottom - Top)
    BY <1>1, <1>5, <1>6, <1>8
  <2>2. EnemyScore(upQuater) > EnemyScore(downQuater)
    BY <2>1, <1>2, <1>3, <1>4, <1>5
  <2> QED  BY <1>1, <1>8, <2>2
<1> QED  BY <1>7, <1>8

PreferenceRule ==
  /\ preferred' = "eUP" /\ preferred # "eUP" =>
       EnemyScore(upQuater) > EnemyScore(downQuater)
  /\ preferred' = "eDOWN" /\ preferred # "eDOWN" =>
       EnemyScore(downQuater) > EnemyScore(upQuater)

\* A half is preferred only if the enemies are really nearer to the other one:
\* the hockeyist's own place never turns the comparison.
THEOREM Preferred == Spec => FewerEnemiesThere
<1>1. IInv /\ [Next]_vars => [PreferenceRule]_vars
  <2> SUFFICES ASSUME IInv, Next PROVE PreferenceRule
    OBVIOUS
  <2>1. CASE attackNet
    BY <2>1, PreferenceStep DEF PreferenceRule
  <2>2. CASE ~attackNet
    <3>1. preferred' = preferred \/ preferred' = "eUNKNOWN"
      BY <2>2 DEF Next, defendInitial, haveRest, World
    <3> QED  BY <3>1 DEF PreferenceRule
  <2> QED  BY <2>1, <2>2
<1>2. Spec => [][PreferenceRule]_vars
  BY <1>1, Invariance, PTL DEF Spec
<1> QED  BY <1>2 DEF FewerEnemiesThere, PreferenceRule
=============================================================================
