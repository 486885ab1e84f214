----------------------------- MODULE AttackPuck ------------------------------
(***************************************************************************)
(* One hockeyist that plays attackPuck() and defendTeammate(): whom it     *)
(* hits, and the swing that goes on from one tick to the next, which       *)
(* attackPuck() remembers in a static set and defendTeammate() reads off   *)
(* the state of the hockeyist.                                             *)
(*                                                                         *)
(* Each tick the strategy orders one action, from one of the two or from   *)
(* another routine; then the server carries it out or not, moves the units *)
(* and decides who has the puck.                                           *)
(***************************************************************************)
EXTENDS Geometry, Sequences

CONSTANTS
  Radius, StickLength,
  PuckReach,            (* how far before its owner the puck is            *)
  SafeSlope,            (* the tangent of kSAFE_ANGLE                      *)
  AimSlope,             (* of kDANGEROUS_ANGLE - getStrikeAngleDeviation() *)
  Selves, Mates, Foes   (* the units tried                                 *)

ASSUME LengthsAssumption ==
  Radius \in Nat \ {0} /\ StickLength \in Nat /\ PuckReach \in Nat

ASSUME SlopesAssumption == {SafeSlope, AimSlope} \subseteq (Nat \ {0}) \X (Nat \ {0})

VARIABLES
  self, mate,           (* m_self and a teammate                           *)
  foes,                 (* the opponent's hockeyists, by id                *)
  down,                 (* the foes that are RESTING or KNOCKED_DOWN       *)
  ownerId,              (* of the puck                                     *)
  state,                (* m_self->getState()                              *)
  swingingOnEnemySet,   (* the static set of attackPuck()                  *)
  turn,                 (* whose turn it is                                *)
  routine, action       (* the last order and who gave it                  *)

units == <<self, mate, foes, down>>
vars == <<units, ownerId, state, swingingOnEnemySet, turn, routine, action>>

attackerId == 0
Nobody     == -1
mateId     == -2

Owners  == DOMAIN foes \cup {Nobody, attackerId, mateId}
Routines == {"attackPuck", "defendTeammate", "other"}
Actions == {"NONE", "TAKE_PUCK", "SWING", "STRIKE", "CANCEL_STRIKE"}
States  == {"ACTIVE", "SWINGING"}

-----------------------------------------------------------------------------
(* attackPuck().                                                           *)

puckOwner == IF ownerId = mateId THEN mate ELSE foes[ownerId]
puck      == Point(puckOwner.x + PuckReach * puckOwner.to.x,
                   puckOwner.y + PuckReach * puckOwner.to.y)

Order(by, what) == /\ routine' = by
                   /\ action' = what

\* The order that stands when nobody can be hit.
DefaultAction == IF state = "SWINGING" THEN "CANCEL_STRIKE" ELSE "TAKE_PUCK"

\* Both searches go over all hockeyists, the attacker and the owner included.
StandsBetween(u)  == isInBetween(At(self), u, puckOwner, Radius)
teammateBetween   == \E u \in {self, mate} : StandsBetween(u)
enemyBetween      == \E i \in DOMAIN foes : StandsBetween(foes[i])

CanHit ==
  /\ teammateBetween => enemyBetween
  /\ SquareTo(self, puck) > StickLength * StickLength
  /\ SquareTo(self, At(puckOwner)) < StickLength * StickLength
  /\ SectorMargin(self, At(puckOwner)) > 0

\* Mutant: the id of the other hockeyist is remembered.
MUT_hit(ownerSwings) ==
  IF attackerId \in swingingOnEnemySet \/ ownerSwings
  THEN /\ swingingOnEnemySet' = swingingOnEnemySet \ {attackerId}
       /\ Order("attackPuck", "STRIKE")
  ELSE /\ swingingOnEnemySet' = swingingOnEnemySet \cup {ownerId}
       /\ Order("attackPuck", "SWING")

\* Mutant: a swing is not remembered.
MUT_forgetSwing(ownerSwings) ==
  IF attackerId \in swingingOnEnemySet \/ ownerSwings
  THEN /\ swingingOnEnemySet' = swingingOnEnemySet \ {attackerId}
       /\ Order("attackPuck", "STRIKE")
  ELSE /\ UNCHANGED swingingOnEnemySet
       /\ Order("attackPuck", "SWING")

\* The first time a swing, the next time, or at once if the owner swings, a
\* strike.
hit(ownerSwings) ==
  IF attackerId \in swingingOnEnemySet \/ ownerSwings
  THEN /\ swingingOnEnemySet' = swingingOnEnemySet \ {attackerId}
       /\ Order("attackPuck", "STRIKE")
  ELSE /\ swingingOnEnemySet' = swingingOnEnemySet \cup {attackerId}
       /\ Order("attackPuck", "SWING")

attackPuck ==
  /\ turn = "strategy" /\ turn' = "server"
  /\ ownerId \notin {attackerId, mateId}
  /\ \/ /\ ownerId = Nobody
        /\ Order("attackPuck", DefaultAction) /\ UNCHANGED swingingOnEnemySet
     \/ /\ ownerId # Nobody /\ CanHit
        /\ \E ownerSwings \in BOOLEAN : hit(ownerSwings)
     \/ /\ ownerId # Nobody /\ ~CanHit
        /\ Order("attackPuck", DefaultAction)
        /\ swingingOnEnemySet' = swingingOnEnemySet \ {attackerId}
  /\ UNCHANGED <<units, ownerId, state>>

-----------------------------------------------------------------------------
(* defendTeammate().                                                       *)

Fighters == DOMAIN foes \ down
vip      == mate
InReach(u, p) == SquareTo(u, p) < StickLength * StickLength

\* getGhost(): where m_self is, turned to the foe.
TurnedTo(foe) == [self EXCEPT !.to = Vector(self, At(foe))]

\* A blow at the foe would not touch the puck or its owner.  Both angles have
\* their sign: on the left of the blow nothing is safe.
IsSafe(foe) ==
  InReach(self, At(foe)) =>
    \A p \in {puck, At(vip)} : ~AngleBelow(TurnedTo(foe), p, SafeSlope)

\* The first of the nearest.
Nearest(ids) ==
  CHOOSE i \in ids : \A j \in ids :
    LET di == SquareTo(self, At(foes[i]))
        dj == SquareTo(self, At(foes[j]))
    IN  di < dj \/ (di = dj /\ i <= j)

nearest ==
  LET safe == {i \in Fighters : IsSafe(foes[i])}
  IN  foes[Nearest(IF safe # {} THEN safe ELSE Fighters)]

isCanStrike(cooledDown) ==
  /\ InReach(self, At(nearest)) /\ cooledDown
  /\ AngleBelow(self, At(nearest), StickSlope)

\* With the puck or its owner in reach, one of them is in the stick's sector.
EndangersVip ==
  LET ghost == TurnedTo(nearest)
  IN  /\ \E p \in {puck, At(vip)} : SquareTo(ghost, p) <= StickLength * StickLength
      /\ \E p \in {puck, At(vip)} : AngleWithin(ghost, p, StickSlope)

Blow(cooledDown) ==
  IF state = "SWINGING"
  THEN IF isCanStrike(cooledDown) THEN "STRIKE" ELSE "CANCEL_STRIKE"
  ELSE IF isCanStrike(cooledDown) /\ ~EndangersVip /\ AngleWithin(self, At(nearest), AimSlope)
       THEN "SWING" ELSE "NONE"

\* With nobody to fight it goes to the net, and whoever swings swings on.
defendTeammate ==
  /\ turn = "strategy" /\ turn' = "server"
  /\ ownerId = mateId
  /\ \/ Fighters = {} /\ Order("defendTeammate", "NONE")
     \/ /\ Fighters # {}
        /\ \E cooledDown \in BOOLEAN : Order("defendTeammate", Blow(cooledDown))
  /\ UNCHANGED <<units, ownerId, state, swingingOnEnemySet>>

-----------------------------------------------------------------------------
\* Any other routine of the strategy: it knows nothing of the set.
OtherRoutine ==
  /\ turn = "strategy" /\ turn' = "server"
  /\ \E what \in Actions : Order("other", what)
  /\ UNCHANGED <<units, ownerId, state, swingingOnEnemySet>>

-----------------------------------------------------------------------------
(* The server.                                                             *)

\* A swing lasts until it is struck or cancelled, or is lost.
MaySwing == action = "SWING" \/ (state = "SWINGING" /\ action \notin {"STRIKE", "CANCEL_STRIKE"})

Apart(us) == \A i, j \in DOMAIN us : i # j => At(us[i]) # At(us[j])

Server ==
  /\ turn = "server" /\ turn' = "strategy"
  /\ state' \in {"ACTIVE"} \cup (IF MaySwing THEN {"SWINGING"} ELSE {})
  /\ \/ self' \in Selves /\ UNCHANGED <<mate, foes, down>>
     \/ mate' \in Mates /\ UNCHANGED <<self, foes, down>>
     \/ /\ \E i \in DOMAIN foes, u \in Foes : foes' = [foes EXCEPT ![i] = u]
        /\ UNCHANGED <<self, mate, down>>
     \/ down' \in SUBSET DOMAIN foes /\ UNCHANGED <<self, mate, foes>>
  /\ Apart(<<self', mate'>> \o foes')
  /\ ownerId' \in Owners
  /\ UNCHANGED <<swingingOnEnemySet, routine, action>>

Init ==
  /\ self \in Selves /\ mate \in Mates /\ foes \in [1..2 -> Foes]
  /\ Apart(<<self, mate>> \o foes)
  /\ down = {}
  /\ ownerId = Nobody
  /\ state = "ACTIVE"
  /\ swingingOnEnemySet = {}
  /\ turn = "strategy" /\ routine = "other" /\ action = "NONE"

Next == attackPuck \/ defendTeammate \/ OtherRoutine \/ Server

Spec == Init /\ [][Next]_vars

-----------------------------------------------------------------------------
(* Properties.                                                             *)

\* Type correctness; the set holds nothing but the id of the attacker.
TypeOK ==
  /\ self \in Selves /\ mate \in Mates /\ foes \in [1..2 -> Foes]
  /\ down \subseteq DOMAIN foes
  /\ ownerId \in Owners /\ state \in States
  /\ swingingOnEnemySet \subseteq {attackerId}
  /\ turn \in {"strategy", "server"} /\ routine \in Routines
  /\ action \in Actions

\* A swing that attackPuck() ordered is struck or cancelled by its next call if
\* the hockeyist still swings, wherever everybody went and whoever has the puck:
\* it never swings on, its puck out of reach.  defendTeammate(), which does not
\* know the set, ends a swing of either, unless nobody is left to fight.
SwingIsEnded ==
  [][(/\ turn = "strategy" /\ state = "SWINGING" /\ action = "SWING"
      /\ turn' = "server"
      /\ \/ routine = "attackPuck" /\ routine' = "attackPuck"
         \/ routine # "other" /\ routine' = "defendTeammate" /\ Fighters # {})
     => action' \in {"STRIKE", "CANCEL_STRIKE"}]_vars

\* On the segment from the owner to the attacker, less than gap beside it.
OnTheWay(u) ==
  LET v == Vector(puckOwner, At(self))
      w == Vector(puckOwner, At(u))
  IN  /\ Dot(v, w) > 0 /\ Dot(v, w) < Dot(v, v)
      /\ Cross(v, w) * Cross(v, w) < Radius * Radius * Dot(v, v)

\* "feel free to punch him if there is no teammate in between", but "don't
\* miss a chance to hit two enemies".
HitsNoTeammate ==
  turn = "server" /\ routine = "attackPuck" /\ action \in {"SWING", "STRIKE"} =>
    ~OnTheWay(mate) \/ \E i \in DOMAIN foes \ {ownerId} : OnTheWay(foes[i])
=============================================================================
