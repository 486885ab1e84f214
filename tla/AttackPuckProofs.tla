-------------------------- MODULE AttackPuckProofs ---------------------------
(***************************************************************************)
(* The swings of attackPuck() and defendTeammate() for units anywhere and  *)
(* lengths of any size: where the hockeyists are decides only which branch *)
(* is taken.                                                               *)
(***************************************************************************)
EXTENDS AttackPuck, TLAPS

\* The last order was a swing of attackPuck() only if the set says so.
Remembered ==
  routine = "attackPuck" /\ action = "SWING" => attackerId \in swingingOnEnemySet

IInv == TypeOK /\ Remembered

LEMMA Initially == Init => IInv
BY DEF Init, IInv, TypeOK, Remembered, Owners, States, Actions, Routines, Nobody

LEMMA DefaultOrder ==
  /\ DefaultAction \in Actions /\ DefaultAction # "SWING"
  /\ state = "SWINGING" => DefaultAction = "CANCEL_STRIKE"
BY DEF DefaultAction, Actions

LEMMA AttackPuckStep ==
  ASSUME IInv, attackPuck
  PROVE  IInv'
<1>1. /\ routine' = "attackPuck" /\ turn' = "server"
      /\ UNCHANGED <<self, mate, foes, down, ownerId, state>>
  BY DEF attackPuck, hit, Order, units
<1>2. action' \in Actions /\ swingingOnEnemySet' \subseteq {attackerId}
  BY DefaultOrder DEF attackPuck, hit, Order, IInv, TypeOK, Actions
<1>3. TypeOK'
  BY <1>1, <1>2 DEF IInv, TypeOK, Owners, Actions, States, Routines
<1>4. Remembered'
  BY DefaultOrder DEF attackPuck, hit, Order, Remembered
<1> QED  BY <1>3, <1>4 DEF IInv

LEMMA BlowOrder ==
  ASSUME NEW ready \in BOOLEAN
  PROVE  /\ Blow(ready) \in Actions
         /\ state = "SWINGING" => Blow(ready) \in {"STRIKE", "CANCEL_STRIKE"}
BY DEF Blow, Actions

LEMMA DefendTeammateStep ==
  ASSUME IInv, defendTeammate
  PROVE  IInv'
<1>1. /\ routine' = "defendTeammate" /\ turn' = "server"
      /\ UNCHANGED <<self, mate, foes, down, ownerId, state, swingingOnEnemySet>>
  BY DEF defendTeammate, Order, units
<1>2. action' \in Actions
  BY BlowOrder DEF defendTeammate, Order, Actions
<1> QED
  BY <1>1, <1>2 DEF IInv, TypeOK, Remembered, Owners, Actions, States, Routines

LEMMA ServerStep ==
  ASSUME IInv, Server
  PROVE  IInv'
<1>1. /\ self' \in Selves /\ mate' \in Mates
      /\ foes' \in [1..2 -> Foes]
  BY DEF Server, IInv, TypeOK
<1>2. ownerId' \in Owners' /\ down' \subseteq DOMAIN foes'
  BY <1>1 DEF Server, Owners, IInv, TypeOK
<1>3. /\ state' \in States /\ turn' = "strategy"
      /\ UNCHANGED <<swingingOnEnemySet, routine, action>>
  BY DEF Server, States
<1> QED  BY <1>1, <1>2, <1>3 DEF IInv, TypeOK, Remembered

LEMMA Step == IInv /\ [Next]_vars => IInv'
<1> SUFFICES ASSUME IInv, [Next]_vars PROVE IInv'
  OBVIOUS
<1>1. CASE attackPuck
  BY <1>1, AttackPuckStep
<1>2. CASE OtherRoutine
  BY <1>2 DEF OtherRoutine, Order, units, IInv, TypeOK, Remembered, Owners, Routines
<1>3. CASE Server
  BY <1>3, ServerStep
<1>4. CASE defendTeammate
  BY <1>4, DefendTeammateStep
<1>5. CASE UNCHANGED vars
  BY <1>5 DEF vars, units, IInv, TypeOK, Remembered, Owners
<1> QED  BY <1>1, <1>2, <1>3, <1>4, <1>5 DEF Next

LEMMA Invariance == Spec => []IInv
BY Initially, Step, PTL DEF Spec

\* The set never holds anything but the id of the hockeyist itself.
THEOREM TypeCorrect == Spec => []TypeOK
BY Invariance, PTL DEF IInv

SwingStep ==
  (/\ turn = "strategy" /\ state = "SWINGING" /\ action = "SWING"
   /\ turn' = "server"
   /\ \/ routine = "attackPuck" /\ routine' = "attackPuck"
      \/ routine # "other" /\ routine' = "defendTeammate" /\ Fighters # {})
  => action' \in {"STRIKE", "CANCEL_STRIKE"}

\* A swing of attackPuck() does not go on over a second call of it, and one of
\* either routine not over a call of defendTeammate() with somebody to fight.
THEOREM SwingEnds == Spec => SwingIsEnded
<1>1. IInv /\ [Next]_vars => [SwingStep]_vars
  <2> SUFFICES ASSUME IInv, Next, turn = "strategy", state = "SWINGING",
                      action = "SWING", turn' = "server",
                      \/ routine = "attackPuck" /\ routine' = "attackPuck"
                      \/ routine' = "defendTeammate" /\ Fighters # {}
               PROVE  action' \in {"STRIKE", "CANCEL_STRIKE"}
    BY DEF SwingStep
  <2>1. CASE routine = "attackPuck" /\ routine' = "attackPuck"
    <3>1. attackPuck
      BY <2>1 DEF Next, OtherRoutine, defendTeammate, Server, Order
    <3>2. attackerId \in swingingOnEnemySet
      BY <2>1 DEF IInv, Remembered
    <3>3. DefaultAction = "CANCEL_STRIKE"
      BY DefaultOrder
    <3> QED  BY <3>1, <3>2, <3>3 DEF attackPuck, hit, Order
  <2>2. CASE routine' = "defendTeammate" /\ Fighters # {}
    <3>1. defendTeammate
      BY <2>2 DEF Next, OtherRoutine, attackPuck, hit, Server, Order
    <3> QED  BY <2>2, <3>1, BlowOrder DEF defendTeammate, Order
  <2> QED  BY <2>1, <2>2
<1>2. Spec => [][SwingStep]_vars
  BY <1>1, Invariance, PTL DEF Spec
<1> QED  BY <1>2 DEF SwingIsEnded, SwingStep
=============================================================================
