-------------------------- MODULE MyStrategyProofs --------------------------
(***************************************************************************)
(* Every invariant of the decision core, proved for any number of          *)
(* hockeyists.  The invariants are not inductive: they speak of a tick in  *)
(* which somebody has moved, and follow from what the statics were left at *)
(* by the tick before it.  IInv says how the statics relate to the         *)
(* sub-round in every state, those before the first move of a tick too.    *)
(***************************************************************************)
EXTENDS MyStrategy, FiniteSetTheorems, TLAPS

\* Only a reset, or nothing yet, leaves m_isJustReset set.
ResetInv ==
  puck.isJustReset => puck.isFirstCatch /\ puck.lastPlayerId = NoPlayer

\* The history follows the snapshot.
RoundInv ==
  /\ world.rest => round.phase = "faceoff"
  /\ world.rest => (round.heldOver <=> world.owner # NoId)
  /\ ~world.rest =>
        /\ round.phase = "faceoff" => OwnerPlayer = NoPlayer
        /\ round.phase = "mine" => OwnerPlayer = Me
        /\ round.phase = "theirs" => OwnerPlayer = Opponent

\* The statistics in each phase of the sub-round; a change of owner in this
\* tick may not have been seen yet.
PhaseInv ==
  (~world.rest /\ ~round.heldOver) =>
     /\ round.phase = "faceoff" => puck.isJustReset
     /\ round.phase = "mine" =>
           puck.isJustReset \/ (puck.isFirstCatch /\ puck.lastPlayerId = Me)
     /\ round.phase = "theirs" =>
           puck.isJustReset
             \/ (puck.isFirstCatch /\ puck.lastPlayerId = Opponent)
     /\ round.phase = "open" =>
           /\ ~puck.isJustReset
           /\ puck.isFirstCatch => puck.lastPlayerId # OwnerPlayer

\* One move brings the statistics up to date.
MovedInv ==
  /\ ~instance => pending \in {{}, Skaters}
  /\ (Moved /\ ~world.rest) => puck.lastPlayerId = OwnerPlayer
  /\ (Moved /\ world.rest /\ ~round.heldOver) => puck.isJustReset

\* What a sub-round in which the puck was caught leaves to the rest after it.
CaughtInv ==
  round.caught =>
     /\ (~world.rest /\ Moved) => ~puck.isJustReset
     /\ (~world.rest /\ ~Moved) => world.owner # NoId \/ ~puck.isJustReset
     /\ (world.rest /\ Moved) => initialDefenderId = NoId
     /\ (world.rest /\ ~Moved) =>
           initialDefenderId = NoId \/ ~puck.isJustReset

\* An initial defence is on.
Defending == puck.isFirstCatch /\ puck.lastPlayerId # Me

\* The hockeyists that have moved in this tick agree on who defends.
MannedInv ==
  /\ \A h \in pending : moves[h].by = "none"
  /\ world.rest => Playing("defendInitial") = {}
  /\ ~instance => Playing("defendInitial") = {}
  /\ (instance /\ Moved /\ ~world.rest) =>
        /\ Defending => initialDefenderId \in Skaters \cup Resting
        /\ \A h \in Skaters \ pending :
              moves[h].by = "defendInitial" <=>
                 Defending /\ initialDefenderId = h

\* What a stored preference says of the puck.  Only before the first move of a
\* tick may the possession it was chosen in be over, and then that move calls
\* onPuckLoose().
PossessionInv ==
  \A h \in HavingPreference :
     /\ puck.lastPlayerId = Me \/ puck.isJustReset
     /\ possession[h] \in {"held", "again"} => ~world.rest /\ OwnerPlayer = Me
     /\ possession[h] = "lost" => ~Moved /\ PuckLoose

IInv ==
  /\ TypeOK
  /\ ResetInv
  /\ RoundInv
  /\ PhaseInv
  /\ MovedInv
  /\ CaughtInv
  /\ MannedInv
  /\ OneCallbackPerPreference
  /\ PossessionInv

-----------------------------------------------------------------------------
(* Lemmas.                                                                 *)

\* The owner of the puck is of exactly one side.
LEMMA OwnerSides ==
  ASSUME TypeOK
  PROVE  /\ OwnerPlayer \in Players
         /\ OwnerPlayer = Me <=> world.owner \in MyTeam
         /\ OwnerPlayer = Opponent <=> world.owner \in Foes
         /\ OwnerPlayer = NoPlayer <=> world.owner = NoId
BY IdsAssumption
   DEF TypeOK, OwnerPlayer, PlayerOf, Players, Me, Opponent, NoPlayer, MyTeam

\* Whatever routine it chooses, move() updates the statistics first.
LEMMA MoveCalls ==
  ASSUME NEW h \in Skaters, move(h)
  PROVE  Call(h)
BY DEF move, haveRest, defendInitial, attackNet, defendTeammate, attackPuck

\* A move leaves the snapshot, and with it the sides, alone.
LEMMA CallOwner ==
  ASSUME NEW h \in Skaters, Call(h)
  PROVE  /\ world' = world
         /\ round' = round
         /\ OwnerPlayer' = OwnerPlayer
         /\ h \in pending
         /\ pending' = pending \ {h}
         /\ instance' = TRUE
BY DEF Call, OwnerPlayer, updateStatistics

\* The puck statistics after updateStatistics(), case by case.
LEMMA PuckUpdate ==
  ASSUME TypeOK, NEW h \in Skaters, Call(h)
  PROVE  /\ puck' \in [isFirstCatch : BOOLEAN, isJustReset : BOOLEAN,
                       lastPlayerId : Players]
         /\ Resetting => puck' = FreshPuck
         /\ OwnerChanged =>
               /\ puck'.isFirstCatch = puck.isJustReset
               /\ ~puck'.isJustReset
               /\ puck'.lastPlayerId = OwnerPlayer
         /\ (~Resetting /\ ~OwnerChanged) => puck' = puck
BY OwnerSides
   DEF Call, updateStatistics, TypeOK, FreshPuck, Players, NoPlayer,
       OwnerChanged

\* Every skater that prefers a half is a skater: a finite set of them.
LEMMA HavingFinite ==
  /\ IsFiniteSet(HavingPreference)
  /\ Cardinality(HavingPreference) \in Nat
  /\ Cardinality(HavingPreference) = 0 <=> HavingPreference = {}
BY SkatersAssumption, FS_Subset, FS_EmptySet, FS_CardinalityType
   DEF HavingPreference

\* Both sides of the callback: it empties the map exactly when a preference
\* is stored.
LEMMA PuckLooseStep ==
  ASSUME TypeOK, OneCallbackPerPreference, onPuckLoose
  PROVE  /\ plCallbacks' \in Nat
         /\ firePositionMap' \in [Skaters -> Preferences]
         /\ OneCallbackPerPreference'
         /\ possession' = possession
         /\ PuckLoose => HavingPreference' = {}
         /\ ~PuckLoose => HavingPreference' = HavingPreference
<1>1. CASE PuckLoose
  <2>1. firePositionMap' = NoPreference
           \/ (firePositionMap' = firePositionMap /\ HavingPreference = {})
    BY <1>1, HavingFinite DEF onPuckLoose, OneCallbackPerPreference
  <2>2. HavingPreference' = {}
    BY <2>1 DEF HavingPreference, NoPreference
  <2>3. plCallbacks' = 0 /\ Cardinality({}) = 0
    BY <1>1, FS_EmptySet DEF onPuckLoose
  <2> QED
    BY <1>1, <2>1, <2>2, <2>3
       DEF TypeOK, NoPreference, Preferences, OneCallbackPerPreference,
           onPuckLoose
<1>2. CASE ~PuckLoose
  BY <1>2
     DEF onPuckLoose, TypeOK, OneCallbackPerPreference, HavingPreference
<1> QED  BY <1>1, <1>2

\* Storing a preference registers one callback.
LEMMA ChooseStep ==
  ASSUME TypeOK, OneCallbackPerPreference, NEW h \in Skaters,
         choosePreference(h)
  PROVE  /\ plCallbacks' \in Nat
         /\ firePositionMap' \in [Skaters -> Preferences]
         /\ OneCallbackPerPreference'
         /\ HavingPreference' \subseteq HavingPreference \cup {h}
         /\ \/ possession' = possession /\ HavingPreference' = HavingPreference
            \/ possession' = [possession EXCEPT ![h] = "held"]
<1>1. CASE UNCHANGED <<firePositionMap, plCallbacks, possession>>
  BY <1>1 DEF TypeOK, OneCallbackPerPreference, HavingPreference
<1>2. CASE ~UNCHANGED <<firePositionMap, plCallbacks, possession>>
  <2>1. PICK p \in Preferences \ {"eUNKNOWN"} :
           firePositionMap' = [firePositionMap EXCEPT ![h] = p]
    BY <1>2 DEF choosePreference
  <2>2. firePositionMap[h] = "eUNKNOWN" /\ plCallbacks' = plCallbacks + 1
    BY <1>2 DEF choosePreference
  <2>3. /\ HavingPreference' = HavingPreference \cup {h}
        /\ h \notin HavingPreference
    BY <2>1, <2>2 DEF HavingPreference, TypeOK
  <2>4. Cardinality(HavingPreference') = Cardinality(HavingPreference) + 1
    BY <2>3, HavingFinite, FS_AddElement
  <2> QED
    BY <1>2, <2>1, <2>2, <2>3, <2>4
       DEF TypeOK, OneCallbackPerPreference, choosePreference
<1> QED  BY <1>1, <1>2

\* What each routine does to the stored preferences.
LEMMA PreferenceStep ==
  ASSUME TypeOK, OneCallbackPerPreference, NEW h \in Skaters, move(h)
  PROVE  onPuckLoose \/ (choosePreference(h) /\ world.owner = h /\ ~world.rest)
BY DEF move, haveRest, defendInitial, attackNet, defendTeammate, attackPuck

-----------------------------------------------------------------------------
(* Init and the two kinds of step.                                         *)

LEMMA InitIInv == Init => IInv
<1> SUFFICES ASSUME Init PROVE IInv  OBVIOUS
<1>1. TypeOK
  BY DEF Init, TypeOK, FreshPuck, NoMove, Move, NoPreference, Preferences,
         Players, NoPlayer, Actions, Routines, Phases, Possessions
<1>2. HavingPreference = {}
  BY DEF Init, HavingPreference, NoPreference
<1>3. OneCallbackPerPreference /\ PossessionInv
  BY <1>2, HavingFinite DEF Init, OneCallbackPerPreference, PossessionInv
<1>4. OwnerPlayer = NoPlayer
  BY IdsAssumption DEF Init, OwnerPlayer, PlayerOf, MyTeam
<1>5. ResetInv /\ RoundInv /\ PhaseInv /\ MovedInv /\ CaughtInv
  BY <1>4 DEF Init, ResetInv, RoundInv, PhaseInv, MovedInv, CaughtInv,
              FreshPuck, Moved
<1>6. MannedInv
  BY DEF Init, MannedInv, NoMove, Playing
<1> QED  BY <1>1, <1>3, <1>5, <1>6 DEF IInv

\* Between the ticks the statics stay; the history and the snapshot move on.
LEMMA ContextStep ==
  ASSUME IInv, NEW owner \in MyTeam \cup Foes \cup {NoId},
         NEW rest \in BOOLEAN, NextContext(owner, rest)
  PROVE  IInv'
<1> USE DEF IInv
<1>1. /\ pending = {} /\ pending' = Skaters
      /\ world' = [owner |-> owner, rest |-> rest]
      /\ round' = RoundAfter(owner, rest)
      /\ moves' = [h \in Skaters |-> NoMove]
      /\ possession' = PossessionAfter(owner, rest)
      /\ UNCHANGED <<instance, puck, plCallbacks, initialDefenderId,
                     firePositionMap, swingingOnEnemySet>>
  BY DEF NextContext, statics
<1>2. Moved /\ ~Moved'
  BY <1>1, SkatersAssumption DEF Moved
<1>3. TypeOK'
  <2>1. round' \in [phase : Phases, heldOver : BOOLEAN, caught : BOOLEAN]
    BY <1>1 DEF TypeOK, RoundAfter, FirstPhase, Phases
  <2>2. possession' \in [Skaters -> Possessions]
    BY <1>1 DEF PossessionAfter, Possessions
  <2>3. moves' \in [Skaters -> Move]
    BY <1>1 DEF Move, NoMove, Actions, Routines
  <2>4. world' \in [owner : MyTeam \cup Foes \cup {NoId}, rest : BOOLEAN]
    BY <1>1
  <2> QED  BY <1>1, <2>1, <2>2, <2>3, <2>4 DEF TypeOK
<1>4. OwnerPlayer' = PlayerOf(owner)
  BY <1>1 DEF OwnerPlayer
<1>5. ResetInv'
  BY <1>1 DEF ResetInv
<1>6. RoundInv'
  <2>1. CASE rest
    BY <1>1, <2>1 DEF RoundInv, RoundAfter
  <2>2. CASE ~rest
    BY <1>1, <1>4, <2>2, <1>3, OwnerSides
       DEF RoundInv, RoundAfter, FirstPhase, Players, Me, Opponent, NoPlayer,
           PlayerOf
  <2> QED  BY <2>1, <2>2
<1>7. PhaseInv'
  <2> SUFFICES ASSUME ~rest, ~round'.heldOver PROVE PhaseInv'
    BY <1>1 DEF PhaseInv
  <2>1. /\ round'.heldOver = round.heldOver
        /\ round'.phase = IF round.phase \in {"faceoff", FirstPhase(PlayerOf(owner))}
                          THEN FirstPhase(PlayerOf(owner)) ELSE "open"
    BY <1>1 DEF RoundAfter
  <2>2. /\ FirstPhase(PlayerOf(owner)) = "mine" <=> OwnerPlayer' = Me
        /\ FirstPhase(PlayerOf(owner)) = "theirs" <=> OwnerPlayer' = Opponent
        /\ FirstPhase(PlayerOf(owner)) = "faceoff" <=> OwnerPlayer' = NoPlayer
        /\ FirstPhase(PlayerOf(owner)) \in {"mine", "theirs", "faceoff"}
    BY <1>4 DEF FirstPhase, PlayerOf, Me, Opponent, NoPlayer
  <2>3. CASE world.rest
    BY <1>1, <1>2, <2>1, <2>2, <2>3
       DEF PhaseInv, RoundInv, MovedInv
  <2>4. CASE ~world.rest
    <3>1. puck.lastPlayerId = OwnerPlayer
      BY <1>2, <2>4 DEF MovedInv
    <3> QED
      BY <1>1, <2>1, <2>2, <2>4, <3>1
         DEF PhaseInv, ResetInv, RoundInv, Me, Opponent, NoPlayer, TypeOK, Phases
  <2> QED  BY <2>3, <2>4
<1>8. MovedInv'
  BY <1>1, <1>2 DEF MovedInv
<1>9. CaughtInv'
  BY <1>1, <1>2 DEF CaughtInv, RoundAfter
<1>10. MannedInv'
  BY <1>1, <1>2 DEF MannedInv, NoMove, Playing
<1>11. OneCallbackPerPreference' /\ HavingPreference' = HavingPreference
  BY <1>1 DEF OneCallbackPerPreference, HavingPreference
<1>12. PossessionInv'
  <2> SUFFICES ASSUME NEW h \in HavingPreference
               PROVE  /\ puck.lastPlayerId = Me \/ puck.isJustReset
                      /\ possession'[h] \in {"held", "again"} =>
                            ~rest /\ OwnerPlayer' = Me
                      /\ possession'[h] = "lost" => ~Moved' /\ PuckLoose'
    BY <1>1, <1>11 DEF PossessionInv
  <2>1. /\ h \in Skaters /\ firePositionMap[h] # "eUNKNOWN"
        /\ puck.lastPlayerId = Me \/ puck.isJustReset
        /\ possession[h] \in {"held", "again"} => ~world.rest /\ OwnerPlayer = Me
        /\ possession[h] \in Possessions \ {"lost"}
    BY <1>2 DEF HavingPreference, PossessionInv, TypeOK
  <2>2. possession'[h] = IF rest THEN "rest"
                         ELSE IF OwnerPlayer' = Me
                         THEN IF possession[h] = "held" THEN "held" ELSE "again"
                         ELSE IF OwnerPlayer' = NoPlayer /\ possession[h] = "rest"
                         THEN "rest" ELSE "lost"
    BY <1>1, <1>4, <2>1 DEF PossessionAfter
  <2>3. CASE possession'[h] = "lost"
    <3>1. ~rest /\ OwnerPlayer' # Me
          /\ (OwnerPlayer' = NoPlayer => possession[h] \in {"held", "again"})
      BY <2>1, <2>2, <2>3 DEF Possessions
    <3>2. puck.lastPlayerId # OwnerPlayer'
      <4>1. CASE OwnerPlayer' = NoPlayer
        BY <1>2, <2>1, <3>1, <4>1 DEF MovedInv, NoPlayer, Me
      <4>2. CASE OwnerPlayer' # NoPlayer
        BY <2>1, <3>1, <4>2 DEF ResetInv
      <4> QED  BY <4>1, <4>2
    <3> QED
      BY <1>1, <1>2, <2>1, <2>3, <3>1, <3>2
         DEF PuckLoose, OwnerChanged, Resetting
  <2>4. CASE possession'[h] # "lost"
    BY <2>1, <2>2, <2>4
  <2> QED  BY <2>3, <2>4
<1> QED
  BY <1>3, <1>5, <1>6, <1>7, <1>8, <1>9, <1>10, <1>11, <1>12

\* The shared part of a move: the puck statistics against the sub-round.
LEMMA CallStep ==
  ASSUME IInv, NEW h \in Skaters, Call(h)
  PROVE  ResetInv' /\ RoundInv' /\ PhaseInv' /\ MovedInv' /\ Moved'
<1> USE DEF IInv
<1>1. Moved'
  BY CallOwner DEF Moved, TypeOK
<1>2. ResetInv'
  BY PuckUpdate DEF ResetInv, FreshPuck
<1>3. RoundInv'
  BY CallOwner DEF RoundInv
<1>4. PhaseInv'
  BY CallOwner, PuckUpdate, OwnerSides
     DEF PhaseInv, RoundInv, ResetInv, Resetting, OwnerChanged, Me, Opponent,
         NoPlayer
<1>5. (Moved' /\ ~world'.rest) => puck'.lastPlayerId = OwnerPlayer'
  BY CallOwner, PuckUpdate DEF Resetting, OwnerChanged
<1>6. (Moved' /\ world'.rest /\ ~round'.heldOver) => puck'.isJustReset
  <2> SUFFICES ASSUME world.rest, ~round.heldOver PROVE puck'.isJustReset
    BY CallOwner
  <2>1. OwnerPlayer = NoPlayer
    BY OwnerSides DEF RoundInv
  <2>2. CASE puck.isJustReset
    BY <2>1, <2>2, PuckUpdate DEF ResetInv, Resetting, OwnerChanged
  <2>3. CASE ~puck.isJustReset
    BY <2>3, PuckUpdate DEF Resetting, FreshPuck
  <2> QED  BY <2>2, <2>3
<1> QED
  BY <1>1, <1>2, <1>3, <1>4, <1>5, <1>6, CallOwner DEF MovedInv

\* The shared part of a move: the stored preferences.
LEMMA CallbackStep ==
  ASSUME IInv, NEW h \in Skaters, move(h)
  PROVE  /\ plCallbacks' \in Nat
         /\ firePositionMap' \in [Skaters -> Preferences]
         /\ OneCallbackPerPreference'
         /\ possession' \in [Skaters -> Possessions]
         /\ PossessionInv'
<1> USE DEF IInv
<1>1. /\ Call(h)
      /\ world' = world /\ OwnerPlayer' = OwnerPlayer
  BY MoveCalls, CallOwner
<1>2. CASE onPuckLoose
  <2>1. possession' = possession
    BY <1>2 DEF onPuckLoose
  <2>2. ASSUME PuckLoose PROVE PossessionInv'
    <3>1. HavingPreference' = {}
      BY <1>2, <2>2, PuckLooseStep
    <3> QED  BY <3>1 DEF PossessionInv
  <2>3. ASSUME ~PuckLoose PROVE PossessionInv'
    <3>1. HavingPreference' = HavingPreference
      BY <1>2, <2>3, PuckLooseStep
    <3>2. puck'.lastPlayerId = Me \/ puck'.isJustReset \/ HavingPreference = {}
      BY <1>1, <2>3, PuckUpdate DEF PossessionInv, PuckLoose, FreshPuck
    <3>3. \A k \in HavingPreference : possession[k] # "lost"
      BY <2>3 DEF PossessionInv
    <3> QED  BY <1>1, <2>1, <3>1, <3>2, <3>3 DEF PossessionInv
  <2> QED  BY <1>2, <2>1, <2>2, <2>3, PuckLooseStep DEF TypeOK
<1>3. CASE choosePreference(h) /\ world.owner = h /\ ~world.rest
  <2>1. OwnerPlayer = Me /\ puck'.lastPlayerId = Me
    BY <1>1, <1>3, PuckUpdate, OwnerSides DEF MyTeam, Resetting, OwnerChanged
  <2>2. /\ possession' \in [Skaters -> Possessions]
        /\ \A k \in HavingPreference' :
              possession'[k] = "held"
                \/ (k \in HavingPreference /\ possession'[k] = possession[k])
    BY <1>3, ChooseStep DEF TypeOK, Possessions, HavingPreference
  <2>3. ~PuckLoose
    BY <2>1 DEF PuckLoose
  <2>4. PossessionInv'
    BY <1>1, <1>3, <2>1, <2>2, <2>3 DEF PossessionInv
  <2> QED  BY <1>3, <2>2, <2>4, ChooseStep
<1> QED  BY <1>2, <1>3, PreferenceStep

\* A move in a tick of the game runs the initial defence code, and plays
\* defendInitial() just when that code chose this hockeyist.
LEMMA RoutineStep ==
  ASSUME IInv, NEW h \in Skaters, move(h)
  PROVE  /\ moves' \in [Skaters -> Move]
         /\ \A k \in Skaters \ {h} : moves'[k] = moves[k]
         /\ swingingOnEnemySet' \subseteq Skaters
         /\ world.rest => dismissDefender /\ moves'[h].by = "haveRest"
         /\ ~world.rest =>
               /\ initialDefence
               /\ moves'[h].by = "defendInitial" <=> isInitialDefender(h)
<1> USE DEF IInv
<1>1. ASSUME NEW routine \in Routines, NEW action \in Actions,
             Order(h, routine, action)
      PROVE  /\ moves' \in [Skaters -> Move]
             /\ \A k \in Skaters \ {h} : moves'[k] = moves[k]
             /\ moves'[h].by = routine
  BY <1>1 DEF Order, TypeOK, Move
<1>2. CASE haveRest(h)
  BY <1>1, <1>2 DEF haveRest, Routines, Actions, TypeOK
<1>3. CASE defendInitial(h)
  BY <1>1, <1>3 DEF defendInitial, Routines, Actions, TypeOK
<1>4. CASE attackNet(h)
  BY <1>1, <1>4 DEF attackNet, Routines, Actions, TypeOK
<1>5. CASE defendTeammate(h)
  BY <1>1, <1>5 DEF defendTeammate, Routines, Actions, TypeOK
<1>6. CASE attackPuck(h)
  <2>1. \E action \in Actions : Order(h, "attackPuck", action)
    BY <1>6 DEF attackPuck, duel, stepAway, Actions
  <2>2. swingingOnEnemySet' \subseteq Skaters
    BY <1>6 DEF attackPuck, duel, stepAway, TypeOK
  <2> QED  BY <1>1, <1>6, <2>1, <2>2 DEF attackPuck, Routines
<1> QED  BY <1>2, <1>3, <1>4, <1>5, <1>6 DEF move

\* The hockeyists of a tick agree on the defender.
LEMMA MannedStep ==
  ASSUME IInv, NEW h \in Skaters, move(h)
  PROVE  MannedInv' /\ initialDefenderId' \in Skaters \cup Resting \cup {NoId}
<1> USE DEF IInv
<1>1. Call(h)
  BY MoveCalls
<1>2. initialDefenderId' \in Skaters \cup Resting \cup {NoId}
  BY RoutineStep
     DEF dismissDefender, initialDefence, findInitialDefender, TypeOK
<1>3. \A k \in pending' : moves'[k].by = "none"
  <2>1. \A k \in pending' : k \in pending /\ k \in Skaters \ {h}
    BY <1>1, CallOwner DEF TypeOK
  <2> QED  BY <2>1, RoutineStep DEF MannedInv
<1>4. CASE world.rest
  <2>1. Playing("defendInitial")' = {}
    BY <1>4, RoutineStep DEF MannedInv, Playing
  <2> QED  BY <1>1, <1>2, <1>3, <1>4, <2>1, CallOwner DEF MannedInv
<1>5. CASE ~world.rest
  <2>1. initialDefence /\ (moves'[h].by = "defendInitial" <=> isInitialDefender(h))
    BY <1>5, RoutineStep
  <2>2. Defending' => initialDefenderId' \in Skaters \cup Resting
    BY <1>2, <2>1 DEF Defending, initialDefence, findInitialDefender, TypeOK
  <2>3. moves'[h].by = "defendInitial" <=> Defending' /\ initialDefenderId' = h
    BY <2>1 DEF Defending, isInitialDefender
  <2>4. ASSUME NEW k \in Skaters \ pending', k # h
        PROVE  moves'[k].by = "defendInitial" <=>
                  Defending' /\ initialDefenderId' = k
    \* k has moved before: the statics are up to date and stay.
    <3>1. k \in Skaters \ pending /\ moves'[k] = moves[k]
      BY <1>1, <2>4, CallOwner, RoutineStep
    <3>2. Moved /\ instance
      BY <1>1, <3>1, CallOwner DEF Moved, MovedInv
    <3>3. puck' = puck
      BY <1>1, <1>5, <3>2, PuckUpdate
         DEF MovedInv, Resetting, OwnerChanged
    <3>4. CASE Defending
      <4>1. initialDefenderId \in Skaters \cup Resting
        BY <1>5, <3>2, <3>4 DEF MannedInv
      <4>2. initialDefenderId' = initialDefenderId
        BY <2>1, <3>3, <3>4, <4>1, IdsAssumption
           DEF initialDefence, findInitialDefender, Defending
      <4> QED  BY <1>5, <3>1, <3>2, <3>3, <4>2 DEF MannedInv, Defending
    <3>5. CASE ~Defending
      BY <1>5, <3>1, <3>2, <3>3, <3>5 DEF MannedInv, Defending
    <3> QED  BY <3>4, <3>5
  <2> QED  BY <1>1, <1>2, <1>3, <1>5, <2>2, <2>3, <2>4, CallOwner DEF MannedInv
<1> QED  BY <1>4, <1>5

\* A rest dismisses the defender of a sub-round in which somebody got the
\* puck: the reset is still to come, or has dismissed it already.
LEMMA CaughtStep ==
  ASSUME IInv, NEW h \in Skaters, move(h)
  PROVE  CaughtInv'
<1> USE DEF IInv
<1> SUFFICES ASSUME round.caught PROVE CaughtInv'
  BY MoveCalls, CallOwner DEF CaughtInv
<1>1. /\ Call(h) /\ Moved'
      /\ world' = world /\ round' = round
  BY MoveCalls, CallStep, CallOwner
<1>2. CASE world.rest
  BY <1>1, <1>2, RoutineStep
     DEF CaughtInv, dismissDefender, Resetting
<1>3. CASE ~world.rest
  <2>1. ~puck.isJustReset \/ OwnerChanged
    BY <1>3, OwnerSides DEF CaughtInv, ResetInv, OwnerChanged, Resetting
  <2> QED
    BY <1>1, <1>3, <2>1, PuckUpdate DEF CaughtInv, Resetting
<1> QED  BY <1>2, <1>3

LEMMA MoveStep ==
  ASSUME IInv, NEW h \in Skaters, move(h)
  PROVE  IInv'
<1>1. Call(h)
  BY MoveCalls
<1>2. TypeOK'
  BY <1>1, CallOwner, PuckUpdate, CallbackStep, RoutineStep, MannedStep
     DEF IInv, TypeOK
<1> QED
  BY <1>1, <1>2, CallStep, CallbackStep, MannedStep, CaughtStep DEF IInv

LEMMA StutterStep == ASSUME IInv, UNCHANGED vars PROVE IInv'
BY DEF IInv, vars, statics, TypeOK, ResetInv, RoundInv, PhaseInv, MovedInv,
       CaughtInv, MannedInv, OneCallbackPerPreference, HavingPreference,
       PossessionInv, PuckLoose, OwnerChanged, Resetting, Moved, Defending,
       Playing, OwnerPlayer

-----------------------------------------------------------------------------
(* Theorems.                                                               *)

\* The inductive invariant of the decision core.
THEOREM Invariance == Spec => []IInv
<1>1. ASSUME IInv, Next PROVE IInv'
  BY <1>1, ContextStep, MoveStep DEF Next
<1> QED
  BY <1>1, InitIInv, StutterStep, PTL DEF Spec

\* The shared statics keep their types; the defender is never a goalkeeper.
THEOREM TypeCorrect == Spec => []TypeOK
<1>1. IInv => TypeOK
  BY DEF IInv
<1> QED  BY <1>1, Invariance, PTL

\* The first-catch statistics follow the sub-round, however the calls of a
\* tick are ordered and however many hockeyists there are.
THEOREM FirstCatch == Spec => []FirstCatchTracked
<1>1. IInv => FirstCatchTracked
  <2> SUFFICES ASSUME IInv, Moved, ~world.rest
               PROVE  /\ puck.lastPlayerId = OwnerPlayer
                      /\ ~round.heldOver =>
                            (puck.isFirstCatch <=> round.phase # "open")
    BY DEF FirstCatchTracked
  <2>1. puck.lastPlayerId = OwnerPlayer
    BY DEF IInv, MovedInv
  <2>2. round.phase \in Phases
    BY DEF IInv, TypeOK
  <2> QED
    BY <2>1, <2>2 DEF IInv, PhaseInv, ResetInv, Phases
<1> QED  BY <1>1, Invariance, PTL

\* Exactly one hockeyist plays the initial defence while it is called for, and
\* never more than one, unless a RESTING hockeyist was elected: then none.
THEOREM OneDefender == Spec => []InitialDefenceManned
<1>1. IInv => Cardinality(Playing("defendInitial")) <= 1
  <2> SUFFICES ASSUME IInv, Playing("defendInitial") # {}
               PROVE  Cardinality(Playing("defendInitial")) <= 1
    BY FS_EmptySet
  <2>1. \A h \in Playing("defendInitial") : h \in Skaters \ pending /\ instance /\ ~world.rest
    BY DEF IInv, MannedInv, Playing
  <2>2. Moved
    BY <2>1 DEF Moved
  <2>3. \A h \in Playing("defendInitial") : h = initialDefenderId
    BY <2>1, <2>2 DEF IInv, MannedInv, Playing
  <2>4. Playing("defendInitial") = {initialDefenderId}
    BY <2>3
  <2> QED  BY <2>4, FS_Singleton
<1>2. IInv =>
        ((pending = {} /\ instance /\ ~world.rest /\ ~round.heldOver) =>
            Cardinality(Playing("defendInitial")) =
               IF round.phase \in {"faceoff", "theirs"}
                  /\ initialDefenderId \notin Resting
               THEN 1 ELSE 0)
  <2> SUFFICES ASSUME IInv, pending = {}, instance, ~world.rest,
                      ~round.heldOver
               PROVE  Cardinality(Playing("defendInitial")) =
                         IF round.phase \in {"faceoff", "theirs"}
                            /\ initialDefenderId \notin Resting
                         THEN 1 ELSE 0
    OBVIOUS
  <2>1. Moved
    BY SkatersAssumption DEF Moved
  <2>2. puck.lastPlayerId = OwnerPlayer /\ round.phase \in Phases
    BY <2>1 DEF IInv, MovedInv, TypeOK
  <2>3. Defending <=> round.phase \in {"faceoff", "theirs"}
    BY <2>2
       DEF IInv, PhaseInv, RoundInv, ResetInv, Defending, Phases, Me,
           Opponent, NoPlayer
  <2>4. /\ Defending => initialDefenderId \in Skaters \cup Resting
        /\ \A h \in Skaters : moves[h].by = "defendInitial" <=>
                                 Defending /\ initialDefenderId = h
    BY <2>1 DEF IInv, MannedInv
  <2>5. Playing("defendInitial") =
           IF Defending /\ initialDefenderId \notin Resting
           THEN {initialDefenderId} ELSE {}
    BY <2>4, IdsAssumption DEF Playing
  <2> QED  BY <2>3, <2>5, FS_Singleton, FS_EmptySet
<1>3. IInv => InitialDefenceManned
  BY <1>1, <1>2 DEF InitialDefenceManned
<1> QED  BY <1>3, Invariance, PTL

\* The assert of defendInitial(): it never runs against its own team.
THEOREM DefenceAgainstFoes == Spec => []DefendersFaceFoes
<1>1. IInv => DefendersFaceFoes
  <2> SUFFICES ASSUME IInv, NEW h \in Playing("defendInitial")
               PROVE  world.owner \notin MyTeam
    BY DEF DefendersFaceFoes
  <2>1. h \in Skaters \ pending /\ instance /\ ~world.rest
    BY DEF IInv, MannedInv, Playing
  <2>2. Moved
    BY <2>1 DEF Moved
  <2>3. puck.lastPlayerId # Me
    BY <2>1, <2>2 DEF IInv, MannedInv, Playing, Defending
  <2> QED
    BY <2>1, <2>2, <2>3, OwnerSides DEF IInv, MovedInv
<1> QED  BY <1>1, Invariance, PTL

\* No sub-round starts with the defender of a sub-round in which somebody
\* got the puck.
THEOREM Dismissal == Spec => []DefenderDismissed
<1>1. IInv => DefenderDismissed
  BY DEF IInv, CaughtInv, DefenderDismissed
<1> QED  BY <1>1, Invariance, PTL

\* The stack of callbacks never outgrows the stored preferences.
THEOREM CallbacksBounded == Spec => []OneCallbackPerPreference
<1>1. IInv => OneCallbackPerPreference
  BY DEF IInv
<1> QED  BY <1>1, Invariance, PTL

\* A preferred half outlives the possession it was chosen in only over a goal,
\* and then only until the opponent has the puck or the team loses it.
THEOREM PreferencesKept == Spec => []PreferenceNeedsPossession
<1>1. IInv => PreferenceNeedsPossession
  BY DEF IInv, PossessionInv, PreferenceNeedsPossession
<1> QED  BY <1>1, Invariance, PTL
=============================================================================
