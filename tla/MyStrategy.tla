----------------------------- MODULE MyStrategy -----------------------------
(***************************************************************************)
(* The decision core of the hockey strategy: MyStrategy::move() and the    *)
(* state that outlives one call of it.                                     *)
(*                                                                         *)
(* Runner calls move() once per tick for every hockeyist it controls, all  *)
(* on the same world snapshot.  The objects of class MyStrategy keep       *)
(* nothing between calls; what they decide with is static and shared:      *)
(* Statistics (who caught the puck first in this sub-round, the stack of   *)
(* callbacks), m_initialDefenderId, m_firePositionMap and the set local to *)
(* attackPuck().  Each call updates that state and then reads it, so the   *)
(* N calls of a tick must agree although each of them runs the update.     *)
(*                                                                         *)
(* Distances, angles and speeds only choose between the branches of a      *)
(* routine; a choice that depends on nothing else is nondeterministic      *)
(* here.  The statistics that only reach the log (goals, attacks, crashes, *)
(* the side and the substitution area computed when the instance is        *)
(* created) are left out.                                                  *)
(***************************************************************************)
EXTENDS Naturals, FiniteSets

CONSTANTS
  Skaters,   (* my hockeyists for which move() is called every tick       *)
  Resting,   (* my hockeyists on the bench: in the world and of my team,  *)
             (* but RESTING, so move() is not called for them             *)
  Goalies,   (* my goalkeeper, if any: in the world, never moved          *)
  Foes,      (* the opponent's hockeyists                                 *)
  NoId       (* the id -1: nobody owns the puck, no defender is chosen    *)

ASSUME SkatersAssumption == IsFiniteSet(Skaters) /\ Skaters # {}

ASSUME IdsAssumption ==
  /\ Skaters \cap Goalies = {}
  /\ Resting \cap (Skaters \cup Goalies) = {}
  /\ Foes \cap (Skaters \cup Resting \cup Goalies) = {}
  /\ NoId \notin Skaters \cup Resting \cup Goalies \cup Foes

VARIABLES
  world,               (* the snapshot of this tick: puck owner, rest time *)
  pending,             (* skaters whose move() is still to come this tick  *)
  moves,               (* the Move filled in for each skater, and by whom  *)
  instance,            (* Statistics::m_instance exists                    *)
  puck,                (* Statistics::m_puck                               *)
  plCallbacks,         (* size of the stack Statistics::m_plCallbacks      *)
  initialDefenderId,   (* MyStrategy::m_initialDefenderId                  *)
  firePositionMap,     (* MyStrategy::m_firePositionMap                    *)
  swingingOnEnemySet,  (* the static set of attackPuck()                   *)
  round,               (* history: the sub-round as the server plays it    *)
  possession           (* history: what became of the possession in which  *)
                       (* each stored preference was chosen                *)

statics == <<instance, puck, plCallbacks, initialDefenderId,
             firePositionMap, swingingOnEnemySet>>

vars == <<world, pending, moves, statics, round, possession>>

-----------------------------------------------------------------------------
(* Values.                                                                 *)

Me       == "me"
Opponent == "opponent"
NoPlayer == "nobody"
Players  == {Me, Opponent, NoPlayer}

\* Those of my team that can have the puck.
MyTeam == Skaters \cup Goalies

\* Puck::getOwnerPlayerId(): the player of the hockeyist that has the puck.
PlayerOf(id) == IF id \in MyTeam THEN Me
                ELSE IF id \in Foes THEN Opponent ELSE NoPlayer

OwnerPlayer == PlayerOf(world.owner)

Preferences == {"eUNKNOWN", "eUP", "eDOWN"}
Actions     == {"NONE", "TAKE_PUCK", "SWING", "STRIKE", "CANCEL_STRIKE"}
Routines    == {"attackPuck", "attackNet", "defendTeammate",
                "defendInitial", "haveRest"}

Move   == [by : Routines \cup {"none"}, action : Actions]
NoMove == [by |-> "none", action |-> "NONE"]

\* PuckStatistics(): also what reset() restores.
FreshPuck == [isFirstCatch |-> TRUE, isJustReset |-> TRUE,
              lastPlayerId |-> NoPlayer]

\* An id that was never stored in the std::map reads as eUNKNOWN.
NoPreference == [h \in Skaters |-> "eUNKNOWN"]

-----------------------------------------------------------------------------
(* updateStatistics(): the first thing every move() does.                  *)

\* The branch that resets the puck statistics once a goal is seen.
Resetting == world.rest /\ ~puck.isJustReset

\* The other branch, when the puck has another owner than last time.
OwnerChanged == ~Resetting /\ puck.lastPlayerId # OwnerPlayer

PuckLoose == OwnerChanged /\ OwnerPlayer # Me

\* Mutant: the flag is cleared before isFirstCatch is copied from it.
MUT_updateStatistics ==
  /\ instance' = TRUE
  /\ puck' = IF Resetting THEN FreshPuck
             ELSE IF OwnerChanged
             THEN [isFirstCatch |-> FALSE, isJustReset |-> FALSE,
                   lastPlayerId |-> OwnerPlayer]
             ELSE puck

updateStatistics ==
  /\ instance' = TRUE
  /\ puck' = IF Resetting THEN FreshPuck
             ELSE IF OwnerChanged
             THEN [isFirstCatch |-> puck.isJustReset, isJustReset |-> FALSE,
                   lastPlayerId |-> OwnerPlayer]
             ELSE puck

\* Mutant: the callbacks are called but stay on the stack.
MUT_onPuckLoose ==
  /\ plCallbacks' = plCallbacks
  /\ firePositionMap' = IF PuckLoose /\ plCallbacks > 0 THEN NoPreference
                        ELSE firePositionMap
  /\ UNCHANGED possession

\* Statistics::onPuckLoose(): pop and call every registered callback; the
\* only one ever registered clears m_firePositionMap.
onPuckLoose ==
  /\ plCallbacks' = IF PuckLoose THEN 0 ELSE plCallbacks
  /\ firePositionMap' = IF PuckLoose /\ plCallbacks > 0 THEN NoPreference
                        ELSE firePositionMap
  /\ UNCHANGED possession

-----------------------------------------------------------------------------
(* getCurrentAction(): the part that elects and dismisses the initial      *)
(* defender.  It runs after updateStatistics(), hence on puck'.            *)

\* Mutant: every call elects anew.
MUT_findInitialDefender == initialDefenderId' \in Skaters \cup Resting

\* Mutant: goalkeepers are not skipped.
MUT_electGoalie ==
  IF initialDefenderId # NoId THEN UNCHANGED initialDefenderId
  ELSE initialDefenderId' \in MyTeam \cup Resting

\* The teammate nearest to the net, goalkeepers excluded; the search does not
\* skip a RESTING one.
findInitialDefender ==
  IF initialDefenderId # NoId THEN UNCHANGED initialDefenderId
  ELSE initialDefenderId' \in Skaters \cup Resting

initialDefence ==
  IF ~puck'.isFirstCatch THEN UNCHANGED initialDefenderId
  ELSE IF puck'.lastPlayerId # Me THEN findInitialDefender
  ELSE initialDefenderId' = NoId

\* Mutant: only the id is compared.
MUT_isInitialDefender(h) == initialDefenderId' = h

isInitialDefender(h) ==
  /\ puck'.isFirstCatch
  /\ puck'.lastPlayerId # Me
  /\ initialDefenderId' = h

-----------------------------------------------------------------------------
(* move(): update the statistics, choose the routine, run it.  One action  *)
(* per routine.                                                            *)

Call(h) ==
  /\ h \in pending
  /\ pending' = pending \ {h}
  /\ updateStatistics
  /\ UNCHANGED <<world, round>>

Order(h, routine, action) ==
  moves' = [moves EXCEPT ![h] = [by |-> routine, action |-> action]]

\* Mutant: a goal resets the puck statistics only.
MUT_dismissDefender == UNCHANGED initialDefenderId

\* The tail of the resetting branch of updateStatistics().
dismissDefender ==
  initialDefenderId' = IF Resetting THEN NoId ELSE initialDefenderId

haveRest(h) ==
  /\ Call(h)
  /\ world.rest
  /\ onPuckLoose
  /\ dismissDefender
  /\ Order(h, "haveRest", "NONE")
  /\ UNCHANGED swingingOnEnemySet

\* Nobody has the puck: go back.  Otherwise go to the defend point, or to
\* the puck; both try to take it.
defendInitial(h) ==
  /\ Call(h)
  /\ ~world.rest
  /\ onPuckLoose
  /\ initialDefence
  /\ isInitialDefender(h)
  /\ Order(h, "defendInitial",
           IF world.owner = NoId THEN "NONE" ELSE "TAKE_PUCK")
  /\ UNCHANGED swingingOnEnemySet

\* Mutant: the preference is stored, the callback never registered.
MUT_forgetCallback(h) ==
  \/ UNCHANGED <<firePositionMap, plCallbacks, possession>>
  \/ /\ firePositionMap[h] = "eUNKNOWN"
     /\ \E p \in Preferences \ {"eUNKNOWN"} :
           firePositionMap' = [firePositionMap EXCEPT ![h] = p]
     /\ possession' = [possession EXCEPT ![h] = "held"]
     /\ UNCHANGED plCallbacks

\* Far from the opponent's net and with one half clearly emptier, remember
\* that half until the puck is lost.
choosePreference(h) ==
  \/ UNCHANGED <<firePositionMap, plCallbacks, possession>>
  \/ /\ firePositionMap[h] = "eUNKNOWN"
     /\ \E p \in Preferences \ {"eUNKNOWN"} :
           firePositionMap' = [firePositionMap EXCEPT ![h] = p]
     /\ plCallbacks' = plCallbacks + 1
     /\ possession' = [possession EXCEPT ![h] = "held"]

attackNet(h) ==
  /\ Call(h)
  /\ ~world.rest
  /\ initialDefence
  /\ ~isInitialDefender(h)
  /\ world.owner = h
  /\ \/ \* SWINGING: strike once the cooldown is over
        /\ \E action \in {"STRIKE", "NONE"} : Order(h, "attackNet", action)
        /\ onPuckLoose
     \/ \* otherwise aim, and swing near the fire point when aimed
        /\ \E action \in {"SWING", "NONE"} : Order(h, "attackNet", action)
        /\ choosePreference(h)
  /\ UNCHANGED swingingOnEnemySet

\* The actions that defendTeammate() orders: STRIKE or CANCEL_STRIKE when
\* swinging, SWING when a foe can be hit, NONE when there is no foe left or
\* the vip or the puck is in the way.
defendTeammate(h) ==
  /\ Call(h)
  /\ ~world.rest
  /\ onPuckLoose
  /\ initialDefence
  /\ ~isInitialDefender(h)
  /\ world.owner \in MyTeam \ {h}
  /\ \E action \in {"STRIKE", "CANCEL_STRIKE", "SWING", "NONE"} :
        Order(h, "defendTeammate", action)
  /\ UNCHANGED swingingOnEnemySet

\* A foe has the puck and is in reach, no teammate stands in between: strike
\* if this hockeyist was told to swing before or the puck owner is SWINGING.
duel(h) ==
  \E ownerSwinging \in BOOLEAN :
     IF h \in swingingOnEnemySet \/ ownerSwinging
     THEN /\ Order(h, "attackPuck", "STRIKE")
          /\ swingingOnEnemySet' = swingingOnEnemySet \ {h}
     ELSE /\ Order(h, "attackPuck", "SWING")
          /\ swingingOnEnemySet' = swingingOnEnemySet \cup {h}

\* A foe has the puck but cannot be hit from here.
stepAway(h) ==
  /\ \E action \in {"TAKE_PUCK", "CANCEL_STRIKE"} :
        Order(h, "attackPuck", action)
  /\ swingingOnEnemySet' = swingingOnEnemySet \ {h}

attackPuck(h) ==
  /\ Call(h)
  /\ ~world.rest
  /\ onPuckLoose
  /\ initialDefence
  /\ ~isInitialDefender(h)
  /\ world.owner \notin MyTeam
  /\ \/ /\ world.owner \in Foes
        /\ duel(h) \/ stepAway(h)
     \/ \* nobody to hit: the early return leaves the set as it is
        /\ world.owner \notin Foes
        /\ \E action \in {"TAKE_PUCK", "CANCEL_STRIKE"} :
              Order(h, "attackPuck", action)
        /\ UNCHANGED swingingOnEnemySet

move(h) ==
  \/ haveRest(h)
  \/ defendInitial(h)
  \/ attackNet(h)
  \/ defendTeammate(h)
  \/ attackPuck(h)

-----------------------------------------------------------------------------
(* The server, and Runner's loop over the hockeyists of one context.       *)

Phases == {"faceoff", "mine", "theirs", "open"}

FirstPhase(player) == IF player = Me THEN "mine"
                      ELSE IF player = Opponent THEN "theirs"
                      ELSE "faceoff"

\* History.  The phase of the sub-round as the server plays it: nobody had
\* the puck since the face-off, the first to get it still has it, or the
\* puck has been lost once.  heldOver: the puck was held, not free, in the
\* last tick of the rest.  caught: somebody had it while the sub-round was
\* played.
RoundAfter(owner, rest) ==
  LET first == FirstPhase(PlayerOf(owner)) IN
  [phase    |-> IF rest THEN "faceoff"
                ELSE IF round.phase \in {"faceoff", first} THEN first
                ELSE "open",
   heldOver |-> IF rest THEN owner # NoId ELSE round.heldOver,
   caught   |-> IF rest THEN round.caught
                ELSE owner # NoId \/ (round.caught /\ ~world.rest)]

Possessions == {"held", "rest", "again", "lost"}

\* History.  A preference is chosen while its hockeyist has the puck.  held:
\* the team has had the puck in every tick since then.  rest: a goal has ended
\* the sub-round, and since that rest began nobody has had the puck in play.
\* again: after that the team was the first to get the puck, and has it.  lost:
\* anything else; nothing is stored.
PossessionAfter(owner, rest) ==
  [h \in Skaters |->
     IF firePositionMap[h] = "eUNKNOWN" \/ possession[h] = "lost" THEN "lost"
     ELSE IF rest THEN "rest"
     ELSE IF PlayerOf(owner) = Me
     THEN IF possession[h] = "held" THEN "held" ELSE "again"
     ELSE IF PlayerOf(owner) = NoPlayer /\ possession[h] = "rest" THEN "rest"
     ELSE "lost"]

\* The next PlayerContext; move() has answered the previous one for every
\* hockeyist.  Anybody may have the puck, and any tick may be rest time.
NextContext(owner, rest) ==
  /\ pending = {}
  /\ world' = [owner |-> owner, rest |-> rest]
  /\ pending' = Skaters
  /\ moves' = [h \in Skaters |-> NoMove]
  /\ round' = RoundAfter(owner, rest)
  /\ possession' = PossessionAfter(owner, rest)
  /\ UNCHANGED statics

Init ==
  /\ world = [owner |-> NoId, rest |-> FALSE]
  /\ pending = {}
  /\ moves = [h \in Skaters |-> NoMove]
  /\ instance = FALSE
  /\ puck = FreshPuck
  /\ plCallbacks = 0
  /\ initialDefenderId = NoId
  /\ firePositionMap = NoPreference
  /\ swingingOnEnemySet = {}
  /\ round = [phase |-> "faceoff", heldOver |-> FALSE, caught |-> FALSE]
  /\ possession = [h \in Skaters |-> "lost"]

Next ==
  \/ \E owner \in MyTeam \cup Foes \cup {NoId}, rest \in BOOLEAN :
        NextContext(owner, rest)
  \/ \E h \in Skaters : move(h)

Spec == Init /\ [][Next]_vars

-----------------------------------------------------------------------------
(* Properties.                                                             *)

\* Type correctness of the shared state of MyStrategy and Statistics.
TypeOK ==
  /\ world \in [owner : MyTeam \cup Foes \cup {NoId}, rest : BOOLEAN]
  /\ pending \subseteq Skaters
  /\ moves \in [Skaters -> Move]
  /\ instance \in BOOLEAN
  /\ puck \in [isFirstCatch : BOOLEAN, isJustReset : BOOLEAN,
               lastPlayerId : Players]
  /\ plCallbacks \in Nat
  /\ initialDefenderId \in Skaters \cup Resting \cup {NoId}
  /\ firePositionMap \in [Skaters -> Preferences]
  /\ swingingOnEnemySet \subseteq Skaters
  /\ round \in [phase : Phases, heldOver : BOOLEAN, caught : BOOLEAN]
  /\ possession \in [Skaters -> Possessions]

\* Some move() of this tick has been made: the statistics are up to date.
Moved == pending # Skaters

Playing(routine) == {h \in Skaters : moves[h].by = routine}

\* The puck statistics follow the sub-round: once one hockeyist has moved,
\* m_isFirstCatch holds exactly until the first catcher has lost the puck,
\* and m_lastPlayerId names the player that has it, unless the puck was held
\* when the rest ended (updateStatistics() runs for every hockeyist and
\* tracks owners in rest time too).
FirstCatchTracked ==
  (Moved /\ ~world.rest) =>
     /\ puck.lastPlayerId = OwnerPlayer
     /\ ~round.heldOver => (puck.isFirstCatch <=> round.phase # "open")

\* No two calls of a tick take the part of the first defender, even when the
\* rest left the statistics half reset.  While nobody has had the puck, or
\* the opponent has it as its first owner in the sub-round, exactly one
\* hockeyist of the team plays defendInitial() in each tick, whatever the
\* order of the calls, unless findInitialDefender() has elected a RESTING
\* hockeyist, for which move() is never called: then nobody does.  In any
\* other tick, none.
InitialDefenceManned ==
  /\ Cardinality(Playing("defendInitial")) <= 1
  /\ (pending = {} /\ instance /\ ~world.rest /\ ~round.heldOver) =>
       Cardinality(Playing("defendInitial")) =
          IF round.phase \in {"faceoff", "theirs"}
             /\ initialDefenderId \notin Resting
          THEN 1 ELSE 0

\* "just go back at the round begin": as long as nobody has had the puck since
\* the face-off, the first defender goes back.
SomebodyGoesBack ==
  (pending = {} /\ instance /\ ~world.rest /\ round.phase = "faceoff") =>
     Playing("defendInitial") # {}

\* Nobody plays defendInitial() against its own team: what its assert says of
\* the attacker when there is one.
DefendersFaceFoes ==
  Playing("defendInitial") # {} => world.owner \notin MyTeam

\* A sub-round in which somebody got the puck leaves no defender behind: the
\* rest after it starts with m_initialDefenderId = -1, so that the next
\* sub-round elects the hockeyist that is nearest then.
DefenderDismissed ==
  (Moved /\ world.rest /\ round.caught) => initialDefenderId = NoId

HavingPreference == {h \in Skaters : firePositionMap[h] # "eUNKNOWN"}

\* The stack of callbacks holds one entry for each stored preference: it does
\* not grow with the length of the game, and a stored preference never waits
\* for a callback that is not there.
OneCallbackPerPreference == plCallbacks = Cardinality(HavingPreference)

\* A preference does not outlive the possession it was chosen in, with one
\* exception.  Once somebody has moved in a tick, a stored preference means that
\* the team has had the puck in every tick since it was chosen, or that a goal
\* came in between: reset() forgets who had the puck without calling
\* onPuckLoose(), so the preference of the last sub-round is kept over the
\* rest, while the puck is free after it, and as long as the team has the puck
\* if it is the first to get it.  It is gone once the opponent has the puck in
\* play, or the puck comes free from the team.
PreferenceNeedsPossession ==
  Moved => \A h \in HavingPreference : possession[h] # "lost"
=============================================================================
