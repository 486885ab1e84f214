------------------------------- MODULE MCWire -------------------------------
(***************************************************************************)
(* Messages for TLC: each object with and without its optional fields, and *)
(* a null in every place that has one.                                     *)
(***************************************************************************)
EXTENDS Wire

hockeyist == [id |-> 11, lastActionTick |-> -1]
acting    == [id |-> 12, lastActionTick |-> 7]
player    == [id |-> 21, name |-> 3]
noname    == [id |-> 22, name |-> 0]

world == [id |-> 31, players |-> <<player, noname>>,
          hockeyists |-> <<acting, hockeyist>>, puck |-> [id |-> 41]]

context == [hockeyists |-> <<acting>>, world |-> world]

WholeContexts ==
  {context, [hockeyists |-> <<>>, world |-> [world EXCEPT !.players = <<>>]]}

BrokenContexts ==
  {[context EXCEPT !.hockeyists = list] : list \in {Null, <<acting, Null>>}}
  \cup {[context EXCEPT !.world = w] : w \in {Null}
          \cup {[world EXCEPT !.players = list] :
                  list \in {Null, <<Null>>, <<[player EXCEPT !.name = Null]>>}}
          \cup {[world EXCEPT !.hockeyists = Null], [world EXCEPT !.puck = Null]}}

MCContexts  == {Null} \cup WholeContexts \cup BrokenContexts
MCGames     == {Null, [id |-> 1]}
MCMoveLists == {<<>>, <<[id |-> 51, action |-> PASS],
                      [id |-> 52, action |-> SUBSTITUTE], [id |-> 53, action |-> 0]>>}
=============================================================================
