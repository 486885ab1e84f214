---------------------------- MODULE RequestReply ----------------------------
(***************************************************************************)
(* What the game is to the two programs that play it: the server asks, one *)
(* context after the other, and the client answers each of them once, in   *)
(* the order they were asked, with one move for every hockeyist of it, or  *)
(* answers no more.                                                        *)
(***************************************************************************)
EXTENDS Naturals, Sequences

VARIABLES
  asked,     (* the contexts the server has sent    *)
  replied,   (* the moves the client has answered   *)
  over       (* the client answers no more          *)

vars == <<asked, replied, over>>

\* The moves for context c, in the order of its hockeyists.
MovesFor(c) == [i \in 1..c.size |-> [tick |-> c.tick, hockeyist |-> i]]

Ask ==
  /\ Len(asked') = Len(asked) + 1
  /\ SubSeq(asked', 1, Len(asked)) = asked
  /\ UNCHANGED <<replied, over>>

Reply ==
  /\ ~over
  /\ Len(replied) < Len(asked)
  /\ replied' = Append(replied, MovesFor(asked[Len(replied) + 1]))
  /\ UNCHANGED <<asked, over>>

Stop == ~over /\ over' = TRUE /\ UNCHANGED <<asked, replied>>

Init == asked = <<>> /\ replied = <<>> /\ over = FALSE

Next == Ask \/ Reply \/ Stop

Spec == Init /\ [][Next]_vars
=============================================================================
