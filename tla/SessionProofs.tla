--------------------------- MODULE SessionProofs ----------------------------
(***************************************************************************)
(* Theorems about Session, for any sizes of team, any number of contexts,  *)
(* any number of them sent ahead, and a server that fails or does not.     *)
(***************************************************************************)
EXTENDS Session, TLAPS

Sizes == {0} \cup TeamSizes
Messages == [type : ServerTypes, tick : Nat, size : Sizes, present : BOOLEAN,
             whole : BOOLEAN]
Moves    == [tick : Nat, hockeyist : Nat]
Requests == [type : {"AUTHENTICATION_TOKEN", "PROTOCOL_VERSION"}]
              \cup [type : {"MOVES_MESSAGE"}, moves : Seq(Moves)]

\* The types that TypeOK leaves out.
DataInv ==
  /\ toClient \in Seq(Messages) /\ toServer \in Seq(Requests)
  /\ context \in Messages /\ size \in Sizes
  /\ asked \in Seq(Messages) /\ moves \in Seq(Moves)
  /\ replied \in Seq(Seq(Moves))

\* How many messages the client has written and read, as its place tells, and
\* how many the server has taken and has sent, stray ones not counted.
Greeting == {"connect", "writeTokenMessage", "readTeamSizeMessage"}
Entering == {"writeProtocolVersionMessage", "readGameContextMessage"}

Written == IF pc \in {"connect", "writeTokenMessage"} THEN 0
           ELSE IF pc \in {"readTeamSizeMessage", "writeProtocolVersionMessage"}
                THEN 1 ELSE 2 + Len(replied)
Got     == Len(replied) + (IF pc = "move" THEN 1 ELSE 0)
Taken   == IF pc \in Greeting THEN 0
           ELSE IF pc \in Entering THEN 1 ELSE 2 + Got
Heard   == IF server = "token" THEN 0
           ELSE IF server = "version" THEN 1 ELSE 2 + answered
Sent    == IF server = "token" THEN 0
           ELSE IF server = "version" THEN 1
           ELSE IF server = "moves" THEN 2 + Len(asked) ELSE 3 + Len(asked)

\* The turns of both sides.
TurnInv ==
  /\ pc \in Greeting \cup Entering => replied = <<>> /\ moves = <<>>
  /\ server \in {"token", "version"} => asked = <<>> /\ answered = 0
  /\ server = "over" => answered = Len(asked)
  /\ Got <= Len(asked) /\ Len(asked) <= MaxContexts
  /\ Len(toServer) + Heard <= 2 + Len(replied)
  /\ pc # "ended" => /\ Len(toServer) + Heard = Written
                     /\ Len(toClient) + Taken >= Sent

IsContext(i) == toClient[i].type = "PLAYER_CONTEXT"

\* The contexts that the client has not read are on their way, each once and in
\* order, whatever else is.
ContextInv ==
  /\ \A k \in 1..Len(asked) : asked[k].tick = k
  /\ pc # "ended" =>
       /\ \A i \in 1..Len(toClient) : IsContext(i) =>
            /\ toClient[i].tick \in Got + 1..Len(asked)
            /\ toClient[i].size = asked[toClient[i].tick].size
       /\ \A i, j \in 1..Len(toClient) :
            i < j /\ IsContext(i) /\ IsContext(j) => toClient[i].tick < toClient[j].tick
       /\ \A k \in Got + 1..Len(asked) :
            \E i \in 1..Len(toClient) : IsContext(i) /\ toClient[i].tick = k

\* The moves are those for the context that is next to be answered.
MoveInv ==
  pc = "move" =>
    /\ context.tick = Got
    /\ teamSize = asked[Got].size
    /\ \A i \in 1..Len(moves) : moves[i] = [tick |-> context.tick, hockeyist |-> i]

\* What the n-th message of a server that plays by the rules is.
TypeAt(n) == IF n = 1 THEN "TEAM_SIZE"
             ELSE IF n = 2 THEN "GAME_CONTEXT"
             ELSE IF n <= 2 + Len(asked) THEN "PLAYER_CONTEXT" ELSE "GAME_OVER"

RulesInv ==
  pc # "ended" /\ ~fault =>
    /\ Len(toClient) + Taken = Sent
    /\ closed => server = "over"
    /\ pc \notin Greeting => teamSize = size
    /\ \A i \in 1..Len(toClient) :
         /\ toClient[i].type = TypeAt(Taken + i)
         /\ toClient[i].whole /\ toClient[i].present
         /\ toClient[i].type \in {"TEAM_SIZE", "PLAYER_CONTEXT"} => toClient[i].size = size

\* The inductive invariant.
IInv == /\ TypeOK /\ DataInv /\ TurnInv /\ ContextInv /\ MoveInv /\ RulesInv
        /\ PlayedToTheEnd

-----------------------------------------------------------------------------
(* Sequences.                                                              *)

LEMMA AppendIs ==
  ASSUME NEW S, NEW s \in Seq(S), NEW e \in S
  PROVE  /\ Append(s, e) \in Seq(S)
         /\ Len(Append(s, e)) = Len(s) + 1
         /\ \A i \in 1..Len(s) : Append(s, e)[i] = s[i]
         /\ Append(s, e)[Len(s) + 1] = e
         /\ Len(s) \in Nat
  OBVIOUS

LEMMA TailIs ==
  ASSUME NEW S, NEW s \in Seq(S), s # <<>>
  PROVE  /\ Tail(s) \in Seq(S)
         /\ Len(s) \in Nat \ {0}
         /\ Len(Tail(s)) = Len(s) - 1
         /\ \A i \in 1..Len(s) - 1 : Tail(s)[i] = s[i + 1]
         /\ Head(s) = s[1] /\ Head(s) \in S
  OBVIOUS

-----------------------------------------------------------------------------
(* The initial state.                                                      *)

LEMMA InitIInv == Init => IInv
<1> SUFFICES ASSUME Init PROVE IInv
  OBVIOUS
<1> USE ConstantsAssumption DEF Init
<1>1. TypeOK
  <2>1. Len(<<>>) = 0 /\ 0 \in 0..MaxContexts /\ 1..0 = {}
    OBVIOUS
  <2>2. \A i \in 1..Len(toClient) : toClient[i].type \in ServerTypes
    BY <2>1
  <2>3. pc \in WritePlaces \cup {"connect"} /\ exitCode \in Codes
    BY DEF Codes
  <2>4. Len(moves) <= teamSize /\ teamSize \in {0} \cup TeamSizes
    BY <2>1
  <2>5. QED
    BY <2>1, <2>2, <2>3, <2>4 DEF TypeOK
<1>2. DataInv
  BY DEF DataInv, Messages, Sizes, NoContext, Message, ServerTypes
<1>3. TurnInv
  BY DEF TurnInv, Greeting, Entering, Got, Heard, Written, Taken, Sent
<1>4. ContextInv
  BY DEF ContextInv, Got
<1>5. MoveInv /\ RulesInv /\ PlayedToTheEnd
  BY DEF MoveInv, RulesInv, Taken, Greeting, Sent, PlayedToTheEnd
<1>6. QED
  BY <1>1, <1>2, <1>3, <1>4, <1>5 DEF IInv

-----------------------------------------------------------------------------
(* Parts of the invariant that many steps keep for the same reason.        *)

LEMMA LengthsType ==
  ASSUME TypeOK, DataInv
  PROVE  /\ Len(toClient) \in Nat /\ Len(toServer) \in Nat /\ Len(asked) \in Nat
         /\ Len(replied) \in Nat /\ Len(moves) \in Nat /\ answered \in Nat
         /\ teamSize \in Nat /\ MaxContexts \in Nat
  BY ConstantsAssumption DEF TypeOK, DataInv

LEMMA CountsType ==
  ASSUME TypeOK, DataInv
  PROVE  /\ Written \in Nat /\ Taken \in Nat /\ Got \in Nat
         /\ Heard \in Nat /\ Sent \in Nat
  BY LengthsType DEF Written, Taken, Got, Heard, Sent

LEMMA MessageAt ==
  ASSUME NEW s \in Seq(Messages), NEW i \in 1..Len(s)
  PROVE  /\ s[i] \in Messages /\ s[i].type \in ServerTypes /\ s[i].tick \in Nat
         /\ s[i].size \in Sizes
<1>1. s[i] \in Messages
  OBVIOUS
<1>2. QED
  BY <1>1 DEF Messages

\* The process ends: nothing is promised of what is still on its way.
LEMMA EndStep ==
  ASSUME IInv, pc # "ended", pc' = "ended", exitCode' \in Codes,
         exitCode' # 10001 /\ ~fault => exitCode' = 0 /\ server = "over",
         toClient' = toClient \/ (toClient # <<>> /\ toClient' = Tail(toClient)),
         UNCHANGED <<teamSize, context, moves, replied, serverVars, toServer>>
  PROVE  IInv'
<1> USE DEF IInv, serverVars
<1>1. toClient' \in Seq(Messages)
      /\ \A i \in 1..Len(toClient') : toClient'[i].type \in ServerTypes
  <2>1. toClient \in Seq(Messages)
    BY DEF DataInv
  <2>2. toClient # <<>> => Tail(toClient) \in Seq(Messages)
    BY ONLY <2>1, TailIs
  <2>3. toClient' \in Seq(Messages)
    BY ONLY <2>1, <2>2,
            toClient' = toClient \/ (toClient # <<>> /\ toClient' = Tail(toClient))
  <2>4. QED
    BY ONLY <2>3, MessageAt
<1>2. TypeOK'
  BY <1>1 DEF TypeOK
<1>3. DataInv'
  BY <1>1 DEF DataInv
<1>4. TurnInv'
  BY LengthsType DEF TurnInv, Got, Heard, Greeting, Entering
<1>5. ContextInv' /\ MoveInv' /\ RulesInv'
  BY DEF ContextInv, MoveInv, RulesInv
<1>6. PlayedToTheEnd'
  BY DEF PlayedToTheEnd, TurnInv
<1>7. QED
  BY <1>2, <1>3, <1>4, <1>5, <1>6

\* The messages on their way are the same, as far as contexts go.
LEMMA ContextSame ==
  ASSUME ContextInv, asked' = asked, Got' = Got, pc' # "ended" => pc # "ended",
         Len(toClient') = Len(toClient),
         \A i \in 1..Len(toClient) : /\ toClient'[i].type = toClient[i].type
                                     /\ toClient'[i].tick = toClient[i].tick
                                     /\ toClient'[i].size = toClient[i].size
  PROVE  ContextInv'
<1>1. \A i \in 1..Len(toClient) : IsContext(i)' <=> IsContext(i)
  BY DEF IsContext
<1>2. pc' # "ended" => \A i \in 1..Len(toClient) : IsContext(i) =>
         /\ toClient'[i].tick \in Got + 1..Len(asked)
         /\ toClient'[i].size = asked[toClient'[i].tick].size
  BY DEF ContextInv
<1>3. pc' # "ended" => \A i, j \in 1..Len(toClient) :
         i < j /\ IsContext(i) /\ IsContext(j) => toClient'[i].tick < toClient'[j].tick
  BY DEF ContextInv
<1>4. pc' # "ended" => \A k \in Got + 1..Len(asked) :
         \E i \in 1..Len(toClient) : IsContext(i) /\ toClient'[i].tick = k
  BY DEF ContextInv
<1>5. QED
  BY <1>1, <1>2, <1>3, <1>4 DEF ContextInv

\* Another message that is not a context is sent.
LEMMA ContextAppend ==
  ASSUME TypeOK, DataInv, ContextInv, asked' = asked, Got' = Got, pc' = pc,
         NEW msg \in Messages, msg.type # "PLAYER_CONTEXT",
         toClient' = Append(toClient, msg)
  PROVE  ContextInv'
<1>1. /\ Len(toClient') = Len(toClient) + 1 /\ Len(toClient) \in Nat
      /\ \A i \in 1..Len(toClient) : toClient'[i] = toClient[i]
      /\ toClient'[Len(toClient) + 1] = msg
  BY AppendIs DEF DataInv
<1>2. \A i \in 1..Len(toClient') :
         IsContext(i)' => i \in 1..Len(toClient) /\ IsContext(i) /\ toClient'[i] = toClient[i]
  BY <1>1 DEF IsContext
<1>3. \A i \in 1..Len(toClient) : i \in 1..Len(toClient') /\ (IsContext(i) => IsContext(i)')
  BY <1>1 DEF IsContext
<1>4. /\ \A k \in 1..Len(asked') : asked'[k].tick = k
      /\ pc' # "ended" => \A i \in 1..Len(toClient') : IsContext(i)' =>
            /\ toClient'[i].tick \in Got' + 1..Len(asked')
            /\ toClient'[i].size = asked'[toClient'[i].tick].size
  BY <1>2 DEF ContextInv
<1>5. pc' # "ended" => \A i, j \in 1..Len(toClient') :
         i < j /\ IsContext(i)' /\ IsContext(j)' => toClient'[i].tick < toClient'[j].tick
  BY <1>2 DEF ContextInv
<1>6. pc' # "ended" => \A k \in Got' + 1..Len(asked') :
         \E i \in 1..Len(toClient') : IsContext(i)' /\ toClient'[i].tick = k
  BY <1>1, <1>3 DEF ContextInv
<1>7. QED
  BY <1>4, <1>5, <1>6 DEF ContextInv

\* A message is read.  If it is a context, it is the next.
LEMMA ContextTail ==
  ASSUME TypeOK, DataInv, ContextInv, toClient # <<>>, pc # "ended"
  PROVE  /\ Head(toClient).type = "PLAYER_CONTEXT" =>
              /\ Got + 1 <= Len(asked)
              /\ Head(toClient).tick = Got + 1
              /\ Head(toClient).size = asked[Got + 1].size
         /\ (/\ toClient' = Tail(toClient) /\ asked' = asked
             /\ Got' = Got + (IF Head(toClient).type = "PLAYER_CONTEXT" THEN 1 ELSE 0))
              => ContextInv'
<1>1. /\ Len(Tail(toClient)) = Len(toClient) - 1 /\ Len(toClient) \in Nat \ {0}
      /\ \A i \in 1..Len(toClient) - 1 : Tail(toClient)[i] = toClient[i + 1]
      /\ Head(toClient) = toClient[1]
      /\ \A i \in 1..Len(toClient) : toClient[i].tick \in Nat
  BY TailIs, MessageAt DEF DataInv
<1>2. Got \in Nat /\ Len(asked) \in Nat
  BY LengthsType DEF Got
<1>3. ASSUME Head(toClient).type = "PLAYER_CONTEXT"
      PROVE  /\ Got + 1 <= Len(asked)
             /\ Head(toClient).tick = Got + 1
             /\ Head(toClient).size = asked[Got + 1].size
  <2>1. IsContext(1) /\ 1 \in 1..Len(toClient)
    BY <1>1, <1>3 DEF IsContext
  <2>2. /\ toClient[1].tick \in Got + 1..Len(asked)
        /\ toClient[1].size = asked[toClient[1].tick].size
    BY <2>1 DEF ContextInv
  <2>3. PICK i \in 1..Len(toClient) : IsContext(i) /\ toClient[i].tick = Got + 1
    BY <2>2, <1>2 DEF ContextInv
  <2>4. i = 1 \/ toClient[1].tick < Got + 1
    BY <2>1, <2>3, <1>1 DEF ContextInv
  <2>5. QED
    BY <2>2, <2>3, <2>4, <1>1, <1>2
<1>4. ASSUME toClient' = Tail(toClient), asked' = asked,
             Got' = Got + (IF Head(toClient).type = "PLAYER_CONTEXT" THEN 1 ELSE 0)
      PROVE  ContextInv'
  <2>1. Len(toClient') = Len(toClient) - 1
    BY <1>1, <1>4
  <2>2. \A i \in 1..Len(toClient') :
           /\ i + 1 \in 1..Len(toClient) /\ toClient'[i] = toClient[i + 1]
           /\ IsContext(i)' <=> IsContext(i + 1)
    BY <1>1, <1>4, <2>1 DEF IsContext
  <2>3. \A i \in 1..Len(toClient') : IsContext(i)' =>
           /\ toClient'[i].tick \in Got' + 1..Len(asked)
           /\ toClient'[i].size = asked[toClient'[i].tick].size
    <3> SUFFICES ASSUME NEW i \in 1..Len(toClient'), IsContext(i)'
                 PROVE  /\ toClient'[i].tick \in Got' + 1..Len(asked)
                        /\ toClient'[i].size = asked[toClient'[i].tick].size
      OBVIOUS
    <3>1. /\ i + 1 \in 1..Len(toClient) /\ toClient'[i] = toClient[i + 1]
          /\ IsContext(i + 1)
      BY <2>2
    <3>2. /\ toClient[i + 1].tick \in Got + 1..Len(asked)
          /\ toClient[i + 1].size = asked[toClient[i + 1].tick].size
      BY <3>1 DEF ContextInv
    <3>3. Head(toClient).type = "PLAYER_CONTEXT" => Got + 1 < toClient[i + 1].tick
      <4> SUFFICES ASSUME Head(toClient).type = "PLAYER_CONTEXT"
                   PROVE  Got + 1 < toClient[i + 1].tick
        OBVIOUS
      <4>1. IsContext(1) /\ 1 \in 1..Len(toClient) /\ 1 < i + 1
        BY <1>1, <3>1, <2>1 DEF IsContext
      <4>2. toClient[1].tick < toClient[i + 1].tick
        BY <4>1, <3>1 DEF ContextInv
      <4>3. QED
        BY <4>2, <1>3, <1>1
    <3>4. QED
      BY <3>1, <3>2, <3>3, <1>4, <1>2
  <2>4. \A i, j \in 1..Len(toClient') :
           i < j /\ IsContext(i)' /\ IsContext(j)' => toClient'[i].tick < toClient'[j].tick
    <3> SUFFICES ASSUME NEW i \in 1..Len(toClient'), NEW j \in 1..Len(toClient'),
                        i < j, IsContext(i)', IsContext(j)'
                 PROVE  toClient'[i].tick < toClient'[j].tick
      OBVIOUS
    <3>1. i + 1 < j + 1 /\ IsContext(i + 1) /\ IsContext(j + 1)
          /\ i + 1 \in 1..Len(toClient) /\ j + 1 \in 1..Len(toClient)
      BY <2>2, <2>1, <1>1
    <3>2. toClient[i + 1].tick < toClient[j + 1].tick
      BY <3>1 DEF ContextInv
    <3>3. QED
      BY <3>2, <2>2
  <2>5. ASSUME NEW k \in Got' + 1..Len(asked)
        PROVE  \E i \in 1..Len(toClient') : IsContext(i)' /\ toClient'[i].tick = k
    <3>1. k \in Got + 1..Len(asked)
      BY <1>2, <1>4
    <3>2. PICK i \in 1..Len(toClient) : IsContext(i) /\ toClient[i].tick = k
      BY <3>1 DEF ContextInv
    <3>3. i # 1
      BY <3>2, <1>1, <1>2, <1>3, <1>4 DEF IsContext
    <3>4. i - 1 \in 1..Len(toClient') /\ (i - 1) + 1 = i
      BY <3>3, <2>1, <1>1
    <3>5. IsContext(i - 1)' /\ toClient'[i - 1].tick = k
      BY <3>2, <3>4, <2>2
    <3>6. QED
      BY <3>4, <3>5
  <2>6. QED
    BY <2>3, <2>4, <2>5, <1>4 DEF ContextInv
<1>5. QED
  BY <1>3, <1>4

LEMMA RulesTail ==
  ASSUME TypeOK, DataInv, RulesInv, pc # "ended", toClient # <<>>, Taken \in Nat,
         toClient' = Tail(toClient), Taken' = Taken + 1, UNCHANGED serverVars,
         pc' \notin Greeting /\ ~fault => teamSize' = size
  PROVE  RulesInv'
<1> SUFFICES ASSUME ~fault
             PROVE  RulesInv'
  BY DEF RulesInv, serverVars
<1> USE DEF serverVars
<1>1. /\ Len(toClient') = Len(toClient) - 1 /\ Len(toClient) \in Nat \ {0}
      /\ \A i \in 1..Len(toClient') : toClient'[i] = toClient[i + 1]
  BY TailIs DEF DataInv
<1>2. Len(toClient') + Taken' = Sent'
  <2>1. Sent' = Sent
    BY DEF Sent
  <2>2. Len(toClient) + Taken = Sent
    BY DEF RulesInv
  <2>3. Taken' = Taken + 1 /\ Taken \in Nat
    OBVIOUS
  <2>4. QED
    BY ONLY <1>1, <2>1, <2>2, <2>3
<1>3. ASSUME NEW i \in 1..Len(toClient')
      PROVE  /\ toClient'[i].type = TypeAt(Taken + i)'
             /\ toClient'[i].whole /\ toClient'[i].present
             /\ toClient'[i].type \in {"TEAM_SIZE", "PLAYER_CONTEXT"} =>
                  toClient'[i].size = size
  <2>1. i + 1 \in 1..Len(toClient) /\ Taken' + i = Taken + (i + 1)
    BY <1>1
  <2>2. TypeAt(Taken + i)' = TypeAt(Taken + (i + 1))
    BY <2>1 DEF TypeAt
  <2>3. QED
    BY <1>1, <2>1, <2>2 DEF RulesInv
<1>4. QED
  BY <1>2, <1>3 DEF RulesInv

\* The next message of a server that plays by the rules.
LEMMA RulesHead ==
  ASSUME TypeOK, DataInv, RulesInv, pc # "ended", ~fault, toClient # <<>>
  PROVE  /\ Head(toClient).type = TypeAt(Taken + 1)
         /\ Head(toClient).whole /\ Head(toClient).present
         /\ Head(toClient).type \in {"TEAM_SIZE", "PLAYER_CONTEXT"} =>
              Head(toClient).size = size
<1>1. 1 \in 1..Len(toClient) /\ Head(toClient) = toClient[1]
  BY TailIs DEF DataInv
<1>2. QED
  BY <1>1 DEF RulesInv

-----------------------------------------------------------------------------
(* What the reading actions do, without the operator they share.           *)

ReadEnds(code) ==
  /\ pc' = "ended" /\ exitCode' = code
  /\ UNCHANGED <<teamSize, context, moves>>

ReadBegins ==
  /\ toClient # <<>> /\ toClient' = Tail(toClient)
  /\ UNCHANGED <<replied, serverVars, toServer>>

LEMMA ReadTeamSizeIs ==
  ASSUME readTeamSizeMessage
  PROVE  /\ pc = "readTeamSizeMessage" /\ ReadBegins
         /\ \/ Head(toClient).type # "TEAM_SIZE" /\ ReadEnds(10011)
            \/ ~Head(toClient).whole /\ ReadEnds(10012)
            \/ /\ Head(toClient).type = "TEAM_SIZE"
               /\ teamSize' = Head(toClient).size
               /\ pc' = "writeProtocolVersionMessage"
               /\ UNCHANGED <<context, moves, exitCode>>
  BY DEF readTeamSizeMessage, Read, ReadBegins, ReadEnds, exit

LEMMA ReadGameIs ==
  ASSUME readGameContextMessage
  PROVE  /\ pc = "readGameContextMessage" /\ ReadBegins
         /\ \/ Head(toClient).type # "GAME_CONTEXT" /\ ReadEnds(10011)
            \/ ~Head(toClient).whole /\ ReadEnds(10012)
            \/ ~Head(toClient).present /\ ReadEnds(20001)
            \/ /\ Head(toClient).type = "GAME_CONTEXT"
               /\ pc' = "readPlayerContextMessage"
               /\ UNCHANGED <<teamSize, context, moves, exitCode>>
  BY DEF readGameContextMessage, Read, ReadBegins, ReadEnds, exit

LEMMA ReadContextIs ==
  ASSUME readPlayerContextMessage
  PROVE  /\ pc = "readPlayerContextMessage" /\ ReadBegins
         /\ \/ Head(toClient).type \notin {"GAME_OVER", "PLAYER_CONTEXT"} /\ ReadEnds(10011)
            \/ ~Head(toClient).whole /\ ReadEnds(10012)
            \/ /\ \/ Head(toClient).type = "GAME_OVER" \/ ~Head(toClient).present
                  \/ Head(toClient).size # teamSize
               /\ ReadEnds(0)
            \/ /\ Head(toClient).type = "PLAYER_CONTEXT"
               /\ Head(toClient).size = teamSize
               /\ pc' = "move"
               /\ context' = Head(toClient) /\ moves' = <<>>
               /\ UNCHANGED <<teamSize, exitCode>>
  BY DEF readPlayerContextMessage, Read, ReadBegins, ReadEnds, exit

-----------------------------------------------------------------------------
(* The client reads.                                                       *)

LEMMA ReadTypes ==
  ASSUME IInv, ReadBegins
  PROVE  /\ toClient' \in Seq(Messages) /\ Len(toClient') = Len(toClient) - 1
         /\ \A i \in 1..Len(toClient') : toClient'[i].type \in ServerTypes
         /\ Head(toClient) \in Messages /\ Head(toClient).size \in Sizes
<1>1. /\ toClient' \in Seq(Messages) /\ Len(toClient') = Len(toClient) - 1
      /\ Head(toClient) = toClient[1] /\ 1 \in 1..Len(toClient)
      /\ toClient \in Seq(Messages)
  BY TailIs DEF IInv, DataInv, ReadBegins
<1>2. QED
  BY <1>1, MessageAt

LEMMA ReadEndsStep ==
  ASSUME IInv, pc # "ended", ReadBegins, NEW code \in Codes, ReadEnds(code),
         fault \/ (code = 0 /\ server = "over")
  PROVE  IInv'
<1>1. \/ toClient' = toClient
      \/ toClient # <<>> /\ toClient' = Tail(toClient)
  BY DEF ReadBegins
<1>2. QED
  BY <1>1, EndStep DEF ReadBegins, ReadEnds

LEMMA TeamSizeStep ==
  ASSUME IInv, readTeamSizeMessage
  PROVE  IInv'
<1> USE DEF IInv, Codes
<1>1. /\ pc = "readTeamSizeMessage" /\ ReadBegins /\ Taken = 0 /\ pc \in Greeting
      /\ Got = Len(replied) /\ pc # "ended" /\ toClient # <<>>
  BY ReadTeamSizeIs DEF Taken, Greeting, Got, ReadBegins
<1>2. ~fault => Head(toClient).type = "TEAM_SIZE" /\ Head(toClient).whole
                /\ Head(toClient).size = size
  BY <1>1, RulesHead DEF TypeAt
<1>3. CASE Head(toClient).type # "TEAM_SIZE" /\ ReadEnds(10011)
  BY <1>1, <1>2, <1>3, ReadEndsStep
<1>4. CASE ~Head(toClient).whole /\ ReadEnds(10012)
  BY <1>1, <1>2, <1>4, ReadEndsStep
<1>5. CASE /\ Head(toClient).type = "TEAM_SIZE"
           /\ teamSize' = Head(toClient).size
           /\ pc' = "writeProtocolVersionMessage"
           /\ UNCHANGED <<context, moves, exitCode>>
  <2> USE <1>1, <1>5 DEF ReadBegins, serverVars
  <2>1. replied = <<>> /\ moves = <<>> /\ Len(moves) = 0
    BY DEF TurnInv
  <2>2. TypeOK'
    <3>1. teamSize' \in {0} \cup TeamSizes
      BY ReadTypes DEF Sizes
    <3>2. teamSize' \in Nat
      BY <3>1, ConstantsAssumption
    <3>3. Len(moves') = 0
      BY <2>1
    <3>4. QED
      BY <3>1, <3>2, <3>3, ReadTypes DEF TypeOK, WritePlaces
  <2>3. DataInv'
    BY ReadTypes DEF DataInv
  <2>4. Taken' = 1 /\ Written' = 1 /\ Written = 1 /\ Heard' = Heard /\ Sent' = Sent
        /\ Got' = Got /\ pc' \in Entering
    BY DEF Taken, Written, Heard, Sent, Got, Greeting, Entering
  <2>5. TurnInv'
    BY <2>1, <2>4, ReadTypes, LengthsType DEF TurnInv
  <2>6. ContextInv'
    BY <2>4, ContextTail, LengthsType
  <2>7. RulesInv'
    BY <2>4, <1>2, RulesTail
  <2>8. MoveInv' /\ PlayedToTheEnd'
    BY DEF MoveInv, PlayedToTheEnd
  <2>9. QED
    BY <2>2, <2>3, <2>5, <2>6, <2>7, <2>8
<1>6. QED
  BY <1>3, <1>4, <1>5, ReadTeamSizeIs

LEMMA GameStep ==
  ASSUME IInv, readGameContextMessage
  PROVE  IInv'
<1> USE DEF IInv, Codes
<1>1. /\ pc = "readGameContextMessage" /\ ReadBegins /\ Taken = 1 /\ pc \in Entering
      /\ pc \notin Greeting /\ Got = Len(replied) /\ pc # "ended" /\ toClient # <<>>
  BY ReadGameIs DEF Taken, Greeting, Entering, Got, ReadBegins
<1>2. ~fault => /\ Head(toClient).type = "GAME_CONTEXT"
                /\ Head(toClient).whole /\ Head(toClient).present
  BY <1>1, RulesHead DEF TypeAt
<1>3. CASE Head(toClient).type # "GAME_CONTEXT" /\ ReadEnds(10011)
  BY <1>1, <1>2, <1>3, ReadEndsStep
<1>4. CASE ~Head(toClient).whole /\ ReadEnds(10012)
  BY <1>1, <1>2, <1>4, ReadEndsStep
<1>5. CASE ~Head(toClient).present /\ ReadEnds(20001)
  BY <1>1, <1>2, <1>5, ReadEndsStep
<1>6. CASE /\ Head(toClient).type = "GAME_CONTEXT"
           /\ pc' = "readPlayerContextMessage"
           /\ UNCHANGED <<teamSize, context, moves, exitCode>>
  <2> USE <1>1, <1>6 DEF ReadBegins, serverVars
  <2>1. replied = <<>> /\ Len(replied) = 0
    BY DEF TurnInv
  <2>2. TypeOK'
    BY ReadTypes DEF TypeOK, ReadPlaces
  <2>3. DataInv'
    BY ReadTypes DEF DataInv
  <2>4. Taken' = 2 /\ Written' = 2 /\ Written = 2 /\ Heard' = Heard /\ Sent' = Sent
        /\ Got' = Got /\ pc' \notin Greeting \cup Entering
    BY <2>1 DEF Taken, Written, Heard, Sent, Got, Greeting, Entering
  <2>5. TurnInv'
    BY <2>1, <2>4, ReadTypes, LengthsType DEF TurnInv
  <2>6. ContextInv'
    BY <2>4, ContextTail, LengthsType
  <2>7. ~fault => teamSize' = size
    BY DEF RulesInv
  <2>8. RulesInv'
    BY <2>4, <2>7, RulesTail
  <2>9. MoveInv' /\ PlayedToTheEnd'
    BY DEF MoveInv, PlayedToTheEnd
  <2>10. QED
    BY <2>2, <2>3, <2>5, <2>6, <2>8, <2>9
<1>7. QED
  BY <1>3, <1>4, <1>5, <1>6, ReadGameIs

LEMMA ContextStep ==
  ASSUME IInv, readPlayerContextMessage
  PROVE  IInv'
<1> USE DEF IInv, Codes
<1>1. /\ pc = "readPlayerContextMessage" /\ ReadBegins /\ Taken = 2 + Len(replied)
      /\ pc \notin Greeting \cup Entering /\ Got = Len(replied) /\ pc # "ended"
      /\ toClient # <<>> /\ Len(replied) \in Nat
  BY ReadContextIs, LengthsType DEF Taken, Greeting, Entering, Got, ReadBegins
<1>2. ~fault => /\ Head(toClient).type \in {"GAME_OVER", "PLAYER_CONTEXT"}
                /\ Head(toClient).whole /\ Head(toClient).present
                /\ Head(toClient).type = "PLAYER_CONTEXT" => Head(toClient).size = teamSize
                /\ Head(toClient).type = "GAME_OVER" => server = "over"
  <2> SUFFICES ASSUME ~fault
               PROVE  /\ Head(toClient).type \in {"GAME_OVER", "PLAYER_CONTEXT"}
                      /\ Head(toClient).whole /\ Head(toClient).present
                      /\ Head(toClient).type = "PLAYER_CONTEXT" => Head(toClient).size = teamSize
                      /\ Head(toClient).type = "GAME_OVER" => server = "over"
    OBVIOUS
  <2>1. /\ Head(toClient).type = TypeAt(3 + Len(replied))
        /\ Head(toClient).whole /\ Head(toClient).present
        /\ Head(toClient).type = "PLAYER_CONTEXT" => Head(toClient).size = size
    <3>1. Taken + 1 = 3 + Len(replied)
      BY <1>1
    <3>2. QED
      BY <1>1, <3>1, RulesHead
  <2>2. teamSize = size /\ Len(toClient) + Taken = Sent
    BY <1>1 DEF RulesInv
  <2>3. /\ TypeAt(3 + Len(replied)) \in {"GAME_OVER", "PLAYER_CONTEXT"}
        /\ TypeAt(3 + Len(replied)) = "GAME_OVER" => Len(replied) >= Len(asked)
    BY <1>1, LengthsType DEF TypeAt
  <2>4. Len(toClient) >= 1
    BY <1>1, TailIs DEF DataInv
  <2>5. server # "over" => Sent <= 2 + Len(asked)
    BY LengthsType DEF Sent, TypeOK
  <2>6. QED
    BY <2>1, <2>2, <2>3, <2>4, <2>5, <1>1, LengthsType
<1>3. CASE Head(toClient).type \notin {"GAME_OVER", "PLAYER_CONTEXT"} /\ ReadEnds(10011)
  BY <1>1, <1>2, <1>3, ReadEndsStep
<1>4. CASE ~Head(toClient).whole /\ ReadEnds(10012)
  BY <1>1, <1>2, <1>4, ReadEndsStep
<1>5. CASE /\ \/ Head(toClient).type = "GAME_OVER" \/ ~Head(toClient).present
              \/ Head(toClient).size # teamSize
           /\ ReadEnds(0)
  BY <1>1, <1>2, <1>5, ReadEndsStep
<1>6. CASE /\ Head(toClient).type = "PLAYER_CONTEXT"
           /\ Head(toClient).size = teamSize
           /\ pc' = "move"
           /\ context' = Head(toClient) /\ moves' = <<>>
           /\ UNCHANGED <<teamSize, exitCode>>
  <2> USE <1>1, <1>6 DEF ReadBegins, serverVars
  <2>1. Len(moves') = 0 /\ moves' \in Seq(Moves)
    OBVIOUS
  <2>2. TypeOK'
    BY <2>1, ReadTypes, LengthsType DEF TypeOK
  <2>3. DataInv'
    BY <2>1, ReadTypes DEF DataInv
  <2>4. /\ Taken' = Taken + 1 /\ Written' = Written /\ Heard' = Heard /\ Sent' = Sent
        /\ Got' = Got + 1 /\ pc' \notin Greeting \cup Entering
    BY LengthsType DEF Taken, Written, Heard, Sent, Got, Greeting, Entering
  <2>5. /\ Got + 1 <= Len(asked) /\ Head(toClient).tick = Got + 1
        /\ Head(toClient).size = asked[Got + 1].size
        /\ ContextInv'
    BY <2>4, ContextTail
  <2>6. TurnInv'
    BY <2>4, <2>5, ReadTypes, LengthsType DEF TurnInv
  <2>7. ~fault => teamSize' = size
    BY DEF RulesInv
  <2>8. RulesInv'
    BY <2>4, <2>7, RulesTail
  <2>9. MoveInv' /\ PlayedToTheEnd'
    BY <2>1, <2>4, <2>5 DEF MoveInv, PlayedToTheEnd
  <2>10. QED
    BY <2>2, <2>3, <2>5, <2>6, <2>8, <2>9
<1>7. QED
  BY <1>3, <1>4, <1>5, <1>6, ReadContextIs

\* What a client that waits for a message has read and written.
LEMMA ReadFailsStep ==
  ASSUME IInv, ReadFails
  PROVE  IInv'
<1> USE DEF IInv
<1>1. /\ pc \in ReadPlaces /\ toClient = <<>> /\ closed /\ pc' = "ended"
      /\ exitCode' = 10012 /\ 10012 \in Codes
      /\ UNCHANGED <<teamSize, context, moves, replied, serverVars, toClient, toServer>>
  BY DEF ReadFails, exit, ReadPlaces, Codes
<1>2. fault
  <2> SUFFICES ASSUME ~fault PROVE FALSE
    OBVIOUS
  <2>1. Taken = Sent /\ server = "over"
    BY <1>1, LengthsType DEF RulesInv, ReadPlaces, Taken, Got
  <2>2. Taken <= 2 + Len(asked)
    BY <1>1, LengthsType DEF Taken, Got, TurnInv, ReadPlaces, Greeting, Entering
  <2>3. QED
    BY <2>1, <2>2, LengthsType DEF Sent
<1>3. pc # "ended"
  BY <1>1 DEF ReadPlaces
<1>4. QED
  BY <1>1, <1>2, <1>3, EndStep

-----------------------------------------------------------------------------
(* The client connects, moves and writes.                                  *)

\* Nothing of a server that plays by the rules changes when the client does
\* not read.
LEMMA RulesSame ==
  ASSUME RulesInv, pc # "ended", Taken' = Taken, UNCHANGED <<toClient, serverVars>>,
         pc' \notin Greeting /\ ~fault => teamSize' = size
  PROVE  RulesInv'
<1>1. Sent' = Sent
  BY DEF serverVars, Sent
<1>2. \A n : TypeAt(n)' = TypeAt(n)
  BY DEF serverVars, TypeAt
<1>3. QED
  BY <1>1, <1>2 DEF RulesInv, serverVars

\* A server that plays by the rules does not close before it has the moves.
LEMMA WriteFailsBecauseOfFault ==
  ASSUME IInv, pc \in WritePlaces \cup {"move"}, closed
  PROVE  fault
<1> SUFFICES ASSUME ~fault PROVE FALSE
  OBVIOUS
<1> USE DEF IInv
<1>1. server = "over" /\ pc # "ended"
  BY DEF RulesInv, WritePlaces
<1>2. Heard = 2 + Len(asked) /\ Written >= Heard
  BY <1>1, LengthsType DEF TurnInv, Heard, Written
<1>3. Written <= 1 \/ (pc = "move" /\ Written = 2 + Len(replied))
  BY DEF Written, WritePlaces
<1>4. pc = "move" => Len(replied) < Len(asked)
  BY LengthsType DEF TurnInv, Got
<1>5. QED
  BY <1>2, <1>3, <1>4, LengthsType, CountsType

LEMMA ConnectStep ==
  ASSUME IInv, Connect
  PROVE  IInv'
<1> USE DEF IInv
<1>1. /\ pc = "connect" /\ UNCHANGED <<teamSize, context, moves, replied, serverVars,
                                       toClient, toServer>>
      /\ \/ pc' = "writeTokenMessage" /\ exitCode' = exitCode
         \/ pc' = "ended" /\ exitCode' = 10001
  BY DEF Connect, exit
<1>2. CASE pc' = "ended" /\ exitCode' = 10001
  BY <1>1, <1>2, EndStep DEF Codes
<1>3. CASE pc' = "writeTokenMessage" /\ exitCode' = exitCode
  <2> USE <1>1, <1>3
  <2>1. /\ Taken' = Taken /\ Written' = Written /\ Heard' = Heard /\ Sent' = Sent
        /\ Got' = Got /\ pc' \in Greeting /\ pc \in Greeting
    BY DEF Taken, Written, Heard, Sent, Got, Greeting, Entering, serverVars
  <2>2. TypeOK' /\ DataInv'
    BY DEF TypeOK, DataInv, WritePlaces, serverVars
  <2>3. TurnInv'
    BY <2>1 DEF TurnInv, serverVars
  <2>4. ContextInv'
    BY <2>1, ContextSame DEF serverVars
  <2>5. RulesInv'
    BY <2>1, RulesSame
  <2>6. MoveInv' /\ PlayedToTheEnd'
    BY DEF MoveInv, PlayedToTheEnd
  <2>7. QED
    BY <2>2, <2>3, <2>4, <2>5, <2>6
<1>4. QED
  BY <1>1, <1>2, <1>3

LEMMA MoveStep ==
  ASSUME IInv, move
  PROVE  IInv'
<1> USE DEF IInv
<1>1. /\ pc = "move" /\ pc' = "move" /\ Len(moves) < teamSize
      /\ moves' = Append(moves, [tick |-> context.tick, hockeyist |-> Len(moves) + 1])
      /\ UNCHANGED <<teamSize, context, exitCode, replied, serverVars, toClient, toServer>>
  BY DEF move
<1> USE <1>1
<1>2. [tick |-> context.tick, hockeyist |-> Len(moves) + 1] \in Moves
  BY LengthsType DEF DataInv, Moves, Messages
<1>3. /\ moves' \in Seq(Moves) /\ Len(moves') = Len(moves) + 1
      /\ \A i \in 1..Len(moves) : moves'[i] = moves[i]
      /\ moves'[Len(moves) + 1] = [tick |-> context.tick, hockeyist |-> Len(moves) + 1]
  BY <1>2, AppendIs DEF DataInv
<1>4. Len(moves') <= teamSize'
  BY <1>3, LengthsType
<1>5. TypeOK' /\ DataInv'
  BY <1>3, <1>4 DEF TypeOK, DataInv, serverVars
<1>6. /\ Taken' = Taken /\ Written' = Written /\ Heard' = Heard /\ Sent' = Sent
      /\ Got' = Got /\ pc' \notin Greeting \cup Entering /\ pc \notin Greeting
  BY DEF Taken, Written, Heard, Sent, Got, Greeting, Entering, serverVars
<1>7. TurnInv'
  BY <1>6 DEF TurnInv, serverVars
<1>8. ContextInv'
  BY <1>6, ContextSame DEF serverVars
<1>9. RulesInv'
  BY <1>6, RulesSame DEF RulesInv
<1>10. MoveInv'
  BY <1>3, <1>6, LengthsType DEF MoveInv, serverVars
<1>11. PlayedToTheEnd'
  BY DEF PlayedToTheEnd
<1>12. QED
  BY <1>5, <1>7, <1>8, <1>9, <1>10, <1>11

\* Writing a message of the handshake.
LEMMA GreetStep ==
  ASSUME IInv, writeTokenMessage \/ writeProtocolVersionMessage
  PROVE  IInv'
<1> USE DEF IInv
<1>1. /\ pc \in WritePlaces
      /\ UNCHANGED <<teamSize, context, moves, replied, serverVars, toClient>>
      /\ \/ /\ \E msg \in Requests : toServer' = Append(toServer, msg)
            /\ exitCode' = exitCode
            /\ \/ pc = "writeTokenMessage" /\ pc' = "readTeamSizeMessage"
               \/ pc = "writeProtocolVersionMessage" /\ pc' = "readGameContextMessage"
         \/ closed /\ pc' = "ended" /\ exitCode' = 10013 /\ toServer' = toServer
  <2>1. CASE writeTokenMessage
    <3>1. [type |-> "AUTHENTICATION_TOKEN"] \in Requests
      BY DEF Requests
    <3>2. QED
      BY <2>1, <3>1 DEF writeTokenMessage, Write, exit, WritePlaces
  <2>2. CASE writeProtocolVersionMessage
    <3>1. [type |-> "PROTOCOL_VERSION"] \in Requests
      BY DEF Requests
    <3>2. QED
      BY <2>2, <3>1 DEF writeProtocolVersionMessage, Write, exit, WritePlaces
  <2>3. QED
    BY <2>1, <2>2
<1>2. pc # "ended"
  BY <1>1 DEF WritePlaces
<1>3. CASE closed /\ pc' = "ended" /\ exitCode' = 10013 /\ toServer' = toServer
  <2>1. fault /\ 10013 \in Codes
    BY <1>1, <1>3, WriteFailsBecauseOfFault DEF Codes
  <2>2. QED
    BY <1>1, <1>2, <1>3, <2>1, EndStep
<1>4. ASSUME NEW msg \in Requests, toServer' = Append(toServer, msg), exitCode' = exitCode,
             \/ pc = "writeTokenMessage" /\ pc' = "readTeamSizeMessage"
             \/ pc = "writeProtocolVersionMessage" /\ pc' = "readGameContextMessage"
      PROVE  IInv'
  <2> USE <1>1, <1>2, <1>4
  <2>1. toServer' \in Seq(Requests) /\ Len(toServer') = Len(toServer) + 1
    BY AppendIs DEF DataInv
  <2>2. /\ Taken' = Taken /\ Written' = Written + 1 /\ Heard' = Heard /\ Sent' = Sent
        /\ Got' = Got /\ pc' \in Greeting \cup Entering
        /\ pc \in Greeting \cup Entering
        /\ pc' \in Greeting <=> pc \in Greeting
        /\ pc = "writeProtocolVersionMessage" => replied = <<>> /\ Len(replied) = 0
    BY DEF Taken, Written, Heard, Sent, Got, Greeting, Entering, serverVars, TurnInv
  <2>3. TypeOK' /\ DataInv'
    BY <2>1 DEF TypeOK, DataInv, ReadPlaces, serverVars
  <2>4. Written' <= 2
    BY <2>2 DEF Written
  <2>5. TurnInv'
    <3>1. /\ Len(toServer) + Heard = Written /\ Len(toClient) + Taken >= Sent
          /\ Len(toServer) \in Nat /\ Heard \in Nat /\ Written \in Nat
          /\ Len(replied) \in Nat
      BY LengthsType, CountsType DEF TurnInv
    <3>2. Len(toServer') + Heard' = Written'
      BY ONLY <2>1, <2>2, <3>1
    <3>3. Len(toServer') + Heard' <= 2 + Len(replied)
      BY ONLY <2>1, <2>2, <2>4, <3>1, <3>2
    <3>4. Len(toClient') + Taken' >= Sent'
      BY <2>2, <3>1
    <3>5. QED
      BY <2>2, <3>2, <3>3, <3>4 DEF TurnInv, serverVars
  <2>6. ContextInv'
    BY <2>2, ContextSame DEF serverVars
  <2>7. RulesInv'
    BY <2>2, RulesSame DEF RulesInv
  <2>8. MoveInv' /\ PlayedToTheEnd'
    BY DEF MoveInv, PlayedToTheEnd
  <2>9. QED
    BY <2>3, <2>5, <2>6, <2>7, <2>8
<1>5. QED
  BY <1>1, <1>3, <1>4

LEMMA WriteMovesStep ==
  ASSUME IInv, writeMovesMessage
  PROVE  IInv'
<1> USE DEF IInv
<1> DEFINE msg == [type |-> "MOVES_MESSAGE", moves |-> moves]
<1>1. /\ pc = "move" /\ pc # "ended"
      /\ UNCHANGED <<teamSize, context, moves, serverVars, toClient>>
      /\ \/ /\ toServer' = Append(toServer, msg) /\ exitCode' = exitCode
            /\ pc' = "readPlayerContextMessage" /\ replied' = Append(replied, moves)
         \/ /\ closed /\ pc' = "ended" /\ exitCode' = 10013 /\ toServer' = toServer
            /\ replied' = replied
  BY DEF writeMovesMessage, Write, exit
<1>2. CASE /\ closed /\ pc' = "ended" /\ exitCode' = 10013 /\ toServer' = toServer
           /\ replied' = replied
  <2>1. fault /\ 10013 \in Codes
    BY <1>1, <1>2, WriteFailsBecauseOfFault DEF Codes
  <2>2. QED
    BY <1>1, <1>2, <2>1, EndStep
<1>3. CASE /\ toServer' = Append(toServer, msg) /\ exitCode' = exitCode
           /\ pc' = "readPlayerContextMessage" /\ replied' = Append(replied, moves)
  <2> USE <1>1, <1>3
  <2>1. msg \in Requests
    BY DEF Requests, DataInv
  <2>2. toServer' \in Seq(Requests) /\ Len(toServer') = Len(toServer) + 1
    BY <2>1, AppendIs DEF DataInv
  <2>3. replied' \in Seq(Seq(Moves)) /\ Len(replied') = Len(replied) + 1
    BY AppendIs DEF DataInv
  <2>4. /\ Taken' = Taken /\ Written' = Written + 1 /\ Heard' = Heard /\ Sent' = Sent
        /\ Got' = Got /\ pc' \notin Greeting \cup Entering /\ pc \notin Greeting
    BY <2>3, LengthsType DEF Taken, Written, Heard, Sent, Got, Greeting, Entering, serverVars
  <2>5. TypeOK' /\ DataInv'
    BY <2>2, <2>3 DEF TypeOK, DataInv, ReadPlaces, serverVars
  <2>6. TurnInv'
    <3>1. Len(toServer) + Heard <= 2 + Len(replied)
      BY DEF TurnInv
    <3>2. Len(toServer) + Heard = Written
      BY DEF TurnInv
    <3> HIDE <1>1, <1>3
    <3>3. /\ Len(toServer) \in Nat /\ Len(replied) \in Nat /\ Heard \in Nat
          /\ Heard' = Heard
      BY <2>4, LengthsType, CountsType
    <3>4. Len(toServer') = Len(toServer) + 1 /\ Len(replied') = Len(replied) + 1
      BY <2>2, <2>3
    <3>5. Len(toServer') + Heard' <= 2 + Len(replied')
      BY <3>1, <3>3, <3>4
    <3>6. Len(toServer') + Heard' = Written'
      BY <2>4, <3>2, <3>3, <3>4
    <3>7. Len(toClient') + Taken' >= Sent'
      BY <1>1, <2>4 DEF TurnInv
    <3>8. QED
      BY <3>5, <3>6, <3>7, <2>4, <1>1, <1>3 DEF TurnInv, serverVars
  <2>7. ContextInv'
    BY <2>4, ContextSame DEF serverVars
  <2>8. RulesInv'
    BY <2>4, RulesSame DEF RulesInv
  <2>9. MoveInv' /\ PlayedToTheEnd'
    BY DEF MoveInv, PlayedToTheEnd
  <2>10. QED
    BY <2>5, <2>6, <2>7, <2>8, <2>9
<1>4. QED
  BY <1>1, <1>2, <1>3

-----------------------------------------------------------------------------
(* The server.                                                             *)

LEMMA ClientCounts ==
  ASSUME UNCHANGED clientVars
  PROVE  /\ pc' = pc /\ teamSize' = teamSize /\ context' = context /\ moves' = moves
         /\ exitCode' = exitCode /\ replied' = replied
         /\ Got' = Got /\ Taken' = Taken /\ Written' = Written
  BY DEF clientVars, Got, Taken, Written, Greeting, Entering

\* A message is sent: types and the client's part of the invariant.
LEMMA SendTypes ==
  ASSUME IInv, UNCHANGED clientVars, NEW msg \in Messages,
         toClient' = Append(toClient, msg)
  PROVE  /\ toClient' \in Seq(Messages) /\ Len(toClient') = Len(toClient) + 1
         /\ \A i \in 1..Len(toClient') : toClient'[i].type \in ServerTypes
         /\ \A i \in 1..Len(toClient) : toClient'[i] = toClient[i]
         /\ toClient'[Len(toClient) + 1] = msg
<1>1. /\ toClient' \in Seq(Messages) /\ Len(toClient') = Len(toClient) + 1
      /\ \A i \in 1..Len(toClient) : toClient'[i] = toClient[i]
      /\ toClient'[Len(toClient) + 1] = msg
  BY AppendIs DEF IInv, DataInv
<1>2. \A i \in 1..Len(toClient') : toClient'[i].type \in ServerTypes
  BY <1>1, MessageAt
<1>3. QED
  BY <1>1, <1>2

\* A message that the rules allow is sent.
LEMMA RulesAppend ==
  ASSUME IInv, UNCHANGED clientVars, pc # "ended", ~fault,
         NEW msg \in Messages, toClient' = Append(toClient, msg),
         Sent' = Sent + 1, closed' => server' = "over",
         size' = size \/ (Sent = 0 /\ pc \in Greeting),
         Len(asked') = Len(asked) \/ (Len(asked') > Len(asked) /\ Sent <= 2 + Len(asked)),
         NEW n, n = Sent + 1, TypeAt(n)' = msg.type, msg.whole, msg.present,
         msg.type \in {"TEAM_SIZE", "PLAYER_CONTEXT"} => msg.size = size'
  PROVE  RulesInv'
<1> USE DEF IInv
<1>1. /\ Len(toClient') = Len(toClient) + 1 /\ Len(toClient) \in Nat
      /\ \A i \in 1..Len(toClient) : toClient'[i] = toClient[i]
      /\ toClient'[Len(toClient) + 1] = msg
  BY SendTypes, LengthsType
<1>2. /\ Len(toClient) + Taken = Sent /\ pc' = pc /\ Taken' = Taken /\ teamSize' = teamSize
      /\ Taken \in Nat /\ Sent \in Nat
  BY ClientCounts, CountsType DEF RulesInv
<1>3. Len(toClient') + Taken' = Sent'
  BY <1>1, <1>2
<1>4. pc' \notin Greeting => teamSize' = size'
  BY <1>2 DEF RulesInv
<1>5. ASSUME NEW i \in 1..Len(toClient')
      PROVE  /\ toClient'[i].type = TypeAt(Taken + i)'
             /\ toClient'[i].whole /\ toClient'[i].present
             /\ toClient'[i].type \in {"TEAM_SIZE", "PLAYER_CONTEXT"} =>
                  toClient'[i].size = size'
  <2>1. CASE i = Len(toClient) + 1
    <3>1. Taken' + i = n /\ Taken + i = n
      BY <2>1, <1>1, <1>2
    <3>2. TypeAt(Taken + i)' = TypeAt(n)'
      BY <3>1 DEF TypeAt
    <3>3. QED
      BY <3>2, <2>1, <1>1
  <2>2. CASE i # Len(toClient) + 1
    <3>1. i \in 1..Len(toClient) /\ toClient'[i] = toClient[i] /\ Taken' + i = Taken + i
      BY <2>2, <1>1, <1>2
    <3>2. /\ toClient[i].type = TypeAt(Taken + i)
          /\ toClient[i].whole /\ toClient[i].present
          /\ toClient[i].type \in {"TEAM_SIZE", "PLAYER_CONTEXT"} => toClient[i].size = size
      BY <3>1 DEF RulesInv
    <3>3. Taken + i <= Sent /\ Taken + i >= 1
      BY <3>1, <1>1, <1>2
    <3>4. TypeAt(Taken + i)' = TypeAt(Taken + i)
      <4>1. Len(asked) \in Nat
        BY LengthsType
      <4>2. Taken + i \in Nat
        BY ONLY <3>1, <1>1, <1>2
      <4>3. QED
        BY <4>1, <4>2, <3>1, <3>3, <1>2 DEF TypeAt
    <3>5. size' = size
      BY <3>3, <1>2
    <3>6. QED
      BY <3>1, <3>2, <3>4, <3>5
  <2>3. QED
    BY <2>1, <2>2
<1>6. QED
  BY <1>2, <1>3, <1>4, <1>5 DEF RulesInv

\* What the client is promised of a server that plays by the rules does not
\* change once the client has ended.
LEMMA PlayedSame ==
  ASSUME IInv, UNCHANGED clientVars, ~fault' => ~fault,
         server = "over" => server' = "over" /\ answered' = answered /\ asked' = asked
  PROVE  PlayedToTheEnd' /\ (pc = "ended" => RulesInv')
  BY ClientCounts DEF IInv, PlayedToTheEnd, RulesInv

LEMMA SendTeamSizeStep ==
  ASSUME IInv, SendTeamSize
  PROVE  IInv'
<1> USE DEF IInv
<1>1. PICK n \in TeamSizes : size' = n /\ Sends(Message("TEAM_SIZE", 0, n, TRUE))
  BY DEF SendTeamSize
<1> DEFINE msg == Message("TEAM_SIZE", 0, n, TRUE)
<1>2. /\ msg \in Messages /\ msg.type = "TEAM_SIZE" /\ msg.whole /\ msg.present
      /\ msg.size = n /\ n \in Sizes
  BY DEF Message, Messages, ServerTypes, Sizes
<1>3. /\ ~closed /\ toClient' = Append(toClient, msg)
      /\ server = "token" /\ server' = "version"
      /\ toServer # <<>> /\ toServer' = Tail(toServer)
      /\ UNCHANGED <<clientVars, answered, closed, asked, fault>>
  BY <1>1 DEF SendTeamSize, Receives, Sends
<1> HIDE DEF msg
<1>4. toServer' \in Seq(Requests) /\ Len(toServer') = Len(toServer) - 1
  BY <1>3, TailIs DEF DataInv
<1>5. Heard = 0 /\ Heard' = 1 /\ Sent = 0 /\ Sent' = 1 /\ asked = <<>> /\ answered = 0
  BY <1>3 DEF Heard, Sent, TurnInv
<1>6. TypeOK' /\ DataInv'
  BY <1>1, <1>2, <1>3, <1>4, SendTypes, ClientCounts DEF TypeOK, DataInv
<1>7. TurnInv'
  <2>1. Len(toServer') + Heard' = Len(toServer) + Heard
    BY <1>4, <1>5, LengthsType
  <2>2. Len(toClient') = Len(toClient) + 1 /\ Taken \in Nat
    BY <1>2, <1>3, SendTypes, CountsType
  <2>3. pc # "ended" => Len(toClient') + Taken' >= Sent'
    BY <1>3, <1>5, <2>2, ClientCounts, LengthsType
  <2>4. QED
    BY <1>3, <2>1, <2>3, <1>5, ClientCounts DEF TurnInv
<1>8. ContextInv'
  BY <1>2, <1>3, ContextAppend, ClientCounts
<1>9. MoveInv'
  BY <1>3, ClientCounts DEF MoveInv
<1>10. PlayedToTheEnd' /\ (pc = "ended" => RulesInv')
  BY <1>3, PlayedSame
<1>11. ASSUME pc # "ended"
       PROVE  RulesInv'
  <2>1. CASE fault
    BY <1>3, <2>1 DEF RulesInv
  <2>2. CASE ~fault
    <3>1. pc \in Greeting
      BY <1>5, <1>11, <2>2, LengthsType, CountsType DEF RulesInv, Taken
    <3>2. TypeAt(1)' = "TEAM_SIZE" /\ 1 = Sent + 1 /\ Sent' = Sent + 1
      BY <1>5 DEF TypeAt
    <3>3. QED
      BY <1>1, <1>2, <1>3, <1>5, <1>11, <2>2, <3>1, <3>2, RulesAppend
  <2>3. QED
    BY <2>1, <2>2
<1>12. QED
  BY <1>6, <1>7, <1>8, <1>9, <1>10, <1>11

LEMMA SendGameStep ==
  ASSUME IInv, SendGame
  PROVE  IInv'
<1> USE DEF IInv
<1>1. PICK present \in BOOLEAN : /\ Sends(Message("GAME_CONTEXT", 0, 0, present))
                                 /\ fault' = (fault \/ ~present)
  BY DEF SendGame
<1> DEFINE msg == Message("GAME_CONTEXT", 0, 0, present)
<1>2. /\ msg \in Messages /\ msg.type = "GAME_CONTEXT" /\ msg.whole /\ msg.present = present
  BY DEF Message, Messages, ServerTypes, Sizes
<1>3. /\ ~closed /\ toClient' = Append(toClient, msg)
      /\ server = "version" /\ server' = "moves"
      /\ toServer # <<>> /\ toServer' = Tail(toServer)
      /\ UNCHANGED <<clientVars, size, answered, closed, asked>>
  BY <1>1 DEF SendGame, Receives, Sends
<1> HIDE DEF msg
<1>4. toServer' \in Seq(Requests) /\ Len(toServer') = Len(toServer) - 1
  BY <1>3, TailIs DEF DataInv
<1>5. Heard = 1 /\ Heard' = 2 /\ Sent = 1 /\ Sent' = 2 /\ asked = <<>> /\ answered = 0
  BY <1>3 DEF Heard, Sent, TurnInv
<1>6. fault' \in BOOLEAN
  BY <1>1 DEF TypeOK
<1>7. TypeOK' /\ DataInv'
  BY <1>1, <1>2, <1>3, <1>4, <1>6, SendTypes, ClientCounts DEF TypeOK, DataInv
<1>8. TurnInv'
  <2>1. Len(toServer') + Heard' = Len(toServer) + Heard
    BY <1>4, <1>5, LengthsType
  <2>2. Len(toClient') = Len(toClient) + 1 /\ Taken \in Nat
    BY <1>2, <1>3, SendTypes, CountsType
  <2>3. pc # "ended" => Len(toClient) + Taken >= 1
    BY <1>5 DEF TurnInv
  <2>4. pc # "ended" => Len(toClient') + Taken' >= Sent'
    BY <1>3, <1>5, <2>2, <2>3, ClientCounts, LengthsType
  <2>5. QED
    BY <1>3, <2>1, <2>4, <1>5, ClientCounts DEF TurnInv
<1>9. ContextInv'
  BY <1>2, <1>3, ContextAppend, ClientCounts
<1>10. MoveInv'
  BY <1>3, ClientCounts DEF MoveInv
<1>11. PlayedToTheEnd' /\ (pc = "ended" => RulesInv')
  BY <1>1, <1>3, PlayedSame
<1>12. ASSUME pc # "ended"
       PROVE  RulesInv'
  <2>1. CASE fault'
    BY <2>1 DEF RulesInv
  <2>2. CASE ~fault'
    <3>1. ~fault /\ present
      BY <1>1, <2>2
    <3>2. TypeAt(2)' = "GAME_CONTEXT" /\ 2 = Sent + 1 /\ Sent' = Sent + 1
      BY <1>5 DEF TypeAt
    <3>3. QED
      BY <1>2, <1>3, <1>12, <3>1, <3>2, RulesAppend
  <2>3. QED
    BY <2>1, <2>2
<1>13. QED
  BY <1>7, <1>8, <1>9, <1>10, <1>11, <1>12

LEMMA ReceiveMovesStep ==
  ASSUME IInv, ReceiveMoves
  PROVE  IInv'
<1> USE DEF IInv
<1>1. /\ server = "moves" /\ server' = "moves" /\ answered' = answered + 1
      /\ toServer # <<>> /\ toServer' = Tail(toServer)
      /\ UNCHANGED <<clientVars, size, closed, asked, fault, toClient>>
  BY DEF ReceiveMoves, Receives
<1>2. /\ toServer' \in Seq(Requests) /\ Len(toServer') = Len(toServer) - 1
      /\ Len(toServer) >= 1
  BY <1>1, TailIs DEF DataInv
<1>3. Heard = 2 + answered /\ Heard' = 3 + answered /\ Sent' = Sent
  BY <1>1, LengthsType DEF Heard, Sent
<1>4. Len(replied) <= Len(asked) /\ Len(asked) <= MaxContexts
  BY LengthsType DEF Got, TurnInv
<1>5. answered + 1 \in 0..MaxContexts
  <2>1. Len(toServer) + Heard <= 2 + Len(replied)
    BY DEF TurnInv
  <2>2. /\ answered \in Nat /\ Len(replied) \in Nat /\ Len(asked) \in Nat
        /\ MaxContexts \in Nat /\ Len(toServer) \in Nat
    BY LengthsType
  <2>3. answered + 1 <= Len(replied)
    BY ONLY <2>1, <2>2, <1>2, <1>3
  <2>4. QED
    BY ONLY <2>2, <2>3, <1>4
<1>6. TypeOK' /\ DataInv'
  BY <1>1, <1>2, <1>5, ClientCounts DEF TypeOK, DataInv
<1>7. Len(toServer') + Heard' = Len(toServer) + Heard
  <2>1. Len(toServer) \in Nat /\ answered \in Nat
    BY LengthsType
  <2>2. QED
    BY ONLY <1>2, <1>3, <2>1
<1>8. TurnInv'
  <2>1. /\ Len(toServer') + Heard' <= 2 + Len(replied)
        /\ pc # "ended" => /\ Len(toServer') + Heard' = Written
                           /\ Len(toClient) + Taken >= Sent
    BY <1>7 DEF TurnInv
  <2>2. QED
    BY <1>1, <1>3, <2>1, ClientCounts DEF TurnInv
<1>9. ContextInv'
  BY <1>1, ContextSame, ClientCounts
<1>10. MoveInv'
  BY <1>1, ClientCounts DEF MoveInv
<1>11. PlayedToTheEnd'
  BY <1>1, PlayedSame
<1>12. RulesInv'
  <2>1. \A n : TypeAt(n)' = TypeAt(n)
    BY <1>1 DEF TypeAt
  <2>2. QED
    BY <1>1, <1>3, <2>1, ClientCounts DEF RulesInv
<1>13. QED
  BY <1>6, <1>8, <1>9, <1>10, <1>11, <1>12

LEMMA SendGameOverStep ==
  ASSUME IInv, SendGameOver
  PROVE  IInv'
<1> USE DEF IInv
<1> DEFINE msg == Message("GAME_OVER", 0, 0, TRUE)
<1>1. /\ msg \in Messages /\ msg.type = "GAME_OVER" /\ msg.whole /\ msg.present
  BY DEF Message, Messages, ServerTypes, Sizes
<1>2. /\ ~closed /\ toClient' = Append(toClient, msg)
      /\ server = "moves" /\ server' = "over" /\ answered = Len(asked)
      /\ UNCHANGED <<clientVars, size, answered, closed, asked, fault, toServer>>
  BY DEF SendGameOver, Sends
<1> HIDE DEF msg
<1>3. Heard' = Heard /\ Sent = 2 + Len(asked) /\ Sent' = 3 + Len(asked)
  BY <1>2 DEF Heard, Sent
<1>4. TypeOK' /\ DataInv'
  BY <1>1, <1>2, SendTypes, ClientCounts DEF TypeOK, DataInv
<1>5. TurnInv'
  <2>1. Len(toClient') = Len(toClient) + 1
    BY <1>1, <1>2, SendTypes
  <2>2. pc # "ended" => Len(toClient) + Taken >= Sent
    BY DEF TurnInv
  <2>3. /\ Len(toClient) \in Nat /\ Taken \in Nat /\ Len(asked) \in Nat
        /\ Taken' = Taken
    BY <1>2, ClientCounts, LengthsType, CountsType
  <2>4. pc # "ended" => Len(toClient') + Taken' >= Sent'
    BY ONLY <1>3, <2>1, <2>2, <2>3
  <2>5. QED
    BY <1>2, <1>3, <2>4, ClientCounts DEF TurnInv
<1>6. ContextInv'
  BY <1>1, <1>2, ContextAppend, ClientCounts
<1>7. MoveInv'
  BY <1>2, ClientCounts DEF MoveInv
<1>8. PlayedToTheEnd' /\ (pc = "ended" => RulesInv')
  BY <1>2, PlayedSame
<1>9. ASSUME pc # "ended"
      PROVE  RulesInv'
  <2>1. CASE fault
    BY <1>2, <2>1 DEF RulesInv
  <2>2. CASE ~fault
    <3>1. 3 + Len(asked) = Sent + 1 /\ Sent' = Sent + 1
      BY <1>3, LengthsType
    <3>2. \A n : n = 3 + Len(asked) => TypeAt(n)' = "GAME_OVER"
      BY <1>2, LengthsType DEF TypeAt
    <3>3. QED
      BY <1>1, <1>2, <1>9, <2>2, <3>1, <3>2, RulesAppend
  <2>3. QED
    BY <2>1, <2>2
<1>10. QED
  BY <1>4, <1>5, <1>6, <1>7, <1>8, <1>9

LEMMA SendContextStep ==
  ASSUME IInv, SendContext
  PROVE  IInv'
<1> USE DEF IInv
<1>1. PICK present \in BOOLEAN, n \in TeamSizes :
         LET m == Message("PLAYER_CONTEXT", Len(asked) + 1, n, present) IN
         /\ MayFail \/ (present /\ n = size)
         /\ Sends(m) /\ asked' = Append(asked, m)
         /\ fault' = (fault \/ ~present \/ n # size)
  BY DEF SendContext
<1> DEFINE msg == Message("PLAYER_CONTEXT", Len(asked) + 1, n, present)
<1>2. /\ msg \in Messages /\ msg.type = "PLAYER_CONTEXT" /\ msg.whole
      /\ msg.present = present /\ msg.size = n /\ msg.tick = Len(asked) + 1
  BY LengthsType DEF Message, Messages, ServerTypes, Sizes
<1>3. /\ ~closed /\ toClient' = Append(toClient, msg) /\ asked' = Append(asked, msg)
      /\ fault' = (fault \/ ~present \/ n # size)
      /\ server = "moves" /\ Len(asked) < MaxContexts
      /\ UNCHANGED <<clientVars, server, size, answered, closed, toServer>>
  BY <1>1 DEF SendContext, Sends
<1> HIDE DEF msg
<1>4. /\ Len(asked') = Len(asked) + 1 /\ asked' \in Seq(Messages)
      /\ \A k \in 1..Len(asked) : asked'[k] = asked[k]
      /\ asked'[Len(asked) + 1] = msg
  BY <1>2, <1>3, AppendIs DEF DataInv
<1>5. /\ toClient' \in Seq(Messages) /\ Len(toClient') = Len(toClient) + 1
      /\ \A i \in 1..Len(toClient') : toClient'[i].type \in ServerTypes
      /\ \A i \in 1..Len(toClient) : toClient'[i] = toClient[i]
      /\ toClient'[Len(toClient) + 1] = msg
  BY <1>2, <1>3, SendTypes
<1>6. /\ Heard' = Heard /\ Sent = 2 + Len(asked) /\ Sent' = Sent + 1
      /\ Got' = Got /\ Taken' = Taken /\ Written' = Written /\ pc' = pc
  BY <1>3, <1>4, ClientCounts, LengthsType DEF Heard, Sent
<1>7. fault' \in BOOLEAN
  BY <1>3 DEF TypeOK
<1>8. TypeOK' /\ DataInv'
  BY <1>3, <1>4, <1>5, <1>7, ClientCounts DEF TypeOK, DataInv
<1>9. TurnInv'
  <2>1. pc # "ended" => Len(toClient) + Taken >= Sent
    BY DEF TurnInv
  <2>2. /\ Len(toClient) \in Nat /\ Len(asked) \in Nat /\ MaxContexts \in Nat
        /\ Taken \in Nat /\ Sent \in Nat /\ Got \in Nat
    BY LengthsType, CountsType
  <2>3. pc # "ended" => Len(toClient') + Taken' >= Sent'
    BY ONLY <1>5, <1>6, <2>1, <2>2
  <2>4. Got <= Len(asked) /\ Len(asked) < MaxContexts
    BY <1>3 DEF TurnInv
  <2>5. Got <= Len(asked') /\ Len(asked') <= MaxContexts
    BY ONLY <1>4, <2>2, <2>4
  <2>6. QED
    BY <1>3, <1>6, <2>3, <2>5, ClientCounts DEF TurnInv
<1>10. ContextInv'
  <2>1. \A k \in 1..Len(asked') : asked'[k].tick = k
    BY <1>2, <1>4, LengthsType DEF ContextInv
  <2>2. ASSUME NEW i \in 1..Len(toClient')
        PROVE  \/ /\ i \in 1..Len(toClient) /\ toClient'[i] = toClient[i]
                  /\ IsContext(i)' <=> IsContext(i)
               \/ i = Len(toClient) + 1 /\ toClient'[i] = msg
    BY <1>5, LengthsType DEF IsContext
  <2>3. Got \in Nat /\ Len(asked) \in Nat /\ Len(toClient) \in Nat /\ Got <= Len(asked)
    BY LengthsType, CountsType DEF TurnInv
  <2> SUFFICES ASSUME pc # "ended"
               PROVE  ContextInv'
    BY <1>6, <2>1 DEF ContextInv
  <2>4. \A i \in 1..Len(toClient) : IsContext(i) =>
            /\ toClient[i].tick \in Got + 1..Len(asked)
            /\ toClient[i].size = asked[toClient[i].tick].size
    BY DEF ContextInv
  <2>5. ASSUME NEW i \in 1..Len(toClient'), IsContext(i)'
        PROVE  /\ toClient'[i].tick \in Got + 1..Len(asked')
               /\ toClient'[i].size = asked'[toClient'[i].tick].size
    <3>1. CASE i \in 1..Len(toClient) /\ toClient'[i] = toClient[i] /\ IsContext(i)
      <4> DEFINE k == toClient[i].tick
      <4>1. k \in Got + 1..Len(asked) /\ toClient[i].size = asked[k].size
        BY <3>1, <2>4
      <4> HIDE DEF k
      <4>2. k \in 1..Len(asked) /\ k \in Got + 1..Len(asked) + 1
        BY <4>1, <2>3
      <4>3. asked'[k] = asked[k] /\ k \in Got + 1..Len(asked')
        BY <4>2, <1>4
      <4>4. toClient'[i].tick = k /\ toClient'[i].size = asked[k].size
        BY <3>1, <4>1 DEF k
      <4>5. QED
        BY <4>3, <4>4
    <3>2. CASE i = Len(toClient) + 1 /\ toClient'[i] = msg
      <4>1. Len(asked) + 1 \in Got + 1..Len(asked')
        BY <2>3, <1>4
      <4>2. toClient'[i].tick = Len(asked) + 1 /\ toClient'[i].size = msg.size
        BY <3>2, <1>2
      <4>3. asked'[Len(asked) + 1].size = msg.size
        BY <1>4
      <4>4. QED
        BY <4>1, <4>2, <4>3
    <3>3. QED
      BY <2>2, <2>5, <3>1, <3>2
  <2>6. ASSUME NEW i \in 1..Len(toClient'), NEW j \in 1..Len(toClient'),
               i < j, IsContext(i)', IsContext(j)'
        PROVE  toClient'[i].tick < toClient'[j].tick
    <3>1. i \in 1..Len(toClient) /\ toClient'[i] = toClient[i] /\ IsContext(i)
      BY <2>2, <2>6, <1>5, <2>3
    <3>2. CASE j \in 1..Len(toClient) /\ toClient'[j] = toClient[j] /\ IsContext(j)
      BY <3>1, <3>2, <2>6 DEF ContextInv
    <3>3. CASE j = Len(toClient) + 1 /\ toClient'[j] = msg
      <4>1. toClient'[i].tick \in Got + 1..Len(asked)
        BY <3>1, <2>4
      <4>2. toClient'[j].tick = Len(asked) + 1
        BY <3>3, <1>2
      <4>3. QED
        BY <4>1, <4>2, <2>3
    <3>4. QED
      BY <2>2, <2>6, <3>2, <3>3
  <2>7. ASSUME NEW k \in Got + 1..Len(asked')
        PROVE  \E i \in 1..Len(toClient') : IsContext(i)' /\ toClient'[i].tick = k
    <3>1. CASE k = Len(asked) + 1
      <4>1. PICK i \in 1..Len(toClient') : i = Len(toClient) + 1
        BY <1>5, <2>3
      <4>2. toClient'[i] = msg
        BY <4>1, <1>5
      <4>3. IsContext(i)' /\ toClient'[i].tick = k
        BY <4>2, <3>1, <1>2 DEF IsContext
      <4>4. QED
        BY <4>3
    <3>2. CASE k # Len(asked) + 1
      <4>1. k \in Got + 1..Len(asked)
        BY <3>2, <1>4, <2>3
      <4>2. PICK i \in 1..Len(toClient) : IsContext(i) /\ toClient[i].tick = k
        BY <4>1 DEF ContextInv
      <4>3. i \in 1..Len(toClient') /\ IsContext(i)' /\ toClient'[i].tick = k
        BY <4>2, <1>5, <2>3 DEF IsContext
      <4>4. QED
        BY <4>3
    <3>3. QED
      BY <3>1, <3>2
  <2>8. QED
    BY <2>1, <2>5, <2>6, <2>7, <1>6 DEF ContextInv
<1>11. MoveInv'
  <2>1. pc = "move" => Got \in 1..Len(asked)
    BY LengthsType DEF Got, TurnInv
  <2>2. QED
    BY <1>3, <1>4, <1>6, <2>1, ClientCounts DEF MoveInv
<1>12. PlayedToTheEnd' /\ (pc = "ended" => RulesInv')
  BY <1>3, PlayedSame
<1>13. ASSUME pc # "ended"
       PROVE  RulesInv'
  <2>1. CASE fault'
    BY <2>1 DEF RulesInv
  <2>2. CASE ~fault'
    <3>1. ~fault /\ present /\ n = size
      BY <1>3, <2>2
    <3>2. 3 + Len(asked) = Sent + 1
      BY <1>6, LengthsType
    <3>3. \A k : k = 3 + Len(asked) => TypeAt(k)' = "PLAYER_CONTEXT"
      BY <1>4, LengthsType DEF TypeAt
    <3>4. Len(asked') > Len(asked) /\ Sent <= 2 + Len(asked)
      BY <1>4, <1>6, LengthsType
    <3>5. QED
      BY <1>2, <1>3, <1>6, <1>13, <3>1, <3>2, <3>3, <3>4, RulesAppend
  <2>3. QED
    BY <2>1, <2>2
<1>14. QED
  BY <1>8, <1>9, <1>10, <1>11, <1>12, <1>13

LEMMA SendStrayStep ==
  ASSUME IInv, SendStray
  PROVE  IInv'
<1> USE DEF IInv
<1>1. PICK type \in ServerTypes \ {"PLAYER_CONTEXT"} : Sends(Message(type, 0, size, TRUE))
  BY DEF SendStray
<1> DEFINE msg == Message(type, 0, size, TRUE)
<1>2. msg \in Messages /\ msg.type # "PLAYER_CONTEXT"
  BY DEF Message, Messages, DataInv
<1>3. /\ toClient' = Append(toClient, msg) /\ fault'
      /\ UNCHANGED <<clientVars, server, size, answered, closed, asked, toServer>>
  BY <1>1 DEF SendStray, Sends
<1> HIDE DEF msg
<1>4. fault' \in BOOLEAN
  BY DEF SendStray
<1>5. TypeOK' /\ DataInv'
  BY <1>2, <1>3, <1>4, SendTypes, ClientCounts DEF TypeOK, DataInv
<1>6. TurnInv'
  <2>1. Len(toClient') = Len(toClient) + 1 /\ Heard' = Heard /\ Sent' = Sent
    BY <1>2, <1>3, SendTypes DEF Heard, Sent
  <2>2. pc # "ended" => Len(toClient) + Taken >= Sent
    BY DEF TurnInv
  <2>3. /\ Len(toClient) \in Nat /\ Taken \in Nat /\ Sent \in Nat /\ Taken' = Taken
    BY <1>3, ClientCounts, LengthsType, CountsType
  <2>4. pc # "ended" => Len(toClient') + Taken' >= Sent'
    BY ONLY <2>1, <2>2, <2>3
  <2>5. QED
    BY <1>3, <2>1, <2>4, ClientCounts DEF TurnInv
<1>7. ContextInv'
  BY <1>2, <1>3, ContextAppend, ClientCounts
<1>8. MoveInv' /\ RulesInv' /\ PlayedToTheEnd'
  BY <1>3, ClientCounts DEF MoveInv, RulesInv, PlayedToTheEnd
<1>9. QED
  BY <1>5, <1>6, <1>7, <1>8

\* The server closes; the last message may be cut off.
LEMMA CloseStep ==
  ASSUME IInv, ServerClose
  PROVE  IInv'
<1> USE DEF IInv
<1>1. /\ closed' = TRUE /\ fault' = (fault \/ server # "over")
      /\ UNCHANGED <<clientVars, server, size, answered, asked, toServer>>
      /\ \/ toClient' = toClient
         \/ /\ server # "over" /\ toClient # <<>>
            /\ toClient' = [toClient EXCEPT ![Len(toClient)].whole = FALSE]
  BY DEF ServerClose
<1>2. /\ toClient' \in Seq(Messages) /\ Len(toClient') = Len(toClient)
      /\ \A i \in 1..Len(toClient) : /\ toClient'[i].type = toClient[i].type
                                     /\ toClient'[i].tick = toClient[i].tick
                                     /\ toClient'[i].size = toClient[i].size
  <2>1. CASE toClient' = toClient
    BY <2>1 DEF DataInv
  <2>2. CASE /\ toClient # <<>>
             /\ toClient' = [toClient EXCEPT ![Len(toClient)].whole = FALSE]
    <3> DEFINE last == Len(toClient)
    <3>1. last \in 1..Len(toClient) /\ toClient[last] \in Messages /\ toClient \in Seq(Messages)
      BY <2>2, LengthsType, MessageAt DEF DataInv
    <3>2. [toClient[last] EXCEPT !.whole = FALSE] \in Messages
      BY <3>1 DEF Messages
    <3>3. /\ [toClient[last] EXCEPT !.whole = FALSE].type = toClient[last].type
          /\ [toClient[last] EXCEPT !.whole = FALSE].tick = toClient[last].tick
          /\ [toClient[last] EXCEPT !.whole = FALSE].size = toClient[last].size
      BY <3>1 DEF Messages
    <3>4. toClient' = [toClient EXCEPT ![last] = [toClient[last] EXCEPT !.whole = FALSE]]
      BY <2>2, <3>1
    <3>5. QED
      BY <3>1, <3>2, <3>3, <3>4
  <2>3. QED
    BY <1>1, <2>1, <2>2
<1>3. \A i \in 1..Len(toClient') : toClient'[i].type \in ServerTypes
  BY <1>2, MessageAt
<1>4. closed' \in BOOLEAN /\ fault' \in BOOLEAN
  BY <1>1 DEF TypeOK
<1>5. TypeOK' /\ DataInv'
  BY <1>1, <1>2, <1>3, <1>4, ClientCounts DEF TypeOK, DataInv
<1>6. Heard' = Heard /\ Sent' = Sent
  BY <1>1 DEF Heard, Sent
<1>7. TurnInv'
  BY <1>1, <1>2, <1>6, ClientCounts DEF TurnInv
<1>8. ContextInv'
  BY <1>1, <1>2, ContextSame, ClientCounts
<1>9. MoveInv'
  BY <1>1, ClientCounts DEF MoveInv
<1>10. PlayedToTheEnd'
  BY <1>1, PlayedSame
<1>11. RulesInv'
  <2>1. CASE fault'
    BY <2>1 DEF RulesInv
  <2>2. CASE ~fault'
    <3>1. toClient' = toClient /\ server = "over" /\ ~fault
      BY <1>1, <2>2
    <3>2. \A n : TypeAt(n)' = TypeAt(n)
      BY <1>1 DEF TypeAt
    <3>3. QED
      BY <1>1, <1>6, <3>1, <3>2, ClientCounts DEF RulesInv
  <2>3. QED
    BY <2>1, <2>2
<1>12. QED
  BY <1>5, <1>7, <1>8, <1>9, <1>10, <1>11

LEMMA LeaveStep ==
  ASSUME IInv, ServerLeaves
  PROVE  IInv'
<1> USE DEF IInv
<1>1. /\ pc = "ended" /\ closed' = TRUE
      /\ UNCHANGED <<clientVars, server, size, answered, asked, fault, toClient, toServer>>
  BY DEF ServerLeaves
<1>2. Heard' = Heard
  BY <1>1 DEF Heard
<1>3. TypeOK' /\ DataInv' /\ TurnInv' /\ ContextInv' /\ MoveInv'
  <2>1. closed' \in BOOLEAN
    BY <1>1
  <2>2. TypeOK' /\ DataInv'
    BY <1>1, <2>1, ClientCounts DEF TypeOK, DataInv
  <2>3. TurnInv' /\ ContextInv' /\ MoveInv'
    BY <1>1, <1>2, ClientCounts DEF TurnInv, ContextInv, MoveInv
  <2>4. QED
    BY <2>2, <2>3
<1>4. RulesInv' /\ PlayedToTheEnd'
  BY <1>1, PlayedSame
<1>5. QED
  BY <1>3, <1>4

\* Nothing happens.
LEMMA StutterStep ==
  ASSUME IInv, UNCHANGED vars
  PROVE  IInv'
<1> USE DEF IInv, vars, serverVars
<1>1. UNCHANGED clientVars
  OBVIOUS
<1>2. Heard' = Heard /\ Sent' = Sent /\ (\A n : TypeAt(n)' = TypeAt(n))
  BY DEF Heard, Sent, TypeAt
<1>3. TypeOK' /\ DataInv'
  BY <1>1, ClientCounts DEF TypeOK, DataInv
<1>4. TurnInv' /\ MoveInv'
  BY <1>1, <1>2, ClientCounts DEF TurnInv, MoveInv
<1>5. ContextInv'
  BY <1>1, ContextSame, ClientCounts
<1>6. RulesInv' /\ PlayedToTheEnd'
  BY <1>1, <1>2, ClientCounts DEF RulesInv, PlayedToTheEnd
<1>7. QED
  BY <1>3, <1>4, <1>5, <1>6

-----------------------------------------------------------------------------
(* Every step, and the theorems.                                           *)

LEMMA NextStep == IInv /\ [Next]_vars => IInv'
<1> SUFFICES ASSUME IInv, [Next]_vars PROVE IInv'
  OBVIOUS
<1>1. CASE Client
  BY <1>1, ConnectStep, GreetStep, WriteMovesStep, MoveStep, ReadFailsStep,
     TeamSizeStep, GameStep, ContextStep DEF Client
<1>2. CASE Server
  BY <1>2, SendTeamSizeStep, SendGameStep, SendContextStep, ReceiveMovesStep,
     SendGameOverStep, SendStrayStep, CloseStep DEF Server
<1>3. CASE ServerLeaves
  BY <1>3, LeaveStep
<1>4. CASE Ended \/ UNCHANGED vars
  BY <1>4, StutterStep DEF Ended
<1>5. QED
  BY <1>1, <1>2, <1>3, <1>4 DEF Next

\* The counts of messages that both sides have written and read stay in step,
\* whatever the server does and wherever either side stops.
THEOREM Inductive == Spec => []IInv
BY InitIInv, NextStep, PTL DEF Spec

\* Everything stays in its type; no more moves are made than the team has
\* hockeyists.
THEOREM TypeCorrect == Spec => []TypeOK
BY Inductive, PTL DEF IInv

\* A game that the server plays by the rules is played to its end.
THEOREM Played == Spec => []PlayedToTheEnd
BY Inductive, PTL DEF IInv

LEMMA TurnsExclude == IInv => NeverBothWaiting
<1> SUFFICES ASSUME IInv, pc \in ReadPlaces, toClient = <<>>, toServer = <<>>,
                    server \in {"token", "version"} \/ answered < Len(asked)
             PROVE  FALSE
  BY DEF NeverBothWaiting
<1> USE DEF IInv
<1>1. /\ pc # "ended" /\ Len(toServer) = 0 /\ Len(toClient) = 0
      /\ Len(asked) \in Nat /\ Len(replied) \in Nat /\ answered \in Nat
  BY LengthsType DEF ReadPlaces
<1>2. Heard = Written /\ Taken >= Sent
  BY <1>1, CountsType DEF TurnInv
<1>3. CASE pc = "readTeamSizeMessage"
  <2>1. Written = 1 /\ Taken = 0
    BY <1>3 DEF Written, Taken, Greeting
  <2>2. QED
    BY <1>1, <1>2, <2>1 DEF Heard, Sent
<1>4. CASE pc = "readGameContextMessage"
  <2>1. Written = 2 + Len(replied) /\ Taken = 1
    BY <1>4 DEF Written, Taken, Greeting, Entering
  <2>2. QED
    BY <1>1, <1>2, <2>1 DEF Heard, Sent
<1>5. CASE pc = "readPlayerContextMessage"
  <2>1. Written = 2 + Len(replied) /\ Taken = 2 + Len(replied)
    BY <1>1, <1>5 DEF Written, Taken, Got, Greeting, Entering
  <2>2. QED
    BY <1>1, <1>2, <2>1 DEF Heard, Sent
<1>6. QED
  BY <1>3, <1>4, <1>5 DEF ReadPlaces

\* Neither side ever waits for a message that only the other's waiting keeps
\* from coming.
THEOREM NoMutualWaiting == Spec => []NeverBothWaiting
BY Inductive, TurnsExclude, PTL

-----------------------------------------------------------------------------
(* The refinement.                                                         *)

LEMMA SubSeqOfAppend ==
  ASSUME NEW S, NEW s \in Seq(S), NEW e \in S
  PROVE  SubSeq(Append(s, e), 1, Len(s)) = s
  OBVIOUS

\* The answer of a whole team is the one its context asks for.
LEMMA ReplyStep ==
  ASSUME IInv, writeMovesMessage, pc' # "ended"
  PROVE  Game!Reply
<1> USE DEF IInv
<1>1. /\ pc = "move" /\ Len(moves) = teamSize /\ replied' = Append(replied, moves)
      /\ asked' = asked
  BY DEF writeMovesMessage, Write, exit, serverVars
<1>2. Got = Len(replied) + 1 /\ Len(replied) \in Nat /\ Len(asked) \in Nat
  BY <1>1, LengthsType DEF Got
<1>3. Got <= Len(asked)
  BY DEF TurnInv
<1>4. Len(replied) < Len(asked) /\ Got \in 1..Len(asked)
  BY <1>2, <1>3
<1>5. /\ asked[Got].tick = Got /\ context.tick = Got /\ teamSize = asked[Got].size
      /\ \A i \in 1..Len(moves) : moves[i] = [tick |-> context.tick, hockeyist |-> i]
  BY <1>1, <1>4 DEF ContextInv, MoveInv
<1>6. moves = Game!MovesFor(asked[Got])
  <2>1. moves \in Seq(Moves) /\ Len(moves) = asked[Got].size
    BY <1>1, <1>5 DEF DataInv
  <2>2. moves = [i \in 1..Len(moves) |-> moves[i]]
    BY <2>1
  <2>3. \A i \in 1..Len(moves) :
           moves[i] = [tick |-> asked[Got].tick, hockeyist |-> i]
    BY <1>5
  <2>4. moves = [i \in 1..Len(moves) |-> [tick |-> asked[Got].tick, hockeyist |-> i]]
    BY <2>2, <2>3
  <2>5. QED
    BY <2>1, <2>4 DEF Game!MovesFor
<1>7. QED
  BY <1>1, <1>2, <1>4, <1>6 DEF Game!Reply

LEMMA GameInit == Init => Game!Init
BY DEF Init, Game!Init

LEMMA GameNext == IInv /\ [Next]_vars => [Game!Next]_Game!vars
<1> SUFFICES ASSUME IInv, [Next]_vars PROVE [Game!Next]_Game!vars
  OBVIOUS
<1>1. ASSUME pc # "ended", UNCHANGED <<asked, replied>>
      PROVE  [Game!Next]_Game!vars
  BY <1>1 DEF Game!Next, Game!Stop, Game!vars
<1>2. ASSUME UNCHANGED <<asked, replied, pc>>
      PROVE  [Game!Next]_Game!vars
  BY <1>2 DEF Game!vars
<1>3. CASE writeMovesMessage
  <2>1. CASE pc' = "ended"
    BY <1>3, <2>1, <1>1 DEF writeMovesMessage, serverVars
  <2>2. CASE pc' # "ended"
    BY <1>3, <2>2, ReplyStep DEF Game!Next
  <2>3. QED
    BY <2>1, <2>2
<1>4. CASE Client /\ ~writeMovesMessage
  <2>1. CASE \/ Connect \/ writeTokenMessage \/ writeProtocolVersionMessage
             \/ move \/ ReadFails
    <3>1. pc # "ended" /\ UNCHANGED <<asked, replied>>
      BY <2>1 DEF Connect, writeTokenMessage, writeProtocolVersionMessage, move,
                  ReadFails, serverVars
    <3>2. QED
      BY <3>1, <1>1
  <2>2. CASE readTeamSizeMessage \/ readGameContextMessage \/ readPlayerContextMessage
    <3>1. pc # "ended" /\ ReadBegins
      BY <2>2, ReadTeamSizeIs, ReadGameIs, ReadContextIs
    <3>2. QED
      BY <3>1, <1>1 DEF ReadBegins, serverVars
  <2>3. QED
    BY <1>4, <2>1, <2>2 DEF Client
<1>5. CASE SendContext
  <2>1. PICK present \in BOOLEAN, n \in TeamSizes :
          asked' = Append(asked, Message("PLAYER_CONTEXT", Len(asked) + 1, n, present))
    BY <1>5 DEF SendContext
  <2>2. /\ asked \in Seq(Messages)
        /\ Message("PLAYER_CONTEXT", Len(asked) + 1, n, present) \in Messages
    BY LengthsType DEF IInv, DataInv, Message, Messages, ServerTypes, Sizes
  <2>3. Len(asked') = Len(asked) + 1 /\ SubSeq(asked', 1, Len(asked)) = asked
    BY <2>1, <2>2, AppendIs, SubSeqOfAppend
  <2>4. UNCHANGED <<replied, pc>>
    BY <1>5 DEF SendContext, clientVars
  <2>5. QED
    BY <2>3, <2>4 DEF Game!Next, Game!Ask
<1>6. CASE \/ SendTeamSize \/ SendGame \/ ReceiveMoves \/ SendGameOver
           \/ SendStray \/ ServerClose \/ ServerLeaves \/ Ended \/ UNCHANGED vars
  <2>1. UNCHANGED <<asked, replied, pc>>
    BY <1>6 DEF SendTeamSize, SendGame, ReceiveMoves, SendGameOver, SendStray,
                ServerClose, ServerLeaves, Ended, vars, clientVars, serverVars
  <2>2. QED
    BY <2>1, <1>2
<1>7. QED
  BY <1>3, <1>4, <1>5, <1>6 DEF Next, Server

\* Every context is answered at most once, in the order of the contexts, with
\* one move for every hockeyist of it.
THEOREM Refinement == Spec => ImplementsGame
<1>1. Spec => Game!Init /\ [][Game!Next]_Game!vars
  BY Inductive, GameInit, GameNext, PTL DEF Spec
<1>2. QED
  BY <1>1 DEF ImplementsGame, Game!Spec
=============================================================================
