------------------------------ MODULE Session -------------------------------
(***************************************************************************)
(* One game, message by message: Runner::run() and the messages that       *)
(* RemoteProcessClient reads and writes for it, against a game server.     *)
(*                                                                         *)
(* The server is not part of the repository.  Here it does what the client *)
(* expects of it, and in addition may close the connection at any time,    *)
(* also in the middle of a message, may send a message out of turn, a null *)
(* object, or a team of another size.  Messages travel through one FIFO in *)
(* each direction, which is what the transport provides (ByteStream).      *)
(***************************************************************************)
EXTENDS Integers, Sequences, SequencesExt

CONSTANTS
  TeamSizes,     (* the sizes of a team the server plays with              *)
  MaxContexts,   (* bound: contexts in one game                            *)
  MaxAhead,      (* contexts the server sends before the moves for the one *)
                 (* before it have come: 0 when it waits for them          *)
  MayFail        (* the server may do what the client does not expect      *)

ASSUME ConstantsAssumption ==
  /\ TeamSizes \subseteq Nat \ {0}
  /\ MaxContexts \in Nat /\ MaxAhead \in Nat
  /\ MayFail \in BOOLEAN

VARIABLES
  pc,         (* the next thing Runner::run() does                         *)
  teamSize,   (* local of run()                                            *)
  context,    (* *playerContext                                            *)
  moves,      (* local of run()                                            *)
  exitCode,   (* how the process ended; 0: run() returned                  *)
  toClient, toServer,   (* messages on their way                           *)
  server,     (* what the server waits for                                 *)
  size,       (* the size of team it has chosen                            *)
  answered,   (* the number of MOVES it has received                       *)
  closed,     (* it has closed the connection                              *)
  asked,      (* history: the contexts it has sent                         *)
  replied,    (* history: the moves the client has sent                    *)
  fault       (* history: the server has done something unexpected         *)

clientVars == <<pc, teamSize, context, moves, exitCode, replied>>
serverVars == <<server, size, answered, closed, asked, fault>>
vars == <<clientVars, serverVars, toClient, toServer>>

-----------------------------------------------------------------------------
(* Messages.  n is the number in a message: the team size, the number of   *)
(* hockeyists.  present: the object in it is not null.  whole: all of it   *)
(* was sent before the connection was closed.                              *)

ServerTypes == {"GAME_OVER", "TEAM_SIZE", "GAME_CONTEXT", "PLAYER_CONTEXT"}

Message(type, tick, n, present) ==
  [type |-> type, tick |-> tick, size |-> n, present |-> present,
   whole |-> TRUE]

NoContext == Message("PLAYER_CONTEXT", 0, 0, FALSE)

Running == exitCode = -1

\* exit(), or the return of run(), after which the socket is closed.
exit(code) ==
  /\ exitCode' = code
  /\ pc' = "ended"

-----------------------------------------------------------------------------
(* The client writes.                                                      *)

\* A message is handed to the system; if the server is gone, writing it may
\* fail instead (exit code 10013).
Write(msg, next) ==
  \/ /\ toServer' = Append(toServer, msg)
     /\ pc' = next
     /\ UNCHANGED exitCode
  \/ /\ closed
     /\ exit(10013)
     /\ UNCHANGED toServer

\* The constructor of RemoteProcessClient.
Connect ==
  /\ pc = "connect"
  /\ \/ pc' = "writeTokenMessage" /\ UNCHANGED exitCode
     \/ exit(10001)
  /\ UNCHANGED <<teamSize, context, moves, replied, serverVars, toClient, toServer>>

writeTokenMessage ==
  /\ pc = "writeTokenMessage"
  /\ Write([type |-> "AUTHENTICATION_TOKEN"], "readTeamSizeMessage")
  /\ UNCHANGED <<teamSize, context, moves, replied, serverVars, toClient>>

writeProtocolVersionMessage ==
  /\ pc = "writeProtocolVersionMessage"
  /\ Write([type |-> "PROTOCOL_VERSION"], "readGameContextMessage")
  /\ UNCHANGED <<teamSize, context, moves, replied, serverVars, toClient>>

\* Mutant: the moves stay in a buffer.
MUT_writeMovesMessage ==
  /\ pc = "move"
  /\ Len(moves) = teamSize
  /\ pc' = "readPlayerContextMessage"
  /\ UNCHANGED <<teamSize, context, moves, exitCode, replied, serverVars,
                 toClient, toServer>>

writeMovesMessage ==
  /\ pc = "move"
  /\ Len(moves) = teamSize
  /\ Write([type |-> "MOVES_MESSAGE", moves |-> moves],
           "readPlayerContextMessage")
  /\ replied' = IF pc' = "ended" THEN replied ELSE Append(replied, moves)
  /\ UNCHANGED <<teamSize, context, moves, serverVars, toClient>>

-----------------------------------------------------------------------------
(* The client reads.                                                       *)

\* Mutant: no bytes are taken for "not yet".
MUT_ReadFails ==
  /\ pc \in {"readTeamSizeMessage", "readGameContextMessage",
             "readPlayerContextMessage"}
  /\ toClient = <<>> /\ closed
  /\ UNCHANGED vars

\* Nothing is left to read and nothing more will come.
ReadFails ==
  /\ pc \in {"readTeamSizeMessage", "readGameContextMessage",
             "readPlayerContextMessage"}
  /\ toClient = <<>> /\ closed
  /\ exit(10012)
  /\ UNCHANGED <<teamSize, context, moves, replied, serverVars, toClient, toServer>>

\* The next message is one of the expected types and complete (next), or
\* ends the process.
Read(expected, next(_)) ==
  /\ toClient # <<>>
  /\ toClient' = Tail(toClient)
  /\ LET msg == Head(toClient) IN
     \/ msg.type \notin expected /\ exit(10011) /\ UNCHANGED <<teamSize, context, moves>>
     \/ msg.type \in expected /\ ~msg.whole /\ exit(10012)
          /\ UNCHANGED <<teamSize, context, moves>>
     \/ msg.type \in expected /\ msg.whole /\ next(msg)
  /\ UNCHANGED <<replied, serverVars, toServer>>

readTeamSizeMessage ==
  LET take(msg) == /\ teamSize' = msg.size
                   /\ pc' = "writeProtocolVersionMessage"
                   /\ UNCHANGED <<context, moves, exitCode>>
  IN pc = "readTeamSizeMessage" /\ Read({"TEAM_SIZE"}, take)

\* readGame() exits when the game is null.
readGameContextMessage ==
  LET take(msg) == /\ IF msg.present
                      THEN /\ pc' = "readPlayerContextMessage"
                           /\ UNCHANGED exitCode
                      ELSE exit(20001)
                   /\ UNCHANGED <<teamSize, context, moves>>
  IN pc = "readGameContextMessage" /\ Read({"GAME_CONTEXT"}, take)

\* Mutant: GAME_OVER is not tested for.
MUT_noGameOver ==
  LET take(msg) ==
        IF ~msg.present \/ msg.size # teamSize
        THEN exit(0) /\ UNCHANGED <<teamSize, context, moves>>
        ELSE /\ pc' = "move"
             /\ context' = msg
             /\ moves' = <<>>
             /\ UNCHANGED <<teamSize, exitCode>>
  IN /\ pc = "readPlayerContextMessage"
     /\ Read({"PLAYER_CONTEXT"}, take)

\* Mutant: the size of the team is not compared.
MUT_anyTeam ==
  LET take(msg) ==
        IF msg.type = "GAME_OVER" \/ ~msg.present
        THEN exit(0) /\ UNCHANGED <<teamSize, context, moves>>
        ELSE /\ pc' = "move"
             /\ context' = msg
             /\ moves' = <<>>
             /\ UNCHANGED <<teamSize, exitCode>>
  IN /\ pc = "readPlayerContextMessage"
     /\ Read({"GAME_OVER", "PLAYER_CONTEXT"}, take)

\* The head of the loop in run(): the loop ends with the game, with a null
\* context, or when the context is not for teamSize hockeyists.
readPlayerContextMessage ==
  LET take(msg) ==
        IF \/ msg.type = "GAME_OVER" \/ ~msg.present
           \/ msg.size # teamSize
        THEN /\ exit(0)
             /\ UNCHANGED <<teamSize, context, moves>>
        ELSE /\ pc' = "move"
             /\ context' = msg
             /\ moves' = <<>>
             /\ UNCHANGED <<teamSize, exitCode>>
  IN /\ pc = "readPlayerContextMessage"
     /\ Read({"GAME_OVER", "PLAYER_CONTEXT"}, take)

\* Mutant: one hockeyist too many.
MUT_moveTooMany ==
  /\ pc = "move"
  /\ Len(moves) <= teamSize
  /\ moves' = Append(moves, [tick |-> context.tick, hockeyist |-> Len(moves) + 1])
  /\ UNCHANGED <<pc, teamSize, context, exitCode, replied, serverVars, toClient, toServer>>

\* The body of the loop over the hockeyists: Strategy::move() fills in the
\* move of the next one (module MyStrategy).
move ==
  /\ pc = "move"
  /\ Len(moves) < teamSize
  /\ moves' = Append(moves, [tick |-> context.tick, hockeyist |-> Len(moves) + 1])
  /\ UNCHANGED <<pc, teamSize, context, exitCode, replied, serverVars, toClient, toServer>>

Client ==
  \/ Connect \/ writeTokenMessage \/ writeProtocolVersionMessage
  \/ writeMovesMessage \/ move \/ ReadFails
  \/ readTeamSizeMessage \/ readGameContextMessage
  \/ readPlayerContextMessage

-----------------------------------------------------------------------------
(* The server.                                                             *)

Receives(type) ==
  /\ ~closed
  /\ toServer # <<>> /\ Head(toServer).type = type
  /\ toServer' = Tail(toServer)

Sends(msg) == ~closed /\ toClient' = Append(toClient, msg)

SendTeamSize ==
  /\ server = "token" /\ Receives("AUTHENTICATION_TOKEN")
  /\ \E n \in TeamSizes : size' = n /\ Sends(Message("TEAM_SIZE", 0, n, TRUE))
  /\ server' = "version"
  /\ UNCHANGED <<clientVars, answered, closed, asked, fault>>

SendGame ==
  /\ server = "version" /\ Receives("PROTOCOL_VERSION")
  /\ \E present \in {TRUE} \cup (IF MayFail THEN {FALSE} ELSE {}) :
       /\ Sends(Message("GAME_CONTEXT", 0, 0, present))
       /\ fault' = (fault \/ ~present)
  /\ server' = "moves"
  /\ UNCHANGED <<clientVars, size, answered, closed, asked>>

SendContext ==
  /\ server = "moves"
  /\ Len(asked) < MaxContexts
  /\ Len(asked) <= answered + MaxAhead
  /\ \E present \in BOOLEAN, n \in TeamSizes :
       /\ MayFail \/ (present /\ n = size)
       /\ LET msg == Message("PLAYER_CONTEXT", Len(asked) + 1, n, present) IN
            /\ Sends(msg)
            /\ asked' = Append(asked, msg)
       /\ fault' = (fault \/ ~present \/ n # size)
  /\ UNCHANGED <<clientVars, server, size, answered, closed, toServer>>

ReceiveMoves ==
  /\ server = "moves" /\ Receives("MOVES_MESSAGE")
  /\ answered' = answered + 1
  /\ UNCHANGED <<clientVars, server, size, closed, asked, fault, toClient>>

SendGameOver ==
  /\ server = "moves" /\ answered = Len(asked)
  /\ Sends(Message("GAME_OVER", 0, 0, TRUE))
  /\ server' = "over"
  /\ UNCHANGED <<clientVars, size, answered, closed, asked, fault, toServer>>

\* A message of the wrong type, at the wrong time.
SendStray ==
  /\ MayFail /\ ~fault
  /\ \E type \in ServerTypes \ {"PLAYER_CONTEXT"} :
        Sends(Message(type, 0, size, TRUE))
  /\ fault' = TRUE
  /\ UNCHANGED <<clientVars, server, size, answered, closed, asked, toServer>>

\* The server goes away: after the game, or as a fault.  What it sent last
\* may be cut off.
ServerClose ==
  /\ ~closed
  /\ closed' = TRUE
  /\ server = "over" \/ MayFail
  /\ fault' = (fault \/ server # "over")
  /\ \/ UNCHANGED toClient
     \/ /\ MayFail /\ server # "over" /\ toClient # <<>>
        /\ toClient' = [toClient EXCEPT ![Len(toClient)].whole = FALSE]
  /\ UNCHANGED <<clientVars, server, size, answered, asked, toServer>>

Server ==
  \/ SendTeamSize \/ SendGame \/ SendContext \/ ReceiveMoves
  \/ SendGameOver \/ SendStray \/ ServerClose

-----------------------------------------------------------------------------
Init ==
  /\ pc = "connect" /\ teamSize = 0 /\ context = NoContext /\ moves = <<>>
  /\ exitCode = -1
  /\ toClient = <<>> /\ toServer = <<>>
  /\ server = "token" /\ size = 0 /\ answered = 0 /\ closed = FALSE
  /\ asked = <<>> /\ replied = <<>> /\ fault = FALSE

\* The process has ended and the server has seen it.
Ended == pc = "ended" /\ closed /\ UNCHANGED vars

\* The server notices that the client has gone.
ServerLeaves ==
  /\ pc = "ended" /\ ~closed
  /\ closed' = TRUE
  /\ UNCHANGED <<clientVars, server, size, answered, asked, fault, toClient,
                 toServer>>

Next == Client \/ Server \/ ServerLeaves \/ Ended

Spec == Init /\ [][Next]_vars

\* The client is one thread that never waits for anything but its socket.
FairSpec == Spec /\ WF_vars(Client)

-----------------------------------------------------------------------------
(* Properties.                                                             *)

ReadPlaces  == {"readTeamSizeMessage", "readGameContextMessage",
                "readPlayerContextMessage"}
WritePlaces == {"writeTokenMessage", "writeProtocolVersionMessage"}
Codes       == {-1, 0, 10001, 10011, 10012, 10013, 20001}

\* Type correctness.
TypeOK ==
  /\ pc \in ReadPlaces \cup WritePlaces \cup {"connect", "move", "ended"}
  /\ exitCode \in Codes
  /\ teamSize \in {0} \cup TeamSizes
  /\ Len(moves) <= teamSize
  /\ server \in {"token", "version", "moves", "over"}
  /\ answered \in 0..MaxContexts
  /\ closed \in BOOLEAN /\ fault \in BOOLEAN
  /\ \A i \in 1..Len(toClient) : toClient[i].type \in ServerTypes

\* Client and server never both wait for the other: when the client is about
\* to read and nothing is on its way in either direction, it is not the
\* client that the server waits for, or the server has skipped its turn.
NeverBothWaiting ==
  ~ /\ pc \in ReadPlaces /\ toClient = <<>> /\ toServer = <<>> /\ ~closed
    /\ server \in {"token", "version"} \/ answered < Len(asked)

\* A server that plays by the rules is served to the end: the client that got
\* connected ends with code 0, after GAME_OVER, with all contexts answered.
PlayedToTheEnd ==
  (pc = "ended" /\ exitCode # 10001 /\ ~fault) =>
     /\ exitCode = 0
     /\ server = "over"
     /\ answered = Len(asked)

\* The client implements the game of questions and answers.
Game == INSTANCE RequestReply WITH
  asked <- asked,
  replied <- replied,
  over <- pc = "ended"

ImplementsGame == Game!Spec

\* The client does not outlive its connection.
EndsWhenClosed == closed ~> pc = "ended"

\* Against a server that plays by the rules, every context is answered or the
\* client could not connect.
EveryContextAnswered ==
  \A k \in 1..MaxContexts :
     (Len(asked) >= k) ~> (Len(replied) >= k \/ fault \/ pc = "ended")
=============================================================================
