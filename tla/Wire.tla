-------------------------------- MODULE Wire --------------------------------
(***************************************************************************)
(* The format of the messages: what the write functions of                 *)
(* RemoteProcessClient put into the byte stream and what its read          *)
(* functions make of it.                                                   *)
(*                                                                         *)
(* The stream is a sequence of fields, each of a width in bytes.  A run of *)
(* fields of one type that nobody looks at is one element of it, with a    *)
(* count, and carries the id of its object.  Nothing in the stream says    *)
(* where an object ends or what comes next: reader and writer agree, field *)
(* by field, or everything after is misread.                               *)
(*                                                                         *)
(* The server, which is not in the repository, writes with the write       *)
(* functions of this class and reads with its read functions.  It may also *)
(* send a null for an object, a list or a name, may send a message out of  *)
(* turn, and may lose the connection after any field.                      *)
(***************************************************************************)
EXTENDS Integers, Sequences, SequencesExt

CONSTANTS
  Null,          (* the null reference                                     *)
  TeamSizes, Games, Contexts, MoveLists,   (* what is sent                 *)
  MaxMessages,   (* bound: messages of the server                          *)
  MaxAhead       (* bound: messages of the server not yet read             *)

ASSUME BoundsAssumption == MaxMessages \in Nat /\ MaxAhead \in Nat

\* enum ActionType
ActionType == -1..6

\* The objects, with the fields that decide how they are sent; the id stands
\* for all the others.  The text of a name is its length.
Game      == [id : Int]
Puck      == [id : Int]
Hockeyist == [id : Int, lastActionTick : Int]
Player    == [id : Int, name : Nat \cup {Null}]
Move      == [id : Int, action : ActionType]

\* The lists that the server may send: a null, or one that may have nulls in it.
ListOf(S) == Seq(S \cup {Null}) \cup {Null}

World   == [id : Int, players : ListOf(Player), hockeyists : ListOf(Hockeyist),
            puck : Puck \cup {Null}]
Context == [hockeyists : ListOf(Hockeyist), world : World \cup {Null}]

ASSUME MessagesAssumption ==
  /\ TeamSizes \subseteq Int
  /\ Games \subseteq Game \cup {Null}
  /\ Contexts \subseteq Context \cup {Null}
  /\ MoveLists \subseteq Seq(Move)

\* Null is nothing else.
ASSUME NullAssumption ==
  /\ Null \notin Int /\ Null \notin Game /\ Null \notin Puck
  /\ Null \notin Hockeyist /\ Null \notin Player /\ Null \notin Move
  /\ Null \notin Seq(Hockeyist \cup {Null}) /\ Null \notin Seq(Player \cup {Null})
  /\ Null \notin Seq(Move)
  /\ Null \notin World /\ Null \notin Context

VARIABLES
  input,             (* the fields that wait for the client                *)
  output,            (* the fields that wait for the server                *)
  cachedBoolFlag, cachedBoolValue,
  exitCode,          (* -1: running; 0: the game is over                   *)
  lost,              (* the connection was lost in the middle of the last  *)
                     (* message                                            *)
  sent, received,    (* history: messages sent, and what reading returned  *)
  movesSent, movesRead

vars == <<input, output, cachedBoolFlag, cachedBoolValue, exitCode, lost,
          sent, received, movesSent, movesRead>>

-----------------------------------------------------------------------------
(* Writing: the fields a value becomes.                                    *)

Width == [bool |-> 1, enum |-> 1, byte |-> 1, int |-> 4, long |-> 8, double |-> 8]

Fields(kind, count, value) ==
  <<[width |-> Width[kind], count |-> count, value |-> value]>>

writeBoolean(value) == Fields("bool", 1, IF value THEN 1 ELSE 0)
writeEnum(value)    == Fields("enum", 1, value)
writeInt(value)     == Fields("int", 1, value)

\* A text is its length here; a null is sent as length -1.
writeString(length) ==
  CASE length = Null -> writeInt(-1)
    [] length = 0    -> writeInt(0)
    [] OTHER         -> writeInt(length) \o Fields("byte", length, length)

\* The runs <<kind, count>> of fields of the object `id'.
writeRuns(id, runs) ==
  [i \in 1..Len(runs) |->
     [width |-> Width[runs[i][1]], count |-> runs[i][2], value |-> id]]

\* A list is its length and its elements; null is sent as length -1.
writeList(list, write(_)) ==
  IF list = Null THEN writeInt(-1)
  ELSE writeInt(Len(list)) \o FlattenSeq([i \in 1..Len(list) |-> write(list[i])])

\* The flag and the object.  The writers of the class always have an object:
\* only the server sends the flag alone.
writeObject(object, fields(_)) ==
  IF object = Null THEN writeBoolean(FALSE)
  ELSE writeBoolean(TRUE) \o fields(object)

writeGame(game) ==
  LET fields(g) == writeRuns(g.id,
        << <<"long", 1>>, <<"int", 1>>, <<"double", 9>>, <<"int", 6>>,
           <<"double", 3>>, <<"int", 1>>, <<"double", 6>>, <<"int", 1>>,
           <<"double", 26>>, <<"int", 14>>, <<"double", 2>> >>)
  IN writeObject(game, fields)

\* The tick of the last action is sent only when there was one.
writeHockeyist(hockeyist) ==
  LET fields(h) ==
        writeRuns(h.id,
          << <<"long", 2>>, <<"int", 1>>, <<"double", 8>>, <<"bool", 1>>,
             <<"enum", 1>>, <<"int", 4>>, <<"double", 1>>, <<"enum", 1>>,
             <<"int", 4>>, <<"enum", 1>> >>)
        \o IF h.lastActionTick = -1 THEN writeBoolean(FALSE)
           ELSE writeBoolean(TRUE) \o writeInt(h.lastActionTick)
  IN writeObject(hockeyist, fields)

writeHockeyists(hockeyists) == writeList(hockeyists, writeHockeyist)

writePlayer(player) ==
  LET fields(p) ==
        writeRuns(p.id, << <<"long", 1>>, <<"bool", 1>> >>)
        \o writeString(p.name)
        \o writeRuns(p.id, << <<"int", 1>>, <<"bool", 1>>, <<"double", 6>>,
                              <<"bool", 1>>, <<"bool", 1>> >>)
  IN writeObject(player, fields)

writePlayers(players) == writeList(players, writePlayer)

\* Mutant: the owner is not sent.
MUT_writePuck(puck) ==
  LET fields(p) == writeRuns(p.id, << <<"long", 1>>, <<"double", 6>> >>)
  IN writeObject(puck, fields)

writePuck(puck) ==
  LET fields(p) ==
        writeRuns(p.id, << <<"long", 1>>, <<"double", 6>>, <<"long", 2>> >>)
  IN writeObject(puck, fields)

writeWorld(world) ==
  LET fields(w) ==
        writeRuns(w.id, << <<"int", 2>>, <<"double", 2>> >>)
        \o writePlayers(w.players) \o writeHockeyists(w.hockeyists)
        \o writePuck(w.puck)
  IN writeObject(world, fields)

writePlayerContext(context) ==
  LET fields(c) == writeHockeyists(c.hockeyists) \o writeWorld(c.world)
  IN writeObject(context, fields)

PASS == 5
SUBSTITUTE == 6

\* Power and angle are sent with a pass, the teammate with a substitution.
writeMove(move) ==
  LET fields(m) ==
        writeRuns(m.id, << <<"double", 2>> >>) \o writeEnum(m.action)
        \o CASE m.action = PASS -> writeRuns(m.id, << <<"double", 2>> >>)
             [] m.action = SUBSTITUTE -> writeInt(m.id)
             [] OTHER -> <<>>
  IN writeObject(move, fields)

writeMoves(moves) == writeList(moves, writeMove)

-----------------------------------------------------------------------------
(* Reading.  A reader is what the read functions work on: the stream, the  *)
(* cached boolean, the value last returned, and how it ended: 0 while the  *)
(* process runs, else the exit code (Garbled: a field of another width was *)
(* there, so the bytes of several fields were taken for one).              *)

Garbled == -2

Reader(stream, flag, value) ==
  [in |-> stream, cachedBoolFlag |-> flag, cachedBoolValue |-> value,
   value |-> 0, exit |-> 0]

Reading(rd) == rd.exit = 0

Return(rd, value) == IF Reading(rd) THEN [rd EXCEPT !.value = value] ELSE rd

Exit(rd, code) == [rd EXCEPT !.exit = code, !.value = 0]

\* The next statement, unless the process has ended.
Then(rd, next(_)) == IF Reading(rd) THEN next(rd) ELSE rd

\* if (!condition) exit(code);
Require(rd, condition, code) == IF condition THEN rd ELSE Exit(rd, code)

readFields(rd, kind, count) ==
  CASE ~Reading(rd) -> rd
    [] Reading(rd) /\ rd.in = <<>> -> Exit(rd, 10012)
    [] OTHER ->
         LET field == Head(rd.in)
         IN IF field.width = Width[kind] /\ field.count = count
            THEN [rd EXCEPT !.in = Tail(@), !.value = field.value]
            ELSE Exit(rd, Garbled)

readEnum(rd) == readFields(rd, "enum", 1)
readInt(rd)  == readFields(rd, "int", 1)

\* The cached value answers first, once.
readBoolean(rd) ==
  IF Reading(rd) /\ rd.cachedBoolFlag
  THEN [rd EXCEPT !.cachedBoolFlag = FALSE, !.value = rd.cachedBoolValue]
  ELSE Then(readFields(rd, "bool", 1), LAMBDA flag : Return(flag, flag.value # 0))

readString(rd) ==
  Then(readInt(rd), LAMBDA length :
    Then(Require(length, length.value # -1, 10014), LAMBDA some :
      IF some.value = 0 THEN some ELSE readFields(some, "byte", some.value)))

\* Runs of fields; the value is the id they carry.
readRun(rd, run) ==
  IF run[1] # "bool" THEN readFields(rd, run[1], run[2])
  ELSE Then(readBoolean(rd), LAMBDA flag : Return(flag, rd.value))

readRuns(rd, runs) ==
  LET after[i \in 0..Len(runs)] == IF i = 0 THEN rd ELSE readRun(after[i - 1], runs[i])
  IN after[Len(runs)]

\* The flag before an object; a null ends the process.
readPresent(rd, code) ==
  Then(readBoolean(rd), LAMBDA flag : Require(flag, flag.value, code))

\* Mutant: the last two fields are not read.
MUT_readGame(rd) ==
  Then(readRuns(readPresent(rd, 20001),
         << <<"long", 1>>, <<"int", 1>>, <<"double", 9>>, <<"int", 6>>,
            <<"double", 3>>, <<"int", 1>>, <<"double", 6>>, <<"int", 1>>,
            <<"double", 26>>, <<"int", 14>> >>),
    LAMBDA id : Return(id, [id |-> id.value]))

readGame(rd) ==
  Then(readRuns(readPresent(rd, 20001),
         << <<"long", 1>>, <<"int", 1>>, <<"double", 9>>, <<"int", 6>>,
            <<"double", 3>>, <<"int", 1>>, <<"double", 6>>, <<"int", 1>>,
            <<"double", 26>>, <<"int", 14>>, <<"double", 2>> >>),
    LAMBDA id : Return(id, [id |-> id.value]))

\* Mutant: the tick is read whether there is one or not.
MUT_readHockeyist(rd) ==
  Then(readRuns(readPresent(rd, 20003),
         << <<"long", 2>>, <<"int", 1>>, <<"double", 8>>, <<"bool", 1>>,
            <<"enum", 1>>, <<"int", 4>>, <<"double", 1>>, <<"enum", 1>>,
            <<"int", 4>>, <<"enum", 1>> >>), LAMBDA id :
    Then(readInt(readBoolean(id)), LAMBDA tick :
      Return(tick, [id |-> id.value, lastActionTick |-> tick.value])))

\* Mutant: without a last action the tick is 0.
MUT_noActionTick(rd) ==
  Then(readRuns(readPresent(rd, 20003),
         << <<"long", 2>>, <<"int", 1>>, <<"double", 8>>, <<"bool", 1>>,
            <<"enum", 1>>, <<"int", 4>>, <<"double", 1>>, <<"enum", 1>>,
            <<"int", 4>>, <<"enum", 1>> >>), LAMBDA id :
    Then(readBoolean(id), LAMBDA acted :
      Then(IF acted.value THEN readInt(acted) ELSE Return(acted, 0), LAMBDA tick :
        Return(tick, [id |-> id.value, lastActionTick |-> tick.value]))))

readHockeyist(rd) ==
  Then(readRuns(readPresent(rd, 20003),
         << <<"long", 2>>, <<"int", 1>>, <<"double", 8>>, <<"bool", 1>>,
            <<"enum", 1>>, <<"int", 4>>, <<"double", 1>>, <<"enum", 1>>,
            <<"int", 4>>, <<"enum", 1>> >>), LAMBDA id :
    Then(readBoolean(id), LAMBDA acted :
      Then(IF acted.value THEN readInt(acted) ELSE Return(acted, -1), LAMBDA tick :
        Return(tick, [id |-> id.value, lastActionTick |-> tick.value]))))

readPlayer(rd) ==
  Then(readRuns(readPresent(rd, 20007), << <<"long", 1>>, <<"bool", 1>> >>), LAMBDA id :
    Then(readString(id), LAMBDA name :
      Then(readRuns(name, << <<"int", 1>>, <<"bool", 1>>, <<"double", 6>>,
                             <<"bool", 1>>, <<"bool", 1>> >>), LAMBDA rest :
        Return(rest, [id |-> id.value, name |-> name.value]))))

\* Mutant: a substitution is read like any other action.
MUT_readMove(rd) ==
  Then(readRuns(readPresent(rd, 20005), << <<"double", 2>> >>), LAMBDA id :
    Then(readEnum(id), LAMBDA action :
      Then(IF action.value = PASS THEN readRuns(action, << <<"double", 2>> >>) ELSE action,
        LAMBDA more : Return(more, [id |-> id.value, action |-> action.value]))))

readMove(rd) ==
  Then(readRuns(readPresent(rd, 20005), << <<"double", 2>> >>), LAMBDA id :
    Then(readEnum(id), LAMBDA action :
      Then(CASE action.value = PASS -> readRuns(action, << <<"double", 2>> >>)
             [] action.value = SUBSTITUTE -> readInt(action)
             [] OTHER -> action,
        LAMBDA more : Return(more, [id |-> id.value, action |-> action.value]))))

readElement(rd, kind) ==
  CASE kind = "hockeyist" -> readHockeyist(rd)
    [] kind = "player"    -> readPlayer(rd)
    [] kind = "move"      -> readMove(rd)

\* The value is the list of what was read.
readNext(rd, kind) ==
  Then(readElement(rd, kind), LAMBDA one : Return(one, Append(rd.value, one.value)))

readElements(rd, kind, count) ==
  LET after[i \in 0..count] == IF i = 0 THEN rd ELSE readNext(after[i - 1], kind)
  IN after[count]

readList(rd, kind, code) ==
  Then(readInt(rd), LAMBDA length :
    Then(Require(length, length.value >= 0, code), LAMBDA some :
      readElements(Return(some, <<>>), kind, some.value)))

readHockeyists(rd) == readList(rd, "hockeyist", 20004)
readPlayers(rd)    == readList(rd, "player", 20008)
readMoves(rd)      == readList(rd, "move", 20006)

readPuck(rd) ==
  Then(readRuns(readPresent(rd, 20011),
         << <<"long", 1>>, <<"double", 6>>, <<"long", 2>> >>),
    LAMBDA id : Return(id, [id |-> id.value]))

readWorld(rd) ==
  Then(readRuns(readPresent(rd, 20013), << <<"int", 2>>, <<"double", 2>> >>), LAMBDA id :
    Then(readPlayers(id), LAMBDA players :
      Then(readHockeyists(players), LAMBDA hockeyists :
        Then(readPuck(hockeyists), LAMBDA puck :
          Return(puck, [id |-> id.value, players |-> players.value,
                        hockeyists |-> hockeyists.value, puck |-> puck.value])))))

readPlayerContext(rd) ==
  Then(readHockeyists(readPresent(rd, 20009)), LAMBDA hockeyists :
    Then(readWorld(hockeyists), LAMBDA world :
      Return(world, [hockeyists |-> hockeyists.value, world |-> world.value])))

-----------------------------------------------------------------------------
(* Messages.                                                               *)

\* enum MessageType
GAME_OVER      == 1
TEAM_SIZE      == 3
GAME_CONTEXT   == 5
PLAYER_CONTEXT == 6
MOVES_MESSAGE  == 7

Message(type, bodies) == [type : {type}, body : bodies]

Messages ==
  Message(GAME_OVER, {Null}) \cup Message(TEAM_SIZE, TeamSizes)
  \cup Message(GAME_CONTEXT, Games) \cup Message(PLAYER_CONTEXT, Contexts)

\* What the server sends for a message.
Encoded(m) ==
  writeEnum(m.type) \o
  CASE m.type = GAME_OVER      -> <<>>
    [] m.type = TEAM_SIZE      -> writeInt(m.body)
    [] m.type = GAME_CONTEXT   -> writeGame(m.body)
    [] m.type = PLAYER_CONTEXT -> writePlayerContext(m.body)

ensureMessageType(rd, expectedType) ==
  Then(rd, LAMBDA type : Require(type, type.value = expectedType, 10011))

readTeamSizeMessage(rd) == readInt(ensureMessageType(readEnum(rd), TEAM_SIZE))

readGameContextMessage(rd) ==
  readGame(ensureMessageType(readEnum(rd), GAME_CONTEXT))

\* Mutant: the flag that is put back has its old value.
MUT_readPlayerContextMessage(rd) ==
  Then(readEnum(rd), LAMBDA type :
    IF type.value = GAME_OVER THEN Return(type, Null)
    ELSE Then(readBoolean(ensureMessageType(type, PLAYER_CONTEXT)), LAMBDA flag :
           IF ~flag.value THEN Return(flag, Null)
           ELSE readPlayerContext([flag EXCEPT !.cachedBoolFlag = TRUE])))

\* The flag of the context is read here, and put back for readPlayerContext.
readPlayerContextMessage(rd) ==
  Then(readEnum(rd), LAMBDA type :
    IF type.value = GAME_OVER THEN Return(type, Null)
    ELSE Then(readBoolean(ensureMessageType(type, PLAYER_CONTEXT)), LAMBDA flag :
           IF ~flag.value THEN Return(flag, Null)
           ELSE readPlayerContext([flag EXCEPT !.cachedBoolFlag = TRUE,
                                               !.cachedBoolValue = TRUE])))

writeMovesMessage(moves) == writeEnum(MOVES_MESSAGE) \o writeMoves(moves)

readMovesMessage(rd) == readMoves(ensureMessageType(readEnum(rd), MOVES_MESSAGE))

-----------------------------------------------------------------------------
(* Client and server.                                                      *)

Running == exitCode = -1

\* The team size, the game, then contexts.
NextRead ==
  LET rd == Reader(input, cachedBoolFlag, cachedBoolValue)
  IN CASE Len(received) = 0 -> readTeamSizeMessage(rd)
       [] Len(received) = 1 -> readGameContextMessage(rd)
       [] OTHER             -> readPlayerContextMessage(rd)

\* The contexts that are still to be answered.
Unanswered == (Len(received) - 2) - Len(movesSent)

\* The client reads a message.  What is not there yet is waited for: only
\* when the connection is lost does reading fail for want of bytes.
ClientReads ==
  /\ Running /\ Unanswered <= 0
  /\ \E rd \in {NextRead} :
        /\ rd.exit = 10012 => lost
        /\ input' = rd.in
        /\ cachedBoolFlag' = rd.cachedBoolFlag
        /\ cachedBoolValue' = rd.cachedBoolValue
        /\ received' = IF Reading(rd) THEN Append(received, rd.value) ELSE received
        /\ exitCode' = CASE ~Reading(rd)    -> rd.exit
                         [] Reading(rd) /\ rd.value = Null -> 0
                         [] OTHER           -> -1
  /\ UNCHANGED <<output, lost, sent, movesSent, movesRead>>

\* The client answers a context.
ClientWrites ==
  /\ Running /\ Unanswered > 0
  /\ \E moves \in MoveLists :
       /\ movesSent' = Append(movesSent, moves)
       /\ output' = output \o writeMovesMessage(moves)
  /\ UNCHANGED <<input, cachedBoolFlag, cachedBoolValue, exitCode, lost,
                 sent, received, movesRead>>

ServerWrites ==
  /\ Running /\ ~lost
  /\ Len(sent) < MaxMessages /\ Len(sent) < Len(received) + MaxAhead
  /\ \E m \in Messages : /\ sent' = Append(sent, m)
                         /\ input' = input \o Encoded(m)
  /\ UNCHANGED <<output, cachedBoolFlag, cachedBoolValue, exitCode, lost,
                 received, movesSent, movesRead>>

\* The connection is lost before the last field of a message.  Bound: no other
\* message waits then.
ServerIsLost ==
  /\ Running /\ ~lost
  /\ Len(sent) = Len(received)
  /\ \E m \in Messages : \E k \in 0..(Len(Encoded(m)) - 1) :
       /\ sent' = Append(sent, m)
       /\ input' = input \o SubSeq(Encoded(m), 1, k)
  /\ lost' = TRUE
  /\ UNCHANGED <<output, cachedBoolFlag, cachedBoolValue, exitCode,
                 received, movesSent, movesRead>>

\* The server reads an answer; one it cannot read it takes for Null.
ServerReads ==
  /\ output # <<>>
  /\ \E rd \in {readMovesMessage(Reader(output, FALSE, FALSE))} :
        /\ output' = IF Reading(rd) THEN rd.in ELSE <<>>
        /\ movesRead' = Append(movesRead, IF Reading(rd) THEN rd.value ELSE Null)
  /\ UNCHANGED <<input, cachedBoolFlag, cachedBoolValue, exitCode, lost,
                 sent, received, movesSent>>

\* The process has ended.
Ended == ~Running /\ output = <<>> /\ UNCHANGED vars

Init ==
  /\ input = <<>> /\ output = <<>>
  /\ cachedBoolFlag = FALSE /\ cachedBoolValue = FALSE
  /\ exitCode = -1 /\ lost = FALSE
  /\ sent = <<>> /\ received = <<>>
  /\ movesSent = <<>> /\ movesRead = <<>>

Next == ClientReads \/ ClientWrites \/ ServerWrites \/ ServerIsLost
        \/ ServerReads \/ Ended

Spec == Init /\ [][Next]_vars

-----------------------------------------------------------------------------
(* Properties.                                                             *)

NullCodes == {20001, 20003, 20004, 20007, 20008, 20009, 20011, 20013, 10014}

\* Type correctness.  No field is ever taken for another: Garbled is not
\* among the exit codes.
TypeOK ==
  /\ exitCode \in {-1, 0, 10011, 10012} \cup NullCodes
  /\ lost \in BOOLEAN
  /\ cachedBoolFlag \in BOOLEAN /\ cachedBoolValue \in BOOLEAN
  /\ sent \in Seq(Messages)
  /\ Len(received) <= MaxMessages

\* The client gets what the server sent, object by object and in its order,
\* whatever follows it in the stream, and never one that was cut off: the
\* readers take exactly the fields that the writers put there.
ReceivedAsSent ==
  /\ Len(received) <= Len(sent) - IF lost THEN 1 ELSE 0
  /\ \A i \in 1..Len(received) : received[i] = sent[i].body

\* And the server gets the moves that the client sent.
MovesAsSent ==
  /\ Len(movesRead) <= Len(movesSent)
  /\ \A i \in 1..Len(movesRead) : movesRead[i] = movesSent[i]

\* Between two messages the cached boolean is spent, and the fields that wait
\* are those of the messages not yet read: reading stopped where the message
\* ended.
Framed ==
  Running =>
    /\ ~cachedBoolFlag
    /\ LET unread == FlattenSeq([i \in 1..(Len(sent) - Len(received)) |->
                                   Encoded(sent[Len(received) + i])])
       IN IF lost THEN IsStrictPrefix(input, unread) ELSE input = unread

\* No null inside an object, a list or a name.
NoNullIn(list) == list # Null /\ \A i \in DOMAIN list : list[i] # Null

Complete(context) ==
  /\ NoNullIn(context.hockeyists)
  /\ context.world # Null
  /\ context.world.puck # Null
  /\ NoNullIn(context.world.hockeyists)
  /\ NoNullIn(context.world.players)
  /\ \A i \in DOMAIN context.world.players : context.world.players[i].name # Null

\* The strategy sees complete contexts only: a null anywhere in one ends the
\* process before run() gets it, and nothing else is ever taken for a null.
OnlyComplete ==
  /\ \A i \in 3..Len(received) :
        sent[i].body = Null \/ Complete(sent[i].body)
  /\ exitCode \in NullCodes =>
       LET next == sent[Len(received) + 1]
       IN \/ next.type = GAME_CONTEXT /\ next.body = Null
          \/ next.type = PLAYER_CONTEXT /\ ~Complete(next.body)

\* When a whole message is there, reading it does not wait: no reader asks
\* for a field that its writer does not send, so the client cannot hang with
\* an answer due.
NeverStarved ==
  (Running /\ Len(sent) > Len(received) + IF lost THEN 1 ELSE 0) =>
     NextRead.exit # 10012
=============================================================================
