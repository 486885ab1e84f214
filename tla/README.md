# Verification of the hockey client

TLA+ models, TLC runs and TLAPS proofs for the client of a game of hockey: a program that connects
to a game server, receives a snapshot of the world in every tick and answers with one move for each
hockeyist of its team.

## The system

The program is a single thread. `main` (in `Runner.cpp`) makes a `Runner`, whose `run()` talks to
the server through a `RemoteProcessClient` and asks one `MyStrategy` object per hockeyist for a
move.

```
 game server  <-- TCP -->  CSimpleSocket/CActiveSocket     Transport, ByteStream
 (external)                (and CPassiveSocket)            Sockets
                           readBytes / writeBytes          Transport
                           read... / write... of objects   Wire
                           Runner::run(), messages         Session, RequestReply
                           MyStrategy::move()              MyStrategy
                             attackPuck(),
                             defendTeammate()              AttackPuck, Geometry
                             attackNet(), defendInitial(),
                             haveRest()                    FirePositions, Geometry
```

| Component | State it keeps | Operations | What makes it hard | What makes it correct |
|---|---|---|---|---|
| Strategy decisions (`MyStrategy.cpp`, `Statistics`) | statics only: `Statistics::m_instance`, `m_puck`, the stack of callbacks, `m_initialDefenderId`, `m_firePositionMap`, the set in `attackPuck()` | `move()` for each hockeyist of each tick: update, dispatch, one of five routines | N calls per tick run the same update on the same snapshot, in the server's order; the state outlives goals and rests | the calls of a tick agree: one first defender, statistics that follow the sub-round, nothing stale after a rest, a bounded stack |
| Hitting (`attackPuck()`, `defendTeammate()`) | the set of swings | choose a foe, swing, strike, cancel | the mark is set in one tick and used in the next, while everybody moves | a swing that was begun is ended; no teammate is hit |
| Positions (`fillFirePositions()`, `fillDefenderPositions()`, `getSubstitutionPoint()`, ...) | `m_firePositionMap` | a point to go to | two sides of the rink, half-open ranges, three computations of one side | points on the rink, on the right side, in the right half |
| Game session (`Runner::run()`) | team size, the context, the moves | handshake, loop over contexts | who waits for whom; unexpected messages; the end | one answer for each question, in order; no waiting for each other; an end |
| Serialization (`RemoteProcessClient`) | the cached boolean | readers and writers of every object | nothing in the stream names a field | what is read is what was written |
| Socket objects (`CSimpleSocket`, `CActiveSocket`, `CPassiveSocket`) | descriptor, error and blocking flag of each object; the descriptors of the system and the one `errno` | make, initialize, open, listen, accept, select, set options, close, delete | all objects share `errno` and the numbers of descriptors; connections that are pending, refused or interrupted | each descriptor has one owner; results, errors and flags agree with the descriptor; no connection is lost |
| Transport (`readBytes()`, `writeBytes()`, `CSimpleSocket`) | receive buffer, counters, the socket error | connect, send, receive, close | partial transfers, signals, the peer leaving | two byte streams |

Calls go down the picture from `Runner` to the socket and to the strategy, and data comes back;
there are no callbacks other than the one that `attackNet()` registers for a lost puck. The server's
side of the connection and its physics are not in the repository.

## Modules

**MyStrategy** models `move()`: one action for each routine (`haveRest`, `defendInitial`,
`attackNet`, `defendTeammate`, `attackPuck`), each with the whole of `updateStatistics()`,
`onPuckLoose()` and the election in front of it, because the code runs them first in every call.
`NextContext` is the server's next tick: any owner of the puck, any rest. `pending` holds the
hockeyists still to be called in this tick, in any order. `round` is history: the sub-round as an
observer of the puck sees it; so is `possession`: what became, since each stored preference was
chosen, of the possession of that moment (it goes on, a goal's rest came and nobody has had the puck
in play since, the team was the first to get it after the rest, or it is lost). Branches that depend
on distances, angles or cooldowns only are nondeterministic. `Skaters` are in every `PlayerContext`,
as `Runner::run()` requires; `Resting` are hockeyists of the team that are in the world but never
moved. `findInitialDefender()` does not tell the two apart, and neither does the model.

**Geometry** holds distances, sectors and `isInBetween()` with integer vectors: angles are compared
by cross and dot products, and the tangent of line 801 is kept with its negative branch. What is
exactly behind a unit counts as on its left.

**AttackPuck** models `attackPuck()` and `defendTeammate()` with positions: `StandsBetween`,
`CanHit`, the set of swings; `Fighters`, `IsSafe`, `nearest` and `EndangersVip` for the choice of
the foe and of the blow, with the signed comparisons of the code. The cooldown is either value.
`OtherRoutine` is a tick in which the same hockeyist plays something else, `Server` moves somebody
or lets foes fall, gives the puck to anybody and decides whether the hockeyist still swings. It
decides by positions what `MyStrategy` leaves open in `duel`, `stepAway` and `defendTeammate`.

**FirePositions** models where `attackNet()`, `defendInitial()` and `haveRest()` send a hockeyist,
for a strategy of either side, with or without goalies. Positions are sorted by the code with an
unstable sort: any position of the least sum may come first. The penalty of
`fillDefenderPositions()` is half of an angle; only its quarter turn is represented, so any position
that may come first for some angle in it is allowed. `attackNet()` begins to aim when its `ghost`,
the place where the speed takes the hockeyist until it can strike, is near the fire point, while the
corner is chosen by the place where it is now. Speeds are not in the model: the ghost is the
hockeyist's place with any of the `Drifts` added, and may be out of the rink. Whether the hockeyist
then turns, swings or goes on is left out.

**Session** models `Runner::run()`, one action per message. The server sends what is expected, and
if `MayFail` also a null object, a context for another team size, a message out of turn, or closes
the connection anywhere, also inside a message. **RequestReply** is the abstract game: contexts are
asked, each is answered once and in order with a move for each of its hockeyists.

**Wire** models the readers and writers. A field in a message is a record of its kind and value; the
stream is a sequence of fields. Every reader is a function of a reader's state (the input, the
cached boolean, the exit code) and takes exactly the fields that the code reads; `Then` stops the
reader where the process exits. The server writes with the repository's own writers. An object is a
record of the fields that decide how it is sent (`Game`, `Hockeyist`, `Move`, ...); one `id` stands
for the others. Loops over fields and elements (`readRuns`, `readElements`) are recursive functions
of the number of rounds.

**Transport** models `readBytes()` and `writeBytes()` down to the system calls: each call of
`send()` or `recv()` is an action that moves any number of bytes it may, fails, is interrupted, or
finds the peer gone. The system holds at most `StreamSize` bytes for the peer, and `send()` waits
for room until the peer reads (`PeerReceive`) or closes. Bytes are numbered, so loss, repetition and
order are visible. `SocketInterrupted` is what `TranslateSocketError()` makes of `errno`, which a
successful call leaves alone. An `errno` that is not interrupted and not an error of the peer is
written `"SUCCESS"`: the code does not tell such values apart. **ByteStream** is the abstract
service: two streams.

**Sockets** models the library one level aside: any numbers of `CActiveSocket` and `CPassiveSocket`
objects for TCP, of which one thread makes, initializes, opens, listens on, accepts from, closes and
deletes any in any order. A call of the system that may wait (`connect()`, `select()`, `accept()`)
is two steps, with the peers' steps in between, and a signal may end it; a call that does not wait
is one step. `errno` is one variable for all objects: a call that fails sets it, one that succeeds
leaves it, `TranslateSocketError()` reads it. `state`, `nonblock` and `backlog` are the system's.
Errors of objects are `SocketSuccess` or not: the two others that the code tests for were always
just translated from `errno`, and the model tests that. `close()` may fail and have freed the
descriptor or not. Then `Close()` keeps the number in the object, with which it may be closed again,
while the system may give it to another; the destructor drops it. The descriptors to which this
happened are the history variable `unclosed`. `Initialize()` is for an object that has no
descriptor, as the program uses it. The client program uses one `CActiveSocket` that blocks; the
rest of the library has no caller in the repository and is modelled from its own code and comments.

The modules compose by contract: `Transport` implements `ByteStream`, which is the FIFO of `Wire`
and `Session`; `Wire` shows that objects survive the stream, so `Session` exchanges whole messages;
`Session`'s `move` is a call of `MyStrategy`.

`MC...` modules and `.cfg` files give the constants. In module and definition names the source's
names are kept; `MUT_...` operators are plausible errors in a definition, used to see that the
properties notice them.

## Runs

| Run | Bounds | What it shows |
|---|---|---|
| MCMyStrategy.cfg | 3 skaters, 1 on the bench, 1 goalie, 1 foe; no bound on ticks (the state space is finite) | types, statistics, first defender, callbacks and preferences |
| MCMyStrategyHeld.cfg | as above, nobody on the bench | violation: see Findings |
| MCTransport.cfg | 5 bytes each way, requests of up to 3, room for 2 bytes on the way to the peer; a signal anywhere | both streams, the buffer and the ends of transfers, up to the first interrupted call |
| MCTransportInterrupted.cfg | as above, 4 bytes each way | violation: see Findings |
| MCSockets.cfg | one active and one passive object, each made and deleted again and again; 2 descriptors; 2 connections of peers, or one and one descriptor of which `close()` fails, any number of times | owners of descriptors, flags, errors, the order of accepted connections; every call that can return does |
| MCSocketsReports.cfg | as above, without failing calls of `close()` | violation: see Findings |
| MCSession.cfg | teams of 1 or 2, 3 contexts, 1 sent ahead, a faulty server | handshake, no mutual waiting, answers, ends |
| MCWire.cfg | 3 messages, 2 ahead, worlds with a null in each place | readers agree with writers |
| MCFirePositions.cfg | 8 places of the hockeyist, 7 of two enemies, one goalie for each side, 4 drifts; rink of 24 by 24 units of 15 pixels | points on the rink and on the right side; the corner aimed at |
| MCFirePositionsSkipped.cfg | as above | violation: see Findings |
| MCAttackPuck.cfg | 3 places of the hockeyist, 3 of a teammate, 4 of two foes, who may be down; units of 3.75 pixels: every order of both routines is given, for safe and unsafe foes | the memory and the end of swings |
| MCAttackPuckTeammate.cfg | as above | violation: see Findings |

Why the bounds are enough. In `MyStrategy` three skaters give one that updates, one that sees the
update and one in between; all other variables are finite, so the runs are as long as they can be.
The callback stack needs no bound: it never outgrows the preferences. In `Transport` a request of 3
bytes can be split in every way, and 5 bytes hold two requests of different sizes, so that the
receive buffer is replaced; a stream of 2 bytes is full in the middle of a write. In `Sockets` the
active object is also the one that `Accept()` makes, so an opened and an accepted connection follow
each other on one object and on one descriptor; two arrivals are enough for an order and for one
that is dropped. Two descriptors are enough for one whose `close()` failed and another that must not
suffer from it, and for a system that has none left. In `Session` three contexts allow one that is
answered, one being answered and one sent ahead. In `Wire` a message that is lost half-way comes
alone, since nothing follows it in the stream. In the geometric modules the places are samples: near
both nets, at the edges and in the centre; the coordinates are scaled so that products stay within
TLC's 32-bit integers. Only `MCMyStrategy.cfg` uses symmetry: skaters are compared for equality
only, and no liveness is checked there.

### Properties

- `FirstCatchTracked`, `InitialDefenceManned`, `DefendersFaceFoes`, `DefenderDismissed`: the calls
  of a tick agree, and one hockeyist plays the first defender exactly while nobody or the opponent
  has the first catch, unless a `RESTING` one was elected: then nobody does. If the puck was held
  when the rest ended (`round.heldOver`), what is the first catch depends on the parity of the calls
  during the rest; these ticks are excluded and the effect is listed as a hazard.
- `OneCallbackPerPreference`, `PreferenceNeedsPossession`: the stack and the map agree; a stored
  preference means that the team has had the puck ever since, or that a goal came in between. The
  code keeps the preference over a goal (`reset()` does not call `onPuckLoose()`): as long as nobody
  has had the puck in play since, and as long as the team has it if it was the first. `possession`
  says which, and no third case occurs.
- `SwingIsEnded`: a swing of `attackPuck()` is struck or cancelled by its next call, a swing of
  either routine by a call of `defendTeammate()` that has somebody to fight. Not stated: that no
  teammate is in the way when the blow of `defendTeammate()` falls; it looks before the swing only
  (see the hazards).
- `FiresFromItsSide`, `AimsAtFarCorner`, `FewerEnemiesThere`, `GuardsAttackersHalf`,
  `RestsInItsArea`, and in `TypeOK` that every point is one where a hockeyist can be.
  `AimsAtFarCorner`: when `attackNet()` starts to aim, the corner is the far one, for which the fire
  point was computed, if the hockeyist drifts up or down by at most half a net less its diameter (40
  pixels in the game) until it can strike. Without that bound it does not hold: the corner is for
  the half where the hockeyist is, and with a preference a fast one may still be in the other.
- `NeverBothWaiting`, `PlayedToTheEnd`, `ImplementsGame`, `EndsWhenClosed`, `EveryContextAnswered`:
  the session. The moves that were sent (`replied`) are history.
- `ReceivedAsSent`, `MovesAsSent`, `Framed`, `OnlyComplete`, `NeverStarved`: serialization.
- `SentOnce`, `ReceivedOnce`, `BufferFits`, `ImplementsStreams`, `TransferEnds`: the transport until
  a call is interrupted (`Undisturbed`: from then on `errno` says `EINTR`, and what happens is a
  finding). A write ends unless from some point on the peer neither reads nor closes while the
  system holds all it can for it.
- `Owned`: each open descriptor has one object, and the descriptor of an object is open.
  `BlockingAsTold`: an object that says it blocks does. Both are stated for each descriptor of which
  no `close()` has failed: for the others they do not hold (the number is closed twice, or is lost),
  and the properties say that the damage does not spread. `ConnectedWhenOpened`: what `Open()`
  reports is so, unless its `Select()` was interrupted. `ReportsAgree`: results and errors agree
  whatever other objects left in `errno`. Two cases are left out, because they do not agree: an
  `Open()` that ends before `connect()` (its result is called `Lookup`; `ReportsAsDocumented` is the
  finding), and the passive socket of an `Accept()` that succeeded (see below). `AcceptedInOrder`:
  no connection is lost, repeated or overtaken. `CallsReturn`: a call that can return does.

### Fairness

`Transport`: `WF_vars(Transfer)`, a blocking system call that can complete does. `Session`:
`WF_vars(Client)`, the one thread of the client runs when it is not waiting for its socket. Nothing
is assumed of the server: what waits for it ends when it has sent enough or has closed, and a write
ends or waits for ever for a server that neither reads nor closes. `Sockets`: `WF_vars(Ends)`, a
call of the system returns when it can, and `WF_vars(Answered(fd))`, a connection that is being made
is accepted, refused or given up (TCP gives up after its retries). Nothing is assumed of the caller,
of arriving peers or of signals. The other modules have no liveness property.

### Findings

Five runs find a disagreement between the code and its own comments.

- `Send()` and `Receive()` repeat a call as long as `errno` says interrupted, but a success does not
  clear it: after a signal, accepted bytes are sent again, and received bytes are dropped
  (`MovedIsCounted`). The program installs no signal handler, so this needs one from a library or a
  debugger.
- The first defender is to go back when a round begins, but a puck that somebody held during the
  rest may have cleared `m_isJustReset`, and then nobody does (`SomebodyGoesBack`).
- `fillDefenderPositions()` is to drop positions "behind defender" but also drops some on the
  attacker's far side, because `tan()` is negative there (`SkippedAreSecured`).
- `GetSocketError()` is to give the error of the call that failed, but an `Open()` that does not
  come to `connect()` may return false and leave the error as it was, `SocketSuccess` after
  `Initialize()` (`ReportsAsDocumented`).
- `attackPuck()` is to spare teammates, but its search for a second enemy always finds the puck
  owner itself (`HitsNoTeammate`).

Seen while modelling, without a run:

- `shouldGoBack` (`MyStrategy.cpp:148`) compares a coordinate with `defender->getX()` on the left
  side of the rink and with `defender->getRadius()` on the right, where it is always true: there the
  first defender always goes straight backward.
- After an `Accept()` that succeeded the passive socket keeps the error it had, while
  `PassiveSocket.h:64-66` says that it is `SocketSuccess` then: only the client's error is set
  (`PassiveSocket.cpp:252-254`; `AcceptTakes`).

## Proofs

TLAPS proves the following for every value of the constants that the named assumptions allow.

**MyStrategyProofs** (`SkatersAssumption`: a finite, nonempty set of skaters; `IdsAssumption`:
skaters, those on the bench, goalies, foes and the id -1 are different). All invariants of
`MCMyStrategy.cfg`. They are not inductive: that one hockeyist plays the first defender at the end
of a tick needs what each call before it has left. The inductive invariant `IInv` adds how the
statistics mirror the phase of the sub-round (`RoundInv`, `PhaseInv`), that the update is idempotent
within a tick (`ResetInv`, `MovedInv`), that the elected one is kept until all have moved
(`MannedInv`), what a rest leaves (`CaughtInv`) and what `possession` and the statistics say of each
other. The step has one lemma for the server, one for what all routines share (`CallStep`,
`CallbackStep`) and one for the routines (`RoutineStep`, `MannedStep`).

**TransportProofs** (the bounds are any naturals, signals are allowed). `TypeOK`, `SentOnce`,
`ReceivedOnce`, `BufferFits`, all until a call is interrupted, and `Refinement`: the steps of `Spec`
are steps of `ByteStream` or stutter. The argument: every sequence of bytes is a run of consecutive
numbers, and the runs held by the callers, the vector and the system join without a gap (`SendInv`,
`RecvInv`); the receive buffer has the size of the request whenever `recv()` is called
(`BufferInv`). Lemmas on runs (`StreamRun`, `RunConcat`, `RunSub`, `RunEqual`, `RunPrefix`) are
stated once.

**SessionProofs** (`ConstantsAssumption`: sizes of teams are positive, bounds are naturals; the
server may fail or not). `TypeOK`, `NeverBothWaiting`, `PlayedToTheEnd` and `Refinement`: the steps
of `Spec` are steps of `RequestReply` or stutter. None of these is inductive: that nobody waits in
vain follows from counts. `TurnInv` counts what the client has written (`Written`) and read
(`Taken`) and what the server has taken (`Heard`) and sent (`Sent`); the difference is on its way,
more of it if a stray message was sent. `ContextInv` says that the contexts that are not read yet
are on their way, each once and in order; with `MoveInv`, the moves are those for the context whose
turn it is. `RulesInv` says what the n-th message of a server is that has done nothing wrong, so
whatever ends such a game early is excluded.

**SocketsProofs** (`SocketsAssumption`: the two kinds of objects are disjoint, descriptors are
naturals). All six invariants of `MCSockets.cfg` for any numbers of objects, descriptors, arrivals
and failing calls of `close()`. The inductive invariant `IInv` adds `PlaceInv` (what holds of the
called object, its descriptor, the client and `errno` at each place where the thread may wait; in
particular `errno` is cleared whenever `accept()` is called), `OpenInv` (a closed descriptor has
lost its flag) and `ConnectedInv` (after `Open()` nothing has touched its descriptor). The steps
have one lemma for each action or group of actions that change the same variables; what a call of
`close()`, failing or not, does to owners and flags is `OwnedClosed` and `FlagsClosed`, for
`Close()`, the destructor, `Listen()` and `Accept()` alike; `AcceptedInOrder` is proved on top of
`IInv`.

**WireProofs** (`MessagesAssumption`: what is sent is objects of the types in `Wire`, with nulls
wherever the server can put one, and the client's lists of moves have none; `NullAssumption`: the
null is no object, list or number; `BoundsAssumption`: the two bounds are naturals). All six
invariants of `MCWire.cfg`, for objects and lists of any content and length, so also the lengths
that no run can have. The proof goes up the readers, from a field to a message, with two facts about
each:

- *Round trip.* Before what the writer of `x` wrote, followed by anything, the reader returns `x`
  and stops where `x` ends, unless there is a null in `x`: then the process ends with the code of a
  null (`Reads`). One lemma for each object (`ReadHockeyist`, `ReadWorld`, ...), for lists of any
  length (`ReadList`), and at the top `ReadMessage` and `ReadMovesMessage`.
- *Cut.* On a begin of a stream a reader does what it does on the whole stream, or runs out of
  fields (`Cut`). So a message that was cut off is not taken (`ReadBegin`): if it were, the whole
  message would be taken with fields left over.

`readRuns` and `readElements` are recursive functions, of which it is shown first that they exist.
What holds after each round is the induction lemma `Induction`: a set that has 0, and k + 1 with
each k, has every number up to n. It follows from the well-foundedness of the naturals, without the
library's induction rule over operators. `FlattenAppend` and `FlattenCons` say in the same way what
`FlattenSeq` does with one more sequence at either end. The inductive invariant is `ClientInv`,
`ServerInv`: the input is the encoding of the messages not read yet, or a begin of the last one's
after the loss of the connection; the output is that of the answers not read yet. Each reading step
then is `ReadMessage`, `ReadNothing`, `ReadBegin` or `ReadMovesMessage`, and each writing step adds
one encoding to the end.

**AttackPuckProofs** (`LengthsAssumption`, `StickAssumption`, `SlopesAssumption`). `TypeOK` and
`SwingIsEnded` for units anywhere: positions only choose the branch; `Remembered` says that the last
order was a swing only if the set holds the mark.

**FirePositionsProofs** (`GeometryAssumption`: divisions by 2 and 4 are exact, a net leaves room for
a hockeyist beside it; `SizesAssumption`: the rink is wider than high, nets are two to four
hockeyists wide and not deeper than two, all units stand in the rink, goalies not at the other end
of it). All properties of `MCFirePositions.cfg` for any rink, nets, penalties and places of units.
The argument is about one line of 45 degrees (`OnLine`) and the corner it starts from (`GetNetIs`):
both computations of the side agree (`FireLine`, `DefenceLineIs`), the line always meets the rink
(`FireLineExists`), and a point within two radii of the fire point is on the same side of the middle
(`SameCorner`). The bounds in `SizesAssumption` are needed: with a net of eight hockeyists' radii a
first defender four radii from its corner stands in the other half. The drifts may be any vectors of
integers.

Only model-checked: liveness (`TransferEnds`, `CallsReturn`, `EndsWhenClosed`,
`EveryContextAnswered`), which is out of the prover's reach. Every other property of a passing run
is stated by a theorem.

## Not modelled

- `HTTPActiveSocket`, `Host.h`, `StatTimer.h`, and of the socket classes UDP, RAW, multicast,
  `SendFile()`, `Shutdown()`, the copy constructor and `operator=`: the program calls none of it.
- A second `Initialize()` of an object that has a descriptor: it would lose the descriptor.
- `readGames()`, `readPucks()`, `readWorlds()`, `readPlayerContexts()` and their writers: called by
  nothing.
- Accessors of `Game`, `Hockeyist`, `World`, ... : values without state.
- The server's reading is part of `Transport` only: in `Session` a message that is written is on its
  way at once, so there waiting is for reading only.
- Fields of one kind that follow each other in an object share one `id` in `Wire`: two of them
  swapped would not be noticed.
- Turns and speeds (of `getGhost()` only that it may be anywhere near), `getEstimatedPuckPos()`,
  `improveManeuverability()`: real arithmetic on the server's physics.
- Byte order: every build of the repository is little-endian.
- Statistics that reach the log only, `debugPrint()`, build files.

## Plan

The order follows the importance of the behaviour. Done: decisions, transport and session with their
refinements, socket objects, positions, hits and serialization, all with proofs. Next:

1. `getEstimatedPuckPos()`; `SendFile()` and `Shutdown()` of the socket library.
