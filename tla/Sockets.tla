------------------------------ MODULE Sockets -------------------------------
(***************************************************************************)
(* The life of the socket objects: CActiveSocket and CPassiveSocket over   *)
(* CSimpleSocket, and the descriptors of the system that they hold.        *)
(*                                                                         *)
(* One thread creates objects, calls them and deletes them, in any order;  *)
(* peers connect to the listening socket and answer connections or do not; *)
(* a signal that is caught may interrupt a call that waits.  The sockets   *)
(* are TCP sockets.  What moves over a connection is in Transport.         *)
(*                                                                         *)
(* Errors that the code does not tell apart are one value: "EOTHER" of the *)
(* system, "SocketEunknown" of an object, which is any error but           *)
(* SocketSuccess.  SocketInterrupted and SocketEinprogress are tested only *)
(* where errno was just translated to them: the tests are made on errno.   *)
(***************************************************************************)
EXTENDS Integers, SequencesExt

CONSTANTS
  Active,       (* the objects of class CActiveSocket                      *)
  Passive,      (* the objects of class CPassiveSocket                     *)
  Descriptors,  (* what socket() and accept() may return                   *)
  MaxUnclosed,  (* bound: descriptors of which a close() fails             *)
  MaxEvents     (* bound: those, and the connections made by peers         *)

ASSUME SocketsAssumption ==
  /\ Active \cap Passive = {}
  /\ Descriptors \subseteq Nat
  /\ MaxUnclosed \in Nat /\ MaxEvents \in Nat

VARIABLES
  made,           (* the objects that exist                                *)
  m_socket,       (* of each object                                        *)
  m_socketErrno,
  m_bIsBlocking,
  errno,          (* of the system, for the one thread                     *)
  state,          (* of each descriptor                                    *)
  nonblock,       (* the descriptors with O_NONBLOCK                       *)
  backlog,        (* connections that wait to be accepted                  *)
  at,             (* where the thread is, see Places                       *)
  self, client,   (* the object called, and the one that Accept() makes    *)
  timed,          (* Select() was given a timeout                          *)
  arrived,        (* history: number of connections made by peers          *)
  handed,         (* history: the connections returned by Accept()         *)
  discarded,      (* history: those dropped when their listener was closed *)
  unclosed,       (* history: the descriptors of which a close() failed    *)
  interrupted,    (* history: the last Select() was interrupted            *)
  result          (* history: the last call and what it returned           *)

objectVars  == <<made, m_socket, m_socketErrno, m_bIsBlocking>>
systemVars  == <<state, nonblock, backlog>>
callVars    == <<at, self, client, timed>>
historyVars == <<arrived, handed, discarded, unclosed>>
vars == <<objectVars, errno, systemVars, callVars, historyVars, interrupted,
          result>>

-----------------------------------------------------------------------------
(* Values.                                                                 *)

Objects == Active \cup Passive
INVALID_SOCKET == -1

\* "connect" and "accept" wait in the call of the system, "poll" in the
\* Select() of Open(), "select" in a Select() of the caller's.
Places == {"caller", "connect", "poll", "select", "accept"}

\* EINPROGRESS stands for EWOULDBLOCK as well: the code treats them alike.
Errnos == {"SUCCESS", "EINTR", "EINPROGRESS", "EOTHER"}
SocketErrors == {"SocketSuccess", "SocketEunknown"}

States  == {"closed", "new", "connecting", "connected", "refused",
            "listening"}
Results  == [call : {"none", "Initialize", "Open", "Lookup", "Listen", "Accept"},
             ok : BOOLEAN]
Result(call, ok) == [call |-> call, ok |-> ok]
NoResult == Result("none", TRUE)

\* The error of an object comes from errno, whatever the call returned.
Translated(e) == IF e = "SUCCESS" THEN "SocketSuccess" ELSE "SocketEunknown"

SetSocketError(o, error) == m_socketErrno' = [m_socketErrno EXCEPT ![o] = error]
TranslateSocketError(o)  == SetSocketError(o, Translated(errno'))

\* Mutant: errno is not cleared before the call.
MUT_Cleared(e) == e

\* errno = 0, before socket() and before each accept().
Cleared(e) == "SUCCESS"

IsSocketValid(o) == m_socket[o] # INVALID_SOCKET
Held(o)          == state[m_socket[o]]

\* The number is that of an open descriptor: after a close() that failed it may
\* be that of none, or of a descriptor that another object has by now.
IsOpen(o) == IsSocketValid(o) /\ Held(o) # "closed"

\* The system hands out the lowest free descriptor.
Lowest(fd) == /\ state[fd] = "closed"
              /\ \A other \in Descriptors : state[other] = "closed" => fd <= other

Returns(call, ok) == /\ at' = "caller"
                     /\ result' = Result(call, ok)

\* A call whose result no property looks at.
Done == /\ result' = NoResult
        /\ interrupted' = FALSE

Called(o) == /\ at = "caller"
             /\ o \in made

-----------------------------------------------------------------------------
(* Objects and descriptors.                                                *)

\* Mutant: the constructor forgets m_socketErrno.
MUT_Constructed(o) ==
  /\ made' = made \cup {o}
  /\ m_socket' = [m_socket EXCEPT ![o] = INVALID_SOCKET]
  /\ m_socketErrno' = [m_socketErrno EXCEPT ![o] = "uninitialized"]
  /\ m_bIsBlocking' = [m_bIsBlocking EXCEPT ![o] = TRUE]

\* What the constructor gives the members.
Constructed(o) ==
  /\ made' = made \cup {o}
  /\ m_socket' = [m_socket EXCEPT ![o] = INVALID_SOCKET]
  /\ m_socketErrno' = [m_socketErrno EXCEPT ![o] = "SocketEunknown"]
  /\ m_bIsBlocking' = [m_bIsBlocking EXCEPT ![o] = TRUE]

CSimpleSocket(o) ==
  /\ at = "caller" /\ o \notin made
  /\ Constructed(o)
  /\ Done
  /\ UNCHANGED <<errno, systemVars, callVars, historyVars>>

\* socket() returns a descriptor or fails.  errno was cleared before.
SocketMade(o) ==
  \E fd \in Descriptors :
     /\ Lowest(fd)
     /\ m_socket' = [m_socket EXCEPT ![o] = fd]
     /\ state' = [state EXCEPT ![fd] = "new"]
     /\ errno' = Cleared(errno)
     /\ Returns("Initialize", TRUE)

SocketLacks ==
  /\ errno' = "EOTHER"
  /\ Returns("Initialize", FALSE)
  /\ UNCHANGED <<m_socket, state>>

\* The caller initializes an object that holds no descriptor.
Initialize(o) ==
  /\ Called(o) /\ ~IsSocketValid(o)
  /\ SocketMade(o) \/ SocketLacks
  /\ TranslateSocketError(o)
  /\ self' = o
  /\ interrupted' = FALSE
  /\ UNCHANGED <<made, m_bIsBlocking, nonblock, backlog, client, timed,
                 historyVars>>

\* The system frees the descriptor of an object, and drops the connections that
\* wait at a listening one.
Freed(o) ==
  LET fd == m_socket[o]
      listener == IsOpen(o) /\ Held(o) = "listening"
  IN /\ state' = [d \in Descriptors |-> IF d = fd THEN "closed" ELSE state[d]]
     /\ nonblock' = nonblock \ {fd}
     /\ backlog' = IF listener THEN <<>> ELSE backlog
     /\ discarded' = IF listener THEN discarded \cup ToSet(backlog)
                                 ELSE discarded

NotFreed == UNCHANGED <<systemVars, discarded>>

\* CLOSE(m_socket), when there is one, with errno = e before it.  A close() that
\* fails (EINTR, EIO) has freed the descriptor or has not: POSIX leaves it open,
\* and the object keeps its number.  That of a number that is not open fails.
Release(o, e, ok) ==
  \/ /\ ok
     /\ ~IsSocketValid(o) \/ IsOpen(o)
     /\ Freed(o)
     /\ errno' = e
     /\ UNCHANGED unclosed
  \/ /\ ~ok
     /\ IsSocketValid(o)
     /\ \/ IsOpen(o) /\ errno' \in {"EINTR", "EOTHER"} /\ (Freed(o) \/ NotFreed)
        \/ ~IsOpen(o) /\ errno' = "EOTHER" /\ NotFreed
     /\ unclosed' = unclosed \cup {m_socket[o]}
     /\ Cardinality(unclosed') <= MaxUnclosed
     /\ arrived + Cardinality(unclosed') <= MaxEvents

Invalidated(o) == m_socket' = [m_socket EXCEPT ![o] = INVALID_SOCKET]

\* Mutant: m_socket is not invalidated.
MUT_Closed(o, e) == \E ok \in BOOLEAN : Release(o, e, ok) /\ UNCHANGED m_socket

\* Close(): m_socket is invalidated only when CLOSE(m_socket) succeeded.
Closed(o, e) ==
  \E ok \in BOOLEAN :
     /\ Release(o, e, ok)
     /\ IF ok THEN Invalidated(o) ELSE UNCHANGED m_socket

Close(o) ==
  /\ Called(o)
  /\ Closed(o, errno)
  /\ TranslateSocketError(o)
  /\ Done
  /\ UNCHANGED <<made, m_bIsBlocking, callVars, arrived, handed>>

\* ~CActiveSocket() and ~CPassiveSocket(): Close(), and the object is no more,
\* whatever CLOSE(m_socket) did.
Deleted(o, e) ==
  /\ made' = made \ {o}
  /\ Invalidated(o)
  /\ \E ok \in BOOLEAN : Release(o, e, ok)

Delete(o) ==
  /\ Called(o)
  /\ Deleted(o, errno)
  /\ SetSocketError(o, "SocketEunknown")
  /\ m_bIsBlocking' = [m_bIsBlocking EXCEPT ![o] = TRUE]
  /\ Done
  /\ UNCHANGED <<callVars, arrived, handed>>

-----------------------------------------------------------------------------
(* Options.                                                                *)

\* A call on the descriptor that fails, as it does when none is open.
OptionFails(o) ==
  /\ errno' = "EOTHER"
  /\ TranslateSocketError(o)

OptionUnchanged ==
  UNCHANGED <<made, m_socket, state, backlog, callVars, historyVars>>

SetNonblocking(o) ==
  /\ Called(o)
  /\ \/ /\ IsOpen(o)
        /\ nonblock' = nonblock \cup {m_socket[o]}
        /\ m_bIsBlocking' = [m_bIsBlocking EXCEPT ![o] = FALSE]
        /\ UNCHANGED <<errno, m_socketErrno>>
     \/ /\ ~IsOpen(o)
        /\ OptionFails(o)
        /\ UNCHANGED <<nonblock, m_bIsBlocking>>
  /\ Done
  /\ OptionUnchanged

\* Mutant: the flags are written back as they were read.
MUT_SetBlocking(o) ==
  /\ Called(o) /\ IsOpen(o)
  /\ m_bIsBlocking' = [m_bIsBlocking EXCEPT ![o] = TRUE]
  /\ Done
  /\ OptionUnchanged
  /\ UNCHANGED <<nonblock, errno, m_socketErrno>>

SetBlocking(o) ==
  /\ Called(o)
  /\ \/ /\ IsOpen(o)
        /\ nonblock' = nonblock \ {m_socket[o]}
        /\ m_bIsBlocking' = [m_bIsBlocking EXCEPT ![o] = TRUE]
        /\ UNCHANGED <<errno, m_socketErrno>>
     \/ /\ ~IsOpen(o)
        /\ OptionFails(o)
        /\ UNCHANGED <<nonblock, m_bIsBlocking>>
  /\ Done
  /\ OptionUnchanged

\* Also SetOptionLinger().  errno is translated although nothing failed.
SetOptionReuseAddr(o) ==
  /\ Called(o)
  /\ \/ /\ IsOpen(o)
        /\ errno' = errno
        /\ TranslateSocketError(o)
     \/ OptionFails(o)
  /\ Done
  /\ OptionUnchanged
  /\ UNCHANGED <<nonblock, m_bIsBlocking>>

\* EnableNagleAlgoritm() and DisableNagleAlgoritm().
SetNagleAlgoritm(o) == SetOptionReuseAddr(o)

\* Also GetWindowSize().
SetWindowSize(o) ==
  /\ Called(o)
  /\ \/ /\ IsOpen(o)
        /\ errno' \in {errno, "EOTHER"}
        /\ TranslateSocketError(o)
     \/ /\ IsSocketValid(o) /\ ~IsOpen(o)
        /\ OptionFails(o)
     \/ /\ ~IsSocketValid(o)
        /\ SetSocketError(o, "SocketEunknown")
        /\ errno' = errno
  /\ Done
  /\ OptionUnchanged
  /\ UNCHANGED <<nonblock, m_bIsBlocking>>

\* Also SetSendTimeout().  errno is translated only when the call failed.
SetReceiveTimeout(o) ==
  /\ Called(o)
  /\ \/ /\ IsOpen(o)
        /\ UNCHANGED <<errno, m_socketErrno>>
     \/ OptionFails(o)
  /\ Done
  /\ OptionUnchanged
  /\ UNCHANGED <<nonblock, m_bIsBlocking>>

-----------------------------------------------------------------------------
(* Select(), by the caller or by Open() until the connection is made.      *)

\* When Select() is done in Open(), Open() is done.
SelectReturns(ok) ==
  /\ at' = "caller"
  /\ result' = IF at = "poll" THEN Result("Open", ok) ELSE NoResult
  /\ timed' = FALSE

\* Mutant: the pending error is not looked at.
MUT_CheckError ==
  /\ errno' = "SUCCESS"
  /\ SetSocketError(self, "SocketSuccess")
  /\ state' = state
  /\ SelectReturns(TRUE)

\* The pending error of the descriptor (SO_ERROR), which reading it clears, and
\* which cannot be read when the number is that of no open descriptor.
\* Without one Open() goes on to getpeername(), which fails when there is no
\* connection, and sets SocketSuccess.
CheckError ==
  LET ok == Held(self) \notin {"refused", "closed"}
  IN /\ errno' = IF ok /\ (at = "select" \/ Held(self) = "connected")
                 THEN "SUCCESS" ELSE "EOTHER"
     /\ SetSocketError(self, IF ok THEN "SocketSuccess" ELSE "SocketEunknown")
     /\ state' = IF Held(self) = "refused"
                 THEN [state EXCEPT ![m_socket[self]] = "new"] ELSE state
     /\ SelectReturns(ok)

SelectUnchanged ==
  UNCHANGED <<made, m_socket, m_bIsBlocking, nonblock, backlog, self,
              client, historyVars>>

\* A descriptor that is not open seems ready as well: select() fails, and leaves
\* the sets as they were.
Readable == \/ Held(self) \in {"new", "connected", "refused", "closed"}
            \/ Held(self) = "listening" /\ backlog # <<>>

Select(o) ==
  /\ Called(o) /\ IsSocketValid(o)
  /\ at' = "select"
  /\ self' = o
  /\ timed' \in BOOLEAN
  /\ Done
  /\ UNCHANGED <<objectVars, errno, systemVars, client, historyVars>>

SelectReady ==
  /\ at \in {"poll", "select"}
  /\ Readable
  /\ CheckError
  /\ SelectUnchanged /\ UNCHANGED interrupted

SelectTimesOut ==
  /\ at \in {"poll", "select"}
  /\ timed
  /\ SetSocketError(self, "SocketEunknown")
  /\ SelectReturns(FALSE)
  /\ SelectUnchanged /\ UNCHANGED <<errno, state, interrupted>>

\* select() leaves the sets as they were: the descriptor seems to be ready.
SelectInterrupted ==
  /\ at \in {"poll", "select"}
  /\ Held(self) # "closed"
  /\ CheckError
  /\ interrupted' = (at = "poll")
  /\ SelectUnchanged

-----------------------------------------------------------------------------
(* Open(), of an active socket.                                            *)

OpenUnchanged ==
  UNCHANGED <<made, m_socket, m_bIsBlocking, nonblock, backlog, client,
              historyVars>>

\* No descriptor, no address, no port, or no such host.
OpenRejected(o) ==
  /\ Called(o) /\ o \in Active
  /\ SetSocketError(o, "SocketEunknown")
  /\ Returns("Open", FALSE)
  /\ self' = o
  /\ interrupted' = FALSE
  /\ OpenUnchanged /\ UNCHANGED <<errno, state, timed>>

\* Open() returns false without an error of its own: the host was not looked up,
\* which sets none, or it is the broadcast address, and an old errno is
\* translated.  The result says "Lookup" to tell this end of Open() apart.
LookupFails(o) ==
  /\ Called(o) /\ o \in Active /\ IsSocketValid(o)
  /\ errno' = errno
  /\ UNCHANGED m_socketErrno \/ TranslateSocketError(o)
  /\ Returns("Lookup", FALSE)
  /\ self' = o
  /\ interrupted' = FALSE
  /\ OpenUnchanged /\ UNCHANGED <<state, timed>>

\* Mutant: Open() does not set SocketSuccess, and errno is not cleared.
MUT_ConnectSucceeds(o) ==
  /\ errno' = errno
  /\ TranslateSocketError(o)
  /\ Returns("Open", TRUE)
  /\ timed' = timed

\* connect() returns 0, and Open() goes on to its end.
ConnectSucceeds(o) ==
  /\ SetSocketError(o, "SocketSuccess")
  /\ Returns("Open", TRUE)
  /\ UNCHANGED <<errno, timed>>

\* connect() fails.  Only a socket that is set to be non-blocking waits.
ConnectFails(o, e) ==
  /\ errno' = e
  /\ TranslateSocketError(o)
  /\ IF ~m_bIsBlocking[o] /\ e = "EINPROGRESS"    \* SocketEinprogress
     THEN /\ at' = "poll" /\ timed' \in BOOLEAN    \* SetConnectTimeout()
          /\ result' = NoResult
     ELSE /\ Returns("Open", FALSE)
          /\ timed' = FALSE

Becomes(o, s) == state' = [state EXCEPT ![m_socket[o]] = s]

\* connect(), whose four outcomes follow.
Connect(o) ==
  /\ Called(o) /\ o \in Active /\ IsSocketValid(o)
  /\ self' = o
  /\ interrupted' = FALSE
  /\ OpenUnchanged

ConnectAtOnce(o) ==
  /\ Connect(o)
  /\ Held(o) \in {"new", "connected"}
  /\ ConnectSucceeds(o)
  /\ Becomes(o, "connected")

ConnectRefused(o) ==
  /\ Connect(o)
  /\ ConnectFails(o, "EOTHER")
  /\ state' = IF Held(o) = "refused" THEN [state EXCEPT ![m_socket[o]] = "new"]
                                     ELSE state

ConnectPends(o) ==
  /\ Connect(o)
  /\ Held(o) = "new" /\ m_socket[o] \in nonblock
  /\ ConnectFails(o, "EINPROGRESS")
  /\ Becomes(o, "connecting")

ConnectWaits(o) ==
  /\ Connect(o)
  /\ Held(o) \in {"new", "connecting"} /\ m_socket[o] \notin nonblock
  /\ at' = "connect" /\ result' = NoResult
  /\ Becomes(o, "connecting")
  /\ UNCHANGED <<m_socketErrno, errno, timed>>

ConnectTCP(o) == \/ ConnectAtOnce(o) \/ ConnectRefused(o)
                 \/ ConnectPends(o) \/ ConnectWaits(o)

\* A blocking connect() has waited until the peer answered.
ConnectReturns ==
  /\ at = "connect"
  /\ \/ /\ Held(self) = "connected"
        /\ ConnectSucceeds(self)
        /\ state' = state
     \/ /\ Held(self) = "refused"
        /\ ConnectFails(self, "EOTHER")
        /\ Becomes(self, "new")
  /\ OpenUnchanged /\ UNCHANGED <<self, interrupted>>

\* The system goes on to connect.
ConnectInterrupted ==
  /\ at = "connect"
  /\ ConnectFails(self, "EINTR")
  /\ OpenUnchanged /\ UNCHANGED <<state, self, interrupted>>

-----------------------------------------------------------------------------
(* Listen() and Accept(), of a passive socket.                             *)

\* bind() and listen().  They succeed for one socket at a time: there is one
\* port.  errno is translated although nothing failed.
Listens(o) ==
  /\ IsSocketValid(o) /\ Held(o) = "new"
  /\ \A fd \in Descriptors : state[fd] # "listening"
  /\ Becomes(o, "listening")
  /\ errno' = errno
  /\ Returns("Listen", TRUE)
  /\ UNCHANGED <<m_socket, nonblock, backlog, discarded, unclosed>>

\* After a failure Listen() closes the socket.
ListenFails(o) ==
  /\ Closed(o, "EOTHER")
  /\ Returns("Listen", FALSE)

Listen(o) ==
  /\ Called(o) /\ o \in Passive
  /\ Listens(o) \/ ListenFails(o)
  /\ TranslateSocketError(o)
  /\ self' = o
  /\ interrupted' = FALSE
  /\ UNCHANGED <<made, m_bIsBlocking, client, timed, arrived, handed>>

AcceptUnchanged == UNCHANGED <<timed, arrived, interrupted>>

\* Up to the loop around accept(): the client is made.
Accept(o) ==
  /\ Called(o) /\ o \in Passive
  /\ \E c \in Active \ made :
       /\ Constructed(c)
       /\ client' = c
  /\ errno' = Cleared(errno)
  /\ at' = "accept"
  /\ self' = o
  /\ Done
  /\ UNCHANGED <<systemVars, timed, historyVars>>

\* Mutant: an accept() that would block is repeated as well.
MUT_Again(e) == e \in {"EINTR", "EINPROGRESS"}

\* while (socketErrno == SocketInterrupted), after an accept() that left e in
\* errno; then the client is returned if the error is SocketSuccess.  `left' is
\* what errno is by then.
Again(e) == e = "EINTR"

AcceptLoop(e, left) ==
  IF Again(e)
  THEN /\ at' = "accept"
       /\ result' = NoResult
       /\ errno' = Cleared(left)
  ELSE /\ Returns("Accept", Translated(e) = "SocketSuccess")
       /\ errno' = left

Listening == IsSocketValid(self) /\ Held(self) = "listening"
Exhausted == \A fd \in Descriptors : state[fd] # "closed"

\* accept() takes the first connection and does not touch errno.  Then the
\* peer of the listening socket is asked for, which has none: an error.
AcceptTakes ==
  /\ at = "accept"
  /\ Listening /\ backlog # <<>>
  /\ \E fd \in Descriptors :
       /\ Lowest(fd)
       /\ m_socket' = [m_socket EXCEPT ![client] = fd]
       /\ state' = [state EXCEPT ![fd] = "connected"]
  /\ backlog' = Tail(backlog)
  /\ SetSocketError(client, Translated(errno))
  /\ AcceptLoop(errno, "EOTHER")
  /\ handed' = IF Again(errno) THEN handed ELSE Append(handed, Head(backlog))
  /\ UNCHANGED <<made, m_bIsBlocking, nonblock, self, client>>
  /\ AcceptUnchanged /\ UNCHANGED <<discarded, unclosed>>

\* accept() fails: the error is the passive socket's, and the client is deleted
\* when the loop ends.
AcceptError(e) ==
  /\ SetSocketError(self, Translated(e))
  /\ AcceptLoop(e, e)
  /\ IF Again(e)
     THEN UNCHANGED <<made, m_socket, systemVars, discarded, unclosed>>
     ELSE Deleted(client, e)
  /\ UNCHANGED <<m_bIsBlocking, handed, self, client>>
  /\ AcceptUnchanged

AcceptFails ==
  /\ at = "accept"
  /\ \/ /\ ~Listening \/ Exhausted
        /\ AcceptError("EOTHER")
     \/ /\ Listening /\ m_socket[self] \in nonblock /\ backlog = <<>>
        /\ AcceptError("EINPROGRESS")

\* The system lacks memory, or another process has the descriptors.
AcceptLacks ==
  /\ at = "accept"
  /\ AcceptError("EOTHER")

AcceptInterrupted ==
  /\ at = "accept"
  /\ AcceptError("EINTR")

-----------------------------------------------------------------------------
(* The network and the next-state relation.                                *)

\* The peer of a connection answers, or the system gives it up.
Answered(fd) ==
  /\ state[fd] = "connecting"
  /\ \E s \in {"connected", "refused"} : state' = [state EXCEPT ![fd] = s]
  /\ UNCHANGED <<objectVars, errno, nonblock, backlog, callVars,
                 historyVars, interrupted, result>>

\* A peer connects to the listening socket.
Arrives ==
  /\ arrived + Cardinality(unclosed) < MaxEvents
  /\ \E fd \in Descriptors : state[fd] = "listening"
  /\ arrived' = arrived + 1
  /\ backlog' = Append(backlog, arrived')
  /\ UNCHANGED <<objectVars, errno, state, nonblock, callVars, handed,
                 discarded, unclosed, interrupted, result>>

Init ==
  /\ made = {}
  /\ m_socket = [o \in Objects |-> INVALID_SOCKET]
  /\ m_socketErrno = [o \in Objects |-> "SocketEunknown"]
  /\ m_bIsBlocking = [o \in Objects |-> TRUE]
  /\ errno = "SUCCESS"
  /\ state = [fd \in Descriptors |-> "closed"]
  /\ nonblock = {}
  /\ backlog = <<>>
  /\ at = "caller" /\ self \in Objects /\ client \in Active /\ timed = FALSE
  /\ arrived = 0 /\ handed = <<>> /\ discarded = {} /\ unclosed = {}
  /\ interrupted = FALSE /\ result = NoResult

\* What the caller may do with an object.
Calls(o) ==
  \/ CSimpleSocket(o) \/ Initialize(o) \/ Close(o) \/ Delete(o)
  \/ SetNonblocking(o) \/ SetBlocking(o) \/ SetOptionReuseAddr(o)
  \/ SetNagleAlgoritm(o) \/ SetWindowSize(o) \/ SetReceiveTimeout(o)
  \/ Select(o) \/ OpenRejected(o) \/ LookupFails(o) \/ ConnectTCP(o)
  \/ Listen(o) \/ Accept(o)

\* What ends a call that waits, and what may happen to it instead.
Ends    == SelectReady \/ SelectTimesOut \/ ConnectReturns \/ AcceptTakes
           \/ AcceptFails
Trouble  == SelectInterrupted \/ ConnectInterrupted \/ AcceptInterrupted
           \/ AcceptLacks
Network == Arrives \/ \E fd \in Descriptors : Answered(fd)

Next == (\E o \in Objects : Calls(o)) \/ Ends \/ Trouble \/ Network

\* The system returns from a call when it can, and does not leave a connection
\* unanswered for ever: it gives it up in the end.
Fairness == /\ WF_vars(Ends)
            /\ \A fd \in Descriptors : WF_vars(Answered(fd))

Spec == Init /\ [][Next]_vars /\ Fairness

-----------------------------------------------------------------------------
(* Properties.                                                             *)

TypeOK ==
  /\ made \subseteq Objects
  /\ m_socket \in [Objects -> Descriptors \cup {INVALID_SOCKET}]
  /\ m_socketErrno \in [Objects -> SocketErrors]
  /\ m_bIsBlocking \in [Objects -> BOOLEAN]
  /\ errno \in Errnos
  /\ state \in [Descriptors -> States]
  /\ nonblock \subseteq Descriptors
  /\ backlog \in Seq(Nat)
  /\ at \in Places /\ self \in Objects /\ client \in Active
  /\ timed \in BOOLEAN
  /\ arrived \in Nat /\ handed \in Seq(Nat) /\ discarded \subseteq Nat
  /\ unclosed \subseteq Descriptors
  /\ interrupted \in BOOLEAN /\ result \in Results

\* Every open descriptor is held by one object and every object that has a
\* descriptor has an open one: none is lost, none is closed for another.  A
\* close() that fails breaks this (the number is kept, and is closed again or is
\* lost with its object), but only for the number that was to be closed.
Owned ==
  /\ \A o \in Objects : IsSocketValid(o) => o \in made
  /\ \A o \in Objects : IsSocketValid(o) /\ m_socket[o] \notin unclosed => IsOpen(o)
  /\ \A o, p \in Objects :
       IsSocketValid(o) /\ m_socket[o] = m_socket[p] /\ m_socket[o] \notin unclosed
         => o = p
  /\ \A fd \in Descriptors \ unclosed :
       state[fd] # "closed" => \E o \in Objects : m_socket[o] = fd

\* An object that says it is blocking has a descriptor that blocks, through
\* Close(), Initialize() and Accept(): connect() cannot be left in progress
\* without Select().  The number of a failed close() may be another object's.
BlockingAsTold ==
  \A o \in Objects :
    m_bIsBlocking[o] /\ m_socket[o] \notin unclosed => m_socket[o] \notin nonblock

\* What Open() says is connected is, unless its Select() was interrupted
\* (ActiveSocket.h:70, "true if successful connection made").
ConnectedWhenOpened ==
  result = Result("Open", TRUE) /\ ~interrupted => Held(self) = "connected"

\* The error of an object agrees with what the last call returned, whatever
\* the calls on other objects have left in errno: a call that failed left an
\* error, and one that succeeded left SocketSuccess.  Two cases are not covered,
\* since the code sets no error there: an Open() that ended before connect() (see
\* ReportsAsDocumented), and the passive socket of a connection that was accepted.
ReportsAgree ==
  /\ ~result.ok /\ result.call # "Lookup" => m_socketErrno[self] # "SocketSuccess"
  /\ result \in {Result("Initialize", TRUE), Result("Open", TRUE)} =>
       m_socketErrno[self] = "SocketSuccess"
  /\ result = Result("Accept", TRUE) => m_socketErrno[client] = "SocketSuccess"

\* After any call that failed, the error is that of the call ("This method should
\* be called immediately to retrieve the error code for the failing mehtod
\* call", SimpleSocket.h:371-372).  An Open() that does not come to connect()
\* leaves the error it finds, SocketSuccess after an Initialize() that succeeded.
ReportsAsDocumented == ~result.ok => m_socketErrno[self] # "SocketSuccess"

\* Accept() returns the connections in the order they were made, each once,
\* and loses none: those not returned wait, or their listener was closed.
AcceptedInOrder ==
  LET known == handed \o backlog
  IN /\ \A i, j \in DOMAIN known : i < j => known[i] < known[j]
     /\ ToSet(known) \cup discarded = 1..arrived

\* A call that can return does: Open() always, whatever the peer does and
\* whatever the timeout is; Select() with a timeout; Accept() when a connection
\* waits, when the socket is not blocking and when nothing listens.
CallsReturn ==
  (\/ at \in {"connect", "poll"}
   \/ at = "select" /\ timed
   \/ at = "accept" /\ (~Listening \/ m_socket[self] \in nonblock
                         \/ backlog # <<>>)) ~> at = "caller"

=============================================================================
