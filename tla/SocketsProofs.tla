--------------------------- MODULE SocketsProofs ----------------------------
(***************************************************************************)
(* Proofs about Sockets, for any number of objects, descriptors and        *)
(* connections.                                                            *)
(*                                                                         *)
(* The inductive invariant IInv joins the properties with what a call that *)
(* waits relies on (PlaceInv) and with what makes the others inductive:    *)
(* the flag O_NONBLOCK goes with its descriptor (OpenInv), and the socket  *)
(* whose Open() was the last call still has the descriptor that was        *)
(* connected (ConnectedInv).  Every step lemma has one case for each       *)
(* action, in the order of Next; the effects of the operations that        *)
(* several actions share are stated once, before them.                     *)
(***************************************************************************)
EXTENDS Sockets, TLAPS

\* A call that waits has an object, and a descriptor that can wait.  Before
\* accept() the client has no descriptor and errno is cleared.
PlaceInv ==
  /\ at # "caller" => self \in made
  /\ at \in {"connect", "poll", "select"} => IsSocketValid(self)
  /\ at \in {"connect", "poll"} => Held(self) \in {"connecting", "connected", "refused"}
  /\ at = "accept" =>
       self \in Passive /\ client \in made /\ ~IsSocketValid(client) /\ errno = "SUCCESS"

\* The flag of a descriptor is lost when it is closed.
OpenInv == \A fd \in nonblock : state[fd] # "closed"

\* After Open() returned true nothing has touched its descriptor.
ConnectedInv ==
  result = Result("Open", TRUE) =>
    IsSocketValid(self) /\ (~interrupted => Held(self) = "connected")

\* The inductive invariant.
IInv == /\ TypeOK /\ Owned /\ PlaceInv /\ OpenInv /\ BlockingAsTold
        /\ ConnectedInv /\ ReportsAgree

\* An object has SocketSuccess when errno says so.
LEMMA TranslatedIs ==
  ASSUME NEW e
  PROVE  /\ Translated(e) \in SocketErrors
         /\ Translated(e) = "SocketSuccess" <=> e = "SUCCESS"
BY DEF Translated, SocketErrors

\* What a failure e of connect() leaves behind.
Refused(o, e) ==
  /\ errno' = e /\ timed' \in BOOLEAN
  /\ m_socketErrno' \in [Objects -> SocketErrors]
  /\ m_socketErrno'[o] # "SocketSuccess"
  /\ \/ at' = "poll" /\ result' = NoResult /\ e = "EINPROGRESS"
     \/ at' = "caller" /\ result' = Result("Open", FALSE)

\* What reading the pending error leaves behind.
Checked(ok) ==
  /\ errno' \in Errnos /\ timed' = FALSE /\ at' = "caller"
  /\ m_socketErrno' \in [Objects -> SocketErrors]
  /\ result' = IF at = "poll" THEN Result("Open", ok) ELSE NoResult
  /\ ok <=> Held(self) \notin {"refused", "closed"}
  /\ ok <=> m_socketErrno'[self] = "SocketSuccess"
  /\ state' = IF Held(self) = "refused"
              THEN [state EXCEPT ![m_socket[self]] = "new"] ELSE state

\* Closing frees the object's descriptor and forgets its number; or it fails, and
\* the number is remembered as one that was not closed.
Released(o, e) ==
  /\ \/ /\ IsSocketValid(o) => IsOpen(o)
        /\ Invalidated(o) /\ Freed(o) /\ unclosed' = unclosed
     \/ /\ m_socket[o] \in Descriptors
        /\ UNCHANGED m_socket \/ Invalidated(o)
        /\ Freed(o) \/ NotFreed
        /\ unclosed' = unclosed \cup {m_socket[o]}
  /\ m_socket' \in [Objects -> Descriptors \cup {INVALID_SOCKET}]
  /\ state' \in [Descriptors -> States]
  /\ nonblock' \subseteq Descriptors /\ unclosed' \subseteq Descriptors
  /\ backlog' \in Seq(Nat) /\ discarded' \subseteq Nat
  /\ errno' \in {e, "EINTR", "EOTHER"}

\* accept() has failed: the loop goes on, or the client is deleted, which has
\* no descriptor.
AcceptFailed(e) ==
  /\ m_socketErrno' \in [Objects -> SocketErrors]
  /\ m_socketErrno'[self] # "SocketSuccess"
  /\ \/ /\ at' = "accept" /\ result' = NoResult /\ errno' = "SUCCESS"
        /\ made' = made
     \/ /\ at' = "caller" /\ result' = Result("Accept", FALSE) /\ errno' = e
        /\ made' = made \ {client}
  /\ UNCHANGED <<m_socket, m_bIsBlocking, systemVars, self, client, timed,
                 historyVars, interrupted>>

\* A connect() that failed leaves an error in its object, and Open() waits in
\* Select() only when the connection is in progress.
LEMMA ConnectFailsEffect ==
  ASSUME TypeOK, NEW o \in Objects, NEW e \in Errnos \ {"SUCCESS"}, ConnectFails(o, e)
  PROVE  Refused(o, e)
<1>1. errno' = e
  BY DEF ConnectFails
<1>2. m_socketErrno' = [m_socketErrno EXCEPT ![o] = Translated(e)]
  BY <1>1 DEF ConnectFails, TranslateSocketError, SetSocketError
<1>3. m_socketErrno' \in [Objects -> SocketErrors] /\ m_socketErrno'[o] # "SocketSuccess"
  BY <1>2, TranslatedIs DEF TypeOK
<1>4. /\ timed' \in BOOLEAN
      /\ \/ at' = "poll" /\ result' = NoResult /\ e = "EINPROGRESS"
         \/ at' = "caller" /\ result' = Result("Open", FALSE)
  BY TranslatedIs DEF ConnectFails, Returns
<1> QED  BY <1>1, <1>3, <1>4 DEF Refused

\* Reading the pending error sets the error of the object to what it says.
LEMMA CheckErrorEffect ==
  ASSUME TypeOK, IsSocketValid(self), CheckError
  PROVE  \E ok \in BOOLEAN : Checked(ok)
<1> DEFINE ok == Held(self) \notin {"refused", "closed"}
           error == IF ok THEN "SocketSuccess" ELSE "SocketEunknown"
<1>1. /\ errno' \in Errnos
      /\ m_socketErrno' = [m_socketErrno EXCEPT ![self] = error]
      /\ state' = IF Held(self) = "refused"
                  THEN [state EXCEPT ![m_socket[self]] = "new"] ELSE state
      /\ SelectReturns(ok)
  BY DEF CheckError, SetSocketError, Errnos
<1>2. /\ m_socketErrno' \in [Objects -> SocketErrors]
      /\ ok <=> m_socketErrno'[self] = "SocketSuccess"
  BY <1>1 DEF TypeOK, SocketErrors
<1>3. /\ timed' = FALSE /\ at' = "caller"
      /\ result' = IF at = "poll" THEN Result("Open", ok) ELSE NoResult
  BY <1>1 DEF SelectReturns
<1>4. ok \in BOOLEAN
  OBVIOUS
<1> QED  BY <1>1, <1>2, <1>3, <1>4 DEF Checked

\* Closing does this, by Close() and by a destructor.
LEMMA ReleaseEffect ==
  ASSUME TypeOK, NEW o \in Objects, NEW e \in Errnos, Closed(o, e) \/ Deleted(o, e)
  PROVE  Released(o, e)
<1>1. PICK ok \in BOOLEAN : Release(o, e, ok) /\ (ok => Invalidated(o))
  BY DEF Closed, Deleted
<1>2. UNCHANGED m_socket \/ Invalidated(o)
  BY DEF Closed, Deleted
<1>3. m_socket' \in [Objects -> Descriptors \cup {INVALID_SOCKET}]
  BY <1>2 DEF Invalidated, TypeOK
<1>4. Freed(o) \/ NotFreed
  BY <1>1 DEF Release
<1>5. /\ state' \in [Descriptors -> States] /\ nonblock' \subseteq Descriptors
      /\ backlog' \in Seq(Nat) /\ discarded' \subseteq Nat
  <2>1. ToSet(backlog) \subseteq Nat
    BY DEF ToSet, TypeOK
  <2>2. <<>> \in Seq(Nat)
    OBVIOUS
  <2> QED  BY <1>4, <2>1, <2>2 DEF Freed, NotFreed, systemVars, TypeOK, States
<1>6. CASE ok
  <2>1. /\ IsSocketValid(o) => IsOpen(o)
        /\ Freed(o) /\ unclosed' = unclosed /\ errno' = e
    BY <1>1, <1>6 DEF Release
  <2> QED  BY <1>1, <1>3, <1>5, <1>6, <2>1 DEF Released, TypeOK
<1>7. CASE ~ok
  <2>1. m_socket[o] \in Descriptors
    BY <1>1, <1>7 DEF Release, IsSocketValid, TypeOK
  <2>2. unclosed' = unclosed \cup {m_socket[o]} /\ errno' \in {e, "EINTR", "EOTHER"}
    BY <1>1, <1>7 DEF Release
  <2>3. unclosed' \subseteq Descriptors
    BY <2>1, <2>2 DEF TypeOK
  <2> QED  BY <1>2, <1>3, <1>4, <1>5, <2>1, <2>2, <2>3 DEF Released
<1> QED  BY <1>6, <1>7

\* After a failure accept() is repeated or its client is gone; no descriptor
\* is touched, since the client has none.
LEMMA AcceptErrorEffect ==
  ASSUME IInv, at = "accept", NEW e \in Errnos \ {"SUCCESS"}, AcceptError(e)
  PROVE  AcceptFailed(e)
<1>1. m_socketErrno' = [m_socketErrno EXCEPT ![self] = Translated(e)]
  BY DEF AcceptError, SetSocketError
<1>2. m_socketErrno' \in [Objects -> SocketErrors] /\ m_socketErrno'[self] # "SocketSuccess"
  BY <1>1, TranslatedIs DEF IInv, TypeOK
<1>3. client \in Objects /\ m_socket[client] = INVALID_SOCKET /\ INVALID_SOCKET \notin Descriptors
  BY SocketsAssumption DEF IInv, TypeOK, PlaceInv, Objects, IsSocketValid, INVALID_SOCKET
<1>4. ASSUME Deleted(client, e)
      PROVE  /\ UNCHANGED <<m_socket, systemVars, discarded, unclosed>>
             /\ made' = made \ {client}
  <2>1. ~IsSocketValid(client) /\ TypeOK
    BY <1>3 DEF IsSocketValid, IInv
  <2>2. Freed(client) /\ UNCHANGED unclosed /\ Invalidated(client) /\ made' = made \ {client}
    BY <1>4, <2>1 DEF Deleted, Release
  <2>3. UNCHANGED m_socket
    BY <1>3, <2>1, <2>2 DEF Invalidated, TypeOK
  <2>4. \A d \in Descriptors : d # m_socket[client]
    BY <1>3
  <2>5. state' = state /\ nonblock' = nonblock
    BY <2>1, <2>2, <2>4 DEF Freed, TypeOK
  <2>6. backlog' = backlog /\ discarded' = discarded
    BY <2>1, <2>2 DEF Freed, IsOpen
  <2> QED  BY <2>2, <2>3, <2>5, <2>6 DEF systemVars
<1> QED  BY <1>2, <1>4, TranslatedIs
         DEF AcceptError, AcceptLoop, Again, Returns, Cleared, AcceptUnchanged,
             AcceptFailed, systemVars, historyVars

\* The steps whose effects are stated above.
Effects ==
  /\ \A o \in Objects : /\ ConnectRefused(o) => Refused(o, "EOTHER")
                        /\ ConnectPends(o) => Refused(o, "EINPROGRESS")
                        /\ \A e \in Errnos : Closed(o, e) \/ Deleted(o, e) => Released(o, e)
  /\ ConnectInterrupted => Refused(self, "EINTR")
  /\ ConnectReturns /\ Held(self) = "refused" => Refused(self, "EOTHER")
  /\ (SelectReady \/ SelectInterrupted) => \E ok \in BOOLEAN : Checked(ok)
  /\ \A e \in Errnos \ {"SUCCESS"} : at = "accept" /\ AcceptError(e) => AcceptFailed(e)

\* They hold in the invariant.
LEMMA EffectsHold == ASSUME IInv PROVE Effects
<1>1. TypeOK /\ PlaceInv /\ self \in Objects
  BY DEF IInv, TypeOK
<1>2. \A o \in Objects : /\ ConnectRefused(o) => Refused(o, "EOTHER")
                         /\ ConnectPends(o) => Refused(o, "EINPROGRESS")
  BY <1>1, ConnectFailsEffect DEF ConnectRefused, ConnectPends, Errnos
<1>3. \A o \in Objects : \A e \in Errnos : Closed(o, e) \/ Deleted(o, e) => Released(o, e)
  BY <1>1, ReleaseEffect
<1>4. ConnectInterrupted => Refused(self, "EINTR")
  BY <1>1, ConnectFailsEffect DEF ConnectInterrupted, Errnos
<1>5. ConnectReturns /\ Held(self) = "refused" => Refused(self, "EOTHER")
  BY <1>1, ConnectFailsEffect DEF ConnectReturns, Errnos
<1>6. (SelectReady \/ SelectInterrupted) => \E ok \in BOOLEAN : Checked(ok)
  <2>1. at \in {"poll", "select"} => IsSocketValid(self)
    BY <1>1 DEF PlaceInv
  <2> QED  BY <1>1, <2>1, CheckErrorEffect DEF SelectReady, SelectInterrupted
<1>7. \A e \in Errnos \ {"SUCCESS"} : at = "accept" /\ AcceptError(e) => AcceptFailed(e)
  BY AcceptErrorEffect
<1> QED  BY <1>2, <1>3, <1>4, <1>5, <1>6, <1>7 DEF Effects

\* What a call may report.
LEMMA ResultTypes ==
  /\ NoResult \in Results /\ NoResult = Result("none", TRUE)
  /\ \A ok \in BOOLEAN : \A call \in {"Initialize", "Open", "Lookup", "Listen", "Accept"} :
       Result(call, ok) \in Results
BY DEF NoResult, Result, Results

\* An error is translated to one of the errors of an object.
LEMMA TranslateTypes ==
  ASSUME TypeOK, NEW o \in Objects, TranslateSocketError(o)
  PROVE  m_socketErrno' \in [Objects -> SocketErrors]
BY TranslatedIs DEF TranslateSocketError, SetSocketError, TypeOK

\* Types are kept by Initialize(),
LEMMA InitializeTypes ==
  ASSUME TypeOK, NEW o \in Objects, Initialize(o), SocketMade(o)
  PROVE  TypeOK'
<1>1. m_socketErrno' \in [Objects -> SocketErrors]
  BY TranslateTypes DEF Initialize
<1>2. PICK fd \in Descriptors : /\ m_socket' = [m_socket EXCEPT ![o] = fd]
                                /\ state' = [state EXCEPT ![fd] = "new"]
  BY DEF SocketMade
<1>3. /\ m_socket' \in [Objects -> Descriptors \cup {INVALID_SOCKET}]
      /\ state' \in [Descriptors -> States]
  BY <1>2 DEF TypeOK, States
<1>4. errno' \in Errnos /\ at' \in Places /\ result' \in Results
  BY ResultTypes DEF SocketMade, Cleared, Returns, Errnos, Places
<1>5. self' = o /\ interrupted' = FALSE
  BY DEF Initialize
<1>6. UNCHANGED <<made, m_bIsBlocking, nonblock, backlog, client, timed,
                  arrived, handed, discarded, unclosed>>
  BY DEF Initialize, historyVars
<1> QED  BY <1>1, <1>3, <1>4, <1>5, <1>6 DEF TypeOK

\* by what closes a socket,
LEMMA CloseTypes ==
  ASSUME TypeOK, NEW o \in Objects, Close(o) \/ Delete(o) \/ (Listen(o) /\ ListenFails(o))
  PROVE  TypeOK'
<1>1. PICK e \in Errnos : Released(o, e)
  BY ReleaseEffect DEF Close, Delete, ListenFails, TypeOK, Errnos
<1>2. m_socketErrno' \in [Objects -> SocketErrors]
  <2>1. CASE Close(o) \/ Listen(o)
    BY <2>1, TranslateTypes DEF Close, Listen
  <2>2. CASE Delete(o)
    BY <2>2 DEF Delete, SetSocketError, TypeOK, SocketErrors
  <2> QED  BY <2>1, <2>2
<1>3. made' \subseteq Objects /\ m_bIsBlocking' \in [Objects -> BOOLEAN]
  BY DEF Close, Delete, Deleted, Listen, TypeOK
<1>4. /\ at' \in Places /\ result' \in Results
      /\ interrupted' = FALSE /\ self' \in Objects /\ UNCHANGED <<client, timed, arrived, handed>>
  BY ResultTypes DEF Close, Delete, Listen, ListenFails, Done, Returns, Places,
                     callVars, TypeOK
<1> QED  BY <1>1, <1>2, <1>3, <1>4 DEF TypeOK, Released, Errnos

\* by SetWindowSize(),
LEMMA WindowTypes ==
  ASSUME TypeOK, NEW o \in Objects, SetWindowSize(o)
  PROVE  TypeOK'
<1>1. m_socketErrno' \in [Objects -> SocketErrors] /\ errno' \in Errnos
  <2>1. CASE TranslateSocketError(o) /\ errno' \in {errno, "EOTHER"}
    BY <2>1, TranslateTypes DEF TypeOK, Errnos
  <2>2. CASE SetSocketError(o, "SocketEunknown") /\ errno' = errno
    BY <2>2 DEF SetSocketError, TypeOK, SocketErrors
  <2> QED  BY <2>1, <2>2 DEF SetWindowSize, OptionFails
<1>2. /\ UNCHANGED <<nonblock, m_bIsBlocking, made, m_socket, state, backlog,
                     callVars, historyVars>>
      /\ interrupted' = FALSE /\ result' \in Results
  BY ResultTypes DEF SetWindowSize, OptionUnchanged, Done
<1> QED  BY <1>1, <1>2 DEF TypeOK, callVars, historyVars

\* by connect() and what ends it,
LEMMA ConnectTypes ==
  ASSUME TypeOK, Effects,
         \/ \E o \in Objects : ConnectRefused(o) \/ ConnectPends(o)
         \/ ConnectReturns \/ ConnectInterrupted
  PROVE  TypeOK'
<1>1. ASSUME NEW o \in Objects, NEW e \in Errnos, Refused(o, e), OpenUnchanged,
             state' \in [Descriptors -> States], self' \in Objects,
             interrupted' \in BOOLEAN
      PROVE  TypeOK'
  <2>1. at' \in Places /\ result' \in Results
    BY <1>1, ResultTypes DEF Refused, Places
  <2> QED  BY <1>1, <2>1 DEF TypeOK, Refused, OpenUnchanged, historyVars
<1>2. ASSUME NEW o \in Objects, ConnectRefused(o) \/ ConnectPends(o)
      PROVE  TypeOK'
  <2>1. PICK e \in Errnos : Refused(o, e)
    BY <1>2 DEF Effects, Errnos
  <2>2. state' \in [Descriptors -> States]
    BY <1>2 DEF ConnectRefused, ConnectPends, Becomes, TypeOK, States
  <2>3. OpenUnchanged /\ self' = o /\ interrupted' = FALSE
    BY <1>2 DEF ConnectRefused, ConnectPends, Connect
  <2> QED  BY <1>1, <2>1, <2>2, <2>3
<1>3. CASE ConnectReturns /\ Held(self) = "connected"
  <2>1. m_socketErrno' \in [Objects -> SocketErrors]
    BY <1>3 DEF ConnectReturns, ConnectSucceeds, SetSocketError, TypeOK, SocketErrors
  <2>2. at' \in Places /\ result' \in Results /\ errno' \in Errnos
    BY <1>3, ResultTypes DEF ConnectReturns, ConnectSucceeds, TypeOK, Returns, Places
  <2>3. UNCHANGED <<made, m_socket, m_bIsBlocking, state, nonblock, backlog,
                    self, client, timed, arrived, handed, discarded, unclosed,
                    interrupted>>
    BY <1>3 DEF ConnectReturns, ConnectSucceeds, OpenUnchanged, historyVars
  <2> QED  BY <2>1, <2>2, <2>3 DEF TypeOK
<1>4. CASE (ConnectReturns /\ Held(self) = "refused") \/ ConnectInterrupted
  <2>1. PICK e \in Errnos : Refused(self, e)
    BY <1>4 DEF Effects, Errnos
  <2>2. state' \in [Descriptors -> States]
    BY <1>4 DEF ConnectReturns, ConnectInterrupted, Becomes, TypeOK, States
  <2>3. OpenUnchanged /\ UNCHANGED <<self, interrupted>>
    BY <1>4 DEF ConnectReturns, ConnectInterrupted
  <2>4. self \in Objects /\ interrupted \in BOOLEAN
    BY DEF TypeOK
  <2> QED  BY <1>1, <2>1, <2>2, <2>3, <2>4
<1>5. ConnectReturns => Held(self) \in {"connected", "refused"}
  BY DEF ConnectReturns
<1> QED  BY <1>2, <1>3, <1>4, <1>5

\* by what ends a Select(),
LEMMA SelectTypes ==
  ASSUME TypeOK, Effects, SelectReady \/ SelectInterrupted
  PROVE  TypeOK'
<1>1. PICK ok \in BOOLEAN : Checked(ok)
  BY DEF Effects
<1>2. state' \in [Descriptors -> States]
  BY <1>1 DEF Checked, TypeOK, States
<1>3. at' \in Places /\ result' \in Results
  BY <1>1, ResultTypes DEF Checked, Places
<1>4. interrupted' \in BOOLEAN /\ SelectUnchanged
  BY DEF SelectReady, SelectInterrupted, TypeOK
<1> QED  BY <1>1, <1>2, <1>3, <1>4 DEF TypeOK, Checked, SelectUnchanged, historyVars

\* and by what ends an accept().
LEMMA AcceptTypes ==
  ASSUME TypeOK, Effects,
         \/ AcceptTakes
         \/ at = "accept" /\ \E e \in Errnos \ {"SUCCESS"} : AcceptError(e)
  PROVE  TypeOK'
<1>1. CASE AcceptTakes
  <2>1. PICK fd \in Descriptors :
          /\ m_socket' = [m_socket EXCEPT ![client] = fd]
          /\ state' = [state EXCEPT ![fd] = "connected"]
    BY <1>1 DEF AcceptTakes
  <2>2. backlog # <<>> /\ backlog \in Seq(Nat) /\ handed \in Seq(Nat)
    BY <1>1 DEF AcceptTakes, TypeOK
  <2>3. /\ Head(backlog) \in Nat /\ Tail(backlog) \in Seq(Nat)
        /\ Append(handed, Head(backlog)) \in Seq(Nat)
    BY <2>2
  <2>4. /\ m_socket' \in [Objects -> Descriptors \cup {INVALID_SOCKET}]
        /\ state' \in [Descriptors -> States]
    BY <2>1, <2>3 DEF TypeOK, States
  <2>5. m_socketErrno' \in [Objects -> SocketErrors]
    BY <1>1, TranslatedIs DEF AcceptTakes, SetSocketError, TypeOK
  <2>6. backlog' \in Seq(Nat) /\ handed' \in Seq(Nat)
    BY <1>1, <2>2, <2>3 DEF AcceptTakes
  <2>7. errno' \in Errnos /\ at' \in Places /\ result' \in Results
    <3>1. (Translated(errno) = "SocketSuccess") \in BOOLEAN
      OBVIOUS
    <3> QED  BY <1>1, <3>1, ResultTypes
         DEF AcceptTakes, AcceptLoop, Cleared, Returns, TypeOK, Errnos, Places
  <2>8. UNCHANGED <<made, m_bIsBlocking, nonblock, self, client, timed, arrived,
                    interrupted, discarded, unclosed>>
    BY <1>1 DEF AcceptTakes, AcceptUnchanged
  <2> QED  BY <2>4, <2>5, <2>6, <2>7, <2>8 DEF TypeOK
<1>2. ASSUME NEW e \in Errnos \ {"SUCCESS"}, at = "accept", AcceptError(e)
      PROVE  TypeOK'
  <2>1. AcceptFailed(e)
    BY <1>2 DEF Effects
  <2>2. errno' \in Errnos /\ at' \in Places /\ result' \in Results /\ made' \subseteq Objects
    BY <2>1, ResultTypes DEF AcceptFailed, Errnos, Places, TypeOK
  <2> QED  BY <2>1, <2>2 DEF AcceptFailed, TypeOK, systemVars, historyVars
<1> QED  BY <1>1, <1>2

\* Every step keeps the types,
LEMMA TypeOKStep == ASSUME IInv, Next PROVE TypeOK'
<1>1. Effects
  BY EffectsHold
<1>2. ASSUME NEW o \in Objects, Initialize(o), SocketMade(o)
      PROVE  TypeOK'
  BY <1>1, <1>2, InitializeTypes DEF IInv
<1>3. ASSUME NEW o \in Objects, Close(o)
      PROVE  TypeOK'
  <2>1. TypeOK /\ (Close(o) \/ Delete(o) \/ (Listen(o) /\ ListenFails(o)))
    BY <1>3 DEF IInv
  <2> QED  BY <2>1, <1>3, CloseTypes
<1>4. ASSUME NEW o \in Objects, Delete(o)
      PROVE  TypeOK'
  <2>1. TypeOK /\ (Close(o) \/ Delete(o) \/ (Listen(o) /\ ListenFails(o)))
    BY <1>4 DEF IInv
  <2> QED  BY <2>1, <1>4, CloseTypes
<1>5. ASSUME NEW o \in Objects, SetWindowSize(o)
      PROVE  TypeOK'
  BY <1>1, <1>5, WindowTypes DEF IInv
<1>6. ASSUME NEW o \in Objects, ConnectRefused(o)
      PROVE  TypeOK'
  BY <1>1, <1>6, ConnectTypes DEF IInv
<1>7. ASSUME NEW o \in Objects, ConnectPends(o)
      PROVE  TypeOK'
  BY <1>1, <1>7, ConnectTypes DEF IInv
<1>8. ASSUME NEW o \in Objects, Listen(o), ListenFails(o)
      PROVE  TypeOK'
  BY <1>1, <1>8, CloseTypes DEF IInv
<1>9. ASSUME SelectReady
      PROVE  TypeOK'
  BY <1>1, <1>9, SelectTypes DEF IInv
<1>10. ASSUME SelectInterrupted
       PROVE  TypeOK'
  BY <1>1, <1>10, SelectTypes DEF IInv
<1>11. ASSUME ConnectReturns, Held(self) = "connected"
       PROVE  TypeOK'
  BY <1>1, <1>11, ConnectTypes DEF IInv
<1>12. ASSUME ConnectReturns, Held(self) = "refused"
       PROVE  TypeOK'
  BY <1>1, <1>12, ConnectTypes DEF IInv
<1>13. ASSUME ConnectInterrupted
       PROVE  TypeOK'
  BY <1>1, <1>13, ConnectTypes DEF IInv
<1>14. ASSUME AcceptTakes
       PROVE  TypeOK'
  BY <1>1, <1>14, AcceptTypes DEF IInv
<1>15. ASSUME NEW e \in Errnos \ {"SUCCESS"}, at = "accept", AcceptError(e)
       PROVE  TypeOK'
  <2>1. \E x \in Errnos \ {"SUCCESS"} : AcceptError(x)
    BY <1>15
  <2> QED  BY <1>1, <1>15, <2>1, AcceptTypes DEF IInv
<1> USE SocketsAssumption, TranslatedIs DEF IInv, TypeOK, Objects,
         INVALID_SOCKET, IsSocketValid, Called, SetSocketError, systemVars,
         objectVars, callVars, historyVars, Result, NoResult, Held, IsOpen, Errnos,
         SocketErrors, States, Results, Places
<1>16. ASSUME NEW o \in Objects, CSimpleSocket(o)
       PROVE  TypeOK'
  BY <1>16 DEF CSimpleSocket, Constructed, Done
<1>17. ASSUME NEW o \in Objects, Initialize(o), SocketLacks
       PROVE  TypeOK'
  BY <1>17 DEF Initialize, SocketLacks, TranslateSocketError, Returns
<1>18. ASSUME NEW o \in Objects, SetNonblocking(o)
       PROVE  TypeOK'
  <2>1. CASE IsOpen(o)
    BY <1>18, <2>1 DEF SetNonblocking, OptionUnchanged, Done
  <2>2. CASE ~IsOpen(o)
    BY <1>18, <2>2 DEF SetNonblocking, OptionFails, OptionUnchanged,
         TranslateSocketError, Done
  <2> QED  BY <2>1, <2>2
<1>19. ASSUME NEW o \in Objects, SetBlocking(o)
       PROVE  TypeOK'
  BY <1>19 DEF SetBlocking, OptionFails, OptionUnchanged,
       TranslateSocketError, Done
<1>20. ASSUME NEW o \in Objects, SetOptionReuseAddr(o)
       PROVE  TypeOK'
  BY <1>20 DEF SetOptionReuseAddr, OptionFails, OptionUnchanged,
       TranslateSocketError, Done
<1>21. ASSUME NEW o \in Objects, SetReceiveTimeout(o)
       PROVE  TypeOK'
  BY <1>21 DEF SetReceiveTimeout, OptionFails, OptionUnchanged,
       TranslateSocketError, Done
<1>22. ASSUME NEW o \in Objects, Select(o)
       PROVE  TypeOK'
  BY <1>22 DEF Select, Done
<1>23. ASSUME NEW o \in Objects, OpenRejected(o)
       PROVE  TypeOK'
  BY <1>23 DEF OpenRejected, OpenUnchanged, Returns
<1>24. ASSUME NEW o \in Objects, LookupFails(o)
       PROVE  TypeOK'
  BY <1>24 DEF LookupFails, OpenUnchanged, TranslateSocketError, Returns
<1>25. ASSUME NEW o \in Objects, ConnectAtOnce(o)
       PROVE  TypeOK'
  BY <1>25 DEF ConnectAtOnce, Connect, ConnectSucceeds, Becomes,
       OpenUnchanged, Returns
<1>26. ASSUME NEW o \in Objects, ConnectWaits(o)
       PROVE  TypeOK'
  BY <1>26 DEF ConnectWaits, Connect, Becomes, OpenUnchanged
<1>27. ASSUME NEW o \in Objects, Listen(o), Listens(o)
       PROVE  TypeOK'
  BY <1>27 DEF Listen, Listens, Becomes, TranslateSocketError, Returns
<1>28. ASSUME NEW o \in Objects, Accept(o)
       PROVE  TypeOK'
  BY <1>28 DEF Accept, Constructed, Cleared, Done
<1>29. ASSUME SelectTimesOut
       PROVE  TypeOK'
  BY <1>29 DEF SelectTimesOut, SelectReturns, SelectUnchanged
<1>30. ASSUME Arrives
       PROVE  TypeOK'
  BY <1>30 DEF Arrives
<1>31. ASSUME NEW fd \in Descriptors, Answered(fd)
       PROVE  TypeOK'
  BY <1>31 DEF Answered
<1> QED  BY <1>2, <1>3, <1>4, <1>5, <1>6, <1>7, <1>8, <1>9, <1>10, <1>11,
        <1>12, <1>13, <1>14, <1>15, <1>16, <1>17, <1>18, <1>19, <1>20, <1>21,
        <1>22, <1>23, <1>24, <1>25, <1>26, <1>27, <1>28, <1>29, <1>30, <1>31
        DEF Next, Calls, Ends, Trouble, Network, SetNagleAlgoritm,
        Initialize, ConnectTCP, Listen, ConnectReturns, AcceptFails,
        AcceptInterrupted, AcceptLacks, Errnos

\* Closing takes a descriptor from its object; the other objects are left alone,
\* and a number that was not closed is remembered.
LEMMA OwnedClosed ==
  ASSUME TypeOK, Owned, NEW o \in Objects, NEW e, Released(o, e),
         made' = made \/ (made' = made \ {o} /\ Invalidated(o))
  PROVE  Owned'
<1> USE SocketsAssumption DEF TypeOK, Owned, IsOpen, IsSocketValid, Held, INVALID_SOCKET
<1>1. CASE (IsSocketValid(o) => IsOpen(o)) /\ Invalidated(o) /\ Freed(o) /\ unclosed' = unclosed
  BY <1>1 DEF Invalidated, Freed
<1>2. CASE /\ m_socket[o] \in Descriptors
           /\ UNCHANGED m_socket \/ Invalidated(o)
           /\ Freed(o) \/ NotFreed
           /\ unclosed' = unclosed \cup {m_socket[o]}
  <2>1. \A d \in Descriptors : d # m_socket[o] => state'[d] = state[d]
    BY <1>2 DEF Freed, NotFreed, systemVars
  <2>2. \A p \in Objects : \/ m_socket'[p] = m_socket[p]
                           \/ p = o /\ m_socket'[p] = INVALID_SOCKET
    BY <1>2 DEF Invalidated
  <2>3. \A p \in Objects : m_socket'[p] # INVALID_SOCKET => p \in made'
    BY <1>2, <2>2 DEF Invalidated
  <2>4. \A p \in Objects : m_socket'[p] # INVALID_SOCKET => m_socket'[p] = m_socket[p]
    BY <2>2
  <2>5. \A p \in Objects : m_socket'[p] # INVALID_SOCKET /\ m_socket'[p] \notin unclosed'
          => state'[m_socket'[p]] # "closed"
    <3> TAKE p \in Objects
    <3> HAVE m_socket'[p] # INVALID_SOCKET /\ m_socket'[p] \notin unclosed'
    <3>1. m_socket'[p] = m_socket[p] /\ m_socket[p] # INVALID_SOCKET
      BY <2>4
    <3>2. m_socket[p] \in Descriptors /\ m_socket[p] # m_socket[o] /\ m_socket[p] \notin unclosed
      BY <1>2, <3>1
    <3>3. state[m_socket[p]] # "closed"
      BY <3>1, <3>2
    <3> QED  BY <2>1, <3>1, <3>2, <3>3
  <2>6. \A p, q \in Objects :
          m_socket'[p] # INVALID_SOCKET /\ m_socket'[p] = m_socket'[q]
            /\ m_socket'[p] \notin unclosed' => p = q
    BY <1>2, <2>4
  <2>7. \A d \in Descriptors \ unclosed' :
          state'[d] # "closed" => \E p \in Objects : m_socket'[p] = d
    <3> TAKE d \in Descriptors \ unclosed'
    <3> HAVE state'[d] # "closed"
    <3>1. d # m_socket[o] /\ d \notin unclosed
      BY <1>2
    <3>2. PICK p \in Objects : m_socket[p] = d
      BY <2>1, <3>1
    <3> QED  BY <2>2, <3>1, <3>2
  <2> HIDE DEF TypeOK
  <2> QED  BY <2>3, <2>5, <2>6, <2>7
<1> QED  BY <1>1, <1>2 DEF Released

\* Closing sets no flag, and no object but the one deleted gets another.
LEMMA FlagsClosed ==
  ASSUME TypeOK, OpenInv, BlockingAsTold, NEW o \in Objects, NEW e, Released(o, e),
         m_bIsBlocking' = m_bIsBlocking
           \/ (Invalidated(o) /\ m_bIsBlocking' = [m_bIsBlocking EXCEPT ![o] = TRUE])
  PROVE  OpenInv' /\ BlockingAsTold'
<1> USE SocketsAssumption DEF TypeOK, INVALID_SOCKET
<1>1. /\ nonblock' \subseteq nonblock
      /\ \A d \in nonblock' : state'[d] = state[d]
  BY DEF Released, Freed, NotFreed, systemVars
<1>2. \A p \in Objects : m_socket'[p] = m_socket[p] \/ m_socket'[p] = INVALID_SOCKET
  BY DEF Released, Invalidated
<1>3. unclosed \subseteq unclosed' /\ INVALID_SOCKET \notin nonblock
  BY DEF Released
<1>4. \A p \in Objects : \/ m_bIsBlocking'[p] = m_bIsBlocking[p]
                         \/ m_socket'[p] = INVALID_SOCKET
  BY DEF Invalidated
<1> QED  BY <1>1, <1>2, <1>3, <1>4 DEF OpenInv, BlockingAsTold

\* the descriptors with their objects,
LEMMA OwnedStep == ASSUME IInv, Next PROVE Owned'
<1>1. Effects
  BY EffectsHold
<1> USE SocketsAssumption, TranslatedIs DEF IInv, TypeOK, Objects,
         INVALID_SOCKET, IsSocketValid, Called, SetSocketError, systemVars,
         objectVars, callVars, historyVars, Result, NoResult, Held, Owned, IsOpen
<1>2. ASSUME NEW o \in Objects, CSimpleSocket(o)
      PROVE  Owned'
  BY <1>2 DEF CSimpleSocket, Constructed, Done
<1>3. ASSUME NEW o \in Objects, Initialize(o), SocketMade(o)
      PROVE  Owned'
  BY <1>3 DEF Initialize, SocketMade, Lowest, Cleared,
       TranslateSocketError, Returns
<1>4. ASSUME NEW o \in Objects, Initialize(o), SocketLacks
      PROVE  Owned'
  BY <1>4 DEF Initialize, SocketLacks, TranslateSocketError, Returns
<1>5. ASSUME NEW o \in Objects, Close(o)
      PROVE  Owned'
  <2>1. \E e \in Errnos : Released(o, e)
    BY <1>1, <1>5 DEF Effects, Close
  <2>2. made' = made /\ m_bIsBlocking' = m_bIsBlocking
    BY <1>5 DEF Close
  <2> QED  BY <2>1, <2>2, OwnedClosed
<1>6. ASSUME NEW o \in Objects, Delete(o)
      PROVE  Owned'
  <2>1. \E e \in Errnos : Released(o, e)
    BY <1>1, <1>6 DEF Effects, Delete
  <2>2. /\ made' = made \ {o} /\ Invalidated(o)
        /\ m_bIsBlocking' = [m_bIsBlocking EXCEPT ![o] = TRUE]
    BY <1>6 DEF Delete, Deleted
  <2> QED  BY <2>1, <2>2, OwnedClosed
<1>7. ASSUME NEW o \in Objects, SetNonblocking(o)
      PROVE  Owned'
  BY <1>7 DEF SetNonblocking, OptionFails, OptionUnchanged,
       TranslateSocketError, Done
<1>8. ASSUME NEW o \in Objects, SetBlocking(o)
      PROVE  Owned'
  BY <1>8 DEF SetBlocking, OptionFails, OptionUnchanged,
       TranslateSocketError, Done
<1>9. ASSUME NEW o \in Objects, SetOptionReuseAddr(o)
      PROVE  Owned'
  BY <1>9 DEF SetOptionReuseAddr, OptionFails, OptionUnchanged,
       TranslateSocketError, Done
<1>10. ASSUME NEW o \in Objects, SetWindowSize(o)
       PROVE  Owned'
  BY <1>10 DEF SetWindowSize, OptionUnchanged, TranslateSocketError,
       Done
<1>11. ASSUME NEW o \in Objects, SetReceiveTimeout(o)
       PROVE  Owned'
  BY <1>11 DEF SetReceiveTimeout, OptionFails, OptionUnchanged,
       TranslateSocketError, Done
<1>12. ASSUME NEW o \in Objects, Select(o)
       PROVE  Owned'
  BY <1>12 DEF Select, Done
<1>13. ASSUME NEW o \in Objects, OpenRejected(o)
       PROVE  Owned'
  BY <1>13 DEF OpenRejected, OpenUnchanged, Returns
<1>14. ASSUME NEW o \in Objects, LookupFails(o)
       PROVE  Owned'
  BY <1>14 DEF LookupFails, OpenUnchanged, TranslateSocketError, Returns
<1>15. ASSUME NEW o \in Objects, ConnectAtOnce(o)
       PROVE  Owned'
  BY <1>15 DEF ConnectAtOnce, Connect, ConnectSucceeds, Becomes,
       OpenUnchanged, Returns
<1>16. ASSUME NEW o \in Objects, ConnectRefused(o)
       PROVE  Owned'
  <2>1. Refused(o, "EOTHER")
    BY <1>1, <1>16 DEF Effects
  <2> QED  BY <1>16, <2>1 DEF Refused, ConnectRefused, Connect,
           OpenUnchanged
<1>17. ASSUME NEW o \in Objects, ConnectPends(o)
       PROVE  Owned'
  <2>1. Refused(o, "EINPROGRESS")
    BY <1>1, <1>17 DEF Effects
  <2> QED  BY <1>17, <2>1 DEF Refused, ConnectPends, Connect,
           Becomes, OpenUnchanged
<1>18. ASSUME NEW o \in Objects, ConnectWaits(o)
       PROVE  Owned'
  BY <1>18 DEF ConnectWaits, Connect, Becomes, OpenUnchanged
<1>19. ASSUME NEW o \in Objects, Listen(o), Listens(o)
       PROVE  Owned'
  BY <1>19 DEF Listen, Listens, Becomes, TranslateSocketError, Returns
<1>20. ASSUME NEW o \in Objects, Listen(o), ListenFails(o)
       PROVE  Owned'
  <2>1. \E e \in Errnos : Released(o, e)
    BY <1>1, <1>20 DEF Effects, ListenFails, Errnos
  <2>2. made' = made /\ m_bIsBlocking' = m_bIsBlocking
    BY <1>20 DEF Listen
  <2> QED  BY <2>1, <2>2, OwnedClosed
<1>21. ASSUME NEW o \in Objects, Accept(o)
       PROVE  Owned'
  BY <1>21 DEF Accept, Constructed, Cleared, Done
<1>22. ASSUME SelectReady
       PROVE  Owned'
  <2>1. \E ok \in BOOLEAN : Checked(ok)
    BY <1>1, <1>22 DEF Effects
  <2> QED  BY <1>22, <2>1 DEF Checked, SelectReady, Readable,
           SelectUnchanged
<1>23. ASSUME SelectTimesOut
       PROVE  Owned'
  BY <1>23 DEF SelectTimesOut, SelectReturns, SelectUnchanged
<1>24. ASSUME SelectInterrupted
       PROVE  Owned'
  <2>1. \E ok \in BOOLEAN : Checked(ok)
    BY <1>1, <1>24 DEF Effects
  <2> QED  BY <1>24, <2>1 DEF Checked, SelectInterrupted,
           SelectUnchanged
<1>25. ASSUME ConnectReturns, Held(self) = "connected"
       PROVE  Owned'
  BY <1>25 DEF ConnectReturns, ConnectSucceeds, OpenUnchanged, Returns
<1>26. ASSUME ConnectReturns, Held(self) = "refused"
       PROVE  Owned'
  <2>1. /\ state' = [state EXCEPT ![m_socket[self]] = "new"]
        /\ UNCHANGED <<made, m_socket>>
    BY <1>26 DEF ConnectReturns, Becomes, OpenUnchanged
  <2>2. unclosed' = unclosed /\ state[m_socket[self]] # "closed"
    BY <1>26 DEF ConnectReturns, OpenUnchanged
  <2>3. \A d \in Descriptors : state'[d] = "closed" <=> state[d] = "closed"
    BY <2>1, <2>2
  <2> QED  BY <2>1, <2>2, <2>3
<1>27. ASSUME ConnectInterrupted
       PROVE  Owned'
  <2>1. Refused(self, "EINTR")
    BY <1>1, <1>27 DEF Effects
  <2> QED  BY <1>27, <2>1 DEF Refused, ConnectInterrupted,
           OpenUnchanged
<1>28. ASSUME AcceptTakes
       PROVE  Owned'
  <2>1. PICK fd \in Descriptors :
          /\ Lowest(fd)
          /\ m_socket' = [m_socket EXCEPT ![client] = fd]
          /\ state' = [state EXCEPT ![fd] = "connected"]
    BY <1>28 DEF AcceptTakes
  <2>2. client \in made /\ client \in Objects /\ m_socket[client] = INVALID_SOCKET
    BY <1>28 DEF AcceptTakes, PlaceInv
  <2>3. made' = made /\ unclosed' = unclosed
    BY <1>28 DEF AcceptTakes
  <2>4. \A p \in Objects : m_socket[p] = fd => fd \in unclosed
    BY <2>1 DEF Lowest
  <2>5. \A p \in Objects : p # client => m_socket'[p] = m_socket[p]
    BY <2>1
  <2>6. m_socket'[client] = fd /\ state'[fd] # "closed"
    BY <2>1, <2>2
  <2>7. \A d \in Descriptors : d # fd => state'[d] = state[d]
    BY <2>1
  <2>8. \A p \in Objects : m_socket'[p] # INVALID_SOCKET => p \in made'
    BY <2>2, <2>3, <2>5
  <2>9. \A p \in Objects : m_socket'[p] # INVALID_SOCKET /\ m_socket'[p] \notin unclosed'
          => state'[m_socket'[p]] # "closed"
    <3> TAKE p \in Objects
    <3> HAVE m_socket'[p] # INVALID_SOCKET /\ m_socket'[p] \notin unclosed'
    <3>1. CASE p = client
      BY <3>1, <2>6
    <3>2. CASE p # client
      <4>1. m_socket'[p] = m_socket[p]
        BY <2>5, <3>2
      <4>2. m_socket[p] \in Descriptors
        BY <4>1
      <4>3. state[m_socket[p]] # "closed"
        BY <2>3, <4>1
      <4> QED  BY <2>6, <2>7, <4>1, <4>2, <4>3
    <3> QED  BY <3>1, <3>2
  <2>10. \A p, q \in Objects :
           m_socket'[p] # INVALID_SOCKET /\ m_socket'[p] = m_socket'[q]
             /\ m_socket'[p] \notin unclosed' => p = q
    BY <2>3, <2>4, <2>5, <2>6
  <2>11. \A d \in Descriptors \ unclosed' :
           state'[d] # "closed" => \E p \in Objects : m_socket'[p] = d
    <3> TAKE d \in Descriptors \ unclosed'
    <3> HAVE state'[d] # "closed"
    <3>1. CASE d = fd
      BY <3>1, <2>2, <2>6
    <3>2. CASE d # fd
      <4>1. state[d] # "closed" /\ d \notin unclosed
        BY <2>3, <2>7, <3>2
      <4>2. PICK p \in Objects : m_socket[p] = d
        BY <4>1
      <4>3. p # client
        BY <2>2, <4>2
      <4> QED  BY <2>5, <4>2, <4>3
    <3> QED  BY <3>1, <3>2
  <2> HIDE DEF IInv, TypeOK
  <2> QED  BY <2>8, <2>9, <2>10, <2>11
<1>29. ASSUME NEW e \in Errnos \ {"SUCCESS"}, at = "accept", AcceptError(e)
       PROVE  Owned'
  <2>1. AcceptFailed(e)
    BY <1>1, <1>29 DEF Effects
  <2>2. m_socket[client] = INVALID_SOCKET
    BY <1>29 DEF PlaceInv
  <2> QED  BY <2>1, <2>2 DEF AcceptFailed
<1>30. ASSUME Arrives
       PROVE  Owned'
  BY <1>30 DEF Arrives
<1>31. ASSUME NEW fd \in Descriptors, Answered(fd)
       PROVE  Owned'
  BY <1>31 DEF Answered
<1> QED  BY <1>2, <1>3, <1>4, <1>5, <1>6, <1>7, <1>8, <1>9, <1>10, <1>11,
        <1>12, <1>13, <1>14, <1>15, <1>16, <1>17, <1>18, <1>19, <1>20, <1>21,
        <1>22, <1>23, <1>24, <1>25, <1>26, <1>27, <1>28, <1>29, <1>30, <1>31
        DEF Next, Calls, Ends, Trouble, Network, SetNagleAlgoritm,
        Initialize, ConnectTCP, Listen, ConnectReturns, AcceptFails,
        AcceptInterrupted, AcceptLacks, Errnos

\* what a call that waits relies on,
LEMMA PlaceInvStep == ASSUME IInv, Next PROVE PlaceInv'
<1>1. Effects
  BY EffectsHold
<1> USE SocketsAssumption, TranslatedIs DEF IInv, TypeOK, Objects,
         INVALID_SOCKET, IsSocketValid, Called, SetSocketError, systemVars,
         objectVars, callVars, historyVars, Result, NoResult, Held, PlaceInv,
         Owned
<1>2. ASSUME NEW o \in Objects, CSimpleSocket(o)
      PROVE  PlaceInv'
  BY <1>2 DEF CSimpleSocket, Constructed, Done
<1>3. ASSUME NEW o \in Objects, Initialize(o), SocketMade(o)
      PROVE  PlaceInv'
  BY <1>3 DEF Initialize, SocketMade, Lowest, Cleared,
       TranslateSocketError, Returns
<1>4. ASSUME NEW o \in Objects, Initialize(o), SocketLacks
      PROVE  PlaceInv'
  BY <1>4 DEF Initialize, SocketLacks, TranslateSocketError, Returns
<1>5. ASSUME NEW o \in Objects, Close(o)
      PROVE  PlaceInv'
  BY <1>5 DEF Close, TranslateSocketError, Done
<1>6. ASSUME NEW o \in Objects, Delete(o)
      PROVE  PlaceInv'
  BY <1>6 DEF Delete, Done
<1>7. ASSUME NEW o \in Objects, SetNonblocking(o)
      PROVE  PlaceInv'
  BY <1>7 DEF SetNonblocking, OptionFails, OptionUnchanged,
       TranslateSocketError, Done
<1>8. ASSUME NEW o \in Objects, SetBlocking(o)
      PROVE  PlaceInv'
  BY <1>8 DEF SetBlocking, OptionFails, OptionUnchanged,
       TranslateSocketError, Done
<1>9. ASSUME NEW o \in Objects, SetOptionReuseAddr(o)
      PROVE  PlaceInv'
  BY <1>9 DEF SetOptionReuseAddr, OptionFails, OptionUnchanged,
       TranslateSocketError, Done
<1>10. ASSUME NEW o \in Objects, SetWindowSize(o)
       PROVE  PlaceInv'
  BY <1>10 DEF SetWindowSize, OptionUnchanged, TranslateSocketError,
       Done
<1>11. ASSUME NEW o \in Objects, SetReceiveTimeout(o)
       PROVE  PlaceInv'
  BY <1>11 DEF SetReceiveTimeout, OptionFails, OptionUnchanged,
       TranslateSocketError, Done
<1>12. ASSUME NEW o \in Objects, Select(o)
       PROVE  PlaceInv'
  BY <1>12 DEF Select, Done
<1>13. ASSUME NEW o \in Objects, OpenRejected(o)
       PROVE  PlaceInv'
  BY <1>13 DEF OpenRejected, OpenUnchanged, Returns
<1>14. ASSUME NEW o \in Objects, LookupFails(o)
       PROVE  PlaceInv'
  BY <1>14 DEF LookupFails, OpenUnchanged, TranslateSocketError, Returns
<1>15. ASSUME NEW o \in Objects, ConnectAtOnce(o)
       PROVE  PlaceInv'
  BY <1>15 DEF ConnectAtOnce, Connect, ConnectSucceeds, Becomes,
       OpenUnchanged, Returns
<1>16. ASSUME NEW o \in Objects, ConnectRefused(o)
       PROVE  PlaceInv'
  <2>1. Refused(o, "EOTHER")
    BY <1>1, <1>16 DEF Effects
  <2> QED  BY <1>16, <2>1 DEF Refused, ConnectRefused, Connect,
           OpenUnchanged
<1>17. ASSUME NEW o \in Objects, ConnectPends(o)
       PROVE  PlaceInv'
  <2>1. Refused(o, "EINPROGRESS")
    BY <1>1, <1>17 DEF Effects
  <2> QED  BY <1>17, <2>1 DEF Refused, ConnectPends, Connect,
           Becomes, OpenUnchanged
<1>18. ASSUME NEW o \in Objects, ConnectWaits(o)
       PROVE  PlaceInv'
  BY <1>18 DEF ConnectWaits, Connect, Becomes, OpenUnchanged
<1>19. ASSUME NEW o \in Objects, Listen(o), Listens(o)
       PROVE  PlaceInv'
  BY <1>19 DEF Listen, Listens, Becomes, TranslateSocketError, Returns
<1>20. ASSUME NEW o \in Objects, Listen(o), ListenFails(o)
       PROVE  PlaceInv'
  BY <1>20 DEF Listen, ListenFails, TranslateSocketError,
       Returns
<1>21. ASSUME NEW o \in Objects, Accept(o)
       PROVE  PlaceInv'
  BY <1>21 DEF Accept, Constructed, Cleared, Done
<1>22. ASSUME SelectReady
       PROVE  PlaceInv'
  <2>1. \E ok \in BOOLEAN : Checked(ok)
    BY <1>1, <1>22 DEF Effects
  <2> QED  BY <1>22, <2>1 DEF Checked, SelectReady, Readable,
           SelectUnchanged
<1>23. ASSUME SelectTimesOut
       PROVE  PlaceInv'
  BY <1>23 DEF SelectTimesOut, SelectReturns, SelectUnchanged
<1>24. ASSUME SelectInterrupted
       PROVE  PlaceInv'
  <2>1. \E ok \in BOOLEAN : Checked(ok)
    BY <1>1, <1>24 DEF Effects
  <2> QED  BY <1>24, <2>1 DEF Checked, SelectInterrupted,
           SelectUnchanged
<1>25. ASSUME ConnectReturns, Held(self) = "connected"
       PROVE  PlaceInv'
  BY <1>25 DEF ConnectReturns, ConnectSucceeds, OpenUnchanged, Returns
<1>26. ASSUME ConnectReturns, Held(self) = "refused"
       PROVE  PlaceInv'
  <2>1. Refused(self, "EOTHER")
    BY <1>1, <1>26 DEF Effects
  <2> QED  BY <1>26, <2>1 DEF Refused, ConnectReturns, Becomes,
           OpenUnchanged
<1>27. ASSUME ConnectInterrupted
       PROVE  PlaceInv'
  <2>1. Refused(self, "EINTR")
    BY <1>1, <1>27 DEF Effects
  <2> QED  BY <1>27, <2>1 DEF Refused, ConnectInterrupted,
           OpenUnchanged
<1>28. ASSUME AcceptTakes
       PROVE  PlaceInv'
  BY <1>28 DEF AcceptTakes, Listening, Lowest, AcceptLoop, Again,
       Cleared, Returns, AcceptUnchanged
<1>29. ASSUME NEW e \in Errnos \ {"SUCCESS"}, at = "accept", AcceptError(e)
       PROVE  PlaceInv'
  <2>1. AcceptFailed(e)
    BY <1>1, <1>29 DEF Effects
  <2> QED  BY <1>29, <2>1 DEF AcceptFailed
<1>30. ASSUME Arrives
       PROVE  PlaceInv'
  BY <1>30 DEF Arrives
<1>31. ASSUME NEW fd \in Descriptors, Answered(fd)
       PROVE  PlaceInv'
  BY <1>31 DEF Answered
<1> QED  BY <1>2, <1>3, <1>4, <1>5, <1>6, <1>7, <1>8, <1>9, <1>10, <1>11,
        <1>12, <1>13, <1>14, <1>15, <1>16, <1>17, <1>18, <1>19, <1>20, <1>21,
        <1>22, <1>23, <1>24, <1>25, <1>26, <1>27, <1>28, <1>29, <1>30, <1>31
        DEF Next, Calls, Ends, Trouble, Network, SetNagleAlgoritm,
        Initialize, ConnectTCP, Listen, ConnectReturns, AcceptFails,
        AcceptInterrupted, AcceptLacks, Errnos

\* the flags with open descriptors,
LEMMA OpenInvStep == ASSUME IInv, Next PROVE OpenInv'
<1>1. Effects
  BY EffectsHold
<1> USE SocketsAssumption, TranslatedIs DEF IInv, TypeOK, Objects,
         INVALID_SOCKET, IsSocketValid, Called, SetSocketError, systemVars,
         objectVars, callVars, historyVars, Result, NoResult, Held, OpenInv,
         IsOpen
<1>2. ASSUME NEW o \in Objects, CSimpleSocket(o)
      PROVE  OpenInv'
  BY <1>2 DEF CSimpleSocket, Constructed, Done
<1>3. ASSUME NEW o \in Objects, Initialize(o), SocketMade(o)
      PROVE  OpenInv'
  BY <1>3 DEF Initialize, SocketMade, Lowest, Cleared,
       TranslateSocketError, Returns
<1>4. ASSUME NEW o \in Objects, Initialize(o), SocketLacks
      PROVE  OpenInv'
  BY <1>4 DEF Initialize, SocketLacks, TranslateSocketError, Returns
<1>5. ASSUME NEW o \in Objects, Close(o)
      PROVE  OpenInv'
  <2>1. \E e \in Errnos : Released(o, e)
    BY <1>1, <1>5 DEF Effects, Close
  <2>2. made' = made /\ m_bIsBlocking' = m_bIsBlocking
    BY <1>5 DEF Close
  <2> QED  BY <2>1, <2>2, FlagsClosed
<1>6. ASSUME NEW o \in Objects, Delete(o)
      PROVE  OpenInv'
  <2>1. \E e \in Errnos : Released(o, e)
    BY <1>1, <1>6 DEF Effects, Delete
  <2>2. /\ made' = made \ {o} /\ Invalidated(o)
        /\ m_bIsBlocking' = [m_bIsBlocking EXCEPT ![o] = TRUE]
    BY <1>6 DEF Delete, Deleted
  <2> QED  BY <2>1, <2>2, FlagsClosed
<1>7. ASSUME NEW o \in Objects, SetNonblocking(o)
      PROVE  OpenInv'
  <2>1. nonblock' \subseteq nonblock \cup {m_socket[o]} /\ state' = state
    BY <1>7 DEF SetNonblocking, OptionUnchanged
  <2>2. nonblock' = nonblock \/ state[m_socket[o]] # "closed"
    BY <1>7 DEF SetNonblocking
  <2> QED  BY <2>1, <2>2
<1>8. ASSUME NEW o \in Objects, SetBlocking(o)
      PROVE  OpenInv'
  BY <1>8 DEF SetBlocking, OptionFails, OptionUnchanged,
       TranslateSocketError, Done
<1>9. ASSUME NEW o \in Objects, SetOptionReuseAddr(o)
      PROVE  OpenInv'
  BY <1>9 DEF SetOptionReuseAddr, OptionFails, OptionUnchanged,
       TranslateSocketError, Done
<1>10. ASSUME NEW o \in Objects, SetWindowSize(o)
       PROVE  OpenInv'
  BY <1>10 DEF SetWindowSize, OptionUnchanged, TranslateSocketError,
       Done
<1>11. ASSUME NEW o \in Objects, SetReceiveTimeout(o)
       PROVE  OpenInv'
  BY <1>11 DEF SetReceiveTimeout, OptionFails, OptionUnchanged,
       TranslateSocketError, Done
<1>12. ASSUME NEW o \in Objects, Select(o)
       PROVE  OpenInv'
  BY <1>12 DEF Select, Done
<1>13. ASSUME NEW o \in Objects, OpenRejected(o)
       PROVE  OpenInv'
  BY <1>13 DEF OpenRejected, OpenUnchanged, Returns
<1>14. ASSUME NEW o \in Objects, LookupFails(o)
       PROVE  OpenInv'
  BY <1>14 DEF LookupFails, OpenUnchanged, TranslateSocketError, Returns
<1>15. ASSUME NEW o \in Objects, ConnectAtOnce(o)
       PROVE  OpenInv'
  BY <1>15 DEF ConnectAtOnce, Connect, ConnectSucceeds, Becomes,
       OpenUnchanged, Returns
<1>16. ASSUME NEW o \in Objects, ConnectRefused(o)
       PROVE  OpenInv'
  <2>1. Refused(o, "EOTHER")
    BY <1>1, <1>16 DEF Effects
  <2> QED  BY <1>16, <2>1 DEF Refused, ConnectRefused, Connect,
           OpenUnchanged
<1>17. ASSUME NEW o \in Objects, ConnectPends(o)
       PROVE  OpenInv'
  <2>1. Refused(o, "EINPROGRESS")
    BY <1>1, <1>17 DEF Effects
  <2> QED  BY <1>17, <2>1 DEF Refused, ConnectPends, Connect,
           Becomes, OpenUnchanged
<1>18. ASSUME NEW o \in Objects, ConnectWaits(o)
       PROVE  OpenInv'
  BY <1>18 DEF ConnectWaits, Connect, Becomes, OpenUnchanged
<1>19. ASSUME NEW o \in Objects, Listen(o), Listens(o)
       PROVE  OpenInv'
  BY <1>19 DEF Listen, Listens, Becomes, TranslateSocketError, Returns
<1>20. ASSUME NEW o \in Objects, Listen(o), ListenFails(o)
       PROVE  OpenInv'
  <2>1. \E e \in Errnos : Released(o, e)
    BY <1>1, <1>20 DEF Effects, ListenFails, Errnos
  <2>2. made' = made /\ m_bIsBlocking' = m_bIsBlocking
    BY <1>20 DEF Listen
  <2> QED  BY <2>1, <2>2, FlagsClosed
<1>21. ASSUME NEW o \in Objects, Accept(o)
       PROVE  OpenInv'
  BY <1>21 DEF Accept, Constructed, Cleared, Done
<1>22. ASSUME SelectReady
       PROVE  OpenInv'
  <2>1. \E ok \in BOOLEAN : Checked(ok)
    BY <1>1, <1>22 DEF Effects
  <2> QED  BY <1>22, <2>1 DEF Checked, SelectReady, Readable,
           SelectUnchanged
<1>23. ASSUME SelectTimesOut
       PROVE  OpenInv'
  BY <1>23 DEF SelectTimesOut, SelectReturns, SelectUnchanged
<1>24. ASSUME SelectInterrupted
       PROVE  OpenInv'
  <2>1. \E ok \in BOOLEAN : Checked(ok)
    BY <1>1, <1>24 DEF Effects
  <2> QED  BY <1>24, <2>1 DEF Checked, SelectInterrupted,
           SelectUnchanged
<1>25. ASSUME ConnectReturns, Held(self) = "connected"
       PROVE  OpenInv'
  BY <1>25 DEF ConnectReturns, ConnectSucceeds, OpenUnchanged, Returns
<1>26. ASSUME ConnectReturns, Held(self) = "refused"
       PROVE  OpenInv'
  <2>1. Refused(self, "EOTHER")
    BY <1>1, <1>26 DEF Effects
  <2> QED  BY <1>26, <2>1 DEF Refused, ConnectReturns, Becomes,
           OpenUnchanged
<1>27. ASSUME ConnectInterrupted
       PROVE  OpenInv'
  <2>1. Refused(self, "EINTR")
    BY <1>1, <1>27 DEF Effects
  <2> QED  BY <1>27, <2>1 DEF Refused, ConnectInterrupted,
           OpenUnchanged
<1>28. ASSUME AcceptTakes
       PROVE  OpenInv'
  BY <1>28 DEF AcceptTakes, Listening, Lowest, AcceptLoop, Again,
       Cleared, Returns, AcceptUnchanged
<1>29. ASSUME NEW e \in Errnos \ {"SUCCESS"}, at = "accept", AcceptError(e)
       PROVE  OpenInv'
  <2>1. AcceptFailed(e)
    BY <1>1, <1>29 DEF Effects
  <2> QED  BY <1>29, <2>1 DEF AcceptFailed
<1>30. ASSUME Arrives
       PROVE  OpenInv'
  BY <1>30 DEF Arrives
<1>31. ASSUME NEW fd \in Descriptors, Answered(fd)
       PROVE  OpenInv'
  BY <1>31 DEF Answered
<1> QED  BY <1>2, <1>3, <1>4, <1>5, <1>6, <1>7, <1>8, <1>9, <1>10, <1>11,
        <1>12, <1>13, <1>14, <1>15, <1>16, <1>17, <1>18, <1>19, <1>20, <1>21,
        <1>22, <1>23, <1>24, <1>25, <1>26, <1>27, <1>28, <1>29, <1>30, <1>31
        DEF Next, Calls, Ends, Trouble, Network, SetNagleAlgoritm,
        Initialize, ConnectTCP, Listen, ConnectReturns, AcceptFails,
        AcceptInterrupted, AcceptLacks, Errnos

\* the blocking objects' descriptors blocking,
LEMMA BlockingAsToldStep == ASSUME IInv, Next PROVE BlockingAsTold'
<1>1. Effects
  BY EffectsHold
<1> USE SocketsAssumption, TranslatedIs DEF IInv, TypeOK, Objects,
         INVALID_SOCKET, IsSocketValid, Called, SetSocketError, systemVars,
         objectVars, callVars, historyVars, Result, NoResult, Held,
         BlockingAsTold, OpenInv, Owned, IsOpen
<1>2. ASSUME NEW o \in Objects, CSimpleSocket(o)
      PROVE  BlockingAsTold'
  BY <1>2 DEF CSimpleSocket, Constructed, Done
<1>3. ASSUME NEW o \in Objects, Initialize(o), SocketMade(o)
      PROVE  BlockingAsTold'
  BY <1>3 DEF Initialize, SocketMade, Lowest, Cleared,
       TranslateSocketError, Returns
<1>4. ASSUME NEW o \in Objects, Initialize(o), SocketLacks
      PROVE  BlockingAsTold'
  BY <1>4 DEF Initialize, SocketLacks, TranslateSocketError, Returns
<1>5. ASSUME NEW o \in Objects, Close(o)
      PROVE  BlockingAsTold'
  <2>1. \E e \in Errnos : Released(o, e)
    BY <1>1, <1>5 DEF Effects, Close
  <2>2. made' = made /\ m_bIsBlocking' = m_bIsBlocking
    BY <1>5 DEF Close
  <2> QED  BY <2>1, <2>2, FlagsClosed
<1>6. ASSUME NEW o \in Objects, Delete(o)
      PROVE  BlockingAsTold'
  <2>1. \E e \in Errnos : Released(o, e)
    BY <1>1, <1>6 DEF Effects, Delete
  <2>2. /\ made' = made \ {o} /\ Invalidated(o)
        /\ m_bIsBlocking' = [m_bIsBlocking EXCEPT ![o] = TRUE]
    BY <1>6 DEF Delete, Deleted
  <2> QED  BY <2>1, <2>2, FlagsClosed
<1>7. ASSUME NEW o \in Objects, SetNonblocking(o)
      PROVE  BlockingAsTold'
  <2>1. m_socket' = m_socket /\ unclosed' = unclosed
    BY <1>7 DEF SetNonblocking, OptionUnchanged
  <2>2. CASE nonblock' = nonblock /\ m_bIsBlocking' = m_bIsBlocking
    BY <2>1, <2>2
  <2>3. CASE /\ nonblock' = nonblock \cup {m_socket[o]} /\ IsSocketValid(o)
             /\ m_bIsBlocking' = [m_bIsBlocking EXCEPT ![o] = FALSE]
    <3>1. ASSUME NEW p \in Objects, m_bIsBlocking'[p], m_socket[p] \notin unclosed
          PROVE  m_socket[p] \notin nonblock'
      <4>1. p # o /\ m_bIsBlocking[p]
        BY <2>3, <3>1
      <4>2. m_socket[p] # m_socket[o]
        BY <2>3, <3>1, <4>1
      <4> QED  BY <2>3, <3>1, <4>1, <4>2
    <3> QED  BY <2>1, <3>1
  <2> QED  BY <1>7, <2>2, <2>3 DEF SetNonblocking
<1>8. ASSUME NEW o \in Objects, SetBlocking(o)
      PROVE  BlockingAsTold'
  <2>1. m_socket' = m_socket
    BY <1>8 DEF SetBlocking, OptionUnchanged
  <2>2. unclosed' = unclosed
    BY <1>8 DEF SetBlocking, OptionUnchanged
  <2>3. CASE IsOpen(o)
    BY <1>8, <2>1, <2>2, <2>3 DEF SetBlocking
  <2>4. CASE ~IsOpen(o)
    BY <1>8, <2>1, <2>2, <2>4 DEF SetBlocking
  <2> QED  BY <2>3, <2>4
<1>9. ASSUME NEW o \in Objects, SetOptionReuseAddr(o)
      PROVE  BlockingAsTold'
  BY <1>9 DEF SetOptionReuseAddr, OptionFails, OptionUnchanged,
       TranslateSocketError, Done
<1>10. ASSUME NEW o \in Objects, SetWindowSize(o)
       PROVE  BlockingAsTold'
  BY <1>10 DEF SetWindowSize, OptionUnchanged, TranslateSocketError,
       Done
<1>11. ASSUME NEW o \in Objects, SetReceiveTimeout(o)
       PROVE  BlockingAsTold'
  BY <1>11 DEF SetReceiveTimeout, OptionFails, OptionUnchanged,
       TranslateSocketError, Done
<1>12. ASSUME NEW o \in Objects, Select(o)
       PROVE  BlockingAsTold'
  BY <1>12 DEF Select, Done
<1>13. ASSUME NEW o \in Objects, OpenRejected(o)
       PROVE  BlockingAsTold'
  BY <1>13 DEF OpenRejected, OpenUnchanged, Returns
<1>14. ASSUME NEW o \in Objects, LookupFails(o)
       PROVE  BlockingAsTold'
  BY <1>14 DEF LookupFails, OpenUnchanged, TranslateSocketError, Returns
<1>15. ASSUME NEW o \in Objects, ConnectAtOnce(o)
       PROVE  BlockingAsTold'
  BY <1>15 DEF ConnectAtOnce, Connect, ConnectSucceeds, Becomes,
       OpenUnchanged, Returns
<1>16. ASSUME NEW o \in Objects, ConnectRefused(o)
       PROVE  BlockingAsTold'
  <2>1. Refused(o, "EOTHER")
    BY <1>1, <1>16 DEF Effects
  <2> QED  BY <1>16, <2>1 DEF Refused, ConnectRefused, Connect,
           OpenUnchanged
<1>17. ASSUME NEW o \in Objects, ConnectPends(o)
       PROVE  BlockingAsTold'
  <2>1. Refused(o, "EINPROGRESS")
    BY <1>1, <1>17 DEF Effects
  <2> QED  BY <1>17, <2>1 DEF Refused, ConnectPends, Connect,
           Becomes, OpenUnchanged
<1>18. ASSUME NEW o \in Objects, ConnectWaits(o)
       PROVE  BlockingAsTold'
  BY <1>18 DEF ConnectWaits, Connect, Becomes, OpenUnchanged
<1>19. ASSUME NEW o \in Objects, Listen(o), Listens(o)
       PROVE  BlockingAsTold'
  BY <1>19 DEF Listen, Listens, Becomes, TranslateSocketError, Returns
<1>20. ASSUME NEW o \in Objects, Listen(o), ListenFails(o)
       PROVE  BlockingAsTold'
  <2>1. \E e \in Errnos : Released(o, e)
    BY <1>1, <1>20 DEF Effects, ListenFails, Errnos
  <2>2. made' = made /\ m_bIsBlocking' = m_bIsBlocking
    BY <1>20 DEF Listen
  <2> QED  BY <2>1, <2>2, FlagsClosed
<1>21. ASSUME NEW o \in Objects, Accept(o)
       PROVE  BlockingAsTold'
  BY <1>21 DEF Accept, Constructed, Cleared, Done
<1>22. ASSUME SelectReady
       PROVE  BlockingAsTold'
  <2>1. \E ok \in BOOLEAN : Checked(ok)
    BY <1>1, <1>22 DEF Effects
  <2> QED  BY <1>22, <2>1 DEF Checked, SelectReady, Readable,
           SelectUnchanged
<1>23. ASSUME SelectTimesOut
       PROVE  BlockingAsTold'
  BY <1>23 DEF SelectTimesOut, SelectReturns, SelectUnchanged
<1>24. ASSUME SelectInterrupted
       PROVE  BlockingAsTold'
  <2>1. \E ok \in BOOLEAN : Checked(ok)
    BY <1>1, <1>24 DEF Effects
  <2> QED  BY <1>24, <2>1 DEF Checked, SelectInterrupted,
           SelectUnchanged
<1>25. ASSUME ConnectReturns, Held(self) = "connected"
       PROVE  BlockingAsTold'
  BY <1>25 DEF ConnectReturns, ConnectSucceeds, OpenUnchanged, Returns
<1>26. ASSUME ConnectReturns, Held(self) = "refused"
       PROVE  BlockingAsTold'
  <2>1. Refused(self, "EOTHER")
    BY <1>1, <1>26 DEF Effects
  <2> QED  BY <1>26, <2>1 DEF Refused, ConnectReturns, Becomes,
           OpenUnchanged
<1>27. ASSUME ConnectInterrupted
       PROVE  BlockingAsTold'
  <2>1. Refused(self, "EINTR")
    BY <1>1, <1>27 DEF Effects
  <2> QED  BY <1>27, <2>1 DEF Refused, ConnectInterrupted,
           OpenUnchanged
<1>28. ASSUME AcceptTakes
       PROVE  BlockingAsTold'
  BY <1>28 DEF AcceptTakes, Listening, Lowest, AcceptLoop, Again,
       Cleared, Returns, AcceptUnchanged
<1>29. ASSUME NEW e \in Errnos \ {"SUCCESS"}, at = "accept", AcceptError(e)
       PROVE  BlockingAsTold'
  <2>1. AcceptFailed(e)
    BY <1>1, <1>29 DEF Effects
  <2> QED  BY <1>29, <2>1 DEF AcceptFailed
<1>30. ASSUME Arrives
       PROVE  BlockingAsTold'
  BY <1>30 DEF Arrives
<1>31. ASSUME NEW fd \in Descriptors, Answered(fd)
       PROVE  BlockingAsTold'
  BY <1>31 DEF Answered
<1> QED  BY <1>2, <1>3, <1>4, <1>5, <1>6, <1>7, <1>8, <1>9, <1>10, <1>11,
        <1>12, <1>13, <1>14, <1>15, <1>16, <1>17, <1>18, <1>19, <1>20, <1>21,
        <1>22, <1>23, <1>24, <1>25, <1>26, <1>27, <1>28, <1>29, <1>30, <1>31
        DEF Next, Calls, Ends, Trouble, Network, SetNagleAlgoritm,
        Initialize, ConnectTCP, Listen, ConnectReturns, AcceptFails,
        AcceptInterrupted, AcceptLacks, Errnos

\* the connection that Open() made,
LEMMA ConnectedInvStep == ASSUME IInv, Next PROVE ConnectedInv'
<1>1. Effects
  BY EffectsHold
<1> USE SocketsAssumption, TranslatedIs DEF IInv, TypeOK, Objects,
         INVALID_SOCKET, IsSocketValid, Called, SetSocketError, systemVars,
         objectVars, callVars, historyVars, Result, NoResult, Held,
         ConnectedInv, PlaceInv, Owned
<1>2. ASSUME NEW o \in Objects, CSimpleSocket(o)
      PROVE  ConnectedInv'
  BY <1>2 DEF CSimpleSocket, Constructed, Done
<1>3. ASSUME NEW o \in Objects, Initialize(o), SocketMade(o)
      PROVE  ConnectedInv'
  BY <1>3 DEF Initialize, SocketMade, Lowest, Cleared,
       TranslateSocketError, Returns
<1>4. ASSUME NEW o \in Objects, Initialize(o), SocketLacks
      PROVE  ConnectedInv'
  BY <1>4 DEF Initialize, SocketLacks, TranslateSocketError, Returns
<1>5. ASSUME NEW o \in Objects, Close(o)
      PROVE  ConnectedInv'
  BY <1>5 DEF Close, TranslateSocketError, Done
<1>6. ASSUME NEW o \in Objects, Delete(o)
      PROVE  ConnectedInv'
  BY <1>6 DEF Delete, Done
<1>7. ASSUME NEW o \in Objects, SetNonblocking(o)
      PROVE  ConnectedInv'
  BY <1>7 DEF SetNonblocking, OptionFails, OptionUnchanged,
       TranslateSocketError, Done
<1>8. ASSUME NEW o \in Objects, SetBlocking(o)
      PROVE  ConnectedInv'
  BY <1>8 DEF SetBlocking, OptionFails, OptionUnchanged,
       TranslateSocketError, Done
<1>9. ASSUME NEW o \in Objects, SetOptionReuseAddr(o)
      PROVE  ConnectedInv'
  BY <1>9 DEF SetOptionReuseAddr, OptionFails, OptionUnchanged,
       TranslateSocketError, Done
<1>10. ASSUME NEW o \in Objects, SetWindowSize(o)
       PROVE  ConnectedInv'
  BY <1>10 DEF SetWindowSize, OptionUnchanged, TranslateSocketError,
       Done
<1>11. ASSUME NEW o \in Objects, SetReceiveTimeout(o)
       PROVE  ConnectedInv'
  BY <1>11 DEF SetReceiveTimeout, OptionFails, OptionUnchanged,
       TranslateSocketError, Done
<1>12. ASSUME NEW o \in Objects, Select(o)
       PROVE  ConnectedInv'
  BY <1>12 DEF Select, Done
<1>13. ASSUME NEW o \in Objects, OpenRejected(o)
       PROVE  ConnectedInv'
  BY <1>13 DEF OpenRejected, OpenUnchanged, Returns
<1>14. ASSUME NEW o \in Objects, LookupFails(o)
       PROVE  ConnectedInv'
  BY <1>14 DEF LookupFails, OpenUnchanged, TranslateSocketError, Returns
<1>15. ASSUME NEW o \in Objects, ConnectAtOnce(o)
       PROVE  ConnectedInv'
  BY <1>15 DEF ConnectAtOnce, Connect, ConnectSucceeds, Becomes,
       OpenUnchanged, Returns
<1>16. ASSUME NEW o \in Objects, ConnectRefused(o)
       PROVE  ConnectedInv'
  <2>1. Refused(o, "EOTHER")
    BY <1>1, <1>16 DEF Effects
  <2> QED  BY <1>16, <2>1 DEF Refused, ConnectRefused, Connect,
           OpenUnchanged
<1>17. ASSUME NEW o \in Objects, ConnectPends(o)
       PROVE  ConnectedInv'
  <2>1. Refused(o, "EINPROGRESS")
    BY <1>1, <1>17 DEF Effects
  <2> QED  BY <1>17, <2>1 DEF Refused, ConnectPends, Connect,
           Becomes, OpenUnchanged
<1>18. ASSUME NEW o \in Objects, ConnectWaits(o)
       PROVE  ConnectedInv'
  BY <1>18 DEF ConnectWaits, Connect, Becomes, OpenUnchanged
<1>19. ASSUME NEW o \in Objects, Listen(o), Listens(o)
       PROVE  ConnectedInv'
  BY <1>19 DEF Listen, Listens, Becomes, TranslateSocketError, Returns
<1>20. ASSUME NEW o \in Objects, Listen(o), ListenFails(o)
       PROVE  ConnectedInv'
  BY <1>20 DEF Listen, ListenFails, TranslateSocketError,
       Returns
<1>21. ASSUME NEW o \in Objects, Accept(o)
       PROVE  ConnectedInv'
  BY <1>21 DEF Accept, Constructed, Cleared, Done
<1>22. ASSUME SelectReady
       PROVE  ConnectedInv'
  <2>1. \E ok \in BOOLEAN : Checked(ok)
    BY <1>1, <1>22 DEF Effects
  <2> QED  BY <1>22, <2>1 DEF Checked, SelectReady, Readable,
           SelectUnchanged
<1>23. ASSUME SelectTimesOut
       PROVE  ConnectedInv'
  BY <1>23 DEF SelectTimesOut, SelectReturns, SelectUnchanged
<1>24. ASSUME SelectInterrupted
       PROVE  ConnectedInv'
  <2>1. \E ok \in BOOLEAN : Checked(ok)
    BY <1>1, <1>24 DEF Effects
  <2> QED  BY <1>24, <2>1 DEF Checked, SelectInterrupted,
           SelectUnchanged
<1>25. ASSUME ConnectReturns, Held(self) = "connected"
       PROVE  ConnectedInv'
  BY <1>25 DEF ConnectReturns, ConnectSucceeds, OpenUnchanged, Returns
<1>26. ASSUME ConnectReturns, Held(self) = "refused"
       PROVE  ConnectedInv'
  <2>1. Refused(self, "EOTHER")
    BY <1>1, <1>26 DEF Effects
  <2> QED  BY <1>26, <2>1 DEF Refused, ConnectReturns, Becomes,
           OpenUnchanged
<1>27. ASSUME ConnectInterrupted
       PROVE  ConnectedInv'
  <2>1. Refused(self, "EINTR")
    BY <1>1, <1>27 DEF Effects
  <2> QED  BY <1>27, <2>1 DEF Refused, ConnectInterrupted,
           OpenUnchanged
<1>28. ASSUME AcceptTakes
       PROVE  ConnectedInv'
  BY <1>28 DEF AcceptTakes, Listening, Lowest, AcceptLoop, Again,
       Cleared, Returns, AcceptUnchanged
<1>29. ASSUME NEW e \in Errnos \ {"SUCCESS"}, at = "accept", AcceptError(e)
       PROVE  ConnectedInv'
  <2>1. AcceptFailed(e)
    BY <1>1, <1>29 DEF Effects
  <2> QED  BY <1>29, <2>1 DEF AcceptFailed
<1>30. ASSUME Arrives
       PROVE  ConnectedInv'
  BY <1>30 DEF Arrives
<1>31. ASSUME NEW fd \in Descriptors, Answered(fd)
       PROVE  ConnectedInv'
  BY <1>31 DEF Answered
<1> QED  BY <1>2, <1>3, <1>4, <1>5, <1>6, <1>7, <1>8, <1>9, <1>10, <1>11,
        <1>12, <1>13, <1>14, <1>15, <1>16, <1>17, <1>18, <1>19, <1>20, <1>21,
        <1>22, <1>23, <1>24, <1>25, <1>26, <1>27, <1>28, <1>29, <1>30, <1>31
        DEF Next, Calls, Ends, Trouble, Network, SetNagleAlgoritm,
        Initialize, ConnectTCP, Listen, ConnectReturns, AcceptFails,
        AcceptInterrupted, AcceptLacks, Errnos

\* and the reports as they are.
LEMMA ReportsAgreeStep == ASSUME IInv, Next PROVE ReportsAgree'
<1>1. Effects
  BY EffectsHold
<1> USE SocketsAssumption, TranslatedIs DEF IInv, TypeOK, Objects,
         INVALID_SOCKET, IsSocketValid, Called, SetSocketError, systemVars,
         objectVars, callVars, historyVars, Result, NoResult, Held,
         ReportsAgree, PlaceInv
<1>2. ASSUME NEW o \in Objects, CSimpleSocket(o)
      PROVE  ReportsAgree'
  BY <1>2 DEF CSimpleSocket, Constructed, Done
<1>3. ASSUME NEW o \in Objects, Initialize(o), SocketMade(o)
      PROVE  ReportsAgree'
  BY <1>3 DEF Initialize, SocketMade, Lowest, Cleared,
       TranslateSocketError, Returns
<1>4. ASSUME NEW o \in Objects, Initialize(o), SocketLacks
      PROVE  ReportsAgree'
  BY <1>4 DEF Initialize, SocketLacks, TranslateSocketError, Returns
<1>5. ASSUME NEW o \in Objects, Close(o)
      PROVE  ReportsAgree'
  BY <1>5 DEF Close, TranslateSocketError, Done
<1>6. ASSUME NEW o \in Objects, Delete(o)
      PROVE  ReportsAgree'
  BY <1>6 DEF Delete, Done
<1>7. ASSUME NEW o \in Objects, SetNonblocking(o)
      PROVE  ReportsAgree'
  BY <1>7 DEF SetNonblocking, OptionFails, OptionUnchanged,
       TranslateSocketError, Done
<1>8. ASSUME NEW o \in Objects, SetBlocking(o)
      PROVE  ReportsAgree'
  BY <1>8 DEF SetBlocking, OptionFails, OptionUnchanged,
       TranslateSocketError, Done
<1>9. ASSUME NEW o \in Objects, SetOptionReuseAddr(o)
      PROVE  ReportsAgree'
  BY <1>9 DEF SetOptionReuseAddr, OptionFails, OptionUnchanged,
       TranslateSocketError, Done
<1>10. ASSUME NEW o \in Objects, SetWindowSize(o)
       PROVE  ReportsAgree'
  BY <1>10 DEF SetWindowSize, OptionUnchanged, TranslateSocketError,
       Done
<1>11. ASSUME NEW o \in Objects, SetReceiveTimeout(o)
       PROVE  ReportsAgree'
  BY <1>11 DEF SetReceiveTimeout, OptionFails, OptionUnchanged,
       TranslateSocketError, Done
<1>12. ASSUME NEW o \in Objects, Select(o)
       PROVE  ReportsAgree'
  BY <1>12 DEF Select, Done
<1>13. ASSUME NEW o \in Objects, OpenRejected(o)
       PROVE  ReportsAgree'
  BY <1>13 DEF OpenRejected, OpenUnchanged, Returns
<1>14. ASSUME NEW o \in Objects, LookupFails(o)
       PROVE  ReportsAgree'
  BY <1>14 DEF LookupFails, OpenUnchanged, TranslateSocketError, Returns
<1>15. ASSUME NEW o \in Objects, ConnectAtOnce(o)
       PROVE  ReportsAgree'
  BY <1>15 DEF ConnectAtOnce, Connect, ConnectSucceeds, Becomes,
       OpenUnchanged, Returns
<1>16. ASSUME NEW o \in Objects, ConnectRefused(o)
       PROVE  ReportsAgree'
  <2>1. Refused(o, "EOTHER")
    BY <1>1, <1>16 DEF Effects
  <2> QED  BY <1>16, <2>1 DEF Refused, ConnectRefused, Connect,
           OpenUnchanged
<1>17. ASSUME NEW o \in Objects, ConnectPends(o)
       PROVE  ReportsAgree'
  <2>1. Refused(o, "EINPROGRESS")
    BY <1>1, <1>17 DEF Effects
  <2> QED  BY <1>17, <2>1 DEF Refused, ConnectPends, Connect,
           Becomes, OpenUnchanged
<1>18. ASSUME NEW o \in Objects, ConnectWaits(o)
       PROVE  ReportsAgree'
  BY <1>18 DEF ConnectWaits, Connect, Becomes, OpenUnchanged
<1>19. ASSUME NEW o \in Objects, Listen(o), Listens(o)
       PROVE  ReportsAgree'
  BY <1>19 DEF Listen, Listens, Becomes, TranslateSocketError, Returns
<1>20. ASSUME NEW o \in Objects, Listen(o), ListenFails(o)
       PROVE  ReportsAgree'
  <2>1. Closed(o, "EOTHER") /\ result' = Result("Listen", FALSE) /\ self' = o
    BY <1>20 DEF Listen, ListenFails, Returns
  <2>2. errno' \in {"EINTR", "EOTHER"}
    <3>1. "EOTHER" \in Errnos
      BY DEF Errnos
    <3>2. Released(o, "EOTHER")
      BY <1>1, <2>1, <3>1 DEF Effects
    <3> QED  BY <3>2 DEF Released
  <2>3. m_socketErrno' = [m_socketErrno EXCEPT ![o] = Translated(errno')]
    BY <1>20 DEF Listen, TranslateSocketError
  <2> QED  BY <2>1, <2>2, <2>3
<1>21. ASSUME NEW o \in Objects, Accept(o)
       PROVE  ReportsAgree'
  BY <1>21 DEF Accept, Constructed, Cleared, Done
<1>22. ASSUME SelectReady
       PROVE  ReportsAgree'
  <2>1. \E ok \in BOOLEAN : Checked(ok)
    BY <1>1, <1>22 DEF Effects
  <2> QED  BY <1>22, <2>1 DEF Checked, SelectReady, Readable,
           SelectUnchanged
<1>23. ASSUME SelectTimesOut
       PROVE  ReportsAgree'
  BY <1>23 DEF SelectTimesOut, SelectReturns, SelectUnchanged
<1>24. ASSUME SelectInterrupted
       PROVE  ReportsAgree'
  <2>1. \E ok \in BOOLEAN : Checked(ok)
    BY <1>1, <1>24 DEF Effects
  <2> QED  BY <1>24, <2>1 DEF Checked, SelectInterrupted,
           SelectUnchanged
<1>25. ASSUME ConnectReturns, Held(self) = "connected"
       PROVE  ReportsAgree'
  BY <1>25 DEF ConnectReturns, ConnectSucceeds, OpenUnchanged, Returns
<1>26. ASSUME ConnectReturns, Held(self) = "refused"
       PROVE  ReportsAgree'
  <2>1. Refused(self, "EOTHER")
    BY <1>1, <1>26 DEF Effects
  <2> QED  BY <1>26, <2>1 DEF Refused, ConnectReturns, Becomes,
           OpenUnchanged
<1>27. ASSUME ConnectInterrupted
       PROVE  ReportsAgree'
  <2>1. Refused(self, "EINTR")
    BY <1>1, <1>27 DEF Effects
  <2> QED  BY <1>27, <2>1 DEF Refused, ConnectInterrupted,
           OpenUnchanged
<1>28. ASSUME AcceptTakes
       PROVE  ReportsAgree'
  <2>1. client # self /\ errno = "SUCCESS" /\ client \in Objects
    BY <1>28 DEF AcceptTakes
  <2>2. Translated(errno) = "SocketSuccess"
    BY <2>1
  <2>3. /\ m_socketErrno' = [m_socketErrno EXCEPT ![client] = "SocketSuccess"]
        /\ result' = Result("Accept", TRUE) /\ client' = client /\ self' = self
    BY <1>28, <2>2 DEF AcceptTakes, AcceptLoop, Again, Returns
  <2> QED  BY <2>1, <2>3
<1>29. ASSUME NEW e \in Errnos \ {"SUCCESS"}, at = "accept", AcceptError(e)
       PROVE  ReportsAgree'
  <2>1. AcceptFailed(e)
    BY <1>1, <1>29 DEF Effects
  <2> QED  BY <1>29, <2>1 DEF AcceptFailed
<1>30. ASSUME Arrives
       PROVE  ReportsAgree'
  BY <1>30 DEF Arrives
<1>31. ASSUME NEW fd \in Descriptors, Answered(fd)
       PROVE  ReportsAgree'
  BY <1>31 DEF Answered
<1> QED  BY <1>2, <1>3, <1>4, <1>5, <1>6, <1>7, <1>8, <1>9, <1>10, <1>11,
        <1>12, <1>13, <1>14, <1>15, <1>16, <1>17, <1>18, <1>19, <1>20, <1>21,
        <1>22, <1>23, <1>24, <1>25, <1>26, <1>27, <1>28, <1>29, <1>30, <1>31
        DEF Next, Calls, Ends, Trouble, Network, SetNagleAlgoritm,
        Initialize, ConnectTCP, Listen, ConnectReturns, AcceptFails,
        AcceptInterrupted, AcceptLacks, Errnos

-----------------------------------------------------------------------------
(* The order of the connections.                                           *)

\* A connection that waits stays in its place when it is returned: to move the
\* head of one queue to the end of the other changes nothing of both.
LEMMA TakeFirst ==
  ASSUME NEW s \in Seq(Nat), NEW t \in Seq(Nat), t # <<>>
  PROVE  Append(s, Head(t)) \o Tail(t) = s \o t
<1> DEFINE u == Append(s, Head(t)) \o Tail(t)
           v == s \o t
<1>1. /\ Head(t) \in Nat /\ Tail(t) \in Seq(Nat)
      /\ Len(Tail(t)) = Len(t) - 1 /\ Len(t) \in Nat \ {0}
  OBVIOUS
<1>2. Append(s, Head(t)) \in Seq(Nat) /\ Len(Append(s, Head(t))) = Len(s) + 1
  BY <1>1
<1>3. /\ u \in Seq(Nat) /\ Len(u) = Len(s) + Len(t)
      /\ v \in Seq(Nat) /\ Len(v) = Len(s) + Len(t)
  BY <1>1, <1>2
<1>4. ASSUME NEW i \in 1..Len(u)
      PROVE  u[i] = v[i]
  <2>1. CASE i <= Len(s)
    BY <1>1, <1>2, <1>3, <2>1
  <2>2. CASE i = Len(s) + 1
    BY <1>1, <1>2, <1>3, <2>2
  <2>3. CASE i > Len(s) + 1
    <3>1. u[i] = Tail(t)[i - (Len(s) + 1)]
      BY <1>1, <1>2, <1>3, <2>3
    <3>2. v[i] = t[i - Len(s)]
      BY <1>1, <1>3, <2>3
    <3>3. i - (Len(s) + 1) \in 1..Len(Tail(t))
      BY <1>1, <1>3, <2>3
    <3>4. Tail(t)[i - (Len(s) + 1)] = t[i - (Len(s) + 1) + 1]
      BY <3>3, <1>1
    <3> QED  BY <3>1, <3>2, <3>4
  <2> QED  BY <2>1, <2>2, <2>3, <1>3
<1> HIDE DEF u, v
<1>5. \A i \in 1..Len(u) : u[i] = v[i]
  BY <1>4
<1>6. u = v
  BY <1>3, <1>5, SMTT(30)
<1> QED  BY <1>6 DEF u, v

\* The elements of two queues, one after the other.
LEMMA Members ==
  ASSUME NEW s \in Seq(Nat), NEW t \in Seq(Nat)
  PROVE  ToSet(s \o t) = ToSet(s) \cup ToSet(t)
<1>1. s \o t \in Seq(Nat) /\ Len(s \o t) = Len(s) + Len(t)
  OBVIOUS
<1>2. ASSUME NEW i \in DOMAIN s PROVE s[i] \in ToSet(s \o t)
  <2>1. i \in DOMAIN (s \o t) /\ (s \o t)[i] = s[i]
    BY <1>1
  <2> QED  BY <2>1 DEF ToSet
<1>3. ASSUME NEW i \in DOMAIN t PROVE t[i] \in ToSet(s \o t)
  <2>1. Len(s) + i \in DOMAIN (s \o t) /\ (s \o t)[Len(s) + i] = t[i]
    BY <1>1
  <2> QED  BY <2>1 DEF ToSet
<1>4. ASSUME NEW i \in DOMAIN (s \o t) PROVE (s \o t)[i] \in ToSet(s) \cup ToSet(t)
  <2>1. CASE i <= Len(s)
    BY <1>1, <2>1 DEF ToSet
  <2>2. CASE i > Len(s)
    <3>1. i - Len(s) \in DOMAIN t /\ (s \o t)[i] = t[i - Len(s)]
      BY <1>1, <2>2
    <3> QED  BY <3>1 DEF ToSet
  <2> QED  BY <1>1, <2>1, <2>2
<1> QED  BY <1>2, <1>3, <1>4 DEF ToSet

\* The elements of a queue and one more.
LEMMA MembersAppend ==
  ASSUME NEW s \in Seq(Nat), NEW n \in Nat
  PROVE  ToSet(Append(s, n)) = ToSet(s) \cup {n}
<1>1. ToSet(Append(s, n)) = {Append(s, n)[i] : i \in 1..Len(s) + 1}
  BY DEF ToSet
<1>2. \A i \in 1..Len(s) : Append(s, n)[i] = s[i]
  OBVIOUS
<1>3. Append(s, n)[Len(s) + 1] = n
  OBVIOUS
<1>4. ToSet(s) = {s[i] : i \in 1..Len(s)}
  BY DEF ToSet
<1>5. 1..Len(s) + 1 = (1..Len(s)) \cup {Len(s) + 1}
  OBVIOUS
<1> QED  BY <1>1, <1>2, <1>3, <1>4, <1>5

\* The connections stay in order when none arrives, is returned or is dropped.
LEMMA OrderKept ==
  ASSUME AcceptedInOrder, UNCHANGED <<handed, backlog, discarded, arrived>>
  PROVE  AcceptedInOrder'
BY DEF AcceptedInOrder, ToSet

\* They stay in order when a socket is closed: what waited is dropped.
LEMMA OrderClosed ==
  ASSUME IInv, AcceptedInOrder, NEW o \in Objects, NEW e, Released(o, e),
         UNCHANGED <<handed, arrived>>
  PROVE  AcceptedInOrder'
<1>1. backlog \in Seq(Nat) /\ handed \in Seq(Nat)
  BY DEF IInv, TypeOK
<1>2. CASE backlog' = backlog /\ discarded' = discarded
  BY <1>2, OrderKept
<1>3. CASE backlog' = <<>> /\ discarded' = discarded \cup ToSet(backlog)
  <2>1. (handed \o backlog)' = handed
    BY <1>1, <1>3
  <2>2. \A i, j \in DOMAIN handed : i < j => handed[i] < handed[j]
    <3> TAKE i, j \in DOMAIN handed
    <3>1. /\ i \in DOMAIN (handed \o backlog) /\ (handed \o backlog)[i] = handed[i]
          /\ j \in DOMAIN (handed \o backlog) /\ (handed \o backlog)[j] = handed[j]
      BY <1>1
    <3> QED  BY <3>1 DEF AcceptedInOrder
  <2>3. ToSet(handed) \cup discarded' = 1..arrived'
    BY <1>1, <1>3, Members DEF AcceptedInOrder
  <2> QED  BY <2>1, <2>2, <2>3 DEF AcceptedInOrder
<1> QED  BY <1>2, <1>3 DEF Released, Freed, NotFreed, systemVars

\* They stay in order when one more arrives.
LEMMA OrderArrives ==
  ASSUME IInv, AcceptedInOrder, Arrives
  PROVE  AcceptedInOrder'
<1> DEFINE known == handed \o backlog
           n == arrived + 1
<1>1. /\ backlog \in Seq(Nat) /\ handed \in Seq(Nat) /\ known \in Seq(Nat)
      /\ arrived \in Nat /\ n \in Nat
  BY DEF IInv, TypeOK
<1>2. /\ handed' = handed /\ backlog' = Append(backlog, n)
      /\ discarded' = discarded /\ arrived' = n
  BY DEF Arrives
<1>3. known' = Append(known, n)
  BY <1>1, <1>2
<1>4. /\ \A i, j \in DOMAIN known : i < j => known[i] < known[j]
      /\ ToSet(known) \cup discarded = 1..arrived
  BY DEF AcceptedInOrder
<1>5. \A i \in DOMAIN known : known[i] < n
  <2> TAKE i \in DOMAIN known
  <2>1. known[i] \in ToSet(known)
    BY DEF ToSet
  <2> QED  BY <1>1, <1>4, <2>1
<1> HIDE DEF known
<1>6. \A i, j \in DOMAIN Append(known, n) :
        i < j => Append(known, n)[i] < Append(known, n)[j]
  BY <1>1, <1>4, <1>5
<1>7. ToSet(Append(known, n)) \cup discarded' = 1..arrived'
  <2>1. 1..n = (1..arrived) \cup {n}
    BY <1>1
  <2>2. ToSet(Append(known, n)) = ToSet(known) \cup {n}
    BY <1>1, MembersAppend
  <2> QED  BY <1>2, <1>4, <2>1, <2>2
<1> QED  BY <1>3, <1>6, <1>7 DEF AcceptedInOrder, known

\* They stay in order when one is returned: errno was cleared before accept(),
\* so that the loop does not go round again and lose the connection.
LEMMA OrderTakes ==
  ASSUME IInv, AcceptedInOrder, AcceptTakes
  PROVE  AcceptedInOrder'
<1>1. backlog \in Seq(Nat) /\ handed \in Seq(Nat) /\ backlog # <<>>
  BY DEF IInv, TypeOK, AcceptTakes
<1>2. ~Again(errno)
  BY TranslatedIs DEF IInv, PlaceInv, AcceptTakes, Again
<1>3. /\ handed' = Append(handed, Head(backlog)) /\ backlog' = Tail(backlog)
      /\ discarded' = discarded /\ arrived' = arrived
  BY <1>2 DEF AcceptTakes, AcceptUnchanged
<1>4. (handed \o backlog)' = handed \o backlog
  BY <1>1, <1>3, TakeFirst
<1> QED  BY <1>3, <1>4 DEF AcceptedInOrder

\* They stay in order through every step.
LEMMA OrderStep == ASSUME IInv, AcceptedInOrder, Next PROVE AcceptedInOrder'
<1>1. Effects
  BY EffectsHold
<1>2. ASSUME NEW o \in Objects, Close(o) \/ Delete(o) \/ (Listen(o) /\ ListenFails(o))
      PROVE  AcceptedInOrder'
  <2>1. \E e \in Errnos : Released(o, e)
    BY <1>1, <1>2 DEF Effects, Close, Delete, ListenFails, Errnos, IInv, TypeOK
  <2> QED  BY <1>2, <2>1, OrderClosed DEF Close, Delete, Listen
<1>3. ASSUME NEW o \in Objects, Calls(o),
             ~(Close(o) \/ Delete(o) \/ (Listen(o) /\ ListenFails(o)))
      PROVE  UNCHANGED <<handed, backlog, discarded, arrived>>
  <2>1. CASE CSimpleSocket(o) \/ Initialize(o) \/ Select(o) \/ Accept(o)
    BY <2>1 DEF CSimpleSocket, Initialize, Select, Accept, systemVars, historyVars
  <2>2. CASE \/ SetNonblocking(o) \/ SetBlocking(o) \/ SetOptionReuseAddr(o)
             \/ SetNagleAlgoritm(o) \/ SetWindowSize(o) \/ SetReceiveTimeout(o)
    BY <2>2 DEF SetNonblocking, SetBlocking, SetOptionReuseAddr,
                SetNagleAlgoritm, SetWindowSize, SetReceiveTimeout,
                OptionUnchanged, historyVars
  <2>3. CASE OpenRejected(o) \/ LookupFails(o) \/ ConnectTCP(o)
    BY <2>3 DEF OpenRejected, LookupFails, ConnectTCP, ConnectAtOnce,
                ConnectRefused, ConnectPends, ConnectWaits, Connect,
                OpenUnchanged, historyVars
  <2>4. CASE Listen(o) /\ Listens(o)
    BY <2>4 DEF Listen, Listens
  <2> QED  BY <1>3, <2>1, <2>2, <2>3, <2>4 DEF Calls, Listen
<1>4. ASSUME \/ SelectReady \/ SelectTimesOut \/ SelectInterrupted
             \/ ConnectReturns \/ ConnectInterrupted
      PROVE  UNCHANGED <<handed, backlog, discarded, arrived>>
  BY <1>4 DEF SelectReady, SelectTimesOut, SelectInterrupted, SelectUnchanged,
              ConnectReturns, ConnectInterrupted, OpenUnchanged, historyVars
<1>5. ASSUME AcceptFails \/ AcceptLacks \/ AcceptInterrupted
      PROVE  UNCHANGED <<handed, backlog, discarded, arrived>>
  <2>1. PICK e \in Errnos \ {"SUCCESS"} : at = "accept" /\ AcceptError(e)
    BY <1>5 DEF AcceptFails, AcceptLacks, AcceptInterrupted, Errnos
  <2>2. AcceptFailed(e)
    BY <1>1, <2>1 DEF Effects
  <2> QED  BY <2>2 DEF AcceptFailed, systemVars, historyVars
<1>6. ASSUME NEW fd \in Descriptors, Answered(fd)
      PROVE  UNCHANGED <<handed, backlog, discarded, arrived>>
  BY <1>6 DEF Answered, historyVars
<1> QED  BY <1>2, <1>3, <1>4, <1>5, <1>6, OrderKept, OrderArrives, OrderTakes
         DEF Next, Ends, Trouble, Network

-----------------------------------------------------------------------------
(* The theorems.                                                           *)

\* The invariant holds at the start,
LEMMA IInvInit == Init => IInv
<1> SUFFICES ASSUME Init PROVE IInv
  OBVIOUS
<1> USE SocketsAssumption DEF Init, Objects, INVALID_SOCKET, IsSocketValid
<1>1. TypeOK
  <2>1. /\ made \subseteq Objects
        /\ m_socket \in [Objects -> Descriptors \cup {INVALID_SOCKET}]
        /\ m_socketErrno \in [Objects -> SocketErrors]
        /\ m_bIsBlocking \in [Objects -> BOOLEAN] /\ errno \in Errnos
    BY DEF SocketErrors, Errnos
  <2>2. /\ state \in [Descriptors -> States] /\ nonblock \subseteq Descriptors
    BY DEF States
  <2>3. backlog \in Seq(Nat) /\ handed \in Seq(Nat)
    BY DEF Init
  <2>4. /\ at \in Places /\ self \in Objects /\ client \in Active
        /\ timed \in BOOLEAN /\ arrived \in Nat /\ discarded \subseteq Nat
        /\ interrupted \in BOOLEAN /\ result \in Results
    BY ResultTypes DEF Places
  <2> QED  BY <2>1, <2>2, <2>3, <2>4 DEF TypeOK
<1>2. Owned /\ OpenInv /\ BlockingAsTold
  BY DEF Owned, OpenInv, BlockingAsTold
<1>3. PlaceInv /\ ConnectedInv /\ ReportsAgree
  BY DEF PlaceInv, ConnectedInv, ReportsAgree, NoResult, Result
<1> QED  BY <1>1, <1>2, <1>3 DEF IInv

\* and every step keeps it.
LEMMA IInvStep == IInv /\ [Next]_vars => IInv'
<1>1. ASSUME IInv, Next
      PROVE  IInv'
  BY <1>1, TypeOKStep, OwnedStep, PlaceInvStep, OpenInvStep, BlockingAsToldStep,
     ConnectedInvStep, ReportsAgreeStep DEF IInv
<1>2. ASSUME IInv, UNCHANGED vars
      PROVE  IInv'
  <2> USE <1>2 DEF IInv, vars, objectVars, systemVars, callVars, historyVars,
                   IsSocketValid, IsOpen, Held
  <2>1. TypeOK'
    BY DEF TypeOK
  <2>2. Owned' /\ OpenInv' /\ BlockingAsTold'
    BY DEF Owned, OpenInv, BlockingAsTold
  <2>3. PlaceInv' /\ ConnectedInv' /\ ReportsAgree'
    BY DEF PlaceInv, ConnectedInv, ReportsAgree
  <2> QED  BY <2>1, <2>2, <2>3
<1> QED  BY <1>1, <1>2

\* What the other invariants follow from, and is itself kept by every step.
THEOREM Inductive == Spec => []IInv
BY IInvInit, IInvStep, PTL DEF Spec

\* Every member and every descriptor has one of the values it may have, for any
\* number of objects and descriptors.
THEOREM TypeCorrect == Spec => []TypeOK
<1>1. IInv => TypeOK
  BY DEF IInv
<1> QED  BY <1>1, Inductive, PTL

\* No descriptor is lost or closed for another object, whatever is made, closed,
\* accepted and deleted in whatever order, but those of which a close() failed;
\* and such a failure does no harm to any other descriptor.
THEOREM Ownership == Spec => []Owned
<1>1. IInv => Owned
  BY DEF IInv
<1> QED  BY <1>1, Inductive, PTL

\* An object that says it is blocking is, although the flag of the object and
\* that of its descriptor are set, lost and made anew at different places, unless
\* its number is one of which a close() failed.
THEOREM Blocking == Spec => []BlockingAsTold
<1>1. IInv => BlockingAsTold
  BY DEF IInv
<1> QED  BY <1>1, Inductive, PTL

\* What Open() reports as connected is, unless a signal interrupted its Select().
THEOREM Connections == Spec => []ConnectedWhenOpened
<1>1. IInv => ConnectedWhenOpened
  BY DEF IInv, ConnectedInv, ConnectedWhenOpened
<1> QED  BY <1>1, Inductive, PTL

\* What a call returns and the error of its object agree, although the error is
\* translated from an errno that all objects share, unless it is an Open() that
\* ended before connect().
THEOREM Reports == Spec => []ReportsAgree
<1>1. IInv => ReportsAgree
  BY DEF IInv
<1> QED  BY <1>1, Inductive, PTL

\* Accept() returns the connections in the order they were made, each once, and
\* loses none, for any number of connections and signals.
THEOREM Acceptance == Spec => []AcceptedInOrder
<1>1. Init => AcceptedInOrder
  <2> SUFFICES ASSUME Init PROVE AcceptedInOrder
    OBVIOUS
  <2>1. handed \o backlog = <<>> /\ discarded = {} /\ 1..arrived = {}
    BY DEF Init
  <2> QED  BY <2>1 DEF AcceptedInOrder, ToSet
<1>2. IInv /\ AcceptedInOrder /\ [Next]_vars => AcceptedInOrder'
  BY OrderStep, OrderKept DEF vars, systemVars, historyVars
<1> QED  BY <1>1, <1>2, Inductive, PTL DEF Spec

=============================================================================
