----------------------------- MODULE Transport ------------------------------
(***************************************************************************)
(* How the client moves bytes: RemoteProcessClient::readBytes() and        *)
(* writeBytes() over CSimpleSocket::Receive() and Send(), over the calls   *)
(* recv() and send() of the system.  There is one thread; the code above   *)
(* asks for any sequence of reads and writes.                              *)
(*                                                                         *)
(* A byte is its place in its stream: 1, 2, ... in each direction.  The    *)
(* system may accept or hand over any part of what was asked for, fail, or *)
(* be interrupted by a signal.  errno is the system's: a call that fails   *)
(* sets it and a call that succeeds leaves it as it was.                   *)
(***************************************************************************)
EXTENDS Integers, SequencesExt

CONSTANTS
  MaxOut,        (* bound: bytes accepted by the system for the peer       *)
  MaxIn,         (* bound: bytes sent by the peer                          *)
  MaxRequest,    (* bound: bytes of one read or write                      *)
  StreamSize,    (* bytes that the system holds for the peer: send() waits *)
                 (* while there is no room                                 *)
  MayInterrupt   (* a signal that is caught may interrupt a call           *)

ASSUME BoundsAssumption ==
  /\ MaxOut \in Nat /\ MaxIn \in Nat /\ MaxRequest \in Nat
  /\ StreamSize \in Nat \ {0}
  /\ MayInterrupt \in BOOLEAN

VARIABLES
  pc,               (* where the thread is, see Places                     *)
  bytes,            (* the vector of readBytes() or writeBytes()           *)
  offset,           (* how much of it has been received or sent            *)
  errno,            (* of the system: SUCCESS, EINTR, ECONNRESET, EPIPE    *)
  m_nBytesReceived, (* result of the last recv()                           *)
  m_pBuffer,        (* receive buffer; <<>> is NULL                        *)
  m_nBufferSize,
  exitCode,         (* why the process ended                               *)
  inbox,            (* received by the system, not yet by recv()           *)
  wire,             (* accepted from send() by the system for the peer     *)
  taken,            (* number of these bytes that the peer has read        *)
  peerClosed,       (* the peer has closed the connection                  *)
  handed,           (* history: number of bytes given to writeBytes()      *)
  fed,              (* history: number of bytes sent by the peer           *)
  delivered         (* history: the bytes returned by readBytes()          *)

socketVars == <<m_nBytesReceived, m_pBuffer, m_nBufferSize>>
peerVars   == <<inbox, peerClosed, fed, taken>>
vars == <<pc, bytes, offset, errno, socketVars, exitCode, wire, peerVars,
          handed, delivered>>

-----------------------------------------------------------------------------
(* Values.                                                                 *)

\* "caller" is the code above; "SEND" and "RECV" are the loops of Send() and
\* Receive() that repeat an interrupted call.  "valid" and "invalid" say what
\* socket() returned.
Places == {"start", "valid", "invalid", "caller", "SEND", "Receive", "RECV",
           "closed", "exited"}

\* SUCCESS stands for every value that the code does not test for.
Errnos    == {"SUCCESS", "EINTR", "ECONNRESET", "EPIPE"}
ExitCodes == {"none", "10001", "10012", "10013", "SIGPIPE"}

\* A byte that was never written: the vector is zeroed, the buffer is not.
NoByte == 0

Stream(n)   == [i \in 1..n |-> i]
Blank(n)    == [i \in 1..n |-> NoByte]
byteCount   == Len(bytes)
Remaining   == byteCount - offset
Full        == Len(wire) - taken = StreamSize
Smaller(a, b) == IF a < b THEN a ELSE b

exit(code) == /\ pc' = "exited"
              /\ exitCode' = code

\* TranslateSocketError(): the error comes from errno, whatever the call
\* returned.
SocketInterrupted == errno' = "EINTR"

-----------------------------------------------------------------------------
(* The constructor and the destructor of RemoteProcessClient.              *)

\* Initialize() clears errno and creates the socket.  The constructor does
\* not look at the result.
Initialize ==
  /\ pc = "start"
  /\ errno' = "SUCCESS"
  /\ pc' \in {"valid", "invalid"}
  /\ UNCHANGED <<bytes, offset, socketVars, exitCode, wire, peerVars, handed,
                 delivered>>

\* The host is found and accepts, or not.  An interrupted connect() is not
\* repeated: it counts as refused.
ConnectTCP(success) ==
  IF success THEN errno' = errno
  ELSE errno' \in {"SUCCESS", "ECONNRESET"}
                   \cup IF MayInterrupt THEN {"EINTR"} ELSE {}

\* An invalid socket, no address, port 0 (also a port that int16 cuts to 0)
\* or no connection: the process exits.
Open ==
  /\ \/ pc \in {"invalid", "valid"} /\ UNCHANGED errno /\ exit("10001")
     \/ pc = "valid" /\ ConnectTCP(FALSE) /\ exit("10001")
     \/ pc = "valid" /\ ConnectTCP(TRUE) /\ pc' = "caller" /\ UNCHANGED exitCode
  /\ UNCHANGED <<bytes, offset, socketVars, wire, peerVars, handed, delivered>>

Close ==
  /\ pc = "caller"
  /\ pc' = "closed"
  /\ m_pBuffer' = <<>>
  /\ UNCHANGED <<bytes, offset, errno, m_nBytesReceived, m_nBufferSize,
                 exitCode, wire, peerVars, handed, delivered>>

-----------------------------------------------------------------------------
(* writeBytes() and Send().                                                *)

writeBytes(n) ==
  /\ pc = "caller"
  /\ handed + n <= MaxOut
  /\ handed' = handed + n
  /\ bytes' = [i \in 1..n |-> handed + i]
  /\ offset' = 0
  /\ pc' = IF n = 0 THEN "caller" ELSE "SEND"
  /\ UNCHANGED <<errno, socketVars, exitCode, wire, peerVars, delivered>>

\* Mutant: a part that was accepted passes for the whole message.
MUT_SendSome(k) ==
  /\ pc = "SEND"
  /\ k <= Remaining
  /\ Len(wire) - taken + k <= StreamSize
  /\ Len(wire) + k <= MaxOut
  /\ wire' = wire \o SubSeq(bytes, offset + 1, offset + k)
  /\ errno' = errno
  /\ offset' = offset + k
  /\ pc' = "caller"
  /\ UNCHANGED <<bytes, socketVars, exitCode, peerVars, handed, delivered>>

\* send() accepts k bytes, as many as there is room for: the socket is
\* blocking, so a call without room waits.  Send() returns k to writeBytes(), unless errno
\* says that the call was interrupted.
SendSome(k) ==
  /\ pc = "SEND"
  /\ k <= Remaining
  /\ Len(wire) - taken + k <= StreamSize
  /\ Len(wire) + k <= MaxOut
  /\ wire' = wire \o SubSeq(bytes, offset + 1, offset + k)
  /\ errno' = errno
  /\ offset' = IF SocketInterrupted THEN offset ELSE offset + k
  /\ pc' = IF SocketInterrupted \/ offset + k < byteCount THEN "SEND"
           ELSE "caller"
  /\ UNCHANGED <<bytes, socketVars, exitCode, peerVars, handed, delivered>>

SendInterrupted ==
  /\ pc = "SEND"
  /\ MayInterrupt
  /\ errno' = "EINTR"
  /\ UNCHANGED <<pc, bytes, offset, socketVars, exitCode, wire, peerVars,
                 handed, delivered>>

\* Mutant: Send() repeats a call that failed for whatever reason.
MUT_SendFails ==
  /\ pc = "SEND"
  /\ peerClosed
  /\ errno' = "ECONNRESET"
  /\ UNCHANGED <<pc, bytes, offset, socketVars, exitCode, wire, peerVars,
                 handed, delivered>>

\* The peer is gone: writeBytes() gives up, or SIGPIPE ends the process.
SendFails ==
  /\ pc = "SEND"
  /\ peerClosed
  /\ \/ errno' = "ECONNRESET" /\ exit("10013")
     \/ errno' = "EPIPE" /\ exit("SIGPIPE")
  /\ UNCHANGED <<bytes, offset, socketVars, wire, peerVars, handed, delivered>>

-----------------------------------------------------------------------------
(* readBytes() and Receive().                                              *)

\* Mutant: the offset of the call before is kept.
MUT_readBytes(n) ==
  /\ pc = "caller"
  /\ bytes' = Blank(n)
  /\ pc' = IF n = 0 THEN "caller" ELSE "Receive"
  /\ UNCHANGED <<offset, errno, socketVars, exitCode, wire, peerVars, handed,
                 delivered>>

readBytes(n) ==
  /\ pc = "caller"
  /\ bytes' = Blank(n)
  /\ offset' = 0
  /\ pc' = IF n = 0 THEN "caller" ELSE "Receive"
  /\ UNCHANGED <<errno, socketVars, exitCode, wire, peerVars, handed, delivered>>

\* Mutant: a buffer of any size is used again.
MUT_Receive ==
  /\ pc = "Receive"
  /\ m_nBytesReceived' = 0
  /\ IF m_pBuffer # <<>>
     THEN UNCHANGED <<m_pBuffer, m_nBufferSize>>
     ELSE /\ m_pBuffer' = Blank(Remaining)
          /\ m_nBufferSize' = Remaining
  /\ pc' = "RECV"
  /\ UNCHANGED <<bytes, offset, errno, exitCode, wire, peerVars, handed, delivered>>

\* The start of Receive(Remaining): a buffer of exactly that size.
Receive ==
  /\ pc = "Receive"
  /\ m_nBytesReceived' = 0
  /\ IF m_pBuffer # <<>> /\ m_nBufferSize = Remaining
     THEN UNCHANGED <<m_pBuffer, m_nBufferSize>>
     ELSE /\ m_pBuffer' = Blank(Remaining)
          /\ m_nBufferSize' = Remaining
  /\ pc' = "RECV"
  /\ UNCHANGED <<bytes, offset, errno, exitCode, wire, peerVars, handed, delivered>>

\* recv() stores k bytes at m_pBuffer + m_nBytesReceived.  What falls outside
\* of the buffer is not represented.
Stored(k) ==
  [i \in 1..Len(m_pBuffer) |->
     IF i - m_nBytesReceived \in 1..k THEN inbox[i - m_nBytesReceived]
     ELSE m_pBuffer[i]]

\* Mutant: every part goes to the start of the vector.
MUT_Copied(k) ==
  [i \in 1..byteCount |-> IF i \in 1..k THEN m_pBuffer'[i] ELSE bytes[i]]

\* memcpy() of the k bytes at GetData() into the vector.
Copied(k) ==
  [i \in 1..byteCount |->
     IF i - offset \in 1..k THEN m_pBuffer'[i - offset] ELSE bytes[i]]

\* recv() returns k > 0 bytes.
RecvSome(k) ==
  /\ pc = "RECV"
  /\ k <= Smaller(Remaining, Len(inbox))
  /\ inbox' = SubSeq(inbox, k + 1, Len(inbox))
  /\ m_pBuffer' = Stored(k)
  /\ m_nBytesReceived' = k
  /\ errno' = errno
  /\ IF SocketInterrupted
     THEN UNCHANGED <<pc, bytes, offset, delivered>>
     ELSE /\ bytes' = Copied(k)
          /\ offset' = offset + k
          /\ IF offset + k < byteCount
             THEN pc' = "Receive" /\ UNCHANGED delivered
             ELSE pc' = "caller" /\ delivered' = delivered \o bytes'
  /\ UNCHANGED <<m_nBufferSize, exitCode, wire, peerClosed, fed, taken,
                 handed>>

\* Mutant: the vector is returned as it is when the peer has closed.
MUT_RecvEndShort ==
  /\ pc = "RECV"
  /\ peerClosed /\ inbox = <<>>
  /\ m_nBytesReceived' = 0
  /\ pc' = "caller"
  /\ delivered' = delivered \o bytes
  /\ UNCHANGED <<bytes, offset, errno, m_pBuffer, m_nBufferSize, exitCode,
                 wire, peerVars, handed>>

\* recv() returns 0: the peer has closed and everything has been received.
RecvEnd ==
  /\ pc = "RECV"
  /\ peerClosed /\ inbox = <<>>
  /\ m_nBytesReceived' = 0
  /\ errno' = errno
  /\ IF SocketInterrupted THEN UNCHANGED <<pc, exitCode>> ELSE exit("10012")
  /\ UNCHANGED <<bytes, offset, m_pBuffer, m_nBufferSize, wire, peerVars,
                 handed, delivered>>

RecvInterrupted ==
  /\ pc = "RECV"
  /\ MayInterrupt
  /\ errno' = "EINTR"
  /\ m_nBytesReceived' = -1
  /\ UNCHANGED <<pc, bytes, offset, m_pBuffer, m_nBufferSize, exitCode, wire,
                 peerVars, handed, delivered>>

\* recv() fails: Receive() frees the buffer, readBytes() gives up.
RecvFails ==
  /\ pc = "RECV"
  /\ peerClosed
  /\ errno' = "ECONNRESET"
  /\ m_nBytesReceived' = -1
  /\ m_pBuffer' = <<>>
  /\ exit("10012")
  /\ UNCHANGED <<bytes, offset, m_nBufferSize, wire, peerVars, handed, delivered>>

-----------------------------------------------------------------------------
(* The peer.                                                               *)

PeerSend(n) ==
  /\ ~peerClosed
  /\ fed + n <= MaxIn
  /\ fed' = fed + n
  /\ inbox' = inbox \o [i \in 1..n |-> fed + i]
  /\ UNCHANGED <<pc, bytes, offset, errno, socketVars, exitCode, wire,
                 peerClosed, taken, handed, delivered>>

\* The peer reads what has been sent to it.
PeerReceive(n) ==
  /\ ~peerClosed
  /\ taken + n <= Len(wire)
  /\ taken' = taken + n
  /\ UNCHANGED <<pc, bytes, offset, errno, socketVars, exitCode, wire, inbox,
                 peerClosed, fed, handed, delivered>>

PeerClose ==
  /\ ~peerClosed
  /\ peerClosed' = TRUE
  /\ UNCHANGED <<pc, bytes, offset, errno, socketVars, exitCode, wire, inbox,
                 fed, taken, handed, delivered>>

-----------------------------------------------------------------------------
Init ==
  /\ pc = "start"
  /\ bytes = <<>> /\ offset = 0
  /\ errno = "SUCCESS"
  /\ m_nBytesReceived = -1 /\ m_pBuffer = <<>> /\ m_nBufferSize = 0
  /\ exitCode = "none"
  /\ inbox = <<>> /\ wire = <<>> /\ peerClosed = FALSE
  /\ taken = 0 /\ handed = 0 /\ fed = 0 /\ delivered = <<>>

\* What the client does inside a read or a write.
Transfer ==
  \/ \E k \in 1..MaxRequest : SendSome(k) \/ RecvSome(k)
  \/ SendFails \/ Receive \/ RecvEnd \/ RecvFails

Signal == SendInterrupted \/ RecvInterrupted

Caller ==
  \/ Initialize \/ Open \/ Close
  \/ \E n \in 0..MaxRequest : writeBytes(n) \/ readBytes(n)

Peer == PeerClose \/ \E n \in 1..MaxRequest : PeerSend(n) \/ PeerReceive(n)

\* The process has ended, or has closed its socket: nothing is left to do.
Ended == pc \in {"closed", "exited"} /\ UNCHANGED vars

Next == Transfer \/ Signal \/ Caller \/ Peer \/ Ended

Spec == Init /\ [][Next]_vars

\* A call of the system that can complete does; nothing is assumed of the
\* code above, of the peer (it need not send, read or close) or of signals.
FairSpec == Spec /\ WF_vars(Transfer)

-----------------------------------------------------------------------------
(* Properties.                                                             *)

Reading == pc \in {"Receive", "RECV"}

\* Type correctness.
TypeOK ==
  /\ pc \in Places /\ errno \in Errnos /\ exitCode \in ExitCodes
  /\ bytes \in Seq(Nat) /\ offset \in 0..byteCount
  /\ m_nBytesReceived \in -1..MaxRequest
  /\ m_pBuffer \in Seq(Nat) /\ m_nBufferSize \in Nat
  /\ inbox \in Seq(Nat) /\ wire \in Seq(Nat) /\ delivered \in Seq(Nat)
  /\ peerClosed \in BOOLEAN
  /\ taken \in 0..Len(wire) /\ handed \in 0..MaxOut /\ fed \in 0..MaxIn

\* What is promised holds up to the first call that a signal interrupts, in
\* any of the places where that can happen: errno keeps EINTR from then on,
\* and the loops repeat calls that succeeded, see MovedIsCounted.
Undisturbed == errno # "EINTR" /\ pc # "exited"

\* However send() splits a message, its bytes reach the peer once and in
\* order; when writeBytes() has returned, all of them have.
SentOnce ==
  Undisturbed =>
    /\ IsPrefix(wire, Stream(handed))
    /\ pc # "SEND" => Len(wire) = handed

\* However recv() splits the stream, no byte of the peer is lost or repeated
\* between the callers, the vector being filled and the system.
ReceivedOnce ==
  Undisturbed =>
    /\ IsPrefix(delivered, Stream(fed))
    /\ delivered \o (IF Reading THEN SubSeq(bytes, 1, offset) ELSE <<>>) \o inbox
         = Stream(fed)

\* recv() writes into the receive buffer only: it is as large as the request
\* it is used for, after any sequence of requests of other sizes.
BufferFits ==
  Undisturbed /\ pc = "RECV" =>
    /\ m_nBytesReceived >= 0
    /\ m_nBytesReceived + Remaining <= Len(m_pBuffer)
    /\ Len(m_pBuffer) = m_nBufferSize

\* The transport implements the two streams.
link == IF pc \in {"start", "valid", "invalid"} THEN "new"
        ELSE IF pc \in {"closed", "exited"} THEN "down" ELSE "up"

Streams == INSTANCE ByteStream WITH
  written <- Stream(handed), arrived <- wire,
  sent <- Stream(fed), read <- delivered

ImplementsStreams ==
  Streams!Init /\ [][Streams!Next \/ errno' = "EINTR"]_(Streams!vars)

\* A write comes to an end: all is sent, or the process exits, unless from
\* some point on the peer neither reads nor closes and the system holds all it
\* can for it: nothing in the code bounds that wait, so a peer that reads or
\* closes in the end has to be assumed.  A read comes to an end once the peer
\* has sent enough or has closed.  Either may not when a call is interrupted.
TransferEnds ==
  /\ []<>(pc # "SEND" \/ errno = "EINTR") \/ <>[](Full /\ ~peerClosed)
  /\ (Reading /\ (peerClosed \/ Len(inbox) >= Remaining))
       ~> ~Reading \/ errno = "EINTR"

\* Send() "attempt[s] to resend if call was interrupted by a signal" and
\* Receive() returns the "number of bytes actually received": what a call of
\* send() or recv() moved has been moved, and counts as much in the caller.
MovedIsCounted ==
  [][wire' # wire \/ Len(inbox') < Len(inbox) =>
       offset' - offset = Len(wire') - Len(wire) + Len(inbox) - Len(inbox')]_vars
=============================================================================
