-------------------------- MODULE TransportProofs ---------------------------
(***************************************************************************)
(* The streams of module Transport for bytes without bound, up to the      *)
(* first call that a signal interrupts.  After it neither stream is kept,  *)
(* see MovedIsCounted; the types are.                                      *)
(*                                                                         *)
(* All sequences of bytes of the model are runs of consecutive numbers.    *)
(* The invariant says, at each place of the thread, with which number      *)
(* each of them starts and how their lengths add up.                       *)
(***************************************************************************)
EXTENDS Transport, SequenceTheorems, TLAPS

\* s holds the bytes after byte a of a stream.
IsRun(s, a) == s \in Seq(Nat) /\ \A i \in 1..Len(s) : s[i] = a + i

\* Streams are runs, and runs are put together, cut and compared by length.
LEMMA StreamRun ==
  ASSUME NEW n \in Nat, NEW a \in Nat
  PROVE  /\ IsRun([i \in 1..n |-> a + i], a) /\ Len([i \in 1..n |-> a + i]) = n
         /\ IsRun(Stream(n), 0) /\ Len(Stream(n)) = n
<1>1. [i \in 1..n |-> a + i] \in Seq(Nat) /\ Stream(n) \in Seq(Nat)
  <2>1. \A i \in 1..n : a + i \in Nat /\ i \in Nat
    OBVIOUS
  <2> QED  BY <2>1, IsASeq DEF Stream
<1> QED  BY <1>1, LenProperties DEF IsRun, Stream

LEMMA RunElements ==
  ASSUME NEW a, NEW s, IsRun(s, a), NEW k \in Nat, k <= Len(s)
  PROVE  \A i \in 1..k : s[i] \in Nat /\ s[i] = a + i
<1>1. s \in Seq(Nat) /\ Len(s) \in Nat
  BY LenProperties DEF IsRun
<1>2. \A i \in 1..k : i \in 1..Len(s)
  BY <1>1
<1>3. \A i \in 1..Len(s) : s[i] \in Nat
  BY <1>1, ElementOfSeq
<1> QED  BY <1>2, <1>3 DEF IsRun

LEMMA RunConcat ==
  ASSUME NEW a \in Nat, NEW s, NEW t, IsRun(s, a), IsRun(t, a + Len(s))
  PROVE  IsRun(s \o t, a) /\ Len(s \o t) = Len(s) + Len(t)
<1>1. s \in Seq(Nat) /\ t \in Seq(Nat)
  BY DEF IsRun
<1>2. /\ s \o t \in Seq(Nat) /\ Len(s \o t) = Len(s) + Len(t)
      /\ \A i \in 1..(Len(s) + Len(t)) :
            (s \o t)[i] = IF i <= Len(s) THEN s[i] ELSE t[i - Len(s)]
  BY <1>1, ConcatProperties
<1>3. Len(s) \in Nat /\ Len(t) \in Nat
  BY <1>1, LenProperties
<1>4. ASSUME NEW i \in 1..Len(s \o t)
      PROVE  (s \o t)[i] = a + i
  <2>1. CASE i <= Len(s)
    BY <1>2, <1>3, <2>1 DEF IsRun
  <2>2. CASE ~(i <= Len(s))
    <3>1. i - Len(s) \in 1..Len(t)
      BY <1>2, <1>3, <2>2
    <3>2. t[i - Len(s)] = a + Len(s) + (i - Len(s))
      BY <3>1 DEF IsRun
    <3> QED  BY <1>2, <1>3, <2>2, <3>2
  <2> QED  BY <2>1, <2>2
<1> QED  BY <1>2, <1>4 DEF IsRun

LEMMA RunSub ==
  ASSUME NEW a \in Nat, NEW s, IsRun(s, a),
         NEW m \in Nat, NEW n \in Nat, m <= n, n <= Len(s)
  PROVE  /\ IsRun(SubSeq(s, m + 1, n), a + m)
         /\ Len(SubSeq(s, m + 1, n)) = n - m
<1>1. s \in Seq(Nat) /\ Len(s) \in Nat
  BY LenProperties DEF IsRun
<1>2. \A i \in (m + 1)..n : s[i] \in Nat /\ s[i] = a + i
  BY <1>1 DEF IsRun
<1>3. /\ SubSeq(s, m + 1, n) \in Seq(Nat)
      /\ Len(SubSeq(s, m + 1, n)) = IF m + 1 <= n THEN n - (m + 1) + 1 ELSE 0
      /\ \A i \in 1..(n - (m + 1) + 1) : SubSeq(s, m + 1, n)[i] = s[m + 1 + i - 1]
  <2>1. m + 1 \in Int /\ n \in Int
    OBVIOUS
  <2> QED  BY ONLY <1>2, <2>1, SubSeqProperties
<1>4. Len(SubSeq(s, m + 1, n)) = n - m
  BY <1>3
<1>5. ASSUME NEW i \in 1..Len(SubSeq(s, m + 1, n))
      PROVE  SubSeq(s, m + 1, n)[i] = a + m + i
  <2>1. i \in 1..(n - (m + 1) + 1) /\ m + 1 + i - 1 \in (m + 1)..n
    BY <1>4
  <2>2. SubSeq(s, m + 1, n)[i] = s[m + 1 + i - 1]
    BY <2>1, <1>3
  <2>3. s[m + 1 + i - 1] = a + (m + 1 + i - 1)
    BY <2>1, <1>2
  <2> QED  BY <2>2, <2>3
<1> QED  BY <1>3, <1>4, <1>5 DEF IsRun

LEMMA RunEqual ==
  ASSUME NEW a \in Nat, NEW s, NEW t, IsRun(s, a), IsRun(t, a), Len(s) = Len(t)
  PROVE  s = t
BY SeqEqual DEF IsRun

LEMMA RunsPrefix ==
  ASSUME NEW s, NEW t, IsRun(s, 0), IsRun(t, 0), Len(s) <= Len(t)
  PROVE  IsPrefix(s, t) /\ (Len(s) < Len(t) => IsStrictPrefix(s, t))
<1>1. Len(s) \in Nat /\ Len(t) \in Nat /\ 0 \in Nat /\ 0 + 1 = 1 /\ 0 + 0 = 0
  BY LenProperties DEF IsRun
<1>2. /\ IsRun(SubSeq(s, 0 + 1, Len(s)), 0 + 0)
      /\ IsRun(SubSeq(t, 0 + 1, Len(s)), 0 + 0)
      /\ Len(SubSeq(s, 0 + 1, Len(s))) = Len(s) - 0
      /\ Len(SubSeq(t, 0 + 1, Len(s))) = Len(s) - 0
  BY <1>1, RunSub
<1>3. /\ IsRun(SubSeq(s, 1, Len(s)), 0) /\ IsRun(SubSeq(t, 1, Len(s)), 0)
      /\ Len(SubSeq(s, 1, Len(s))) = Len(SubSeq(t, 1, Len(s)))
  BY <1>1, <1>2, Zenon
<1>4. SubSeq(s, 1, Len(s)) = SubSeq(t, 1, Len(s))
  BY <1>1, <1>3, RunEqual, Zenon
<1>5. Len(s) < Len(t) => s # t
  BY <1>1
<1> QED  BY <1>4, <1>5 DEF IsPrefix, IsStrictPrefix

LEMMA RunPrefix ==
  ASSUME NEW n \in Nat, NEW s, IsRun(s, 0), Len(s) <= n
  PROVE  IsPrefix(s, Stream(n))
BY StreamRun, RunsPrefix

-----------------------------------------------------------------------------
(* The inductive invariant.                                                *)

\* What is still to be sent are the last bytes handed over.
SendInv ==
  /\ IsRun(wire, 0) /\ Len(wire) <= handed
  /\ pc = "SEND" =>
       /\ Remaining > 0 /\ byteCount <= handed
       /\ IsRun(bytes, handed - byteCount)
       /\ Len(wire) + Remaining = handed
  /\ pc # "SEND" => Len(wire) = handed

Filled == IF Reading THEN offset ELSE 0

\* The callers have a beginning of the stream, the vector what follows it,
\* the system the rest.
RecvInv ==
  /\ IsRun(delivered, 0) /\ Len(delivered) <= fed
  /\ Len(delivered) + Filled + Len(inbox) = fed
  /\ IsRun(inbox, Len(delivered) + Filled)
  /\ Reading => \A i \in 1..offset : bytes[i] = Len(delivered) + i

\* The buffer has the size that m_nBufferSize says, and in recv() the size of
\* the request.
BufferInv ==
  /\ m_pBuffer # <<>> => Len(m_pBuffer) = m_nBufferSize
  /\ Reading => Remaining > 0
  /\ pc = "RECV" => /\ m_nBytesReceived = 0
                    /\ Len(m_pBuffer) = Remaining
                    /\ m_nBufferSize = Remaining

Streaming == SendInv /\ RecvInv /\ BufferInv

\* errno is cleared only once, before the first call that could be interrupted.
IInv ==
  /\ TypeOK
  /\ pc = "start" => errno # "EINTR"
  /\ Undisturbed => Streaming

LEMMA Initially == Init => IInv
<1> SUFFICES ASSUME Init PROVE IInv
  OBVIOUS
<1>1. <<>> \in Seq(Nat) /\ Len(<<>>) = 0
  BY EmptySeq
<1>2. IsRun(<<>>, 0)
  BY <1>1 DEF IsRun
<1>3. TypeOK
  <2>1. /\ -1 \in -1..MaxRequest /\ 0 \in 0..MaxOut /\ 0 \in 0..MaxIn
        /\ 0 \in Nat /\ 0 \in 0..0
    BY BoundsAssumption
  <2> QED
    BY <1>1, <2>1 DEF Init, TypeOK, Places, ExitCodes, Errnos, byteCount
<1>4. SendInv
  BY <1>1, <1>2 DEF Init, SendInv
<1>5. RecvInv
  <2>1. Filled = 0 /\ Len(delivered) + Filled = 0 /\ ~Reading
    BY <1>1 DEF Init, Filled, Reading
  <2> QED  BY <1>1, <1>2, <2>1 DEF Init, RecvInv
<1>6. BufferInv
  BY DEF Init, BufferInv, Reading
<1> QED  BY <1>3, <1>4, <1>5, <1>6 DEF IInv, Streaming, Init

\* What every step starts from.
LEMMA Lengths ==
  ASSUME TypeOK
  PROVE  /\ Len(bytes) \in Nat /\ Len(inbox) \in Nat /\ Len(wire) \in Nat
         /\ Len(delivered) \in Nat /\ Len(m_pBuffer) \in Nat
         /\ handed \in Nat /\ fed \in Nat /\ offset \in Nat
         /\ MaxOut \in Nat /\ MaxIn \in Nat /\ MaxRequest \in Nat
BY LenProperties, BoundsAssumption DEF TypeOK, byteCount

LEMMA SendBounds ==
  ASSUME TypeOK, NEW k \in 1..MaxRequest, SendSome(k)
  PROVE  /\ k \in Nat /\ k > 0 /\ offset \in Nat /\ offset + k <= Len(bytes)
         /\ Len(bytes) \in Nat /\ Len(wire) \in Nat /\ handed \in Nat
<1>1. k <= Len(bytes) - offset
  BY DEF SendSome, Remaining, byteCount
<1>2. /\ Len(bytes) \in Nat /\ Len(wire) \in Nat /\ handed \in Nat
      /\ offset \in Nat /\ MaxRequest \in Nat
  BY Lengths
<1> QED  BY ONLY <1>1, <1>2, k \in 1..MaxRequest

LEMMA RecvBounds ==
  ASSUME TypeOK, NEW k \in 1..MaxRequest, RecvSome(k)
  PROVE  /\ k \in Nat /\ k > 0 /\ offset \in Nat /\ offset + k <= Len(bytes)
         /\ Len(bytes) \in Nat /\ Len(inbox) \in Nat /\ k <= Len(inbox)
<1>1. k <= Smaller(Len(bytes) - offset, Len(inbox))
  BY DEF RecvSome, Remaining, byteCount
<1>2. /\ Len(bytes) \in Nat /\ Len(inbox) \in Nat
      /\ offset \in Nat /\ MaxRequest \in Nat
  BY Lengths
<1> QED  BY ONLY <1>1, <1>2, k \in 1..MaxRequest DEF Smaller

-----------------------------------------------------------------------------
(* Types, whatever is interrupted.                                         *)

LEMMA StoredType ==
  ASSUME TypeOK, NEW k \in Nat, k <= Len(inbox)
  PROVE  Stored(k) \in Seq(Nat) /\ Len(Stored(k)) = Len(m_pBuffer)
<1>1. \A i \in 1..Len(inbox) : inbox[i] \in Nat
  BY ElementOfSeq DEF TypeOK
<1>2. \A i \in 1..Len(m_pBuffer) : m_pBuffer[i] \in Nat
  BY ElementOfSeq DEF TypeOK
<1>3. Len(inbox) \in Nat /\ Len(m_pBuffer) \in Nat
  BY Lengths
<1>4. \A i \in 1..Len(m_pBuffer) :
        (IF i - m_nBytesReceived \in 1..k THEN inbox[i - m_nBytesReceived]
         ELSE m_pBuffer[i]) \in Nat
  BY <1>1, <1>2, <1>3
<1> QED  BY <1>3, <1>4, IsASeq, LenProperties DEF Stored

LEMMA CopiedType ==
  ASSUME TypeOK, NEW k \in Nat, m_pBuffer' \in Seq(Nat),
         k <= Len(m_pBuffer')
  PROVE  Copied(k) \in Seq(Nat) /\ Len(Copied(k)) = byteCount
<1>1. \A i \in 1..Len(m_pBuffer') : m_pBuffer'[i] \in Nat
  BY ElementOfSeq
<1>2. \A i \in 1..byteCount : bytes[i] \in Nat
  BY ElementOfSeq DEF TypeOK, byteCount
<1>3. byteCount \in Nat /\ Len(m_pBuffer') \in Nat
  BY Lengths, LenProperties DEF byteCount
<1>4. \A i \in 1..byteCount :
        (IF i - offset \in 1..k THEN m_pBuffer'[i - offset] ELSE bytes[i]) \in Nat
  BY <1>1, <1>2, <1>3
<1> QED  BY <1>3, <1>4, IsASeq, LenProperties DEF Copied

LEMMA CallerType ==
  ASSUME IInv, \/ Initialize \/ Open \/ Close
               \/ \E n \in 0..MaxRequest : writeBytes(n) \/ readBytes(n)
  PROVE  TypeOK'
<1> USE DEF exit, socketVars, peerVars, IInv, byteCount
<1>1. CASE Initialize \/ Open \/ Close
  BY <1>1, BoundsAssumption, EmptySeq
     DEF TypeOK, Initialize, Open, Close, ConnectTCP, Places, ExitCodes, Errnos
<1>2. ASSUME NEW n \in 0..MaxRequest, writeBytes(n)
      PROVE  TypeOK'
  <2>1. n \in Nat /\ handed \in Nat
    BY Lengths, BoundsAssumption
  <2>2. bytes' \in Seq(Nat) /\ Len(bytes') = n
    BY <1>2, <2>1, StreamRun DEF writeBytes, IsRun
  <2> QED  BY <1>2, <2>1, <2>2, Lengths DEF TypeOK, writeBytes, Places
<1>3. ASSUME NEW n \in 0..MaxRequest, readBytes(n)
      PROVE  TypeOK'
  <2>1. n \in Nat
    BY BoundsAssumption
  <2>2. bytes' \in Seq(Nat) /\ Len(bytes') = n
    BY <1>3, <2>1, IsASeq, LenProperties DEF readBytes, Blank, NoByte
  <2> QED  BY <1>3, <2>1, <2>2 DEF TypeOK, readBytes, Places
<1> QED  BY <1>1, <1>2, <1>3

LEMMA TransferType ==
  ASSUME IInv, Transfer
  PROVE  TypeOK'
<1> USE DEF exit, socketVars, peerVars
<1>1. CASE SendFails
  BY <1>1 DEF IInv, TypeOK, SendFails, Places, ExitCodes, Errnos, byteCount
<1>2. CASE RecvFails
  BY <1>2, BoundsAssumption, EmptySeq
     DEF IInv, TypeOK, RecvFails, Places, ExitCodes, Errnos, byteCount
<1>3. CASE RecvEnd
  BY <1>3, BoundsAssumption DEF IInv, TypeOK, RecvEnd, Places, ExitCodes, byteCount
<1>4. CASE Receive
  <2>1. Remaining \in Nat
    BY Lengths DEF IInv, TypeOK, Remaining, byteCount
  <2>2. Blank(Remaining) \in Seq(Nat)
    BY <2>1, IsASeq DEF Blank, NoByte
  <2> QED
    BY <1>4, <2>1, <2>2, BoundsAssumption DEF IInv, TypeOK, Receive, Places, byteCount
<1>5. ASSUME NEW k \in 1..MaxRequest, SendSome(k)
      PROVE  TypeOK'
  <2>1. /\ k \in Nat /\ offset \in Nat /\ Len(bytes) \in Nat
        /\ offset + k <= Len(bytes)
    BY <1>5, SendBounds DEF IInv
  <2>2. \A i \in (offset + 1)..(offset + k) : bytes[i] \in Nat
    <3>1. bytes \in Seq(Nat) /\ \A i \in (offset + 1)..(offset + k) : i \in 1..Len(bytes)
      BY <2>1 DEF IInv, TypeOK
    <3> QED  BY <3>1, ElementOfSeq
  <2>3. SubSeq(bytes, offset + 1, offset + k) \in Seq(Nat)
    <3>1. offset + 1 \in Int /\ offset + k \in Int
      BY <2>1
    <3> QED  BY ONLY <2>2, <3>1, SubSeqProperties
  <2>4. wire' \in Seq(Nat) /\ Len(wire') >= Len(wire)
    <3>1. LET t == SubSeq(bytes, offset + 1, offset + k)
          IN  wire \o t \in Seq(Nat) /\ Len(wire \o t) = Len(wire) + Len(t)
      BY <2>3, ConcatProperties DEF IInv, TypeOK
    <3>2. Len(SubSeq(bytes, offset + 1, offset + k)) \in Nat /\ Len(wire) \in Nat
      BY <2>3, Lengths, LenProperties DEF IInv
    <3> QED  BY <1>5, <3>1, <3>2 DEF SendSome
  <2>5. offset' \in {offset, offset + k} /\ offset' \in 0..Len(bytes)
    BY <1>5, <2>1 DEF SendSome, IInv, TypeOK, byteCount
  <2>6. /\ pc' \in {"SEND", "caller"} /\ errno' = errno
        /\ UNCHANGED <<bytes, socketVars, exitCode, peerVars, handed, delivered>>
    BY <1>5 DEF SendSome
  <2>7. taken \in 0..Len(wire')
    <3>1. taken \in 0..Len(wire) /\ Len(wire) \in Nat /\ Len(wire') \in Nat
      BY <2>4, Lengths, LenProperties DEF IInv, TypeOK
    <3> QED  BY <2>4, <3>1
  <2> QED
    BY <2>4, <2>5, <2>6, <2>7 DEF IInv, TypeOK, Places, byteCount
<1>6. ASSUME NEW k \in 1..MaxRequest, RecvSome(k)
      PROVE  TypeOK'
  <2> USE DEF IInv
  <2>1. /\ k \in Nat /\ k > 0 /\ Len(bytes) \in Nat /\ Len(inbox) \in Nat
        /\ k <= Len(inbox) /\ offset \in Nat /\ offset + k <= Len(bytes)
    BY <1>6, RecvBounds
  <2>2. m_pBuffer' \in Seq(Nat) /\ Len(m_pBuffer') = Len(m_pBuffer)
    BY <1>6, <2>1, StoredType DEF RecvSome
  <2>3. inbox' \in Seq(Nat)
    <3>1. k + 1 \in Int /\ Len(inbox) \in Int
      BY <2>1
    <3>2. \A i \in (k + 1)..Len(inbox) : inbox[i] \in Nat
      <4>1. inbox \in Seq(Nat) /\ \A i \in (k + 1)..Len(inbox) : i \in 1..Len(inbox)
        BY <2>1 DEF TypeOK
      <4> QED  BY <4>1, ElementOfSeq
    <3>3. SubSeq(inbox, k + 1, Len(inbox)) \in Seq(Nat)
      BY ONLY <3>1, <3>2, SubSeqProperties
    <3> QED  BY <1>6, <3>3 DEF RecvSome
  <2>4. CASE SocketInterrupted
    BY <1>6, <2>1, <2>2, <2>3, <2>4, BoundsAssumption DEF TypeOK, RecvSome, byteCount
  <2>5. CASE ~SocketInterrupted
    <3>1. k <= Len(m_pBuffer')
      <4>1. Undisturbed /\ pc = "RECV"
        BY <1>6, <2>5 DEF RecvSome, SocketInterrupted, Undisturbed
      <4> QED
        BY <2>1, <2>2, <4>1 DEF Streaming, BufferInv, Remaining, byteCount
    <3>2. bytes' \in Seq(Nat) /\ Len(bytes') = Len(bytes)
      BY <1>6, <2>1, <2>2, <2>5, <3>1, CopiedType DEF RecvSome, byteCount
    <3>3. /\ delivered' = delivered \/ delivered' = delivered \o bytes'
          /\ pc' \in {"Receive", "caller"} /\ offset' = offset + k
      BY <1>6, <2>5 DEF RecvSome
    <3>4. delivered' \in Seq(Nat)
      <4>1. delivered \in Seq(Nat)
        BY DEF TypeOK
      <4> QED  BY <3>2, <3>3, <4>1, ConcatProperties
    <3>5. /\ errno' = errno /\ m_nBytesReceived' = k
          /\ UNCHANGED <<m_nBufferSize, exitCode, wire, peerClosed, fed, taken,
                         handed>>
      BY <1>6 DEF RecvSome
    <3> QED
      BY <2>1, <2>2, <2>3, <3>2, <3>3, <3>4, <3>5, BoundsAssumption
         DEF TypeOK, Places, byteCount
  <2> QED  BY <2>4, <2>5
<1> QED  BY <1>1, <1>2, <1>3, <1>4, <1>5, <1>6 DEF Transfer

LEMMA OtherType ==
  ASSUME IInv, Signal \/ Peer \/ Ended \/ UNCHANGED vars
  PROVE  TypeOK'
<1> USE DEF IInv, socketVars, peerVars, byteCount
<1>1. CASE Signal
  <2>1. /\ UNCHANGED <<pc, bytes, offset, m_pBuffer, m_nBufferSize, exitCode,
                       wire, peerVars, handed, delivered>>
        /\ errno' = "EINTR"
        /\ m_nBytesReceived' \in {m_nBytesReceived, -1}
    BY <1>1 DEF Signal, SendInterrupted, RecvInterrupted
  <2>2. m_nBytesReceived' \in -1..MaxRequest
    BY <2>1, BoundsAssumption DEF TypeOK
  <2> QED  BY <2>1, <2>2 DEF TypeOK, Errnos
<1>2. CASE PeerClose \/ Ended \/ UNCHANGED vars
  BY <1>2 DEF TypeOK, PeerClose, Ended, vars
<1>4. ASSUME NEW n \in 1..MaxRequest, PeerReceive(n)
      PROVE  TypeOK'
  BY <1>4, Lengths DEF TypeOK, PeerReceive
<1>3. ASSUME NEW n \in 1..MaxRequest, PeerSend(n)
      PROVE  TypeOK'
  <2>1. n \in Nat /\ fed \in Nat
    BY Lengths
  <2>2. [i \in 1..n |-> fed + i] \in Seq(Nat)
    BY <2>1, StreamRun DEF IsRun
  <2>3. inbox' \in Seq(Nat)
    BY <1>3, <2>2, ConcatProperties DEF TypeOK, PeerSend
  <2> QED  BY <1>3, <2>1, <2>3 DEF TypeOK, PeerSend
<1> QED  BY <1>1, <1>2, <1>3, <1>4 DEF Peer

-----------------------------------------------------------------------------
(* The streams, step by step until a call is interrupted.                  *)

\* The steps of the caller that transfer nothing.
LEMMA OpenStep ==
  ASSUME TypeOK, Streaming, Initialize \/ Open \/ Close, pc' # "exited"
  PROVE  Streaming'
<1> USE DEF exit, socketVars, peerVars, Streaming, byteCount
<1>2. SendInv'
  BY DEF SendInv, Initialize, Open, Close, Remaining
<1>3. RecvInv'
  BY DEF RecvInv, Initialize, Open, Close, Filled, Reading
<1>4. BufferInv'
  BY DEF BufferInv, Initialize, Open, Close, Reading, Remaining
<1> QED  BY <1>2, <1>3, <1>4

LEMMA WriteStep ==
  ASSUME TypeOK, Streaming, NEW n \in 0..MaxRequest, writeBytes(n)
  PROVE  Streaming'
<1> USE DEF socketVars, peerVars, Streaming, byteCount
<1>1. n \in Nat /\ handed \in Nat
  BY Lengths, BoundsAssumption
<1>2. IsRun(bytes', handed) /\ Len(bytes') = n
  BY <1>1, StreamRun DEF writeBytes
<1>4. SendInv'
  <2>1. /\ handed' = handed + n /\ handed' - Len(bytes') = handed
        /\ wire' = wire /\ Len(wire) = handed /\ offset' = 0
    BY <1>1, <1>2, Lengths DEF SendInv, writeBytes
  <2>2. Remaining' = n
    BY <1>1, <1>2, <2>1 DEF Remaining
  <2>3. pc' = IF n = 0 THEN "caller" ELSE "SEND"
    BY DEF writeBytes
  <2>4. IsRun(bytes', handed' - Len(bytes'))
    BY <1>2, <2>1
  <2> QED  BY <1>1, <1>2, <2>1, <2>2, <2>3, <2>4 DEF SendInv
<1>5. RecvInv'
  BY DEF RecvInv, writeBytes, Filled, Reading
<1>6. BufferInv'
  BY DEF BufferInv, writeBytes, Reading
<1> QED  BY <1>4, <1>5, <1>6

LEMMA ReadStep ==
  ASSUME TypeOK, Streaming, NEW n \in 0..MaxRequest, readBytes(n)
  PROVE  Streaming'
<1> USE DEF socketVars, peerVars, Streaming, byteCount
<1>1. n \in Nat
  BY BoundsAssumption
<1>2. bytes' \in Seq(Nat) /\ Len(bytes') = n
  BY <1>1, IsASeq, LenProperties DEF readBytes, Blank, NoByte
<1>4. SendInv'
  BY DEF SendInv, readBytes
<1>5. RecvInv'
  BY Lengths DEF RecvInv, readBytes, Filled, Reading
<1>6. BufferInv'
  BY <1>1, <1>2 DEF BufferInv, readBytes, Reading, Remaining
<1> QED  BY <1>4, <1>5, <1>6

\* send() takes k bytes more.
LEMMA SendStep ==
  ASSUME TypeOK, Streaming, errno # "EINTR", NEW k \in 1..MaxRequest, SendSome(k)
  PROVE  Streaming'
<1> USE DEF socketVars, peerVars, Streaming, byteCount
<1>1. /\ k \in Nat /\ k > 0 /\ offset \in Nat /\ offset + k <= Len(bytes)
      /\ Len(bytes) \in Nat /\ Len(wire) \in Nat /\ handed \in Nat
  BY SendBounds
<1>2. /\ pc = "SEND" /\ Len(bytes) <= handed
      /\ IsRun(bytes, handed - Len(bytes))
      /\ Len(wire) + (Len(bytes) - offset) = handed /\ IsRun(wire, 0)
  BY DEF SendSome, SendInv, Remaining
<1>3. /\ IsRun(SubSeq(bytes, offset + 1, offset + k), handed - Len(bytes) + offset)
      /\ Len(SubSeq(bytes, offset + 1, offset + k)) = k
  <2>1. /\ handed - Len(bytes) \in Nat /\ offset + k \in Nat
        /\ offset <= offset + k /\ (offset + k) - offset = k
    BY <1>1, <1>2
  <2> QED  BY <1>1, <1>2, <2>1, RunSub
<1>4. IsRun(wire', 0) /\ Len(wire') = Len(wire) + k
  <2>1. handed - Len(bytes) + offset = 0 + Len(wire)
    BY <1>1, <1>2
  <2>2. IsRun(SubSeq(bytes, offset + 1, offset + k), 0 + Len(wire)) /\ 0 \in Nat
    BY <1>3, <2>1
  <2>3. wire' = wire \o SubSeq(bytes, offset + 1, offset + k)
    BY DEF SendSome
  <2>4. IsRun(wire, 0)
    BY <1>2
  <2>5. /\ IsRun(wire \o SubSeq(bytes, offset + 1, offset + k), 0)
        /\ Len(wire \o SubSeq(bytes, offset + 1, offset + k))
             = Len(wire) + Len(SubSeq(bytes, offset + 1, offset + k))
    BY ONLY <2>2, <2>4, RunConcat
  <2> QED  BY <1>3, <2>3, <2>5, Zenon
<1>5. errno' = errno /\ ~SocketInterrupted
  BY DEF SendSome, SocketInterrupted, TypeOK
<1>6. /\ offset' = offset + k
      /\ pc' = IF offset + k < Len(bytes) THEN "SEND" ELSE "caller"
      /\ bytes' = bytes /\ handed' = handed
  BY <1>5 DEF SendSome
<1>8. SendInv'
  BY <1>1, <1>2, <1>4, <1>6 DEF SendInv, Remaining
<1>9. RecvInv'
  BY <1>6, <1>2 DEF RecvInv, SendSome, Filled, Reading
<1>10. BufferInv'
  BY <1>6, <1>2 DEF BufferInv, SendSome, Reading
<1> QED  BY <1>8, <1>9, <1>10

\* Receive() has its buffer.
LEMMA ReceiveStep == ASSUME TypeOK, Streaming, Receive PROVE Streaming'
<1> USE DEF socketVars, peerVars, Streaming, byteCount
<1>1. Remaining \in Nat /\ Remaining > 0 /\ Remaining' = Remaining
  BY Lengths DEF BufferInv, Receive, Reading, Remaining, TypeOK
<1>2. /\ Blank(Remaining) \in Seq(Nat) /\ Len(Blank(Remaining)) = Remaining
  BY <1>1, IsASeq, LenProperties DEF Blank, NoByte
<1>4. SendInv'
  BY DEF SendInv, Receive
<1>5. RecvInv'
  BY DEF RecvInv, Receive, Filled, Reading
<1>6. BufferInv'
  BY <1>1, <1>2 DEF BufferInv, Receive
<1> QED  BY <1>4, <1>5, <1>6

\* recv() hands over k bytes more.
LEMMA RecvStep ==
  ASSUME TypeOK, Streaming, errno # "EINTR", NEW k \in 1..MaxRequest, RecvSome(k)
  PROVE  Streaming'
<1> DEFINE d == Len(delivered)
<1>1. /\ k \in Nat /\ k > 0 /\ offset \in Nat /\ offset + k <= Len(bytes)
      /\ Len(bytes) \in Nat /\ Len(inbox) \in Nat /\ k <= Len(inbox)
      /\ d \in Nat /\ fed \in Nat /\ Len(m_pBuffer) \in Nat
  BY Lengths, RecvBounds
<1>2. /\ pc = "RECV" /\ m_nBytesReceived = 0
      /\ Len(m_pBuffer) = Len(bytes) - offset /\ m_nBufferSize = Len(bytes) - offset
      /\ IsRun(delivered, 0) /\ IsRun(inbox, d + offset)
      /\ d + offset + Len(inbox) = fed
      /\ \A i \in 1..offset : bytes[i] = d + i
  BY DEF Streaming, RecvSome, RecvInv, BufferInv, Filled, Reading, Remaining, byteCount
<1>3. errno' = errno /\ ~SocketInterrupted
  BY DEF Streaming, RecvSome, SocketInterrupted, TypeOK
<1>4. /\ m_pBuffer' \in Seq(Nat) /\ Len(m_pBuffer') = Len(m_pBuffer)
      /\ \A i \in 1..k : m_pBuffer'[i] = d + offset + i
  <2>1. m_pBuffer' = [i \in 1..Len(m_pBuffer) |->
                        IF i \in 1..k THEN inbox[i] ELSE m_pBuffer[i]]
    <3>1. m_pBuffer' = [i \in 1..Len(m_pBuffer) |->
                          IF i - 0 \in 1..k THEN inbox[i - 0] ELSE m_pBuffer[i]]
      BY <1>2 DEF RecvSome, Stored
    <3>2. \A i \in 1..Len(m_pBuffer) : i - 0 = i
      OBVIOUS
    <3> QED  BY <3>1, <3>2
  <2>2. \A i \in 1..k : inbox[i] \in Nat /\ inbox[i] = d + offset + i
    <3>1. IsRun(inbox, d + offset) /\ k \in Nat /\ k <= Len(inbox)
      BY <1>1, <1>2
    <3> QED  BY ONLY <3>1, RunElements
  <2>3. \A i \in 1..Len(m_pBuffer) : m_pBuffer[i] \in Nat
    BY ElementOfSeq DEF Streaming, TypeOK
  <2>4. m_pBuffer' \in Seq(Nat) /\ Len(m_pBuffer') = Len(m_pBuffer)
    <3>1. \A i \in 1..Len(m_pBuffer) :
             (IF i \in 1..k THEN inbox[i] ELSE m_pBuffer[i]) \in Nat
      BY <2>2, <2>3
    <3> QED  BY <1>1, <2>1, <3>1, IsASeq, LenProperties
  <2>5. \A i \in 1..k : i \in 1..Len(m_pBuffer)
    BY <1>1, <1>2
  <2> QED  BY <2>1, <2>2, <2>4, <2>5
<1>5. /\ bytes' \in Seq(Nat) /\ Len(bytes') = Len(bytes)
      /\ \A i \in 1..(offset + k) : bytes'[i] = d + i
  <2>1. bytes' = [i \in 1..Len(bytes) |->
                    IF i - offset \in 1..k THEN m_pBuffer'[i - offset] ELSE bytes[i]]
    BY <1>3 DEF RecvSome, Copied, byteCount
  <2>2. \A i \in 1..Len(bytes) : bytes[i] \in Nat
    BY ElementOfSeq DEF Streaming, TypeOK
  <2>3. ASSUME NEW i \in 1..Len(bytes), i - offset \in 1..k
        PROVE  m_pBuffer'[i - offset] \in Nat /\ m_pBuffer'[i - offset] = d + i
    <3>1. m_pBuffer'[i - offset] = d + offset + (i - offset)
      BY <1>4, <2>3
    <3> QED  BY <1>1, <3>1
  <2>4. bytes' \in Seq(Nat) /\ Len(bytes') = Len(bytes)
    <3>1. \A i \in 1..Len(bytes) :
             (IF i - offset \in 1..k THEN m_pBuffer'[i - offset] ELSE bytes[i]) \in Nat
      BY <2>2, <2>3
    <3> QED  BY <1>1, <2>1, <3>1, IsASeq, LenProperties
  <2>5. ASSUME NEW i \in 1..(offset + k)
        PROVE  bytes'[i] = d + i
    <3>1. i \in 1..Len(bytes)
      BY <1>1
    <3>2. CASE i <= offset
      <4>1. i \in 1..offset /\ i - offset \notin 1..k
        BY <1>1, <3>2
      <4> QED  BY <1>2, <2>1, <3>1, <4>1
    <3>3. CASE ~(i <= offset)
      <4>1. i - offset \in 1..k
        BY <1>1, <3>3
      <4> QED  BY <2>1, <2>3, <3>1, <4>1
    <3> QED  BY <3>2, <3>3
  <2> QED  BY <2>4, <2>5
<1>6. IsRun(inbox', d + offset + k) /\ Len(inbox') = Len(inbox) - k
  <2>1. inbox' = SubSeq(inbox, k + 1, Len(inbox))
    BY DEF RecvSome
  <2>2. /\ IsRun(inbox, d + offset) /\ d + offset \in Nat
        /\ k \in Nat /\ Len(inbox) \in Nat /\ k <= Len(inbox)
    BY <1>1, <1>2
  <2> HIDE DEF d
  <2>3. /\ IsRun(SubSeq(inbox, k + 1, Len(inbox)), d + offset + k)
        /\ Len(SubSeq(inbox, k + 1, Len(inbox))) = Len(inbox) - k
    BY ONLY <2>2, RunSub
  <2> QED  BY <2>1, <2>3, Zenon
<1>7. /\ offset' = offset + k /\ m_nBytesReceived' = k
      /\ IF offset + k < Len(bytes)
         THEN pc' = "Receive" /\ delivered' = delivered
         ELSE pc' = "caller" /\ delivered' = delivered \o bytes'
      /\ UNCHANGED <<m_nBufferSize, exitCode, wire, peerClosed, fed, taken,
                         handed>>
  BY <1>3 DEF RecvSome, byteCount
<1>8. offset + k >= Len(bytes) =>
         IsRun(delivered', 0) /\ Len(delivered') = d + offset + k
  <2> SUFFICES ASSUME offset + k >= Len(bytes)
               PROVE  IsRun(delivered', 0) /\ Len(delivered') = d + offset + k
    OBVIOUS
  <2>1. offset + k = Len(bytes) /\ delivered' = delivered \o bytes'
    BY <1>1, <1>7
  <2>2. IsRun(bytes', 0 + Len(delivered)) /\ 0 \in Nat
    BY <1>1, <1>5, <2>1 DEF IsRun
  <2>3. IsRun(delivered \o bytes', 0) /\ Len(delivered \o bytes') = d + Len(bytes')
    BY <1>2, <2>2, RunConcat
  <2>4. d + Len(bytes') = d + offset + k
    <3>1. Len(bytes') = offset + k
      BY <1>5, <2>1, Zenon
    <3> HIDE DEF d
    <3>2. d + (offset + k) = d + offset + k
      BY <1>1
    <3> QED  BY <3>1, <3>2, Zenon
  <2> QED  BY <2>1, <2>3, <2>4, Zenon
<1>9. offset + k < Len(bytes) \/ offset + k >= Len(bytes)
  BY <1>1
<1>11. SendInv'
  BY <1>2, <1>7 DEF Streaming, SendInv
<1>12. RecvInv'
  <2>1. CASE offset + k < Len(bytes)
    <3>1. Filled' = offset + k /\ Reading' /\ delivered' = delivered /\ fed' = fed
      BY <1>7, <2>1 DEF Filled, Reading
    <3>2. /\ Len(delivered') + Filled' = d + offset + k
          /\ Len(delivered') + Filled' + Len(inbox') = fed'
      <4>1. Len(delivered') = d /\ Len(inbox') = Len(inbox) - k
        BY <1>6, <3>1
      <4>2. d + offset + Len(inbox) = fed /\ d \in Nat
        BY <1>1, <1>2
      <4> HIDE DEF d, Filled
      <4> QED  BY ONLY <1>1, <3>1, <4>1, <4>2
    <3>3. IsRun(inbox', Len(delivered') + Filled')
      BY <1>6, <3>2, Zenon
    <3>4. \A i \in 1..offset' : bytes'[i] = Len(delivered') + i
      BY <1>5, <1>7, <3>1
    <3>5. IsRun(delivered', 0) /\ Len(delivered') <= fed'
      BY <1>1, <1>2, <3>1
    <3> QED  BY <3>2, <3>3, <3>4, <3>5 DEF RecvInv
  <2>2. CASE offset + k >= Len(bytes)
    <3>1. Filled' = 0 /\ ~Reading' /\ fed' = fed
      BY <1>1, <1>7, <2>2 DEF Filled, Reading
    <3>2. Len(delivered') + Filled' = d + offset + k
      BY <1>1, <1>8, <2>2, <3>1
    <3>3. IsRun(inbox', Len(delivered') + Filled')
      BY <1>6, <3>2, Zenon
    <3>4. /\ Len(delivered') + Filled' + Len(inbox') = fed'
          /\ Len(delivered') <= fed'
      <4>1. /\ Len(delivered') = d + offset + k /\ fed' = fed
            /\ Len(inbox') = Len(inbox) - k
        BY <1>6, <1>8, <2>2, <3>1
      <4>2. /\ d + offset + Len(inbox) = fed /\ d \in Nat
            /\ Len(inbox) \in Nat /\ k <= Len(inbox)
        BY <1>1, <1>2
      <4>3. Filled' = 0
        BY <3>1
      <4> HIDE DEF d, Filled
      <4> QED  BY ONLY <1>1, <4>1, <4>2, <4>3
    <3> QED  BY <1>8, <2>2, <3>1, <3>3, <3>4 DEF RecvInv
  <2> QED  BY <1>9, <2>1, <2>2
<1>13. BufferInv'
  <2>1. m_pBuffer' # <<>> => Len(m_pBuffer') = m_nBufferSize'
    BY <1>2, <1>4, <1>7
  <2>2. Reading' => Remaining' > 0
    <3>1. Reading' => offset' = offset + k /\ offset + k < Len(bytes)
      BY <1>7 DEF Reading
    <3>2. Len(bytes') = Len(bytes)
      BY <1>5
    <3>3. Remaining' = Len(bytes') - offset'
      BY DEF Remaining, byteCount
    <3> QED  BY ONLY <1>1, <3>1, <3>2, <3>3
  <2> QED  BY <1>7, <2>1, <2>2 DEF BufferInv
<1> QED  BY <1>11, <1>12, <1>13 DEF Streaming

\* The peer only adds to what waits, reads, or closes.
LEMMA PeerStep ==
  ASSUME TypeOK, Streaming, Peer
  PROVE  Streaming'
<1>1. CASE PeerClose \/ \E n \in 1..MaxRequest : PeerReceive(n)
  BY <1>1 DEF PeerClose, PeerReceive, Streaming, TypeOK, SendInv, RecvInv, BufferInv, Filled,
              Reading, Remaining, socketVars, byteCount
<1>2. ASSUME NEW n \in 1..MaxRequest, PeerSend(n)
      PROVE  Streaming'
  <2> USE DEF socketVars, Streaming, byteCount
  <2>1. /\ n \in Nat /\ fed \in Nat /\ fed + n \in Nat
        /\ Len(delivered) \in Nat /\ Len(inbox) \in Nat /\ offset \in Nat
    BY Lengths
  <2> DEFINE new == [i \in 1..n |-> fed + i]
  <2>2. IsRun(new, fed) /\ Len(new) = n
    BY <2>1, StreamRun
  <2>3. inbox' = inbox \o new /\ fed' = fed + n
    BY <1>2 DEF PeerSend
  <2>4. /\ IsRun(inbox', Len(delivered) + Filled)
        /\ Len(inbox') = Len(inbox) + n
    <3>1. /\ Filled \in Nat /\ IsRun(inbox, Len(delivered) + Filled)
          /\ Len(delivered) + Filled + Len(inbox) = fed
      BY <2>1 DEF RecvInv, Filled
    <3>2. IsRun(new, (Len(delivered) + Filled) + Len(inbox))
      BY <2>2, <3>1
    <3>3. Len(delivered) + Filled \in Nat
      BY <2>1, <3>1
    <3> HIDE DEF new
    <3>4. /\ IsRun(inbox \o new, Len(delivered) + Filled)
          /\ Len(inbox \o new) = Len(inbox) + Len(new)
      BY <3>1, <3>2, <3>3, RunConcat
    <3> QED  BY <2>2, <2>3, <3>4, Zenon
  <2>7. SendInv'
    BY <1>2 DEF SendInv, PeerSend, Remaining
  <2>8. RecvInv'
    <3>1. /\ pc' = pc /\ delivered' = delivered /\ offset' = offset
          /\ bytes' = bytes /\ Filled' = Filled /\ Reading' = Reading
      BY <1>2 DEF PeerSend, Filled, Reading
    <3>2. Len(delivered) + Filled + Len(inbox) = fed =>
             Len(delivered) + Filled + (Len(inbox) + n) = fed + n
      <4>1. Filled \in Nat
        BY <2>1 DEF Filled
      <4> HIDE DEF Filled, Streaming, new
      <4> QED  BY <2>1, <4>1
    <3>3. /\ IsRun(inbox', Len(delivered') + Filled')
          /\ Len(delivered') + Filled' + Len(inbox') = fed'
      <4>1. IsRun(inbox', Len(delivered) + Filled) /\ Len(inbox') = Len(inbox) + n
        BY <2>4
      <4>2. Len(delivered') + Filled' = Len(delivered) + Filled
        BY <3>1, Zenon
      <4>3. Len(delivered) + Filled + Len(inbox) = fed
        BY DEF RecvInv
      <4>4. Len(delivered) + Filled + Len(inbox') = fed'
        BY <2>3, <3>2, <4>1, <4>3, Zenon
      <4> QED  BY <4>1, <4>2, <4>4, Zenon
    <3>4. Len(delivered) <= fed => Len(delivered) <= fed + n
      BY <2>1
    <3> QED  BY <2>3, <3>1, <3>3, <3>4 DEF RecvInv
  <2>9. BufferInv'
    BY <1>2 DEF BufferInv, PeerSend, Reading, Remaining
  <2> QED  BY <2>7, <2>8, <2>9
<1> QED  BY <1>1, <1>2 DEF Peer

\* Nothing leads back to an undisturbed state.
LEMMA Step == IInv /\ [Next]_vars => IInv'
<1> SUFFICES ASSUME IInv, [Next]_vars PROVE IInv'
  OBVIOUS
<1>1. TypeOK'
  BY CallerType, TransferType, OtherType DEF Next, Caller
<1>2. (pc = "start" => errno # "EINTR")'
  BY DEF IInv, Next, vars, Transfer, Signal, Caller, Peer, Ended, Initialize,
         Open, Close, writeBytes, readBytes, SendSome, SendFails, Receive,
         RecvSome, RecvEnd, RecvFails, SendInterrupted, RecvInterrupted,
         PeerSend, PeerReceive, PeerClose, exit
<1>3. ASSUME Undisturbed'
      PROVE  Streaming'
  <2>1. Undisturbed
    <3>1. errno' # "EINTR" /\ pc' # "exited"
      BY <1>3 DEF Undisturbed
    <3>2. CASE Transfer \/ Signal
      BY <3>1, <3>2
         DEF Undisturbed, Transfer, Signal, SendSome, SendFails, Receive, RecvSome,
             RecvEnd, RecvFails, SendInterrupted, RecvInterrupted, exit
    <3>3. CASE Caller
      BY <3>1, <3>3
         DEF IInv, Undisturbed, Caller, Initialize, Open, ConnectTCP, Close,
             writeBytes, readBytes, exit
    <3>4. CASE Peer \/ Ended \/ UNCHANGED vars
      BY <3>1, <3>4 DEF Undisturbed, vars, Peer, PeerSend, PeerReceive,
             PeerClose, Ended
    <3> QED  BY <3>2, <3>3, <3>4 DEF Next
  <2>2. TypeOK /\ Streaming /\ errno # "EINTR" /\ pc' # "exited"
    BY <1>3, <2>1 DEF IInv, Undisturbed
  <2>3. CASE Transfer
    <3>1. ~SendFails /\ ~RecvFails /\ ~RecvEnd
      BY <1>3, <2>2
         DEF Undisturbed, SendFails, RecvFails, RecvEnd, exit, SocketInterrupted
    <3> QED  BY <2>2, <2>3, <3>1, SendStep, RecvStep, ReceiveStep DEF Transfer
  <2>4. CASE Signal
    BY <1>3, <2>4 DEF Undisturbed, Signal, SendInterrupted, RecvInterrupted
  <2>5. CASE Caller
    BY <2>2, <2>5, OpenStep, WriteStep, ReadStep DEF Caller
  <2>6. CASE Peer
    BY <2>2, <2>6, PeerStep
  <2>7. CASE Ended \/ UNCHANGED vars
    BY <2>2, <2>7 DEF Ended, vars, socketVars, peerVars, Streaming, SendInv,
           RecvInv, BufferInv, Filled, Reading, Remaining, byteCount
  <2> QED  BY <2>3, <2>4, <2>5, <2>6, <2>7 DEF Next
<1> QED  BY <1>1, <1>2, <1>3 DEF IInv

-----------------------------------------------------------------------------
(* The theorems.                                                           *)

LEMMA Invariance == Spec => []IInv
BY Initially, Step, PTL DEF Spec

\* The values keep their types, however the transfers are cut or interrupted.
THEOREM TypeCorrect == Spec => []TypeOK
<1>1. IInv => TypeOK
  BY DEF IInv
<1> QED  BY <1>1, Invariance, PTL

\* Every byte that writeBytes() was given reaches the peer once and in order,
\* and all of them have when it returns, however send() cuts them.
THEOREM Sending == Spec => []SentOnce
<1>1. ASSUME IInv, Undisturbed PROVE SentOnce
  <2>1. handed \in Nat /\ Len(wire) \in Nat /\ Len(wire) <= handed
    BY <1>1, Lengths DEF IInv, Streaming, SendInv
  <2>2. IsPrefix(wire, Stream(handed))
    BY <1>1, <2>1, RunPrefix DEF IInv, Streaming, SendInv
  <2> QED  BY <1>1, <2>2 DEF IInv, Streaming, SendInv, SentOnce
<1>2. IInv => SentOnce
  BY <1>1 DEF SentOnce
<1> QED  BY <1>2, Invariance, PTL

\* No byte of the peer is lost, repeated or moved between the callers, the
\* vector of readBytes() and the system, however recv() cuts the stream.
THEOREM Receiving == Spec => []ReceivedOnce
<1>1. ASSUME IInv, Undisturbed PROVE ReceivedOnce
  <2>1. /\ fed \in Nat /\ Len(delivered) \in Nat /\ Len(inbox) \in Nat
        /\ offset \in Nat /\ Len(delivered) <= fed
    BY <1>1, Lengths DEF IInv, Streaming, RecvInv
  <2>2. IsRun(delivered, 0) /\ IsRun(Stream(fed), 0) /\ Len(Stream(fed)) = fed
    BY <1>1, <2>1, StreamRun DEF IInv, Streaming, RecvInv
  <2>3. IsPrefix(delivered, Stream(fed))
    BY <2>1, <2>2, RunPrefix
  <2>4. delivered \o (IF Reading THEN SubSeq(bytes, 1, offset) ELSE <<>>)
          \o inbox = Stream(fed)
    <3> DEFINE part == IF Reading THEN SubSeq(bytes, 1, offset) ELSE <<>>
    <3>1. IsRun(part, 0 + Len(delivered)) /\ Len(part) = Filled
      <4>1. CASE Reading
        <5>1. /\ bytes \in Seq(Nat) /\ offset <= Len(bytes)
              /\ \A i \in 1..offset : bytes[i] = Len(delivered) + i
          BY <1>1, <4>1 DEF IInv, Streaming, TypeOK, RecvInv, byteCount
        <5>2. \A i \in 1..offset : bytes[i] \in Nat
          <6>1. offset \in Nat /\ Len(delivered) \in Nat
            BY <2>1
          <6>2. \A i \in 1..offset : Len(delivered) + i \in Nat
            BY ONLY <6>1
          <6> QED  BY <5>1, <6>2
        <5>3. /\ SubSeq(bytes, 1, offset) \in Seq(Nat)
              /\ Len(SubSeq(bytes, 1, offset))
                   = IF 1 <= offset THEN offset - 1 + 1 ELSE 0
              /\ \A i \in 1..(offset - 1 + 1) :
                    SubSeq(bytes, 1, offset)[i] = bytes[1 + i - 1]
          <6>1. 1 \in Int /\ offset \in Int
            BY <2>1
          <6> QED  BY ONLY <5>2, <6>1, SubSeqProperties
        <5>4. Len(SubSeq(bytes, 1, offset)) = offset
          BY <2>1, <5>3
        <5>5. ASSUME NEW i \in 1..Len(SubSeq(bytes, 1, offset))
              PROVE  SubSeq(bytes, 1, offset)[i] = 0 + Len(delivered) + i
          BY <2>1, <5>1, <5>3, <5>4
        <5> QED  BY <4>1, <5>3, <5>4, <5>5 DEF IsRun, Filled
      <4>2. CASE ~Reading
        <5>1. <<>> \in Seq(Nat) /\ Len(<<>>) = 0
          OBVIOUS
        <5> QED  BY <4>2, <5>1 DEF IsRun, Filled
      <4> QED  BY <4>1, <4>2
    <3>2. /\ IsRun(inbox, Len(delivered) + Filled)
          /\ Len(delivered) + Filled + Len(inbox) = fed
          /\ Filled \in Nat
      BY <1>1, <2>1 DEF IInv, Streaming, RecvInv, Filled
    <3> HIDE DEF part
    <3>3. /\ IsRun(delivered \o part, 0)
          /\ Len(delivered \o part) = Len(delivered) + Len(part)
      BY <2>2, <3>1, RunConcat
    <3>4. Len(delivered \o part) = Len(delivered) + Filled
      BY <3>1, <3>3
    <3>5. Len(delivered) + Filled = 0 + Len(delivered \o part)
      BY <2>1, <3>2, <3>4
    <3>6. IsRun(inbox, 0 + Len(delivered \o part))
      BY <3>2, <3>5, Zenon
    <3>7. /\ IsRun((delivered \o part) \o inbox, 0)
          /\ Len((delivered \o part) \o inbox)
               = Len(delivered \o part) + Len(inbox)
      <4>1. IsRun(delivered \o part, 0) /\ 0 \in Nat
        BY <3>3
      <4> QED  BY ONLY <3>6, <4>1, RunConcat
    <3>8. Len((delivered \o part) \o inbox) = fed
      BY <2>1, <3>2, <3>4, <3>7
    <3>9. (delivered \o part) \o inbox = Stream(fed)
      BY <2>2, <3>7, <3>8, RunEqual
    <3> QED  BY <3>9 DEF part
  <2> QED  BY <2>3, <2>4 DEF ReceivedOnce
<1>2. IInv => ReceivedOnce
  BY <1>1 DEF ReceivedOnce
<1> QED  BY <1>2, Invariance, PTL

\* Receive() never lets recv() write past the buffer that it allocated, after
\* any sequence of reads of any sizes.
THEOREM Buffering == Spec => []BufferFits
<1>1. IInv => BufferFits
  BY DEF IInv, Streaming, TypeOK, BufferInv, BufferFits, Remaining, Reading, byteCount
<1> QED  BY <1>1, Invariance, PTL

-----------------------------------------------------------------------------
(* The refinement.                                                         *)

LEMMA Extended ==
  ASSUME NEW s, NEW t, IsRun(s, 0), IsRun(t, 0), Len(s) < Len(t)
  PROVE  Streams!IsStrictPrefix(s, t)
<1>1. IsStrictPrefix(s, t)
  <2>1. Len(s) \in Nat /\ Len(t) \in Nat
    BY LenProperties DEF IsRun
  <2> QED  BY <2>1, RunsPrefix
<1> QED
  BY <1>1 DEF IsStrictPrefix, IsPrefix, Streams!IsStrictPrefix, Streams!IsPrefix

LEMMA Beginning ==
  ASSUME NEW n \in Nat, NEW s, IsRun(s, 0), Len(s) <= n
  PROVE  Streams!IsPrefix(s, Stream(n))
<1>1. IsPrefix(s, Stream(n))
  BY RunPrefix
<1> QED  BY <1>1 DEF IsPrefix, Streams!IsPrefix

LEMMA LongerStream ==
  ASSUME NEW n \in Nat, NEW m \in Nat, n < m
  PROVE  Streams!IsStrictPrefix(Stream(n), Stream(m))
<1>1. IsRun(Stream(n), 0) /\ Len(Stream(n)) = n
  BY StreamRun
<1>2. IsRun(Stream(m), 0) /\ Len(Stream(m)) = m
  BY StreamRun
<1> QED  BY <1>1, <1>2, Extended

\* What the peer sends only extends its stream, whatever became of the client.
LEMMA FeedStep ==
  ASSUME TypeOK, Peer
  PROVE  [Streams!Feed]_(Streams!vars)
<1>1. CASE PeerClose \/ \E n \in 1..MaxRequest : PeerReceive(n)
  BY <1>1 DEF PeerClose, PeerReceive, Streams!vars, link
<1>2. ASSUME NEW n \in 1..MaxRequest, PeerSend(n)
      PROVE  Streams!Feed
  <2>1. n \in Nat /\ n > 0 /\ fed \in Nat /\ fed + n \in Nat
    BY Lengths
  <2>2. /\ fed' = fed + n
        /\ UNCHANGED <<pc, wire, handed, delivered>>
    BY <1>2 DEF PeerSend
  <2>3. Streams!IsStrictPrefix(Stream(fed), Stream(fed'))
    BY <2>1, <2>2, LongerStream
  <2> QED  BY <2>2, <2>3 DEF Streams!Feed, Stream, link
<1> QED  BY <1>1, <1>2 DEF Peer

\* A change of the client's streams from one undisturbed state to the next.
LEMMA StreamStep ==
  ASSUME IInv, IInv', [Next]_vars, errno' # "EINTR", Undisturbed,
         ~SendFails, ~RecvFails, ~RecvEnd, ~Open, ~Close
  PROVE  [Streams!Next]_(Streams!vars)
<1> USE DEF Streams!Next, Streams!vars, link, socketVars, peerVars
<1>1. TypeOK /\ Streaming
  BY DEF IInv
<1>2. CASE \/ Initialize \/ Receive \/ PeerClose \/ Ended \/ UNCHANGED vars
         \/ \E n \in 1..MaxRequest : PeerReceive(n)
  BY <1>2 DEF Initialize, Receive, PeerClose, PeerReceive, Ended, vars
<1>3. ASSUME NEW n \in 0..MaxRequest, readBytes(n)
      PROVE  UNCHANGED Streams!vars
  BY <1>3 DEF readBytes
<1>4. ASSUME NEW n \in 0..MaxRequest, writeBytes(n)
      PROVE  Streams!Put \/ UNCHANGED Streams!vars
  <2>1. n \in Nat /\ handed \in Nat /\ handed + n \in Nat
    BY <1>1, Lengths
  <2>2. n = 0 \/ Streams!IsStrictPrefix(Stream(handed), Stream(handed + n))
    BY <2>1, LongerStream
  <2>3. CASE n = 0
    BY <1>4, <2>1, <2>3 DEF writeBytes
  <2>4. CASE n # 0
    <3>1. /\ handed' = handed + n /\ pc = "caller" /\ pc' = "SEND"
          /\ UNCHANGED <<wire, fed, delivered>>
      BY <1>4, <2>4 DEF writeBytes
    <3> QED  BY <2>2, <2>4, <3>1 DEF Streams!Put, Stream
  <2> QED  BY <2>3, <2>4
<1>5. ASSUME NEW k \in 1..MaxRequest, SendSome(k)
      PROVE  Streams!Arrive
  <2>1. /\ pc = "SEND" /\ pc' \in {"SEND", "caller"} /\ Streaming' /\ TypeOK'
        /\ UNCHANGED <<handed, fed, delivered, bytes>>
    BY <1>5 DEF SendSome, IInv, Undisturbed
  <2>2. ~SocketInterrupted
    BY DEF SocketInterrupted
  <2>3. k \in Nat /\ k > 0 /\ handed \in Nat /\ Len(wire) \in Nat /\ offset \in Nat
    BY <1>1, Lengths
  <2>4. Len(wire') \in Nat
    BY <2>1, LenProperties DEF TypeOK
  <2>5. offset' = offset + k
    BY <1>5, <2>2 DEF SendSome
  <2>6. Len(bytes) \in Nat
    BY <1>1, Lengths
  <2>7. Len(wire) < Len(wire') /\ Len(wire') <= handed
    <3>1. Len(wire) + (Len(bytes) - offset) = handed /\ Len(bytes) - offset > 0
      BY <1>1, <2>1 DEF Streaming, SendInv, Remaining, byteCount
    <3>2. CASE pc' = "SEND"
      <4>1. Len(wire') + (Len(bytes) - offset') = handed /\ Len(bytes) - offset' > 0
        BY <2>1, <3>2 DEF Streaming, SendInv, Remaining, byteCount
      <4> QED  BY <2>3, <2>4, <2>5, <2>6, <3>1, <4>1
    <3>3. CASE pc' = "caller"
      <4>1. Len(wire') = handed
        BY <2>1, <3>3 DEF Streaming, SendInv
      <4> QED  BY <2>3, <2>4, <2>6, <3>1, <4>1
    <3> QED  BY <2>1, <3>2, <3>3
  <2>8. IsRun(wire, 0) /\ IsRun(wire', 0)
    BY <1>1, <2>1 DEF Streaming, SendInv
  <2>9. Streams!IsStrictPrefix(wire, wire') /\ Streams!IsPrefix(wire', Stream(handed))
    BY <2>3, <2>4, <2>7, <2>8, Extended, Beginning
  <2> QED  BY <2>1, <2>9 DEF Streams!Arrive
<1>6. ASSUME NEW k \in 1..MaxRequest, RecvSome(k)
      PROVE  Streams!Get \/ UNCHANGED Streams!vars
  <2>1. ~SocketInterrupted
    BY DEF SocketInterrupted
  <2>2. /\ pc = "RECV" /\ UNCHANGED <<handed, fed, wire>>
        /\ \/ pc' = "Receive" /\ UNCHANGED delivered
           \/ pc' = "caller"
        /\ inbox' = SubSeq(inbox, k + 1, Len(inbox))
    BY <1>6, <2>1 DEF RecvSome
  <2>3. CASE pc' = "Receive"
    BY <2>2, <2>3
  <2>4. CASE pc' = "caller"
    <3>1. Streaming' /\ TypeOK'
      BY <2>4 DEF IInv, Undisturbed
    <3>2. /\ k \in Nat /\ k > 0 /\ fed \in Nat /\ Len(delivered) \in Nat
          /\ Len(inbox) \in Nat /\ offset \in Nat
      BY <1>1, Lengths
    <3>3. Len(inbox') \in Nat /\ Len(delivered') \in Nat
      BY <3>1, LenProperties DEF TypeOK
    <3>4. k <= Len(inbox)
      <4>1. k <= Smaller(Remaining, Len(inbox)) /\ Len(bytes) \in Nat
        BY <1>1, <1>6, Lengths DEF RecvSome
      <4> QED  BY <3>2, <4>1 DEF Smaller, Remaining, byteCount
    <3>5. IsRun(inbox, Len(delivered) + offset)
      BY <1>1, <2>2 DEF Streaming, RecvInv, Filled, Reading
    <3>6. Len(inbox') = Len(inbox) - k
      BY <2>2, <3>2, <3>4, <3>5, RunSub
    <3>7. /\ Len(delivered) + offset + Len(inbox) = fed
          /\ Len(delivered') + 0 + Len(inbox') = fed
      BY <1>1, <2>2, <2>4, <3>1 DEF Streaming, RecvInv, Filled, Reading
    <3>8. Len(delivered) < Len(delivered') /\ Len(delivered') <= fed
      BY <3>2, <3>3, <3>4, <3>6, <3>7
    <3>9. IsRun(delivered, 0) /\ IsRun(delivered', 0)
      BY <1>1, <3>1 DEF Streaming, RecvInv
    <3>10. /\ Streams!IsStrictPrefix(delivered, delivered')
           /\ Streams!IsPrefix(delivered', Stream(fed))
      BY <3>2, <3>3, <3>8, <3>9, Extended, Beginning
    <3> QED  BY <2>2, <2>4, <3>10 DEF Streams!Get
  <2> QED  BY <2>2, <2>3, <2>4
<1>7. CASE Peer
  BY <1>1, <1>7, FeedStep
<1>8. ~Signal
  BY DEF Signal, SendInterrupted, RecvInterrupted
<1> QED
  BY <1>2, <1>3, <1>4, <1>5, <1>6, <1>7, <1>8 DEF Next, Transfer, Caller

\* What ends a connection, or begins one, changes neither stream; it may follow
\* an interruption.
LEMMA LinkStep ==
  ASSUME errno' # "EINTR", SendFails \/ RecvFails \/ RecvEnd \/ Open \/ Close
  PROVE  Streams!Next
<1> USE DEF Streams!Next, Streams!Connect, Streams!Disconnect, link, socketVars,
            peerVars, exit
<1>1. CASE SendFails \/ RecvFails \/ RecvEnd \/ Close
  BY <1>1 DEF SendFails, RecvFails, RecvEnd, Close, SocketInterrupted
<1>2. CASE Open
  BY <1>2 DEF Open
<1> QED  BY <1>1, <1>2

\* Until a call is interrupted the client implements the two streams of
\* ByteStream: messages and reads of any length, cut in any way, only ever
\* extend what the other side has of each stream by what follows it.
THEOREM Refinement == Spec => ImplementsStreams
<1>1. Init => Streams!Init
  <2> SUFFICES ASSUME Init PROVE Streams!Init
    OBVIOUS
  <2>1. Stream(0) = <<>>
    BY StreamRun, EmptySeq, SeqEqual DEF IsRun
  <2> QED  BY <2>1 DEF Init, Streams!Init, link
<1>2. IInv /\ IInv' /\ [Next]_vars => [Streams!Next \/ errno' = "EINTR"]_(Streams!vars)
  <2> SUFFICES ASSUME IInv, IInv', [Next]_vars, errno' # "EINTR"
               PROVE  [Streams!Next]_(Streams!vars)
    OBVIOUS
  <2>1. CASE SendFails \/ RecvFails \/ RecvEnd \/ Open \/ Close
    BY <2>1, LinkStep
  <2>2. CASE ~(SendFails \/ RecvFails \/ RecvEnd \/ Open \/ Close)
    <3>1. CASE Undisturbed
      BY <2>2, <3>1, StreamStep
    <3>2. CASE ~Undisturbed
      <4>1. Peer \/ UNCHANGED vars
        BY <2>2, <3>2
           DEF IInv, Undisturbed, Next, vars, Transfer, Signal, Caller, Ended,
               Initialize, writeBytes, readBytes, SendSome, Receive, RecvSome,
               SendInterrupted, RecvInterrupted
      <4>2. CASE Peer
        BY <4>2, FeedStep DEF IInv, Streams!Next
      <4>3. CASE UNCHANGED vars
        BY <4>3 DEF vars, socketVars, peerVars, Streams!vars, link
      <4> QED  BY <4>1, <4>2, <4>3
    <3> QED  BY <3>1, <3>2
  <2> QED  BY <2>1, <2>2
<1> QED  BY <1>1, <1>2, Invariance, PTL DEF Spec, ImplementsStreams
=============================================================================
