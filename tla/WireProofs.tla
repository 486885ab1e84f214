----------------------------- MODULE WireProofs -----------------------------
(***************************************************************************)
(* Readers and writers agree, for objects and lists of any content and     *)
(* length, and what follows from it for client and server.                 *)
(*                                                                         *)
(* Two facts about every reader carry the proof.  Given a stream that      *)
(* begins with what the writer of its object wrote, it returns the object  *)
(* and stops where the object ends, or it ends the process because there   *)
(* is a null in it.  And what it does with the begin of a stream is what   *)
(* it does with the whole stream, unless it runs out of fields.            *)
(*                                                                         *)
(* Loops are recursive functions; what is true after each round is shown   *)
(* by induction over the set of rounds after which it is.                  *)
(***************************************************************************)
EXTENDS Wire, SequenceTheorems, WellFoundedInduction, TLAPS

-----------------------------------------------------------------------------
(* Induction.                                                              *)

LEMMA Least ==
  ASSUME NEW T \in SUBSET Nat, T # {}
  PROVE  \E x \in T : \A y \in T : x <= y
<1>1. IsWellFoundedOn(OpToRel(<, Nat), Nat)
  BY NatLessThanWellFounded
<1>2. PICK x \in T : \A y \in T : ~(<<y, x>> \in OpToRel(<, Nat))
  BY <1>1, WFMin
<1>3. \A y \in T : ~(y < x)
  BY <1>2 DEF OpToRel
<1> QED  BY <1>3

LEMMA Induction ==
  ASSUME NEW n \in Nat, NEW S, 0 \in S,
         \A i \in 0..(n - 1) : i \in S => i + 1 \in S
  PROVE  \A i \in 0..n : i \in S
<1> DEFINE T == {i \in 0..n : i \notin S}
<1> SUFFICES ASSUME T # {} PROVE FALSE
  OBVIOUS
<1>1. PICK x \in T : \A y \in T : x <= y
  <2>1. T \in SUBSET Nat /\ T # {}
    OBVIOUS
  <2> HIDE DEF T
  <2> QED  BY <2>1, Least
<1>2. x # 0 /\ x - 1 \notin T
  BY <1>1
<1> QED  BY <1>1, <1>2

-----------------------------------------------------------------------------
(* FlattenSeq().                                                           *)

IsFlat(f, seqs, n) ==
  f = [i \in 1..n |-> IF i = 1 THEN seqs[i] ELSE f[i - 1] \o seqs[i]]

LEMMA FlatExists ==
  ASSUME NEW seqs, NEW n \in Nat
  PROVE  \E f : IsFlat(f, seqs, n)
<1> DEFINE S == {k \in 0..n : \E f : IsFlat(f, seqs, k)}
<1>1. 0 \in S
  <2>1. IsFlat([i \in 1..0 |-> 0], seqs, 0)
    BY DEF IsFlat
  <2> QED  BY <2>1
<1>2. ASSUME NEW k \in 0..(n - 1), k \in S
      PROVE  k + 1 \in S
  <2>1. PICK f : IsFlat(f, seqs, k)
    BY <1>2
  <2> DEFINE g == [i \in 1..(k + 1) |-> IF i <= k THEN f[i]
                     ELSE IF i = 1 THEN seqs[i] ELSE f[k] \o seqs[i]]
  <2>2. \A i \in 1..k : f[i] = IF i = 1 THEN seqs[i] ELSE f[i - 1] \o seqs[i]
    BY <2>1 DEF IsFlat
  <2>3. ASSUME NEW i \in 1..(k + 1)
        PROVE  g[i] = IF i = 1 THEN seqs[i] ELSE g[i - 1] \o seqs[i]
    BY <2>2
  <2>4. IsFlat(g, seqs, k + 1)
    BY <2>3, Zenon DEF IsFlat
  <2> QED  BY <2>4
<1> HIDE DEF S
<1>3. n \in S
  BY <1>1, <1>2, Induction
<1> QED  BY <1>3 DEF S

\* f[i] is the concatenation of the first i.
Grows(f, seqs) ==
  f[0] = <<>> /\ \A i \in 1..Len(seqs) : f[i] = f[i - 1] \o seqs[i]

LEMMA FlattenGrown ==
  ASSUME NEW A, NEW seqs \in Seq(Seq(A)), NEW f, Grows(f, seqs)
  PROVE  FlattenSeq(seqs) = f[Len(seqs)]
<1>1. CASE Len(seqs) = 0
  BY <1>1 DEF FlattenSeq, Grows
<1>2. CASE Len(seqs) # 0
  <2>n. PICK n \in Nat : n = Len(seqs)
    OBVIOUS
  <2> DEFINE g == CHOOSE g : IsFlat(g, seqs, n)
  <2>1. IsFlat(g, seqs, n)
    <3>1. \E h : IsFlat(h, seqs, n)
      BY FlatExists
    <3> QED  BY <3>1, Zenon
  <2>2. FlattenSeq(seqs) = g[n]
    BY <1>2, <2>n DEF FlattenSeq, IsFlat
  <2> HIDE DEF g
  <2>3. \A i \in 1..n : g[i] = IF i = 1 THEN seqs[i] ELSE g[i - 1] \o seqs[i]
    BY <2>1 DEF IsFlat
  <2> DEFINE S == {i \in 0..n : i = 0 \/ g[i] = f[i]}
  <2>4. 0 \in S
    OBVIOUS
  <2>5. ASSUME NEW i \in 0..(n - 1), i \in S
        PROVE  i + 1 \in S
    <3>0. i + 1 \in 1..n /\ i + 1 \in 1..Len(seqs) /\ (i + 1) - 1 = i
      BY <2>n
    <3>1. f[i + 1] = f[i] \o seqs[i + 1]
      <4>1. f[i + 1] = f[(i + 1) - 1] \o seqs[i + 1]
        BY <3>0 DEF Grows
      <4> QED  BY <3>0, <4>1
    <3>2. seqs[i + 1] \in Seq(A)
      BY <3>0
    <3>3. CASE i = 0
      <4>0. g[i + 1] = IF i + 1 = 1 THEN seqs[i + 1] ELSE g[(i + 1) - 1] \o seqs[i + 1]
        BY <2>3, <3>0
      <4>1. g[i + 1] = seqs[i + 1]
        BY <3>3, <4>0
      <4>2. f[i + 1] = <<>> \o seqs[i + 1]
        BY <3>1, <3>3 DEF Grows
      <4>3. f[i + 1] = seqs[i + 1]
        BY <3>2, <4>2, ConcatEmptySeq
      <4> QED  BY <3>0, <4>1, <4>3
    <3>4. CASE i # 0
      <4>0. i + 1 # 1
        BY <3>4
      <4>1. g[i + 1] = g[(i + 1) - 1] \o seqs[i + 1]
        BY <2>3, <3>0, <4>0
      <4>2. g[i] = f[i]
        BY <2>5, <3>4
      <4>3. g[i + 1] = f[i + 1]
        BY <3>0, <3>1, <4>1, <4>2
      <4> QED  BY <3>0, <4>3
    <3> QED  BY <3>3, <3>4
  <2>6. \A i \in 0..n : i \in S
    <3> HIDE DEF S
    <3> QED  BY <2>4, <2>5, Induction
  <2> QED  BY <1>2, <2>n, <2>2, <2>6
<1> QED  BY <1>1, <1>2

LEMMA GrowsExists ==
  ASSUME NEW A, NEW seqs \in Seq(Seq(A))
  PROVE  \E f : Grows(f, seqs) /\ \A i \in 0..Len(seqs) : f[i] \in Seq(A)
<1>n. PICK n \in Nat : n = Len(seqs)
  OBVIOUS
<1>1. PICK g : IsFlat(g, seqs, n)
  BY FlatExists
<1>2. \A i \in 1..n : g[i] = IF i = 1 THEN seqs[i] ELSE g[i - 1] \o seqs[i]
  BY <1>1 DEF IsFlat
<1> DEFINE f == [i \in 0..n |-> IF i = 0 THEN <<>> ELSE g[i]]
<1>3. ASSUME NEW i \in 1..n
      PROVE  f[i] = f[i - 1] \o seqs[i] /\ seqs[i] \in Seq(A)
  <2>0. i - 1 \in 0..n /\ i \in 0..n /\ i # 0
    OBVIOUS
  <2>1. seqs[i] \in Seq(A)
    BY <1>n
  <2>2. CASE i = 1
    <3>1. f[i] = seqs[i]
      BY <1>2, <2>0, <2>2
    <3>2. f[i - 1] = <<>>
      BY <2>0, <2>2
    <3>3. <<>> \o seqs[i] = seqs[i]
      BY <2>1, ConcatEmptySeq
    <3> HIDE DEF f
    <3> QED  BY <2>1, <3>1, <3>2, <3>3
  <2>3. CASE i # 1
    <3>1. f[i] = g[i - 1] \o seqs[i]
      BY <1>2, <2>0, <2>3
    <3>2. f[i - 1] = g[i - 1]
      BY <2>0, <2>3
    <3> HIDE DEF f
    <3> QED  BY <2>1, <3>1, <3>2
  <2> QED  BY <2>2, <2>3
<1>4. f[0] = <<>>
  OBVIOUS
<1> HIDE DEF f
<1> DEFINE S == {i \in 0..n : f[i] \in Seq(A)}
<1>5. 0 \in S
  <2>1. <<>> \in Seq(A)
    OBVIOUS
  <2>2. 0 \in 0..n
    OBVIOUS
  <2>3. f[0] \in Seq(A)
    BY <1>4, <2>1
  <2> QED  BY <2>2, <2>3
<1>6. ASSUME NEW i \in 0..(n - 1), i \in S
      PROVE  i + 1 \in S
  <2>0. i + 1 \in 1..n /\ (i + 1) - 1 = i /\ i + 1 \in 0..n
    OBVIOUS
  <2>1. f[i + 1] = f[(i + 1) - 1] \o seqs[i + 1] /\ seqs[i + 1] \in Seq(A)
    BY <1>3, <2>0
  <2>2. f[i] \in Seq(A)
    BY <1>6
  <2>3. f[i] \o seqs[i + 1] \in Seq(A)
    BY <2>1, <2>2, ConcatProperties
  <2> QED  BY <2>0, <2>1, <2>3
<1>7. \A i \in 0..n : i \in S
  <2> HIDE DEF S
  <2> QED  BY <1>5, <1>6, Induction
<1> QED  BY <1>n, <1>3, <1>4, <1>7 DEF Grows

LEMMA FlattenAppend ==
  ASSUME NEW A, NEW seqs \in Seq(Seq(A)), NEW s \in Seq(A)
  PROVE  /\ FlattenSeq(seqs) \in Seq(A)
         /\ FlattenSeq(Append(seqs, s)) = FlattenSeq(seqs) \o s
<1>n. PICK n \in Nat : n = Len(seqs)
  OBVIOUS
<1>m. PICK more : more = Append(seqs, s)
  OBVIOUS
<1>1. PICK f : Grows(f, seqs) /\ \A i \in 0..Len(seqs) : f[i] \in Seq(A)
  BY GrowsExists
<1>2. FlattenSeq(seqs) = f[n]
  BY <1>n, <1>1, FlattenGrown
<1> DEFINE g == [i \in 0..(n + 1) |-> IF i <= n THEN f[i] ELSE f[n] \o s]
<1>3. /\ more \in Seq(Seq(A)) /\ Len(more) = n + 1 /\ more[n + 1] = s
      /\ \A i \in 1..n : more[i] = seqs[i]
  BY <1>n, <1>m
<1>4. Grows(g, more)
  <2>1. g[0] = <<>>
    BY <1>1 DEF Grows
  <2>2. ASSUME NEW i \in 1..(n + 1)
        PROVE  g[i] = g[i - 1] \o more[i]
    <3>0. i - 1 \in 0..(n + 1) /\ i \in 0..(n + 1) /\ i - 1 <= n
      OBVIOUS
    <3>1. g[i - 1] = f[i - 1]
      BY <3>0
    <3>2. CASE i <= n
      <4>0. i \in 1..Len(seqs)
        BY <1>n, <3>2
      <4>1. f[i] = f[i - 1] \o seqs[i]
        BY <1>1, <4>0 DEF Grows
      <4>2. g[i] = f[i] /\ more[i] = seqs[i]
        BY <1>3, <3>0, <3>2
      <4> HIDE DEF g
      <4> QED  BY <3>1, <4>1, <4>2
    <3>3. CASE i = n + 1
      <4>1. g[i] = f[n] \o s /\ more[i] = s /\ i - 1 = n
        BY <1>3, <3>0, <3>3
      <4> HIDE DEF g
      <4> QED  BY <3>1, <4>1
    <3>4. i <= n \/ i = n + 1
      OBVIOUS
    <3> HIDE DEF g
    <3> QED  BY <3>2, <3>3, <3>4, Zenon
  <2> HIDE DEF g
  <2> QED  BY <1>3, <2>1, <2>2 DEF Grows
<1>5. FlattenSeq(more) = g[n + 1]
  <2> HIDE DEF g
  <2> QED  BY <1>3, <1>4, FlattenGrown
<1>6. g[n + 1] = f[n] \o s
  OBVIOUS
<1> QED  BY <1>n, <1>m, <1>1, <1>2, <1>5, <1>6

LEMMA FlattenCons ==
  ASSUME NEW A, NEW s \in Seq(A), NEW seqs \in Seq(Seq(A))
  PROVE  FlattenSeq(<<s>> \o seqs) = s \o FlattenSeq(seqs)
<1>n. PICK n \in Nat : n = Len(seqs)
  OBVIOUS
<1>m. PICK more : more = <<s>> \o seqs
  OBVIOUS
<1>1. PICK f : Grows(f, seqs) /\ \A i \in 0..Len(seqs) : f[i] \in Seq(A)
  BY GrowsExists
<1>2. FlattenSeq(seqs) = f[n]
  BY <1>n, <1>1, FlattenGrown
<1> DEFINE g == [i \in 0..(n + 1) |-> IF i = 0 THEN <<>> ELSE s \o f[i - 1]]
<1>3. /\ more \in Seq(Seq(A)) /\ Len(more) = n + 1 /\ more[1] = s
      /\ \A i \in 1..n : more[i + 1] = seqs[i]
  BY <1>n, <1>m
<1>4. Grows(g, more)
  <2>1. g[0] = <<>>
    OBVIOUS
  <2>2. ASSUME NEW i \in 1..(n + 1)
        PROVE  g[i] = g[i - 1] \o more[i]
    <3>0. i - 1 \in 0..(n + 1) /\ i \in 0..(n + 1) /\ i # 0
      OBVIOUS
    <3>1. g[i] = s \o f[i - 1]
      BY <3>0
    <3>2. CASE i = 1
      <4>1. g[i - 1] = <<>> /\ f[i - 1] = <<>>
        BY <1>1, <3>0, <3>2 DEF Grows
      <4>2. s \o <<>> = s /\ <<>> \o s = s
        BY ConcatEmptySeq
      <4> HIDE DEF g
      <4> QED  BY <1>3, <3>1, <3>2, <4>1, <4>2
    <3>3. CASE i # 1
      <4> DEFINE j == i - 1
      <4>0. j \in 1..n /\ j - 1 \in 0..Len(seqs) /\ j \in 1..Len(seqs) /\ i = j + 1
        BY <1>n, <3>3
      <4> HIDE DEF j
      <4>1. more[i] = seqs[j] /\ seqs[j] \in Seq(A)
        BY <1>3, <4>0
      <4>2. f[j] = f[j - 1] \o seqs[j]
        BY <1>1, <4>0 DEF Grows
      <4>3. f[j - 1] \in Seq(A)
        BY <1>1, <4>0
      <4>4. g[j] = s \o f[j - 1]
        <5>1. j \in 0..(n + 1) /\ j # 0
          BY <4>0
        <5> QED  BY <5>1
      <4>5. g[i] = s \o f[j]
        BY <3>1 DEF j
      <4>6. s \o (f[j - 1] \o seqs[j]) = (s \o f[j - 1]) \o seqs[j]
        <5>1. PICK t \in Seq(A) : t = f[j - 1]
          BY <4>3
        <5>2. PICK u \in Seq(A) : u = seqs[j]
          BY <4>1
        <5>3. (s \o t) \o u = s \o (t \o u)
          BY ConcatAssociative, SMTT(30)
        <5> QED  BY <5>1, <5>2, <5>3
      <4>7. g[i - 1] = g[j]
        BY DEF j
      <4> HIDE DEF g
      <4> QED  BY <4>1, <4>2, <4>4, <4>5, <4>6, <4>7
    <3> QED  BY <3>2, <3>3
  <2> HIDE DEF g
  <2> QED  BY <1>3, <2>1, <2>2 DEF Grows
<1>5. FlattenSeq(more) = g[n + 1]
  <2> HIDE DEF g
  <2> QED  BY <1>3, <1>4, FlattenGrown
<1>6. g[n + 1] = s \o f[n]
  <2>1. n + 1 \in 0..(n + 1) /\ n + 1 # 0 /\ (n + 1) - 1 = n
    OBVIOUS
  <2> QED  BY <2>1
<1> QED  BY <1>m, <1>2, <1>5, <1>6

LEMMA FlattenNothing == FlattenSeq(<<>>) = <<>>
BY DEF FlattenSeq

-----------------------------------------------------------------------------
(* Streams and readers.                                                    *)

Kinds  == {"bool", "enum", "byte", "int", "long", "double"}
Field  == [width : Nat, count : Nat, value : Int]
Stream == Seq(Field)

IsReader(rd) ==
  rd \in [in : Stream, cachedBoolFlag : BOOLEAN, cachedBoolValue : BOOLEAN,
          value : {rd.value}, exit : Int]

\* Before `stream', with the cached boolean spent.
Ready(rd, stream) ==
  IsReader(rd) /\ Reading(rd) /\ ~rd.cachedBoolFlag /\ rd.in = stream

\* The reader has returned `value', and `rest' is left.
Gives(rd, rest, value) == Ready(rd, rest) /\ rd.value = value

\* The process has ended because of a null.
Refused(rd) == IsReader(rd) /\ rd.exit \in NullCodes

\* The runs of an object: the first tells the id, and booleans come one by one.
GoodRuns(runs) ==
  /\ runs \in Seq(Kinds \X Nat) /\ Len(runs) > 0
  /\ runs[1][1] # "bool"
  /\ \A i \in 1..Len(runs) : runs[i][1] = "bool" => runs[i][2] = 1

LEMMA Join ==
  ASSUME NEW a \in Stream, NEW b \in Stream
  PROVE  /\ a \o b \in Stream
         /\ \A c \in Stream : (a \o b) \o c = a \o (b \o c)
<1>1. a \o b \in Stream
  BY ConcatProperties DEF Stream
<1>2. ASSUME NEW c \in Stream PROVE (a \o b) \o c = a \o (b \o c)
  BY ConcatAssociative DEF Stream
<1> QED  BY <1>1, <1>2

LEMMA JoinType == \A a, b \in Stream : a \o b \in Stream
BY Join

LEMMA JoinTwice == \A a, b, c \in Stream : (a \o b) \o c = a \o (b \o c)
BY Join

LEMMA Nothing ==
  ASSUME NEW a \in Stream
  PROVE  <<>> \in Stream /\ <<>> \o a = a /\ a \o <<>> = a
BY ConcatEmptySeq DEF Stream

LEMMA First ==
  ASSUME NEW f \in Field, NEW rest \in Stream
  PROVE  /\ <<f>> \in Stream
         /\ <<f>> \o rest \in Stream
         /\ <<f>> \o rest # <<>>
         /\ Head(<<f>> \o rest) = f
         /\ Tail(<<f>> \o rest) = rest
BY DEF Stream

LEMMA FieldsType ==
  ASSUME NEW kind \in Kinds, NEW count \in Nat, NEW v \in Int
  PROVE  /\ [width |-> Width[kind], count |-> count, value |-> v] \in Field
         /\ Fields(kind, count, v) \in Stream
<1>1. Width[kind] \in Nat
  BY DEF Kinds, Width
<1>2. [width |-> Width[kind], count |-> count, value |-> v] \in Field
  BY <1>1 DEF Field
<1> QED  BY <1>2 DEF Fields, Stream

LEMMA FieldsWritten ==
  \A kind \in Kinds, count \in Nat, v \in Int : Fields(kind, count, v) \in Stream
BY FieldsType

LEMMA Returning ==
  ASSUME NEW rd, IsReader(rd), NEW v
  PROVE  /\ IsReader(Return(rd, v)) /\ Return(rd, v).exit = rd.exit
         /\ Return(rd, v).in = rd.in
         /\ Return(rd, v).cachedBoolFlag = rd.cachedBoolFlag
         /\ Return(rd, v).cachedBoolValue = rd.cachedBoolValue
         /\ Return(rd, v).value = IF Reading(rd) THEN v ELSE rd.value
BY DEF Return, IsReader, Reading

LEMMA ReturnGives ==
  ASSUME NEW rd, NEW rest, NEW u, Gives(rd, rest, u), NEW v
  PROVE  Gives(Return(rd, v), rest, v)
BY Returning DEF Gives, Ready, Reading

LEMMA ReturnStops ==
  ASSUME NEW rd, ~Reading(rd), NEW v
  PROVE  Return(rd, v) = rd
BY DEF Return

LEMMA Refusing ==
  ASSUME NEW rd, Refused(rd)
  PROVE  ~Reading(rd)
BY DEF Refused, NullCodes, Reading

LEMMA Exiting ==
  ASSUME NEW rd, IsReader(rd), NEW code \in Int
  PROVE  /\ IsReader(Exit(rd, code)) /\ Exit(rd, code).exit = code
         /\ code \in NullCodes => Refused(Exit(rd, code))
BY DEF Exit, IsReader, Refused

-----------------------------------------------------------------------------
(* A reader whose process has ended does nothing.                          *)

LEMMA StopFields ==
  ASSUME NEW rd, ~Reading(rd), NEW kind, NEW count
  PROVE  readFields(rd, kind, count) = rd
BY DEF readFields

LEMMA StopBoolean ==
  ASSUME NEW rd, ~Reading(rd)
  PROVE  readBoolean(rd) = rd
BY StopFields DEF readBoolean, Then

LEMMA StopString ==
  ASSUME NEW rd, ~Reading(rd)
  PROVE  readString(rd) = rd
BY StopFields DEF readString, readInt, Then

LEMMA StopPresent ==
  ASSUME NEW rd, ~Reading(rd), NEW code
  PROVE  readPresent(rd, code) = rd
BY StopBoolean DEF readPresent, Then

LEMMA StopRun ==
  ASSUME NEW rd, ~Reading(rd), NEW run
  PROVE  readRun(rd, run) = rd
BY StopFields, StopBoolean DEF readRun, Then

-----------------------------------------------------------------------------
(* The loop of readRuns().                                                 *)

\* The equation of its function.
IsRunTrace(f, rd, runs, n) ==
  f = [i \in 0..n |-> IF i = 0 THEN rd ELSE readRun(f[i - 1], runs[i])]

LEMMA RunTraceExists ==
  ASSUME NEW rd, NEW runs, NEW n \in Nat
  PROVE  \E f : IsRunTrace(f, rd, runs, n)
<1> DEFINE S == {k \in 0..n : \E f : IsRunTrace(f, rd, runs, k)}
<1>1. 0 \in S
  <2>1. IsRunTrace([i \in 0..0 |-> rd], rd, runs, 0)
    BY DEF IsRunTrace
  <2> QED  BY <2>1
<1>2. ASSUME NEW k \in 0..(n - 1), k \in S
      PROVE  k + 1 \in S
  <2>1. PICK f : IsRunTrace(f, rd, runs, k)
    BY <1>2
  <2> DEFINE g == [i \in 0..(k + 1) |-> IF i <= k THEN f[i] ELSE readRun(f[k], runs[i])]
  <2>2. \A i \in 0..k : f[i] = IF i = 0 THEN rd ELSE readRun(f[i - 1], runs[i])
    BY <2>1 DEF IsRunTrace
  <2>3. ASSUME NEW i \in 0..(k + 1)
        PROVE  g[i] = IF i = 0 THEN rd ELSE readRun(g[i - 1], runs[i])
    BY <2>2
  <2>4. IsRunTrace(g, rd, runs, k + 1)
    BY <2>3, Zenon DEF IsRunTrace
  <2> QED  BY <2>4
<1> HIDE DEF S
<1>3. n \in S
  BY <1>1, <1>2, Induction
<1> QED  BY <1>3 DEF S

\* The reader after each run.
LEMMA RunTrace ==
  ASSUME NEW rd, NEW runs \in Seq(Kinds \X Nat)
  PROVE  \E f : /\ f[0] = rd
                /\ \A i \in 0..(Len(runs) - 1) : f[i + 1] = readRun(f[i], runs[i + 1])
                /\ readRuns(rd, runs) = f[Len(runs)]
<1> DEFINE f == CHOOSE f : IsRunTrace(f, rd, runs, Len(runs))
<1>1. IsRunTrace(f, rd, runs, Len(runs))
  <2>1. Len(runs) \in Nat
    OBVIOUS
  <2>2. \E g : IsRunTrace(g, rd, runs, Len(runs))
    BY <2>1, RunTraceExists
  <2> QED  BY <2>2, Zenon
<1>2. readRuns(rd, runs) = f[Len(runs)]
  BY DEF readRuns, IsRunTrace
<1> HIDE DEF f
<1>3. /\ f[0] = rd
      /\ \A i \in 1..Len(runs) : f[i] = readRun(f[i - 1], runs[i])
  BY <1>1, SMTT(30) DEF IsRunTrace
<1>4. ASSUME NEW i \in 0..(Len(runs) - 1) PROVE f[i + 1] = readRun(f[i], runs[i + 1])
  <2>1. i + 1 \in 1..Len(runs) /\ (i + 1) - 1 = i
    OBVIOUS
  <2> QED  BY <1>3, <2>1
<1> QED  BY <1>2, <1>3, <1>4

LEMMA StopRuns ==
  ASSUME NEW rd, ~Reading(rd), NEW runs \in Seq(Kinds \X Nat)
  PROVE  readRuns(rd, runs) = rd
<1>n. PICK n \in Nat : n = Len(runs)
  OBVIOUS
<1>1. PICK f : /\ f[0] = rd
               /\ \A i \in 0..(Len(runs) - 1) : f[i + 1] = readRun(f[i], runs[i + 1])
               /\ readRuns(rd, runs) = f[Len(runs)]
  BY RunTrace
<1> DEFINE S == {i \in 0..n : f[i] = rd}
<1>2. 0 \in S
  BY <1>1
<1>3. ASSUME NEW i \in 0..(n - 1), i \in S PROVE i + 1 \in S
  BY <1>n, <1>1, <1>3, StopRun
<1>4. \A i \in 0..n : i \in S
  <2> HIDE DEF S
  <2> QED  BY <1>2, <1>3, Induction
<1> QED  BY <1>n, <1>1, <1>4

-----------------------------------------------------------------------------
(* Reading what was written: fields, texts, runs and flags.                *)

LEMMA ReadFields ==
  ASSUME NEW rd, NEW kind \in Kinds, NEW count \in Nat, NEW v \in Int,
         NEW rest \in Stream, Ready(rd, Fields(kind, count, v) \o rest)
  PROVE  Gives(readFields(rd, kind, count), rest, v)
<1> DEFINE f == [width |-> Width[kind], count |-> count, value |-> v]
<1>1. f \in Field /\ Fields(kind, count, v) = <<f>>
  BY FieldsType DEF Fields
<1>2. Head(rd.in) = f /\ Tail(rd.in) = rest /\ rd.in # <<>>
  BY <1>1, First DEF Ready
<1>3. readFields(rd, kind, count) = [rd EXCEPT !.in = rest, !.value = v]
  <2>1. ~(~Reading(rd)) /\ rd.in # <<>>
    BY <1>2 DEF Ready
  <2>2. Head(rd.in).width = Width[kind] /\ Head(rd.in).count = count /\ Head(rd.in).value = v
    BY <1>2
  <2>3. readFields(rd, kind, count) = [rd EXCEPT !.in = Tail(@), !.value = Head(rd.in).value]
    BY <2>1, <2>2 DEF readFields
  <2> QED  BY <1>2, <2>2, <2>3
<1> QED  BY <1>3 DEF Gives, Ready, IsReader, Reading

LEMMA ReadInt ==
  ASSUME NEW rd, NEW v \in Int, NEW rest \in Stream, Ready(rd, writeInt(v) \o rest)
  PROVE  Gives(readInt(rd), rest, v)
BY ReadFields DEF readInt, writeInt, Kinds

LEMMA ReadEnum ==
  ASSUME NEW rd, NEW v \in Int, NEW rest \in Stream, Ready(rd, writeEnum(v) \o rest)
  PROVE  Gives(readEnum(rd), rest, v)
BY ReadFields DEF readEnum, writeEnum, Kinds

LEMMA ReadFlag ==
  ASSUME NEW rd, NEW v \in Int, NEW rest \in Stream,
         Ready(rd, Fields("bool", 1, v) \o rest)
  PROVE  Gives(readBoolean(rd), rest, v # 0)
<1>1. Gives(readFields(rd, "bool", 1), rest, v)
  BY ReadFields DEF Kinds
<1>2. readBoolean(rd) = Return(readFields(rd, "bool", 1), readFields(rd, "bool", 1).value # 0)
  BY <1>1 DEF readBoolean, Then, Ready, Gives
<1>3. (readFields(rd, "bool", 1).value # 0) = (v # 0)
  BY <1>1 DEF Gives
<1> QED  BY <1>1, <1>2, <1>3, ReturnGives

LEMMA ReadBoolean ==
  ASSUME NEW rd, NEW b \in BOOLEAN, NEW rest \in Stream, Ready(rd, writeBoolean(b) \o rest)
  PROVE  Gives(readBoolean(rd), rest, b)
<1> DEFINE v == IF b THEN 1 ELSE 0
<1>1. v \in Int /\ (v # 0) = b
  OBVIOUS
<1>2. Ready(rd, Fields("bool", 1, v) \o rest)
  BY DEF writeBoolean
<1> QED  BY <1>1, <1>2, ReadFlag

\* The cached value answers.
LEMMA ReadCached ==
  ASSUME NEW rd, IsReader(rd), Reading(rd), rd.cachedBoolFlag, rd.cachedBoolValue
  PROVE  Gives(readBoolean(rd), rd.in, TRUE)
<1>1. readBoolean(rd) = [rd EXCEPT !.cachedBoolFlag = FALSE, !.value = rd.cachedBoolValue]
  BY DEF readBoolean
<1>2. rd.cachedBoolValue = TRUE
  BY DEF IsReader
<1> QED  BY <1>1, <1>2 DEF Gives, Ready, Reading, IsReader

LEMMA WritersType ==
  /\ \A b \in BOOLEAN : writeBoolean(b) \in Stream
  /\ \A v \in Int : writeInt(v) \in Stream /\ writeEnum(v) \in Stream
  /\ \A n \in Nat \cup {Null} : writeString(n) \in Stream
<1>1. \A b \in BOOLEAN : writeBoolean(b) \in Stream
  <2>1. "bool" \in Kinds
    BY DEF Kinds
  <2>2. Fields("bool", 1, 1) \in Stream /\ Fields("bool", 1, 0) \in Stream
    BY <2>1, FieldsWritten
  <2> QED  BY <2>2 DEF writeBoolean
<1>2. \A v \in Int : writeInt(v) \in Stream /\ writeEnum(v) \in Stream
  BY FieldsType DEF writeInt, writeEnum, Kinds
<1>3. ASSUME NEW n \in Nat \cup {Null} PROVE writeString(n) \in Stream
  <2>1. CASE n = Null
    BY <1>2, <2>1 DEF writeString
  <2>2. CASE n # Null
    <3>0. n \in Nat /\ "byte" \in Kinds
      BY <2>2 DEF Kinds
    <3>1. writeInt(n) \in Stream /\ Fields("byte", n, n) \in Stream
      <4>1. Fields("byte", n, n) \in Stream
        BY <3>0, FieldsWritten
      <4> QED  BY <1>2, <3>0, <4>1
    <3>2. writeInt(n) \o Fields("byte", n, n) \in Stream
      BY <3>1, Join
    <3> QED  BY <2>2, <3>1, <3>2 DEF writeString
  <2> QED  BY <2>1, <2>2
<1> QED  BY <1>1, <1>2, <1>3

LEMMA ReadString ==
  ASSUME NEW rd, NEW name \in Nat \cup {Null}, NEW rest \in Stream,
         Ready(rd, writeString(name) \o rest)
  PROVE  IF name # Null THEN Gives(readString(rd), rest, name)
         ELSE Refused(readString(rd))
<1>1. CASE name = Null
  <2>0. writeString(name) = writeInt(-1)
    BY <1>1, NullAssumption DEF writeString
  <2>1. Gives(readInt(rd), rest, -1)
    BY <2>0, ReadInt
  <2>2. readString(rd) = Exit(readInt(rd), 10014)
    BY <2>1, Exiting, Refusing DEF readString, Then, Require, Gives, Ready,
                                NullCodes, Reading, Refused
  <2> QED  BY <1>1, <2>1, <2>2, Exiting DEF Gives, Ready, NullCodes
<1>2. CASE name = 0 /\ name # Null
  <2>1. Gives(readInt(rd), rest, 0)
    BY <1>2, ReadInt DEF writeString
  <2>2. readString(rd) = readInt(rd)
    BY <2>1 DEF readString, Then, Require, Gives, Ready
  <2> QED  BY <1>2, <2>1, <2>2
<1>3. CASE name # 0 /\ name # Null
  <2>0. name \in Nat /\ "byte" \in Kinds
    BY <1>3 DEF Kinds
  <2>1. Fields("byte", name, name) \in Stream /\ writeInt(name) \in Stream
    <3>1. Fields("byte", name, name) \in Stream
      BY <2>0, FieldsWritten
    <3> QED  BY <2>0, <3>1, WritersType
  <2>2. Fields("byte", name, name) \o rest \in Stream
    BY <2>1, Join
  <2>3. writeString(name) \o rest = writeInt(name) \o (Fields("byte", name, name) \o rest)
    BY <1>3, <2>1, Join DEF writeString
  <2>4. Gives(readInt(rd), Fields("byte", name, name) \o rest, name)
    BY <2>0, <2>2, <2>3, ReadInt
  <2>5. readString(rd) = readFields(readInt(rd), "byte", name)
    BY <1>3, <2>0, <2>4 DEF readString, Then, Require, Gives, Ready
  <2>6. Gives(readString(rd), rest, name)
    BY <2>0, <2>4, <2>5, ReadFields DEF Gives
  <2> QED  BY <1>3, <2>6
<1> QED  BY <1>1, <1>2, <1>3

LEMMA PresentYes ==
  ASSUME NEW rd, NEW rest \in Stream, NEW code, Ready(rd, writeBoolean(TRUE) \o rest)
  PROVE  Gives(readPresent(rd, code), rest, TRUE)
<1>1. Gives(readBoolean(rd), rest, TRUE)
  BY ReadBoolean
<1>2. readPresent(rd, code) = readBoolean(rd)
  BY <1>1 DEF readPresent, Then, Require, Gives, Ready
<1> QED  BY <1>1, <1>2

LEMMA PresentNo ==
  ASSUME NEW rd, NEW rest \in Stream, NEW code \in NullCodes,
         Ready(rd, writeBoolean(FALSE) \o rest)
  PROVE  Refused(readPresent(rd, code)) /\ readPresent(rd, code).exit = code
<1>1. Gives(readBoolean(rd), rest, FALSE)
  BY ReadBoolean
<1>2. readPresent(rd, code) = Exit(readBoolean(rd), code)
  BY <1>1 DEF readPresent, Then, Require, Gives, Ready
<1>3. code \in Int
  BY DEF NullCodes
<1> QED  BY <1>1, <1>2, <1>3, Exiting DEF Gives, Ready

-----------------------------------------------------------------------------

LEMMA RunsType ==
  ASSUME NEW id \in Int, NEW runs \in Seq(Kinds \X Nat)
  PROVE  /\ writeRuns(id, runs) \in Stream /\ Len(writeRuns(id, runs)) = Len(runs)
         /\ \A i \in 1..Len(runs) :
              <<writeRuns(id, runs)[i]>> = Fields(runs[i][1], runs[i][2], id)
<1>1. ASSUME NEW i \in 1..Len(runs)
      PROVE  /\ [width |-> Width[runs[i][1]], count |-> runs[i][2], value |-> id] \in Field
             /\ runs[i][1] \in Kinds /\ runs[i][2] \in Nat
  BY FieldsType
<1>2. writeRuns(id, runs) \in Stream
  BY <1>1 DEF writeRuns, Stream
<1> QED  BY <1>2 DEF writeRuns, Stream, Fields

\* Every run gives the id.
LEMMA ReadRun ==
  ASSUME NEW rd, NEW kind \in Kinds, NEW count \in Nat, NEW id \in Int,
         NEW rest \in Stream, Ready(rd, Fields(kind, count, id) \o rest),
         kind = "bool" => count = 1 /\ rd.value = id
  PROVE  Gives(readRun(rd, <<kind, count>>), rest, id)
<1>1. CASE kind # "bool"
  <2>1. readRun(rd, <<kind, count>>) = readFields(rd, kind, count)
    BY <1>1 DEF readRun
  <2> QED  BY <2>1, ReadFields
<1>2. CASE kind = "bool"
  <2>1. Gives(readBoolean(rd), rest, id # 0)
    BY <1>2, ReadFlag
  <2>2. readRun(rd, <<kind, count>>) = Return(readBoolean(rd), id)
    BY <1>2, <2>1 DEF readRun, Then, Gives, Ready
  <2> QED  BY <2>1, <2>2, ReturnGives
<1> QED  BY <1>1, <1>2

LEMMA ReadRuns ==
  ASSUME NEW rd, NEW id \in Int, NEW runs, GoodRuns(runs), NEW rest \in Stream,
         Ready(rd, writeRuns(id, runs) \o rest)
  PROVE  Gives(readRuns(rd, runs), rest, id)
<1>n. PICK n \in Nat : n = Len(runs) /\ n > 0
  BY DEF GoodRuns
<1>w. PICK w \in Stream : w = writeRuns(id, runs)
  BY RunsType DEF GoodRuns
<1>0. /\ runs \in Seq(Kinds \X Nat) /\ Len(w) = n
      /\ \A i \in 1..n : <<w[i]>> = Fields(runs[i][1], runs[i][2], id)
  BY <1>n, <1>w, RunsType DEF GoodRuns
<1>1. PICK f : /\ f[0] = rd
               /\ \A i \in 0..(Len(runs) - 1) : f[i + 1] = readRun(f[i], runs[i + 1])
               /\ readRuns(rd, runs) = f[Len(runs)]
  BY <1>0, RunTrace
<1> DEFINE P(i) == /\ Ready(f[i], SubSeq(w, i + 1, n) \o rest)
                   /\ i > 0 => f[i].value = id
           S == {i \in 0..n : P(i)}
<1>2. 0 \in S
  <2>1. SubSeq(w, 0 + 1, n) = w
    BY <1>0 DEF Stream
  <2>2. Ready(f[0], SubSeq(w, 0 + 1, n) \o rest)
    BY <1>1, <1>w, <2>1
  <2> QED  BY <2>2
<1>3. ASSUME NEW i \in 0..(n - 1), P(i) PROVE P(i + 1)
  <2>0. i + 1 \in 1..n /\ i + 1 > 0 /\ i \in 0..(Len(runs) - 1)
    BY <1>n
  <2>k. PICK kind \in Kinds, count \in Nat :
              runs[i + 1] = <<kind, count>> /\ (kind = "bool" => count = 1 /\ i > 0)
    <3>1. runs[i + 1] \in Kinds \X Nat
      BY <1>n, <1>0, <2>0
    <3>2. runs[i + 1][1] = "bool" => runs[i + 1][2] = 1 /\ i > 0
      BY <1>n, <2>0 DEF GoodRuns
    <3> QED  BY <3>1, <3>2
  <2> DEFINE tail == SubSeq(w, (i + 1) + 1, n)
  <2>1. SubSeq(w, i + 1, n) = <<w[i + 1]>> \o tail /\ tail \in Stream
    BY <1>0, <2>0, SubSeqRecursiveFirst, SubSeqProperties DEF Stream
  <2>2. <<w[i + 1]>> = Fields(kind, count, id)
    BY <1>0, <2>0, <2>k
  <2>3. Fields(kind, count, id) \in Stream
    BY FieldsType
  <2> HIDE DEF tail
  <2>4. (Fields(kind, count, id) \o tail) \o rest = Fields(kind, count, id) \o (tail \o rest)
    BY <2>1, <2>3, Join
  <2>5. tail \o rest \in Stream
    BY <2>1, Join
  <2>6. Ready(f[i], Fields(kind, count, id) \o (tail \o rest))
    BY <1>3, <2>1, <2>2, <2>4
  <2>7. Gives(readRun(f[i], <<kind, count>>), tail \o rest, id)
    BY <1>3, <2>k, <2>5, <2>6, ReadRun
  <2>8. f[i + 1] = readRun(f[i], <<kind, count>>)
    BY <1>1, <2>0, <2>k
  <2> QED  BY <2>7, <2>8 DEF Gives, tail
<1>4. \A i \in 0..n : i \in S
  <2>1. \A i \in 0..(n - 1) : i \in S => i + 1 \in S
    BY <1>3
  <2> HIDE DEF S
  <2> QED  BY <1>2, <2>1, Induction
<1>5. P(n)
  BY <1>4
<1>6. SubSeq(w, n + 1, n) = <<>> /\ <<>> \o rest = rest
  BY <1>0, Nothing DEF Stream
<1> QED  BY <1>n, <1>1, <1>5, <1>6 DEF Gives

-----------------------------------------------------------------------------
(* Reading objects.                                                        *)

\* What a reader does where `writer' put x: x if nothing is wrong with it.
Reads(r, rest, x, sound) == IF sound THEN Gives(r, rest, x) ELSE Refused(r)

GameRuns == << <<"long", 1>>, <<"int", 1>>, <<"double", 9>>, <<"int", 6>>,
               <<"double", 3>>, <<"int", 1>>, <<"double", 6>>, <<"int", 1>>,
               <<"double", 26>>, <<"int", 14>>, <<"double", 2>> >>
HockeyistRuns == << <<"long", 2>>, <<"int", 1>>, <<"double", 8>>, <<"bool", 1>>,
                    <<"enum", 1>>, <<"int", 4>>, <<"double", 1>>, <<"enum", 1>>,
                    <<"int", 4>>, <<"enum", 1>> >>
PlayerRuns == << <<"long", 1>>, <<"bool", 1>> >>
PlayerRest == << <<"int", 1>>, <<"bool", 1>>, <<"double", 6>>, <<"bool", 1>>, <<"bool", 1>> >>
MoveRuns   == << <<"double", 2>> >>
PuckRuns   == << <<"long", 1>>, <<"double", 6>>, <<"long", 2>> >>
WorldRuns  == << <<"int", 2>>, <<"double", 2>> >>

GameCode      == 20001
HockeyistCode == 20003
PlayerCode    == 20007
MoveCode      == 20005
PuckCode      == 20011
WorldCode     == 20013
ContextCode   == 20009
HockeyistsCode == 20004
PlayersCode   == 20008
NoName        == 10014

LEMMA CodesOfNull ==
  {GameCode, HockeyistCode, PlayerCode, PuckCode, WorldCode, ContextCode,
   HockeyistsCode, PlayersCode, NoName} \subseteq NullCodes
BY DEF NullCodes, GameCode, HockeyistCode, PlayerCode, PuckCode, WorldCode, ContextCode,
       HockeyistsCode, PlayersCode, NoName

LEMMA LiteralRuns ==
  /\ GoodRuns(GameRuns) /\ GoodRuns(HockeyistRuns)
  /\ GoodRuns(PlayerRuns) /\ GoodRuns(PlayerRest)
  /\ GoodRuns(MoveRuns) /\ GoodRuns(PuckRuns) /\ GoodRuns(WorldRuns)
<1>1. GoodRuns(GameRuns)
  BY DEF GoodRuns, Kinds, GameRuns
<1>2. GoodRuns(HockeyistRuns)
  BY DEF GoodRuns, Kinds, HockeyistRuns
<1>3. GoodRuns(PlayerRuns) /\ GoodRuns(PlayerRest)
  BY DEF GoodRuns, Kinds, PlayerRuns, PlayerRest
<1>4. GoodRuns(MoveRuns)
  BY DEF GoodRuns, Kinds, MoveRuns
<1>5. GoodRuns(PuckRuns)
  BY DEF GoodRuns, Kinds, PuckRuns
<1>6. GoodRuns(WorldRuns)
  BY DEF GoodRuns, Kinds, WorldRuns
<1> QED  BY <1>1, <1>2, <1>3, <1>4, <1>5, <1>6

\* The stream of good runs.
LEMMA RunsWritten ==
  ASSUME NEW id \in Int, NEW runs, GoodRuns(runs)
  PROVE  writeRuns(id, runs) \in Stream
BY RunsType DEF GoodRuns

LEMMA StopGoodRuns ==
  ASSUME NEW rd, ~Reading(rd), NEW runs, GoodRuns(runs)
  PROVE  readRuns(rd, runs) = rd
BY StopRuns DEF GoodRuns

\* The flag and the first runs of an object.
LEMMA ReadHead ==
  ASSUME NEW rd, NEW id \in Int, NEW runs, GoodRuns(runs), NEW fields \in Stream,
         NEW rest \in Stream, NEW code,
         Ready(rd, (writeBoolean(TRUE) \o (writeRuns(id, runs) \o fields)) \o rest)
  PROVE  Gives(readRuns(readPresent(rd, code), runs), fields \o rest, id)
<1>1. writeBoolean(TRUE) \in Stream /\ writeRuns(id, runs) \in Stream
  BY WritersType, RunsWritten
<1>2. writeRuns(id, runs) \o fields \in Stream /\ fields \o rest \in Stream
  BY <1>1, JoinType, Zenon
<1>3. /\ (writeRuns(id, runs) \o fields) \o rest = writeRuns(id, runs) \o (fields \o rest)
      /\ writeRuns(id, runs) \o (fields \o rest) \in Stream
  <2>a. \A a \in Stream : (a \o fields) \o rest = a \o (fields \o rest)
    BY JoinTwice, Zenon
  <2>1. (writeRuns(id, runs) \o fields) \o rest = writeRuns(id, runs) \o (fields \o rest)
    BY <1>1, <2>a, Zenon
  <2>2. writeRuns(id, runs) \o (fields \o rest) \in Stream
    BY <1>1, <1>2, JoinType, Zenon
  <2> QED  BY <2>1, <2>2
<1>4. rd.in = writeBoolean(TRUE) \o ((writeRuns(id, runs) \o fields) \o rest)
  <2>1. \A a, b \in Stream : (a \o b) \o rest = a \o (b \o rest)
    BY JoinTwice
  <2>2. (writeBoolean(TRUE) \o (writeRuns(id, runs) \o fields)) \o rest
          = writeBoolean(TRUE) \o ((writeRuns(id, runs) \o fields) \o rest)
    BY <1>1, <1>2, <2>1, Zenon
  <2> QED  BY <2>2 DEF Ready
<1>5. Ready(rd, writeBoolean(TRUE) \o (writeRuns(id, runs) \o (fields \o rest)))
  BY <1>3, <1>4 DEF Ready
<1>6. Ready(readPresent(rd, code), writeRuns(id, runs) \o (fields \o rest))
  BY <1>3, <1>5, PresentYes DEF Gives
<1> QED  BY <1>2, <1>6, ReadRuns

\* The flag of a null.
LEMMA ReadNull ==
  ASSUME NEW rd, NEW runs, GoodRuns(runs), NEW rest \in Stream, NEW code \in NullCodes,
         Ready(rd, writeBoolean(FALSE) \o rest)
  PROVE  Refused(readRuns(readPresent(rd, code), runs))
<1>1. Refused(readPresent(rd, code))
  BY PresentNo
<1>2. ~Reading(readPresent(rd, code))
  BY <1>1, Refusing
<1> QED  BY <1>1, <1>2, StopGoodRuns

\* The head of an object with no further fields.
LEMMA ReadOnlyHead ==
  ASSUME NEW rd, NEW id \in Int, NEW runs, GoodRuns(runs),
         NEW rest \in Stream, NEW code,
         Ready(rd, (writeBoolean(TRUE) \o writeRuns(id, runs)) \o rest)
  PROVE  Gives(readRuns(readPresent(rd, code), runs), rest, id)
<1>1. writeRuns(id, runs) \o <<>> = writeRuns(id, runs) /\ <<>> \in Stream /\ <<>> \o rest = rest
  BY RunsWritten, Nothing
<1>2. Ready(rd, (writeBoolean(TRUE) \o (writeRuns(id, runs) \o <<>>)) \o rest)
  BY <1>1
<1>3. Gives(readRuns(readPresent(rd, code), runs), <<>> \o rest, id)
  BY <1>1, <1>2, ReadHead
<1> QED  BY <1>1, <1>3

(* Game and puck.                                                          *)

LEMMA GameWritten ==
  /\ writeGame(Null) = writeBoolean(FALSE)
  /\ \A g \in Game : writeGame(g) = writeBoolean(TRUE) \o writeRuns(g.id, GameRuns)
  /\ \A g \in Game \cup {Null} : writeGame(g) \in Stream
<1>1. writeGame(Null) = writeBoolean(FALSE)
  BY DEF writeGame, writeObject
<1>2. ASSUME NEW g \in Game
      PROVE  /\ writeGame(g) = writeBoolean(TRUE) \o writeRuns(g.id, GameRuns)
             /\ writeGame(g) \in Stream
  <2>1. writeGame(g) = writeBoolean(TRUE) \o writeRuns(g.id, GameRuns)
    BY NullAssumption DEF writeGame, writeObject, GameRuns
  <2>2. writeBoolean(TRUE) \in Stream /\ writeRuns(g.id, GameRuns) \in Stream
    BY WritersType, RunsWritten, LiteralRuns DEF Game
  <2> QED  BY <2>1, <2>2, Join
<1> QED  BY <1>1, <1>2, WritersType

LEMMA GameRead ==
  \A rd : readGame(rd) = Return(readRuns(readPresent(rd, GameCode), GameRuns),
                                [id |-> readRuns(readPresent(rd, GameCode), GameRuns).value])
BY DEF readGame, Then, Return, GameRuns, GameCode

LEMMA ReadGame ==
  ASSUME NEW rd, NEW game \in Game \cup {Null}, NEW rest \in Stream,
         Ready(rd, writeGame(game) \o rest)
  PROVE  Reads(readGame(rd), rest, game, game # Null)
<1> DEFINE id == readRuns(readPresent(rd, GameCode), GameRuns)
<1>1. CASE game = Null
  <2>1. Ready(rd, writeBoolean(FALSE) \o rest) /\ GameCode \in NullCodes /\ GoodRuns(GameRuns)
    BY <1>1, GameWritten, LiteralRuns, CodesOfNull
  <2>2. Refused(id)
    BY <2>1, ReadNull
  <2>3. readGame(rd) = Return(id, [id |-> id.value])
    BY GameRead
  <2> HIDE DEF id
  <2>4. ~Reading(id)
    BY <2>2, Refusing
  <2> QED  BY <1>1, <2>2, <2>3, <2>4, ReturnStops DEF Reads
<1>2. CASE game # Null
  <2>1. game \in Game /\ game.id \in Int /\ [id |-> game.id] = game
    BY <1>2 DEF Game
  <2>2. Gives(id, rest, game.id)
    <3>1. /\ Ready(rd, (writeBoolean(TRUE) \o writeRuns(game.id, GameRuns)) \o rest)
          /\ GoodRuns(GameRuns)
      BY <2>1, GameWritten, LiteralRuns
    <3> QED  BY <2>1, <3>1, ReadOnlyHead
  <2>3. readGame(rd) = Return(id, game)
    BY <2>1, <2>2, GameRead DEF Gives
  <2> QED  BY <1>2, <2>2, <2>3, ReturnGives DEF Reads
<1> QED  BY <1>1, <1>2

LEMMA PuckWritten ==
  /\ writePuck(Null) = writeBoolean(FALSE)
  /\ \A p \in Puck : writePuck(p) = writeBoolean(TRUE) \o writeRuns(p.id, PuckRuns)
  /\ \A p \in Puck \cup {Null} : writePuck(p) \in Stream
<1>1. writePuck(Null) = writeBoolean(FALSE)
  BY DEF writePuck, writeObject
<1>2. ASSUME NEW p \in Puck
      PROVE  /\ writePuck(p) = writeBoolean(TRUE) \o writeRuns(p.id, PuckRuns)
             /\ writePuck(p) \in Stream
  <2>1. writePuck(p) = writeBoolean(TRUE) \o writeRuns(p.id, PuckRuns)
    BY NullAssumption DEF writePuck, writeObject, PuckRuns
  <2>2. writeBoolean(TRUE) \in Stream /\ writeRuns(p.id, PuckRuns) \in Stream
    BY WritersType, RunsWritten, LiteralRuns DEF Puck
  <2> QED  BY <2>1, <2>2, Join
<1> QED  BY <1>1, <1>2, WritersType

LEMMA PuckRead ==
  \A rd : readPuck(rd) = Return(readRuns(readPresent(rd, PuckCode), PuckRuns),
                                [id |-> readRuns(readPresent(rd, PuckCode), PuckRuns).value])
BY DEF readPuck, Then, Return, PuckRuns, PuckCode

LEMMA ReadPuck ==
  ASSUME NEW rd, NEW puck \in Puck \cup {Null}, NEW rest \in Stream,
         Ready(rd, writePuck(puck) \o rest)
  PROVE  Reads(readPuck(rd), rest, puck, puck # Null)
<1> DEFINE id == readRuns(readPresent(rd, PuckCode), PuckRuns)
<1>1. CASE puck = Null
  <2>1. Ready(rd, writeBoolean(FALSE) \o rest) /\ PuckCode \in NullCodes /\ GoodRuns(PuckRuns)
    BY <1>1, PuckWritten, LiteralRuns, CodesOfNull
  <2>2. Refused(id)
    BY <2>1, ReadNull
  <2>3. readPuck(rd) = Return(id, [id |-> id.value])
    BY PuckRead
  <2> HIDE DEF id
  <2>4. ~Reading(id)
    BY <2>2, Refusing
  <2> QED  BY <1>1, <2>2, <2>3, <2>4, ReturnStops DEF Reads
<1>2. CASE puck # Null
  <2>1. puck \in Puck /\ puck.id \in Int /\ [id |-> puck.id] = puck
    BY <1>2 DEF Puck
  <2>2. Gives(id, rest, puck.id)
    <3>1. /\ Ready(rd, (writeBoolean(TRUE) \o writeRuns(puck.id, PuckRuns)) \o rest)
          /\ GoodRuns(PuckRuns)
      BY <2>1, PuckWritten, LiteralRuns
    <3> QED  BY <2>1, <3>1, ReadOnlyHead
  <2>3. readPuck(rd) = Return(id, puck)
    BY <2>1, <2>2, PuckRead DEF Gives
  <2> QED  BY <1>2, <2>2, <2>3, ReturnGives DEF Reads
<1> QED  BY <1>1, <1>2

(* Hockeyists.                                                             *)

TickOf(h) ==
  IF h.lastActionTick = -1 THEN writeBoolean(FALSE)
  ELSE writeBoolean(TRUE) \o writeInt(h.lastActionTick)

LEMMA TickType == \A h \in Hockeyist : TickOf(h) \in Stream
<1> SUFFICES ASSUME NEW h \in Hockeyist PROVE TickOf(h) \in Stream
  OBVIOUS
<1>1. h.lastActionTick \in Int
  BY DEF Hockeyist
<1>2. writeBoolean(TRUE) \in Stream /\ writeBoolean(FALSE) \in Stream
      /\ writeInt(h.lastActionTick) \in Stream
  BY <1>1, WritersType
<1> QED  BY <1>2, Join DEF TickOf

LEMMA HockeyistWritten ==
  /\ writeHockeyist(Null) = writeBoolean(FALSE)
  /\ \A h \in Hockeyist : writeHockeyist(h) =
       writeBoolean(TRUE) \o (writeRuns(h.id, HockeyistRuns) \o TickOf(h))
  /\ \A h \in Hockeyist \cup {Null} : writeHockeyist(h) \in Stream
<1>1. writeHockeyist(Null) = writeBoolean(FALSE)
  BY DEF writeHockeyist, writeObject
<1>2. ASSUME NEW h \in Hockeyist
      PROVE  /\ writeHockeyist(h) =
                  writeBoolean(TRUE) \o (writeRuns(h.id, HockeyistRuns) \o TickOf(h))
             /\ writeHockeyist(h) \in Stream
  <2>1. writeHockeyist(h) =
          writeBoolean(TRUE) \o (writeRuns(h.id, HockeyistRuns) \o TickOf(h))
    BY NullAssumption DEF writeHockeyist, writeObject, HockeyistRuns, TickOf
  <2>2. writeBoolean(TRUE) \in Stream /\ writeRuns(h.id, HockeyistRuns) \in Stream
    BY WritersType, RunsWritten, LiteralRuns DEF Hockeyist
  <2>3. TickOf(h) \in Stream
    BY TickType
  <2> QED  BY <2>1, <2>2, <2>3, JoinType, Zenon
<1> QED  BY <1>1, <1>2, WritersType

LEMMA HockeyistRead ==
  ASSUME NEW rd, NEW id, NEW acted, NEW tick,
         id = readRuns(readPresent(rd, HockeyistCode), HockeyistRuns),
         acted = readBoolean(id),
         tick = IF acted.value THEN readInt(acted) ELSE Return(acted, -1)
  PROVE  readHockeyist(rd) =
           IF Reading(acted)
           THEN Return(tick, [id |-> id.value, lastActionTick |-> tick.value])
           ELSE acted
<1>1. readHockeyist(rd) =
        IF Reading(id)
        THEN IF Reading(acted)
             THEN Return(tick, [id |-> id.value, lastActionTick |-> tick.value])
             ELSE acted
        ELSE id
  BY DEF readHockeyist, Then, Return, HockeyistRuns, HockeyistCode
<1> QED  BY <1>1, StopBoolean

LEMMA ReadHockeyist ==
  ASSUME NEW rd, NEW h \in Hockeyist \cup {Null}, NEW rest \in Stream,
         Ready(rd, writeHockeyist(h) \o rest)
  PROVE  Reads(readHockeyist(rd), rest, h, h # Null)
<1>i. PICK id : id = readRuns(readPresent(rd, HockeyistCode), HockeyistRuns)
  OBVIOUS
<1>a. PICK acted : acted = readBoolean(id)
  OBVIOUS
<1>t. PICK tick : tick = IF acted.value THEN readInt(acted) ELSE Return(acted, -1)
  OBVIOUS
<1>0. readHockeyist(rd) =
        IF Reading(acted)
        THEN Return(tick, [id |-> id.value, lastActionTick |-> tick.value])
        ELSE acted
  BY <1>i, <1>a, <1>t, HockeyistRead
<1>1. CASE h = Null
  <2>1. /\ Ready(rd, writeBoolean(FALSE) \o rest)
        /\ HockeyistCode \in NullCodes /\ GoodRuns(HockeyistRuns)
    BY <1>1, HockeyistWritten, LiteralRuns, CodesOfNull
  <2>2. Refused(id)
    BY <1>i, <2>1, ReadNull
  <2>3. acted = id /\ ~Reading(id)
    BY <1>a, <2>2, Refusing, StopBoolean
  <2> QED  BY <1>0, <1>1, <2>2, <2>3 DEF Reads
<1>2. CASE h # Null
  <2>0. /\ h \in Hockeyist /\ h.id \in Int /\ h.lastActionTick \in Int
        /\ [id |-> h.id, lastActionTick |-> h.lastActionTick] = h
        /\ GoodRuns(HockeyistRuns) /\ TickOf(h) \in Stream
    BY <1>2, LiteralRuns, TickType DEF Hockeyist
  <2>1. Ready(rd, (writeBoolean(TRUE) \o (writeRuns(h.id, HockeyistRuns) \o TickOf(h))) \o rest)
    BY <2>0, HockeyistWritten
  <2>2. Gives(id, TickOf(h) \o rest, h.id)
    BY <1>i, <2>0, <2>1, ReadHead
  <2>3. CASE h.lastActionTick = -1
    <3>1. Ready(id, writeBoolean(FALSE) \o rest)
      BY <2>2, <2>3 DEF TickOf, Gives
    <3>2. Gives(acted, rest, FALSE)
      BY <1>a, <3>1, ReadBoolean
    <3>3. tick = Return(acted, -1)
      BY <1>t, <3>2 DEF Gives
    <3>4. Gives(tick, rest, h.lastActionTick)
      BY <2>3, <3>2, <3>3, ReturnGives
    <3>5. readHockeyist(rd) = Return(tick, h)
      BY <1>0, <2>0, <2>2, <3>2, <3>4 DEF Gives, Ready
    <3> QED  BY <1>2, <3>4, <3>5, ReturnGives DEF Reads
  <2>4. CASE h.lastActionTick # -1
    <3>0. writeBoolean(TRUE) \in Stream /\ writeInt(h.lastActionTick) \in Stream
      BY <2>0, WritersType
    <3>1. /\ TickOf(h) \o rest = writeBoolean(TRUE) \o (writeInt(h.lastActionTick) \o rest)
          /\ writeInt(h.lastActionTick) \o rest \in Stream
      <4>1. \A a, b \in Stream : (a \o b) \o rest = a \o (b \o rest)
        BY JoinTwice, Zenon
      <4>2. (writeBoolean(TRUE) \o writeInt(h.lastActionTick)) \o rest
              = writeBoolean(TRUE) \o (writeInt(h.lastActionTick) \o rest)
        BY <3>0, <4>1, Zenon
      <4>3. writeInt(h.lastActionTick) \o rest \in Stream
        BY <3>0, JoinType, Zenon
      <4> QED  BY <2>4, <4>2, <4>3 DEF TickOf
    <3>2. Gives(acted, writeInt(h.lastActionTick) \o rest, TRUE)
      BY <1>a, <2>2, <3>1, ReadBoolean DEF Gives
    <3>3. tick = readInt(acted)
      BY <1>t, <3>2 DEF Gives
    <3>4. Gives(tick, rest, h.lastActionTick)
      BY <2>0, <3>2, <3>3, ReadInt DEF Gives
    <3>5. readHockeyist(rd) = Return(tick, h)
      BY <1>0, <2>0, <2>2, <3>2, <3>4 DEF Gives, Ready
    <3> QED  BY <1>2, <3>4, <3>5, ReturnGives DEF Reads
  <2> QED  BY <2>3, <2>4
<1> QED  BY <1>1, <1>2

(* Players.                                                                *)

LEMMA PlayerWritten ==
  /\ writePlayer(Null) = writeBoolean(FALSE)
  /\ \A p \in Player : writePlayer(p) =
       writeBoolean(TRUE) \o (writeRuns(p.id, PlayerRuns)
         \o (writeString(p.name) \o writeRuns(p.id, PlayerRest)))
  /\ \A p \in Player \cup {Null} : writePlayer(p) \in Stream
<1>1. writePlayer(Null) = writeBoolean(FALSE)
  BY DEF writePlayer, writeObject
<1>2. ASSUME NEW p \in Player
      PROVE  /\ writePlayer(p) =
                  writeBoolean(TRUE) \o (writeRuns(p.id, PlayerRuns)
                    \o (writeString(p.name) \o writeRuns(p.id, PlayerRest)))
             /\ writePlayer(p) \in Stream
  <2>1. writePlayer(p) =
          writeBoolean(TRUE) \o ((writeRuns(p.id, PlayerRuns) \o writeString(p.name))
                                   \o writeRuns(p.id, PlayerRest))
    BY NullAssumption DEF writePlayer, writeObject, PlayerRuns, PlayerRest
  <2>2. /\ writeBoolean(TRUE) \in Stream /\ writeRuns(p.id, PlayerRuns) \in Stream
        /\ writeString(p.name) \in Stream /\ writeRuns(p.id, PlayerRest) \in Stream
    BY WritersType, RunsWritten, LiteralRuns DEF Player
  <2>3. writePlayer(p) =
          writeBoolean(TRUE) \o (writeRuns(p.id, PlayerRuns)
            \o (writeString(p.name) \o writeRuns(p.id, PlayerRest)))
    BY <2>1, <2>2, JoinTwice, Zenon
  <2> QED  BY <2>2, <2>3, JoinType, Zenon
<1> QED  BY <1>1, <1>2, WritersType

LEMMA PlayerRead ==
  ASSUME NEW rd, NEW id, NEW name, NEW more,
         id = readRuns(readPresent(rd, PlayerCode), PlayerRuns),
         name = readString(id), more = readRuns(name, PlayerRest)
  PROVE  readPlayer(rd) = Return(more, [id |-> id.value, name |-> name.value])
<1>1. readPlayer(rd) =
        IF Reading(id)
        THEN IF Reading(name)
             THEN Return(more, [id |-> id.value, name |-> name.value])
             ELSE name
        ELSE id
  BY DEF readPlayer, Then, Return, PlayerRuns, PlayerRest, PlayerCode
<1>2. GoodRuns(PlayerRest)
  BY LiteralRuns
<1> QED  BY <1>1, <1>2, StopString, StopGoodRuns, ReturnStops

LEMMA ReadPlayer ==
  ASSUME NEW rd, NEW p \in Player \cup {Null}, NEW rest \in Stream,
         Ready(rd, writePlayer(p) \o rest)
  PROVE  Reads(readPlayer(rd), rest, p, p # Null /\ p.name # Null)
<1>i. PICK id : id = readRuns(readPresent(rd, PlayerCode), PlayerRuns)
  OBVIOUS
<1>a. PICK name : name = readString(id)
  OBVIOUS
<1>t. PICK more : more = readRuns(name, PlayerRest)
  OBVIOUS
<1>0. /\ readPlayer(rd) = Return(more, [id |-> id.value, name |-> name.value])
      /\ GoodRuns(PlayerRuns) /\ GoodRuns(PlayerRest)
  BY <1>i, <1>a, <1>t, PlayerRead, LiteralRuns
<1>r. ASSUME Refused(name) PROVE Refused(readPlayer(rd))
  <2>1. ~Reading(name)
    BY <1>r, Refusing
  <2>2. more = name
    BY <1>0, <1>t, <2>1, StopGoodRuns
  <2> QED  BY <1>0, <1>r, <2>1, <2>2, ReturnStops
<1>1. CASE p = Null
  <2>1. Ready(rd, writeBoolean(FALSE) \o rest) /\ PlayerCode \in NullCodes
    BY <1>1, PlayerWritten, CodesOfNull
  <2>2. Refused(id)
    BY <1>0, <1>i, <2>1, ReadNull
  <2>3. name = id
    BY <1>a, <2>2, Refusing, StopString
  <2> QED  BY <1>1, <1>r, <2>2, <2>3 DEF Reads
<1>2. CASE p # Null
  <2>0. /\ p \in Player /\ p.id \in Int /\ p.name \in Nat \cup {Null}
        /\ [id |-> p.id, name |-> p.name] = p
    BY <1>2 DEF Player
  <2>s. writeString(p.name) \in Stream /\ writeRuns(p.id, PlayerRest) \in Stream
    BY <1>0, <2>0, WritersType, RunsWritten
  <2>f. writeString(p.name) \o writeRuns(p.id, PlayerRest) \in Stream
    BY <2>s, JoinType, Zenon
  <2>1. Ready(rd, (writeBoolean(TRUE) \o (writeRuns(p.id, PlayerRuns)
                     \o (writeString(p.name) \o writeRuns(p.id, PlayerRest)))) \o rest)
    BY <2>0, PlayerWritten
  <2>2. Gives(id, (writeString(p.name) \o writeRuns(p.id, PlayerRest)) \o rest, p.id)
    BY <1>0, <1>i, <2>0, <2>f, <2>1, ReadHead
  <2>3. writeRuns(p.id, PlayerRest) \o rest \in Stream
    BY <2>s, JoinType, Zenon
  <2>4. Ready(id, writeString(p.name) \o (writeRuns(p.id, PlayerRest) \o rest))
    BY <2>2, <2>s, JoinTwice, Zenon DEF Gives
  <2>5. IF p.name # Null THEN Gives(name, writeRuns(p.id, PlayerRest) \o rest, p.name)
        ELSE Refused(name)
    BY <1>a, <2>0, <2>3, <2>4, ReadString
  <2>6. CASE p.name = Null
    BY <1>r, <2>5, <2>6 DEF Reads
  <2>7. CASE p.name # Null
    <3>1. Gives(more, rest, p.id)
      BY <1>0, <1>t, <2>0, <2>5, <2>7, ReadRuns DEF Gives
    <3>2. readPlayer(rd) = Return(more, p)
      BY <1>0, <2>0, <2>2, <2>5, <2>7 DEF Gives
    <3> QED  BY <1>2, <2>7, <3>1, <3>2, ReturnGives DEF Reads
  <2> QED  BY <2>6, <2>7
<1> QED  BY <1>1, <1>2

(* Moves.                                                                  *)

MoveRest(m) ==
  CASE m.action = PASS -> writeRuns(m.id, MoveRuns)
    [] m.action = SUBSTITUTE -> writeInt(m.id)
    [] OTHER -> <<>>

LEMMA MoveRestType == \A m \in Move : MoveRest(m) \in Stream
<1> SUFFICES ASSUME NEW m \in Move PROVE MoveRest(m) \in Stream
  OBVIOUS
<1>1. /\ writeRuns(m.id, MoveRuns) \in Stream /\ writeInt(m.id) \in Stream
      /\ <<>> \in Stream
  BY WritersType, RunsWritten, LiteralRuns DEF Move, ActionType, Stream
<1> QED  BY <1>1 DEF MoveRest, PASS, SUBSTITUTE

LEMMA MoveWritten ==
  \A m \in Move :
    /\ writeMove(m) = writeBoolean(TRUE) \o (writeRuns(m.id, MoveRuns)
                        \o (writeEnum(m.action) \o MoveRest(m)))
    /\ writeMove(m) \in Stream
<1> SUFFICES ASSUME NEW m \in Move
             PROVE  /\ writeMove(m) = writeBoolean(TRUE) \o (writeRuns(m.id, MoveRuns)
                                        \o (writeEnum(m.action) \o MoveRest(m)))
                    /\ writeMove(m) \in Stream
  OBVIOUS
<1>1. writeMove(m) = writeBoolean(TRUE) \o ((writeRuns(m.id, MoveRuns)
                       \o writeEnum(m.action)) \o MoveRest(m))
  BY NullAssumption DEF writeMove, writeObject, MoveRuns, MoveRest
<1>2. /\ writeBoolean(TRUE) \in Stream /\ writeRuns(m.id, MoveRuns) \in Stream
      /\ writeEnum(m.action) \in Stream
  <2>1. m.id \in Int /\ m.action \in Int
    BY DEF Move, ActionType
  <2> QED  BY <2>1, WritersType, RunsWritten, LiteralRuns
<1>3. MoveRest(m) \in Stream
  BY MoveRestType
<1>4. writeMove(m) = writeBoolean(TRUE) \o (writeRuns(m.id, MoveRuns)
                       \o (writeEnum(m.action) \o MoveRest(m)))
  BY <1>1, <1>2, <1>3, JoinTwice, Zenon
<1> QED  BY <1>2, <1>3, <1>4, JoinType, Zenon

LEMMA MoveRead ==
  ASSUME NEW rd, NEW id, NEW action, NEW more,
         id = readRuns(readPresent(rd, MoveCode), MoveRuns),
         action = readEnum(id),
         more = CASE action.value = PASS -> readRuns(action, MoveRuns)
                  [] action.value = SUBSTITUTE -> readInt(action)
                  [] OTHER -> action
  PROVE  readMove(rd) =
           IF Reading(action)
           THEN Return(more, [id |-> id.value, action |-> action.value])
           ELSE action
<1>1. readMove(rd) =
        IF Reading(id)
        THEN IF Reading(action)
             THEN Return(more, [id |-> id.value, action |-> action.value])
             ELSE action
        ELSE id
  BY DEF readMove, Then, Return, MoveRuns, MoveCode
<1> QED  BY <1>1, StopFields DEF readEnum

LEMMA ReadMove ==
  ASSUME NEW rd, NEW m \in Move, NEW rest \in Stream, Ready(rd, writeMove(m) \o rest)
  PROVE  Gives(readMove(rd), rest, m)
<1>i. PICK id : id = readRuns(readPresent(rd, MoveCode), MoveRuns)
  OBVIOUS
<1>a. PICK action : action = readEnum(id)
  OBVIOUS
<1>t. PICK more : more = CASE action.value = PASS -> readRuns(action, MoveRuns)
                           [] action.value = SUBSTITUTE -> readInt(action)
                           [] OTHER -> action
  OBVIOUS
<1>0. readMove(rd) =
        IF Reading(action)
        THEN Return(more, [id |-> id.value, action |-> action.value])
        ELSE action
  BY <1>i, <1>a, <1>t, MoveRead
<1>1. /\ m.id \in Int /\ m.action \in Int
      /\ [id |-> m.id, action |-> m.action] = m
  BY DEF Move, ActionType
<1>g. GoodRuns(MoveRuns)
  BY LiteralRuns
<1>s. /\ writeEnum(m.action) \in Stream /\ MoveRest(m) \in Stream
  BY <1>1, WritersType, MoveRestType
<1>f. writeEnum(m.action) \o MoveRest(m) \in Stream /\ MoveRest(m) \o rest \in Stream
  BY <1>s, JoinType, Zenon
<1>2. Ready(rd, (writeBoolean(TRUE) \o (writeRuns(m.id, MoveRuns)
                   \o (writeEnum(m.action) \o MoveRest(m)))) \o rest)
  BY MoveWritten
<1>3. Gives(id, (writeEnum(m.action) \o MoveRest(m)) \o rest, m.id)
  BY <1>i, <1>1, <1>g, <1>f, <1>2, ReadHead
<1>4. Ready(id, writeEnum(m.action) \o (MoveRest(m) \o rest))
  BY <1>3, <1>s, JoinTwice, Zenon DEF Gives
<1>5. Gives(action, MoveRest(m) \o rest, m.action)
  BY <1>a, <1>1, <1>f, <1>4, ReadEnum
<1>6. CASE m.action = PASS
  <2>1. more = readRuns(action, MoveRuns) /\ MoveRest(m) = writeRuns(m.id, MoveRuns)
    BY <1>t, <1>5, <1>6 DEF PASS, SUBSTITUTE, Gives, MoveRest
  <2>2. Gives(more, rest, m.id)
    BY <1>1, <1>g, <1>5, <2>1, ReadRuns DEF Gives
  <2> QED  BY <1>0, <1>1, <1>3, <1>5, <2>2, ReturnGives DEF Gives, Ready
<1>7. CASE m.action = SUBSTITUTE
  <2>1. more = readInt(action) /\ MoveRest(m) = writeInt(m.id)
    BY <1>t, <1>5, <1>7 DEF PASS, SUBSTITUTE, Gives, MoveRest
  <2>2. Gives(more, rest, m.id)
    BY <1>1, <1>5, <2>1, ReadInt DEF Gives
  <2> QED  BY <1>0, <1>1, <1>3, <1>5, <2>2, ReturnGives DEF Gives, Ready
<1>8. CASE m.action # PASS /\ m.action # SUBSTITUTE
  <2>1. more = action /\ MoveRest(m) = <<>>
    BY <1>t, <1>5, <1>8 DEF Gives, MoveRest
  <2>2. Gives(more, rest, m.action)
    BY <1>5, <2>1, Nothing
  <2> QED  BY <1>0, <1>1, <1>3, <1>5, <2>2, ReturnGives DEF Gives, Ready
<1> QED  BY <1>6, <1>7, <1>8

-----------------------------------------------------------------------------
(* The loop of readList().                                                 *)

LEMMA NextRead1 ==
  ASSUME NEW rd, NEW kind, NEW one, one = readElement(rd, kind)
  PROVE  readNext(rd, kind) = Return(one, Append(rd.value, one.value))
BY DEF readNext, Then, Return

IsElementTrace(f, rd, kind, n) ==
  f = [i \in 0..n |-> IF i = 0 THEN rd ELSE readNext(f[i - 1], kind)]

LEMMA ElementTraceExists ==
  ASSUME NEW rd, NEW kind, NEW n \in Nat
  PROVE  \E f : IsElementTrace(f, rd, kind, n)
<1> DEFINE S == {k \in 0..n : \E f : IsElementTrace(f, rd, kind, k)}
<1>1. 0 \in S
  <2>1. IsElementTrace([i \in 0..0 |-> rd], rd, kind, 0)
    BY DEF IsElementTrace
  <2> QED  BY <2>1
<1>2. ASSUME NEW k \in 0..(n - 1), k \in S
      PROVE  k + 1 \in S
  <2>1. PICK f : IsElementTrace(f, rd, kind, k)
    BY <1>2
  <2> DEFINE g == [i \in 0..(k + 1) |-> IF i <= k THEN f[i] ELSE readNext(f[k], kind)]
  <2>2. \A i \in 0..k : f[i] = IF i = 0 THEN rd ELSE readNext(f[i - 1], kind)
    BY <2>1 DEF IsElementTrace
  <2>3. ASSUME NEW i \in 0..(k + 1)
        PROVE  g[i] = IF i = 0 THEN rd ELSE readNext(g[i - 1], kind)
    BY <2>2
  <2>4. IsElementTrace(g, rd, kind, k + 1)
    BY <2>3, Zenon DEF IsElementTrace
  <2> QED  BY <2>4
<1> HIDE DEF S
<1>3. n \in S
  BY <1>1, <1>2, Induction
<1> QED  BY <1>3 DEF S

\* The reader after each element.
LEMMA ElementTrace ==
  ASSUME NEW rd, NEW kind, NEW n \in Nat
  PROVE  \E f : /\ f[0] = rd
                /\ \A i \in 0..(n - 1) : f[i + 1] = readNext(f[i], kind)
                /\ readElements(rd, kind, n) = f[n]
<1> DEFINE f == CHOOSE f : IsElementTrace(f, rd, kind, n)
<1>1. IsElementTrace(f, rd, kind, n)
  <2>2. \E g : IsElementTrace(g, rd, kind, n)
    BY ElementTraceExists
  <2> QED  BY <2>2, Zenon
<1>2. readElements(rd, kind, n) = f[n]
  BY DEF readElements, IsElementTrace
<1> HIDE DEF f
<1>3. /\ f[0] = rd
      /\ \A i \in 1..n : f[i] = readNext(f[i - 1], kind)
  BY <1>1 DEF IsElementTrace
<1>4. ASSUME NEW i \in 0..(n - 1) PROVE f[i + 1] = readNext(f[i], kind)
  <2>1. i + 1 \in 1..n /\ (i + 1) - 1 = i
    OBVIOUS
  <2> QED  BY <1>3, <2>1
<1> QED  BY <1>2, <1>3, <1>4

ElementKinds == {"hockeyist", "player", "move"}

\* What may be sent as an element, the elements that are not refused, and what
\* is written for one.
Sendable(kind) ==
  CASE kind = "hockeyist" -> Hockeyist \cup {Null}
    [] kind = "player"    -> Player \cup {Null}
    [] kind = "move"      -> Move
Sound(kind, x) == x # Null /\ (kind = "player" => x.name # Null)
Written(kind, x) ==
  CASE kind = "hockeyist" -> writeHockeyist(x)
    [] kind = "player"    -> writePlayer(x)
    [] kind = "move"      -> writeMove(x)

LEMMA WrittenType ==
  \A kind \in ElementKinds : \A x \in Sendable(kind) : Written(kind, x) \in Stream
BY HockeyistWritten, PlayerWritten, MoveWritten DEF ElementKinds, Sendable, Written

LEMMA ReadElement ==
  ASSUME NEW rd, NEW kind \in ElementKinds, NEW x \in Sendable(kind),
         NEW rest \in Stream, Ready(rd, Written(kind, x) \o rest)
  PROVE  Reads(readElement(rd, kind), rest, x, Sound(kind, x))
<1>1. CASE kind = "hockeyist"
  <2>1. /\ x \in Hockeyist \cup {Null} /\ Ready(rd, writeHockeyist(x) \o rest)
        /\ readElement(rd, kind) = readHockeyist(rd) /\ Sound(kind, x) = (x # Null)
    BY <1>1 DEF Sendable, Written, readElement, Sound
  <2> QED  BY <2>1, ReadHockeyist
<1>2. CASE kind = "player"
  <2>1. /\ x \in Player \cup {Null} /\ Ready(rd, writePlayer(x) \o rest)
        /\ readElement(rd, kind) = readPlayer(rd)
        /\ Sound(kind, x) = (x # Null /\ x.name # Null)
    BY <1>2 DEF Sendable, Written, readElement, Sound
  <2> QED  BY <2>1, ReadPlayer
<1>3. CASE kind = "move"
  <2>1. /\ x \in Move /\ Ready(rd, writeMove(x) \o rest)
        /\ readElement(rd, kind) = readMove(rd) /\ Sound(kind, x)
    BY <1>3, NullAssumption DEF Sendable, Written, readElement, Sound
  <2> QED  BY <2>1, ReadMove DEF Reads
<1> QED  BY <1>1, <1>2, <1>3 DEF ElementKinds

LEMMA StopElement ==
  ASSUME NEW rd, ~Reading(rd), NEW kind \in ElementKinds
  PROVE  readElement(rd, kind) = rd
<1>1. CASE kind = "hockeyist"
  <2>1. readHockeyist(rd) = rd
    BY StopPresent, StopGoodRuns, LiteralRuns DEF readHockeyist, Then, HockeyistRuns
  <2> QED  BY <1>1, <2>1 DEF readElement
<1>2. CASE kind = "player"
  <2>1. readPlayer(rd) = rd
    BY StopPresent, StopGoodRuns, LiteralRuns DEF readPlayer, Then, PlayerRuns
  <2> QED  BY <1>2, <2>1 DEF readElement
<1>3. CASE kind = "move"
  <2>1. readMove(rd) = rd
    BY StopPresent, StopGoodRuns, LiteralRuns DEF readMove, Then, MoveRuns
  <2> QED  BY <1>3, <2>1 DEF readElement
<1> QED  BY <1>1, <1>2, <1>3 DEF ElementKinds

LEMMA StopNext ==
  ASSUME NEW rd, ~Reading(rd), NEW kind \in ElementKinds
  PROVE  readNext(rd, kind) = rd
BY StopElement DEF readNext, Then

AllSound(kind, list, n) == \A j \in 1..n : Sound(kind, list[j])

LEMMA FlattenType ==
  ASSUME NEW seqs \in Seq(Stream)
  PROVE  FlattenSeq(seqs) \in Stream
<1>1. seqs \in Seq(Seq(Field)) /\ <<>> \in Seq(Field)
  BY DEF Stream
<1> QED  BY <1>1, FlattenAppend DEF Stream

LEMMA FlattenFrom ==
  ASSUME NEW seqs \in Seq(Stream), NEW i \in 1..Len(seqs), NEW rest \in Stream
  PROVE  /\ FlattenSeq(SubSeq(seqs, i + 1, Len(seqs))) \o rest \in Stream
         /\ FlattenSeq(SubSeq(seqs, i, Len(seqs))) \o rest =
              seqs[i] \o (FlattenSeq(SubSeq(seqs, i + 1, Len(seqs))) \o rest)
<1> DEFINE tail == SubSeq(seqs, i + 1, Len(seqs))
<1>1. SubSeq(seqs, i, Len(seqs)) = <<seqs[i]>> \o tail /\ tail \in Seq(Stream)
  BY SubSeqRecursiveFirst, SubSeqProperties
<1>2. seqs[i] \in Stream
  OBVIOUS
<1> HIDE DEF tail
<1>3. FlattenSeq(<<seqs[i]>> \o tail) = seqs[i] \o FlattenSeq(tail)
  BY <1>1, <1>2, FlattenCons DEF Stream
<1>4. FlattenSeq(tail) \in Stream
  BY <1>1, FlattenType
<1>5. (seqs[i] \o FlattenSeq(tail)) \o rest = seqs[i] \o (FlattenSeq(tail) \o rest)
  BY <1>2, <1>4, JoinTwice, Zenon
<1>6. FlattenSeq(tail) \o rest \in Stream
  BY <1>4, JoinType, Zenon
<1> QED  BY <1>1, <1>3, <1>5, <1>6 DEF tail

LEMMA Longer ==
  ASSUME NEW A, NEW list \in Seq(A), NEW i \in 0..(Len(list) - 1)
  PROVE  Append(SubSeq(list, 1, i), list[i + 1]) = SubSeq(list, 1, i + 1)
OBVIOUS

LEMMA ReadElements ==
  ASSUME NEW rd, NEW kind \in ElementKinds, NEW list \in Seq(Sendable(kind)),
         NEW rest \in Stream, NEW seqs \in Seq(Stream), Len(seqs) = Len(list),
         \A i \in 1..Len(list) : seqs[i] = Written(kind, list[i]),
         Ready(rd, FlattenSeq(seqs) \o rest), rd.value = <<>>
  PROVE  Reads(readElements(rd, kind, Len(list)), rest, list,
               AllSound(kind, list, Len(list)))
<1>n. PICK n \in Nat : n = Len(list) /\ n = Len(seqs)
  OBVIOUS
<1>1. PICK f : /\ f[0] = rd
               /\ \A i \in 0..(n - 1) : f[i + 1] = readNext(f[i], kind)
               /\ readElements(rd, kind, n) = f[n]
  BY ElementTrace
<1> DEFINE left(i) == FlattenSeq(SubSeq(seqs, i + 1, n)) \o rest
           P(i) == Reads(f[i], left(i), SubSeq(list, 1, i), AllSound(kind, list, i))
           S == {i \in 0..n : P(i)}
<1>2. 0 \in S
  <2>1. SubSeq(seqs, 0 + 1, n) = seqs /\ SubSeq(list, 1, 0) = <<>>
    BY <1>n
  <2>2. AllSound(kind, list, 0)
    BY DEF AllSound
  <2>3. Gives(f[0], left(0), SubSeq(list, 1, 0))
    BY <1>1, <2>1 DEF Gives
  <2> HIDE DEF left
  <2>4. P(0)
    BY <2>2, <2>3 DEF Reads
  <2> QED  BY <2>4
<1>3. ASSUME NEW i \in 0..(n - 1), P(i) PROVE P(i + 1)
  <2>0. i + 1 \in 1..n
    OBVIOUS
  <2>1. f[i + 1] = readNext(f[i], kind)
    BY <1>1
  <2>2. AllSound(kind, list, i + 1) <=> AllSound(kind, list, i) /\ Sound(kind, list[i + 1])
    BY DEF AllSound
  <2>3. CASE ~AllSound(kind, list, i)
    <3>1. Refused(f[i])
      BY <1>3, <2>3 DEF Reads
    <3>2. f[i + 1] = f[i]
      BY <2>1, <3>1, Refusing, StopNext
    <3> QED  BY <2>2, <2>3, <3>1, <3>2 DEF Reads
  <2>4. CASE AllSound(kind, list, i)
    <3>1. Gives(f[i], left(i), SubSeq(list, 1, i))
      BY <1>3, <2>4 DEF Reads
    <3>2. left(i) = seqs[i + 1] \o left(i + 1) /\ left(i + 1) \in Stream
      <4>1. i + 1 \in 1..Len(seqs)
        BY <1>n, <2>0
      <4>2. /\ FlattenSeq(SubSeq(seqs, (i + 1) + 1, Len(seqs))) \o rest \in Stream
            /\ FlattenSeq(SubSeq(seqs, i + 1, Len(seqs))) \o rest =
                 seqs[i + 1] \o (FlattenSeq(SubSeq(seqs, (i + 1) + 1, Len(seqs))) \o rest)
        BY <4>1, FlattenFrom
      <4> QED  BY <1>n, <4>2
    <3>3. list[i + 1] \in Sendable(kind) /\ seqs[i + 1] = Written(kind, list[i + 1])
      BY <1>n, <2>0
    <3>l. PICK more \in Stream : more = left(i + 1)
      BY <3>2
    <3>o. PICK one : one = readElement(f[i], kind)
      OBVIOUS
    <3>4. Ready(f[i], Written(kind, list[i + 1]) \o more)
      BY <3>1, <3>2, <3>3, <3>l DEF Gives
    <3> HIDE DEF left
    <3>5. Reads(one, more, list[i + 1], Sound(kind, list[i + 1]))
      BY <3>3, <3>4, <3>o, ReadElement
    <3>6. f[i + 1] = Return(one, Append(f[i].value, one.value))
      BY <2>1, <3>o, NextRead1
    <3>7. CASE Sound(kind, list[i + 1])
      <4>1. Gives(one, more, list[i + 1])
        BY <3>5, <3>7 DEF Reads
      <4>2. Append(f[i].value, one.value) = SubSeq(list, 1, i + 1)
        BY <1>n, <3>1, <4>1, Longer DEF Gives
      <4>3. Gives(f[i + 1], more, SubSeq(list, 1, i + 1))
        BY <3>6, <4>1, <4>2, ReturnGives
      <4> QED  BY <2>2, <2>4, <3>l, <3>7, <4>3 DEF Reads
    <3>8. CASE ~Sound(kind, list[i + 1])
      <4>1. Refused(one)
        BY <3>5, <3>8 DEF Reads
      <4>2. f[i + 1] = one
        BY <3>6, <4>1, Refusing, ReturnStops
      <4> QED  BY <2>2, <3>8, <4>1, <4>2 DEF Reads
    <3> QED  BY <3>7, <3>8
  <2> QED  BY <2>3, <2>4
<1>4. \A i \in 0..n : i \in S
  <2>1. \A i \in 0..(n - 1) : i \in S => i + 1 \in S
    BY <1>3
  <2> HIDE DEF S
  <2> QED  BY <1>2, <2>1, Induction
<1>5. P(n)
  BY <1>4
<1>6. left(n) = rest /\ SubSeq(list, 1, n) = list
  <2>1. SubSeq(seqs, n + 1, n) = <<>> /\ SubSeq(list, 1, n) = list
    BY <1>n
  <2> QED  BY <2>1, FlattenNothing, Nothing
<1> QED  BY <1>n, <1>1, <1>5, <1>6

LEMMA ListRead ==
  ASSUME NEW rd, NEW kind, NEW code \in Int \ {0}, NEW length, length = readInt(rd),
         IsReader(length), Reading(length)
  PROVE  readList(rd, kind, code) =
           IF length.value >= 0
           THEN readElements(Return(length, <<>>), kind, length.value)
           ELSE Exit(length, code)
<1>1. ~Reading(Exit(length, code))
  BY Exiting DEF Reading
<1> QED  BY <1>1 DEF readList, Then, Require

LEMMA StopList ==
  ASSUME NEW rd, ~Reading(rd), NEW kind, NEW code
  PROVE  readList(rd, kind, code) = rd
BY StopFields DEF readList, readInt, Then

\* What is written for a list.
WrittenList(kind, list) ==
  IF list = Null THEN writeInt(-1)
  ELSE writeInt(Len(list)) \o FlattenSeq([i \in 1..Len(list) |-> Written(kind, list[i])])

LEMMA ListsWritten ==
  /\ \A list : writeHockeyists(list) = WrittenList("hockeyist", list)
  /\ \A list : writePlayers(list) = WrittenList("player", list)
  /\ \A list : writeMoves(list) = WrittenList("move", list)
<1>1. ASSUME NEW list PROVE writeHockeyists(list) = WrittenList("hockeyist", list)
  <2>1. \A x : Written("hockeyist", x) = writeHockeyist(x)
    BY DEF Written
  <2> QED  BY <2>1, Zenon DEF writeHockeyists, writeList, WrittenList
<1>2. ASSUME NEW list PROVE writePlayers(list) = WrittenList("player", list)
  <2>1. \A x : Written("player", x) = writePlayer(x)
    BY DEF Written
  <2> QED  BY <2>1, Zenon DEF writePlayers, writeList, WrittenList
<1>3. ASSUME NEW list PROVE writeMoves(list) = WrittenList("move", list)
  <2>1. \A x : Written("move", x) = writeMove(x)
    BY DEF Written
  <2> QED  BY <2>1, Zenon DEF writeMoves, writeList, WrittenList
<1> QED  BY <1>1, <1>2, <1>3

\* The lists that may be sent.
Lists(kind) == Seq(Sendable(kind)) \cup {Null}

LEMMA ElementsWritten ==
  ASSUME NEW kind \in ElementKinds, NEW list \in Seq(Sendable(kind))
  PROVE  /\ [i \in 1..Len(list) |-> Written(kind, list[i])] \in Seq(Stream)
         /\ FlattenSeq([i \in 1..Len(list) |-> Written(kind, list[i])]) \in Stream
<1> DEFINE seqs == [i \in 1..Len(list) |-> Written(kind, list[i])]
<1>1. ASSUME NEW i \in 1..Len(list) PROVE Written(kind, list[i]) \in Stream
  <2>1. list[i] \in Sendable(kind)
    OBVIOUS
  <2> QED  BY <2>1, WrittenType
<1>2. seqs \in Seq(Stream)
  BY <1>1
<1> QED  BY <1>2, FlattenType

LEMMA WrittenListType ==
  \A kind \in ElementKinds : \A list \in Lists(kind) : WrittenList(kind, list) \in Stream
<1> SUFFICES ASSUME NEW kind \in ElementKinds, NEW list \in Lists(kind)
             PROVE  WrittenList(kind, list) \in Stream
  OBVIOUS
<1>1. CASE list = Null
  <2>1. writeInt(-1) \in Stream
    BY WritersType
  <2> QED  BY <1>1, <2>1 DEF WrittenList
<1>2. CASE list # Null
  <2>1. list \in Seq(Sendable(kind)) /\ Len(list) \in Int
    BY <1>2 DEF Lists
  <2>2. /\ writeInt(Len(list)) \in Stream
        /\ FlattenSeq([i \in 1..Len(list) |-> Written(kind, list[i])]) \in Stream
    BY <2>1, WritersType, ElementsWritten
  <2> QED  BY <1>2, <2>2, JoinType, Zenon DEF WrittenList
<1> QED  BY <1>1, <1>2

SoundList(kind, list) == list # Null /\ AllSound(kind, list, Len(list))

LEMMA ReadList ==
  ASSUME NEW rd, NEW kind \in ElementKinds, NEW list \in Lists(kind), NEW rest \in Stream,
         NEW code \in Int \ {0}, list = Null => code \in NullCodes,
         Ready(rd, WrittenList(kind, list) \o rest)
  PROVE  Reads(readList(rd, kind, code), rest, list, SoundList(kind, list))
<1>l. PICK length : length = readInt(rd)
  OBVIOUS
<1>c. code \in Int \ {0}
  OBVIOUS
<1>1. CASE list = Null
  <2>1. Ready(rd, writeInt(-1) \o rest)
    BY <1>1 DEF WrittenList
  <2>2. Gives(length, rest, -1)
    BY <1>l, <2>1, ReadInt
  <2>3. readList(rd, kind, code) = Exit(length, code)
    BY <1>l, <1>c, <2>2, ListRead DEF Gives, Ready
  <2>4. Refused(Exit(length, code))
    BY <1>1, <1>c, <2>2, Exiting DEF Gives, Ready
  <2> QED  BY <1>1, <2>3, <2>4 DEF Reads, SoundList
<1>2. CASE list # Null
  <2>l. list \in Seq(Sendable(kind)) /\ Len(list) \in Nat
    BY <1>2 DEF Lists
  <2>s. PICK seqs \in Seq(Stream) : seqs = [i \in 1..Len(list) |-> Written(kind, list[i])]
    BY <2>l, ElementsWritten
  <2>t. /\ Len(seqs) = Len(list)
        /\ \A i \in 1..Len(list) : seqs[i] = Written(kind, list[i])
    BY <2>l, <2>s
  <2>w. writeInt(Len(list)) \in Stream /\ FlattenSeq(seqs) \in Stream
    BY <2>l, WritersType, FlattenType
  <2>1. WrittenList(kind, list) \o rest = (writeInt(Len(list)) \o FlattenSeq(seqs)) \o rest
    BY <1>2, <2>s DEF WrittenList
  <2>2. (writeInt(Len(list)) \o FlattenSeq(seqs)) \o rest
          = writeInt(Len(list)) \o (FlattenSeq(seqs) \o rest)
    BY <2>w, JoinTwice, Zenon
  <2>3. FlattenSeq(seqs) \o rest \in Stream
    BY <2>w, JoinType, Zenon
  <2>4. Gives(length, FlattenSeq(seqs) \o rest, Len(list))
    BY <1>l, <2>l, <2>1, <2>2, <2>3, ReadInt
  <2>e. PICK empty : empty = Return(length, <<>>)
    OBVIOUS
  <2>5. Gives(empty, FlattenSeq(seqs) \o rest, <<>>)
    BY <2>4, <2>e, ReturnGives
  <2>6. readList(rd, kind, code) = readElements(empty, kind, Len(list))
    BY <1>l, <1>c, <2>l, <2>e, <2>4, ListRead DEF Gives, Ready
  <2>7. Reads(readElements(empty, kind, Len(list)), rest, list,
              AllSound(kind, list, Len(list)))
    BY <2>l, <2>t, <2>5, ReadElements DEF Gives
  <2> QED  BY <1>2, <2>6, <2>7 DEF Reads, SoundList
<1> QED  BY <1>1, <1>2

\* Moves, of which none is ever null.
LEMMA ReadMoves ==
  ASSUME NEW rd, NEW moves \in Seq(Move), NEW rest \in Stream,
         Ready(rd, writeMoves(moves) \o rest)
  PROVE  Gives(readMoves(rd), rest, moves)
<1>0. moves # Null /\ "move" \in ElementKinds /\ Sendable("move") = Move
  BY NullAssumption DEF ElementKinds, Sendable
<1>1. moves \in Lists("move") /\ Ready(rd, WrittenList("move", moves) \o rest)
  BY <1>0, ListsWritten DEF Lists
<1>2. PICK code \in Int \ {0} : readMoves(rd) = readList(rd, "move", code)
  BY DEF readMoves
<1>3. SoundList("move", moves)
  <2>1. ASSUME NEW j \in 1..Len(moves) PROVE Sound("move", moves[j])
    <3>1. moves[j] \in Move
      OBVIOUS
    <3> QED  BY <3>1, NullAssumption DEF Sound
  <2> QED  BY <1>0, <2>1 DEF SoundList, AllSound
<1> QED  BY <1>0, <1>1, <1>2, <1>3, ReadList DEF Reads

-----------------------------------------------------------------------------
(* Worlds and contexts.                                                    *)

SoundWorld(w) ==
  /\ w # Null /\ SoundList("player", w.players)
  /\ SoundList("hockeyist", w.hockeyists) /\ w.puck # Null

WorldFields(w) ==
  writePlayers(w.players) \o (writeHockeyists(w.hockeyists) \o writePuck(w.puck))

LEMMA WorldParts ==
  ASSUME NEW w \in World
  PROVE  /\ w.id \in Int
         /\ w.players \in Lists("player") /\ w.hockeyists \in Lists("hockeyist")
         /\ w.puck \in Puck \cup {Null}
         /\ writePlayers(w.players) \in Stream /\ writeHockeyists(w.hockeyists) \in Stream
         /\ writePuck(w.puck) \in Stream
<1>1. /\ w.id \in Int /\ w.puck \in Puck \cup {Null}
      /\ w.players \in Lists("player") /\ w.hockeyists \in Lists("hockeyist")
  BY DEF World, ListOf, Lists, Sendable
<1>2. "player" \in ElementKinds /\ "hockeyist" \in ElementKinds
  BY DEF ElementKinds
<1> QED  BY <1>1, <1>2, ListsWritten, WrittenListType, PuckWritten

LEMMA WorldWritten ==
  /\ writeWorld(Null) = writeBoolean(FALSE)
  /\ \A w \in World : writeWorld(w) =
       writeBoolean(TRUE) \o (writeRuns(w.id, WorldRuns) \o WorldFields(w))
  /\ \A w \in World : WorldFields(w) \in Stream
  /\ \A w \in World \cup {Null} : writeWorld(w) \in Stream
<1>1. writeWorld(Null) = writeBoolean(FALSE)
  BY DEF writeWorld, writeObject
<1>2. ASSUME NEW w \in World
      PROVE  /\ writeWorld(w) =
                  writeBoolean(TRUE) \o (writeRuns(w.id, WorldRuns) \o WorldFields(w))
             /\ WorldFields(w) \in Stream /\ writeWorld(w) \in Stream
  <2>1. writeWorld(w) =
          writeBoolean(TRUE) \o (((writeRuns(w.id, WorldRuns) \o writePlayers(w.players))
                                    \o writeHockeyists(w.hockeyists)) \o writePuck(w.puck))
    BY NullAssumption DEF writeWorld, writeObject, WorldRuns
  <2>2. writeBoolean(TRUE) \in Stream /\ writeRuns(w.id, WorldRuns) \in Stream
    BY WorldParts, WritersType, RunsWritten, LiteralRuns
  <2>3. /\ writePlayers(w.players) \in Stream /\ writeHockeyists(w.hockeyists) \in Stream
        /\ writePuck(w.puck) \in Stream
    BY WorldParts
  <2>4. /\ writeRuns(w.id, WorldRuns) \o writePlayers(w.players) \in Stream
        /\ writeHockeyists(w.hockeyists) \o writePuck(w.puck) \in Stream
    BY <2>2, <2>3, JoinType, Zenon
  <2>5. ((writeRuns(w.id, WorldRuns) \o writePlayers(w.players))
           \o writeHockeyists(w.hockeyists)) \o writePuck(w.puck)
        = (writeRuns(w.id, WorldRuns) \o writePlayers(w.players))
           \o (writeHockeyists(w.hockeyists) \o writePuck(w.puck))
    <3>1. \A a, b \in Stream :
            (a \o b) \o writePuck(w.puck) = a \o (b \o writePuck(w.puck))
      BY <2>3, JoinTwice, SMTT(30)
    <3> QED  BY <2>3, <2>4, <3>1, Zenon
  <2>6. (writeRuns(w.id, WorldRuns) \o writePlayers(w.players))
           \o (writeHockeyists(w.hockeyists) \o writePuck(w.puck))
        = writeRuns(w.id, WorldRuns) \o WorldFields(w)
    <3>1. PICK k \in Stream : k = writeHockeyists(w.hockeyists) \o writePuck(w.puck)
      BY <2>4
    <3>2. \A a, b \in Stream : (a \o b) \o k = a \o (b \o k)
      BY JoinTwice, Zenon
    <3>3. (writeRuns(w.id, WorldRuns) \o writePlayers(w.players)) \o k
            = writeRuns(w.id, WorldRuns) \o (writePlayers(w.players) \o k)
      BY <2>2, <2>3, <3>2, Zenon
    <3> QED  BY <3>1, <3>3, Zenon DEF WorldFields
  <2>7. WorldFields(w) \in Stream
    BY <2>3, <2>4, JoinType, Zenon DEF WorldFields
  <2>8. writeBoolean(TRUE) \o (writeRuns(w.id, WorldRuns) \o WorldFields(w)) \in Stream
    BY <2>2, <2>7, JoinType, Zenon
  <2>9. writeWorld(w) = writeBoolean(TRUE) \o (writeRuns(w.id, WorldRuns) \o WorldFields(w))
    BY <2>1, <2>5, <2>6, Zenon
  <2> QED  BY <2>7, <2>8, <2>9
<1> QED  BY <1>1, <1>2, WritersType

LEMMA StopPuck ==
  ASSUME NEW rd, ~Reading(rd)
  PROVE  readPuck(rd) = rd
<1>1. readRuns(readPresent(rd, PuckCode), PuckRuns) = rd
  BY StopPresent, StopGoodRuns, LiteralRuns
<1> QED  BY <1>1, PuckRead, ReturnStops

LEMMA WorldRead ==
  ASSUME NEW rd, NEW id, NEW players, NEW hockeyists, NEW puck,
         id = readRuns(readPresent(rd, WorldCode), WorldRuns),
         players = readPlayers(id), hockeyists = readHockeyists(players),
         puck = readPuck(hockeyists)
  PROVE  readWorld(rd) =
           Return(puck, [id |-> id.value, players |-> players.value,
                         hockeyists |-> hockeyists.value, puck |-> puck.value])
<1>1. readWorld(rd) =
        IF Reading(id)
        THEN IF Reading(players)
             THEN IF Reading(hockeyists)
                  THEN Return(puck, [id |-> id.value, players |-> players.value,
                                hockeyists |-> hockeyists.value, puck |-> puck.value])
                  ELSE hockeyists
             ELSE players
        ELSE id
  BY DEF readWorld, Then, Return, WorldRuns, WorldCode
<1>2. /\ ~Reading(id) => players = id
      /\ ~Reading(players) => hockeyists = players
      /\ ~Reading(hockeyists) => puck = hockeyists
  BY StopList, StopPuck DEF readPlayers, readHockeyists
<1> QED  BY <1>1, <1>2, ReturnStops

LEMMA ReadHockeyists ==
  ASSUME NEW rd, NEW list \in Lists("hockeyist"), NEW rest \in Stream,
         Ready(rd, writeHockeyists(list) \o rest)
  PROVE  Reads(readHockeyists(rd), rest, list, SoundList("hockeyist", list))
<1>1. HockeyistsCode \in NullCodes /\ HockeyistsCode \in Int \ {0}
  BY CodesOfNull DEF HockeyistsCode
<1>2. readHockeyists(rd) = readList(rd, "hockeyist", HockeyistsCode)
  BY DEF readHockeyists, HockeyistsCode
<1>3. "hockeyist" \in ElementKinds
  BY DEF ElementKinds
<1> QED  BY <1>1, <1>2, <1>3, ListsWritten, ReadList

LEMMA ReadPlayers ==
  ASSUME NEW rd, NEW list \in Lists("player"), NEW rest \in Stream,
         Ready(rd, writePlayers(list) \o rest)
  PROVE  Reads(readPlayers(rd), rest, list, SoundList("player", list))
<1>1. PlayersCode \in NullCodes /\ PlayersCode \in Int \ {0}
  BY CodesOfNull DEF PlayersCode
<1>2. readPlayers(rd) = readList(rd, "player", PlayersCode)
  BY DEF readPlayers, PlayersCode
<1>3. "player" \in ElementKinds
  BY DEF ElementKinds
<1> QED  BY <1>1, <1>2, <1>3, ListsWritten, ReadList

LEMMA ReadWorld ==
  ASSUME NEW rd, NEW w \in World \cup {Null}, NEW rest \in Stream,
         Ready(rd, writeWorld(w) \o rest)
  PROVE  Reads(readWorld(rd), rest, w, SoundWorld(w))
<1>i. PICK id : id = readRuns(readPresent(rd, WorldCode), WorldRuns)
  OBVIOUS
<1>p. PICK players : players = readPlayers(id)
  OBVIOUS
<1>h. PICK hockeyists : hockeyists = readHockeyists(players)
  OBVIOUS
<1>k. PICK puck : puck = readPuck(hockeyists)
  OBVIOUS
<1>0. readWorld(rd) =
        Return(puck, [id |-> id.value, players |-> players.value,
                      hockeyists |-> hockeyists.value, puck |-> puck.value])
  BY <1>i, <1>p, <1>h, <1>k, WorldRead
<1>x. /\ ~Reading(id) => players = id
      /\ ~Reading(players) => hockeyists = players
      /\ ~Reading(hockeyists) => puck = hockeyists
      /\ ~Reading(puck) => readWorld(rd) = puck
  BY <1>0, <1>p, <1>h, <1>k, StopList, StopPuck, ReturnStops DEF readPlayers, readHockeyists
<1>r. /\ Refused(id) => Refused(players)
      /\ Refused(players) => Refused(hockeyists)
      /\ Refused(hockeyists) => Refused(puck)
      /\ Refused(puck) => Refused(readWorld(rd))
  BY <1>x, Refusing
<1>1. CASE w = Null
  <2>1. /\ Ready(rd, writeBoolean(FALSE) \o rest)
        /\ WorldCode \in NullCodes /\ GoodRuns(WorldRuns)
    BY <1>1, WorldWritten, LiteralRuns, CodesOfNull
  <2>2. Refused(id)
    BY <1>i, <2>1, ReadNull
  <2> QED  BY <1>1, <1>r, <2>2 DEF Reads, SoundWorld
<1>2. CASE w # Null
  <2>w. w \in World
    BY <1>2
  <2>0. /\ w.id \in Int
        /\ w.players \in Lists("player") /\ w.hockeyists \in Lists("hockeyist")
        /\ w.puck \in Puck \cup {Null}
        /\ writePlayers(w.players) \in Stream /\ writeHockeyists(w.hockeyists) \in Stream
        /\ writePuck(w.puck) \in Stream
    BY <2>w, WorldParts
  <2>e. [id |-> w.id, players |-> w.players, hockeyists |-> w.hockeyists,
         puck |-> w.puck] = w
    BY <2>w DEF World
  <2>f. WorldFields(w) \in Stream /\ GoodRuns(WorldRuns)
    BY <2>w, WorldWritten, LiteralRuns
  <2>1. Ready(rd, (writeBoolean(TRUE) \o (writeRuns(w.id, WorldRuns) \o WorldFields(w))) \o rest)
    BY <2>w, WorldWritten
  <2>2. Gives(id, WorldFields(w) \o rest, w.id)
    BY <1>i, <2>0, <2>f, <2>1, ReadHead
  <2>p. PICK k \in Stream : k = writePuck(w.puck) \o rest
    BY <2>0, JoinType, Zenon
  <2>h. PICK h \in Stream : h = writeHockeyists(w.hockeyists) \o k
    BY <2>0, JoinType, Zenon
  <2>3. WorldFields(w) \o rest = writePlayers(w.players) \o h
    <3>1. writeHockeyists(w.hockeyists) \o writePuck(w.puck) \in Stream
      BY <2>0, JoinType, Zenon
    <3>2. (writePlayers(w.players) \o (writeHockeyists(w.hockeyists) \o writePuck(w.puck)))
             \o rest
          = writePlayers(w.players)
              \o ((writeHockeyists(w.hockeyists) \o writePuck(w.puck)) \o rest)
      <4>1. \A a, b \in Stream : (a \o b) \o rest = a \o (b \o rest)
        BY JoinTwice, SMTT(30)
      <4>2. writePlayers(w.players) \in Stream
        BY <2>0
      <4> QED  BY <3>1, <4>1, <4>2, Zenon
    <3>3. (writeHockeyists(w.hockeyists) \o writePuck(w.puck)) \o rest
          = writeHockeyists(w.hockeyists) \o (writePuck(w.puck) \o rest)
      <4>1. \A a, b \in Stream : (a \o b) \o rest = a \o (b \o rest)
        BY JoinTwice, SMTT(30)
      <4> QED  BY <2>0, <4>1, Zenon
    <3> QED  BY <2>p, <2>h, <3>2, <3>3, Zenon DEF WorldFields
  <2>4. Reads(players, h, w.players, SoundList("player", w.players))
    BY <1>p, <2>0, <2>2, <2>3, ReadPlayers DEF Gives
  <2>5. CASE ~SoundList("player", w.players)
    BY <1>r, <2>4, <2>5 DEF Reads, SoundWorld
  <2>6. CASE SoundList("player", w.players)
    <3>1. Gives(players, h, w.players)
      BY <2>4, <2>6 DEF Reads
    <3>2. Reads(hockeyists, k, w.hockeyists, SoundList("hockeyist", w.hockeyists))
      BY <1>h, <2>0, <2>h, <3>1, ReadHockeyists DEF Gives
    <3>3. CASE ~SoundList("hockeyist", w.hockeyists)
      BY <1>r, <3>2, <3>3 DEF Reads, SoundWorld
    <3>4. CASE SoundList("hockeyist", w.hockeyists)
      <4>1. Gives(hockeyists, k, w.hockeyists)
        BY <3>2, <3>4 DEF Reads
      <4>2. Reads(puck, rest, w.puck, w.puck # Null)
        BY <1>k, <2>0, <2>p, <4>1, ReadPuck DEF Gives
      <4>3. CASE w.puck = Null
        BY <1>r, <4>2, <4>3 DEF Reads, SoundWorld
      <4>4. CASE w.puck # Null
        <5>1. Gives(puck, rest, w.puck)
          BY <4>2, <4>4 DEF Reads
        <5>2. readWorld(rd) = Return(puck, w)
          BY <1>0, <2>e, <2>2, <3>1, <4>1, <5>1 DEF Gives
        <5>3. SoundWorld(w)
          BY <1>2, <2>6, <3>4, <4>4 DEF SoundWorld
        <5> QED  BY <5>1, <5>2, <5>3, ReturnGives DEF Reads
      <4> QED  BY <4>3, <4>4
    <3> QED  BY <3>3, <3>4
  <2> QED  BY <2>5, <2>6
<1> QED  BY <1>1, <1>2

SoundContext(c) ==
  c # Null /\ SoundList("hockeyist", c.hockeyists) /\ SoundWorld(c.world)

\* The contexts that the strategy may see are the complete ones.
LEMMA SoundIsComplete ==
  \A c \in Context : SoundContext(c) <=> Complete(c)
<1> SUFFICES ASSUME NEW c \in Context PROVE SoundContext(c) <=> Complete(c)
  OBVIOUS
<1>1. c # Null /\ c.hockeyists \in Lists("hockeyist") /\ c.world \in World \cup {Null}
  BY NullAssumption DEF Context, ListOf, Lists, Sendable
<1>2. ASSUME NEW list \in Lists("hockeyist")
      PROVE  SoundList("hockeyist", list) <=> NoNullIn(list)
  <2>1. CASE list = Null
    BY <2>1 DEF SoundList, NoNullIn
  <2>2. CASE list # Null
    <3>1. DOMAIN list = 1..Len(list)
      BY <2>2 DEF Lists
    <3>2. \A x : Sound("hockeyist", x) <=> x # Null
      BY DEF Sound
    <3> QED  BY <2>2, <3>1, <3>2 DEF SoundList, AllSound, NoNullIn
  <2> QED  BY <2>1, <2>2
<1>3. ASSUME NEW list \in Lists("player")
      PROVE  SoundList("player", list)
               <=> NoNullIn(list) /\ \A i \in DOMAIN list : list[i].name # Null
  <2>1. CASE list = Null
    BY <2>1 DEF SoundList, NoNullIn
  <2>2. CASE list # Null
    <3>1. DOMAIN list = 1..Len(list)
      BY <2>2 DEF Lists
    <3>2. \A x : Sound("player", x) <=> x # Null /\ x.name # Null
      BY DEF Sound
    <3> QED  BY <2>2, <3>1, <3>2 DEF SoundList, AllSound, NoNullIn
  <2> QED  BY <2>1, <2>2
<1>4. CASE c.world = Null
  BY <1>1, <1>4 DEF SoundContext, Complete, SoundWorld
<1>5. CASE c.world # Null
  <2>1. c.world.players \in Lists("player") /\ c.world.hockeyists \in Lists("hockeyist")
    BY <1>1, <1>5, WorldParts
  <2> QED  BY <1>1, <1>2, <1>3, <1>5, <2>1 DEF SoundContext, Complete, SoundWorld
<1> QED  BY <1>4, <1>5

ContextFields(c) == writeHockeyists(c.hockeyists) \o writeWorld(c.world)

LEMMA ContextWritten ==
  /\ writePlayerContext(Null) = writeBoolean(FALSE)
  /\ \A c \in Context : /\ writePlayerContext(c) = writeBoolean(TRUE) \o ContextFields(c)
                        /\ ContextFields(c) \in Stream
  /\ \A c \in Context \cup {Null} : writePlayerContext(c) \in Stream
<1>1. writePlayerContext(Null) = writeBoolean(FALSE)
  BY DEF writePlayerContext, writeObject
<1>2. ASSUME NEW c \in Context
      PROVE  /\ writePlayerContext(c) = writeBoolean(TRUE) \o ContextFields(c)
             /\ ContextFields(c) \in Stream /\ writePlayerContext(c) \in Stream
  <2>1. writePlayerContext(c) = writeBoolean(TRUE) \o ContextFields(c)
    BY NullAssumption DEF writePlayerContext, writeObject, ContextFields
  <2>2. c.hockeyists \in Lists("hockeyist") /\ c.world \in World \cup {Null}
    BY DEF Context, ListOf, Lists, Sendable
  <2>3. "hockeyist" \in ElementKinds
    BY DEF ElementKinds
  <2>4. writeHockeyists(c.hockeyists) \in Stream /\ writeWorld(c.world) \in Stream
        /\ writeBoolean(TRUE) \in Stream
    BY <2>2, <2>3, ListsWritten, WrittenListType, WorldWritten, WritersType
  <2>5. ContextFields(c) \in Stream
    BY <2>4, JoinType, Zenon DEF ContextFields
  <2>6. writeBoolean(TRUE) \o ContextFields(c) \in Stream
    BY <2>4, <2>5, JoinType, Zenon
  <2> QED  BY <2>1, <2>5, <2>6
<1> QED  BY <1>1, <1>2, WritersType

LEMMA StopWorld ==
  ASSUME NEW rd, ~Reading(rd)
  PROVE  readWorld(rd) = rd
<1>1. readRuns(readPresent(rd, WorldCode), WorldRuns) = rd
  BY StopPresent, StopGoodRuns, LiteralRuns
<1> QED  BY <1>1 DEF readWorld, Then, WorldRuns, WorldCode

LEMMA ContextRead ==
  ASSUME NEW rd, NEW hockeyists, NEW world,
         hockeyists = readHockeyists(readPresent(rd, ContextCode)),
         world = readWorld(hockeyists)
  PROVE  readPlayerContext(rd) =
           Return(world, [hockeyists |-> hockeyists.value, world |-> world.value])
<1>1. readPlayerContext(rd) =
        IF Reading(hockeyists)
        THEN Return(world, [hockeyists |-> hockeyists.value, world |-> world.value])
        ELSE hockeyists
  BY DEF readPlayerContext, Then, Return, ContextCode
<1> QED  BY <1>1, StopWorld, ReturnStops

\* The flag of the context is the cached boolean.
LEMMA ReadContext ==
  ASSUME NEW rd, NEW c \in Context, NEW rest \in Stream,
         IsReader(rd), Reading(rd), rd.cachedBoolFlag, rd.cachedBoolValue,
         rd.in = ContextFields(c) \o rest
  PROVE  Reads(readPlayerContext(rd), rest, c, SoundContext(c))
<1>p. PICK present : present = readPresent(rd, ContextCode)
  OBVIOUS
<1>h. PICK hockeyists : hockeyists = readHockeyists(present)
  OBVIOUS
<1>w. PICK world : world = readWorld(hockeyists)
  OBVIOUS
<1>0. readPlayerContext(rd) =
        Return(world, [hockeyists |-> hockeyists.value, world |-> world.value])
  BY <1>p, <1>h, <1>w, ContextRead
<1>1. Gives(present, ContextFields(c) \o rest, TRUE)
  <2>1. Gives(readBoolean(rd), ContextFields(c) \o rest, TRUE)
    BY ReadCached
  <2>2. present = readBoolean(rd)
    BY <1>p, <2>1 DEF readPresent, Then, Require, Gives, Ready
  <2> QED  BY <2>1, <2>2
<1>2. /\ c # Null /\ c.hockeyists \in Lists("hockeyist") /\ c.world \in World \cup {Null}
      /\ [hockeyists |-> c.hockeyists, world |-> c.world] = c
  BY NullAssumption DEF Context, ListOf, Lists, Sendable
<1>3. "hockeyist" \in ElementKinds
  BY DEF ElementKinds
<1>4. writeHockeyists(c.hockeyists) \in Stream /\ writeWorld(c.world) \in Stream
  BY <1>2, <1>3, ListsWritten, WrittenListType, WorldWritten
<1>5. PICK k \in Stream : k = writeWorld(c.world) \o rest
  BY <1>4, JoinType, Zenon
<1>6. ContextFields(c) \o rest = writeHockeyists(c.hockeyists) \o k
  <2>1. (writeHockeyists(c.hockeyists) \o writeWorld(c.world)) \o rest
          = writeHockeyists(c.hockeyists) \o (writeWorld(c.world) \o rest)
    <3>1. \A a, b \in Stream : (a \o b) \o rest = a \o (b \o rest)
      BY JoinTwice
    <3> QED  BY <1>4, <3>1, Zenon
  <2> QED  BY <1>5, <2>1, Zenon DEF ContextFields
<1>7. Reads(hockeyists, k, c.hockeyists, SoundList("hockeyist", c.hockeyists))
  BY <1>1, <1>2, <1>6, <1>h, ReadHockeyists DEF Gives
<1>r. Refused(world) => Refused(readPlayerContext(rd))
  BY <1>0, Refusing, ReturnStops
<1>8. CASE ~SoundList("hockeyist", c.hockeyists)
  <2>1. Refused(hockeyists)
    BY <1>7, <1>8 DEF Reads
  <2>2. world = hockeyists
    BY <1>w, <2>1, Refusing, StopWorld
  <2> QED  BY <1>8, <1>r, <2>1, <2>2 DEF Reads, SoundContext
<1>9. CASE SoundList("hockeyist", c.hockeyists)
  <2>1. Gives(hockeyists, k, c.hockeyists)
    BY <1>7, <1>9 DEF Reads
  <2>2. Reads(world, rest, c.world, SoundWorld(c.world))
    BY <1>2, <1>5, <1>w, <2>1, ReadWorld DEF Gives
  <2>3. CASE ~SoundWorld(c.world)
    BY <1>r, <2>2, <2>3 DEF Reads, SoundContext
  <2>4. CASE SoundWorld(c.world)
    <3>1. Gives(world, rest, c.world)
      BY <2>2, <2>4 DEF Reads
    <3>2. readPlayerContext(rd) = Return(world, c)
      BY <1>0, <1>2, <2>1, <3>1 DEF Gives
    <3>3. SoundContext(c)
      BY <1>2, <1>9, <2>4 DEF SoundContext
    <3> QED  BY <3>1, <3>2, <3>3, ReturnGives DEF Reads
  <2> QED  BY <2>3, <2>4
<1> QED  BY <1>8, <1>9

-----------------------------------------------------------------------------
(* Messages.                                                               *)

WrongType == 10011
NoMore    == 10012

\* The client's next message is read after n others.
MessageRead(rd, n) ==
  CASE n = 0 -> readTeamSizeMessage(rd)
    [] n = 1 -> readGameContextMessage(rd)
    [] OTHER -> readPlayerContextMessage(rd)

\* The messages that the client takes after n others.
Taken(m, n) ==
  CASE n = 0 -> m.type = TEAM_SIZE
    [] n = 1 -> m.type = GAME_CONTEXT /\ m.body # Null
    [] OTHER -> \/ m.type = GAME_OVER
                \/ m.type = PLAYER_CONTEXT /\ (m.body = Null \/ Complete(m.body))

\* The messages that must not be taken for what they are.
NullInside(m) ==
  \/ m.type = GAME_CONTEXT /\ m.body = Null
  \/ m.type = PLAYER_CONTEXT /\ ~Complete(m.body)

Rejects(r, m) ==
  /\ IsReader(r)
  /\ \/ r.exit = WrongType
     \/ r.exit \in NullCodes /\ NullInside(m)

LEMMA MessageParts ==
  ASSUME NEW m \in Messages
  PROVE  \/ m.type = GAME_OVER /\ m.body = Null
         \/ m.type = TEAM_SIZE /\ m.body \in Int
         \/ m.type = GAME_CONTEXT /\ m.body \in Game \cup {Null}
         \/ m.type = PLAYER_CONTEXT /\ m.body \in Context \cup {Null}
BY MessagesAssumption DEF Messages, Message

LEMMA TypesDiffer ==
  /\ GAME_OVER \in Int /\ TEAM_SIZE \in Int /\ GAME_CONTEXT \in Int
  /\ PLAYER_CONTEXT \in Int /\ MOVES_MESSAGE \in Int
  /\ GAME_OVER # TEAM_SIZE /\ GAME_OVER # GAME_CONTEXT /\ GAME_OVER # PLAYER_CONTEXT
  /\ TEAM_SIZE # GAME_CONTEXT /\ TEAM_SIZE # PLAYER_CONTEXT /\ GAME_CONTEXT # PLAYER_CONTEXT
BY DEF GAME_OVER, TEAM_SIZE, GAME_CONTEXT, PLAYER_CONTEXT, MOVES_MESSAGE

Body(m) ==
  CASE m.type = GAME_OVER      -> <<>>
    [] m.type = TEAM_SIZE      -> writeInt(m.body)
    [] m.type = GAME_CONTEXT   -> writeGame(m.body)
    [] m.type = PLAYER_CONTEXT -> writePlayerContext(m.body)

LEMMA EncodedParts ==
  ASSUME NEW m \in Messages
  PROVE  /\ m.type \in Int
         /\ Encoded(m) = writeEnum(m.type) \o Body(m)
         /\ writeEnum(m.type) \in Stream /\ Body(m) \in Stream /\ Encoded(m) \in Stream
<1>1. m.type \in Int
  BY MessageParts, TypesDiffer
<1>2. Body(m) \in Stream
  <2>1. CASE m.type = GAME_OVER
    BY <2>1, TypesDiffer DEF Body, Stream
  <2>2. CASE m.type = TEAM_SIZE
    BY <2>2, MessageParts, TypesDiffer, WritersType DEF Body
  <2>3. CASE m.type = GAME_CONTEXT
    BY <2>3, MessageParts, TypesDiffer, GameWritten DEF Body
  <2>4. CASE m.type = PLAYER_CONTEXT
    BY <2>4, MessageParts, TypesDiffer, ContextWritten DEF Body
  <2> QED  BY <2>1, <2>2, <2>3, <2>4, MessageParts
<1>3. Encoded(m) = writeEnum(m.type) \o Body(m)
  BY DEF Encoded, Body
<1>4. writeEnum(m.type) \in Stream
  BY <1>1, WritersType
<1> QED  BY <1>1, <1>2, <1>3, <1>4, JoinType

LEMMA ReadType ==
  ASSUME NEW rd, NEW type \in Int, NEW expected \in Int, NEW rest \in Stream,
         Ready(rd, writeEnum(type) \o rest)
  PROVE  /\ Gives(readEnum(rd), rest, type)
         /\ type = expected => Gives(ensureMessageType(readEnum(rd), expected), rest, type)
         /\ type # expected =>
              /\ IsReader(ensureMessageType(readEnum(rd), expected))
              /\ ensureMessageType(readEnum(rd), expected).exit = WrongType
              /\ ~Reading(ensureMessageType(readEnum(rd), expected))
<1>1. PICK rt : rt = readEnum(rd)
  OBVIOUS
<1>2. Gives(rt, rest, type)
  BY <1>1, ReadEnum
<1>3. ensureMessageType(rt, expected) = IF type = expected THEN rt ELSE Exit(rt, WrongType)
  BY <1>2 DEF ensureMessageType, Then, Require, Gives, Ready, WrongType
<1>4. WrongType \in Int /\ WrongType # 0
  BY DEF WrongType
<1> QED  BY <1>1, <1>2, <1>3, <1>4, Exiting DEF Gives, Ready, Reading

LEMMA MessageReady ==
  ASSUME NEW rd, NEW m \in Messages, NEW rest \in Stream, Ready(rd, Encoded(m) \o rest)
  PROVE  /\ m.type \in Int /\ Body(m) \o rest \in Stream
         /\ Ready(rd, writeEnum(m.type) \o (Body(m) \o rest))
<1>1. /\ m.type \in Int /\ Encoded(m) = writeEnum(m.type) \o Body(m)
      /\ writeEnum(m.type) \in Stream /\ Body(m) \in Stream
  BY EncodedParts
<1>2. Body(m) \o rest \in Stream
  BY <1>1, JoinType, Zenon
<1>3. (writeEnum(m.type) \o Body(m)) \o rest = writeEnum(m.type) \o (Body(m) \o rest)
  BY <1>1, JoinTwice, Zenon
<1> QED  BY <1>1, <1>2, <1>3

LEMMA ReadTeamSizeMessage ==
  ASSUME NEW rd, NEW m \in Messages, NEW rest \in Stream, Ready(rd, Encoded(m) \o rest)
  PROVE  IF m.type = TEAM_SIZE THEN Gives(readTeamSizeMessage(rd), rest, m.body)
         ELSE Rejects(readTeamSizeMessage(rd), m)
<1>1. /\ m.type \in Int /\ TEAM_SIZE \in Int /\ Body(m) \o rest \in Stream
      /\ Ready(rd, writeEnum(m.type) \o (Body(m) \o rest))
  BY MessageReady, TypesDiffer
<1>t. PICK type : type = ensureMessageType(readEnum(rd), TEAM_SIZE)
  OBVIOUS
<1>2. readTeamSizeMessage(rd) = readInt(type)
  BY <1>t DEF readTeamSizeMessage
<1>3. CASE m.type = TEAM_SIZE
  <2>1. Gives(type, Body(m) \o rest, TEAM_SIZE)
    BY <1>1, <1>3, <1>t, ReadType
  <2>2. m.body \in Int /\ Body(m) = writeInt(m.body)
    BY <1>3, MessageParts, TypesDiffer DEF Body
  <2>3. Gives(readInt(type), rest, m.body)
    BY <2>1, <2>2, ReadInt DEF Gives
  <2> QED  BY <1>2, <1>3, <2>3
<1>4. CASE m.type # TEAM_SIZE
  <2>1. IsReader(type) /\ type.exit = WrongType /\ ~Reading(type)
    BY <1>1, <1>4, <1>t, ReadType
  <2>2. readInt(type) = type
    BY <2>1, StopFields DEF readInt
  <2>3. Rejects(type, m)
    BY <2>1 DEF Rejects
  <2> QED  BY <1>2, <1>4, <2>2, <2>3
<1> QED  BY <1>3, <1>4

LEMMA StopGame ==
  ASSUME NEW rd, ~Reading(rd)
  PROVE  readGame(rd) = rd
<1>1. readRuns(readPresent(rd, GameCode), GameRuns) = rd
  BY StopPresent, StopGoodRuns, LiteralRuns
<1> QED  BY <1>1, GameRead, ReturnStops

LEMMA ReadGameContextMessage ==
  ASSUME NEW rd, NEW m \in Messages, NEW rest \in Stream, Ready(rd, Encoded(m) \o rest)
  PROVE  IF m.type = GAME_CONTEXT /\ m.body # Null
         THEN Gives(readGameContextMessage(rd), rest, m.body)
         ELSE Rejects(readGameContextMessage(rd), m)
<1>1. /\ m.type \in Int /\ GAME_CONTEXT \in Int /\ Body(m) \o rest \in Stream
      /\ Ready(rd, writeEnum(m.type) \o (Body(m) \o rest))
  BY MessageReady, TypesDiffer
<1>t. PICK type : type = ensureMessageType(readEnum(rd), GAME_CONTEXT)
  OBVIOUS
<1>2. readGameContextMessage(rd) = readGame(type)
  BY <1>t DEF readGameContextMessage
<1>3. CASE m.type = GAME_CONTEXT
  <2>1. Gives(type, Body(m) \o rest, GAME_CONTEXT)
    BY <1>1, <1>3, <1>t, ReadType
  <2>2. m.body \in Game \cup {Null} /\ Body(m) = writeGame(m.body)
    BY <1>3, MessageParts, TypesDiffer DEF Body
  <2>3. Reads(readGame(type), rest, m.body, m.body # Null)
    BY <2>1, <2>2, ReadGame DEF Gives
  <2> QED  BY <1>2, <1>3, <2>3 DEF Reads, Rejects, Refused, NullInside
<1>4. CASE m.type # GAME_CONTEXT
  <2>1. IsReader(type) /\ type.exit = WrongType /\ ~Reading(type)
    BY <1>1, <1>4, <1>t, ReadType
  <2>2. readGame(type) = type
    BY <2>1, StopGame
  <2>3. Rejects(type, m)
    BY <2>1 DEF Rejects
  <2> QED  BY <1>2, <1>4, <2>2, <2>3
<1> QED  BY <1>3, <1>4

\* The last steps of readPlayerContextMessage().
LEMMA ContextMessageRead ==
  ASSUME NEW rd, NEW type, NEW flag, type = readEnum(rd),
         flag = readBoolean(ensureMessageType(type, PLAYER_CONTEXT))
  PROVE  /\ ~Reading(type) => readPlayerContextMessage(rd) = type
         /\ Reading(type) /\ type.value = GAME_OVER =>
              readPlayerContextMessage(rd) = Return(type, Null)
         /\ Reading(type) /\ type.value # GAME_OVER /\ ~Reading(flag) =>
              readPlayerContextMessage(rd) = flag
         /\ Reading(type) /\ type.value # GAME_OVER /\ Reading(flag) =>
              readPlayerContextMessage(rd) =
                IF ~flag.value THEN Return(flag, Null)
                ELSE readPlayerContext([flag EXCEPT !.cachedBoolFlag = TRUE,
                                                    !.cachedBoolValue = TRUE])
BY DEF readPlayerContextMessage, Then

LEMMA PutBack ==
  ASSUME NEW flag, IsReader(flag), NEW back,
         back = [flag EXCEPT !.cachedBoolFlag = TRUE, !.cachedBoolValue = TRUE]
  PROVE  /\ IsReader(back) /\ back.cachedBoolFlag /\ back.cachedBoolValue
         /\ back.in = flag.in /\ back.exit = flag.exit /\ back.value = flag.value
         /\ Reading(flag) => Reading(back)
BY DEF IsReader, Reading

LEMMA ReadPlayerContextMessage ==
  ASSUME NEW rd, NEW m \in Messages, NEW rest \in Stream, Ready(rd, Encoded(m) \o rest)
  PROVE  IF \/ m.type = GAME_OVER
            \/ m.type = PLAYER_CONTEXT /\ (m.body = Null \/ Complete(m.body))
         THEN Gives(readPlayerContextMessage(rd), rest, m.body)
         ELSE Rejects(readPlayerContextMessage(rd), m)
<1>1. /\ m.type \in Int /\ PLAYER_CONTEXT \in Int /\ Body(m) \o rest \in Stream
      /\ Ready(rd, writeEnum(m.type) \o (Body(m) \o rest))
  BY MessageReady, TypesDiffer
<1>t. PICK type : type = readEnum(rd)
  OBVIOUS
<1>e. PICK ensured : ensured = ensureMessageType(type, PLAYER_CONTEXT)
  OBVIOUS
<1>f. PICK flag : flag = readBoolean(ensured)
  OBVIOUS
<1>2. Gives(type, Body(m) \o rest, m.type)
  BY <1>1, <1>t, ReadType
<1>g. Reading(type) /\ type.value = m.type
  BY <1>2 DEF Gives, Ready
<1>3. CASE m.type = GAME_OVER
  <2>1. m.body = Null /\ Body(m) = <<>>
    BY <1>3, MessageParts, TypesDiffer DEF Body
  <2>2. readPlayerContextMessage(rd) = Return(type, Null)
    BY <1>3, <1>t, <1>e, <1>f, <1>g, ContextMessageRead
  <2>3. Gives(type, rest, m.type)
    BY <1>2, <2>1, Nothing
  <2> QED  BY <1>3, <2>1, <2>2, <2>3, ReturnGives
<1>4. CASE m.type = PLAYER_CONTEXT
  <2>0. m.type # GAME_OVER
    BY <1>4, TypesDiffer
  <2>1. Gives(ensured, Body(m) \o rest, PLAYER_CONTEXT)
    BY <1>1, <1>4, <1>t, <1>e, ReadType
  <2>2. m.body \in Context \cup {Null} /\ Body(m) = writePlayerContext(m.body)
    BY <1>4, MessageParts, TypesDiffer DEF Body
  <2>3. CASE m.body = Null
    <3>1. Ready(ensured, writeBoolean(FALSE) \o rest)
      BY <2>1, <2>2, <2>3, ContextWritten DEF Gives
    <3>2. Gives(flag, rest, FALSE)
      BY <1>f, <3>1, ReadBoolean
    <3>3. readPlayerContextMessage(rd) = Return(flag, Null)
      BY <1>t, <1>e, <1>f, <1>g, <2>0, <3>2, ContextMessageRead DEF Gives, Ready
    <3> QED  BY <1>4, <2>3, <3>2, <3>3, ReturnGives
  <2>4. CASE m.body # Null
    <3>0. m.body \in Context
      BY <2>2, <2>4
    <3>s. ContextFields(m.body) \in Stream /\ writeBoolean(TRUE) \in Stream
      BY <3>0, ContextWritten, WritersType
    <3>r. PICK more \in Stream : more = ContextFields(m.body) \o rest
      BY <3>s, JoinType, Zenon
    <3>1. Body(m) \o rest = writeBoolean(TRUE) \o more
      <4>1. (writeBoolean(TRUE) \o ContextFields(m.body)) \o rest
              = writeBoolean(TRUE) \o (ContextFields(m.body) \o rest)
        BY <3>s, JoinTwice, Zenon
      <4>2. Body(m) = writeBoolean(TRUE) \o ContextFields(m.body)
        BY <2>2, <3>0, ContextWritten
      <4> QED  BY <3>r, <4>1, <4>2, Zenon
    <3>2. Gives(flag, more, TRUE)
      BY <1>f, <2>1, <3>1, ReadBoolean DEF Gives
    <3>b. PICK back : back = [flag EXCEPT !.cachedBoolFlag = TRUE, !.cachedBoolValue = TRUE]
      OBVIOUS
    <3>3. readPlayerContextMessage(rd) = readPlayerContext(back)
      <4>1. Reading(flag) /\ flag.value
        BY <3>2 DEF Gives, Ready
      <4>2. readPlayerContextMessage(rd) =
              IF ~flag.value THEN Return(flag, Null)
              ELSE readPlayerContext([flag EXCEPT !.cachedBoolFlag = TRUE,
                                                  !.cachedBoolValue = TRUE])
        BY <1>t, <1>e, <1>f, <1>g, <2>0, <4>1, ContextMessageRead
      <4> QED  BY <3>b, <4>1, <4>2
    <3>4. /\ IsReader(back) /\ Reading(back) /\ back.cachedBoolFlag /\ back.cachedBoolValue
          /\ back.in = more
      <4>1. IsReader(flag) /\ Reading(flag) /\ flag.in = more
        BY <3>2 DEF Gives, Ready
      <4> QED  BY <3>b, <4>1, PutBack
    <3>5. Reads(readPlayerContext(back), rest, m.body, SoundContext(m.body))
      BY <3>0, <3>r, <3>4, ReadContext
    <3>6. SoundContext(m.body) <=> Complete(m.body)
      BY <3>0, SoundIsComplete
    <3>7. CASE Complete(m.body)
      BY <1>4, <3>3, <3>5, <3>6, <3>7 DEF Reads
    <3>8. CASE ~Complete(m.body)
      BY <1>4, <2>0, <2>4, <3>3, <3>5, <3>6, <3>8 DEF Reads, Rejects, Refused, NullInside
    <3> QED  BY <3>7, <3>8
  <2> QED  BY <2>3, <2>4
<1>5. CASE m.type # GAME_OVER /\ m.type # PLAYER_CONTEXT
  <2>1. IsReader(ensured) /\ ensured.exit = WrongType /\ ~Reading(ensured)
    BY <1>1, <1>5, <1>t, <1>e, ReadType
  <2>2. flag = ensured
    BY <1>f, <2>1, StopBoolean
  <2>3. readPlayerContextMessage(rd) = flag
    BY <1>5, <1>t, <1>e, <1>f, <1>g, <2>1, <2>2, ContextMessageRead
  <2>4. Rejects(ensured, m)
    BY <2>1 DEF Rejects
  <2> QED  BY <1>5, <2>2, <2>3, <2>4
<1> QED  BY <1>3, <1>4, <1>5

\* What the client makes of a message that is there, whatever follows it: it takes
\* the message and stops where it ends, or it ends the process because of a null
\* or of another type than it expects.
THEOREM ReadMessage ==
  ASSUME NEW rd, NEW m \in Messages, NEW rest \in Stream, Ready(rd, Encoded(m) \o rest),
         NEW n \in Nat
  PROVE  IF Taken(m, n) THEN Gives(MessageRead(rd, n), rest, m.body)
         ELSE Rejects(MessageRead(rd, n), m)
<1>1. CASE n = 0
  BY <1>1, ReadTeamSizeMessage DEF MessageRead, Taken
<1>2. CASE n = 1
  BY <1>2, ReadGameContextMessage DEF MessageRead, Taken
<1>3. CASE n > 1
  BY <1>3, ReadPlayerContextMessage DEF MessageRead, Taken
<1> QED  BY <1>1, <1>2, <1>3

\* The server reads back the moves that the client wrote, whatever follows them.
THEOREM ReadMovesMessage ==
  ASSUME NEW rd, NEW moves \in Seq(Move), NEW rest \in Stream,
         Ready(rd, writeMovesMessage(moves) \o rest)
  PROVE  Gives(readMovesMessage(rd), rest, moves)
<1>1. writeMoves(moves) \in Stream /\ writeEnum(MOVES_MESSAGE) \in Stream
  <2>1. moves \in Lists("move") /\ "move" \in ElementKinds
    BY DEF Lists, Sendable, ElementKinds
  <2> QED  BY <2>1, ListsWritten, WrittenListType, WritersType, TypesDiffer
<1>2. /\ writeMoves(moves) \o rest \in Stream
      /\ Ready(rd, writeEnum(MOVES_MESSAGE) \o (writeMoves(moves) \o rest))
  BY <1>1, JoinType, JoinTwice DEF writeMovesMessage
<1>t. PICK type : type = ensureMessageType(readEnum(rd), MOVES_MESSAGE)
  OBVIOUS
<1>3. Ready(type, writeMoves(moves) \o rest)
  BY <1>t, <1>2, ReadType, TypesDiffer DEF Gives
<1> QED  BY <1>t, <1>3, ReadMoves DEF readMovesMessage

-----------------------------------------------------------------------------
(* Reading the begin of a stream.                                          *)

\* The reader a has before it the begin of what b has, and `more' follows.
Begins(a, b, more) ==
  /\ IsReader(a) /\ IsReader(b)
  /\ b.in = a.in \o more
  /\ b.exit = a.exit /\ b.value = a.value
  /\ b.cachedBoolFlag = a.cachedBoolFlag /\ b.cachedBoolValue = a.cachedBoolValue

\* So it was, and a has run out of fields or does as b does.
Cut(a, b, more) ==
  IsReader(a) /\ (a.exit = NoMore \/ Begins(a, b, more))

LEMMA OutOfFields ==
  ASSUME NEW rd, rd.exit = NoMore
  PROVE  ~Reading(rd)
BY DEF Reading, NoMore

LEMMA CutReturn ==
  ASSUME NEW a, NEW b, NEW more \in Stream, Cut(a, b, more),
         NEW v, NEW w, Begins(a, b, more) => v = w
  PROVE  Cut(Return(a, v), Return(b, w), more)
<1>1. CASE a.exit = NoMore
  BY <1>1, OutOfFields, ReturnStops DEF Cut
<1>2. CASE Begins(a, b, more)
  <2>1. /\ IsReader(a) /\ IsReader(b) /\ v = w
        /\ Reading(a) <=> Reading(b)
    BY <1>2 DEF Begins, Reading
  <2>2. PICK ra, rb : ra = Return(a, v) /\ rb = Return(b, v)
    OBVIOUS
  <2>3. /\ IsReader(ra) /\ ra.in = a.in /\ ra.exit = a.exit
        /\ ra.cachedBoolFlag = a.cachedBoolFlag /\ ra.cachedBoolValue = a.cachedBoolValue
        /\ ra.value = IF Reading(a) THEN v ELSE a.value
    BY <2>1, <2>2, Returning
  <2>4. /\ IsReader(rb) /\ rb.in = b.in /\ rb.exit = b.exit
        /\ rb.cachedBoolFlag = b.cachedBoolFlag /\ rb.cachedBoolValue = b.cachedBoolValue
        /\ rb.value = IF Reading(b) THEN v ELSE b.value
    BY <2>1, <2>2, Returning
  <2>5. Begins(ra, rb, more)
    BY <1>2, <2>1, <2>3, <2>4 DEF Begins
  <2> QED  BY <2>1, <2>2, <2>3, <2>5 DEF Cut
<1> QED  BY <1>1, <1>2 DEF Cut

LEMMA CutExit ==
  ASSUME NEW a, NEW b, NEW more \in Stream, Begins(a, b, more), NEW code \in Int
  PROVE  Begins(Exit(a, code), Exit(b, code), more)
BY DEF Begins, Exit, IsReader

LEMMA FirstOfMore ==
  ASSUME NEW s \in Stream, s # <<>>, NEW more \in Stream
  PROVE  /\ s \o more # <<>> /\ Head(s \o more) = Head(s)
         /\ Tail(s \o more) = Tail(s) \o more
         /\ Head(s) \in Field /\ Tail(s) \in Stream /\ Tail(s \o more) \in Stream
<1>1. PICK f \in Field, rest \in Stream : f = Head(s) /\ rest = Tail(s) /\ s = <<f>> \o rest
  <2>1. s \in Seq(Field) /\ Len(s) \in Nat /\ Len(s) > 0
    BY DEF Stream
  <2>2. SubSeq(s, 1, Len(s)) = <<s[1]>> \o SubSeq(s, 2, Len(s))
    BY <2>1, SubSeqRecursiveFirst
  <2>3. s = <<Head(s)>> \o Tail(s) /\ Head(s) \in Field /\ Tail(s) \in Seq(Field)
    BY <2>1, <2>2
  <2> QED  BY <2>3 DEF Stream
<1>2. <<f>> \in Stream /\ rest \o more \in Stream
  BY <1>1, First, Join
<1>3. s \o more = <<f>> \o (rest \o more)
  <2>1. (<<f>> \o rest) \o more = <<f>> \o (rest \o more)
    <3>1. \A u \in Stream : (u \o rest) \o more = u \o (rest \o more)
      BY JoinTwice
    <3>2. <<f>> \in Stream
      BY <1>2
    <3> QED  BY <3>1, <3>2, Zenon
  <2> QED  BY <1>1, <2>1
<1>4. /\ <<f>> \o (rest \o more) # <<>> /\ Head(<<f>> \o (rest \o more)) = f
      /\ Tail(<<f>> \o (rest \o more)) = rest \o more
  <2>1. PICK all \in Stream : all = rest \o more
    BY <1>2
  <2> QED  BY <2>1, First
<1> QED  BY <1>1, <1>2, <1>3, <1>4

LEMMA CutFields ==
  ASSUME NEW a, NEW b, NEW more \in Stream, Cut(a, b, more), NEW kind, NEW count
  PROVE  Cut(readFields(a, kind, count), readFields(b, kind, count), more)
<1>1. CASE a.exit = NoMore
  BY <1>1, OutOfFields, StopFields DEF Cut
<1>2. CASE Begins(a, b, more) /\ ~Reading(a)
  <2>1. ~Reading(b)
    BY <1>2 DEF Begins, Reading
  <2> QED  BY <1>2, <2>1, StopFields DEF Cut
<1>3. CASE Begins(a, b, more) /\ Reading(a)
  <2>0. IsReader(a) /\ IsReader(b) /\ a.in \in Stream /\ b.in \in Stream /\ Reading(b)
        /\ b.in = a.in \o more
    BY <1>3 DEF Begins, IsReader, Reading
  <2>1. CASE a.in = <<>>
    <3>1. readFields(a, kind, count) = Exit(a, NoMore) /\ NoMore \in Int
      BY <1>3, <2>1 DEF readFields, NoMore
    <3> QED  BY <2>0, <3>1, Exiting DEF Cut
  <2>2. CASE a.in # <<>>
    <3>1. /\ b.in # <<>> /\ Head(b.in) = Head(a.in) /\ Tail(b.in) = Tail(a.in) \o more
          /\ Head(a.in) \in Field /\ Tail(a.in) \in Stream /\ Tail(b.in) \in Stream
      <4>1. PICK s : s = a.in
        OBVIOUS
      <4>2. s \in Stream /\ s # <<>> /\ b.in = s \o more
        BY <2>0, <2>2, <4>1
      <4>3. /\ s \o more # <<>> /\ Head(s \o more) = Head(s)
            /\ Tail(s \o more) = Tail(s) \o more
            /\ Head(s) \in Field /\ Tail(s) \in Stream /\ Tail(s \o more) \in Stream
        BY <4>2, FirstOfMore
      <4> QED  BY <4>1, <4>2, <4>3
    <3>2. Head(a.in).value \in Int
      BY <3>1 DEF Field
    <3>3. CASE Head(a.in).width = Width[kind] /\ Head(a.in).count = count
      <4>1. /\ readFields(a, kind, count) = [a EXCEPT !.in = Tail(@), !.value = Head(a.in).value]
            /\ readFields(b, kind, count) = [b EXCEPT !.in = Tail(@), !.value = Head(a.in).value]
        <5>1. readFields(a, kind, count) = [a EXCEPT !.in = Tail(@), !.value = Head(a.in).value]
          BY <1>3, <2>2, <3>3 DEF readFields
        <5>2. readFields(b, kind, count) = [b EXCEPT !.in = Tail(@), !.value = Head(b.in).value]
          <6>1. Reading(b) /\ b.in # <<>>
            BY <2>0, <3>1
          <6>2. Head(b.in).width = Width[kind] /\ Head(b.in).count = count
            BY <3>1, <3>3
          <6> QED  BY <6>1, <6>2 DEF readFields
        <5> QED  BY <3>1, <5>1, <5>2
      <4> QED  BY <1>3, <3>1, <4>1 DEF Cut, Begins, IsReader
    <3>4. CASE ~(Head(a.in).width = Width[kind] /\ Head(a.in).count = count)
      <4>1. /\ readFields(a, kind, count) = Exit(a, Garbled)
            /\ readFields(b, kind, count) = Exit(b, Garbled)
        BY <1>3, <2>0, <2>2, <3>1, <3>4 DEF readFields
      <4>2. Garbled \in Int
        BY DEF Garbled
      <4>3. Begins(Exit(a, Garbled), Exit(b, Garbled), more)
        BY <1>3, <4>2, CutExit
      <4> QED  BY <4>1, <4>3 DEF Cut, Begins
    <3> QED  BY <3>3, <3>4
  <2> QED  BY <2>1, <2>2
<1> QED  BY <1>1, <1>2, <1>3 DEF Cut

LEMMA CutBoolean ==
  ASSUME NEW a, NEW b, NEW more \in Stream, Cut(a, b, more)
  PROVE  Cut(readBoolean(a), readBoolean(b), more)
<1>1. CASE a.exit = NoMore
  BY <1>1, OutOfFields, StopBoolean DEF Cut
<1>2. CASE Begins(a, b, more) /\ Reading(a) /\ a.cachedBoolFlag
  <2>1. Reading(b) /\ b.cachedBoolFlag
    BY <1>2 DEF Begins, Reading
  <2>2. /\ readBoolean(a) = [a EXCEPT !.cachedBoolFlag = FALSE, !.value = a.cachedBoolValue]
        /\ readBoolean(b) = [b EXCEPT !.cachedBoolFlag = FALSE, !.value = b.cachedBoolValue]
    BY <1>2, <2>1 DEF readBoolean
  <2> QED  BY <1>2, <2>2 DEF Cut, Begins, IsReader
<1>3. CASE Begins(a, b, more) /\ ~(Reading(a) /\ a.cachedBoolFlag)
  <2>a. PICK fa : fa = readFields(a, "bool", 1)
    OBVIOUS
  <2>b. PICK fb : fb = readFields(b, "bool", 1)
    OBVIOUS
  <2>1. Cut(fa, fb, more)
    BY <2>a, <2>b, CutFields
  <2>2. ~(Reading(b) /\ b.cachedBoolFlag)
    BY <1>3 DEF Begins, Reading
  <2>3. readBoolean(a) = Return(fa, fa.value # 0) /\ readBoolean(b) = Return(fb, fb.value # 0)
    BY <1>3, <2>a, <2>b, <2>2 DEF readBoolean, Then, Return
  <2>4. Begins(fa, fb, more) => fa.value = fb.value
    BY DEF Begins
  <2>5. Cut(Return(fa, fa.value # 0), Return(fb, fb.value # 0), more)
    BY <2>1, <2>4, CutReturn
  <2> QED  BY <2>3, <2>5
<1> QED  BY <1>1, <1>2, <1>3 DEF Cut

LEMMA CutString ==
  ASSUME NEW a, NEW b, NEW more \in Stream, Cut(a, b, more)
  PROVE  Cut(readString(a), readString(b), more)
<1>a. PICK la : la = readInt(a)
  OBVIOUS
<1>b. PICK lb : lb = readInt(b)
  OBVIOUS
<1>1. Cut(la, lb, more)
  BY <1>a, <1>b, CutFields DEF readInt
<1>2. /\ ~Reading(la) => readString(a) = la
      /\ ~Reading(lb) => readString(b) = lb
  BY <1>a, <1>b DEF readString, Then
<1>3. CASE la.exit = NoMore
  BY <1>1, <1>2, <1>3, OutOfFields DEF Cut
<1>4. CASE Begins(la, lb, more)
  <2>0. (Reading(la) <=> Reading(lb)) /\ la.value = lb.value /\ IsReader(la) /\ IsReader(lb)
    BY <1>4 DEF Begins, Reading
  <2>1. CASE ~Reading(la)
    BY <1>1, <1>2, <2>0, <2>1
  <2>2. CASE Reading(la) /\ la.value = -1
    <3>c. NoName \in Int /\ NoName # 0
      BY DEF NoName
    <3>1. ~Reading(Exit(la, NoName)) /\ ~Reading(Exit(lb, NoName))
      BY <2>0, <3>c, Exiting DEF Reading
    <3>2. readString(a) = Exit(la, NoName) /\ readString(b) = Exit(lb, NoName)
      BY <1>a, <1>b, <2>0, <2>2, <3>1 DEF readString, Then, Require, NoName
    <3>3. Begins(Exit(la, NoName), Exit(lb, NoName), more)
      BY <1>4, <3>c, CutExit
    <3> QED  BY <3>2, <3>3 DEF Cut, Begins
  <2>3. CASE Reading(la) /\ la.value # -1
    <3>1. /\ readString(a) = IF la.value = 0 THEN la ELSE readFields(la, "byte", la.value)
          /\ readString(b) = IF la.value = 0 THEN lb ELSE readFields(lb, "byte", la.value)
      BY <1>a, <1>b, <2>0, <2>3 DEF readString, Then, Require
    <3> QED  BY <1>1, <3>1, CutFields
  <2> QED  BY <2>1, <2>2, <2>3
<1> QED  BY <1>1, <1>3, <1>4 DEF Cut

LEMMA CutPresent ==
  ASSUME NEW a, NEW b, NEW more \in Stream, Cut(a, b, more), NEW code \in Int
  PROVE  Cut(readPresent(a, code), readPresent(b, code), more)
<1>a. PICK fa : fa = readBoolean(a)
  OBVIOUS
<1>b. PICK fb : fb = readBoolean(b)
  OBVIOUS
<1>1. Cut(fa, fb, more)
  BY <1>a, <1>b, CutBoolean
<1>2. /\ ~Reading(fa) => readPresent(a, code) = fa
      /\ ~Reading(fb) => readPresent(b, code) = fb
      /\ Reading(fa) => readPresent(a, code) = IF fa.value THEN fa ELSE Exit(fa, code)
      /\ Reading(fb) => readPresent(b, code) = IF fb.value THEN fb ELSE Exit(fb, code)
  BY <1>a, <1>b DEF readPresent, Then, Require
<1>3. CASE fa.exit = NoMore
  BY <1>1, <1>2, <1>3, OutOfFields DEF Cut
<1>4. CASE Begins(fa, fb, more)
  <2>0. (Reading(fa) <=> Reading(fb)) /\ fa.value = fb.value
    BY <1>4 DEF Begins, Reading
  <2>1. Begins(Exit(fa, code), Exit(fb, code), more)
    BY <1>4, CutExit
  <2> QED  BY <1>1, <1>2, <2>0, <2>1 DEF Cut, Begins
<1> QED  BY <1>1, <1>3, <1>4 DEF Cut

LEMMA CutRun ==
  ASSUME NEW a, NEW b, NEW more \in Stream, Cut(a, b, more), NEW run
  PROVE  Cut(readRun(a, run), readRun(b, run), more)
<1>1. CASE run[1] # "bool"
  BY <1>1, CutFields DEF readRun
<1>2. CASE run[1] = "bool"
  <2>a. PICK fa : fa = readBoolean(a)
    OBVIOUS
  <2>b. PICK fb : fb = readBoolean(b)
    OBVIOUS
  <2>1. Cut(fa, fb, more)
    BY <2>a, <2>b, CutBoolean
  <2>2. readRun(a, run) = Return(fa, a.value) /\ readRun(b, run) = Return(fb, b.value)
    BY <1>2, <2>a, <2>b DEF readRun, Then, Return
  <2>3. CASE a.exit = NoMore
    BY <1>2, <2>3, OutOfFields, StopRun DEF Cut
  <2>4. CASE Begins(a, b, more)
    <3>1. a.value = b.value
      BY <2>4 DEF Begins
    <3> QED  BY <2>1, <2>2, <3>1, CutReturn
  <2> QED  BY <2>3, <2>4 DEF Cut
<1> QED  BY <1>1, <1>2

LEMMA CutRuns ==
  ASSUME NEW a, NEW b, NEW more \in Stream, Cut(a, b, more), NEW runs, GoodRuns(runs)
  PROVE  Cut(readRuns(a, runs), readRuns(b, runs), more)
<1>n. PICK n \in Nat : n = Len(runs)
  BY DEF GoodRuns
<1>0. runs \in Seq(Kinds \X Nat)
  BY DEF GoodRuns
<1>1. PICK f : /\ f[0] = a
               /\ \A i \in 0..(Len(runs) - 1) : f[i + 1] = readRun(f[i], runs[i + 1])
               /\ readRuns(a, runs) = f[Len(runs)]
  BY <1>0, RunTrace
<1>2. PICK g : /\ g[0] = b
               /\ \A i \in 0..(Len(runs) - 1) : g[i + 1] = readRun(g[i], runs[i + 1])
               /\ readRuns(b, runs) = g[Len(runs)]
  BY <1>0, RunTrace
<1> DEFINE S == {i \in 0..n : Cut(f[i], g[i], more)}
<1>3. 0 \in S
  BY <1>1, <1>2
<1>4. ASSUME NEW i \in 0..(n - 1), i \in S PROVE i + 1 \in S
  <2>1. f[i + 1] = readRun(f[i], runs[i + 1]) /\ g[i + 1] = readRun(g[i], runs[i + 1])
    BY <1>n, <1>1, <1>2
  <2>2. Cut(readRun(f[i], runs[i + 1]), readRun(g[i], runs[i + 1]), more)
    BY <1>4, CutRun
  <2> QED  BY <2>1, <2>2
<1>5. \A i \in 0..n : i \in S
  <2> HIDE DEF S
  <2> QED  BY <1>3, <1>4, Induction
<1> QED  BY <1>n, <1>1, <1>2, <1>5

\* The head of an object.
LEMMA CutHead ==
  ASSUME NEW a, NEW b, NEW more \in Stream, Cut(a, b, more), NEW runs, GoodRuns(runs),
         NEW code \in Int
  PROVE  Cut(readRuns(readPresent(a, code), runs), readRuns(readPresent(b, code), runs), more)
BY CutPresent, CutRuns

\* A value made of what both have read.
LEMMA SameValue ==
  ASSUME NEW a, NEW b, NEW more, Begins(a, b, more)
  PROVE  a.value = b.value /\ (Reading(a) <=> Reading(b))
BY DEF Begins, Reading

\* What is read first runs out of fields first.
LEMMA CutGame ==
  ASSUME NEW a, NEW b, NEW more \in Stream, Cut(a, b, more)
  PROVE  Cut(readGame(a), readGame(b), more)
<1>1. PICK ia, ib : /\ ia = readRuns(readPresent(a, GameCode), GameRuns)
                    /\ ib = readRuns(readPresent(b, GameCode), GameRuns)
  OBVIOUS
<1>2. Cut(ia, ib, more)
  BY <1>1, CutHead, LiteralRuns DEF GameCode
<1>3. /\ readGame(a) = Return(ia, [id |-> ia.value])
      /\ readGame(b) = Return(ib, [id |-> ib.value])
  BY <1>1, GameRead
<1>4. Begins(ia, ib, more) => [id |-> ia.value] = [id |-> ib.value]
  BY SameValue
<1> QED  BY <1>2, <1>3, <1>4, CutReturn

LEMMA CutPuck ==
  ASSUME NEW a, NEW b, NEW more \in Stream, Cut(a, b, more)
  PROVE  Cut(readPuck(a), readPuck(b), more)
<1>1. PICK ia, ib : /\ ia = readRuns(readPresent(a, PuckCode), PuckRuns)
                    /\ ib = readRuns(readPresent(b, PuckCode), PuckRuns)
  OBVIOUS
<1>2. Cut(ia, ib, more)
  BY <1>1, CutHead, LiteralRuns DEF PuckCode
<1>3. /\ readPuck(a) = Return(ia, [id |-> ia.value])
      /\ readPuck(b) = Return(ib, [id |-> ib.value])
  BY <1>1, PuckRead
<1>4. Begins(ia, ib, more) => [id |-> ia.value] = [id |-> ib.value]
  BY SameValue
<1> QED  BY <1>2, <1>3, <1>4, CutReturn

LEMMA CutHockeyist ==
  ASSUME NEW a, NEW b, NEW more \in Stream, Cut(a, b, more)
  PROVE  Cut(readHockeyist(a), readHockeyist(b), more)
<1>1. PICK ia, ib : /\ ia = readRuns(readPresent(a, HockeyistCode), HockeyistRuns)
                    /\ ib = readRuns(readPresent(b, HockeyistCode), HockeyistRuns)
  OBVIOUS
<1>2. PICK aa, ab : aa = readBoolean(ia) /\ ab = readBoolean(ib)
  OBVIOUS
<1>3. PICK ta, tb : /\ ta = IF aa.value THEN readInt(aa) ELSE Return(aa, -1)
                    /\ tb = IF ab.value THEN readInt(ab) ELSE Return(ab, -1)
  OBVIOUS
<1>4. /\ readHockeyist(a) = IF Reading(aa)
                            THEN Return(ta, [id |-> ia.value, lastActionTick |-> ta.value])
                            ELSE aa
      /\ readHockeyist(b) = IF Reading(ab)
                            THEN Return(tb, [id |-> ib.value, lastActionTick |-> tb.value])
                            ELSE ab
  BY <1>1, <1>2, <1>3, HockeyistRead
<1>5. Cut(ia, ib, more)
  BY <1>1, CutHead, LiteralRuns DEF HockeyistCode
<1>6. Cut(aa, ab, more)
  BY <1>2, <1>5, CutBoolean
<1>7. CASE ~Reading(aa)
  <2>1. Cut(aa, readHockeyist(b), more)
    <3>1. CASE aa.exit = NoMore
      BY <1>6, <3>1 DEF Cut
    <3>2. CASE Begins(aa, ab, more)
      BY <1>4, <1>6, <1>7, <3>2, SameValue
    <3> QED  BY <1>6, <3>1, <3>2 DEF Cut
  <2> QED  BY <1>4, <1>7, <2>1
<1>8. CASE Reading(aa)
  <2>1. Begins(aa, ab, more) /\ Reading(ab) /\ aa.value = ab.value
    BY <1>6, <1>8, OutOfFields, SameValue DEF Cut
  <2>2. Begins(ia, ib, more)
    BY <1>2, <1>5, <1>8, OutOfFields, StopBoolean DEF Cut
  <2>3. Cut(ta, tb, more)
    <3>1. CASE aa.value
      BY <1>3, <1>6, <2>1, <3>1, CutFields DEF readInt
    <3>2. CASE ~aa.value
      BY <1>3, <1>6, <2>1, <3>2, CutReturn
    <3> QED  BY <3>1, <3>2
  <2>4. Begins(ta, tb, more) => [id |-> ia.value, lastActionTick |-> ta.value]
                                = [id |-> ib.value, lastActionTick |-> tb.value]
    BY <2>2, SameValue
  <2>5. Cut(Return(ta, [id |-> ia.value, lastActionTick |-> ta.value]),
            Return(tb, [id |-> ib.value, lastActionTick |-> tb.value]), more)
    BY <2>3, <2>4, CutReturn
  <2> QED  BY <1>4, <1>8, <2>1, <2>5
<1> QED  BY <1>7, <1>8

LEMMA CutPlayer ==
  ASSUME NEW a, NEW b, NEW more \in Stream, Cut(a, b, more)
  PROVE  Cut(readPlayer(a), readPlayer(b), more)
<1>1. PICK ia, ib : /\ ia = readRuns(readPresent(a, PlayerCode), PlayerRuns)
                    /\ ib = readRuns(readPresent(b, PlayerCode), PlayerRuns)
  OBVIOUS
<1>2. PICK na, nb : na = readString(ia) /\ nb = readString(ib)
  OBVIOUS
<1>3. PICK ma, mb : ma = readRuns(na, PlayerRest) /\ mb = readRuns(nb, PlayerRest)
  OBVIOUS
<1>4. /\ readPlayer(a) = Return(ma, [id |-> ia.value, name |-> na.value])
      /\ readPlayer(b) = Return(mb, [id |-> ib.value, name |-> nb.value])
  BY <1>1, <1>2, <1>3, PlayerRead
<1>5. Cut(ia, ib, more)
  BY <1>1, CutHead, LiteralRuns DEF PlayerCode
<1>6. Cut(na, nb, more)
  BY <1>2, <1>5, CutString
<1>7. Cut(ma, mb, more)
  BY <1>3, <1>6, CutRuns, LiteralRuns
<1>8. CASE ma.exit = NoMore
  BY <1>4, <1>7, <1>8, OutOfFields, ReturnStops DEF Cut
<1>9. CASE ma.exit # NoMore
  <2>1. na.exit # NoMore
    BY <1>3, <1>9, OutOfFields, StopGoodRuns, LiteralRuns
  <2>2. ia.exit # NoMore
    BY <1>2, <2>1, OutOfFields, StopString
  <2>3. ia.value = ib.value /\ na.value = nb.value
    BY <1>5, <1>6, <2>1, <2>2, SameValue DEF Cut
  <2>4. [id |-> ia.value, name |-> na.value] = [id |-> ib.value, name |-> nb.value]
    BY <2>3
  <2> QED  BY <1>4, <1>7, <2>4, CutReturn
<1> QED  BY <1>8, <1>9

LEMMA CutMove ==
  ASSUME NEW a, NEW b, NEW more \in Stream, Cut(a, b, more)
  PROVE  Cut(readMove(a), readMove(b), more)
<1>1. PICK ia, ib : /\ ia = readRuns(readPresent(a, MoveCode), MoveRuns)
                    /\ ib = readRuns(readPresent(b, MoveCode), MoveRuns)
  OBVIOUS
<1>2. PICK aa, ab : aa = readEnum(ia) /\ ab = readEnum(ib)
  OBVIOUS
<1>3. PICK ma, mb : /\ ma = CASE aa.value = PASS -> readRuns(aa, MoveRuns)
                              [] aa.value = SUBSTITUTE -> readInt(aa)
                              [] OTHER -> aa
                    /\ mb = CASE ab.value = PASS -> readRuns(ab, MoveRuns)
                              [] ab.value = SUBSTITUTE -> readInt(ab)
                              [] OTHER -> ab
  OBVIOUS
<1>4. /\ readMove(a) = IF Reading(aa)
                       THEN Return(ma, [id |-> ia.value, action |-> aa.value]) ELSE aa
      /\ readMove(b) = IF Reading(ab)
                       THEN Return(mb, [id |-> ib.value, action |-> ab.value]) ELSE ab
  BY <1>1, <1>2, <1>3, MoveRead
<1>5. Cut(ia, ib, more)
  BY <1>1, CutHead, LiteralRuns DEF MoveCode
<1>6. Cut(aa, ab, more)
  BY <1>2, <1>5, CutFields DEF readEnum
<1>7. CASE ~Reading(aa)
  <2>1. CASE aa.exit = NoMore
    BY <1>4, <1>6, <1>7, <2>1 DEF Cut
  <2>2. CASE Begins(aa, ab, more)
    BY <1>4, <1>6, <1>7, <2>2, SameValue
  <2> QED  BY <1>6, <2>1, <2>2 DEF Cut
<1>8. CASE Reading(aa)
  <2>1. Begins(aa, ab, more) /\ Reading(ab) /\ aa.value = ab.value
    BY <1>6, <1>8, OutOfFields, SameValue DEF Cut
  <2>2. Begins(ia, ib, more)
    BY <1>2, <1>5, <1>8, OutOfFields, StopFields DEF Cut, readEnum
  <2>3. Cut(ma, mb, more)
    <3>1. Cut(readRuns(aa, MoveRuns), readRuns(ab, MoveRuns), more)
      BY <1>6, CutRuns, LiteralRuns
    <3>2. Cut(readInt(aa), readInt(ab), more)
      BY <1>6, CutFields DEF readInt
    <3> QED  BY <1>3, <1>6, <2>1, <3>1, <3>2 DEF PASS, SUBSTITUTE
  <2>4. [id |-> ia.value, action |-> aa.value] = [id |-> ib.value, action |-> ab.value]
    BY <2>1, <2>2, SameValue
  <2>5. Cut(Return(ma, [id |-> ia.value, action |-> aa.value]),
            Return(mb, [id |-> ib.value, action |-> ab.value]), more)
    BY <2>3, <2>4, CutReturn
  <2> QED  BY <1>4, <1>8, <2>1, <2>5
<1> QED  BY <1>7, <1>8

LEMMA CutNext ==
  ASSUME NEW a, NEW b, NEW more \in Stream, Cut(a, b, more), NEW kind \in ElementKinds
  PROVE  Cut(readNext(a, kind), readNext(b, kind), more)
<1>1. PICK oa, ob : oa = readElement(a, kind) /\ ob = readElement(b, kind)
  OBVIOUS
<1>2. Cut(oa, ob, more)
  <2>1. CASE kind = "hockeyist"
    BY <1>1, <2>1, CutHockeyist DEF readElement
  <2>2. CASE kind = "player"
    BY <1>1, <2>2, CutPlayer DEF readElement
  <2>3. CASE kind = "move"
    BY <1>1, <2>3, CutMove DEF readElement
  <2> QED  BY <2>1, <2>2, <2>3 DEF ElementKinds
<1>3. /\ readNext(a, kind) = Return(oa, Append(a.value, oa.value))
      /\ readNext(b, kind) = Return(ob, Append(b.value, ob.value))
  BY <1>1, NextRead1
<1>4. CASE oa.exit = NoMore
  BY <1>2, <1>3, <1>4, OutOfFields, ReturnStops DEF Cut
<1>5. CASE oa.exit # NoMore
  <2>1. a.exit # NoMore
    BY <1>1, <1>5, OutOfFields, StopElement
  <2>2. a.value = b.value /\ oa.value = ob.value
    BY <1>2, <1>5, <2>1, SameValue DEF Cut
  <2> QED  BY <1>2, <1>3, <2>2, CutReturn
<1> QED  BY <1>4, <1>5

LEMMA CutElements ==
  ASSUME NEW a, NEW b, NEW more \in Stream, Cut(a, b, more), NEW kind \in ElementKinds,
         NEW n \in Nat
  PROVE  Cut(readElements(a, kind, n), readElements(b, kind, n), more)
<1>1. PICK f : /\ f[0] = a
               /\ \A i \in 0..(n - 1) : f[i + 1] = readNext(f[i], kind)
               /\ readElements(a, kind, n) = f[n]
  BY ElementTrace
<1>2. PICK g : /\ g[0] = b
               /\ \A i \in 0..(n - 1) : g[i + 1] = readNext(g[i], kind)
               /\ readElements(b, kind, n) = g[n]
  BY ElementTrace
<1> DEFINE S == {i \in 0..n : Cut(f[i], g[i], more)}
<1>3. 0 \in S
  BY <1>1, <1>2
<1>4. ASSUME NEW i \in 0..(n - 1), i \in S PROVE i + 1 \in S
  <2>1. f[i + 1] = readNext(f[i], kind) /\ g[i + 1] = readNext(g[i], kind)
    BY <1>1, <1>2
  <2>2. Cut(readNext(f[i], kind), readNext(g[i], kind), more)
    BY <1>4, CutNext
  <2> QED  BY <2>1, <2>2
<1>5. \A i \in 0..n : i \in S
  <2> HIDE DEF S
  <2> QED  BY <1>3, <1>4, Induction
<1> QED  BY <1>1, <1>2, <1>5

LEMMA IntRead ==
  ASSUME NEW rd, IsReader(rd), Reading(readInt(rd))
  PROVE  readInt(rd).value \in Int
<1>1. Reading(rd)
  BY StopFields DEF readInt
<1>2. rd.in \in Stream
  BY DEF IsReader
<1>3. CASE rd.in = <<>>
  <2>1. readInt(rd) = Exit(rd, NoMore) /\ NoMore \in Int /\ NoMore # 0
    BY <1>1, <1>3 DEF readInt, readFields, NoMore
  <2> QED  BY <2>1, Exiting DEF Reading
<1>4. CASE rd.in # <<>>
  <2>1. Head(rd.in) \in Field
    BY <1>2, <1>4 DEF Stream
  <2>2. CASE Head(rd.in).width = Width["int"] /\ Head(rd.in).count = 1
    <3>1. readInt(rd) = [rd EXCEPT !.in = Tail(@), !.value = Head(rd.in).value]
      BY <1>1, <1>4, <2>2 DEF readInt, readFields
    <3> QED  BY <2>1, <3>1 DEF IsReader, Field
  <2>3. CASE ~(Head(rd.in).width = Width["int"] /\ Head(rd.in).count = 1)
    <3>1. readInt(rd) = Exit(rd, Garbled) /\ Garbled \in Int /\ Garbled # 0
      BY <1>1, <1>4, <2>3 DEF readInt, readFields, Garbled
    <3> QED  BY <3>1, Exiting DEF Reading
  <2> QED  BY <2>2, <2>3
<1> QED  BY <1>3, <1>4

LEMMA CutList ==
  ASSUME NEW a, NEW b, NEW more \in Stream, Cut(a, b, more), NEW kind \in ElementKinds,
         NEW code \in Int \ {0}
  PROVE  Cut(readList(a, kind, code), readList(b, kind, code), more)
<1>1. PICK la, lb : la = readInt(a) /\ lb = readInt(b)
  OBVIOUS
<1>2. Cut(la, lb, more)
  BY <1>1, CutFields DEF readInt
<1>3. /\ ~Reading(la) => readList(a, kind, code) = la
      /\ ~Reading(lb) => readList(b, kind, code) = lb
  BY <1>1 DEF readList, Then
<1>4. CASE la.exit = NoMore
  BY <1>2, <1>3, <1>4, OutOfFields DEF Cut
<1>5. CASE Begins(la, lb, more) /\ ~Reading(la)
  BY <1>2, <1>3, <1>5, SameValue
<1>6. CASE Begins(la, lb, more) /\ Reading(la)
  <2>0. /\ IsReader(a) /\ IsReader(la) /\ IsReader(lb) /\ Reading(lb)
        /\ la.value = lb.value /\ la.value \in Int
    BY <1>1, <1>6, IntRead, SameValue DEF Begins, Cut
  <2>1. /\ readList(a, kind, code) =
             IF la.value >= 0 THEN readElements(Return(la, <<>>), kind, la.value)
             ELSE Exit(la, code)
        /\ readList(b, kind, code) =
             IF la.value >= 0 THEN readElements(Return(lb, <<>>), kind, la.value)
             ELSE Exit(lb, code)
    BY <1>1, <1>6, <2>0, ListRead
  <2>2. CASE la.value >= 0
    <3>1. Cut(Return(la, <<>>), Return(lb, <<>>), more) /\ la.value \in Nat
      BY <1>2, <2>0, <2>2, CutReturn
    <3> QED  BY <2>1, <2>2, <3>1, CutElements
  <2>3. CASE ~(la.value >= 0)
    <3>1. Begins(Exit(la, code), Exit(lb, code), more)
      BY <1>6, CutExit
    <3> QED  BY <2>1, <2>3, <3>1 DEF Cut, Begins
  <2> QED  BY <2>2, <2>3
<1> QED  BY <1>2, <1>4, <1>5, <1>6 DEF Cut

LEMMA CutHockeyists ==
  ASSUME NEW a, NEW b, NEW more \in Stream, Cut(a, b, more)
  PROVE  Cut(readHockeyists(a), readHockeyists(b), more)
BY CutList DEF readHockeyists, ElementKinds

LEMMA CutPlayers ==
  ASSUME NEW a, NEW b, NEW more \in Stream, Cut(a, b, more)
  PROVE  Cut(readPlayers(a), readPlayers(b), more)
BY CutList DEF readPlayers, ElementKinds

LEMMA CutWorld ==
  ASSUME NEW a, NEW b, NEW more \in Stream, Cut(a, b, more)
  PROVE  Cut(readWorld(a), readWorld(b), more)
<1>1. PICK ia, ib : /\ ia = readRuns(readPresent(a, WorldCode), WorldRuns)
                    /\ ib = readRuns(readPresent(b, WorldCode), WorldRuns)
  OBVIOUS
<1>2. PICK pa, pb : pa = readPlayers(ia) /\ pb = readPlayers(ib)
  OBVIOUS
<1>3. PICK ha, hb : ha = readHockeyists(pa) /\ hb = readHockeyists(pb)
  OBVIOUS
<1>4. PICK ka, kb : ka = readPuck(ha) /\ kb = readPuck(hb)
  OBVIOUS
<1>5. PICK va, vb :
        /\ va = [id |-> ia.value, players |-> pa.value,
                 hockeyists |-> ha.value, puck |-> ka.value]
        /\ vb = [id |-> ib.value, players |-> pb.value,
                 hockeyists |-> hb.value, puck |-> kb.value]
  OBVIOUS
<1>6. readWorld(a) = Return(ka, va) /\ readWorld(b) = Return(kb, vb)
  BY <1>1, <1>2, <1>3, <1>4, <1>5, WorldRead
<1>7. Cut(ia, ib, more)
  BY <1>1, CutHead, LiteralRuns DEF WorldCode
<1>8. Cut(pa, pb, more)
  BY <1>2, <1>7, CutPlayers
<1>9. Cut(ha, hb, more)
  BY <1>3, <1>8, CutHockeyists
<1>10. Cut(ka, kb, more)
  BY <1>4, <1>9, CutPuck
<1>11. CASE ka.exit = NoMore
  BY <1>6, <1>10, <1>11, OutOfFields, ReturnStops DEF Cut
<1>12. CASE ka.exit # NoMore
  <2>1. ha.exit # NoMore
    BY <1>4, <1>12, OutOfFields, StopPuck
  <2>2. pa.exit # NoMore
    BY <1>3, <2>1, OutOfFields, StopList DEF readHockeyists
  <2>3. ia.exit # NoMore
    BY <1>2, <2>2, OutOfFields, StopList DEF readPlayers
  <2>4. /\ ia.value = ib.value /\ pa.value = pb.value
        /\ ha.value = hb.value /\ ka.value = kb.value
    BY <1>7, <1>8, <1>9, <1>10, <1>12, <2>1, <2>2, <2>3, SameValue DEF Cut
  <2>5. va = vb
    BY <1>5, <2>4
  <2> QED  BY <1>6, <1>10, <2>5, CutReturn
<1> QED  BY <1>11, <1>12

LEMMA CutContext ==
  ASSUME NEW a, NEW b, NEW more \in Stream, Cut(a, b, more)
  PROVE  Cut(readPlayerContext(a), readPlayerContext(b), more)
<1>1. PICK ia, ib : ia = readPresent(a, ContextCode) /\ ib = readPresent(b, ContextCode)
  OBVIOUS
<1>2. PICK ha, hb : ha = readHockeyists(ia) /\ hb = readHockeyists(ib)
  OBVIOUS
<1>3. PICK wa, wb : wa = readWorld(ha) /\ wb = readWorld(hb)
  OBVIOUS
<1>4. /\ readPlayerContext(a) = Return(wa, [hockeyists |-> ha.value, world |-> wa.value])
      /\ readPlayerContext(b) = Return(wb, [hockeyists |-> hb.value, world |-> wb.value])
  BY <1>1, <1>2, <1>3, ContextRead
<1>5. Cut(ia, ib, more)
  BY <1>1, CutPresent DEF ContextCode
<1>6. Cut(ha, hb, more)
  BY <1>2, <1>5, CutHockeyists
<1>7. Cut(wa, wb, more)
  BY <1>3, <1>6, CutWorld
<1>8. CASE wa.exit = NoMore
  BY <1>4, <1>7, <1>8, OutOfFields, ReturnStops DEF Cut
<1>9. CASE wa.exit # NoMore
  <2>1. ha.exit # NoMore
    BY <1>3, <1>9, OutOfFields, StopWorld
  <2>2. ha.value = hb.value /\ wa.value = wb.value
    BY <1>6, <1>7, <1>9, <2>1, SameValue DEF Cut
  <2> QED  BY <1>4, <1>7, <2>2, CutReturn
<1> QED  BY <1>8, <1>9

LEMMA CutType ==
  ASSUME NEW a, NEW b, NEW more \in Stream, Cut(a, b, more), NEW expected
  PROVE  Cut(ensureMessageType(a, expected), ensureMessageType(b, expected), more)
<1>1. /\ ~Reading(a) => ensureMessageType(a, expected) = a
      /\ ~Reading(b) => ensureMessageType(b, expected) = b
      /\ Reading(a) => ensureMessageType(a, expected) =
                         IF a.value = expected THEN a ELSE Exit(a, WrongType)
      /\ Reading(b) => ensureMessageType(b, expected) =
                         IF b.value = expected THEN b ELSE Exit(b, WrongType)
  BY DEF ensureMessageType, Then, Require, WrongType
<1>2. CASE a.exit = NoMore
  BY <1>1, <1>2, OutOfFields DEF Cut
<1>3. CASE Begins(a, b, more)
  <2>1. WrongType \in Int
    BY DEF WrongType
  <2>2. Begins(Exit(a, WrongType), Exit(b, WrongType), more)
    BY <1>3, <2>1, CutExit
  <2> QED  BY <1>1, <1>3, <2>2, SameValue DEF Cut, Begins
<1> QED  BY <1>2, <1>3 DEF Cut

LEMMA CutPutBack ==
  ASSUME NEW a, NEW b, NEW more \in Stream, Begins(a, b, more)
  PROVE  Begins([a EXCEPT !.cachedBoolFlag = TRUE, !.cachedBoolValue = TRUE],
                [b EXCEPT !.cachedBoolFlag = TRUE, !.cachedBoolValue = TRUE], more)
<1>1. PICK ba, bb : /\ ba = [a EXCEPT !.cachedBoolFlag = TRUE, !.cachedBoolValue = TRUE]
                    /\ bb = [b EXCEPT !.cachedBoolFlag = TRUE, !.cachedBoolValue = TRUE]
  OBVIOUS
<1>2. IsReader(a) /\ IsReader(b)
  BY DEF Begins
<1>3. /\ IsReader(ba) /\ ba.in = a.in /\ ba.exit = a.exit /\ ba.value = a.value
      /\ ba.cachedBoolFlag = TRUE /\ ba.cachedBoolValue = TRUE
  BY <1>1, <1>2 DEF IsReader
<1>4. /\ IsReader(bb) /\ bb.in = b.in /\ bb.exit = b.exit /\ bb.value = b.value
      /\ bb.cachedBoolFlag = TRUE /\ bb.cachedBoolValue = TRUE
  BY <1>1, <1>2 DEF IsReader
<1> QED  BY <1>1, <1>3, <1>4 DEF Begins

LEMMA CutContextMessage ==
  ASSUME NEW a, NEW b, NEW more \in Stream, Cut(a, b, more)
  PROVE  Cut(readPlayerContextMessage(a), readPlayerContextMessage(b), more)
<1>1. PICK ta, tb : ta = readEnum(a) /\ tb = readEnum(b)
  OBVIOUS
<1>2. PICK ea, eb : /\ ea = ensureMessageType(ta, PLAYER_CONTEXT)
                    /\ eb = ensureMessageType(tb, PLAYER_CONTEXT)
  OBVIOUS
<1>3. PICK fa, fb : fa = readBoolean(ea) /\ fb = readBoolean(eb)
  OBVIOUS
<1>4. Cut(ta, tb, more)
  BY <1>1, CutFields DEF readEnum
<1>5. Cut(fa, fb, more)
  BY <1>2, <1>3, <1>4, CutType, CutBoolean
<1>6. CASE ~Reading(ta)
  <2>1. readPlayerContextMessage(a) = ta
    BY <1>1, <1>2, <1>3, <1>6, ContextMessageRead
  <2>2. CASE ta.exit = NoMore
    BY <1>4, <2>1, <2>2 DEF Cut
  <2>3. CASE Begins(ta, tb, more)
    <3>1. ~Reading(tb)
      BY <1>6, <2>3, SameValue
    <3>2. readPlayerContextMessage(b) = tb
      BY <1>1, <1>2, <1>3, <3>1, ContextMessageRead
    <3> QED  BY <1>4, <2>1, <3>2
  <2> QED  BY <1>4, <2>2, <2>3 DEF Cut
<1>7. CASE Reading(ta)
  <2>1. Reading(tb) /\ ta.value = tb.value
    BY <1>4, <1>7, OutOfFields, SameValue DEF Cut
  <2>2. CASE ta.value = GAME_OVER
    <3>1. /\ readPlayerContextMessage(a) = Return(ta, Null)
          /\ readPlayerContextMessage(b) = Return(tb, Null)
      BY <1>1, <1>2, <1>3, <1>7, <2>1, <2>2, ContextMessageRead
    <3> QED  BY <1>4, <3>1, CutReturn
  <2>3. CASE ta.value # GAME_OVER /\ ~Reading(fa)
    <3>1. readPlayerContextMessage(a) = fa
      BY <1>1, <1>2, <1>3, <1>7, <2>3, ContextMessageRead
    <3>2. CASE fa.exit = NoMore
      BY <1>5, <3>1, <3>2 DEF Cut
    <3>3. CASE Begins(fa, fb, more)
      <4>1. ~Reading(fb)
        BY <2>3, <3>3, SameValue
      <4>2. readPlayerContextMessage(b) = fb
        BY <1>1, <1>2, <1>3, <2>1, <2>3, <4>1, ContextMessageRead
      <4> QED  BY <1>5, <3>1, <4>2
    <3> QED  BY <1>5, <3>2, <3>3 DEF Cut
  <2>4. CASE ta.value # GAME_OVER /\ Reading(fa)
    <3>1. Begins(fa, fb, more) /\ Reading(fb) /\ fa.value = fb.value
      BY <1>5, <2>4, OutOfFields, SameValue DEF Cut
    <3>2. PICK ba, bb : /\ ba = [fa EXCEPT !.cachedBoolFlag = TRUE, !.cachedBoolValue = TRUE]
                        /\ bb = [fb EXCEPT !.cachedBoolFlag = TRUE, !.cachedBoolValue = TRUE]
      OBVIOUS
    <3>3. readPlayerContextMessage(a) =
            IF ~fa.value THEN Return(fa, Null) ELSE readPlayerContext(ba)
      <4>1. readPlayerContextMessage(a) =
              IF ~fa.value THEN Return(fa, Null)
              ELSE readPlayerContext([fa EXCEPT !.cachedBoolFlag = TRUE,
                                                !.cachedBoolValue = TRUE])
        BY <1>1, <1>2, <1>3, <1>7, <2>4, ContextMessageRead
      <4> QED  BY <3>2, <4>1
    <3>4. readPlayerContextMessage(b) =
            IF ~fa.value THEN Return(fb, Null) ELSE readPlayerContext(bb)
      <4>1. readPlayerContextMessage(b) =
              IF ~fb.value THEN Return(fb, Null)
              ELSE readPlayerContext([fb EXCEPT !.cachedBoolFlag = TRUE,
                                                !.cachedBoolValue = TRUE])
        <5>1. Reading(tb) /\ tb.value # GAME_OVER /\ Reading(fb)
          BY <2>1, <2>4, <3>1
        <5> QED  BY <1>1, <1>2, <1>3, <5>1, ContextMessageRead
      <4> QED  BY <3>1, <3>2, <4>1
    <3>5. Cut(ba, bb, more)
      <4>1. Begins(ba, bb, more)
        BY <3>1, <3>2, CutPutBack
      <4> QED  BY <4>1 DEF Cut, Begins
    <3>6. CASE fa.value
      BY <3>3, <3>4, <3>5, <3>6, CutContext
    <3>7. CASE ~fa.value
      BY <1>5, <3>3, <3>4, <3>7, CutReturn
    <3> QED  BY <3>6, <3>7
  <2> QED  BY <2>2, <2>3, <2>4
<1> QED  BY <1>6, <1>7

LEMMA CutMessage ==
  ASSUME NEW a, NEW b, NEW more \in Stream, Cut(a, b, more), NEW n \in Nat
  PROVE  Cut(MessageRead(a, n), MessageRead(b, n), more)
<1>1. Cut(readEnum(a), readEnum(b), more)
  BY CutFields DEF readEnum
<1>2. Cut(readTeamSizeMessage(a), readTeamSizeMessage(b), more)
  BY <1>1, CutType, CutFields DEF readTeamSizeMessage, readInt
<1>3. Cut(readGameContextMessage(a), readGameContextMessage(b), more)
  BY <1>1, CutType, CutGame DEF readGameContextMessage
<1>4. Cut(readPlayerContextMessage(a), readPlayerContextMessage(b), more)
  BY CutContextMessage
<1> QED  BY <1>2, <1>3, <1>4 DEF MessageRead

\* A message that was cut off before its last field is not taken: its reader ends
\* the process, for want of fields or because of what is already there.
THEOREM ReadBegin ==
  ASSUME NEW rd, NEW m \in Messages, NEW k \in 0..(Len(Encoded(m)) - 1),
         Ready(rd, SubSeq(Encoded(m), 1, k)), NEW n \in Nat
  PROVE  /\ IsReader(MessageRead(rd, n))
         /\ MessageRead(rd, n).exit = NoMore \/ Rejects(MessageRead(rd, n), m)
<1>1. PICK begin, more \in Stream :
        begin = SubSeq(Encoded(m), 1, k) /\ Encoded(m) = begin \o more /\ more # <<>>
  <2>1. PICK e \in Stream : e = Encoded(m)
    BY EncodedParts
  <2>2. k \in 0..(Len(e) - 1) /\ e \in Seq(Field) /\ Len(e) \in Nat
    BY <2>1 DEF Stream
  <2>3. /\ SubSeq(e, 1, k) \in Seq(Field) /\ SubSeq(e, k + 1, Len(e)) \in Seq(Field)
        /\ e = SubSeq(e, 1, k) \o SubSeq(e, k + 1, Len(e))
        /\ SubSeq(e, k + 1, Len(e)) # <<>>
    <3>1. SubSeq(e, 1, k) \in Seq(Field) /\ SubSeq(e, k + 1, Len(e)) \in Seq(Field)
      BY <2>2, SubSeqProperties
    <3>2. Len(SubSeq(e, 1, k)) = k /\ Len(SubSeq(e, k + 1, Len(e))) = Len(e) - k
      BY <2>2
    <3>3. SubSeq(e, k + 1, Len(e)) # <<>>
      <4>1. Len(SubSeq(e, k + 1, Len(e))) > 0
        BY <2>2, <3>2
      <4>2. PICK t \in Seq(Field) : t = SubSeq(e, k + 1, Len(e))
        BY <3>1
      <4>3. Len(t) > 0
        BY <4>1, <4>2
      <4>4. t # <<>>
        BY <4>3
      <4> QED  BY <4>2, <4>4
    <3>4. e = SubSeq(e, 1, k) \o SubSeq(e, k + 1, Len(e))
      BY <2>2
    <3> QED  BY <3>1, <3>3, <3>4
  <2> QED  BY <2>1, <2>3 DEF Stream
<1>2. PICK b : b = [rd EXCEPT !.in = Encoded(m)]
  OBVIOUS
<1>3. Encoded(m) \in Stream /\ Encoded(m) \o <<>> = Encoded(m) /\ <<>> \in Stream
  BY EncodedParts, Nothing
<1>4. Ready(b, Encoded(m) \o <<>>) /\ Begins(rd, b, more)
  BY <1>1, <1>2, <1>3 DEF Ready, Begins, IsReader, Reading
<1>5. PICK ra, rb : ra = MessageRead(rd, n) /\ rb = MessageRead(b, n)
  OBVIOUS
<1>6. Cut(ra, rb, more)
  <2>1. Cut(rd, b, more)
    BY <1>4 DEF Cut, Begins
  <2> QED  BY <1>1, <1>5, <2>1, CutMessage
<1>7. IF Taken(m, n) THEN Gives(rb, <<>>, m.body) ELSE Rejects(rb, m)
  BY <1>3, <1>4, <1>5, ReadMessage
<1>8. CASE Begins(ra, rb, more)
  <2>1. CASE Taken(m, n)
    <3>1. ra.in \in Stream /\ ra.in \o more = <<>>
      BY <1>7, <1>8, <2>1 DEF Begins, Gives, Ready, IsReader
    <3>2. FALSE
      BY <1>1, <3>1 DEF Stream
    <3> QED  BY <3>2
  <2>2. CASE ~Taken(m, n)
    BY <1>5, <1>7, <1>8, <2>2 DEF Rejects, Begins
  <2> QED  BY <2>1, <2>2
<1> QED  BY <1>5, <1>6, <1>8 DEF Cut

\* From an empty stream nothing is read.
LEMMA ReadNothing ==
  ASSUME NEW rd, Ready(rd, <<>>), NEW n \in Nat
  PROVE  IsReader(MessageRead(rd, n)) /\ MessageRead(rd, n).exit = NoMore
<1>1. PICK type : type = readEnum(rd)
  OBVIOUS
<1>2. type = Exit(rd, NoMore) /\ NoMore \in Int
  BY <1>1 DEF readEnum, readFields, NoMore, Ready
<1>3. IsReader(type) /\ type.exit = NoMore /\ ~Reading(type)
  BY <1>2, Exiting, OutOfFields DEF Ready
<1>4. \A expected : ensureMessageType(type, expected) = type
  BY <1>3 DEF ensureMessageType, Then
<1>5. readTeamSizeMessage(rd) = type
  BY <1>1, <1>3, <1>4, StopFields DEF readTeamSizeMessage, readInt
<1>6. readGameContextMessage(rd) = type
  BY <1>1, <1>3, <1>4, StopGame DEF readGameContextMessage
<1>7. readPlayerContextMessage(rd) = type
  BY <1>1, <1>3, ContextMessageRead
<1> QED  BY <1>3, <1>5, <1>6, <1>7 DEF MessageRead

LEMMA AnswerWritten ==
  \A moves \in Seq(Move) :
    writeMovesMessage(moves) \in Stream /\ writeMovesMessage(moves) # <<>>
<1> SUFFICES ASSUME NEW moves \in Seq(Move)
             PROVE  writeMovesMessage(moves) \in Stream /\ writeMovesMessage(moves) # <<>>
  OBVIOUS
<1>1. writeMoves(moves) \in Stream
  <2>1. moves \in Lists("move") /\ "move" \in ElementKinds
    BY DEF Lists, Sendable, ElementKinds
  <2> QED  BY <2>1, ListsWritten, WrittenListType
<1>2. writeEnum(MOVES_MESSAGE) \in Stream
  BY WritersType, TypesDiffer
<1>3. writeMovesMessage(moves) \in Stream
  BY <1>1, <1>2, JoinType, Zenon DEF writeMovesMessage
<1>4. writeMovesMessage(moves) # <<>>
  <2>1. PICK f : writeEnum(MOVES_MESSAGE) = <<f>>
    BY DEF writeEnum, Fields
  <2>2. f \in Field
    BY <1>2, <2>1 DEF Stream
  <2> QED  BY <1>1, <2>1, <2>2, First DEF writeMovesMessage
<1> QED  BY <1>3, <1>4

-----------------------------------------------------------------------------
(* Messages that wait.                                                     *)

\* Entries from+1 ... of `list', each as it is written.
LEMMA FirstWaits ==
  ASSUME NEW A, NEW n \in Nat, NEW from \in 0..(n - 1), NEW e,
         \A i \in 1..n : e[i] \in A
  PROVE  /\ [i \in 1..(n - from) |-> e[from + i]]
              = <<e[from + 1]>> \o [i \in 1..(n - (from + 1)) |-> e[(from + 1) + i]]
         /\ e[from + 1] \in A
         /\ [i \in 1..(n - (from + 1)) |-> e[(from + 1) + i]] \in Seq(A)
<1> DEFINE u == [i \in 1..(n - from) |-> e[from + i]]
           v == [i \in 1..(n - (from + 1)) |-> e[(from + 1) + i]]
<1>1. v \in Seq(A) /\ Len(v) = n - (from + 1)
  OBVIOUS
<1>2. u \in Seq(A) /\ Len(u) = n - from
  OBVIOUS
<1>3. e[from + 1] \in A
  OBVIOUS
<1>4. <<e[from + 1]>> \o v \in Seq(A) /\ Len(<<e[from + 1]>> \o v) = n - from
  BY <1>1, <1>3
<1>5. ASSUME NEW i \in 1..(n - from) PROVE u[i] = (<<e[from + 1]>> \o v)[i]
  <2>1. CASE i = 1
    BY <1>1, <1>3, <2>1
  <2>2. CASE i # 1
    <3>1. i - 1 \in 1..(n - (from + 1))
      BY <2>2
    <3>2. v[i - 1] = e[(from + 1) + (i - 1)]
      BY <3>1
    <3>3. (<<e[from + 1]>> \o v)[i] = v[i - 1]
      BY <1>1, <1>3, <2>2
    <3> QED  BY <3>2, <3>3
  <2> QED  BY <2>1, <2>2
<1>6. u = <<e[from + 1]>> \o v
  <2> HIDE DEF u, v
  <2>1. PICK w \in Seq(A) : w = <<e[from + 1]>> \o v
    BY <1>4
  <2>2. Len(u) = Len(w) /\ \A i \in 1..Len(u) : u[i] = w[i]
    BY <1>2, <1>4, <1>5, <2>1
  <2>3. u = w
    BY <1>2, <2>2
  <2> QED  BY <2>1, <2>3
<1> QED  BY <1>1, <1>3, <1>6

LEMMA LastWaits ==
  ASSUME NEW A, NEW n \in Nat, NEW from \in 0..n, NEW e, NEW g,
         \A i \in 1..n : g[i] = e[i] /\ e[i] \in A, g[n + 1] \in A
  PROVE  /\ [i \in 1..((n + 1) - from) |-> g[from + i]]
              = Append([i \in 1..(n - from) |-> e[from + i]], g[n + 1])
         /\ [i \in 1..(n - from) |-> e[from + i]] \in Seq(A)
<1> DEFINE u == [i \in 1..((n + 1) - from) |-> g[from + i]]
           v == [i \in 1..(n - from) |-> e[from + i]]
<1>1. v \in Seq(A) /\ Len(v) = n - from
  OBVIOUS
<1>2. u \in Seq(A) /\ Len(u) = (n + 1) - from
  OBVIOUS
<1>3. Append(v, g[n + 1]) \in Seq(A) /\ Len(Append(v, g[n + 1])) = (n + 1) - from
  BY <1>1
<1>4. ASSUME NEW i \in 1..((n + 1) - from) PROVE u[i] = Append(v, g[n + 1])[i]
  <2>1. CASE from + i = n + 1
    <3>1. i = Len(v) + 1 /\ u[i] = g[n + 1]
      BY <1>1, <2>1
    <3> HIDE DEF u, v
    <3> QED  BY <1>1, <3>1
  <2>2. CASE from + i # n + 1
    <3>1. i \in 1..(n - from) /\ from + i \in 1..n
      BY <2>2
    <3>2. v[i] = e[from + i] /\ u[i] = g[from + i] /\ g[from + i] = e[from + i]
      BY <3>1
    <3> HIDE DEF u, v
    <3> QED  BY <1>1, <3>1, <3>2
  <2> QED  BY <2>1, <2>2
<1>5. u = Append(v, g[n + 1])
  <2> HIDE DEF u, v
  <2>1. PICK w \in Seq(A) : w = Append(v, g[n + 1])
    BY <1>3
  <2>2. Len(u) = Len(w) /\ \A i \in 1..Len(u) : u[i] = w[i]
    BY <1>2, <1>3, <1>4, <2>1
  <2>3. u = w
    BY <1>2, <2>2
  <2> QED  BY <2>1, <2>3
<1> QED  BY <1>1, <1>5

\* The entries of `e' after the first n.
Queue(e, n) == [i \in 1..(Len(e) - n) |-> e[n + i]]

LEMMA QueueFirst ==
  ASSUME NEW e \in Seq(Stream), NEW n \in 0..(Len(e) - 1)
  PROVE  /\ e[n + 1] \in Stream /\ FlattenSeq(Queue(e, n + 1)) \in Stream
         /\ FlattenSeq(Queue(e, n)) = e[n + 1] \o FlattenSeq(Queue(e, n + 1))
<1>1. \A i \in 1..Len(e) : e[i] \in Stream
  OBVIOUS
<1>2. /\ Queue(e, n) = <<e[n + 1]>> \o Queue(e, n + 1)
      /\ e[n + 1] \in Stream /\ Queue(e, n + 1) \in Seq(Stream)
  BY <1>1, FirstWaits DEF Queue
<1>3. PICK s \in Stream : s = e[n + 1]
  BY <1>2
<1>4. PICK more \in Seq(Stream) : more = Queue(e, n + 1)
  BY <1>2
<1>5. FlattenSeq(<<s>> \o more) = s \o FlattenSeq(more)
  BY FlattenCons DEF Stream
<1>6. FlattenSeq(more) \in Stream
  BY FlattenAppend, <1>3 DEF Stream
<1> QED  BY <1>2, <1>3, <1>4, <1>5, <1>6

LEMMA QueueLast ==
  ASSUME NEW e \in Seq(Stream), NEW s \in Stream, NEW n \in 0..Len(e)
  PROVE  /\ FlattenSeq(Queue(e, n)) \in Stream
         /\ FlattenSeq(Queue(Append(e, s), n)) = FlattenSeq(Queue(e, n)) \o s
<1>1. PICK g : g = Append(e, s)
  OBVIOUS
<1>2. /\ \A i \in 1..Len(e) : g[i] = e[i] /\ e[i] \in Stream
      /\ g[Len(e) + 1] = s /\ Len(g) = Len(e) + 1
  BY <1>1
<1>3. Queue(g, n) = Append(Queue(e, n), s) /\ Queue(e, n) \in Seq(Stream)
  <2>1. PICK m \in Nat : m = Len(e)
    OBVIOUS
  <2>2. /\ n \in 0..m /\ g[m + 1] \in Stream
        /\ \A i \in 1..m : g[i] = e[i] /\ e[i] \in Stream
    BY <1>2, <2>1
  <2>3. /\ [i \in 1..((m + 1) - n) |-> g[n + i]]
             = Append([i \in 1..(m - n) |-> e[n + i]], g[m + 1])
        /\ [i \in 1..(m - n) |-> e[n + i]] \in Seq(Stream)
    BY <2>2, LastWaits
  <2> QED  BY <1>2, <2>1, <2>3 DEF Queue
<1>4. PICK q \in Seq(Stream) : q = Queue(e, n)
  BY <1>3
<1>5. FlattenSeq(q) \in Stream /\ FlattenSeq(Append(q, s)) = FlattenSeq(q) \o s
  BY FlattenAppend DEF Stream
<1> QED  BY <1>1, <1>3, <1>4, <1>5

LEMMA QueueEmpty ==
  ASSUME NEW e \in Seq(Stream)
  PROVE  FlattenSeq(Queue(e, Len(e))) = <<>>
<1>1. Queue(e, Len(e)) = <<>>
  BY DEF Queue
<1> QED  BY <1>1, FlattenNothing

\* What is still to be read after n entries of `list', each written as `form' says.
Left(form, list, n) == FlattenSeq(Queue([i \in 1..Len(list) |-> form[list[i]]], n))

LEMMA LeftIs ==
  ASSUME NEW S, NEW form, \A x \in S : form[x] \in Stream, NEW s \in Seq(S), NEW all,
         all = [i \in 1..Len(s) |-> form[s[i]]]
  PROVE  /\ all \in Seq(Stream) /\ Len(all) = Len(s)
         /\ \A m \in S :
              [i \in 1..Len(Append(s, m)) |-> form[Append(s, m)[i]]] = Append(all, form[m])
<1>0. \A i \in 1..Len(s) : s[i] \in S /\ form[s[i]] \in Stream
  OBVIOUS
<1>1. all \in Seq(Stream) /\ Len(all) = Len(s)
  BY <1>0
<1>3. ASSUME NEW m \in S
      PROVE  [i \in 1..Len(Append(s, m)) |-> form[Append(s, m)[i]]] = Append(all, form[m])
  <2>1. Append(s, m) \in Seq(S)
    OBVIOUS
  <2>2. PICK t \in Seq(S) : t = Append(s, m)
    BY <2>1
  <2>3. /\ Len(t) = Len(s) + 1 /\ t[Len(s) + 1] = m
        /\ \A i \in 1..Len(s) : t[i] = s[i]
    BY <2>2
  <2>a. \A i \in 1..Len(t) : t[i] \in S /\ form[t[i]] \in Stream
    OBVIOUS
  <2>4. [i \in 1..Len(t) |-> form[t[i]]] \in Seq(Stream)
    BY <2>a
  <2>5. PICK a \in Seq(Stream) : a = [i \in 1..Len(t) |-> form[t[i]]]
    BY <2>4
  <2>6. PICK e \in Stream : e = form[m]
    OBVIOUS
  <2>7. Append(all, e) \in Seq(Stream)
    BY <1>1
  <2>8. PICK b \in Seq(Stream) : b = Append(all, e)
    BY <2>7
  <2>9. Len(a) = Len(s) + 1 /\ \A i \in 1..(Len(s) + 1) : a[i] = form[t[i]]
    BY <2>3, <2>5
  <2>10. /\ Len(b) = Len(s) + 1 /\ b[Len(s) + 1] = e
         /\ \A i \in 1..Len(s) : b[i] = form[s[i]]
    BY <1>1, <2>8
  <2>11. \A i \in 1..Len(a) : a[i] = b[i]
    <3>1. ASSUME NEW i \in 1..Len(s) PROVE a[i] = b[i]
      <4>1. i \in 1..(Len(s) + 1) /\ t[i] = s[i]
        BY <2>3
      <4> QED  BY <2>9, <2>10, <4>1
    <3>2. a[Len(s) + 1] = b[Len(s) + 1]
      <4>1. Len(s) + 1 \in 1..(Len(s) + 1)
        OBVIOUS
      <4> QED  BY <2>3, <2>6, <2>9, <2>10, <4>1
    <3>3. \A i \in 1..Len(a) : i \in 1..Len(s) \/ i = Len(s) + 1
      BY <2>9
    <3> QED  BY <3>1, <3>2, <3>3
  <2>12. a = b
    BY <2>9, <2>10, <2>11
  <2> QED  BY <2>2, <2>5, <2>6, <2>8, <2>12
<1> QED  BY <1>1, <1>3

LEMMA LeftList ==
  ASSUME NEW S, NEW form, \A x \in S : form[x] \in Stream, NEW s \in Seq(S), NEW n \in 0..Len(s)
  PROVE  Left(form, s, n) = FlattenSeq([i \in 1..(Len(s) - n) |-> form[s[n + i]]])
<1>a. PICK all : all = [i \in 1..Len(s) |-> form[s[i]]]
  OBVIOUS
<1>b. Len(all) = Len(s) /\ \A i \in 1..Len(s) : all[i] = form[s[i]]
  BY <1>a
<1>1. Queue(all, n) = [i \in 1..(Len(s) - n) |-> form[s[n + i]]]
  BY <1>b DEF Queue
<1> QED  BY <1>a, <1>1 DEF Left

LEMMA LeftFirst ==
  ASSUME NEW S, NEW form, \A x \in S : form[x] \in Stream, NEW s \in Seq(S),
         NEW n \in 0..(Len(s) - 1)
  PROVE  /\ s[n + 1] \in S /\ Left(form, s, n + 1) \in Stream
         /\ Left(form, s, n) = form[s[n + 1]] \o Left(form, s, n + 1)
<1>a. PICK all : all = [i \in 1..Len(s) |-> form[s[i]]]
  OBVIOUS
<1>1. all \in Seq(Stream) /\ Len(all) = Len(s)
  BY <1>a, LeftIs
<1>2. all[n + 1] = form[s[n + 1]] /\ s[n + 1] \in S
  BY <1>a
<1>3. n \in 0..(Len(all) - 1)
  BY <1>1
<1> QED  BY <1>a, <1>1, <1>2, <1>3, QueueFirst DEF Left

LEMMA LeftMore ==
  ASSUME NEW S, NEW form, \A x \in S : form[x] \in Stream, NEW s \in Seq(S),
         NEW n \in 0..Len(s), NEW m \in S
  PROVE  /\ Left(form, s, n) \in Stream
         /\ Left(form, Append(s, m), n) = Left(form, s, n) \o form[m]
<1>a. PICK all : all = [i \in 1..Len(s) |-> form[s[i]]]
  OBVIOUS
<1>1. /\ all \in Seq(Stream) /\ Len(all) = Len(s)
      /\ [i \in 1..Len(Append(s, m)) |-> form[Append(s, m)[i]]] = Append(all, form[m])
  BY <1>a, LeftIs
<1>2. form[m] \in Stream /\ n \in 0..Len(all)
  BY <1>1
<1>3. /\ FlattenSeq(Queue(all, n)) \in Stream
      /\ FlattenSeq(Queue(Append(all, form[m]), n)) = FlattenSeq(Queue(all, n)) \o form[m]
  BY <1>1, <1>2, QueueLast
<1>4. Left(form, s, n) = FlattenSeq(Queue(all, n))
  BY <1>a DEF Left
<1>5. Left(form, Append(s, m), n) = FlattenSeq(Queue(Append(all, form[m]), n))
  BY <1>1 DEF Left
<1> QED  BY <1>3, <1>4, <1>5

LEMMA LeftNothing ==
  ASSUME NEW S, NEW form, \A x \in S : form[x] \in Stream, NEW s \in Seq(S)
  PROVE  Left(form, s, Len(s)) = <<>>
<1>a. PICK all : all = [i \in 1..Len(s) |-> form[s[i]]]
  OBVIOUS
<1>1. all \in Seq(Stream) /\ Len(all) = Len(s)
  BY <1>a, LeftIs
<1> QED  BY <1>a, <1>1, QueueEmpty DEF Left

-----------------------------------------------------------------------------
(* The invariant.                                                          *)

MessageFields == [m \in Messages |-> Encoded(m)]
AnswerFields  == [moves \in MoveLists |-> writeMovesMessage(moves)]

Codes  == {-1, 0, WrongType, NoMore} \cup NullCodes
Bodies == {m.body : m \in Messages}

\* While the connection holds, what waits for the client are the messages that
\* it has not read; once it is lost, a begin of the last one.
ClientInv ==
  /\ input \in Stream /\ cachedBoolFlag \in BOOLEAN /\ cachedBoolValue \in BOOLEAN
  /\ exitCode \in Codes /\ lost \in BOOLEAN
  /\ sent \in Seq(Messages) /\ received \in Seq(Bodies)
  /\ Len(sent) <= MaxMessages + IF lost THEN 1 ELSE 0
  /\ Len(received) <= Len(sent) - IF lost THEN 1 ELSE 0
  /\ \A i \in 1..Len(received) : received[i] = sent[i].body
  /\ \A i \in 3..Len(received) : sent[i].body = Null \/ Complete(sent[i].body)
  /\ exitCode \in NullCodes => NullInside(sent[Len(received) + 1])
  /\ Running =>
       /\ ~cachedBoolFlag
       /\ lost => /\ Len(sent) = Len(received) + 1
                  /\ IsStrictPrefix(input, Left(MessageFields, sent, Len(received)))
       /\ ~lost => input = Left(MessageFields, sent, Len(received))

\* What waits for the server are the answers that it has not read.
ServerInv ==
  /\ movesSent \in Seq(MoveLists) /\ movesRead \in Seq(MoveLists)
  /\ MovesAsSent
  /\ output = Left(AnswerFields, movesSent, Len(movesRead))

IInv == ClientInv /\ ServerInv

LEMMA FieldsOfAll ==
  /\ \A m \in Messages : MessageFields[m] \in Stream
  /\ \A m \in Messages : MessageFields[m] = Encoded(m) /\ Encoded(m) \in Stream
  /\ \A moves \in MoveLists : AnswerFields[moves] \in Stream
  /\ \A moves \in MoveLists :
       /\ AnswerFields[moves] = writeMovesMessage(moves)
       /\ moves \in Seq(Move)
<1>1. \A m \in Messages : Encoded(m) \in Stream
  BY EncodedParts
<1>2. \A moves \in MoveLists : moves \in Seq(Move) /\ writeMovesMessage(moves) \in Stream
  BY AnswerWritten, MessagesAssumption
<1> QED  BY <1>1, <1>2 DEF MessageFields, AnswerFields

\* `unread' of Framed.
LEMMA Unread ==
  ASSUME NEW s \in Seq(Messages), NEW n \in 0..Len(s)
  PROVE  FlattenSeq([i \in 1..(Len(s) - n) |-> Encoded(s[n + i])]) = Left(MessageFields, s, n)
<1>1. Left(MessageFields, s, n)
        = FlattenSeq([i \in 1..(Len(s) - n) |-> MessageFields[s[n + i]]])
  BY LeftList, FieldsOfAll
<1>2. [i \in 1..(Len(s) - n) |-> MessageFields[s[n + i]]]
        = [i \in 1..(Len(s) - n) |-> Encoded(s[n + i])]
  <2>1. \A i \in 1..(Len(s) - n) : s[n + i] \in Messages
    OBVIOUS
  <2> QED  BY <2>1, FieldsOfAll
<1> QED  BY <1>1, <1>2

LEMMA CodesDiffer ==
  /\ -1 \notin NullCodes /\ 0 \notin NullCodes
  /\ WrongType \notin NullCodes /\ NoMore \notin NullCodes
  /\ WrongType # NoMore /\ WrongType # -1 /\ NoMore # -1 /\ WrongType # 0 /\ NoMore # 0
  /\ Codes \subseteq Int /\ NullCodes \subseteq Codes
  /\ WrongType \in Codes /\ NoMore \in Codes /\ -1 \in Codes /\ 0 \in Codes
BY DEF Codes, NullCodes, WrongType, NoMore

\* The properties of the client, from the invariant.
LEMMA ClientProperties ==
  ASSUME ClientInv
  PROVE  TypeOK /\ ReceivedAsSent /\ Framed /\ OnlyComplete
<1>1. TypeOK
  <2>1. Len(received) <= MaxMessages
    BY BoundsAssumption DEF ClientInv
  <2> QED  BY <2>1 DEF TypeOK, ClientInv, Codes, WrongType, NoMore
<1>2. ReceivedAsSent
  BY DEF ReceivedAsSent, ClientInv
<1>3. Framed
  <2>1. sent \in Seq(Messages) /\ Len(received) \in 0..Len(sent)
    BY DEF ClientInv
  <2>2. FlattenSeq([i \in 1..(Len(sent) - Len(received)) |-> Encoded(sent[Len(received) + i])])
          = Left(MessageFields, sent, Len(received))
    BY <2>1, Unread
  <2> QED  BY <2>2 DEF Framed, ClientInv
<1>4. OnlyComplete
  BY DEF OnlyComplete, NullInside, ClientInv
<1> QED  BY <1>1, <1>2, <1>3, <1>4

LEMMA InitialInv == Init => IInv
<1> SUFFICES ASSUME Init PROVE IInv
  OBVIOUS
<1>1. Left(MessageFields, sent, Len(received)) = <<>>
  <2>1. sent \in Seq(Messages) /\ Len(received) = Len(sent)
    BY DEF Init
  <2> QED  BY <2>1, FieldsOfAll, LeftNothing
<1>2. Left(AnswerFields, movesSent, Len(movesRead)) = <<>>
  <2>1. movesSent \in Seq(MoveLists) /\ Len(movesRead) = Len(movesSent)
    BY DEF Init
  <2> QED  BY <2>1, FieldsOfAll, LeftNothing
<1>3. ClientInv
  <2>1. /\ sent \in Seq(Messages) /\ received \in Seq(Bodies) /\ input \in Stream
        /\ Len(sent) = 0 /\ Len(received) = 0 /\ lost = FALSE
    BY DEF Init, Stream
  <2>2. Len(sent) <= MaxMessages + IF lost THEN 1 ELSE 0
    BY <2>1, BoundsAssumption
  <2>3. exitCode = -1 /\ exitCode \in Codes /\ exitCode \notin NullCodes
    BY CodesDiffer DEF Init
  <2>4. input = Left(MessageFields, sent, Len(received))
    BY <1>1 DEF Init
  <2>5. /\ cachedBoolFlag \in BOOLEAN /\ cachedBoolValue \in BOOLEAN /\ lost \in BOOLEAN
        /\ ~cachedBoolFlag /\ ~lost
    BY DEF Init
  <2>6. /\ Len(received) <= Len(sent) - IF lost THEN 1 ELSE 0
        /\ \A i \in 1..Len(received) : received[i] = sent[i].body
        /\ \A i \in 3..Len(received) : sent[i].body = Null \/ Complete(sent[i].body)
    BY <2>1
  <2> QED  BY <2>1, <2>2, <2>3, <2>4, <2>5, <2>6 DEF ClientInv
<1>4. ServerInv
  BY <1>2 DEF Init, ServerInv, MovesAsSent
<1> QED  BY <1>3, <1>4 DEF IInv

\* What the client makes of what is there.
LEMMA Outcome ==
  ASSUME ClientInv, Running, NEW rd, rd = NextRead
  PROVE  /\ IsReader(rd)
         /\ \/ rd.exit = NoMore /\ Len(sent) <= Len(received) + IF lost THEN 1 ELSE 0
            \/ Rejects(rd, sent[Len(received) + 1])
            \/ /\ ~lost /\ Len(received) < Len(sent)
               /\ Taken(sent[Len(received) + 1], Len(received))
               /\ Gives(rd, Left(MessageFields, sent, Len(received) + 1),
                        sent[Len(received) + 1].body)
<1>n. PICK n \in Nat : n = Len(received)
  BY DEF ClientInv
<1>r. PICK reader : reader = Reader(input, cachedBoolFlag, cachedBoolValue)
  OBVIOUS
<1>1. Ready(reader, input)
  BY <1>r DEF Ready, IsReader, Reading, Reader, ClientInv, Running
<1>2. rd = MessageRead(reader, n)
  BY <1>n, <1>r DEF NextRead, MessageRead
<1>3. sent \in Seq(Messages) /\ n \in 0..Len(sent) /\ lost \in BOOLEAN
  BY <1>n DEF ClientInv
<1>4. CASE ~lost /\ n = Len(sent)
  <2>1. input = <<>>
    BY <1>3, <1>4, <1>n, FieldsOfAll, LeftNothing DEF ClientInv
  <2>2. rd.exit = NoMore
    BY <1>1, <1>2, <2>1, ReadNothing
  <2>3. IsReader(rd)
    BY <1>1, <1>2, <2>1, ReadNothing
  <2> QED  BY <1>4, <1>n, <2>2, <2>3
<1>5. CASE n < Len(sent)
  <2>1. /\ n \in 0..(Len(sent) - 1) /\ sent[n + 1] \in Messages
        /\ Left(MessageFields, sent, n + 1) \in Stream
        /\ Left(MessageFields, sent, n)
             = Encoded(sent[n + 1]) \o Left(MessageFields, sent, n + 1)
    <3>1. n \in 0..(Len(sent) - 1) /\ sent[n + 1] \in Messages
      BY <1>3, <1>5
    <3> QED  BY <1>3, <3>1, FieldsOfAll, LeftFirst
  <2>m. PICK m \in Messages : m = sent[n + 1]
    BY <2>1
  <2>a. PICK rest \in Stream : rest = Left(MessageFields, sent, n + 1)
    BY <2>1
  <2>2. CASE ~lost
    <3>1. Ready(reader, Encoded(m) \o rest)
      BY <1>1, <1>n, <2>1, <2>2, <2>m, <2>a DEF ClientInv
    <3>2. IF Taken(m, n) THEN Gives(rd, rest, m.body) ELSE Rejects(rd, m)
      BY <1>2, <3>1, ReadMessage
    <3>3. IsReader(rd)
      BY <3>2 DEF Gives, Ready, Rejects
    <3> QED  BY <1>5, <1>n, <2>2, <2>m, <2>a, <3>2, <3>3
  <2>3. CASE lost
    <3>1. Len(sent) = n + 1 /\ IsStrictPrefix(input, Left(MessageFields, sent, n))
      BY <1>n, <2>3 DEF ClientInv
    <3>2. Left(MessageFields, sent, n) = Encoded(m)
      <4>1. rest = <<>>
        BY <1>3, <2>a, <3>1, FieldsOfAll, LeftNothing
      <4>2. Encoded(m) \in Stream
        BY FieldsOfAll
      <4> QED  BY <2>1, <2>m, <2>a, <4>1, <4>2, Nothing
    <3>3. PICK k \in 0..(Len(Encoded(m)) - 1) : input = SubSeq(Encoded(m), 1, k)
      <4>1. IsStrictPrefix(input, Encoded(m))
        BY <3>1, <3>2
      <4>2. input \in Stream /\ Encoded(m) \in Stream
        BY FieldsOfAll DEF ClientInv
      <4>3. /\ Len(input) <= Len(Encoded(m)) /\ input # Encoded(m)
            /\ SubSeq(input, 1, Len(input)) = SubSeq(Encoded(m), 1, Len(input))
        BY <4>1 DEF IsStrictPrefix, IsPrefix
      <4>4. SubSeq(input, 1, Len(input)) = input
            /\ SubSeq(Encoded(m), 1, Len(Encoded(m))) = Encoded(m)
        BY <4>2 DEF Stream
      <4>5. Len(input) # Len(Encoded(m))
        BY <4>3, <4>4
      <4>6. Len(input) \in 0..(Len(Encoded(m)) - 1)
        BY <4>2, <4>3, <4>5 DEF Stream
      <4> QED  BY <4>3, <4>4, <4>6
    <3>4. /\ IsReader(rd)
          /\ rd.exit = NoMore \/ Rejects(rd, m)
      BY <1>1, <1>2, <3>3, ReadBegin
    <3> QED  BY <1>n, <2>3, <2>m, <3>1, <3>4
  <2> QED  BY <1>3, <2>2, <2>3
<1>6. n < Len(sent) \/ (~lost /\ n = Len(sent))
  BY <1>3, <1>n DEF ClientInv
<1> QED  BY <1>4, <1>5, <1>6

-----------------------------------------------------------------------------
(* The steps.                                                              *)

LEMMA ClientReadsInv ==
  ASSUME ClientInv, ClientReads
  PROVE  ClientInv'
<1>1. PICK rd : /\ rd = NextRead
                /\ input' = rd.in
                /\ cachedBoolFlag' = rd.cachedBoolFlag
                /\ cachedBoolValue' = rd.cachedBoolValue
                /\ received' = IF Reading(rd) THEN Append(received, rd.value) ELSE received
                /\ exitCode' = CASE ~Reading(rd) -> rd.exit
                                 [] Reading(rd) /\ rd.value = Null -> 0
                                 [] OTHER -> -1
  BY DEF ClientReads
<1>2. Running /\ sent' = sent /\ lost' = lost
  BY DEF ClientReads
<1>3. IsReader(rd)
  BY <1>1, <1>2, Outcome
<1>4. input' \in Stream /\ cachedBoolFlag' \in BOOLEAN /\ cachedBoolValue' \in BOOLEAN
  BY <1>1, <1>3 DEF IsReader
<1>5. CASE rd.exit = NoMore \/ Rejects(rd, sent[Len(received) + 1])
  <2>1. /\ rd.exit \in Codes /\ rd.exit # -1 /\ rd.exit # 0
        /\ rd.exit \in NullCodes => NullInside(sent[Len(received) + 1])
    BY <1>5, CodesDiffer DEF Rejects
  <2>2. received' = received /\ exitCode' = rd.exit /\ ~Running'
    BY <1>1, <2>1 DEF Reading, Running
  <2> QED  BY <1>2, <1>4, <2>1, <2>2 DEF ClientInv
<1>6. CASE /\ ~lost /\ Len(received) < Len(sent)
           /\ Taken(sent[Len(received) + 1], Len(received))
           /\ Gives(rd, Left(MessageFields, sent, Len(received) + 1),
                    sent[Len(received) + 1].body)
  <2>n. PICK n \in Nat : n = Len(received)
    BY DEF ClientInv
  <2>1. n \in 0..(Len(sent) - 1) /\ sent \in Seq(Messages) /\ received \in Seq(Bodies)
    BY <1>6, <2>n DEF ClientInv
  <2>m. PICK m \in Messages : m = sent[n + 1]
    BY <2>1
  <2>2. rd.value = m.body /\ Reading(rd) /\ ~rd.cachedBoolFlag
        /\ rd.in = Left(MessageFields, sent, n + 1)
    BY <1>6, <2>n, <2>m DEF Gives, Ready
  <2>3. exitCode' = IF m.body = Null THEN 0 ELSE -1
    BY <1>1, <2>2
  <2>4. exitCode' \in Codes /\ exitCode' \notin NullCodes
    BY <2>3, CodesDiffer
  <2>5. received' = Append(received, m.body) /\ m.body \in Bodies
    BY <1>1, <2>2 DEF Bodies
  <2>6. /\ received' \in Seq(Bodies) /\ Len(received') = n + 1 /\ received'[n + 1] = m.body
        /\ \A i \in 1..n : received'[i] = received[i]
    BY <2>n, <2>1, <2>5
  <2>7. \A i \in 1..Len(received') : received'[i] = sent'[i].body
    BY <1>2, <2>n, <2>m, <2>6 DEF ClientInv
  <2>8. \A i \in 3..Len(received') : sent'[i].body = Null \/ Complete(sent'[i].body)
    <3>1. ASSUME NEW i \in 3..(n + 1)
          PROVE  sent[i].body = Null \/ Complete(sent[i].body)
      <4>1. CASE i <= n
        BY <2>n, <4>1 DEF ClientInv
      <4>2. CASE i = n + 1
        <5>0. n # 0 /\ n # 1
          BY <4>2
        <5>1. Taken(m, n)
          BY <1>6, <2>n, <2>m
        <5>2. m.body = Null \/ Complete(m.body)
          BY <5>0, <5>1, MessageParts, TypesDiffer DEF Taken
        <5> QED  BY <2>m, <4>2, <5>2
      <4> QED  BY <4>1, <4>2
    <3> QED  BY <1>2, <2>6, <3>1
  <2>9. /\ Len(sent') <= MaxMessages + IF lost' THEN 1 ELSE 0
        /\ Len(received') <= Len(sent') - IF lost' THEN 1 ELSE 0
    BY <1>2, <1>6, <2>1, <2>6 DEF ClientInv
  <2>10. ~cachedBoolFlag' /\ ~lost' /\ input' = Left(MessageFields, sent', Len(received'))
    BY <1>1, <1>2, <1>6, <2>2, <2>6
  <2>11. sent' \in Seq(Messages) /\ lost' \in BOOLEAN
    BY <1>2, <2>1 DEF ClientInv
  <2> QED  BY <1>4, <2>4, <2>6, <2>7, <2>8, <2>9, <2>10, <2>11 DEF ClientInv
<1> QED  BY <1>1, <1>2, <1>5, <1>6, Outcome

LEMMA ServerWritesInv ==
  ASSUME ClientInv, ServerWrites
  PROVE  ClientInv'
<1>1. PICK m \in Messages : sent' = Append(sent, m) /\ input' = input \o Encoded(m)
  BY DEF ServerWrites
<1>2. /\ Running /\ ~lost /\ Len(sent) < MaxMessages
      /\ UNCHANGED <<cachedBoolFlag, cachedBoolValue, exitCode, lost, received>>
  BY DEF ServerWrites
<1>3. /\ sent \in Seq(Messages) /\ received \in Seq(Bodies) /\ Len(received) \in 0..Len(sent)
      /\ input = Left(MessageFields, sent, Len(received)) /\ input \in Stream
  BY <1>2 DEF ClientInv
<1>4. /\ sent' \in Seq(Messages) /\ Len(sent') = Len(sent) + 1
      /\ \A i \in 1..Len(sent) : sent'[i] = sent[i]
  BY <1>1, <1>3
<1>5. input' = Left(MessageFields, sent', Len(received)) /\ input' \in Stream
  <2>1. Left(MessageFields, Append(sent, m), Len(received))
          = Left(MessageFields, sent, Len(received)) \o MessageFields[m]
    <3>1. PICK s \in Seq(Messages) : s = sent
      BY <1>3
    <3>2. PICK n \in 0..Len(s) : n = Len(received)
      BY <1>3, <3>1
    <3>3. \A x \in Messages : MessageFields[x] \in Stream
      BY FieldsOfAll
    <3>4. Left(MessageFields, Append(s, m), n) = Left(MessageFields, s, n) \o MessageFields[m]
      BY <3>3, LeftMore
    <3> QED  BY <3>1, <3>2, <3>4
  <2>2. MessageFields[m] = Encoded(m) /\ Encoded(m) \in Stream
    BY FieldsOfAll
  <2>3. input \o Encoded(m) \in Stream
    BY <1>3, <2>2, JoinType
  <2> QED  BY <1>1, <1>3, <2>1, <2>2, <2>3
<1>6. /\ Len(sent') <= MaxMessages + IF lost' THEN 1 ELSE 0
      /\ Len(received') <= Len(sent') - IF lost' THEN 1 ELSE 0
  BY <1>2, <1>3, <1>4, BoundsAssumption
<1>7. /\ \A i \in 1..Len(received') : received'[i] = sent'[i].body
      /\ \A i \in 3..Len(received') : sent'[i].body = Null \/ Complete(sent'[i].body)
  <2>1. /\ \A i \in 1..Len(received) : received[i] = sent[i].body
        /\ \A i \in 3..Len(received) : sent[i].body = Null \/ Complete(sent[i].body)
    BY DEF ClientInv
  <2>2. received' = received /\ \A i \in 1..Len(received) : sent'[i] = sent[i]
    BY <1>2, <1>3, <1>4
  <2> QED  BY <1>3, <2>1, <2>2
<1>8. exitCode' = -1 /\ exitCode' \in Codes /\ exitCode' \notin NullCodes
  BY <1>2, CodesDiffer DEF Running
<1>9. /\ cachedBoolFlag' \in BOOLEAN /\ cachedBoolValue' \in BOOLEAN /\ lost' \in BOOLEAN
      /\ ~cachedBoolFlag' /\ ~lost' /\ received' \in Seq(Bodies)
  BY <1>2 DEF ClientInv
<1>10. input' = Left(MessageFields, sent', Len(received'))
  BY <1>2, <1>5
<1> QED  BY <1>4, <1>5, <1>6, <1>7, <1>8, <1>9, <1>10 DEF ClientInv

LEMMA ServerIsLostInv ==
  ASSUME ClientInv, ServerIsLost
  PROVE  ClientInv'
<1>m. PICK m \in Messages : \E k \in 0..(Len(Encoded(m)) - 1) :
        sent' = Append(sent, m) /\ input' = input \o SubSeq(Encoded(m), 1, k)
  BY DEF ServerIsLost
<1>1. PICK k \in 0..(Len(Encoded(m)) - 1) :
        sent' = Append(sent, m) /\ input' = input \o SubSeq(Encoded(m), 1, k)
  BY <1>m
<1>2. /\ Running /\ ~lost /\ Len(sent) = Len(received) /\ lost' = TRUE
      /\ UNCHANGED <<cachedBoolFlag, cachedBoolValue, exitCode, received>>
  BY DEF ServerIsLost
<1>3. /\ sent \in Seq(Messages) /\ received \in Seq(Bodies) /\ Len(received) \in 0..Len(sent)
      /\ Len(sent) <= MaxMessages /\ input = Left(MessageFields, sent, Len(sent))
  BY <1>2, BoundsAssumption DEF ClientInv
<1>4. /\ sent' \in Seq(Messages) /\ Len(sent') = Len(sent) + 1
      /\ \A i \in 1..Len(sent) : sent'[i] = sent[i]
  BY <1>1, <1>3
<1>5. MessageFields[m] = Encoded(m) /\ Encoded(m) \in Stream
  BY FieldsOfAll
<1>6. SubSeq(Encoded(m), 1, k) \in Stream /\ Len(SubSeq(Encoded(m), 1, k)) = k
  BY <1>5 DEF Stream
<1>7. Left(MessageFields, sent, Len(sent)) = <<>>
  BY <1>3, FieldsOfAll, LeftNothing
<1>8. input' = SubSeq(Encoded(m), 1, k) /\ input' \in Stream
  BY <1>1, <1>3, <1>6, <1>7, Nothing
<1>9. Left(MessageFields, sent', Len(received')) = Encoded(m)
  <2>1. Left(MessageFields, Append(sent, m), Len(sent))
          = Left(MessageFields, sent, Len(sent)) \o MessageFields[m]
    <3>1. PICK s \in Seq(Messages) : s = sent
      BY <1>3
    <3>2. PICK n \in 0..Len(s) : n = Len(s)
      OBVIOUS
    <3>3. \A x \in Messages : MessageFields[x] \in Stream
      BY FieldsOfAll
    <3>4. Left(MessageFields, Append(s, m), n) = Left(MessageFields, s, n) \o MessageFields[m]
      BY <3>3, LeftMore
    <3> QED  BY <3>1, <3>2, <3>4
  <2> QED  BY <1>1, <1>2, <1>5, <1>7, <2>1, Nothing
<1>10. IsStrictPrefix(input', Encoded(m))
  <2>1. PICK s \in Stream : s = Encoded(m)
    BY <1>5
  <2>2. PICK b \in Stream : b = SubSeq(s, 1, k)
    BY <1>6, <2>1
  <2>3. Len(b) = k /\ k < Len(s) /\ k \in Nat
    BY <1>6, <2>1, <2>2 DEF Stream
  <2>4. SubSeq(b, 1, Len(b)) = b
    BY DEF Stream
  <2>5. SubSeq(b, 1, Len(b)) = SubSeq(s, 1, Len(b)) /\ b # s /\ Len(b) <= Len(s)
    BY <2>2, <2>3, <2>4
  <2>6. IsStrictPrefix(b, s)
    BY <2>5 DEF IsStrictPrefix, IsPrefix
  <2> QED  BY <1>8, <2>1, <2>2, <2>6
<1>11. /\ Len(sent') <= MaxMessages + IF lost' THEN 1 ELSE 0
       /\ Len(received') <= Len(sent') - IF lost' THEN 1 ELSE 0
       /\ Len(sent') = Len(received') + 1
  BY <1>2, <1>3, <1>4, BoundsAssumption
<1>12. /\ \A i \in 1..Len(received') : received'[i] = sent'[i].body
       /\ \A i \in 3..Len(received') : sent'[i].body = Null \/ Complete(sent'[i].body)
  <2>1. /\ \A i \in 1..Len(received) : received[i] = sent[i].body
        /\ \A i \in 3..Len(received) : sent[i].body = Null \/ Complete(sent[i].body)
    BY DEF ClientInv
  <2>2. received' = received /\ \A i \in 1..Len(received) : sent'[i] = sent[i]
    BY <1>2, <1>3, <1>4
  <2> QED  BY <1>3, <2>1, <2>2
<1>13. exitCode' = -1 /\ exitCode' \in Codes /\ exitCode' \notin NullCodes
  BY <1>2, CodesDiffer DEF Running
<1>14. /\ cachedBoolFlag' \in BOOLEAN /\ cachedBoolValue' \in BOOLEAN /\ lost' \in BOOLEAN
       /\ ~cachedBoolFlag' /\ lost' /\ received' \in Seq(Bodies)
  BY <1>2 DEF ClientInv
<1> QED  BY <1>4, <1>8, <1>9, <1>10, <1>11, <1>12, <1>13, <1>14 DEF ClientInv

LEMMA ClientWritesInv ==
  ASSUME ServerInv, ClientWrites
  PROVE  ServerInv'
<1>1. PICK moves \in MoveLists : /\ movesSent' = Append(movesSent, moves)
                                 /\ output' = output \o writeMovesMessage(moves)
  BY DEF ClientWrites
<1>2. movesRead' = movesRead
  BY DEF ClientWrites
<1>3. /\ movesSent \in Seq(MoveLists) /\ movesRead \in Seq(MoveLists)
      /\ Len(movesRead) \in 0..Len(movesSent)
      /\ \A i \in 1..Len(movesRead) : movesRead[i] = movesSent[i]
  BY DEF ServerInv, MovesAsSent
<1>4. /\ movesSent' \in Seq(MoveLists) /\ Len(movesSent') = Len(movesSent) + 1
      /\ \A i \in 1..Len(movesSent) : movesSent'[i] = movesSent[i]
  BY <1>1, <1>3
<1>5. MovesAsSent'
  BY <1>2, <1>3, <1>4 DEF MovesAsSent
<1>6. output' = Left(AnswerFields, movesSent', Len(movesRead'))
  <2>1. PICK s \in Seq(MoveLists) : s = movesSent
    BY <1>3
  <2>2. PICK n \in 0..Len(s) : n = Len(movesRead)
    BY <1>3, <2>1
  <2>3. \A x \in MoveLists : AnswerFields[x] \in Stream
    BY FieldsOfAll
  <2>4. Left(AnswerFields, Append(s, moves), n) = Left(AnswerFields, s, n) \o AnswerFields[moves]
    BY <2>3, LeftMore
  <2>5. AnswerFields[moves] = writeMovesMessage(moves)
    BY FieldsOfAll
  <2>6. output = Left(AnswerFields, s, n)
    BY <2>1, <2>2 DEF ServerInv
  <2> QED  BY <1>1, <1>2, <2>1, <2>2, <2>4, <2>5, <2>6
<1> QED  BY <1>2, <1>3, <1>4, <1>5, <1>6 DEF ServerInv

LEMMA ServerReadsInv ==
  ASSUME ServerInv, ServerReads
  PROVE  ServerInv'
<1>1. PICK rd : /\ rd = readMovesMessage(Reader(output, FALSE, FALSE))
                /\ output' = IF Reading(rd) THEN rd.in ELSE <<>>
                /\ movesRead' = Append(movesRead, IF Reading(rd) THEN rd.value ELSE Null)
  BY DEF ServerReads
<1>2. movesSent' = movesSent /\ output # <<>>
  BY DEF ServerReads
<1>s. PICK s \in Seq(MoveLists) : s = movesSent
  BY DEF ServerInv
<1>n. PICK n \in 0..Len(s) : n = Len(movesRead)
  BY <1>s DEF ServerInv, MovesAsSent
<1>3. \A x \in MoveLists : AnswerFields[x] \in Stream
  BY FieldsOfAll
<1>4. output = Left(AnswerFields, s, n)
  BY <1>s, <1>n DEF ServerInv
<1>5. n # Len(s)
  BY <1>2, <1>3, <1>4, LeftNothing
<1>6. n \in 0..(Len(s) - 1)
  BY <1>5
<1>7. /\ s[n + 1] \in MoveLists /\ Left(AnswerFields, s, n + 1) \in Stream
      /\ output = AnswerFields[s[n + 1]] \o Left(AnswerFields, s, n + 1)
  BY <1>3, <1>4, <1>6, LeftFirst
<1>8. PICK moves \in MoveLists : moves = s[n + 1]
  BY <1>7
<1>9. PICK rest \in Stream : rest = Left(AnswerFields, s, n + 1)
  BY <1>7
<1>10. /\ moves \in Seq(Move) /\ writeMovesMessage(moves) \in Stream
       /\ output = writeMovesMessage(moves) \o rest
  BY <1>7, <1>8, <1>9, AnswerWritten, FieldsOfAll
<1>11. Ready(Reader(output, FALSE, FALSE), writeMovesMessage(moves) \o rest)
  <2>1. output \in Stream
    BY <1>10, JoinType
  <2> QED  BY <1>10, <2>1 DEF Ready, IsReader, Reading, Reader
<1>12. Gives(rd, rest, moves)
  BY <1>1, <1>10, <1>11, ReadMovesMessage
<1>13. output' = rest /\ movesRead' = Append(movesRead, moves)
  BY <1>1, <1>12 DEF Gives, Ready
<1>14. movesRead \in Seq(MoveLists) /\ \A i \in 1..n : movesRead[i] = s[i]
  BY <1>s, <1>n DEF ServerInv, MovesAsSent
<1>15. /\ movesRead' \in Seq(MoveLists) /\ Len(movesRead') = n + 1
       /\ \A i \in 1..(n + 1) : movesRead'[i] = s[i]
  BY <1>n, <1>8, <1>13, <1>14
<1>16. MovesAsSent'
  BY <1>2, <1>s, <1>6, <1>15 DEF MovesAsSent
<1>17. output' = Left(AnswerFields, movesSent', Len(movesRead'))
  BY <1>2, <1>s, <1>9, <1>13, <1>15
<1> QED  BY <1>2, <1>s, <1>15, <1>16, <1>17 DEF ServerInv

LEMMA UnchangedInv ==
  /\ (ClientInv /\ UNCHANGED <<input, cachedBoolFlag, cachedBoolValue, exitCode, lost,
                               sent, received>>) => ClientInv'
  /\ (ServerInv /\ UNCHANGED <<output, movesSent, movesRead>>) => ServerInv'
<1>1. ASSUME ClientInv, UNCHANGED <<input, cachedBoolFlag, cachedBoolValue, exitCode, lost,
                                    sent, received>>
      PROVE  ClientInv'
  BY <1>1 DEF ClientInv, Running
<1>2. ASSUME ServerInv, UNCHANGED <<output, movesSent, movesRead>>
      PROVE  ServerInv'
  BY <1>2 DEF ServerInv, MovesAsSent
<1> QED  BY <1>1, <1>2

LEMMA NextInv == IInv /\ [Next]_vars => IInv'
<1> SUFFICES ASSUME ClientInv, ServerInv, [Next]_vars PROVE ClientInv' /\ ServerInv'
  BY DEF IInv
<1>1. CASE ClientReads
  BY <1>1, ClientReadsInv, UnchangedInv DEF ClientReads
<1>2. CASE ClientWrites
  BY <1>2, ClientWritesInv, UnchangedInv DEF ClientWrites
<1>3. CASE ServerWrites
  BY <1>3, ServerWritesInv, UnchangedInv DEF ServerWrites
<1>4. CASE ServerIsLost
  BY <1>4, ServerIsLostInv, UnchangedInv DEF ServerIsLost
<1>5. CASE ServerReads
  BY <1>5, ServerReadsInv, UnchangedInv DEF ServerReads
<1>6. CASE Ended \/ UNCHANGED vars
  BY <1>6, UnchangedInv DEF Ended, vars
<1> QED  BY <1>1, <1>2, <1>3, <1>4, <1>5, <1>6 DEF Next

LEMMA NotStarved == ClientInv => NeverStarved
<1> SUFFICES ASSUME ClientInv, Running, Len(sent) > Len(received) + IF lost THEN 1 ELSE 0
             PROVE  NextRead.exit # NoMore
  BY DEF NeverStarved, NoMore
<1>1. PICK rd : rd = NextRead
  OBVIOUS
<1>2. Len(sent) \in Nat /\ Len(received) \in Nat /\ lost \in BOOLEAN
  BY DEF ClientInv
<1>3. ~(Len(sent) <= Len(received) + IF lost THEN 1 ELSE 0)
  BY <1>2
<1>4. \/ Rejects(rd, sent[Len(received) + 1])
      \/ Gives(rd, Left(MessageFields, sent, Len(received) + 1), sent[Len(received) + 1].body)
  BY <1>1, <1>3, Outcome
<1>5. rd.exit # NoMore
  BY <1>4, CodesDiffer DEF Rejects, Gives, Ready, Reading
<1> QED  BY <1>1, <1>5

-----------------------------------------------------------------------------
(* The theorems.                                                           *)

\* What the six properties follow from: input and output hold, field by field,
\* the messages and answers that are not read yet.
THEOREM Inductive == Spec => []IInv
BY InitialInv, NextInv, PTL DEF Spec

\* No field is ever taken for another: the process ends with an exit code of its
\* own, whatever objects and lists are sent.
THEOREM TypeCorrect == Spec => []TypeOK
<1>1. IInv => TypeOK
  BY ClientProperties DEF IInv
<1> QED  BY <1>1, Inductive, PTL

\* The client gets what was sent, for objects and lists of any content and
\* length and for any number of messages sent ahead.
THEOREM Reception == Spec => []ReceivedAsSent
<1>1. IInv => ReceivedAsSent
  BY ClientProperties DEF IInv
<1> QED  BY <1>1, Inductive, PTL

\* The server gets the moves of the client, for lists of any length.
THEOREM Answers == Spec => []MovesAsSent
<1>1. IInv => MovesAsSent
  BY DEF IInv, ServerInv
<1> QED  BY <1>1, Inductive, PTL

\* Reading stops exactly where a message ends, and the boolean that was put back
\* is spent by then.
THEOREM Framing == Spec => []Framed
<1>1. IInv => Framed
  BY ClientProperties DEF IInv
<1> QED  BY <1>1, Inductive, PTL

\* A null anywhere in a context, however deep in its lists, never reaches the
\* strategy, and the process ends with the code of a null only for one.
THEOREM Completeness == Spec => []OnlyComplete
<1>1. IInv => OnlyComplete
  BY ClientProperties DEF IInv
<1> QED  BY <1>1, Inductive, PTL

\* No reader asks for more than its writer sends, for any message.
THEOREM Sufficiency == Spec => []NeverStarved
<1>1. IInv => NeverStarved
  BY NotStarved DEF IInv
<1> QED  BY <1>1, Inductive, PTL
=============================================================================
