------------------------------ MODULE FramingProofs ------------------------------
(***************************************************************************)
(* What is proved about Framing for every size of the groups and of the    *)
(* integers, every set of bodies and every way in which TCP cuts the       *)
(* bytes: the types, that no frame is taken for an impossible one, and     *)
(* that read_frame implements FrameChannel.                                *)
(***************************************************************************)
EXTENDS Framing, FieldFacts

-----------------------------------------------------------------------------
(***************************************************************************)
(* Framing.  First the types: whatever the peer sends and wherever the     *)
(* ticks fall, the reader's locals keep to their ranges.                   *)
(***************************************************************************)

\* What the models of a step take for granted about the constants.
LEMMA Sizes ==
  /\ SEGMENT \in Nat /\ SEGMENT > 1 /\ RANGE \in Nat /\ RANGE > 1
  /\ RANGE \div 2 \in Nat /\ RANGE \div 2 < RANGE
  /\ MAX_FRAME_LEN \in Nat /\ MAX_FRAME_LEN < RANGE \div 2
  BY SegmentAssumption, RangeAssumption, FrameLenAssumption

\* A body fits the limit, so that its length is the same as i32 and as u32.
LEMMA BodyLength ==
  ASSUME NEW b \in Bodies
  PROVE  /\ b \in Seq(Byte) /\ Len(b) \in Unsigned /\ Len(b) \in 0 .. MAX_FRAME_LEN
         /\ write_varint(Len(b)) = encode[Len(b)]
         /\ as_signed(Len(b)) = Len(b)
<1>1. b \in Seq(Byte) /\ Len(b) <= MAX_FRAME_LEN
  BY BodiesAssumption
<1>2. Len(b) \in Nat
  BY <1>1, LenProperties
<1> DEFINE n == Len(b)
<1> HIDE DEF n
<1>3. n \in 0 .. MAX_FRAME_LEN /\ n \in Unsigned
  BY <1>1, <1>2, Sizes DEF n, Unsigned
<1>4. n % RANGE = n
  BY <1>3, Sizes DEF Unsigned
<1>5. as_signed(n) = n
  BY <1>3, Sizes DEF as_signed
<1> QED BY <1>1, <1>3, <1>4, <1>5 DEF n, write_varint, as_unsigned

\* A frame is made of bytes.
LEMMA FrameBytes ==
  ASSUME NEW b \in Bodies
  PROVE  write_varint(Len(b)) \in Seq(Byte) /\ write_varint(Len(b)) \o b \in Seq(Byte)
<1>1. b \in Seq(Byte) /\ write_varint(Len(b)) = encode[Len(b)] /\ Len(b) \in Unsigned
  BY BodyLength
<1>2. write_varint(Len(b)) \in Seq(Byte)
  BY <1>1, EncodeType
<1> QED BY <1>1, <1>2, ConcatProperties

\* The initial state has the types.
LEMMA InitType == Init => TypeOK
<1> SUFFICES ASSUME Init PROVE TypeOK
  OBVIOUS
<1>1. <<>> \in Seq(Byte) /\ <<>> \in Seq(Bodies) /\ <<>> \in Seq(Seq(Byte)) /\ Len(got) = 0
  BY DEF Init
<1>2. reader \in [value : Unsigned, weight : Nat \ {0}]
  BY ReadStartType DEF Init, Reader
<1>3. 0 \in 0 .. MAX_FRAME_LEN /\ -1 \in -1 .. 0
  BY Sizes
<1>4. /\ wire \in Seq(Byte) /\ buf \in Seq(Byte)
      /\ open \in BOOLEAN /\ lost \in BOOLEAN
      /\ phase = "length" /\ need = 0 /\ buf = <<>>
      /\ sent \in Seq(Bodies) /\ got \in Seq(Seq(Byte))
  BY <1>1 DEF Init
<1>5. need \in 0 .. MAX_FRAME_LEN /\ whole \in NotCut .. Len(got)
  BY <1>1, <1>3 DEF Init, NotCut
<1> QED BY <1>2, <1>4, <1>5 DEF TypeOK

\* write_frame puts bytes on the wire, and nothing else.
LEMMA WriteFrameType ==
  ASSUME TypeOK, NEW body \in Bodies, WriteFrame(body)
  PROVE  TypeOK'
<1>1. wire' = (wire \o write_varint(Len(body))) \o body
  BY DEF WriteFrame
<1>2. write_varint(Len(body)) \in Seq(Byte) /\ body \in Seq(Byte) /\ wire \in Seq(Byte)
  BY FrameBytes, BodyLength DEF TypeOK
<1>3. wire \o write_varint(Len(body)) \in Seq(Byte)
  BY <1>2, ConcatProperties
<1>4. wire' \in Seq(Byte)
  BY <1>1, <1>2, <1>3, ConcatProperties
<1>5. sent' \in Seq(Bodies)
  BY DEF WriteFrame, TypeOK
<1> QED BY <1>4, <1>5 DEF TypeOK, WriteFrame, local

\* What is left of the wire when the connection breaks is bytes.
LEMMA BreakType ==
  ASSUME TypeOK, Break
  PROVE  TypeOK'
<1>1. PICK n \in 0 .. Len(wire) : wire' = SubSeq(wire, 1, n)
  BY DEF Break
<1>2. wire' \in Seq(Byte)
  <2>1. wire \in Seq(Byte)
    BY DEF TypeOK
  <2>2. \A i \in 1 .. n : wire[i] \in Byte
    BY <1>1, <2>1
  <2> QED BY <1>1, <2>2, SubSeqProperties
<1> QED BY <1>2 DEF TypeOK, Break, local

\* Bytes taken one at a time.
LEMMA HeadTail ==
  ASSUME NEW s \in Seq(Byte), s # <<>>
  PROVE  Head(s) \in Byte /\ Tail(s) \in Seq(Byte)
  BY HeadTailProperties

\* A new read_frame starts with legal locals, whatever the last one had.
LEMMA RestartType ==
  ASSUME TypeOK, Restart, wire' \in Seq(Byte), got' \in Seq(Seq(Byte)), Len(got') >= Len(got),
         UNCHANGED <<open, sent, lost, whole>>
  PROVE  TypeOK'
<1>1. reader' \in [value : Unsigned, weight : Nat \ {0}]
  BY ReadStartType DEF Restart, Reader
<1>2. whole' \in NotCut .. Len(got')
  <2>1. Len(got') \in Nat /\ Len(got) \in Nat
    BY LenProperties DEF TypeOK
  <2> QED BY <2>1 DEF TypeOK, NotCut
<1>3. <<>> \in Seq(Byte)
  OBVIOUS
<1> QED BY <1>1, <1>2, <1>3, Sizes DEF TypeOK, Restart

\* A byte of the length: an accepted length is within the limit.
LEMMA ReadLengthType ==
  ASSUME TypeOK, ReadLength
  PROVE  TypeOK'
<1> DEFINE b == Head(wire)
           r == take_byte(reader, b)
           n == as_signed(r.value)
<1>1. b \in Byte /\ wire' \in Seq(Byte)
  BY HeadTail DEF TypeOK, ReadLength
<1>2. r \in [value : Unsigned, weight : Nat \ {0}]
  BY <1>1, TakeByteType DEF TypeOK, Reader
<1>3. n \in Int
  BY <1>2, Sizes DEF as_signed, Unsigned
<1>4. /\ phase = "length" /\ UNCHANGED <<open, sent, lost, whole>>
      /\ \/ Fail
         \/ reader' = r /\ UNCHANGED <<phase, need, buf, got>>
         \/ got' = Append(got, <<>>) /\ Restart
         \/ /\ accepted(n) /\ n > 0 /\ phase' = "body" /\ need' = n
            /\ UNCHANGED <<reader, buf, got>>
  BY DEF ReadLength
<1> HIDE DEF b, r, n
<1>5. CASE Fail
  BY <1>1, <1>4, <1>5 DEF Fail, TypeOK
<1>6. CASE reader' = r /\ UNCHANGED <<phase, need, buf, got>>
  BY <1>1, <1>2, <1>4, <1>6 DEF TypeOK
<1>7. CASE got' = Append(got, <<>>) /\ Restart
  <2>1. got' \in Seq(Seq(Byte)) /\ Len(got') = Len(got) + 1
    <3>1. <<>> \in Seq(Byte)
      OBVIOUS
    <3> QED BY <1>7, <3>1, AppendProperties DEF TypeOK
  <2>2. Len(got') >= Len(got)
    BY <2>1, LenProperties DEF TypeOK
  <2> QED BY <1>1, <1>4, <1>7, <2>1, <2>2, RestartType
<1>8. CASE /\ accepted(n) /\ n > 0 /\ phase' = "body" /\ need' = n
           /\ UNCHANGED <<reader, buf, got>>
  <2>1. n \in 0 .. MAX_FRAME_LEN
    BY <1>3, <1>8, Sizes DEF accepted
  <2> QED BY <1>1, <1>4, <1>8, <2>1 DEF TypeOK
<1> QED BY <1>4, <1>5, <1>6, <1>7, <1>8

\* A sequence of bytes cut in two.
LEMMA TakePart ==
  ASSUME NEW s \in Seq(Byte), NEW n \in 0 .. Len(s)
  PROVE  /\ SubSeq(s, 1, n) \in Seq(Byte) /\ Len(SubSeq(s, 1, n)) = n
         /\ SubSeq(s, n + 1, Len(s)) \in Seq(Byte) /\ Len(SubSeq(s, n + 1, Len(s))) = Len(s) - n
         /\ SubSeq(s, 1, n) \o SubSeq(s, n + 1, Len(s)) = s
<1>1. Len(s) \in Nat /\ n \in Nat /\ n <= Len(s)
  BY LenProperties
<1>2. \A i \in 1 .. Len(s) : s[i] \in Byte
  BY ElementOfSeq
<1>3. SubSeq(s, 1, n) \in Seq(Byte) /\ Len(SubSeq(s, 1, n)) = n
  <2>1. \A i \in 1 .. n : s[i] \in Byte
    BY <1>1, <1>2
  <2>2. SubSeq(s, 1, n) \in Seq(Byte) /\ Len(SubSeq(s, 1, n)) = IF 1 <= n THEN n - 1 + 1 ELSE 0
    BY <1>1, <2>1, SubSeqProperties
  <2> QED BY <1>1, <2>2
<1>4. /\ SubSeq(s, n + 1, Len(s)) \in Seq(Byte)
      /\ Len(SubSeq(s, n + 1, Len(s))) = Len(s) - n
  <2>1. \A i \in n + 1 .. Len(s) : s[i] \in Byte
    BY <1>1, <1>2
  <2>2. /\ SubSeq(s, n + 1, Len(s)) \in Seq(Byte)
        /\ Len(SubSeq(s, n + 1, Len(s))) = IF n + 1 <= Len(s) THEN Len(s) - (n + 1) + 1 ELSE 0
    BY <1>1, <2>1, SubSeqProperties
  <2> QED BY <1>1, <2>2
<1>5. SubSeq(s, 1, n) \o SubSeq(s, n + 1, Len(s)) = SubSeq(s, 1, Len(s))
  <2>1. 1 \in 1 .. Len(s) + 1 /\ n \in 1 - 1 .. Len(s) /\ Len(s) \in n .. Len(s)
    BY <1>1
  <2> QED BY <2>1, ConcatAdjacentSubSeq
<1> QED BY <1>3, <1>4, <1>5, SubSeqFull

\* Bytes of the body: never more of them than are still needed.
LEMMA ReadBodyType ==
  ASSUME TypeOK, ReadBody
  PROVE  TypeOK'
<1>1. PICK n \in 1 .. Len(wire) :
        LET b == buf \o SubSeq(wire, 1, n) IN
        /\ n <= need
        /\ wire' = SubSeq(wire, n + 1, Len(wire))
        /\ \/ n = need /\ got' = Append(got, b) /\ Restart
           \/ /\ n < need /\ buf' = b /\ need' = need - n
              /\ UNCHANGED <<phase, reader, got>>
  BY DEF ReadBody
<1> DEFINE b == buf \o SubSeq(wire, 1, n)
<1>2. b \in Seq(Byte) /\ wire' \in Seq(Byte)
  <2>1. wire \in Seq(Byte) /\ buf \in Seq(Byte)
    BY DEF TypeOK
  <2>2. n \in 0 .. Len(wire)
    BY <1>1
  <2> QED BY <1>1, <2>1, <2>2, TakePart, ConcatProperties
<1>3. n \in Nat /\ n >= 1 /\ need \in Nat /\ need <= MAX_FRAME_LEN
  BY Sizes, LenProperties DEF TypeOK
<1>4. UNCHANGED <<open, sent, lost, whole>> /\ phase = "body"
  BY DEF ReadBody
<1> HIDE DEF b
<1>5. CASE got' = Append(got, b) /\ Restart
  <2>1. got' \in Seq(Seq(Byte)) /\ Len(got') = Len(got) + 1
    BY <1>2, <1>5, AppendProperties DEF TypeOK
  <2>2. Len(got') >= Len(got)
    BY <2>1, LenProperties DEF TypeOK
  <2> QED BY <1>2, <1>4, <1>5, <2>1, <2>2, RestartType
<1>6. CASE n < need /\ buf' = b /\ need' = need - n /\ UNCHANGED <<phase, reader, got>>
  <2>1. need' \in 0 .. MAX_FRAME_LEN /\ need' > 0
    BY <1>3, <1>6, Sizes
  <2> QED BY <1>2, <1>4, <1>6, <2>1 DEF TypeOK
<1> QED BY <1>1, <1>5, <1>6 DEF b

\* A tick leaves what was returned alone.
LEMMA TickType ==
  ASSUME TypeOK, Tick
  PROVE  TypeOK'
<1>1. reader' \in [value : Unsigned, weight : Nat \ {0}]
  BY ReadStartType DEF Tick, Restart, Reader
<1>2. whole' \in NotCut .. Len(got')
  <2>1. Len(got) \in Nat /\ got' = got
    BY LenProperties DEF TypeOK, Tick
  <2> QED BY <2>1 DEF Tick, TypeOK, NotCut
<1>3. <<>> \in Seq(Byte) /\ 0 \in 0 .. MAX_FRAME_LEN
  BY Sizes
<1> QED BY <1>1, <1>2, <1>3 DEF TypeOK, Tick, Restart

\* The types are inductive by themselves.
LEMMA StepType == TypeOK /\ [Next]_vars => TypeOK'
<1> SUFFICES ASSUME TypeOK, [Next]_vars PROVE TypeOK'
  OBVIOUS
<1>1. ASSUME NEW body \in Bodies, WriteFrame(body) PROVE TypeOK'
  BY <1>1, WriteFrameType
<1>2. CASE Close
  BY <1>2 DEF Close, local, TypeOK
<1>3. CASE Break
  BY <1>3, BreakType
<1>4. CASE ReadLength
  BY <1>4, ReadLengthType
<1>5. CASE ReadBody
  BY <1>5, ReadBodyType
<1>6. CASE EndOfInput
  BY <1>6 DEF EndOfInput, Fail, TypeOK
<1>7. CASE Tick
  BY <1>7, TickType
<1>8. CASE UNCHANGED vars
  BY <1>8 DEF vars, TypeOK
<1> QED BY <1>1, <1>2, <1>3, <1>4, <1>5, <1>6, <1>7, <1>8 DEF Next

(***************************************************************************)
(* read_frame's locals and the streams have their types in every state: a  *)
(* length that was accepted fits the buffer that is allocated for it.      *)
(***************************************************************************)
THEOREM FramingTypeCorrect == Spec => []TypeOK
<1> QED BY InitType, StepType, PTL DEF Spec

-----------------------------------------------------------------------------
(***************************************************************************)
(* Sequences of bytes that are the same in two decompositions.             *)
(***************************************************************************)

\* Parts of the same length at the start are the same, and so is what follows.
LEMMA Cancel ==
  ASSUME NEW a \in Seq(Byte), NEW b \in Seq(Byte), NEW c \in Seq(Byte), NEW d \in Seq(Byte),
         Len(a) = Len(c), a \o b = c \o d
  PROVE  a = c /\ b = d
<1>1. Len(a) \in Nat /\ Len(b) \in Nat /\ Len(d) \in Nat
  BY LenProperties
<1>2. /\ Len(a \o b) = Len(a) + Len(b)
      /\ \A i \in 1 .. Len(a) + Len(b) :
           (a \o b)[i] = IF i <= Len(a) THEN a[i] ELSE b[i - Len(a)]
  BY ConcatProperties
<1>3. /\ Len(c \o d) = Len(c) + Len(d)
      /\ \A i \in 1 .. Len(c) + Len(d) :
           (c \o d)[i] = IF i <= Len(c) THEN c[i] ELSE d[i - Len(c)]
  BY ConcatProperties
<1>4. Len(b) = Len(d)
  BY <1>1, <1>2, <1>3
<1>5. ASSUME NEW i \in 1 .. Len(a) PROVE a[i] = c[i]
  <2>1. i \in 1 .. Len(a) + Len(b) /\ i <= Len(a)
    BY <1>1
  <2> QED BY <1>2, <1>3, <1>4, <2>1
<1>6. ASSUME NEW i \in 1 .. Len(b) PROVE b[i] = d[i]
  <2> DEFINE j == i + Len(a)
  <2>1. j \in 1 .. Len(a) + Len(b) /\ ~ (j <= Len(a)) /\ j - Len(a) = i
    BY <1>1
  <2> HIDE DEF j
  <2>2. (a \o b)[j] = b[i] /\ (c \o d)[j] = d[i]
    BY <1>2, <1>3, <1>4, <2>1
  <2> QED BY <2>2
<1>7. a = c
  BY <1>5, SeqEqual
<1>8. b = d
  BY <1>4, <1>6, SeqEqual
<1> QED BY <1>7, <1>8

\* Bytes are their first one and the others.
LEMMA HeadFirst ==
  ASSUME NEW s \in Seq(Byte), s # <<>>
  PROVE  s = <<Head(s)>> \o Tail(s)
<1>1. Head(s) \in Byte /\ Tail(s) \in Seq(Byte) /\ Len(Tail(s)) = Len(s) - 1
  BY HeadTailProperties
<1>2. \A i \in 1 .. Len(Tail(s)) : Tail(s)[i] = s[i + 1]
  BY HeadTailProperties
<1>3. Head(s) = s[1] /\ Len(s) \in Nat
  BY LenProperties
<1> DEFINE t == <<Head(s)>> \o Tail(s)
<1>4. /\ t \in Seq(Byte) /\ Len(t) = 1 + Len(Tail(s)) /\ t[1] = Head(s)
      /\ \A i \in 1 .. Len(Tail(s)) : t[i + 1] = Tail(s)[i]
  BY <1>1, OneBefore
<1> HIDE DEF t
<1>5. ASSUME NEW i \in 1 .. Len(s) PROVE s[i] = t[i]
  <2>1. CASE i = 1
    BY <1>3, <1>4, <2>1
  <2>2. CASE i # 1
    <3>1. i - 1 \in 1 .. Len(Tail(s)) /\ (i - 1) + 1 = i
      BY <1>1, <1>3, <2>2
    <3> QED BY <1>2, <1>4, <3>1
  <2> QED BY <2>1, <2>2
<1>6. s = t
  BY <1>1, <1>3, <1>4, <1>5, SeqEqual
<1> QED BY <1>6 DEF t

Begins(z, x, r) == z = <<x>> \o r

\* What has arrived, a, and what has not, b, together begin with x: so does what
\* has arrived, unless nothing has.
LEMMA HeadOfBoth ==
  ASSUME NEW a \in Seq(Byte), NEW b \in Seq(Byte), NEW x \in Byte, NEW r \in Seq(Byte),
         a # <<>>, Begins(a \o b, x, r)
  PROVE  Head(a) = x /\ Tail(a) \o b = r
<1>1. Head(a) \in Byte /\ Tail(a) \in Seq(Byte)
  BY HeadTailProperties
<1>2. a = <<Head(a)>> \o Tail(a)
  BY HeadFirst
<1> DEFINE h == <<Head(a)>>
           y == <<x>>
<1>3. h \in Seq(Byte) /\ y \in Seq(Byte) /\ Len(h) = Len(y)
  BY <1>1
<1>4. (h \o Tail(a)) \o b = h \o (Tail(a) \o b)
  BY <1>1, <1>3, ConcatAssociative
<1>5. Tail(a) \o b \in Seq(Byte)
  BY <1>1, ConcatProperties
<1>6. h \o (Tail(a) \o b) = y \o r
  BY <1>2, <1>4 DEF Begins
<1>7. h = y /\ Tail(a) \o b = r
  <2> HIDE DEF h, y
  <2> QED BY <1>3, <1>5, <1>6, Cancel
<1> QED BY <1>7

\* Three sequences of bytes group either way.
Regroups(s, t, u) == (s \o t) \o u = s \o (t \o u)

LEMMA Regroup ==
  ASSUME NEW s \in Seq(Byte), NEW t \in Seq(Byte), NEW u \in Seq(Byte)
  PROVE  Regroups(s, t, u) /\ t \o u \in Seq(Byte)
<1>1. (s \o t) \o u = s \o (t \o u)
  BY ConcatAssociative
<1>2. t \o u \in Seq(Byte)
  BY ConcatProperties
<1> QED BY <1>1, <1>2 DEF Regroups

SameJoined(a, b, c, d) == a \o b = c \o d

SameCut(a, b, c, d, n) ==
  /\ SubSeq(a, 1, n) = SubSeq(c, 1, n)
  /\ SubSeq(a, n + 1, Len(a)) \o b = SubSeq(c, n + 1, Len(c)) \o d

\* Two streams that begin with as many bytes and are equal go on equally.
LEMMA CancelFront ==
  ASSUME NEW p \in Seq(Byte), NEW q \in Seq(Byte), NEW x \in Seq(Byte),
         NEW s \in Seq(Byte), NEW t \in Seq(Byte), NEW y \in Seq(Byte),
         SameJoined(p \o q, x, s \o t, y), Len(p) = Len(s)
  PROVE  p = s /\ SameJoined(q, x, t, y)
<1>1. Regroups(p, q, x) /\ q \o x \in Seq(Byte)
  BY Regroup
<1>2. Regroups(s, t, y) /\ t \o y \in Seq(Byte)
  BY Regroup
<1>3. p \o (q \o x) = s \o (t \o y)
  BY <1>1, <1>2, Zenon DEF Regroups, SameJoined
<1>4. p = s /\ q \o x = t \o y
  BY <1>1, <1>2, <1>3, Cancel
<1> QED BY <1>4, Zenon DEF SameJoined

\* The same for the first n bytes.
LEMMA CutBoth ==
  ASSUME NEW a \in Seq(Byte), NEW b \in Seq(Byte), NEW c \in Seq(Byte), NEW d \in Seq(Byte),
         a \o b = c \o d, NEW n \in 0 .. Len(a), n <= Len(c)
  PROVE  SameCut(a, b, c, d, n)
<1> DEFINE front == SubSeq(a, 1, n)
           back  == SubSeq(a, n + 1, Len(a))
           first == SubSeq(c, 1, n)
           last  == SubSeq(c, n + 1, Len(c))
<1>1. n \in 0 .. Len(c)
  BY LenProperties
<1>2. front \in Seq(Byte) /\ back \in Seq(Byte) /\ Len(front) = n /\ front \o back = a
  BY TakePart
<1>3. first \in Seq(Byte) /\ last \in Seq(Byte) /\ Len(first) = n /\ first \o last = c
  BY <1>1, TakePart
<1> HIDE DEF front, back, first, last
<1>4. SameJoined(front \o back, b, first \o last, d)
  BY <1>2, <1>3, Zenon DEF SameJoined
<1>5. /\ front \in Seq(Byte) /\ back \in Seq(Byte) /\ b \in Seq(Byte)
      /\ first \in Seq(Byte) /\ last \in Seq(Byte) /\ d \in Seq(Byte)
      /\ Len(front) = Len(first)
  BY <1>2, <1>3, Zenon
<1>6. front = first /\ SameJoined(back, b, last, d)
  BY ONLY <1>4, <1>5, CancelFront
<1> QED BY <1>6, Zenon DEF front, back, first, last, SameCut, SameJoined

-----------------------------------------------------------------------------
(***************************************************************************)
(* The invariant.  Until a tick cuts a frame the bytes that the reader has *)
(* yet to take, arrived or not, are a definite sequence: what is left of   *)
(* the frame it is in, then the frames sent after that one.                *)
(***************************************************************************)

\* T[i] is all that was written from the i-th frame on.
Stream(T) ==
  /\ T \in [1 .. Len(sent) + 1 -> Seq(Byte)]
  /\ T[Len(sent) + 1] = <<>>
  /\ \A i \in 1 .. Len(sent) : T[i] = (write_varint(Len(sent[i])) \o sent[i]) \o T[i + 1]

\* The frame that the reader is at, if it was sent.
current == Len(got) + 1

\* rest is what the reader has yet to take, between two frames, ...
Between(T, rest) == phase = "length" /\ reader = ReadStart /\ rest = T[current]

\* ... inside a length, with the groups of u still to come, ...
InLength(T, rest) ==
  /\ phase = "length" /\ current <= Len(sent)
  /\ \E u \in Unsigned :
       /\ Total(reader, u) = Len(sent[current])
       /\ rest = encode[u] \o (sent[current] \o T[current + 1])

\* ... or inside a body, with the bytes of b still to come.
InBody(T, rest) ==
  /\ phase = "body" /\ current <= Len(sent)
  /\ \E b \in Seq(Byte) :
       /\ sent[current] = buf \o b /\ Len(b) = need
       /\ rest = b \o T[current + 1]

\* It is what has arrived and, after that, what is lost with the connection.
OnStream(T, rest, gone) ==
  /\ Stream(T)
  /\ rest \in Seq(Byte) /\ gone \in Seq(Byte)
  /\ Between(T, rest) \/ InLength(T, rest) \/ InBody(T, rest)
  /\ rest = wire \o gone
  /\ lost \/ gone = <<>>

\* Bodies returned before a tick cut a frame.
Delivered == IF whole = NotCut THEN Len(got) ELSE whole

InOrder == Delivered <= Len(sent) /\ \A i \in 1 .. Delivered : got[i] = sent[i]

OnWire == whole = NotCut /\ phase # "failed" => \E T, rest, gone : OnStream(T, rest, gone)

FramingInv ==
  /\ TypeOK
  /\ lost => ~open
  /\ InOrder
  /\ OnWire
  /\ NoFalseError

\* What the types say of the lengths.
LEMMA LenFacts ==
  ASSUME TypeOK
  PROVE  /\ Len(sent) \in Nat /\ Len(got) \in Nat /\ Len(wire) \in Nat /\ Len(buf) \in Nat
         /\ current \in Nat /\ current >= 1 /\ current = Len(got) + 1
         /\ \A i \in 1 .. Len(sent) : sent[i] \in Bodies
  BY LenProperties, ElementOfSeq DEF TypeOK, current

\* A frame of the stream: its length, its body and the frames after it.
LEMMA StreamElement ==
  ASSUME TypeOK, NEW T, Stream(T), NEW i \in 1 .. Len(sent)
  PROVE  /\ sent[i] \in Bodies /\ sent[i] \in Seq(Byte) /\ Len(sent[i]) \in Unsigned
         /\ T[i + 1] \in Seq(Byte) /\ sent[i] \o T[i + 1] \in Seq(Byte)
         /\ T[i] = encode[Len(sent[i])] \o (sent[i] \o T[i + 1])
<1>1. sent[i] \in Bodies /\ Len(sent) \in Nat
  BY LenFacts
<1> DEFINE s == sent[i]
           e == encode[Len(s)]
           t == T[i + 1]
<1>2. s \in Seq(Byte) /\ Len(s) \in Unsigned /\ write_varint(Len(s)) = e
  BY <1>1, BodyLength
<1>3. e \in Seq(Byte)
  BY <1>2, EncodeType
<1>4. t \in Seq(Byte)
  <2>1. i + 1 \in 1 .. Len(sent) + 1
    BY <1>1
  <2> QED BY <2>1 DEF Stream
<1>5. T[i] = (e \o s) \o t
  BY <1>2 DEF Stream
<1> HIDE DEF s, e, t
<1>6. (e \o s) \o t = e \o (s \o t) /\ s \o t \in Seq(Byte)
  BY ONLY <1>2, <1>3, <1>4, ConcatAssociative, ConcatProperties
<1> QED BY <1>1, <1>2, <1>4, <1>5, <1>6 DEF s, e, t

\* With bytes to come and the length not complete, the reader is inside the
\* length of a frame that was sent, at its start or further on.
LEMMA LengthAhead ==
  ASSUME FramingInv, NEW T, NEW rest, NEW gone, OnStream(T, rest, gone),
         whole = NotCut, phase = "length", rest # <<>>
  PROVE  InLength(T, rest)
<1>1. CASE InLength(T, rest)
  BY <1>1
<1>2. CASE Between(T, rest)
  <2>1. Stream(T) /\ TypeOK /\ rest = T[current] /\ reader = ReadStart
    BY <1>2 DEF OnStream, FramingInv, Between
  <2>2. Len(sent) \in Nat /\ current \in Nat /\ current >= 1
    BY <2>1, LenFacts
  <2>3. current <= Len(sent)
    <3>1. current <= Len(sent) + 1
      BY <2>1, LenFacts DEF FramingInv, InOrder, Delivered
    <3>2. current # Len(sent) + 1
      BY <2>1 DEF Stream
    <3> QED BY <2>2, <3>1, <3>2
  <2>4. current \in 1 .. Len(sent)
    BY <2>2, <2>3
  <2> DEFINE u == Len(sent[current])
  <2>5. u \in Unsigned /\ rest = encode[u] \o (sent[current] \o T[current + 1])
    BY <2>1, <2>4, StreamElement
  <2>6. Total(reader, u) = u
    <3>1. u \in Nat
      BY <2>5, Groups
    <3> HIDE DEF u
    <3> QED BY <2>1, <3>1 DEF Total, ReadStart
  <2> QED BY <1>2, <2>3, <2>5, <2>6 DEF InLength, Between
<1>3. CASE InBody(T, rest)
  BY <1>3 DEF InBody
<1> QED BY <1>1, <1>2, <1>3 DEF OnStream

-----------------------------------------------------------------------------
\* What happens to the wire and to the history leaves what was delivered alone.
LEMMA InOrderKept ==
  ASSUME TypeOK, InOrder, got' = got, whole' = whole,
         sent' = sent \/ \E body \in Bodies : sent' = Append(sent, body)
  PROVE  InOrder'
<1>1. Delivered \in Nat /\ Delivered' = Delivered /\ Delivered <= Len(got)
  <2>1. Len(got) \in Nat /\ whole \in -1 .. Len(got)
    BY LenFacts DEF TypeOK, NotCut
  <2> QED BY <2>1 DEF Delivered, NotCut
<1>2. CASE sent' = sent
  BY <1>1, <1>2 DEF InOrder
<1>3. ASSUME NEW body \in Bodies, sent' = Append(sent, body) PROVE InOrder'
  <2>1. Len(sent) \in Nat /\ Len(sent') = Len(sent) + 1
        /\ \A i \in 1 .. Len(sent) : sent'[i] = sent[i]
    BY <1>3, LenFacts, AppendProperties DEF TypeOK
  <2> QED BY <1>1, <2>1 DEF InOrder
<1> QED BY <1>2, <1>3

\* Every tail goes on with F.
Extended(T, U, F) ==
  \A i \in 1 .. Len(sent) + 1 : T[i] \in Seq(Byte) /\ U[i] = T[i] \o F

\* A frame more at the end of every tail.
LEMMA LongerStream ==
  ASSUME TypeOK, NEW T, Stream(T), NEW body \in Bodies, sent' = Append(sent, body)
  PROVE  \E U : Stream(U)' /\ Extended(T, U, write_varint(Len(body)) \o body)
<1> DEFINE F == write_varint(Len(body)) \o body
           n == Len(sent)
<1>1. n \in Nat /\ Len(sent') = n + 1 /\ sent'[n + 1] = body
      /\ \A i \in 1 .. n : sent'[i] = sent[i]
  BY LenFacts, AppendProperties DEF TypeOK
<1>2. F \in Seq(Byte)
  BY FrameBytes
<1>3. \A i \in 1 .. n + 1 : T[i] \in Seq(Byte)
  BY DEF Stream
<1>4. T[n + 1] = <<>>
  BY DEF Stream
<1>5. \A i \in 1 .. n : T[i] = (write_varint(Len(sent[i])) \o sent[i]) \o T[i + 1]
  BY DEF Stream
<1> HIDE DEF F, n
<1>6. PICK U : /\ U \in [1 .. n + 2 -> Seq(Byte)] /\ U[n + 2] = <<>>
               /\ \A i \in 1 .. n + 1 : U[i] = T[i] \o F
  <2> DEFINE V == [i \in 1 .. n + 2 |-> IF i = n + 2 THEN <<>> ELSE T[i] \o F]
  <2>1. ASSUME NEW i \in 1 .. n + 1 PROVE T[i] \o F \in Seq(Byte)
    <3>1. T[i] \in Seq(Byte)
      BY <1>3
    <3> QED BY ONLY <1>2, <3>1, ConcatProperties
  <2>2. \A i \in 1 .. n + 2 : i # n + 2 => i \in 1 .. n + 1
    BY <1>1
  <2>3. <<>> \in Seq(Byte)
    OBVIOUS
  <2>4. n + 2 \in 1 .. n + 2 /\ \A i \in 1 .. n + 1 : i # n + 2 /\ i \in 1 .. n + 2
    BY <1>1
  <2>5. V \in [1 .. n + 2 -> Seq(Byte)] /\ V[n + 2] = <<>>
        /\ \A i \in 1 .. n + 1 : V[i] = T[i] \o F
    BY <2>1, <2>2, <2>3, <2>4
  <2> HIDE DEF V
  <2> QED BY <2>5
<1>7. ASSUME NEW i \in 1 .. n + 1
      PROVE  U[i] = (write_varint(Len(sent'[i])) \o sent'[i]) \o U[i + 1]
  <2>1. CASE i = n + 1
    <3>1. n + 1 \in 1 .. n + 1 /\ (n + 1) + 1 = n + 2
      BY <1>1
    <3>2. U[n + 1] = <<>> \o F /\ U[(n + 1) + 1] = <<>>
      BY <1>4, <1>6, <3>1
    <3>3. <<>> \o F = F /\ F \o <<>> = F
      BY <1>2, ConcatEmptySeq
    <3>4. F = write_varint(Len(sent'[n + 1])) \o sent'[n + 1]
      BY <1>1 DEF F
    <3> QED BY <2>1, <3>2, <3>3, <3>4
  <2>2. CASE i # n + 1
    <3>1. i \in 1 .. n /\ i + 1 \in 1 .. n + 1
      BY <1>1, <2>2
    <3> DEFINE f == write_varint(Len(sent[i])) \o sent[i]
               t == T[i + 1]
    <3>2. T[i] = f \o t
      BY <1>5, <3>1
    <3>3. f \in Seq(Byte)
      BY <3>1, LenFacts, FrameBytes DEF n
    <3>4. t \in Seq(Byte)
      BY <1>3, <3>1
    <3>5. U[i] = T[i] \o F /\ U[i + 1] = t \o F
      BY <1>6, <3>1
    <3>6. f = write_varint(Len(sent'[i])) \o sent'[i]
      BY <1>1, <3>1
    <3> HIDE DEF f, t
    <3>7. (f \o t) \o F = f \o (t \o F)
      BY ONLY <1>2, <3>3, <3>4, ConcatAssociative
    <3>8. U[i] = f \o U[i + 1]
      BY <3>2, <3>5, <3>7
    <3> QED BY <3>6, <3>8
  <2> QED BY <2>1, <2>2
<1>8. Stream(U)'
  <2>1. Len(sent') + 1 = n + 2 /\ Len(sent') = n + 1
    BY <1>1
  <2>2. U \in [1 .. Len(sent') + 1 -> Seq(Byte)] /\ U[Len(sent') + 1] = <<>>
    BY <1>6, <2>1
  <2>3. \A i \in 1 .. Len(sent') : U[i] = (write_varint(Len(sent'[i])) \o sent'[i]) \o U[i + 1]
    BY <1>7, <2>1
  <2> QED BY <2>2, <2>3 DEF Stream
<1>9. Extended(T, U, F)
  BY <1>3, <1>6 DEF Extended, n
<1> QED BY <1>8, <1>9 DEF F

\* What the reader has yet to take grows by the frame.
LEMMA LongerRest ==
  ASSUME FramingInv, NEW T, NEW rest, NEW gone, OnStream(T, rest, gone),
         whole = NotCut, NEW U, NEW F \in Seq(Byte), Extended(T, U, F),
         Stream(U)', NEW body \in Bodies, sent' = Append(sent, body),
         UNCHANGED <<phase, reader, need, buf, got>>
  PROVE  Between(U, rest \o F)' \/ InLength(U, rest \o F)' \/ InBody(U, rest \o F)'
<1>1. TypeOK
  BY DEF FramingInv
<1>2. /\ Len(sent) \in Nat /\ current \in Nat /\ current >= 1 /\ current' = current
      /\ current <= Len(sent) + 1
  BY <1>1, LenFacts DEF current, FramingInv, InOrder, Delivered
<1>3. Len(sent') = Len(sent) + 1 /\ \A i \in 1 .. Len(sent) : sent'[i] = sent[i]
  BY <1>1, LenFacts, AppendProperties DEF TypeOK
<1>4. \A i \in 1 .. Len(sent) + 1 : T[i] \in Seq(Byte) /\ U[i] = T[i] \o F
  BY DEF Extended
<1>5. CASE Between(T, rest)
  BY <1>2, <1>4, <1>5 DEF Between
<1>6. ASSUME current <= Len(sent)
      PROVE  /\ sent'[current] = sent[current] /\ sent[current] \in Seq(Byte)
             /\ T[current + 1] \in Seq(Byte) /\ U[current + 1] = T[current + 1] \o F
  <2>1. current \in 1 .. Len(sent) /\ current + 1 \in 1 .. Len(sent) + 1
    BY <1>2, <1>6
  <2>2. Stream(T)
    BY DEF OnStream
  <2> QED BY <1>1, <1>3, <1>4, <2>1, <2>2, StreamElement
<1>7. CASE InLength(T, rest)
  <2>1. PICK u \in Unsigned : /\ Total(reader, u) = Len(sent[current])
                              /\ rest = encode[u] \o (sent[current] \o T[current + 1])
    BY <1>7 DEF InLength
  <2>2. phase = "length" /\ current <= Len(sent)
    BY <1>7 DEF InLength
  <2> DEFINE e == encode[u]
             s == sent[current]
             t == T[current + 1]
  <2>3. e \in Seq(Byte)
    BY EncodeType
  <2>4. s \in Seq(Byte) /\ t \in Seq(Byte) /\ sent'[current] = s /\ U[current + 1] = t \o F
    BY <1>6, <2>2
  <2>5. rest = e \o (s \o t)
    BY <2>1
  <2> HIDE DEF e, s, t
  <2>6. s \in Seq(Byte) /\ t \in Seq(Byte)
    BY <2>4
  <2>7. (e \o (s \o t)) \o F = e \o (s \o (t \o F))
    <3>1. s \o t \in Seq(Byte)
      BY ONLY <2>6, ConcatProperties
    <3>2. (s \o t) \o F = s \o (t \o F)
      BY ONLY <2>6, ConcatAssociative, F \in Seq(Byte)
    <3> DEFINE m == s \o t
    <3>3. m \in Seq(Byte)
      BY <3>1
    <3> HIDE DEF m
    <3>4. (e \o m) \o F = e \o (m \o F)
      BY ONLY <2>3, <3>3, ConcatAssociative, F \in Seq(Byte)
    <3> QED BY <3>2, <3>4 DEF m
  <2>8. rest \o F = encode[u] \o (sent'[current] \o U[current + 1])
    BY <2>4, <2>5, <2>7 DEF e
  <2>9. Total(reader', u) = Len(sent'[current])
    BY <2>1, <2>4 DEF s
  <2> QED BY <1>2, <1>3, <2>2, <2>8, <2>9 DEF InLength
<1>8. CASE InBody(T, rest)
  <2>1. PICK b \in Seq(Byte) : /\ sent[current] = buf \o b /\ Len(b) = need
                               /\ rest = b \o T[current + 1]
    BY <1>8 DEF InBody
  <2>2. phase = "body" /\ current <= Len(sent)
    BY <1>8 DEF InBody
  <2> DEFINE t == T[current + 1]
  <2>3. t \in Seq(Byte) /\ U[current + 1] = t \o F /\ sent'[current] = sent[current]
    BY <1>6, <2>2
  <2>4. rest = b \o t
    BY <2>1
  <2> HIDE DEF t
  <2>5. t \in Seq(Byte)
    BY <2>3
  <2>6. (b \o t) \o F = b \o (t \o F)
    BY ONLY <2>5, ConcatAssociative, F \in Seq(Byte), b \in Seq(Byte)
  <2>7. rest \o F = b \o U[current + 1]
    BY <2>3, <2>4, <2>6
  <2>8. sent'[current] = buf' \o b /\ Len(b) = need'
    BY <2>1, <2>3
  <2> QED BY <1>2, <1>3, <2>2, <2>7, <2>8 DEF InBody
<1> QED BY <1>5, <1>7, <1>8 DEF OnStream

\* Writing a frame prolongs the stream.
LEMMA WriteFrameKeeps ==
  ASSUME FramingInv, NEW body \in Bodies, WriteFrame(body)
  PROVE  FramingInv'
<1> DEFINE w == write_varint(Len(body))
           F == w \o body
<1>1. TypeOK /\ TypeOK'
  BY WriteFrameType DEF FramingInv
<1>2. /\ open /\ ~lost /\ sent' = Append(sent, body)
      /\ wire' = (wire \o w) \o body
      /\ UNCHANGED <<open, phase, reader, need, buf, got, lost, whole>>
  BY DEF FramingInv, WriteFrame, local
<1>3. F \in Seq(Byte) /\ w \in Seq(Byte) /\ body \in Seq(Byte)
  BY FrameBytes, BodyLength, EncodeType
<1> HIDE DEF w
<1>4. InOrder'
  BY <1>2, InOrderKept DEF FramingInv
<1>5. NoFalseError'
  BY <1>2 DEF FramingInv, NoFalseError
<1>6. OnWire'
  <2> SUFFICES ASSUME whole = NotCut, phase # "failed"
               PROVE  \E T, rest, gone : OnStream(T, rest, gone)'
    BY <1>2 DEF OnWire
  <2>1. PICK T, rest, gone : OnStream(T, rest, gone)
    BY DEF FramingInv, OnWire
  <2>2. PICK U : Stream(U)' /\ Extended(T, U, F)
    BY <1>1, <1>2, <2>1, LongerStream DEF OnStream, w
  <2>3. gone = <<>> /\ rest = wire /\ wire \in Seq(Byte)
    <3>1. gone = <<>> /\ rest = wire \o gone /\ wire \in Seq(Byte)
      BY <1>1, <1>2, <2>1 DEF OnStream, TypeOK
    <3> QED BY <3>1, ConcatEmptySeq
  <2> HIDE DEF F
  <2>4. Between(U, rest \o F)' \/ InLength(U, rest \o F)' \/ InBody(U, rest \o F)'
    BY <1>2, <1>3, <2>1, <2>2, LongerRest
  <2>5. wire' = wire \o F
    <3>1. wire \in Seq(Byte)
      BY <2>3
    <3>2. (wire \o w) \o body = wire \o (w \o body)
      BY ONLY <1>3, <3>1, ConcatAssociative
    <3> QED BY <1>2, <3>2 DEF F
  <2>6. rest \o F \in Seq(Byte) /\ <<>> \in Seq(Byte) /\ (rest \o F) \o <<>> = rest \o F
    <3>1. rest \o F \in Seq(Byte)
      BY <1>3, <2>3, ConcatProperties
    <3> QED BY <3>1, ConcatEmptySeq
  <2> QED BY <2>2, <2>3, <2>4, <2>5, <2>6 DEF OnStream
<1> QED BY <1>1, <1>2, <1>4, <1>5, <1>6 DEF FramingInv

\* A step that leaves the reader and the frames alone: what the reader has yet
\* to take stays the same, whatever of it is still on the wire.
LEMMA SameFrame ==
  ASSUME FramingInv, UNCHANGED <<phase, reader, need, buf, sent, got, whole>>,
         NEW arrived \in Seq(Byte), NEW missing \in Seq(Byte),
         wire = arrived \o missing, wire' = arrived, lost' \/ missing = <<>>, lost => lost'
  PROVE  OnWire'
<1> SUFFICES ASSUME whole = NotCut, phase # "failed"
             PROVE  \E T, rest, gone : OnStream(T, rest, gone)'
  BY DEF OnWire
<1>1. PICK T, rest, gone : OnStream(T, rest, gone)
  BY DEF FramingInv, OnWire
<1>2. Stream(T)' /\ rest \in Seq(Byte) /\ gone \in Seq(Byte) /\ rest = wire \o gone
  BY <1>1 DEF OnStream, Stream
<1>3. Between(T, rest)' \/ InLength(T, rest)' \/ InBody(T, rest)'
  BY <1>1 DEF OnStream, Between, InLength, InBody, current
<1>4. missing \o gone \in Seq(Byte)
  BY <1>2, ConcatProperties
<1>5. (arrived \o missing) \o gone = arrived \o (missing \o gone)
  <2>1. gone \in Seq(Byte)
    BY <1>2
  <2> QED BY ONLY <2>1, ConcatAssociative, arrived \in Seq(Byte), missing \in Seq(Byte)
<1>6. lost' \/ missing \o gone = <<>>
  <2>1. CASE lost'
    BY <2>1
  <2>2. CASE ~ lost'
    <3>1. missing = <<>> /\ gone = <<>>
      BY <1>1, <2>2 DEF OnStream
    <3> QED BY <1>2, <3>1, ConcatEmptySeq
  <2> QED BY <2>1, <2>2
<1> QED BY <1>2, <1>3, <1>4, <1>5, <1>6 DEF OnStream

\* What a broken connection does not deliver is missing at the stream's end.
LEMMA BreakKeeps ==
  ASSUME FramingInv, Break
  PROVE  FramingInv'
<1>1. TypeOK /\ TypeOK' /\ wire \in Seq(Byte)
  BY BreakType DEF FramingInv, TypeOK
<1>2. /\ ~ open' /\ lost'
      /\ UNCHANGED <<phase, reader, need, buf, sent, got, whole>>
  BY DEF Break, local
<1>3. PICK n \in 0 .. Len(wire) : wire' = SubSeq(wire, 1, n)
  BY DEF Break
<1> DEFINE a == SubSeq(wire, 1, n)
           m == SubSeq(wire, n + 1, Len(wire))
<1>4. a \in Seq(Byte) /\ m \in Seq(Byte) /\ wire = a \o m
  BY <1>1, TakePart
<1>5. wire' = a
  BY <1>3
<1>6. OnWire'
  <2> HIDE DEF a, m
  <2> QED BY <1>2, <1>4, <1>5, SameFrame
<1>7. InOrder'
  BY <1>1, <1>2, InOrderKept DEF FramingInv
<1>8. NoFalseError'
  BY <1>2 DEF NoFalseError
<1> QED BY <1>1, <1>2, <1>6, <1>7, <1>8 DEF FramingInv

\* Steps that leave the bytes alone too.
LEMMA CloseKeeps ==
  ASSUME FramingInv, TypeOK', UNCHANGED <<wire, phase, reader, need, buf, sent, got, lost, whole>>,
         open' => open
  PROVE  FramingInv'
<1>1. TypeOK /\ wire \in Seq(Byte) /\ <<>> \in Seq(Byte)
  BY DEF FramingInv, TypeOK
<1>2. wire = wire \o <<>>
  BY <1>1, ConcatEmptySeq
<1>3. OnWire'
  <2> SUFFICES ASSUME whole = NotCut, phase # "failed"
               PROVE  \E T, rest, gone : OnStream(T, rest, gone)'
    BY DEF OnWire
  <2>1. PICK T, rest, gone : OnStream(T, rest, gone)
    BY DEF FramingInv, OnWire
  <2>2. OnStream(T, rest, gone)'
    BY <2>1 DEF OnStream, Stream, Between, InLength, InBody, current
  <2> QED BY <2>2
<1>4. InOrder'
  BY <1>1, InOrderKept DEF FramingInv
<1>5. NoFalseError'
  BY DEF FramingInv, NoFalseError
<1> QED BY <1>3, <1>4, <1>5 DEF FramingInv

-----------------------------------------------------------------------------
\* A frame that is returned whole is the next one that was sent.
LEMMA DeliveryKept ==
  ASSUME TypeOK, InOrder, NEW b \in Seq(Byte), got' = Append(got, b),
         UNCHANGED <<sent, whole>>,
         whole = NotCut => current <= Len(sent) /\ b = sent[current]
  PROVE  InOrder'
<1>1. /\ Len(got) \in Nat /\ Len(sent) \in Nat /\ current = Len(got) + 1
      /\ whole \in -1 .. Len(got)
  BY LenFacts DEF TypeOK, NotCut
<1>2. /\ Len(got') = Len(got) + 1 /\ got'[Len(got) + 1] = b
      /\ \A i \in 1 .. Len(got) : got'[i] = got[i]
  BY AppendProperties DEF TypeOK
<1>3. CASE whole = NotCut
  <2>1. Delivered = Len(got) /\ Delivered' = Len(got) + 1
    BY <1>2, <1>3 DEF Delivered
  <2>2. \A i \in 1 .. Len(got) + 1 : i \in 1 .. Len(got) \/ i = Len(got) + 1
    BY <1>1
  <2>3. \A i \in 1 .. Len(got) + 1 : got'[i] = sent[i]
    BY <1>1, <1>2, <1>3, <2>1, <2>2 DEF InOrder
  <2> QED BY <1>1, <1>3, <2>1, <2>3 DEF InOrder
<1>4. CASE whole # NotCut
  <2>1. Delivered = whole /\ Delivered' = whole /\ 1 .. whole \subseteq 1 .. Len(got)
    BY <1>1, <1>4 DEF Delivered, NotCut
  <2> QED BY <1>2, <2>1 DEF InOrder
<1> QED BY <1>3, <1>4

\* What a step of the reader does if no tick has cut a frame: it goes on along
\* the stream, and what it returns is the frame that it was at.
Advances(T, gone) ==
  /\ \E rest : OnStream(T, rest, gone)'
  /\ \/ got' = got
     \/ current <= Len(sent) /\ got' = Append(got, sent[current])

\* The last byte of a length: the frame is whole at once if its body is empty,
\* and its body is next if not.
LEMMA LastOfLength ==
  ASSUME FramingInv, NEW T, NEW gone \in Seq(Byte), Stream(T), ReadLength,
         whole = NotCut, lost \/ gone = <<>>, NEW k \in 1 .. Len(sent), k = current,
         NEW s, NEW t, s = sent[k], t = T[k + 1],
         NEW u \in Unsigned, u < SEGMENT, Total(reader, u) = Len(s),
         wire \o gone = encode[u] \o (s \o t)
  PROVE  Advances(T, gone)
<1> DEFINE x == s \o t
           l == Low(u)
           r == take_byte(reader, l)
<1>1. TypeOK /\ wire # <<>> /\ wire \in Seq(Byte) /\ reader \in Reader /\ buf = <<>>
  BY DEF FramingInv, TypeOK, ReadLength, Reader
<1>2. /\ s \in Bodies /\ s \in Seq(Byte) /\ t \in Seq(Byte) /\ x \in Seq(Byte)
      /\ Len(s) \in Nat /\ Len(s) <= MAX_FRAME_LEN /\ Len(s) < RANGE /\ as_signed(Len(s)) = Len(s)
  <2>1. s \in Bodies /\ s \in Seq(Byte) /\ t \in Seq(Byte) /\ x \in Seq(Byte)
    BY <1>1, StreamElement
  <2>2. Len(s) \in 0 .. MAX_FRAME_LEN /\ as_signed(Len(s)) = Len(s)
    BY <2>1, BodyLength
  <2> HIDE DEF x
  <2> QED BY <2>1, <2>2, Sizes
<1>3. ~ continues(l) /\ l \in Byte /\ r.value = Len(s)
  BY <1>1, <1>2, TakeLast
<1>4. Head(wire) = l /\ Tail(wire) \o gone = x
  <2>1. Begins(wire \o gone, l, x)
    BY EncodeFirst DEF Begins
  <2> HIDE DEF x, l
  <2>2. wire \in Seq(Byte) /\ wire # <<>> /\ gone \in Seq(Byte) /\ x \in Seq(Byte) /\ l \in Byte
    BY <1>1, <1>2, <1>3
  <2> QED BY ONLY <2>1, <2>2, HeadOfBoth
<1>5. accepted(Len(s))
  BY <1>2, Sizes DEF accepted
<1>6. /\ wire' = Tail(wire) /\ UNCHANGED <<open, sent, lost, whole>>
      /\ \/ Len(s) = 0 /\ got' = Append(got, <<>>) /\ Restart
         \/ Len(s) > 0 /\ phase' = "body" /\ need' = Len(s) /\ UNCHANGED <<reader, buf, got>>
  <2>1. as_signed(take_byte(reader, Head(wire)).value) = Len(s) /\ ~ continues(Head(wire))
    BY <1>2, <1>3, <1>4
  <2> HIDE DEF r, l
  <2> QED BY <1>5, <2>1 DEF ReadLength
<1>7. Stream(T)' /\ x = wire' \o gone /\ (lost' \/ gone = <<>>)
  BY <1>4, <1>6 DEF Stream
<1>8. k \in Nat /\ k = Len(got) + 1 /\ k <= Len(sent)
  BY <1>1, LenFacts
<1>9. CASE Len(s) = 0 /\ got' = Append(got, <<>>) /\ Restart
  <2>1. s = <<>> /\ x = t
    <3>1. s = <<>>
      BY <1>2, <1>9, EmptySeq
    <3> QED BY <1>2, <3>1, ConcatEmptySeq
  <2>2. current' = k + 1
    <3>1. Len(got') = Len(got) + 1
      <4>1. <<>> \in Seq(Byte) /\ got \in Seq(Seq(Byte))
        BY <1>1 DEF TypeOK
      <4> QED BY <1>9, <4>1, AppendProperties
    <3> QED BY <1>8, <3>1 DEF current
  <2>3. Between(T, t)'
    BY <1>9, <2>2 DEF Between, Restart
  <2>4. OnStream(T, t, gone)'
    BY <1>2, <1>7, <2>1, <2>3 DEF OnStream
  <2> QED BY <1>8, <1>9, <2>1, <2>4 DEF Advances
<1>10. CASE Len(s) > 0 /\ phase' = "body" /\ need' = Len(s) /\ UNCHANGED <<reader, buf, got>>
  <2>1. s = <<>> \o s
    BY <1>2, ConcatEmptySeq
  <2>2. current' = k /\ buf' = <<>> /\ sent' = sent
    BY <1>1, <1>6, <1>10 DEF current
  <2>3. InBody(T, s \o t)'
    BY <1>2, <1>8, <1>10, <2>1, <2>2 DEF InBody
  <2>4. OnStream(T, s \o t, gone)'
    BY <1>2, <1>7, <2>3 DEF OnStream
  <2> QED BY <1>10, <2>4 DEF Advances
<1> QED BY <1>6, <1>9, <1>10

\* Another byte of it.
LEMMA MoreOfLength ==
  ASSUME FramingInv, NEW T, NEW gone \in Seq(Byte), Stream(T), ReadLength,
         whole = NotCut, lost \/ gone = <<>>, NEW k \in 1 .. Len(sent), k = current,
         NEW s, NEW t, s = sent[k], t = T[k + 1],
         NEW u \in Unsigned, u >= SEGMENT, Total(reader, u) = Len(s),
         wire \o gone = encode[u] \o (s \o t)
  PROVE  Advances(T, gone)
<1> DEFINE x == s \o t
           q == u \div SEGMENT
           e == encode[q]
           l == Low(u)
           r == take_byte(reader, l)
<1>1. TypeOK /\ wire # <<>> /\ wire \in Seq(Byte) /\ reader \in Reader /\ phase = "length"
  BY DEF FramingInv, TypeOK, ReadLength, Reader
<1>2. s \in Bodies /\ x \in Seq(Byte) /\ Len(s) < RANGE
  <2>1. s \in Bodies /\ x \in Seq(Byte)
    BY <1>1, StreamElement
  <2>2. Len(s) \in 0 .. MAX_FRAME_LEN
    BY <2>1, BodyLength
  <2> HIDE DEF x
  <2> QED BY <2>1, <2>2, Sizes
<1>3. /\ l \in Byte /\ continues(l) /\ ~ too_big(reader) /\ r \in Reader
      /\ Total(r, q) = Len(s)
  BY <1>1, <1>2, TakeMore
<1>4. q \in Unsigned /\ e \in Seq(Byte)
  BY Groups, EncodeType
<1>5. Head(wire) = l /\ Tail(wire) \o gone = e \o x /\ e \o x \in Seq(Byte)
  <2> DEFINE h == <<l>>
  <2>1. wire \o gone = (h \o e) \o x
    BY EncodeFirst
  <2>2. h \in Seq(Byte)
    BY <1>3
  <2> HIDE DEF x, l, e, h, q
  <2>3. wire \in Seq(Byte) /\ wire # <<>> /\ gone \in Seq(Byte)
        /\ x \in Seq(Byte) /\ e \in Seq(Byte) /\ l \in Byte
    BY <1>1, <1>2, <1>3, <1>4
  <2>4. Regroups(h, e, x) /\ e \o x \in Seq(Byte)
    BY ONLY <2>2, <2>3, Regroup
  <2>5. Begins(wire \o gone, l, e \o x)
    BY <2>1, <2>4, Zenon DEF h, Begins, Regroups
  <2> QED BY ONLY <2>3, <2>4, <2>5, HeadOfBoth
<1>6. /\ wire' = Tail(wire) /\ UNCHANGED <<open, sent, lost, whole, phase, need, buf, got>>
      /\ reader' = r
  <2>1. take_byte(reader, Head(wire)) = r /\ continues(Head(wire))
    BY <1>3, <1>5
  <2> HIDE DEF r, l
  <2> QED BY <1>3, <2>1 DEF ReadLength
<1>7. Stream(T)' /\ e \o x = wire' \o gone /\ (lost' \/ gone = <<>>)
  BY <1>5, <1>6 DEF Stream
<1>8. current' = k /\ k <= Len(sent)
  BY <1>1, <1>6, LenFacts DEF current
<1>9. Total(reader', q) = Len(sent'[k])
  BY <1>3, <1>6
<1>10. InLength(T, e \o x)'
  <2> HIDE DEF q
  <2> QED BY <1>1, <1>4, <1>6, <1>8, <1>9 DEF InLength
<1> HIDE DEF e, x
<1>11. OnStream(T, e \o x, gone)'
  BY <1>5, <1>7, <1>10 DEF OnStream
<1> QED BY <1>6, <1>11 DEF Advances

\* A reading step that advances, or that follows a cut, keeps the invariant.
LEMMA AdvanceKeeps ==
  ASSUME FramingInv, TypeOK', UNCHANGED <<open, sent, lost, whole>>,
         whole = NotCut => \E T, gone : Advances(T, gone),
         got' = got \/ \E b \in Seq(Byte) : got' = Append(got, b)
  PROVE  FramingInv'
<1>1. TypeOK
  BY DEF FramingInv
<1>2. CASE whole = NotCut
  <2>1. PICK T, rest, gone : OnStream(T, rest, gone)'
    BY <1>2 DEF Advances
  <2>2. phase' # "failed"
    BY <2>1 DEF OnStream, Between, InLength, InBody
  <2>3. InOrder'
    <3>1. CASE got' = got
      BY <1>1, <3>1, InOrderKept DEF FramingInv
    <3>2. CASE current <= Len(sent) /\ got' = Append(got, sent[current])
      <4>1. current \in 1 .. Len(sent)
        BY <1>1, <3>2, LenFacts
      <4>2. sent[current] \in Seq(Byte)
        BY <1>1, <4>1, LenFacts, BodyLength
      <4> QED BY <1>1, <3>2, <4>2, DeliveryKept DEF FramingInv
    <3> QED BY <1>2, <3>1, <3>2 DEF Advances
  <2>4. OnWire'
    BY <2>1 DEF OnWire
  <2>5. NoFalseError'
    BY <2>2 DEF NoFalseError
  <2> QED BY <2>3, <2>4, <2>5 DEF FramingInv
<1>3. CASE whole # NotCut
  <2>1. InOrder'
    <3>1. CASE got' = got
      BY <1>1, <3>1, InOrderKept DEF FramingInv
    <3>2. ASSUME NEW b \in Seq(Byte), got' = Append(got, b) PROVE InOrder'
      BY <1>1, <1>3, <3>2, DeliveryKept DEF FramingInv
    <3> QED BY <3>1, <3>2
  <2>2. OnWire' /\ NoFalseError'
    BY <1>3 DEF OnWire, NoFalseError
  <2> QED BY <2>1, <2>2 DEF FramingInv
<1> QED BY <1>2, <1>3

\* A byte of the length is the next one of the frame's length.
LEMMA ReadLengthKeeps ==
  ASSUME FramingInv, ReadLength
  PROVE  FramingInv'
<1>1. TypeOK /\ TypeOK' /\ wire \in Seq(Byte) /\ reader \in Reader
  BY ReadLengthType DEF FramingInv, TypeOK, Reader
<1>2. phase = "length" /\ wire # <<>> /\ UNCHANGED <<open, sent, lost, whole>>
  BY DEF ReadLength
<1>3. got' = got \/ \E b \in Seq(Byte) : got' = Append(got, b)
  <2>1. <<>> \in Seq(Byte)
    OBVIOUS
  <2> QED BY <2>1 DEF ReadLength, Fail
<1>4. ASSUME whole = NotCut PROVE \E T, gone : Advances(T, gone)
  <2>1. PICK T, rest, gone : OnStream(T, rest, gone)
    BY <1>2, <1>4 DEF FramingInv, OnWire
  <2>2. Stream(T) /\ gone \in Seq(Byte) /\ (lost \/ gone = <<>>) /\ rest = wire \o gone
    BY <2>1 DEF OnStream
  <2>3. rest # <<>>
    BY <1>1, <1>2, <2>2, ConcatProperties, EmptySeq, LenProperties
  <2>4. InLength(T, rest)
    BY <1>2, <1>4, <2>1, <2>3, LengthAhead
  <2>5. PICK k : k = current
    OBVIOUS
  <2>6. k \in 1 .. Len(sent)
    BY <1>1, <2>4, <2>5, LenFacts DEF InLength
  <2>7. PICK s, t : s = sent[k] /\ t = T[k + 1]
    OBVIOUS
  <2>8. PICK u \in Unsigned : Total(reader, u) = Len(s) /\ rest = encode[u] \o (s \o t)
    BY <2>4, <2>5, <2>7 DEF InLength
  <2>9. wire \o gone = encode[u] \o (s \o t)
    BY <2>2, <2>8
  <2>10. u < SEGMENT \/ u >= SEGMENT
    BY Groups, Sizes
  <2>11. Advances(T, gone)
    <3>1. CASE u < SEGMENT
      BY <1>4, <2>2, <2>5, <2>6, <2>7, <2>8, <2>9, <3>1, LastOfLength
    <3>2. CASE u >= SEGMENT
      BY <1>4, <2>2, <2>5, <2>6, <2>7, <2>8, <2>9, <3>2, MoreOfLength
    <3> QED BY <2>10, <3>1, <3>2
  <2> QED BY <2>11
<1> QED BY <1>1, <1>2, <1>3, <1>4, AdvanceKeeps

\* Bytes of the body are the next ones of the frame's body.
LEMMA ReadBodyKeeps ==
  ASSUME FramingInv, ReadBody
  PROVE  FramingInv'
<1>1. TypeOK /\ TypeOK' /\ wire \in Seq(Byte) /\ buf \in Seq(Byte) /\ need \in Nat
  BY ReadBodyType, Sizes DEF FramingInv, TypeOK
<1>2. phase = "body" /\ UNCHANGED <<open, sent, lost, whole>>
  BY DEF ReadBody
<1>3. PICK n \in 1 .. Len(wire) :
        LET b == buf \o SubSeq(wire, 1, n) IN
        /\ n <= need
        /\ wire' = SubSeq(wire, n + 1, Len(wire))
        /\ \/ n = need /\ got' = Append(got, b) /\ Restart
           \/ /\ n < need /\ buf' = b /\ need' = need - n
              /\ UNCHANGED <<phase, reader, got>>
  BY DEF ReadBody
<1>4. PICK w1, w2, b : w1 = SubSeq(wire, 1, n) /\ w2 = SubSeq(wire, n + 1, Len(wire))
                       /\ b = buf \o w1
  OBVIOUS
<1>5. n \in 0 .. Len(wire) /\ n \in Nat /\ n <= need
  BY <1>1, <1>3, LenProperties
<1>6. w1 \in Seq(Byte) /\ w2 \in Seq(Byte) /\ Len(w1) = n /\ w1 \o w2 = wire
  BY <1>1, <1>4, <1>5, TakePart
<1>7. b \in Seq(Byte)
  BY <1>1, <1>4, <1>6, ConcatProperties
<1>8. /\ wire' = w2
      /\ \/ n = need /\ got' = Append(got, b) /\ Restart
         \/ n < need /\ buf' = b /\ need' = need - n /\ UNCHANGED <<phase, reader, got>>
  BY <1>3, <1>4
<1>9. got' = got \/ \E x \in Seq(Byte) : got' = Append(got, x)
  BY <1>7, <1>8
<1>10. ASSUME whole = NotCut PROVE \E T, gone : Advances(T, gone)
  <2>1. PICK T, rest, gone : OnStream(T, rest, gone)
    BY <1>2, <1>10 DEF FramingInv, OnWire
  <2>2. Stream(T) /\ gone \in Seq(Byte) /\ (lost \/ gone = <<>>) /\ rest = wire \o gone
    BY <2>1 DEF OnStream
  <2>3. InBody(T, rest)
    BY <1>2, <2>1 DEF OnStream, Between, InLength
  <2>4. PICK k : k = current
    OBVIOUS
  <2>5. k \in 1 .. Len(sent) /\ k \in Nat /\ k = Len(got) + 1
    BY <1>1, <2>3, <2>4, LenFacts DEF InBody
  <2>6. PICK s, t : s = sent[k] /\ t = T[k + 1]
    OBVIOUS
  <2>7. t \in Seq(Byte)
    BY <1>1, <2>2, <2>5, <2>6, StreamElement
  <2>8. PICK c \in Seq(Byte) : s = buf \o c /\ Len(c) = need /\ rest = c \o t
    BY <2>3, <2>4, <2>6 DEF InBody
  <2>9. PICK c1, c2 : c1 = SubSeq(c, 1, n) /\ c2 = SubSeq(c, n + 1, Len(c))
    OBVIOUS
  <2>10. n \in 0 .. Len(c)
    BY <1>5, <2>8
  <2>11. /\ c1 \in Seq(Byte) /\ c2 \in Seq(Byte) /\ Len(c1) = n /\ Len(c2) = Len(c) - n
         /\ c1 \o c2 = c
    BY <2>9, <2>10, TakePart
  <2>12. w1 = c1 /\ w2 \o gone = c2 \o t
    <3>1. /\ wire \in Seq(Byte) /\ gone \in Seq(Byte) /\ c \in Seq(Byte) /\ t \in Seq(Byte)
          /\ wire \o gone = c \o t /\ n \in 0 .. Len(wire) /\ n <= Len(c)
      BY <1>1, <1>5, <2>2, <2>7, <2>8
    <3>2. SameCut(wire, gone, c, t, n)
      BY ONLY <3>1, CutBoth
    <3> QED BY <1>4, <2>9, <3>2 DEF SameCut
  <2>13. s = b \o c2
    <3>1. buf \in Seq(Byte) /\ c1 \in Seq(Byte) /\ c2 \in Seq(Byte)
      BY <1>1, <2>11
    <3>2. (buf \o c1) \o c2 = buf \o (c1 \o c2)
      BY ONLY <3>1, ConcatAssociative
    <3> QED BY <1>4, <2>8, <2>11, <2>12, <3>2
  <2>14. Stream(T)' /\ c2 \o t = wire' \o gone /\ (lost' \/ gone = <<>>) /\ c2 \o t \in Seq(Byte)
    <3>1. c2 \o t \in Seq(Byte)
      BY <2>7, <2>11, ConcatProperties
    <3> QED BY <1>2, <1>8, <2>2, <2>12, <3>1 DEF Stream
  <2>15. CASE n = need /\ got' = Append(got, b) /\ Restart
    <3>1. c2 = <<>>
      BY <2>8, <2>11, <2>15, EmptySeq
    <3>2. s = b /\ c2 \o t = t
      BY <1>7, <2>7, <2>13, <3>1, ConcatEmptySeq
    <3>3. current' = k + 1
      <4>1. Len(got') = Len(got) + 1
        BY <1>1, <1>7, <2>15, AppendProperties DEF TypeOK
      <4> QED BY <2>5, <4>1 DEF current
    <3>4. Between(T, c2 \o t)'
      BY <2>6, <2>15, <3>2, <3>3 DEF Between, Restart
    <3>5. OnStream(T, c2 \o t, gone)'
      BY <2>2, <2>14, <3>4 DEF OnStream
    <3> QED BY <2>4, <2>5, <2>6, <2>15, <3>2, <3>5 DEF Advances
  <2>16. CASE n < need /\ buf' = b /\ need' = need - n /\ UNCHANGED <<phase, reader, got>>
    <3>1. current' = k /\ k <= Len(sent)
      BY <2>4, <2>5, <2>16 DEF current
    <3>2. Len(c2) = need' /\ sent'[k] = buf' \o c2
      BY <1>2, <2>6, <2>8, <2>11, <2>13, <2>16
    <3>3. InBody(T, c2 \o t)'
      BY <1>2, <2>6, <2>11, <2>16, <3>1, <3>2 DEF InBody
    <3>4. OnStream(T, c2 \o t, gone)'
      BY <2>2, <2>14, <3>3 DEF OnStream
    <3> QED BY <2>16, <3>4 DEF Advances
  <2> QED BY <1>8, <2>15, <2>16
<1> QED BY <1>1, <1>2, <1>9, <1>10, AdvanceKeeps

\* At the end of a stream that is not lost, all of it was read.
LEMMA EndOfInputKeeps ==
  ASSUME FramingInv, EndOfInput
  PROVE  FramingInv'
<1>1. /\ TypeOK /\ TypeOK'
      /\ ~ open /\ wire = <<>> /\ phase # "failed" /\ phase' = "failed"
      /\ UNCHANGED <<open, sent, lost, whole, got>>
  BY StepType DEF FramingInv, EndOfInput, Fail, Next
<1>2. InOrder'
  BY <1>1, InOrderKept DEF FramingInv
<1>3. ASSUME whole = NotCut, ~ lost PROVE got = sent
  <2>1. PICK T, rest, gone : OnStream(T, rest, gone)
    BY <1>1, <1>3 DEF FramingInv, OnWire
  <2>2. rest = <<>> /\ Stream(T)
    BY <1>1, <1>3, <2>1, ConcatEmptySeq DEF OnStream
  <2>3. ~ InLength(T, rest)
    <3> SUFFICES ASSUME InLength(T, rest) PROVE FALSE
      OBVIOUS
    <3>1. current \in 1 .. Len(sent)
      BY <1>1, LenFacts DEF InLength
    <3>2. PICK u \in Unsigned : rest = encode[u] \o (sent[current] \o T[current + 1])
      BY DEF InLength
    <3> DEFINE e == encode[u]
               x == sent[current] \o T[current + 1]
    <3>3. e \in Seq(Byte) /\ Len(e) \in Nat \ {0} /\ x \in Seq(Byte)
      BY <1>1, <2>2, <3>1, EncodeType, StreamElement
    <3>4. rest = e \o x
      BY <3>2
    <3> HIDE DEF e, x
    <3>5. Len(e \o x) = Len(e) + Len(x) /\ Len(x) \in Nat /\ Len(e) > 0 /\ Len(e) \in Nat
      BY <3>3, ConcatProperties, LenProperties
    <3>6. Len(rest) = 0
      BY <2>2
    <3> QED BY <3>4, <3>5, <3>6
  <2>4. ~ InBody(T, rest)
    <3> SUFFICES ASSUME InBody(T, rest) PROVE FALSE
      OBVIOUS
    <3>1. current \in 1 .. Len(sent)
      BY <1>1, LenFacts DEF InBody
    <3>2. PICK b \in Seq(Byte) : Len(b) = need /\ rest = b \o T[current + 1]
      BY DEF InBody
    <3> DEFINE x == T[current + 1]
    <3>3. x \in Seq(Byte) /\ need \in Nat /\ need > 0
      <4>1. x \in Seq(Byte)
        BY <1>1, <2>2, <3>1, StreamElement
      <4>2. need \in 0 .. MAX_FRAME_LEN /\ need > 0
        BY <1>1 DEF TypeOK, InBody
      <4> HIDE DEF x
      <4> QED BY <4>1, <4>2, Sizes
    <3>4. rest = b \o x
      BY <3>2
    <3> HIDE DEF x
    <3>5. Len(b \o x) = Len(b) + Len(x) /\ Len(x) \in Nat
      BY <3>3, ConcatProperties, LenProperties
    <3> QED BY <2>2, <3>2, <3>3, <3>4, <3>5
  <2>5. rest = T[current] /\ current \in Nat /\ current >= 1 /\ current = Len(got) + 1
    BY <1>1, <2>1, <2>3, <2>4, LenFacts DEF OnStream, Between
  <2>6. ~ (current <= Len(sent))
    <3> SUFFICES ASSUME current \in 1 .. Len(sent) PROVE FALSE
      BY <1>1, <2>5, LenFacts
    <3> DEFINE e == encode[Len(sent[current])]
               x == sent[current] \o T[current + 1]
    <3>1. e \in Seq(Byte) /\ Len(e) \in Nat \ {0} /\ x \in Seq(Byte) /\ rest = e \o x
      BY <1>1, <2>2, <2>5, EncodeType, StreamElement
    <3> HIDE DEF e, x
    <3>2. Len(e \o x) = Len(e) + Len(x) /\ Len(x) \in Nat /\ Len(e) > 0 /\ Len(e) \in Nat
      BY <3>1, ConcatProperties, LenProperties
    <3>3. Len(rest) = 0
      BY <2>2
    <3> QED BY <3>1, <3>2, <3>3
  <2>7. Len(got) = Len(sent) /\ \A i \in 1 .. Len(got) : got[i] = sent[i]
    BY <1>1, <1>3, <2>5, <2>6, LenFacts DEF FramingInv, InOrder, Delivered
  <2>8. Bodies \subseteq Seq(Byte)
    BY BodyLength
  <2>9. sent \in Seq(Seq(Byte)) /\ got \in Seq(Seq(Byte))
    BY <1>1, <2>8, SeqMonotonic DEF TypeOK
  <2> QED BY <2>7, <2>9, SeqEqual
<1>4. NoFalseError'
  BY <1>1, <1>3 DEF NoFalseError
<1>5. OnWire'
  BY <1>1 DEF OnWire
<1> QED BY <1>1, <1>2, <1>4, <1>5 DEF FramingInv

\* A tick between two frames loses nothing; a tick inside one is the cut.
LEMMA TickKeeps ==
  ASSUME FramingInv, Tick
  PROVE  FramingInv'
<1>1. TypeOK /\ TypeOK' /\ Len(got) \in Nat /\ phase # "failed"
  BY TickType, LenFacts DEF FramingInv, Tick
<1>2. /\ phase' = "length" /\ reader' = ReadStart /\ UNCHANGED <<wire, open, sent, got, lost>>
      /\ whole' = IF MidFrame /\ whole = NotCut THEN Len(got) ELSE whole
  BY DEF Tick, Restart
<1>3. Delivered' = Delivered
  BY <1>1, <1>2 DEF Delivered, NotCut
<1>4. InOrder'
  BY <1>2, <1>3 DEF FramingInv, InOrder
<1>5. NoFalseError'
  BY <1>2 DEF NoFalseError
<1>6. OnWire'
  <2> SUFFICES ASSUME whole' = NotCut PROVE \E T, rest, gone : OnStream(T, rest, gone)'
    BY DEF OnWire
  <2>1. whole = NotCut /\ ~ MidFrame
    BY <1>1, <1>2 DEF NotCut
  <2>2. PICK T, rest, gone : OnStream(T, rest, gone)
    BY <1>1, <2>1 DEF FramingInv, OnWire
  <2>3. /\ Stream(T) /\ rest \in Seq(Byte) /\ gone \in Seq(Byte) /\ rest = wire \o gone
        /\ lost \/ gone = <<>>
    BY <2>2 DEF OnStream
  <2>4. rest = T[current]
    <3>1. CASE Between(T, rest)
      BY <3>1 DEF Between
    <3>2. CASE InLength(T, rest)
      <4>1. current \in 1 .. Len(sent)
        BY <1>1, <3>2, LenFacts DEF InLength
      <4>2. PICK u \in Unsigned :
              /\ Total(reader, u) = Len(sent[current])
              /\ rest = encode[u] \o (sent[current] \o T[current + 1])
        BY <3>2 DEF InLength
      <4>3. Total(reader, u) = u
        <5>1. reader = ReadStart /\ u \in Nat
          BY <2>1, Groups DEF MidFrame
        <5> QED BY <5>1 DEF Total, ReadStart
      <4>4. T[current] = encode[Len(sent[current])] \o (sent[current] \o T[current + 1])
        BY <1>1, <2>3, <4>1, StreamElement
      <4> QED BY <4>2, <4>3, <4>4
    <3>3. CASE InBody(T, rest)
      BY <2>1, <3>3 DEF InBody, MidFrame
    <3> QED BY <2>2, <3>1, <3>2, <3>3 DEF OnStream
  <2>5. Stream(T)' /\ Between(T, rest)'
    BY <1>2, <2>3, <2>4 DEF Stream, Between, current
  <2>6. OnStream(T, rest, gone)'
    BY <1>2, <2>3, <2>5 DEF OnStream
  <2> QED BY <2>6
<1> QED BY <1>1, <1>2, <1>4, <1>5, <1>6 DEF FramingInv

-----------------------------------------------------------------------------
\* The invariant holds initially: nothing was sent, nothing is to be read.
LEMMA FramingInit == Init => FramingInv
<1> SUFFICES ASSUME Init PROVE FramingInv
  OBVIOUS
<1>1. /\ TypeOK /\ sent = <<>> /\ got = <<>> /\ wire = <<>> /\ whole = NotCut
      /\ ~ lost /\ phase = "length" /\ reader = ReadStart
  BY InitType DEF Init
<1>2. Len(sent) = 0 /\ Len(got) = 0
  BY <1>1
<1>3. Delivered = 0 /\ current = 1
  BY <1>1, <1>2 DEF Delivered, current
<1>4. InOrder
  BY <1>2, <1>3 DEF InOrder
<1>5. OnWire
  <2> DEFINE T == [i \in 1 .. 1 |-> <<>>]
  <2>1. <<>> \in Seq(Byte) /\ <<>> \o <<>> = <<>>
    BY ConcatEmptySeq
  <2>2. T \in [1 .. 0 + 1 -> Seq(Byte)] /\ T[0 + 1] = <<>> /\ T[1] = <<>>
    BY <2>1
  <2> HIDE DEF T
  <2>3. Stream(T)
    BY <1>2, <2>2 DEF Stream
  <2>4. Between(T, <<>>)
    BY <1>1, <1>3, <2>2 DEF Between
  <2>5. OnStream(T, <<>>, <<>>)
    BY <1>1, <2>1, <2>3, <2>4 DEF OnStream
  <2> QED BY <2>5 DEF OnWire
<1> QED BY <1>1, <1>4, <1>5 DEF FramingInv, NoFalseError

\* Every step keeps it.
LEMMA FramingStep == FramingInv /\ [Next]_vars => FramingInv'
<1> SUFFICES ASSUME FramingInv, [Next]_vars PROVE FramingInv'
  OBVIOUS
<1>1. TypeOK'
  BY StepType DEF FramingInv
<1>2. ASSUME NEW body \in Bodies, WriteFrame(body) PROVE FramingInv'
  BY <1>2, WriteFrameKeeps
<1>3. CASE Close
  BY <1>1, <1>3, CloseKeeps DEF Close, local
<1>4. CASE Break
  BY <1>4, BreakKeeps
<1>5. CASE ReadLength
  BY <1>5, ReadLengthKeeps
<1>6. CASE ReadBody
  BY <1>6, ReadBodyKeeps
<1>7. CASE EndOfInput
  BY <1>7, EndOfInputKeeps
<1>8. CASE Tick
  BY <1>8, TickKeeps
<1>9. CASE UNCHANGED vars
  BY <1>1, <1>9, CloseKeeps DEF vars
<1> QED BY <1>2, <1>3, <1>4, <1>5, <1>6, <1>7, <1>8, <1>9 DEF Next

\* The invariant of read_frame on a stream of frames.
LEMMA FramingInvariant == Spec => []FramingInv
<1> QED BY FramingInit, FramingStep, PTL DEF Spec

(***************************************************************************)
(* packet.rs, read_frame: until a keep-alive tick drops it in the middle   *)
(* of a frame, read_frame fails only at the end of input, and when nothing *)
(* was lost with the connection it has returned every frame by then.  No   *)
(* byte that write_frame produced is read as an impossible length, however *)
(* TCP cuts the stream and whatever ticks fall between two frames.         *)
(***************************************************************************)
THEOREM NoFalseErrors == Spec => []NoFalseError
<1>1. FramingInv => NoFalseError
  BY DEF FramingInv
<1> QED BY <1>1, FramingInvariant, PTL

-----------------------------------------------------------------------------
(***************************************************************************)
(* The abstract channel.  Its `got` are the bodies returned before a tick  *)
(* cut a frame.                                                            *)
(***************************************************************************)
intact == IF whole = NotCut THEN got ELSE SubSeq(got, 1, whole)

\* What a step of the model does to the frames.
LEMMA FrameSteps ==
  ASSUME [Next]_vars
  PROVE  \/ /\ \E body \in Bodies : sent' = Append(sent, body)
            /\ UNCHANGED <<got, whole>>
         \/ UNCHANGED <<sent, got, whole>>
         \/ /\ UNCHANGED <<sent, whole>>
            /\ \E b : got' = Append(got, b)
         \/ UNCHANGED <<sent, got>> /\ whole = NotCut /\ whole' = Len(got)
<1>1. ASSUME NEW body \in Bodies, WriteFrame(body)
      PROVE  sent' = Append(sent, body) /\ UNCHANGED <<got, whole>>
  BY <1>1 DEF WriteFrame
<1>2. CASE Close \/ Break \/ EndOfInput \/ UNCHANGED vars
  BY <1>2 DEF Close, Break, EndOfInput, Fail, vars
<1>3. CASE ReadLength
  BY <1>3 DEF ReadLength, Fail
<1>4. CASE ReadBody
  BY <1>4 DEF ReadBody
<1>5. CASE Tick
  BY <1>5 DEF Tick
<1> QED BY <1>1, <1>2, <1>3, <1>4, <1>5 DEF Next

\* A body returned after the cut does not count.
LEMMA IntactAfterCut ==
  ASSUME TypeOK, whole # NotCut, NEW b, got' = Append(got, b), whole' = whole, TypeOK'
  PROVE  intact' = intact
<1> DEFINE A == Seq(Byte)
<1>1. got \in Seq(A) /\ got' \in Seq(A) /\ Len(got) \in Nat /\ whole \in 0 .. Len(got)
  BY LenFacts DEF TypeOK, NotCut
<1>2. Len(got') = Len(got) + 1 /\ \A i \in 1 .. Len(got) : got'[i] = got[i]
  <2>1. Append(got, b) = got' /\ b = got'[Len(got')] /\ Len(got') = Len(got) + 1
    BY <1>1
  <2>2. b \in A
    BY <1>1, <2>1, ElementOfSeq
  <2> HIDE DEF A
  <2> QED BY <1>1, <2>2, AppendProperties
<1> DEFINE x == SubSeq(got, 1, whole)
           y == SubSeq(got', 1, whole)
<1> HIDE DEF A
<1>3. x \in Seq(A) /\ Len(x) = whole /\ \A i \in 1 .. whole : x[i] = got[i]
  <2>1. \A i \in 1 .. whole : got[i] \in A
    BY <1>1, ElementOfSeq
  <2>2. /\ x \in Seq(A) /\ Len(x) = IF 1 <= whole THEN whole - 1 + 1 ELSE 0
        /\ \A i \in 1 .. whole - 1 + 1 : x[i] = got[1 + i - 1]
    BY <1>1, <2>1, SubSeqProperties
  <2> HIDE DEF x
  <2> QED BY <1>1, <2>2
<1>4. y \in Seq(A) /\ Len(y) = whole /\ \A i \in 1 .. whole : y[i] = got[i]
  <2>1. \A i \in 1 .. whole : got'[i] \in A /\ got'[i] = got[i]
    BY <1>1, <1>2, ElementOfSeq
  <2>2. /\ y \in Seq(A) /\ Len(y) = IF 1 <= whole THEN whole - 1 + 1 ELSE 0
        /\ \A i \in 1 .. whole - 1 + 1 : y[i] = got'[1 + i - 1]
    BY <1>1, <2>1, SubSeqProperties
  <2> HIDE DEF y
  <2> QED BY <1>1, <2>1, <2>2
<1>5. x = y
  <2> HIDE DEF x, y
  <2> QED BY <1>3, <1>4, SeqEqual
<1> QED BY <1>1, <1>5 DEF intact

\* The refinement, initially ...
LEMMA ChannelInit == Init => Channel!Init
  BY DEF Init, Channel!Init, NotCut

\* ... and step by step.
LEMMA ChannelStep ==
  ASSUME FramingInv, [Next]_vars, FramingInv'
  PROVE  [Channel!Send \/ Channel!Receive]_<<sent, intact>>
<1>1. TypeOK /\ TypeOK' /\ Len(got) \in Nat /\ Len(sent) \in Nat /\ got \in Seq(Seq(Byte))
  BY LenFacts DEF FramingInv, TypeOK
<1>2. CASE (\E body \in Bodies : sent' = Append(sent, body)) /\ UNCHANGED <<got, whole>>
  <2>1. UNCHANGED intact
    BY <1>2 DEF intact
  <2> QED BY <1>2, <2>1 DEF Channel!Send, intact
<1>3. CASE UNCHANGED <<sent, got, whole>>
  BY <1>3 DEF intact
<1>4. ASSUME UNCHANGED <<sent, whole>>, NEW b, got' = Append(got, b)
      PROVE  [Channel!Send \/ Channel!Receive]_<<sent, intact>>
  <2>1. CASE whole # NotCut
    BY <1>1, <1>4, <2>1, IntactAfterCut
  <2>2. CASE whole = NotCut
    <3>1. Len(got') = Len(got) + 1 /\ got'[Len(got) + 1] = b
      BY <1>1, <1>4
    <3>2. Delivered' = Len(got) + 1
      BY <1>4, <2>2, <3>1 DEF Delivered
    <3>3. Len(got) < Len(sent) /\ b = sent[Len(got) + 1]
      <4>1. /\ Len(got) + 1 <= Len(sent)
            /\ \A i \in 1 .. Len(got) + 1 : got'[i] = sent[i]
        BY <1>4, <3>2 DEF FramingInv, InOrder
      <4> QED BY <1>1, <3>1, <4>1
    <3>4. intact = got /\ intact' = got'
      BY <1>4, <2>2 DEF intact
    <3>5. Channel!Receive
      BY <1>4, <3>3, <3>4 DEF Channel!Receive, intact
    <3> QED BY <3>5
  <2> QED BY <2>1, <2>2
<1>5. CASE UNCHANGED <<sent, got>> /\ whole = NotCut /\ whole' = Len(got)
  <2>1. intact = got /\ intact' = SubSeq(got, 1, Len(got))
    BY <1>1, <1>5 DEF intact, NotCut
  <2> QED BY <1>1, <1>5, <2>1, SubSeqFull
<1> QED BY <1>2, <1>3, <1>4, <1>5, FrameSteps

(***************************************************************************)
(* packet.rs:12: read_frame pulls one whole packet body off the stream.    *)
(* What write_frame and read_frame make of a stream of bytes that arrives  *)
(* in pieces of any size is a channel of whole packets, each once and in   *)
(* the order they were sent, up to the first tick that falls inside a      *)
(* frame.                                                                  *)
(***************************************************************************)
THEOREM FramingImplementsChannel == Spec => ImplementsFrameChannel
<1>1. FramingInv /\ [Next]_vars /\ FramingInv'
      => [Channel!Send \/ Channel!Receive]_<<sent, intact>>
  BY ChannelStep
<1>2. [Channel!Send \/ Channel!Receive]_<<sent, intact>>
      <=> [Channel!Send \/ Channel!Receive]_<<sent, IF whole = NotCut THEN got ELSE SubSeq(got, 1, whole)>>
  BY DEF intact
<1> QED BY <1>1, <1>2, ChannelInit, FramingInvariant, PTL
        DEF Spec, ImplementsFrameChannel, Channel!Spec

=============================================================================
