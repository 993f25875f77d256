-------------------------- MODULE FTDIBytesProofs --------------------------
(***************************************************************************)
(* Proofs about FTDIBytes, for packets, slices and frames of any size, any *)
(* number of messages and any baud rate: the endpointReader implements     *)
(* ByteSource, what writeChunked puts on the wire is made of beginnings of *)
(* frames, and the divisor is the closest achievable.                      *)
(***************************************************************************)
EXTENDS FTDIBytes, SequenceTheorems, FiniteSetTheorems, TLAPS

\* The strengthening for the refinement: what the reader holds, where.
ReaderInv ==
    /\ sent \in Nat /\ taken \in 0 .. sent
    /\ buf \in [1 .. ftdiMaxPacketSize -> Nat]
    /\ size \in 0 .. ftdiMaxDataSize /\ pos \in 0 .. size
    /\ got \in Seq(Nat)
    /\ BytesInPlace

\* The reader starts with nothing.
LEMMA ReaderInvInit == ReaderInit => ReaderInv
BY ReaderSizes DEF ReaderInit, ReaderInv, BytesInPlace, Status, ftdiMaxDataSize

\* A call of Read that hands out m consecutive bytes, beginning with the first the
\* caller has not got, is a Read of ByteSource and keeps the bytes in place.
LEMMA HandOut ==
    ASSUME got \in Seq(Nat), \A i \in DOMAIN got : got[i] = i,
           sent \in Nat, NEW m \in Nat, Len(got) + m <= sent,
           got' = got \o [i \in 1 .. m |-> Len(got) + i]
    PROVE  /\ got' \in Seq(Nat)
           /\ Len(got') = Len(got) + m
           /\ \A i \in DOMAIN got' : got'[i] = i
           /\ UNCHANGED sent => Source!Read
<1> DEFINE c == [i \in 1 .. m |-> Len(got) + i]
<1>1. c \in Seq(Nat) /\ Len(c) = m /\ Len(got) \in Nat
  OBVIOUS
<1>2. /\ got \o c \in Seq(Nat)
      /\ Len(got \o c) = Len(got) + m
      /\ \A i \in 1 .. Len(got) + m :
           (got \o c)[i] = IF i <= Len(got) THEN got[i] ELSE c[i - Len(got)]
  BY <1>1, ConcatProperties
<1>3. \A i \in 1 .. Len(got) + m : (got \o c)[i] = i
  BY <1>1, <1>2
<1>4. c = Source!Run(Len(got) + 1, Len(got) + m)
  <2>1. (Len(got) + m) - (Len(got) + 1) + 1 = m
    BY <1>1
  <2>2. \A i \in 1 .. m : (Len(got) + 1) + i - 1 = Len(got) + i
    BY <1>1
  <2> QED
    BY <2>1, <2>2 DEF Source!Run
<1>5. UNCHANGED sent => Source!Read
  <2>1. m \in 0 .. sent - Len(got)
    BY <1>1
  <2>2. got' = got \o Source!Run(Len(got) + 1, Len(got) + m)
    BY <1>4
  <2> QED
    BY <2>1, <2>2, Zenon DEF Source!Read
<1> QED
  BY <1>2, <1>3, <1>5

\* A step of the reader preserves ReaderInv and is a step, or a stutter, of ByteSource.
LEMMA ReaderStepRefines ==
    ASSUME ReaderInv, [ReaderNext]_readerVars
    PROVE  ReaderInv' /\ [Source!Send \/ Source!Read]_<<sent, got>>
<1> USE ReaderSizes DEF ftdiMaxDataSize
<1>1. ASSUME NEW n \in 1 .. MaxSent - sent, Arrive(n)
      PROVE  ReaderInv' /\ [Source!Send \/ Source!Read]_<<sent, got>>
  <2>1. sent' \in Nat /\ sent' >= sent
    BY <1>1 DEF Arrive, ReaderInv
  <2>2. ReaderInv'
    BY <1>1, <2>1 DEF Arrive, ReaderInv, BytesInPlace
  <2> QED
    BY <1>1, <2>1, <2>2 DEF Arrive, Source!Send
<1>2. ASSUME NEW n \in 1 .. MaxAsked, ReadBuffered(n)
      PROVE  ReaderInv' /\ [Source!Send \/ Source!Read]_<<sent, got>>
  <2> DEFINE m == Least(n, size - pos)
  <2>1. m \in 1 .. size - pos
    BY <1>2 DEF ReadBuffered, ReaderInv, Least
  <2> HIDE DEF m
  <2>2. Copy(buf, ftdiStatusSize + pos, ftdiStatusSize + size, n)
          = [i \in 1 .. m |-> Len(got) + i]
    <3>1. (ftdiStatusSize + size) - (ftdiStatusSize + pos) = size - pos
      BY DEF ReaderInv
    <3>2. \A i \in 1 .. m : buf[ftdiStatusSize + pos + i] = Len(got) + i
      <4>1. 1 .. m \subseteq 1 .. size - pos
        BY <2>1 DEF ReaderInv
      <4> QED
        BY <4>1, Zenon DEF ReaderInv, BytesInPlace
    <3> QED
      BY <3>1, <3>2 DEF Copy, m
  <2>3. got' = got \o [i \in 1 .. m |-> Len(got) + i]
    BY <1>2, <2>2 DEF ReadBuffered
  <2>4. Len(got) \in Nat /\ m \in Nat /\ Len(got) + m <= sent
    BY <2>1 DEF ReaderInv, BytesInPlace
  <2>5. /\ got' \in Seq(Nat)
        /\ Len(got') = Len(got) + m
        /\ \A i \in DOMAIN got' : got'[i] = i
        /\ UNCHANGED sent => Source!Read
    BY <2>3, <2>4, HandOut DEF ReaderInv, BytesInPlace
  <2>6. pos' = pos + m /\ UNCHANGED <<sent, taken, buf, size>>
    BY <1>2 DEF ReadBuffered, m
  <2>7. ReaderInv'
    <3>1. \A i \in 1 .. size' - pos' : buf'[ftdiStatusSize + pos' + i] = Len(got') + i
      <4> TAKE i \in 1 .. size' - pos'
      <4>1. m + i \in 1 .. size - pos
        BY <2>1, <2>6 DEF ReaderInv
      <4>2. buf[ftdiStatusSize + pos + (m + i)] = Len(got) + (m + i)
        BY <4>1 DEF ReaderInv, BytesInPlace
      <4> QED
        BY <2>1, <2>4, <2>5, <2>6, <4>2 DEF ReaderInv
    <3>2. pos' \in 0 .. size'
      BY <2>1, <2>6 DEF ReaderInv
    <3>3. Len(got') + (size' - pos') = taken'
      <4>1. Len(got) + (size - pos) = taken
        BY DEF ReaderInv, BytesInPlace
      <4>2. size \in Int /\ pos \in Int /\ m \in Int
        BY <2>1 DEF ReaderInv
      <4> QED
        BY <2>4, <2>5, <2>6, <4>1, <4>2
    <3>4. BytesInPlace'
      BY <2>5, <3>1, <3>3 DEF BytesInPlace
    <3> QED
      BY <2>5, <2>6, <3>2, <3>4 DEF ReaderInv
  <2> QED
    BY <2>5, <2>6, <2>7
<1>3. ASSUME NEW n \in 1 .. MaxAsked, NEW k \in 0 .. ftdiMaxDataSize, ReadPacket(n, k)
      PROVE  ReaderInv' /\ [Source!Send \/ Source!Read]_<<sent, got>>
  <2> DEFINE m == Least(n, k)
  <2>1. m \in 0 .. k /\ k \in Nat /\ k <= sent - taken
    BY <1>3 DEF ReadPacket, Least
  <2> HIDE DEF m
  <2>2. Len(got) = taken /\ Len(got) \in Nat
    <3>1. pos >= size
      BY <1>3 DEF ReadPacket
    <3>2. size \in Int /\ pos \in Int /\ pos <= size
      BY DEF ReaderInv
    <3>3. Len(got) \in Nat
      BY LenProperties DEF ReaderInv
    <3>4. Len(got) + (size - pos) = taken
      BY DEF ReaderInv, BytesInPlace
    <3> QED
      BY <3>1, <3>2, <3>3, <3>4
  <2>3. /\ buf' \in [1 .. ftdiMaxPacketSize -> Nat]
        /\ \A i \in 1 .. k : buf'[ftdiStatusSize + i] = taken + i
    <3>1. buf' = [i \in 1 .. ftdiMaxPacketSize |->
                    IF i <= ftdiStatusSize THEN Status
                    ELSE IF i <= ftdiStatusSize + k THEN taken + i - ftdiStatusSize
                    ELSE buf[i]]
      BY <1>3 DEF ReadPacket, Packet
    <3>2. /\ taken \in Nat /\ ftdiStatusSize \in Nat /\ ftdiMaxPacketSize \in Nat
          /\ buf \in [1 .. ftdiMaxPacketSize -> Nat] /\ Status \in Nat
          /\ k \in Nat /\ ftdiStatusSize + k <= ftdiMaxPacketSize
      BY <2>1, ReaderSizes DEF ReaderInv, Status, ftdiMaxDataSize
    <3>3. \A i \in 1 .. ftdiMaxPacketSize : i > ftdiStatusSize => taken + i - ftdiStatusSize \in Nat
      BY <3>2
    <3>4. buf' \in [1 .. ftdiMaxPacketSize -> Nat]
      BY <3>1, <3>2, <3>3
    <3>5. ASSUME NEW i \in 1 .. k PROVE buf'[ftdiStatusSize + i] = taken + i
      <4>1. /\ ftdiStatusSize + i \in 1 .. ftdiMaxPacketSize
            /\ ~(ftdiStatusSize + i <= ftdiStatusSize)
            /\ ftdiStatusSize + i <= ftdiStatusSize + k
            /\ taken + (ftdiStatusSize + i) - ftdiStatusSize = taken + i
        BY <3>2, <3>5
      <4> QED
        BY <3>1, <4>1
    <3> QED
      BY <3>4, <3>5
  <2>4. Copy(buf', ftdiStatusSize, ftdiStatusSize + k, n)
          = [i \in 1 .. m |-> Len(got) + i]
    <3>1. (ftdiStatusSize + k) - ftdiStatusSize = k
      BY <2>1
    <3>2. \A i \in 1 .. m : buf'[ftdiStatusSize + i] = Len(got) + i
      BY <2>1, <2>2, <2>3
    <3> QED
      BY <3>1, <3>2 DEF Copy, m
  <2>5. got' = got \o [i \in 1 .. m |-> Len(got) + i]
    BY <1>3, <2>4 DEF ReadPacket
  <2>6. taken' = taken + k /\ size' = k /\ pos' = m /\ sent' = sent
    BY <1>3 DEF ReadPacket, m
  <2>7. m \in Nat /\ Len(got) + m <= sent
    BY <2>1, <2>2 DEF ReaderInv
  <2>8. /\ got' \in Seq(Nat)
        /\ Len(got') = Len(got) + m
        /\ \A i \in DOMAIN got' : got'[i] = i
        /\ UNCHANGED sent => Source!Read
    BY <2>5, <2>7, HandOut DEF ReaderInv, BytesInPlace
  <2>9. ReaderInv'
    <3>1. \A i \in 1 .. size' - pos' : buf'[ftdiStatusSize + pos' + i] = Len(got') + i
      <4> TAKE i \in 1 .. size' - pos'
      <4>1. m + i \in 1 .. k
        BY <2>1, <2>6
      <4>2. buf'[ftdiStatusSize + (m + i)] = taken + (m + i)
        BY <2>3, <4>1
      <4>3. /\ ftdiStatusSize + pos' + i = ftdiStatusSize + (m + i)
            /\ Len(got') + i = taken + (m + i)
        BY <2>1, <2>2, <2>6, <2>8
      <4> QED
        BY <4>2, <4>3
    <3>2. /\ size' \in 0 .. ftdiMaxDataSize /\ pos' \in 0 .. size'
          /\ taken' \in 0 .. sent' /\ Len(got') + (size' - pos') = taken'
      BY <2>1, <2>2, <2>6, <2>8 DEF ReaderInv
    <3> QED
      BY <2>3, <2>6, <2>8, <3>1, <3>2 DEF ReaderInv, BytesInPlace
  <2> QED
    BY <2>6, <2>8, <2>9
<1>4. CASE ReadError \/ UNCHANGED readerVars
  BY <1>4 DEF ReadError, readerVars, ReaderInv, BytesInPlace
<1> QED
  BY <1>1, <1>2, <1>3, <1>4 DEF ReaderNext, ReaderStep

\* endpointReader.Read implements the reader a MessageReader relies on: status bytes
\* never come through, and no data byte is lost, repeated or moved, however packets
\* and calls cut the stream.
THEOREM ReaderIsByteSource == Spec => IsByteSource
<1>1. Init => ReaderInv /\ Source!Init
  BY ReaderInvInit DEF Init, ReaderInit, Source!Init
<1>2. [Next]_vars => [ReaderNext]_readerVars
  BY DEF Next, vars, readerVars
<1>3. ReaderInv /\ [Next]_vars => ReaderInv'
  BY <1>2, ReaderStepRefines
<1>4. ReaderInv /\ [Next]_vars => [Source!Send \/ Source!Read]_<<sent, got>>
  BY <1>2, ReaderStepRefines
<1> QED
  BY <1>1, <1>3, <1>4, PTL DEF Spec, IsByteSource, Source!Spec

-----------------------------------------------------------------------------
\* w ends with the first a bytes of the frame of message m.
EndsWith(w, m, a) ==
    a <= Len(w) /\ \A j \in 1 .. a : w[Len(w) - a + j] = Byte(m, j)

\* p holds bytes a + 1 to e of that frame.
IsPart(p, m, a, e) ==
    /\ p \in Seq(Bytes) /\ Len(p) = e - a
    /\ \A i \in 1 .. e - a : p[i] = Byte(m, a + i)

\* The strengthening for the writer: while writeChunked runs, the wire ends with what
\* it has passed on, and the message is not yet among the ones sent.
WriterInv ==
    /\ msg \in Nat /\ len \in Nat /\ off \in 0 .. len
    /\ state \in {"idle", "first", "second", "reconnect"}
    /\ wire \in Seq(Bytes)
    /\ sentOk \in Seq(Nat)
    /\ \A i \in 1 .. Len(sentOk) : sentOk[i] <= msg /\ (state # "idle" => sentOk[i] < msg)
    /\ state # "idle" => off < len
    /\ state \in {"first", "second"} => EndsWith(wire, msg, off)
    /\ WireIsPrefixes
    /\ SuccessEndsWithFrame

\* Nothing is written before the first message.
LEMMA WriterInvInit == WriterInit => WriterInv
BY DEF WriterInit, WriterInv, EndsWith, WireIsPrefixes, SuccessEndsWithFrame, Succeeded

\* Bytes a + 1 to e of a frame form a sequence.
LEMMA PartSeq ==
    ASSUME NEW m \in Nat, NEW a \in Nat, NEW e \in Nat, a <= e
    PROVE  IsPart([i \in 1 .. e - a |-> Byte(m, a + i)], m, a, e)
<1> DEFINE n == e - a
           p == [i \in 1 .. n |-> Byte(m, a + i)]
<1>1. n \in Nat
  OBVIOUS
<1> HIDE DEF n
<1>2. \A i \in 1 .. n : Byte(m, a + i) \in Bytes
  BY <1>1 DEF Byte, Bytes
<1>3. p \in [1 .. n -> Bytes] /\ \A i \in 1 .. n : p[i] = Byte(m, a + i)
  BY <1>2, Zenon
<1> HIDE DEF p
<1>4. p \in Seq(Bytes) /\ Len(p) = n
  BY <1>1, <1>3
<1> QED
  BY <1>3, <1>4, Zenon DEF n, p, IsPart

\* Adding bytes a + 1 to e of the frame of message m, p, to a sequence w that ends with
\* the first a gives one, v, that ends with the first e.
LEMMA AddPart ==
    ASSUME NEW w \in Seq(Bytes), NEW m \in Nat, NEW a \in Nat, NEW e \in Nat, a <= e,
           EndsWith(w, m, a), NEW p, IsPart(p, m, a, e)
    PROVE  /\ w \o p \in Seq(Bytes)
           /\ Len(w \o p) = Len(w) + (e - a)
           /\ \A i \in 1 .. Len(w) : (w \o p)[i] = w[i]
           /\ EndsWith(w \o p, m, e)
<1> USE DEF EndsWith, IsPart
<1> DEFINE v == w \o p
<1>3. /\ v \in Seq(Bytes)
      /\ Len(v) = Len(w) + (e - a)
      /\ \A i \in 1 .. Len(w) + (e - a) :
           v[i] = IF i <= Len(w) THEN w[i] ELSE p[i - Len(w)]
  <2>1. /\ v \in Seq(Bytes)
        /\ Len(v) = Len(w) + Len(p)
        /\ \A i \in 1 .. Len(w) + Len(p) :
             v[i] = IF i <= Len(w) THEN w[i] ELSE p[i - Len(w)]
    BY ConcatProperties, Zenon
  <2> QED
    BY <2>1, Zenon
<1> HIDE DEF v
<1>0. e <= Len(v)
  BY <1>3
<1>4. Len(w) \in Nat
  OBVIOUS
<1>5. \A i \in 1 .. Len(w) : v[i] = w[i]
  <2>1. \A i \in 1 .. Len(w) : i \in 1 .. Len(w) + (e - a) /\ i <= Len(w)
    BY <1>4
  <2> QED
    BY <1>3, <2>1, Zenon
<1>6. ASSUME NEW j \in 1 .. e PROVE v[Len(v) - e + j] = Byte(m, j)
  <2>1. CASE j <= a
    <3>1. Len(w) - a + j \in 1 .. Len(w) /\ Len(v) - e + j = Len(w) - a + j /\ j \in 1 .. a
      BY <1>3, <1>4, <2>1
    <3> QED
      BY <1>5, <3>1
  <2>2. CASE j > a
    <3> DEFINE i == Len(w) - a + j
    <3>1. /\ i \in 1 .. Len(w) + (e - a) /\ ~(i <= Len(w)) /\ i = Len(v) - e + j
          /\ i - Len(w) = j - a /\ j - a \in 1 .. e - a /\ a + (j - a) = j
      BY <1>3, <1>4, <2>2
    <3> HIDE DEF i
    <3>2. v[i] = p[j - a]
      BY <1>3, <3>1, Zenon
    <3> QED
      BY <3>1, <3>2
  <2> QED
    BY <2>1, <2>2
<1> QED
  BY <1>0, <1>3, <1>5, <1>6 DEF v

\* Such a v is made of beginnings of frames if w is.
LEMMA AddPartPrefixes ==
    ASSUME NEW w, NEW v, NEW m \in Nat, NEW a \in Nat, NEW e \in Nat, a <= e,
           Len(w) \in Nat, a <= Len(w), Len(v) = Len(w) + (e - a),
           \A i \in 1 .. Len(w) : v[i] = w[i], EndsWith(v, m, e),
           \A i \in 1 .. Len(w) : FirstByte(w[i]) \/ (i > 1 /\ Precedes(w[i - 1], w[i])),
           NEW i \in 1 .. Len(v)
    PROVE  FirstByte(v[i]) \/ (i > 1 /\ Precedes(v[i - 1], v[i]))
<1>1. CASE i <= Len(w)
  <2>1. i \in 1 .. Len(w) /\ (i > 1 => i - 1 \in 1 .. Len(w))
    BY <1>1
  <2> QED
    BY <2>1
<1>2. CASE i > Len(w)
  <2> DEFINE j == i - (Len(v) - e)
  <2>1. j \in 1 .. e /\ Len(v) - e + j = i
    BY <1>2
  <2>2. j > 1 => j - 1 \in 1 .. e /\ Len(v) - e + (j - 1) = i - 1 /\ i > 1
    BY <1>2
  <2> HIDE DEF j
  <2>3. v[i] = Byte(m, j)
    BY <2>1 DEF EndsWith
  <2>4. CASE j = 1
    BY <2>3, <2>4 DEF FirstByte, Byte
  <2>5. CASE j > 1
    <3>1. v[i - 1] = Byte(m, j - 1)
      BY <2>2, <2>5 DEF EndsWith
    <3>2. Precedes(Byte(m, j - 1), Byte(m, j))
      BY DEF Precedes, Byte
    <3> QED
      BY <2>2, <2>3, <2>5, <3>1, <3>2
  <2> QED
    BY <2>1, <2>4, <2>5
<1> QED
  BY <1>1, <1>2

\* Passing on the bytes up to e leaves the wire ending with the first e bytes of the
\* frame, and made of beginnings of frames.
LEMMA PassOn ==
    ASSUME WriterInv, state \in {"first", "second"}, NEW e \in off .. len,
           wire' = wire \o Part(off, e)
    PROVE  wire' \in Seq(Bytes) /\ EndsWith(wire', msg, e) /\ WireIsPrefixes'
<1>1. /\ e \in Nat /\ off \in Nat /\ off <= e /\ msg \in Nat /\ Len(wire) \in Nat
      /\ wire \in Seq(Bytes)
  BY DEF WriterInv
<1>2. EndsWith(wire, msg, off) /\ off <= Len(wire)
  BY DEF WriterInv, EndsWith
<1>3. \A i \in 1 .. Len(wire) : FirstByte(wire[i]) \/ (i > 1 /\ Precedes(wire[i - 1], wire[i]))
  BY DEF WriterInv, WireIsPrefixes
<1>4. IsPart(Part(off, e), msg, off, e)
  BY <1>1, PartSeq, Zenon DEF Part
<1>5. /\ wire' \in Seq(Bytes)
      /\ Len(wire') = Len(wire) + (e - off)
      /\ \A i \in 1 .. Len(wire) : wire'[i] = wire[i]
      /\ EndsWith(wire', msg, e)
  <2>1. \A p : IsPart(p, msg, off, e) =>
          /\ wire \o p \in Seq(Bytes)
          /\ Len(wire \o p) = Len(wire) + (e - off)
          /\ \A i \in 1 .. Len(wire) : (wire \o p)[i] = wire[i]
          /\ EndsWith(wire \o p, msg, e)
    BY <1>1, <1>2, AddPart, Zenon
  <2> QED
    BY <1>4, <2>1, Zenon
<1>6. WireIsPrefixes'
  BY <1>1, <1>2, <1>3, <1>5, AddPartPrefixes, Zenon DEF WireIsPrefixes
<1> QED
  BY <1>5, <1>6

\* Every step of the writer preserves WriterInv.
LEMMA WriterInvStep == WriterInv /\ [WriterNext]_writerVars => WriterInv'
<1> SUFFICES ASSUME WriterInv, [WriterNext]_writerVars PROVE WriterInv'
  OBVIOUS
<1>1. ASSUME NEW n \in FrameSizes, WriteMessage(n) PROVE WriterInv'
  <2>1. n \in Nat /\ n > 0
    BY WriterSizes
  <2> QED
    <3>1. /\ msg' = msg + 1 /\ len' = n /\ off' = 0 /\ state' = "first"
          /\ wire' = wire /\ sentOk' = sentOk
      BY <1>1 DEF WriteMessage
    <3>2. msg' \in Nat /\ \A i \in 1 .. Len(sentOk) : sentOk[i] < msg'
      BY <3>1, SMTT(60) DEF WriterInv
    <3>3. EndsWith(wire', msg', off')
      BY <3>1, SMTT(60) DEF WriterInv, EndsWith
    <3>4. WireIsPrefixes'
      BY <3>1 DEF WriterInv, WireIsPrefixes
    <3>5. SuccessEndsWithFrame'
      BY <3>1 DEF SuccessEndsWithFrame, Succeeded
    <3>6. /\ len' \in Nat /\ off' \in 0 .. len' /\ off' < len'
          /\ wire' \in Seq(Bytes) /\ sentOk' \in Seq(Nat)
      BY <2>1, <3>1 DEF WriterInv
    <3>7. \A i \in 1 .. Len(sentOk') :
             sentOk'[i] <= msg' /\ (state' # "idle" => sentOk'[i] < msg')
      BY <3>1, <3>2, SMTT(60) DEF WriterInv
    <3> QED
      BY <3>1, <3>2, <3>3, <3>4, <3>5, <3>6, <3>7 DEF WriterInv
<1>2. CASE WriteChunk
  <2>1. ChunkEnd \in off .. len /\ off < ChunkEnd
    BY <1>2, WriterSizes DEF WriteChunk, ChunkEnd, WriterInv
  <2>2. wire' \in Seq(Bytes) /\ EndsWith(wire', msg, ChunkEnd) /\ WireIsPrefixes'
    BY <1>2, <2>1, PassOn DEF WriteChunk
  <2>3. CASE ChunkEnd = len
    <3>1. /\ sentOk' \in Seq(Nat) /\ Len(sentOk') = Len(sentOk) + 1
          /\ \A i \in 1 .. Len(sentOk) : sentOk'[i] = sentOk[i]
          /\ sentOk'[Len(sentOk) + 1] = msg
      <4>1. sentOk' = Append(sentOk, msg) /\ sentOk \in Seq(Nat) /\ msg \in Nat
        BY <1>2, <2>3 DEF WriteChunk, WriterInv
      <4> QED
        BY <4>1, AppendProperties
    <3>2. /\ state' = "idle" /\ off' = len /\ UNCHANGED <<msg, len>>
          /\ len \in Nat /\ msg \in Nat /\ Len(sentOk) \in Nat
      BY <1>2, <2>3 DEF WriteChunk, WriterInv
    <3>3. \A i \in 1 .. Len(sentOk') : sentOk'[i] <= msg
      <4>1. \A i \in 1 .. Len(sentOk) : sentOk[i] <= msg
        BY DEF WriterInv
      <4>2. \A i \in 1 .. Len(sentOk') : i \in 1 .. Len(sentOk) \/ i = Len(sentOk) + 1
        BY <3>1, <3>2
      <4>3. msg <= msg
        BY <3>2
      <4> QED
        BY <3>1, <4>1, <4>2, <4>3, Zenon
    <3>4. SuccessEndsWithFrame'
      BY <2>2, <2>3, <3>2 DEF SuccessEndsWithFrame, EndsWith
    <3> QED
      BY <2>2, <3>1, <3>2, <3>3, <3>4 DEF WriterInv
  <2>4. CASE ChunkEnd # len
    BY <1>2, <2>1, <2>2, <2>4 DEF WriteChunk, WriterInv, SuccessEndsWithFrame, Succeeded
  <2> QED
    BY <2>3, <2>4
<1>3. ASSUME NEW e \in off .. ChunkEnd, ChunkFails(e) PROVE WriterInv'
  <2>1. e \in off .. len
    BY <1>3, WriterSizes DEF ChunkFails, ChunkEnd, WriterInv
  <2>2. wire' \in Seq(Bytes) /\ WireIsPrefixes'
    BY <1>3, <2>1, PassOn DEF ChunkFails
  <2>3. ~Succeeded'
    BY <1>3 DEF ChunkFails, Succeeded, WriterInv
  <2> QED
    BY <1>3, <2>2, <2>3 DEF ChunkFails, WriterInv, SuccessEndsWithFrame
<1>4. CASE Retry
  BY <1>4 DEF Retry, WriterInv, EndsWith, WireIsPrefixes, SuccessEndsWithFrame, Succeeded
<1>5. CASE GiveUp
  BY <1>5 DEF GiveUp, WriterInv, WireIsPrefixes, SuccessEndsWithFrame, Succeeded
<1>6. CASE UNCHANGED writerVars
  BY <1>6 DEF writerVars, WriterInv, EndsWith, WireIsPrefixes, SuccessEndsWithFrame, Succeeded
<1> QED
  BY <1>1, <1>2, <1>3, <1>4, <1>5, <1>6 DEF WriterNext

\* WriteMessage gives the device nothing but beginnings of frames, and returns nil only
\* when the last bytes it gave are the whole frame, for chunks and frames of any size.
THEOREM WriterCorrect == Spec => []WireCorrect
<1>1. Init => WriterInv
  BY WriterInvInit DEF Init
<1>2. [Next]_vars => [WriterNext]_writerVars
  BY DEF Next, vars, writerVars
<1>3. WriterInv /\ [Next]_vars => WriterInv'
  BY <1>2, WriterInvStep
<1>4. WriterInv => WireCorrect
  BY DEF WriterInv, WireCorrect
<1> QED
  BY <1>1, <1>3, <1>4, PTL DEF Spec

-----------------------------------------------------------------------------
\* The places of the wire where a whole frame of the message ends.
FrameEnds == {i \in 1 .. Len(wire) : wire[i] = Byte(msg, len)}

\* The strengthening for the number of copies: the wire holds bytes of the messages up
\* to this one.
CopiesInv ==
    /\ failed \in Nat
    /\ \A i \in 1 .. Len(wire) : wire[i][1] <= msg
    /\ IsFiniteSet(FrameEnds) /\ Cardinality(FrameEnds) \in Nat
    /\ Cardinality(FrameEnds) <= failed + (IF Succeeded THEN 1 ELSE 0)

\* A set within another and at most one more element has at most one element more.
LEMMA OneMore ==
    ASSUME NEW S, IsFiniteSet(S), NEW T, NEW x, T \subseteq S \cup {x}
    PROVE  /\ IsFiniteSet(T) /\ Cardinality(T) \in Nat
           /\ Cardinality(T) <= Cardinality(S) + 1
<1>1. IsFiniteSet(S \cup {x}) /\ Cardinality(S) \in Nat
  BY FS_AddElement, FS_CardinalityType
<1>2. Cardinality(S \cup {x}) <= Cardinality(S) + 1 /\ Cardinality(S \cup {x}) \in Nat
  BY <1>1, FS_AddElement
<1>3. IsFiniteSet(T) /\ Cardinality(T) <= Cardinality(S \cup {x})
  BY <1>1, FS_Subset
<1>4. Cardinality(T) \in Nat
  BY <1>3, FS_CardinalityType
<1> QED
  BY <1>1, <1>2, <1>3, <1>4

\* What the transfer of the bytes up to e does to the places where a frame ends.
LEMMA EndsPassedOn ==
    ASSUME WriterInv, CopiesInv, state \in {"first", "second"}, NEW e \in off .. len,
           wire' = wire \o Part(off, e), UNCHANGED <<msg, len>>
    PROVE  /\ \A i \in 1 .. Len(wire') : wire'[i][1] <= msg
           /\ FrameEnds' \subseteq FrameEnds \cup {Len(wire')}
           /\ e < len => FrameEnds' \subseteq FrameEnds
<1>1. /\ e \in Nat /\ off \in Nat /\ len \in Nat /\ off <= e /\ e <= len /\ msg \in Nat
      /\ wire \in Seq(Bytes) /\ Len(wire) \in Nat
  BY LenProperties DEF WriterInv
<1> DEFINE p == Part(off, e)
<1>2. IsPart(p, msg, off, e)
  BY <1>1, PartSeq, Zenon DEF Part
<1> HIDE DEF p
<1>3. /\ Len(wire') = Len(wire) + (e - off)
      /\ \A i \in 1 .. Len(wire) + (e - off) :
           wire'[i] = IF i <= Len(wire) THEN wire[i] ELSE p[i - Len(wire)]
  <2>1. /\ Len(wire \o p) = Len(wire) + Len(p)
        /\ \A i \in 1 .. Len(wire) + Len(p) :
             (wire \o p)[i] = IF i <= Len(wire) THEN wire[i] ELSE p[i - Len(wire)]
    BY <1>1, <1>2, ConcatProperties, Zenon DEF IsPart
  <2>2. Len(p) = e - off /\ wire' = wire \o p
    BY <1>2 DEF IsPart, p
  <2> QED
    BY <2>1, <2>2, Zenon
<1>4. ASSUME NEW i \in 1 .. Len(wire'), i <= Len(wire)
      PROVE  i \in 1 .. Len(wire) /\ wire'[i] = wire[i]
  BY <1>1, <1>3, <1>4
<1>5. ASSUME NEW i \in 1 .. Len(wire'), ~(i <= Len(wire))
      PROVE  wire'[i] = Byte(msg, off + (i - Len(wire)))
  <2>1. i - Len(wire) \in 1 .. e - off /\ i \in 1 .. Len(wire) + (e - off)
    BY <1>1, <1>3, <1>5
  <2>2. wire'[i] = p[i - Len(wire)]
    BY <1>3, <1>5, <2>1, Zenon
  <2> QED
    BY <1>2, <2>1, <2>2, Zenon DEF IsPart
<1>6. ASSUME NEW i \in 1 .. Len(wire')
      PROVE  wire'[i][1] <= msg
  <2>1. CASE i <= Len(wire)
    BY <1>4, <2>1 DEF CopiesInv
  <2>2. CASE ~(i <= Len(wire))
    <3>1. wire'[i] = Byte(msg, off + (i - Len(wire)))
      BY <1>5, <2>2
    <3>2. wire'[i][1] = msg
      BY <3>1 DEF Byte
    <3> QED
      BY <1>1, <3>2
  <2> QED
    BY <2>1, <2>2
<1>7. ASSUME NEW i \in FrameEnds'
      PROVE  i \in FrameEnds \/ (e = len /\ i = Len(wire'))
  <2>1. i \in 1 .. Len(wire') /\ wire'[i] = Byte(msg, len)
    BY DEF FrameEnds, Byte
  <2>2. CASE i <= Len(wire)
    BY <1>4, <2>1, <2>2 DEF FrameEnds
  <2>3. CASE ~(i <= Len(wire))
    <3>1. Byte(msg, off + (i - Len(wire))) = Byte(msg, len)
      BY <1>5, <2>1, <2>3
    <3>2. off + (i - Len(wire)) = len
      BY <3>1 DEF Byte
    <3> QED
      BY <1>1, <1>3, <2>1, <3>2
  <2> QED
    BY <2>2, <2>3
<1> QED
  BY <1>1, <1>6, <1>7

\* Steps that leave the wire and the message alone.
LEMMA CopiesFrame ==
    ASSUME CopiesInv, UNCHANGED <<msg, len, wire, failed>>, Succeeded => Succeeded'
    PROVE  CopiesInv'
<1>1. FrameEnds' = FrameEnds
  BY DEF FrameEnds, Byte
<1> QED
  BY <1>1 DEF CopiesInv

\* Every step of the writer preserves CopiesInv.
LEMMA CopiesStep == WriterInv /\ CopiesInv /\ [WriterNext]_writerVars => CopiesInv'
<1> SUFFICES ASSUME WriterInv, CopiesInv, [WriterNext]_writerVars PROVE CopiesInv'
  OBVIOUS
<1>0. failed \in Nat /\ IsFiniteSet(FrameEnds) /\ Cardinality(FrameEnds) \in Nat
  BY DEF CopiesInv
<1>1. ASSUME NEW n \in FrameSizes, WriteMessage(n) PROVE CopiesInv'
  <2>1. /\ msg' = msg + 1 /\ len' = n /\ failed' = 0 /\ wire' = wire /\ msg \in Nat
        /\ wire \in Seq(Bytes)
    BY <1>1 DEF WriteMessage, WriterInv
  <2>2. ASSUME NEW i \in 1 .. Len(wire)
        PROVE  wire[i][1] <= msg + 1 /\ wire[i] # Byte(msg + 1, n)
    <3>1. wire[i] \in Bytes
      BY <2>1, ElementOfSeq
    <3>2. wire[i][1] \in Nat /\ wire[i][1] <= msg
      BY <3>1 DEF Bytes, CopiesInv
    <3> QED
      BY <2>1, <3>2 DEF Byte
  <2>3. FrameEnds' = {}
    BY <2>1, <2>2 DEF FrameEnds, Byte
  <2>4. Cardinality({}) = 0 /\ IsFiniteSet({})
    BY FS_EmptySet
  <2> QED
    BY <2>1, <2>2, <2>3, <2>4 DEF CopiesInv
<1>2. CASE WriteChunk
  <2>1. /\ ChunkEnd \in off .. len /\ state \in {"first", "second"} /\ ~Succeeded
        /\ wire' = wire \o Part(off, ChunkEnd) /\ UNCHANGED <<msg, len, failed>>
    BY <1>2, WriterSizes DEF WriteChunk, ChunkEnd, WriterInv, Succeeded
  <2>2. /\ \A i \in 1 .. Len(wire') : wire'[i][1] <= msg
        /\ FrameEnds' \subseteq FrameEnds \cup {Len(wire')}
        /\ ChunkEnd < len => FrameEnds' \subseteq FrameEnds
    BY <2>1, EndsPassedOn
  <2>3. Cardinality(FrameEnds) <= failed
    BY <2>1 DEF CopiesInv
  <2>4. CASE ChunkEnd = len
    <3>1. Succeeded'
      <4>1. sentOk' = Append(sentOk, msg) /\ sentOk \in Seq(Nat) /\ msg \in Nat
            /\ state' = "idle"
        BY <1>2, <2>4 DEF WriteChunk, WriterInv
      <4>2. sentOk' # <<>> /\ sentOk'[Len(sentOk')] = msg
        BY <4>1, AppendProperties
      <4> QED
        BY <2>1, <4>1, <4>2 DEF Succeeded
    <3>2. /\ IsFiniteSet(FrameEnds') /\ Cardinality(FrameEnds') \in Nat
          /\ Cardinality(FrameEnds') <= Cardinality(FrameEnds) + 1
      BY <1>0, <2>2, OneMore
    <3>3. Cardinality(FrameEnds') <= failed + 1
      BY <1>0, <2>3, <3>2
    <3> QED
      BY <1>0, <2>1, <2>2, <3>1, <3>2, <3>3 DEF CopiesInv
  <2>5. CASE ChunkEnd # len
    <3>1. ~Succeeded' /\ FrameEnds' \subseteq FrameEnds
      BY <1>2, <2>1, <2>2, <2>5 DEF WriteChunk, Succeeded, WriterInv
    <3>2. /\ IsFiniteSet(FrameEnds') /\ Cardinality(FrameEnds') <= Cardinality(FrameEnds)
      BY <1>0, <3>1, FS_Subset
    <3>3. Cardinality(FrameEnds') \in Nat
      BY <3>2, FS_CardinalityType
    <3>4. Cardinality(FrameEnds') <= failed
      BY <1>0, <2>3, <3>2, <3>3
    <3> QED
      BY <1>0, <2>1, <2>2, <3>1, <3>2, <3>3, <3>4 DEF CopiesInv
  <2> QED
    BY <2>4, <2>5
<1>3. ASSUME NEW e \in off .. ChunkEnd, ChunkFails(e) PROVE CopiesInv'
  <2>1. /\ e \in off .. len /\ state \in {"first", "second"} /\ ~Succeeded
        /\ wire' = wire \o Part(off, e) /\ UNCHANGED <<msg, len>> /\ failed' = failed + 1
    BY <1>3, WriterSizes DEF ChunkFails, ChunkEnd, WriterInv, Succeeded
  <2>2. /\ \A i \in 1 .. Len(wire') : wire'[i][1] <= msg
        /\ FrameEnds' \subseteq FrameEnds \cup {Len(wire')}
    BY <2>1, EndsPassedOn
  <2>3. Cardinality(FrameEnds) <= failed
    BY <2>1 DEF CopiesInv
  <2>4. /\ IsFiniteSet(FrameEnds') /\ Cardinality(FrameEnds') \in Nat
        /\ Cardinality(FrameEnds') <= Cardinality(FrameEnds) + 1
    BY <1>0, <2>2, OneMore
  <2>5. ~Succeeded'
    BY <1>3 DEF ChunkFails, Succeeded, WriterInv
  <2>6. Cardinality(FrameEnds') <= failed'
    BY <1>0, <2>1, <2>3, <2>4
  <2> QED
    BY <1>0, <2>1, <2>2, <2>4, <2>5, <2>6 DEF CopiesInv
<1>4. CASE Retry \/ GiveUp \/ UNCHANGED writerVars
  <2>1. UNCHANGED <<msg, len, wire, failed>> /\ (Succeeded => Succeeded')
    BY <1>4 DEF Retry, GiveUp, writerVars, Succeeded
  <2> QED
    BY <2>1, CopiesFrame
<1> QED
  BY <1>1, <1>2, <1>3, <1>4 DEF WriterNext

\* The device gets a whole frame at most once more than transfers of it failed: the
\* retry of WriteMessage never repeats a frame without a failure.
THEOREM RetriesNeedFailures == Spec => []CopiesNeedFailures
<1>1. Init => CopiesInv
  <2> SUFFICES ASSUME Init PROVE CopiesInv
    OBVIOUS
  <2>1. wire = <<>> /\ failed = 0
    BY DEF Init, WriterInit
  <2>2. FrameEnds = {}
    BY <2>1 DEF FrameEnds
  <2> QED
    BY <2>1, <2>2, FS_EmptySet DEF CopiesInv
<1>2. [Next]_vars => [WriterNext]_writerVars
  BY DEF Next, vars, writerVars
<1>3. WriterInv /\ CopiesInv => CopiesNeedFailures
  <2> SUFFICES ASSUME WriterInv, CopiesInv PROVE CopiesNeedFailures
    OBVIOUS
  <2>1. {i \in DOMAIN wire : wire[i] = Byte(msg, len)} = FrameEnds
    BY LenProperties DEF WriterInv, FrameEnds
  <2> QED
    BY <2>1 DEF CopiesInv, CopiesNeedFailures
<1>4. Init => WriterInv
  BY WriterInvInit DEF Init
<1>5. WriterInv /\ [Next]_vars => WriterInv'
  BY <1>2, WriterInvStep
<1>6. WriterInv /\ CopiesInv /\ [Next]_vars => CopiesInv'
  BY <1>2, CopiesStep
<1> QED
  BY <1>1, <1>3, <1>4, <1>5, <1>6, PTL DEF Spec

-----------------------------------------------------------------------------
\* The switch rounds the sub-integer part rest/b to the nearest eighth.
LEMMA EighthsNearest ==
    ASSUME NEW b \in Nat, NEW rest \in 0 .. b - 1
    PROVE  /\ Eighths(rest, b) \in 0 .. 8
           /\ -b <= 16 * rest - 2 * (Eighths(rest, b) * b)
           /\ 16 * rest - 2 * (Eighths(rest, b) * b) <= b
BY SMTT(60) DEF Eighths

\* The eighths of an integer part below 4096 have bits 12 to 14 to themselves.
LEMMA EighthsOwnBits ==
    ASSUME NEW e \in 0 .. 7 PROVE BitOr3(0, e) = e
<1>1. e \in {0, 1, 2, 3, 4, 5, 6, 7}
  OBVIOUS
<1> QED
  BY <1>1 DEF BitOr3, Bit

\* Integer parts that leave bits 12 to 14 free, before and after rounding up.
IntegerParts == {q \in Nat : q < 4095}
RoundedParts == {q \in Nat : q < 4096}

\* An integer part below 4096 and the eighths come out of the combined word again.
LEMMA Unpack ==
    ASSUME NEW q \in RoundedParts, NEW e \in 0 .. 7
    PROVE  EighthsOf(Split(Combine(q, e))) = 8 * q + e
<1> USE DEF RoundedParts
<1>1. q % 16384 = q /\ q \div 4096 = 0 /\ q % 4096 = q
  BY SMTT(60)
<1>2. Combine(q, e) = e * 4096 + q
  BY <1>1, EighthsOwnBits, SMTT(60) DEF Combine
<1>3. ASSUME NEW d, d = e * 4096 + q
      PROVE  EighthsOf(Split(d)) = 8 * q + e
  <2>1. /\ ((d \div 256) % 256) * 256 + (d % 256) = d
        /\ d % 4096 = q /\ d \div 4096 = e
    BY <1>3, SMTT(60)
  <2>2. Split(d)[1] = d % 256 /\ Split(d)[2] = (d \div 256) % 256
    BY DEF Split
  <2> QED
    BY <2>1, <2>2, SMTT(60) DEF EighthsOf
<1> QED
  BY <1>2, <1>3

\* The clock is a natural number.
LEMMA ClockNat == baseClock \in Nat
BY SMTT(60) DEF baseClock

\* Integer part and remainder of the divisor.
LEMMA Quotient ==
    ASSUME NEW b \in Nat \ {0}
    PROVE  /\ baseClock \div b \in Nat /\ baseClock % b \in 0 .. b - 1
           /\ baseClock = (baseClock \div b) * b + (baseClock % b)
BY ClockNat, SMTT(60)

\* A divisor below 4095 leaves those bits free.
LEMMA SmallQuotient ==
    ASSUME NEW q \in Nat, q < 4095 PROVE q \in IntegerParts
BY SMTT(60) DEF IntegerParts

\* The two bytes stand for the integer part and the eighths they were made from.
LEMMA DivisorDecodes ==
    ASSUME NEW q \in IntegerParts, NEW e \in 0 .. 8
    PROVE  EighthsOf(Split(finalDivisor(q, e))) = 8 * q + e
<1>1. CASE e < 8
  <2>1. q \in RoundedParts /\ e \in 0 .. 7
    BY <1>1, SMTT(60) DEF IntegerParts, RoundedParts
  <2> QED
    BY <1>1, <2>1, Unpack, Zenon DEF finalDivisor
<1>2. CASE ~(e < 8)
  <2>1. q + 1 \in RoundedParts /\ 0 \in 0 .. 7 /\ 8 * (q + 1) + 0 = 8 * q + e
    BY <1>2, SMTT(60) DEF IntegerParts, RoundedParts
  <2>2. EighthsOf(Split(Combine(q + 1, 0))) = 8 * (q + 1) + 0
    BY <2>1, Unpack, Zenon
  <2> QED
    BY <1>2, <2>1, <2>2, Zenon DEF finalDivisor
<1> QED
  BY <1>1, <1>2

\* A divisor with integer part q and remainder rest is given the nearest eighth.
LEMMA NearestEighth ==
    ASSUME NEW b \in Nat \ {0}, NEW q \in IntegerParts, NEW rest \in 0 .. b - 1,
           baseClock = q * b + rest
    PROVE  IsClosest(Split(finalDivisor(q, Eighths(rest, b))), b)
<1> DEFINE e == Eighths(rest, b)
           x == EighthsOf(Split(finalDivisor(q, e)))
<1>1. /\ e \in 0 .. 8
      /\ -b <= 16 * rest - 2 * (e * b) /\ 16 * rest - 2 * (e * b) <= b
  BY EighthsNearest
<1>2. x = 8 * q + e
  BY <1>1, DivisorDecodes, Zenon
<1> HIDE DEF e, x
<1>3. 16 * baseClock - 2 * x * b = 16 * rest - 2 * (e * b)
  BY <1>1, <1>2, ClockNat, SMTT(60) DEF IntegerParts
<1>4. -b <= 16 * baseClock - 2 * x * b /\ 16 * baseClock - 2 * x * b <= b
  BY <1>1, <1>3
<1> QED
  BY <1>4 DEF IsClosest, e, x

\* So is the divisor of a baud rate.
LEMMA BaudNearest ==
    ASSUME NEW b \in Nat \ {0}, baseClock \div b \in IntegerParts
    PROVE  IsClosest(calculateFTDIBaudRateDivisor(b), b)
BY Quotient, NearestEighth, Zenon DEF calculateFTDIBaudRateDivisor

\* The device is given the closest achievable divisor, for every baud rate that needs
\* one below 4095.
THEOREM DivisorIsClosest == Spec => []DivisorClosest
<1> DEFINE Programmed == baud \in Nat \ {0} /\ divisor = calculateFTDIBaudRateDivisor(baud)
<1>1. Init => Programmed
  BY BaudsAssumption, ClockNat DEF Init
<1>2. Programmed /\ [Next]_vars => Programmed'
  BY DEF Next, vars
<1>3. Programmed => DivisorClosest
  <2> SUFFICES ASSUME Programmed, baseClock \div baud < 4095
               PROVE  IsClosest(divisor, baud)
    BY DEF DivisorClosest
  <2>1. baseClock \div baud \in IntegerParts
    BY Quotient, SmallQuotient
  <2> QED
    BY <2>1, BaudNearest
<1> QED
  BY <1>1, <1>2, <1>3, PTL DEF Spec
=============================================================================
