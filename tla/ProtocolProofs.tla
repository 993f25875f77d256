--------------------------- MODULE ProtocolProofs ---------------------------
(***************************************************************************)
(* Proofs about MessageReader and about Protocol, which extends it, for    *)
(* every word size, limit, buffer size and set of streams, every capacity  *)
(* of msgCh and set of patterns and handlers, and any number of calls.     *)
(***************************************************************************)
EXTENDS Protocol, SequenceTheorems, TLAPS

\* What every step needs: the types, and what the buffer holds.
Base == TypeOK /\ BufferIsStreamWindow

\* The numeric facts of Base, without the rest of it.
LEMMA Numbers ==
    ASSUME Base
    PROVE  /\ arrived \in Nat /\ count \in Nat /\ pos \in Nat /\ startPos \in Nat
           /\ stream.len \in Nat /\ BufSize \in Nat /\ HeaderSize \in Nat
           /\ arrived <= stream.len /\ count <= arrived
           /\ pos <= count /\ count <= BufSize
<1>1. stream.len \in Nat
  BY Zenon DEF Base, TypeOK, IsStream
<1>2. HeaderSize \in Nat
  BY WordSizeAssumption DEF HeaderSize
<1> QED
  BY <1>1, <1>2, BufSizeAssumption DEF Base, TypeOK, BufferIsStreamWindow

\* readMore keeps the buffer a window of the stream.  It moves the window by
\* exactly the bytes it shifts out, so r.pos names the same byte as before.
LEMMA FillLemma ==
    ASSUME Base, NEW p \in 0 .. count, NEW n \in 0 .. BufSize,
           n <= Room(p), n <= stream.len - arrived, readMore(p, n), UNCHANGED stream
    PROVE  /\ arrived' \in 0 .. stream.len
           /\ buffer' \in [Cells -> Nat \cup {NoByte}]
           /\ pos' \in Nat /\ count' \in Nat
           /\ pos' <= count' /\ count' <= BufSize
           /\ BufferIsStreamWindow'
           /\ ShiftBy(p) \in {0, p}
           /\ pos' = p - ShiftBy(p)
           /\ arrived' - count' = arrived - count + ShiftBy(p)
           /\ arrived' \in Nat /\ arrived <= arrived'
           /\ ShiftBy(p) \in Nat
           /\ OffsetOf(pos)' = OffsetOf(p) /\ OffsetOf(p) \in Int
<1> DEFINE sh == ShiftBy(p)
           kept == count - sh
<1>0. /\ arrived \in Nat /\ count \in Nat /\ stream.len \in Nat /\ BufSize \in Nat
      /\ arrived <= stream.len /\ count <= arrived /\ count <= BufSize
      /\ buffer \in [Cells -> Nat \cup {NoByte}]
  BY Numbers, Zenon DEF Base, TypeOK
<1>1. sh \in {0, p} /\ sh \in Nat /\ p \in Nat /\ sh <= p /\ p <= count
  BY <1>0 DEF ShiftBy
<1>2. /\ buffer' = [i \in Cells |-> IF i < kept THEN buffer[i + sh]
                                    ELSE IF i < kept + n THEN arrived + (i - kept)
                                    ELSE buffer[i]]
      /\ pos' = p - sh /\ count' = kept + n /\ arrived' = arrived + n
  BY Zenon DEF readMore
<1>3. n <= BufSize - kept /\ n <= stream.len - arrived
  BY <1>0, <1>1, Zenon DEF Room
<1> HIDE DEF sh
<1>4. kept \in Nat /\ kept <= count /\ n \in Nat
  BY <1>0, <1>1
<1> HIDE DEF kept
<1>5. /\ arrived' \in Nat /\ arrived <= arrived' /\ arrived' <= stream.len
      /\ count' \in Nat /\ count' <= BufSize /\ count' <= arrived'
  BY <1>0, <1>2, <1>3, <1>4
<1>6. /\ pos' \in Nat /\ pos' <= count'
      /\ arrived' - count' = arrived - count + sh
  BY <1>0, <1>1, <1>2, <1>4 DEF kept
<1>7. ASSUME NEW i \in Cells
      PROVE  i \in Nat /\ i < BufSize
  BY <1>0 DEF Cells
<1>8. ASSUME NEW i \in Cells, i < kept
      PROVE  /\ i + sh \in Cells /\ i + sh < count
             /\ buffer'[i] = buffer[i + sh]
  <2>1. i + sh < count /\ i + sh \in Nat
    BY <1>0, <1>1, <1>7, <1>8 DEF kept
  <2> QED
    BY <1>0, <1>2, <1>8, <2>1 DEF Cells
<1>9. buffer' \in [Cells -> Nat \cup {NoByte}]
  <2>1. ASSUME NEW i \in Cells
        PROVE  buffer'[i] \in Nat \cup {NoByte}
    <3>1. CASE i < kept
      BY <1>0, <1>8, <3>1, Zenon
    <3>2. CASE ~(i < kept) /\ i < kept + n
      <4>1. buffer'[i] = arrived + (i - kept)
        BY <1>2, <3>2, Zenon
      <4>2. arrived + (i - kept) \in Nat
        BY <1>0, <1>4, <1>7, <3>2
      <4> QED
        BY <4>1, <4>2, Zenon
    <3>3. CASE ~(i < kept) /\ ~(i < kept + n)
      BY <1>0, <1>2, <3>3, Zenon
    <3> QED
      BY <3>1, <3>2, <3>3, Zenon
  <2> QED
    BY <1>2, <2>1, Zenon
<1>10. ASSUME NEW i \in Cells, i < count'
       PROVE  buffer'[i] = arrived' - count' + i
  <2>1. CASE i < kept
    <3>1. buffer'[i] = arrived - count + (i + sh)
      BY <1>8, <2>1, Zenon DEF Base, BufferIsStreamWindow, OffsetOf
    <3>2. arrived' - count' + i = (arrived - count + sh) + i
      BY <1>6, Zenon
    <3> QED
      BY <1>0, <1>1, <1>7, <3>1, <3>2
  <2>2. CASE ~(i < kept)
    <3>1. buffer'[i] = arrived + (i - kept)
      BY <1>2, <1>10, <2>2, Zenon
    <3>2. arrived' - count' + i = (arrived + n) - (kept + n) + i
      BY <1>2, Zenon
    <3> QED
      BY <1>0, <1>4, <1>7, <3>1, <3>2
  <2> QED
    BY <2>1, <2>2, Zenon
<1>11. BufferIsStreamWindow'
  BY <1>5, <1>10, Zenon DEF BufferIsStreamWindow, OffsetOf
<1>12. OffsetOf(pos)' = OffsetOf(p) /\ OffsetOf(p) \in Int
  <2>1. OffsetOf(pos)' = (arrived - count + sh) + (p - sh)
    BY <1>2, <1>6, Zenon DEF OffsetOf
  <2> QED
    BY <1>0, <1>1, <2>1 DEF OffsetOf
<1>13. arrived' \in 0 .. stream.len
  BY <1>0, <1>5
<1> QED
  BY <1>1, <1>2, <1>5, <1>6, <1>9, <1>11, <1>12, <1>13, Zenon DEF sh

\* What Read returns fits, in the buffer and in the stream.
LEMMA ReadMoreLemma ==
    ASSUME Base, NEW p \in 0 .. count, NEW n \in 0 .. BufSize, NEW err \in BOOLEAN,
           Reads(p, n, err), readMore(p, n), UNCHANGED stream
    PROVE  /\ arrived' \in 0 .. stream.len
           /\ buffer' \in [Cells -> Nat \cup {NoByte}]
           /\ pos' \in Nat /\ count' \in Nat
           /\ pos' <= count' /\ count' <= BufSize
           /\ BufferIsStreamWindow'
           /\ ShiftBy(p) \in {0, p}
           /\ pos' = p - ShiftBy(p)
           /\ arrived' - count' = arrived - count + ShiftBy(p)
           /\ arrived' \in Nat /\ arrived <= arrived'
           /\ ShiftBy(p) \in Nat
           /\ OffsetOf(pos)' = OffsetOf(p) /\ OffsetOf(p) \in Int
<1>1. n <= Room(p) /\ n <= stream.len - arrived
  BY Numbers DEF Reads, Room, ShiftBy
<1> QED
  BY <1>1, FillLemma, Zenon

\* The header that the scan decodes is the one the stream has at that offset.
LEMMA CandidateLemma ==
    ASSUME Base, InScan
    PROVE  /\ startPos \in 0 .. count - 1
           /\ OffsetOf(startPos) \in Nat
           /\ buffer[startPos] = OffsetOf(startPos)
           /\ topicLen = stream.word[OffsetOf(startPos)]
           /\ payloadLen = stream.word[OffsetOf(startPos) + WordSize]
           /\ topicLen \in Nat /\ payloadLen \in Nat
           /\ totalLen \in Nat /\ totalLen >= HeaderSize + WordSize
           /\ totalLen = TotalLen(stream, OffsetOf(startPos))
<1> USE WordSizeAssumption
<1>1. /\ startPos \in 0 .. count - 1 /\ startPos + WordSize \in 0 .. count - 1
      /\ startPos \in Cells /\ startPos + WordSize \in Cells
  BY BufSizeAssumption DEF InScan, HeaderSize, Base, TypeOK, Cells
<1>2. /\ buffer[startPos] = OffsetOf(startPos)
      /\ buffer[startPos + WordSize] = OffsetOf(startPos) + WordSize
  BY <1>1, SMTT(30) DEF Base, TypeOK, BufferIsStreamWindow, OffsetOf, IsStream
<1>3. /\ OffsetOf(startPos) \in 0 .. stream.len - 1
      /\ OffsetOf(startPos) + WordSize \in 0 .. stream.len - 1
  BY <1>1 DEF Base, TypeOK, BufferIsStreamWindow, OffsetOf, IsStream
<1>4. /\ topicLen = stream.word[OffsetOf(startPos)]
      /\ payloadLen = stream.word[OffsetOf(startPos) + WordSize]
      /\ topicLen \in Nat /\ payloadLen \in Nat
  BY <1>2, <1>3, Zenon DEF topicLen, payloadLen, Base, TypeOK, IsStream
<1> QED
  BY <1>1, <1>2, <1>3, <1>4 DEF totalLen, TotalLen, HeaderSize

\* TailStart is an index into the valid part of the buffer, and not behind the
\* position the scan has reached.
LEMMA TailStartLemma ==
    ASSUME Base, startPos > count - HeaderSize
    PROVE  /\ TailStart \in 0 .. count
           /\ TailStart <= startPos
           /\ OffsetOf(TailStart) >= arrived - HeaderSize
BY WordSizeAssumption DEF TailStart, maxInt, HeaderSize, Base, TypeOK, OffsetOf, IsStream


-----------------------------------------------------------------------------
\* NewMessageReader establishes Base.
LEMMA BaseInit == Init => Base
<1> SUFFICES ASSUME Init PROVE Base
  BY Zenon
<1>1. IsStream(stream) /\ 0 \in 0 .. stream.len
  BY StreamsAssumption DEF Init, IsStream
<1>2. buffer \in [Cells -> Nat \cup {NoByte}]
  BY Zenon DEF Init
<1>3. BufSize >= 0
  BY BufSizeAssumption
<1>4. /\ delivered \in Seq(Nat)
      /\ staleScan \in BOOLEAN
  <2>1. delivered \in Seq(Nat)
    BY DEF Init
  <2>2. staleScan \in BOOLEAN
    BY Zenon DEF Init
  <2> QED
    BY <2>1, <2>2, Zenon
<1>5. BufferIsStreamWindow
  BY BufSizeAssumption DEF Init, BufferIsStreamWindow, Cells
<1> QED
  BY <1>1, <1>2, <1>3, <1>4, <1>5 DEF Init, Base, TypeOK

\* Every step of ReadMessage preserves Base: only readMore touches the buffer.
LEMMA BaseStep == Base /\ [Next]_vars => Base'
<1> SUFFICES ASSUME Base, [Next]_vars PROVE Base'
  BY Zenon
<1> USE DEF Base
<1>1. CASE ReadMessage \/ Return \/ UNCHANGED vars
  BY <1>1, Zenon DEF ReadMessage, Return, vars, TypeOK, BufferIsStreamWindow, OffsetOf
<1>2. CASE EnsureHeader
  <2>1. CASE count - pos >= HeaderSize /\ startPos' = pos /\ pc' = "scan"
             /\ UNCHANGED <<arrived, buffer, pos, count>>
    BY <1>2, <2>1, Zenon DEF EnsureHeader, TypeOK, BufferIsStreamWindow, OffsetOf
  <2>2. ASSUME NEW n \in 0 .. BufSize, NEW err \in BOOLEAN,
               Reads(pos, n, err), readMore(pos, n),
               pc' \in {"err", "scan"}, startPos' \in {startPos, pos'}
        PROVE  Base'
    <3>1. pos \in 0 .. count /\ UNCHANGED stream
      BY <1>2 DEF EnsureHeader, TypeOK
    <3>2. /\ arrived' \in 0 .. stream.len
          /\ buffer' \in [Cells -> Nat \cup {NoByte}]
          /\ pos' \in Nat /\ count' \in Nat /\ pos' <= count' /\ count' <= BufSize
          /\ BufferIsStreamWindow'
      BY <2>2, <3>1, ReadMoreLemma, Zenon
    <3> QED
      BY <1>2, <2>2, <3>1, <3>2, Zenon DEF EnsureHeader, TypeOK
  <2> QED
    BY <1>2, <2>1, <2>2, Zenon DEF EnsureHeader
<1>3. CASE AcceptCandidate
  <2>1. /\ startPos \in 0 .. count - 1 /\ buffer[startPos] = OffsetOf(startPos)
        /\ OffsetOf(startPos) \in Nat /\ totalLen \in Nat
    BY <1>3, CandidateLemma, Zenon DEF AcceptCandidate
  <2>2. pos' \in Nat /\ pos' <= count
    BY <1>3, <2>1 DEF AcceptCandidate, Complete, TypeOK
  <2> QED
    BY <1>3, <2>1, <2>2 DEF AcceptCandidate, TypeOK, BufferIsStreamWindow, OffsetOf
<1>4. CASE RejectCandidate
  BY <1>4 DEF RejectCandidate, TypeOK, BufferIsStreamWindow, OffsetOf
<1>5. CASE AwaitRest
  <2>1. PICK n \in 0 .. BufSize, err \in BOOLEAN : Reads(pos, n, err) /\ readMore(pos, n)
                                                   /\ pc' \in {"err", "scan"}
    BY <1>5, Zenon DEF AwaitRest
  <2>2. pos \in 0 .. count /\ UNCHANGED stream
    BY <1>5 DEF AwaitRest, TypeOK
  <2>3. /\ arrived' \in 0 .. stream.len
        /\ buffer' \in [Cells -> Nat \cup {NoByte}]
        /\ pos' \in Nat /\ count' \in Nat /\ pos' <= count' /\ count' <= BufSize
        /\ BufferIsStreamWindow'
    BY <2>1, <2>2, ReadMoreLemma, Zenon
  <2> QED
    BY <1>5, <2>1, <2>2, <2>3, Zenon DEF AwaitRest, TypeOK
<1>6. CASE KeepTail
  <2>1. PICK n \in 0 .. BufSize, err \in BOOLEAN :
            Reads(TailStart, n, err) /\ readMore(TailStart, n) /\ pc' \in {"err", "header"}
    BY <1>6, Zenon DEF KeepTail
  <2>2. TailStart \in 0 .. count /\ UNCHANGED stream
    BY <1>6, TailStartLemma, Zenon DEF KeepTail
  <2>3. /\ arrived' \in 0 .. stream.len
        /\ buffer' \in [Cells -> Nat \cup {NoByte}]
        /\ pos' \in Nat /\ count' \in Nat /\ pos' <= count' /\ count' <= BufSize
        /\ BufferIsStreamWindow'
    BY <2>1, <2>2, ReadMoreLemma, Zenon
  <2> QED
    BY <1>6, <2>1, <2>2, <2>3, Zenon DEF KeepTail, TypeOK
<1> QED
  BY <1>1, <1>2, <1>3, <1>4, <1>5, <1>6, Zenon DEF Next, Scan

\* Base is an invariant of MessageReader.
LEMMA BaseInvariant == Spec => []Base
<1>1. Init => Base
  BY BaseInit, Zenon
<1>2. Base /\ [Next]_vars => Base'
  BY BaseStep, Zenon
<1> QED
  BY <1>1, <1>2, PTL DEF Spec

\* The fields of the reader keep their types and 0 <= r.pos <= r.count <= len(r.buffer),
\* whatever the stream and however it is cut up by Read: no slice expression of
\* ReadMessage or readMore is out of range.
THEOREM ReaderInRange == Spec => []TypeOK
<1>1. Base => TypeOK
  BY Zenon DEF Base
<1> QED
  BY <1>1, BaseInvariant, PTL

\* The valid part of r.buffer is a contiguous piece of the stream that ends with the
\* last byte read: readMore never loses, repeats or reorders a byte.
THEOREM ReaderWindow == Spec => []BufferIsStreamWindow
<1>1. Base => BufferIsStreamWindow
  BY Zenon DEF Base
<1> QED
  BY <1>1, BaseInvariant, PTL

-----------------------------------------------------------------------------
(***************************************************************************)
(* No duplicates, no reordering.  The scan never restarts more than        *)
(* HeaderSize bytes before the end of the last frame returned, and every   *)
(* frame is longer than that, so the next undamaged frame it can meet      *)
(* starts at or after that end.                                            *)
(***************************************************************************)
LastEnd ==
    delivered[Len(delivered)] + TotalLen(stream, delivered[Len(delivered)])

OrderInv ==
    /\ \A i \in DOMAIN delivered : delivered[i] \in stream.intact
    /\ DeliveredInOrder
    /\ delivered # <<>> =>
         /\ LastEnd <= arrived
         /\ LastEnd <= OffsetOf(pos) + HeaderSize
         /\ pc = "scan" => LastEnd <= OffsetOf(startPos) + HeaderSize

\* The length of an undamaged frame is a number, above HeaderSize.
LEMMA FrameLemma ==
    ASSUME Base, NEW f \in stream.intact
    PROVE  /\ f \in Nat
           /\ stream.word[f] \in Nat /\ stream.word[f + WordSize] \in Nat
           /\ TotalLen(stream, f) \in Nat
           /\ TotalLen(stream, f) > HeaderSize
           /\ HeaderSize \in Nat
<1>0. f \in 0 .. stream.len - 1 /\ f + HeaderSize <= stream.len
  BY Zenon DEF Base, TypeOK, IsStream
<1>1. f \in Nat /\ f \in 0 .. stream.len - 1 /\ f + WordSize \in 0 .. stream.len - 1
  BY <1>0, Numbers, WordSizeAssumption DEF HeaderSize
<1>2. stream.word[f] \in Nat /\ stream.word[f + WordSize] \in Nat
  BY <1>1, Zenon DEF Base, TypeOK, IsStream
<1> QED
  BY <1>1, <1>2, WordSizeAssumption DEF TotalLen, HeaderSize

\* A step that returns no frame keeps the order if it does not move the
\* reading position too far back.
LEMMA OrderFrame ==
    ASSUME Base, OrderInv, UNCHANGED <<stream, delivered>>,
           arrived' \in Nat, arrived <= arrived',
           OffsetOf(pos)' \in Int, OffsetOf(startPos)' \in Int,
           \/ OffsetOf(pos)' >= OffsetOf(pos)
           \/ OffsetOf(pos)' >= arrived - HeaderSize,
           pc' = "scan" => \/ OffsetOf(startPos)' >= OffsetOf(pos)
                           \/ pc = "scan" /\ OffsetOf(startPos)' >= OffsetOf(startPos)
    PROVE  OrderInv'
<1>1. /\ \A i \in DOMAIN delivered' : delivered'[i] \in stream'.intact
      /\ DeliveredInOrder'
  BY Zenon DEF OrderInv, DeliveredInOrder
<1>2. ASSUME delivered # <<>>
      PROVE  /\ LastEnd' <= arrived'
             /\ LastEnd' <= OffsetOf(pos)' + HeaderSize
             /\ pc' = "scan" => LastEnd' <= OffsetOf(startPos)' + HeaderSize
  <2>1. Len(delivered) \in DOMAIN delivered
    BY <1>2 DEF Base, TypeOK
  <2>2. delivered[Len(delivered)] \in stream.intact
    BY <2>1, Zenon DEF OrderInv
  <2>3. LastEnd \in Nat /\ LastEnd' = LastEnd /\ HeaderSize \in Nat
    BY <2>2, FrameLemma DEF LastEnd
  <2>4. arrived \in Nat /\ OffsetOf(pos) \in Int /\ OffsetOf(startPos) \in Int
    BY DEF Base, TypeOK, OffsetOf, IsStream
  <2>5. /\ LastEnd <= arrived
        /\ LastEnd <= OffsetOf(pos) + HeaderSize
        /\ pc = "scan" => LastEnd <= OffsetOf(startPos) + HeaderSize
    BY <1>2, Zenon DEF OrderInv
  <2> QED
    BY <2>3, <2>4, <2>5
<1> QED
  BY <1>1, <1>2, Zenon DEF OrderInv

\* Every step preserves OrderInv; the ones that matter return a frame, or move r.pos
\* back to the last header-sized piece of the buffer.
LEMMA OrderStep == Base /\ OrderInv /\ [Next]_vars => OrderInv'
<1> SUFFICES ASSUME Base, OrderInv, [Next]_vars PROVE OrderInv'
  BY Zenon
<1>0. /\ arrived \in Nat /\ count \in Nat /\ pos \in Nat /\ startPos \in Nat
      /\ pos <= count /\ pos \in 0 .. count
  BY Numbers
<1>1. CASE ReadMessage \/ Return \/ UNCHANGED vars
  BY <1>0, <1>1, OrderFrame DEF ReadMessage, Return, vars, OffsetOf
<1>2. CASE EnsureHeader
  <2>1. CASE startPos' = pos /\ UNCHANGED <<arrived, buffer, pos, count>>
    BY <1>0, <1>2, <2>1, OrderFrame DEF EnsureHeader, OffsetOf
  <2>2. ASSUME NEW n \in 0 .. BufSize, NEW err \in BOOLEAN,
               Reads(pos, n, err), readMore(pos, n),
               pc' = "scan" => startPos' = pos', startPos' \in {startPos, pos'}
        PROVE  OrderInv'
    <3>1. UNCHANGED <<stream, delivered>>
      BY <1>2, Zenon DEF EnsureHeader
    <3>2. /\ arrived' \in Nat /\ arrived <= arrived' /\ count' \in Nat /\ pos' \in Nat
          /\ OffsetOf(pos)' = OffsetOf(pos) /\ OffsetOf(pos) \in Int
      BY <1>0, <2>2, <3>1, ReadMoreLemma, Zenon
    <3>3. /\ OffsetOf(startPos)' \in Int
          /\ pc' = "scan" => OffsetOf(startPos)' = OffsetOf(pos)'
      BY <1>0, <2>2, <3>2 DEF OffsetOf
    <3> QED
      BY <3>1, <3>2, <3>3, OrderFrame
  <2> QED
    BY <1>2, <2>1, <2>2, Zenon DEF EnsureHeader
<1>3. CASE AcceptCandidate
  <2> DEFINE f == OffsetOf(startPos)
             k == Len(delivered)
  <2>1. /\ f \in Nat /\ buffer[startPos] = f
        /\ totalLen \in Nat /\ totalLen = TotalLen(stream, f)
    BY <1>3, CandidateLemma, Zenon DEF AcceptCandidate
  <2>2. /\ delivered \in Seq(Nat) /\ k \in Nat
        /\ f \in stream.intact /\ pc = "scan"
        /\ delivered' = Append(delivered, f)
        /\ pos' = startPos + totalLen /\ pos' <= count
        /\ UNCHANGED <<stream, arrived, count>> /\ pc' = "msg"
    BY <1>3, <2>1 DEF AcceptCandidate, Complete, InScan, tryParseMessage, Base, TypeOK
  <2>3. HeaderSize \in Nat
    BY WordSizeAssumption DEF HeaderSize
  <2>4. \A i \in DOMAIN delivered : delivered[i] + TotalLen(stream, delivered[i]) <= f
    <3> SUFFICES ASSUME NEW i \in DOMAIN delivered
                 PROVE  delivered[i] + TotalLen(stream, delivered[i]) <= f
      BY Zenon
    <3>1. k \in DOMAIN delivered /\ delivered # <<>> /\ i <= k
      BY <2>2
    <3>2. delivered[i] \in stream.intact /\ delivered[k] \in stream.intact
      BY <3>1, Zenon DEF OrderInv
    <3>3. LastEnd <= f + HeaderSize
      BY <2>2, <3>1, Zenon DEF OrderInv
    <3>4. delivered[k] < f
      BY <2>1, <2>3, <3>2, <3>3, FrameLemma DEF LastEnd
    <3>5. delivered[k] + TotalLen(stream, delivered[k]) <= f
      BY <2>2, <3>2, <3>4, Zenon DEF Base, TypeOK, IsStream
    <3>6. CASE i < k
      <4>1. delivered[i] + TotalLen(stream, delivered[i]) <= delivered[k]
        BY <3>1, <3>6, Zenon DEF OrderInv, DeliveredInOrder
      <4> QED
        BY <2>1, <3>2, <3>4, <4>1, FrameLemma
    <3> QED
      BY <2>2, <3>1, <3>5, <3>6
  <2>5. /\ \A i \in DOMAIN delivered : delivered'[i] = delivered[i]
        /\ DOMAIN delivered' = DOMAIN delivered \cup {k + 1}
        /\ delivered'[k + 1] = f /\ Len(delivered') = k + 1
        /\ \A i \in DOMAIN delivered : i < k + 1
    BY <2>1, <2>2
  <2>6. \A i \in DOMAIN delivered' : delivered'[i] \in stream'.intact
    BY <2>2, <2>5, Zenon DEF OrderInv
  <2>7. DeliveredInOrder'
    <3> SUFFICES ASSUME NEW i \in DOMAIN delivered', NEW j \in DOMAIN delivered', i < j
                 PROVE  delivered'[i] + TotalLen(stream, delivered'[i]) <= delivered'[j]
      BY <2>2, Zenon DEF DeliveredInOrder
    <3>1. i \in DOMAIN delivered
      BY <2>2, <2>5
    <3>2. CASE j \in DOMAIN delivered
      BY <2>5, <3>1, <3>2, Zenon DEF OrderInv, DeliveredInOrder
    <3>3. CASE j = k + 1
      BY <2>4, <2>5, <3>1, <3>3, Zenon
    <3> QED
      BY <2>5, <3>2, <3>3, Zenon
  <2>8. LastEnd' = f + totalLen
    BY <2>1, <2>2, <2>5, Zenon DEF LastEnd
  <2>9. /\ LastEnd' <= arrived' /\ LastEnd' <= OffsetOf(pos)' + HeaderSize
    <3>1. OffsetOf(pos)' = arrived - count + (startPos + totalLen)
      BY <2>2, Zenon DEF OffsetOf
    <3>2. OffsetOf(pos)' = f + totalLen
      BY <1>0, <2>1, <3>1 DEF OffsetOf
    <3>3. f + totalLen <= arrived
      BY <1>0, <2>1, <2>2, SMTT(60) DEF OffsetOf
    <3> QED
      BY <2>1, <2>2, <2>3, <2>8, <3>2, <3>3
  <2> QED
    BY <2>2, <2>6, <2>7, <2>9, Zenon DEF OrderInv
<1>4. CASE RejectCandidate
  BY <1>0, <1>4, OrderFrame DEF RejectCandidate, InScan, OffsetOf
<1>5. CASE AwaitRest
  <2>1. PICK n \in 0 .. BufSize, err \in BOOLEAN : Reads(pos, n, err) /\ readMore(pos, n)
    BY <1>5, Zenon DEF AwaitRest
  <2>2. UNCHANGED <<stream, delivered, startPos>> /\ pc = "scan"
    BY <1>5, Zenon DEF AwaitRest, InScan
  <2>3. /\ arrived' \in Nat /\ arrived <= arrived' /\ count' \in Nat
        /\ OffsetOf(pos)' = OffsetOf(pos) /\ OffsetOf(pos) \in Int
        /\ arrived' - count' = arrived - count + ShiftBy(pos) /\ ShiftBy(pos) \in Nat
    BY <1>0, <2>1, <2>2, ReadMoreLemma, Zenon
  <2>4. OffsetOf(startPos)' \in Int /\ OffsetOf(startPos)' >= OffsetOf(startPos)
    <3>1. OffsetOf(startPos)' = (arrived' - count') + startPos
      BY <2>2, Zenon DEF OffsetOf
    <3>2. OffsetOf(startPos)' = ((arrived - count) + ShiftBy(pos)) + startPos
      BY <2>3, <3>1, Zenon
    <3>3. OffsetOf(startPos) = (arrived - count) + startPos
      BY Zenon DEF OffsetOf
    <3> QED
      BY <1>0, <2>3, <3>2, <3>3
  <2> QED
    BY <2>2, <2>3, <2>4, OrderFrame
<1>6. CASE KeepTail
  <2>1. PICK n \in 0 .. BufSize, err \in BOOLEAN :
            Reads(TailStart, n, err) /\ readMore(TailStart, n) /\ pc' \in {"err", "header"}
    BY <1>6, Zenon DEF KeepTail
  <2>2. UNCHANGED <<stream, delivered, startPos>>
    BY <1>6, Zenon DEF KeepTail
  <2>3. TailStart \in 0 .. count /\ OffsetOf(TailStart) >= arrived - HeaderSize
    BY <1>6, TailStartLemma, Zenon DEF KeepTail
  <2>4. /\ arrived' \in Nat /\ arrived <= arrived' /\ count' \in Nat
        /\ OffsetOf(pos)' = OffsetOf(TailStart) /\ OffsetOf(TailStart) \in Int
    BY <2>1, <2>2, <2>3, ReadMoreLemma, Zenon
  <2>5. OffsetOf(startPos)' \in Int
    BY <1>0, <2>2, <2>4 DEF OffsetOf
  <2> QED
    BY <2>1, <2>2, <2>3, <2>4, <2>5, OrderFrame, Zenon
<1> QED
  BY <1>1, <1>2, <1>3, <1>4, <1>5, <1>6, Zenon DEF Next, Scan

\* ReadMessage returns no frame twice and returns frames in stream order,
\* although it steps back over bytes it has already consumed.
THEOREM ReaderOrder == Spec => []DeliveredInOrder
<1>1. Init => Base /\ OrderInv
  <2>1. Init => OrderInv
    BY DEF Init, OrderInv, DeliveredInOrder
  <2> QED
    BY <2>1, BaseInit, Zenon
<1>2. Base /\ OrderInv /\ [Next]_vars => (Base /\ OrderInv)'
  BY BaseStep, OrderStep, Zenon
<1>3. OrderInv => DeliveredInOrder
  BY Zenon DEF OrderInv
<1> QED
  BY <1>1, <1>2, <1>3, PTL DEF Spec

-----------------------------------------------------------------------------
(***************************************************************************)
(* No frame is skipped.  While no shift has moved the bytes under a scan,  *)
(* every receivable frame before r.pos, and while scanning every one       *)
(* before startPos, has been returned.                                     *)
(***************************************************************************)
AllReturnedBefore(o) == \A f \in Receivable : f < o => f \in Delivered

SkipInv ==
    ~staleScan => /\ AllReturnedBefore(OffsetOf(pos))
                  /\ pc = "scan" => AllReturnedBefore(OffsetOf(startPos))

\* A step that returns no frame skips none if it moves neither position past
\* one of the old ones.
LEMMA SkipFrame ==
    ASSUME Base, SkipInv, UNCHANGED <<stream, delivered>>,
           ~staleScan' => ~staleScan,
           OffsetOf(pos)' \in Int, OffsetOf(startPos)' \in Int,
           ~staleScan' => \/ OffsetOf(pos)' <= OffsetOf(pos)
                          \/ pc = "scan" /\ OffsetOf(pos)' <= OffsetOf(startPos),
           ~staleScan' /\ pc' = "scan" =>
               \/ OffsetOf(startPos)' <= OffsetOf(pos)
               \/ pc = "scan" /\ OffsetOf(startPos)' <= OffsetOf(startPos)
    PROVE  SkipInv'
<1>1. Receivable' = Receivable /\ Delivered' = Delivered
  BY Zenon DEF Receivable, Delivered
<1>2. \A f \in Receivable : f \in Int
  BY FrameLemma DEF Receivable
<1>3. OffsetOf(pos) \in Int /\ OffsetOf(startPos) \in Int
  BY DEF Base, TypeOK, OffsetOf, IsStream
<1>4. ASSUME NEW o \in Int, NEW q \in Int, AllReturnedBefore(o), q <= o
      PROVE  \A f \in Receivable' : f < q => f \in Delivered'
  BY <1>1, <1>2, <1>4 DEF AllReturnedBefore
<1>5. ASSUME ~staleScan'
      PROVE  AllReturnedBefore(OffsetOf(pos))'
  BY <1>3, <1>4, <1>5, Zenon DEF SkipInv, AllReturnedBefore
<1>6. ASSUME ~staleScan', pc' = "scan"
      PROVE  AllReturnedBefore(OffsetOf(startPos))'
  BY <1>3, <1>4, <1>6, Zenon DEF SkipInv, AllReturnedBefore
<1> QED
  BY <1>5, <1>6, Zenon DEF SkipInv

\* Every step preserves SkipInv; the ones that matter advance startPos or r.pos.
LEMMA SkipStep == Base /\ SkipInv /\ [Next]_vars => SkipInv'
<1> SUFFICES ASSUME Base, SkipInv, [Next]_vars PROVE SkipInv'
  BY Zenon
<1>0. /\ arrived \in Nat /\ count \in Nat /\ pos \in Nat /\ startPos \in Nat
      /\ pos <= count /\ pos \in 0 .. count
  BY Numbers
<1>1. CASE ReadMessage \/ Return \/ UNCHANGED vars
  BY <1>0, <1>1, SkipFrame DEF ReadMessage, Return, vars, OffsetOf
<1>2. CASE EnsureHeader
  <2>1. CASE startPos' = pos /\ UNCHANGED <<arrived, buffer, pos, count>>
    BY <1>0, <1>2, <2>1, SkipFrame DEF EnsureHeader, OffsetOf
  <2>2. ASSUME NEW n \in 0 .. BufSize, NEW err \in BOOLEAN,
               Reads(pos, n, err), readMore(pos, n),
               pc' = "scan" => startPos' = pos', startPos' \in {startPos, pos'}
        PROVE  SkipInv'
    <3>1. UNCHANGED <<stream, delivered, staleScan>>
      BY <1>2, Zenon DEF EnsureHeader
    <3>2. /\ arrived' \in Nat /\ count' \in Nat /\ pos' \in Nat
          /\ OffsetOf(pos)' = OffsetOf(pos) /\ OffsetOf(pos) \in Int
      BY <1>0, <2>2, <3>1, ReadMoreLemma, Zenon
    <3>3. /\ OffsetOf(startPos)' \in Int
          /\ pc' = "scan" => OffsetOf(startPos)' = OffsetOf(pos)'
      BY <1>0, <2>2, <3>2 DEF OffsetOf
    <3> QED
      BY <3>1, <3>2, <3>3, SkipFrame
  <2> QED
    BY <1>2, <2>1, <2>2, Zenon DEF EnsureHeader
<1>3. CASE AcceptCandidate
  <2> DEFINE f == OffsetOf(startPos)
  <2>1. /\ f \in Nat /\ buffer[startPos] = f
        /\ totalLen \in Nat /\ totalLen = TotalLen(stream, f)
    BY <1>3, CandidateLemma, Zenon DEF AcceptCandidate
  <2>2. /\ f \in stream.intact /\ pc = "scan" /\ pc' = "msg"
        /\ delivered' = Append(delivered, f) /\ delivered \in Seq(Nat)
        /\ pos' = startPos + totalLen
        /\ UNCHANGED <<stream, arrived, count, staleScan>>
    BY <1>3, <2>1, Zenon DEF AcceptCandidate, InScan, tryParseMessage, Base, TypeOK
  <2>3. OffsetOf(pos)' = f + totalLen
    BY <1>0, <2>1, <2>2 DEF OffsetOf
  <2>4. Delivered \cup {f} \subseteq Delivered'
    <3> HIDE DEF f
    <3>1. /\ \A i \in DOMAIN delivered : i \in DOMAIN delivered' /\ delivered'[i] = delivered[i]
          /\ Len(delivered) + 1 \in DOMAIN delivered' /\ delivered'[Len(delivered) + 1] = f
      BY <2>1, <2>2
    <3> QED
      BY <3>1, Zenon DEF Delivered
  <2>5. ASSUME ~staleScan, NEW g \in Receivable, g < f + totalLen
        PROVE  g \in Delivered'
    <3>1. g \in stream.intact /\ g \in Nat
      BY FrameLemma, Zenon DEF Receivable
    <3>2. CASE g < f
      BY <2>2, <2>4, <2>5, <3>2, Zenon DEF SkipInv, AllReturnedBefore
    <3>3. CASE f < g
      BY <2>1, <2>2, <2>5, <3>1, <3>3 DEF Base, TypeOK, IsStream
    <3> QED
      BY <2>1, <2>4, <3>1, <3>2, <3>3
  <2> QED
    BY <2>2, <2>3, <2>5, Zenon DEF SkipInv, AllReturnedBefore, Receivable
<1>4. CASE RejectCandidate
  <2> DEFINE f == OffsetOf(startPos)
  <2>1. /\ f \in Nat /\ buffer[startPos] = f /\ startPos \in 0 .. count - 1
        /\ topicLen = stream.word[f] /\ payloadLen = stream.word[f + WordSize]
        /\ totalLen \in Nat /\ totalLen = TotalLen(stream, f)
    BY <1>4, CandidateLemma, Zenon DEF RejectCandidate
  <2>2. /\ pc = "scan" /\ pc' = "scan" /\ startPos' = startPos + 1
        /\ UNCHANGED <<stream, arrived, pos, count, delivered, staleScan>>
    BY <1>4, Zenon DEF RejectCandidate, InScan
  <2>3. f \notin Receivable
    <3> SUFFICES ASSUME f \in Receivable PROVE FALSE
      BY Zenon
    <3>1. f \in stream.intact /\ Plausible
      BY <2>1, Zenon DEF Receivable, Plausible
    <3>2. Complete /\ ~tryParseMessage
      BY <1>4, <3>1, Zenon DEF RejectCandidate
    <3>3. ASSUME NEW i \in 0 .. totalLen - 1
          PROVE  buffer[startPos + i] = buffer[startPos] + i
      <4>1. startPos + i \in Cells /\ startPos + i < count
        BY <1>0, <2>1, <3>2, BufSizeAssumption, SMTT(60) DEF Complete, Cells, Base, TypeOK
      <4>2. buffer[startPos + i] = OffsetOf(startPos + i)
        BY <4>1, Zenon DEF Base, BufferIsStreamWindow
      <4> QED
        BY <1>0, <2>1, <4>2 DEF OffsetOf
    <3> QED
      BY <2>1, <3>1, <3>2, <3>3, Zenon DEF tryParseMessage
  <2>4. OffsetOf(startPos)' = f + 1 /\ OffsetOf(pos)' = OffsetOf(pos)
    BY <1>0, <2>2 DEF OffsetOf
  <2>5. ASSUME ~staleScan, NEW g \in Receivable, g < f + 1
        PROVE  g \in Delivered
    <3>1. g \in Nat
      BY FrameLemma, Zenon DEF Receivable
    <3>2. g < f
      BY <2>1, <2>3, <2>5, <3>1
    <3> QED
      BY <2>2, <2>5, <3>2, Zenon DEF SkipInv, AllReturnedBefore
  <2> QED
    BY <2>2, <2>4, <2>5, Zenon DEF SkipInv, AllReturnedBefore, Receivable, Delivered
<1>5. CASE AwaitRest
  <2>1. PICK n \in 0 .. BufSize, err \in BOOLEAN : Reads(pos, n, err) /\ readMore(pos, n)
    BY <1>5, Zenon DEF AwaitRest
  <2>2. /\ UNCHANGED <<stream, delivered, startPos>> /\ pc = "scan"
        /\ ~staleScan' => ~staleScan /\ ~(ShiftBy(pos) > 0)
    BY <1>5, Zenon DEF AwaitRest, InScan
  <2>3. /\ arrived' \in Nat /\ count' \in Nat
        /\ OffsetOf(pos)' = OffsetOf(pos) /\ OffsetOf(pos) \in Int
        /\ arrived' - count' = arrived - count + ShiftBy(pos) /\ ShiftBy(pos) \in Nat
    BY <1>0, <2>1, <2>2, ReadMoreLemma, Zenon
  <2>4. /\ OffsetOf(startPos)' \in Int
        /\ ~staleScan' => OffsetOf(startPos)' = OffsetOf(startPos)
    <3>1. OffsetOf(startPos)' = ((arrived - count) + ShiftBy(pos)) + startPos
      BY <2>2, <2>3, Zenon DEF OffsetOf
    <3>2. OffsetOf(startPos) = (arrived - count) + startPos
      BY Zenon DEF OffsetOf
    <3>3. ~staleScan' => ShiftBy(pos) = 0
      BY <2>2, <2>3
    <3> QED
      BY <1>0, <2>3, <3>1, <3>2, <3>3
  <2>5. OffsetOf(startPos) \in Int
    BY <1>0 DEF OffsetOf
  <2> QED
    BY <2>2, <2>3, <2>4, <2>5, SkipFrame
<1>6. CASE KeepTail
  <2>1. PICK n \in 0 .. BufSize, err \in BOOLEAN :
            Reads(TailStart, n, err) /\ readMore(TailStart, n) /\ pc' \in {"err", "header"}
    BY <1>6, Zenon DEF KeepTail
  <2>2. UNCHANGED <<stream, delivered, startPos, staleScan>> /\ pc = "scan"
    BY <1>6, Zenon DEF KeepTail
  <2>3. TailStart \in 0 .. count /\ TailStart <= startPos
    BY <1>6, TailStartLemma, Zenon DEF KeepTail
  <2>4. /\ arrived' \in Nat /\ count' \in Nat
        /\ OffsetOf(pos)' = OffsetOf(TailStart) /\ OffsetOf(TailStart) \in Int
    BY <2>1, <2>2, <2>3, ReadMoreLemma, Zenon
  <2>5. OffsetOf(startPos)' \in Int /\ OffsetOf(TailStart) <= OffsetOf(startPos)
    BY <1>0, <2>2, <2>3, <2>4 DEF OffsetOf
  <2> QED
    BY <2>1, <2>2, <2>4, <2>5, SkipFrame, Zenon
<1> QED
  BY <1>1, <1>2, <1>3, <1>4, <1>5, <1>6, Zenon DEF Next, Scan

\* Before the first read there is nothing to skip.
LEMMA SkipInit == Init => SkipInv
<1> SUFFICES ASSUME Init PROVE SkipInv
  BY Zenon
<1>1. OffsetOf(pos) = 0 /\ pc # "scan"
  BY DEF Init, OffsetOf
<1>2. \A f \in Receivable : f \in Nat
  BY BaseInit, FrameLemma, Zenon DEF Receivable
<1> QED
  BY <1>1, <1>2 DEF SkipInv, AllReturnedBefore

\* Whatever noise surrounds them, frames within the limits are never skipped by
\* the resynchronising scan of ReadMessage, as long as no shift of the buffer
\* has happened under a scan in progress.
THEOREM ReaderSkipsNothing == Spec => []NoFrameSkipped
<1>1. Init => Base /\ SkipInv
  <2>1. Init => SkipInv
    BY SkipInit, Zenon
  <2> QED
    BY <2>1, BaseInit, Zenon
<1>2. Base /\ SkipInv /\ [Next]_vars => (Base /\ SkipInv)'
  BY BaseStep, SkipStep, Zenon
<1>3. SkipInv => NoFrameSkipped
  BY Zenon DEF SkipInv, AllReturnedBefore, NoFrameSkipped
<1> QED
  BY <1>1, <1>2, <1>3, PTL DEF Spec

-----------------------------------------------------------------------------
(***************************************************************************)
(* Protocol: the queue between the receive loop and the process loop.      *)
(***************************************************************************)
Messages == [frame : Nat, cell : Nat, len : Nat]

HandledMessages == [frame : Nat, intact : BOOLEAN]

\* 1 while the receive loop has a message that it has not put on msgCh.
InHand == IF pc = "msg" THEN 1 ELSE 0

\* NothingLostInQueue place by place: the first frames returned by the reader have
\* been handled, the next ones wait, and the last may be in the receive loop's hands.
InPlace ==
    /\ Len(delivered) = Len(handled) + Len(msgCh) + InHand
    /\ \A i \in 1 .. Len(handled) : handled[i].frame = delivered[i]
    /\ \A i \in 1 .. Len(msgCh) : msgCh[i].frame = delivered[Len(handled) + i]
    /\ pc = "msg" => buffer[startPos] = delivered[Len(delivered)]

QueueInv ==
    /\ Base
    /\ msgCh \in Seq(Messages) /\ handled \in Seq(HandledMessages)
    /\ pc = "msg" => Message \in Messages
    /\ InPlace

\* Nothing is received before the loops start.
LEMMA QueueInit == PathInit => QueueInv
<1> SUFFICES ASSUME PathInit PROVE QueueInv
  BY Zenon
<1>1. Base
  BY BaseInit, Zenon DEF PathInit
<1>2. /\ delivered = <<>> /\ msgCh = <<>> /\ handled = <<>> /\ pc = "idle"
  BY Zenon DEF PathInit, Init
<1> QED
  BY <1>1, <1>2 DEF QueueInv, InPlace, InHand

\* Steps that touch neither the queue nor what the reader has returned.
LEMMA QueueFrame ==
    ASSUME QueueInv, Base', UNCHANGED <<msgCh, handled, delivered>>,
           pc # "msg", pc' # "msg"
    PROVE  QueueInv'
BY Zenon DEF QueueInv, InPlace, InHand

\* Steps of other goroutines, which do not touch the reader either.
LEMMA QueueStutter ==
    ASSUME QueueInv, UNCHANGED <<vars, msgCh, handled>>
    PROVE  QueueInv'
<1>1. Base'
  BY BaseStep, Zenon DEF QueueInv
<1>2. /\ UNCHANGED <<stream, buffer, startPos, pc, delivered>>
  BY Zenon DEF vars
<1> QED
  BY <1>1, <1>2, Zenon DEF QueueInv, InPlace, InHand, Message, PayloadCell, topicLen, payloadLen

\* The reader's own steps, up to the one that returns a message.
LEMMA QueueReader == QueueInv /\ StepReader => QueueInv'
<1> SUFFICES ASSUME QueueInv, StepReader PROVE QueueInv'
  BY Zenon
<1>1. Base' /\ UNCHANGED <<msgCh, handled>>
  BY BaseStep, Zenon DEF StepReader, QueueInv, Next, procVars
<1>2. CASE AcceptCandidate
  <2>1. /\ pc = "scan" /\ pc' = "msg" /\ delivered' = Append(delivered, buffer[startPos])
        /\ UNCHANGED <<buffer, startPos, stream>>
    BY <1>2, Zenon DEF AcceptCandidate, InScan
  <2>2. /\ buffer[startPos] \in Nat /\ topicLen \in Nat /\ payloadLen \in Nat
        /\ startPos \in Nat
    BY <1>2, CandidateLemma DEF AcceptCandidate, QueueInv
  <2>3. HeaderSize \in Nat
    BY WordSizeAssumption DEF HeaderSize
  <2>4. Message \in Messages
    BY <2>2, <2>3 DEF Message, Messages, PayloadCell
  <2>5. Message' = Message
    BY <2>1, Zenon DEF Message, PayloadCell, topicLen, payloadLen
  <2>6. InPlace'
    <3>1. delivered \in Seq(Nat)
      BY Zenon DEF QueueInv, Base, TypeOK
    <3>2. /\ Len(delivered') = Len(delivered) + 1
          /\ \A i \in 1 .. Len(delivered) : delivered'[i] = delivered[i]
          /\ delivered'[Len(delivered) + 1] = buffer[startPos]
      BY <2>1, <2>2, <3>1
    <3>3. Len(handled) \in Nat /\ Len(msgCh) \in Nat
      BY LenProperties, Zenon DEF QueueInv
    <3>4. Len(delivered) = Len(handled) + Len(msgCh)
      BY <2>1, <3>3 DEF QueueInv, InPlace, InHand
    <3> QED
      BY <1>1, <2>1, <3>2, <3>3, <3>4 DEF QueueInv, InPlace, InHand
  <2> QED
    BY <1>1, <2>4, <2>5, <2>6, Zenon DEF QueueInv
<1>3. CASE ReadMessage \/ EnsureHeader \/ RejectCandidate \/ AwaitRest \/ KeepTail
  <2>1. pc # "msg" /\ pc' # "msg" /\ UNCHANGED delivered
    BY <1>3, Zenon DEF ReadMessage, EnsureHeader, RejectCandidate, AwaitRest, KeepTail, InScan
  <2> QED
    BY <1>1, <2>1, QueueFrame, Zenon
<1> QED
  BY <1>2, <1>3, Zenon DEF StepReader, Scan

\* A read on a closed connection may shift the buffer, and ends with an error.
LEMMA QueueReadClosed == QueueInv /\ ReadClosed => QueueInv'
<1> SUFFICES ASSUME QueueInv, ReadClosed PROVE QueueInv'
  BY Zenon
<1>1. PICK p \in 0 .. BufSize : AtRead(p) /\ readMore(p, 0)
                              /\ staleScan' = (staleScan \/ (InScan /\ ShiftBy(p) > 0))
  BY Zenon DEF ReadClosed
<1>2. p \in 0 .. count /\ pc # "msg"
  BY <1>1, TailStartLemma DEF AtRead, InScan, QueueInv, Base, TypeOK
<1>3. 0 \in 0 .. BufSize /\ 0 <= Room(p) /\ 0 <= stream.len - arrived
  <2>1. /\ arrived \in Nat /\ count \in Nat /\ stream.len \in Nat /\ BufSize \in Nat
        /\ arrived <= stream.len /\ count <= BufSize
    BY Numbers, Zenon DEF QueueInv
  <2>2. ShiftBy(p) \in Nat
    BY <1>2 DEF ShiftBy
  <2> QED
    BY ONLY <2>1, <2>2, SMTT(60) DEF Room
<1>4. UNCHANGED <<stream, startPos, delivered, msgCh, handled>> /\ pc' = "err"
  BY Zenon DEF ReadClosed, procVars
<1>5. /\ arrived' \in 0 .. stream.len
      /\ buffer' \in [Cells -> Nat \cup {NoByte}]
      /\ pos' \in Nat /\ count' \in Nat /\ pos' <= count' /\ count' <= BufSize
      /\ BufferIsStreamWindow'
  BY <1>1, <1>2, <1>3, <1>4, FillLemma, Zenon DEF QueueInv
<1>6. staleScan' \in BOOLEAN
  BY <1>1, Zenon
<1>7. Base'
  BY <1>4, <1>5, <1>6, Zenon DEF QueueInv, Base, TypeOK
<1> QED
  BY <1>2, <1>4, <1>7, QueueFrame, Zenon

\* p.msgCh <- msg moves the message in hand to the end of the queue.
LEMMA QueueEnqueue == QueueInv /\ Enqueue => QueueInv'
<1> SUFFICES ASSUME QueueInv, Enqueue PROVE QueueInv'
  BY Zenon
<1>1. /\ pc = "msg" /\ pc' = "idle" /\ msgCh' = Append(msgCh, Message)
      /\ UNCHANGED <<stream, arrived, buffer, pos, count, startPos, delivered, staleScan>>
      /\ handled' = handled
  BY Zenon DEF Enqueue, SendMsg, procVars
<1>2. Base'
  BY <1>1, Zenon DEF QueueInv, Base, TypeOK, BufferIsStreamWindow, OffsetOf
<1>3. Message \in Messages /\ msgCh \in Seq(Messages)
      /\ Message.frame = delivered[Len(delivered)]
  BY <1>1, Zenon DEF QueueInv, InPlace, Message
<1>4. /\ msgCh' \in Seq(Messages) /\ Len(msgCh') = Len(msgCh) + 1
      /\ \A i \in 1 .. Len(msgCh) : msgCh'[i] = msgCh[i]
      /\ msgCh'[Len(msgCh) + 1] = Message
  BY <1>1, <1>3
<1>5. Len(handled) \in Nat /\ Len(msgCh) \in Nat
  BY LenProperties, Zenon DEF QueueInv
<1>6. Len(delivered) = Len(handled) + (Len(msgCh) + 1)
  BY <1>1, <1>5 DEF QueueInv, InPlace, InHand
<1>7. \A i \in 1 .. Len(msgCh') : msgCh'[i].frame = delivered[Len(handled) + i]
  <2> TAKE i \in 1 .. Len(msgCh')
  <2>1. CASE i \in 1 .. Len(msgCh)
    BY <1>4, <2>1, Zenon DEF QueueInv, InPlace
  <2>2. CASE i = Len(msgCh) + 1
    BY <1>3, <1>4, <1>6, <2>2, Zenon
  <2> QED
    BY <1>4, <1>5, <2>1, <2>2
<1>8. InPlace'
  <2>1. Len(delivered') = Len(handled') + Len(msgCh') + InHand'
    <3>1. InHand' = 0
      BY <1>1, Zenon DEF InHand
    <3> QED
      BY ONLY <1>1, <1>4, <1>5, <1>6, <3>1
  <2>2. \A i \in 1 .. Len(handled') : handled'[i].frame = delivered'[i]
    BY <1>1, Zenon DEF QueueInv, InPlace
  <2>3. \A i \in 1 .. Len(msgCh') : msgCh'[i].frame = delivered'[Len(handled') + i]
    BY <1>1, <1>7, Zenon
  <2> QED
    BY <1>1, <2>1, <2>2, <2>3, Zenon DEF InPlace
<1> QED
  BY <1>1, <1>2, <1>4, <1>8, Zenon DEF QueueInv

\* The process loop moves the first message of the queue to the handled ones.
LEMMA QueueTake == QueueInv /\ TakeMessage => QueueInv'
<1> SUFFICES ASSUME QueueInv, TakeMessage PROVE QueueInv'
  BY Zenon
<1> DEFINE m == [frame  |-> Head(msgCh).frame, intact |-> PayloadUnchanged(Head(msgCh))]
<1>1. /\ msgCh # <<>> /\ msgCh' = Tail(msgCh)
      /\ handled' = Append(handled, m) /\ UNCHANGED vars
  BY Zenon DEF TakeMessage, MayTake, rxVars
<1>2. Base' /\ UNCHANGED <<stream, buffer, startPos, pc, delivered>>
  BY <1>1, BaseStep, Zenon DEF QueueInv, vars
<1>3. msgCh \in Seq(Messages) /\ handled \in Seq(HandledMessages)
  BY Zenon DEF QueueInv
<1>4. /\ Len(msgCh) \in Nat \ {0} /\ Len(handled) \in Nat
      /\ Head(msgCh) = msgCh[1] /\ Head(msgCh) \in Messages
      /\ msgCh' \in Seq(Messages) /\ Len(msgCh') = Len(msgCh) - 1
      /\ \A i \in 1 .. Len(msgCh') : msgCh'[i] = msgCh[i + 1]
  BY <1>1, <1>3, HeadTailProperties, EmptySeq, LenProperties
<1>5. m \in HandledMessages
  <2>1. Head(msgCh).frame \in Nat
    BY <1>4, Zenon DEF Messages
  <2>2. PayloadUnchanged(Head(msgCh)) \in BOOLEAN
    BY Zenon DEF PayloadUnchanged
  <2> QED
    BY <2>1, <2>2, Zenon DEF HandledMessages
<1>6. m.frame = msgCh[1].frame
  BY <1>4, Zenon
<1> HIDE DEF m
<1>7. /\ handled' \in Seq(HandledMessages) /\ Len(handled') = Len(handled) + 1
      /\ \A i \in 1 .. Len(handled) : handled'[i] = handled[i]
      /\ handled'[Len(handled) + 1] = m
  BY <1>1, <1>3, <1>5
<1>8. \A i \in 1 .. Len(handled') : handled'[i].frame = delivered[i]
  <2>1. m.frame = delivered[Len(handled) + 1]
    BY <1>4, <1>6 DEF QueueInv, InPlace
  <2> TAKE i \in 1 .. Len(handled')
  <2>2. CASE i \in 1 .. Len(handled)
    BY <1>7, <2>2, Zenon DEF QueueInv, InPlace
  <2>3. CASE i = Len(handled) + 1
    BY <1>7, <2>1, <2>3, Zenon
  <2> QED
    BY <1>4, <1>7, <2>2, <2>3
<1>9. \A i \in 1 .. Len(msgCh') : msgCh'[i].frame = delivered[Len(handled') + i]
  <2> TAKE i \in 1 .. Len(msgCh')
  <2>1. i + 1 \in 1 .. Len(msgCh) /\ Len(handled') + i = Len(handled) + (i + 1)
    BY <1>4, <1>7
  <2>2. msgCh[i + 1].frame = delivered[Len(handled) + (i + 1)]
    BY <2>1, Zenon DEF QueueInv, InPlace
  <2> QED
    BY <1>4, <2>1, <2>2, Zenon
<1>10. Len(delivered) = Len(handled') + Len(msgCh') + InHand
  BY <1>4, <1>7 DEF QueueInv, InPlace, InHand
<1>11. InPlace'
  BY <1>2, <1>8, <1>9, <1>10, Zenon DEF QueueInv, InPlace, InHand
<1>12. pc' = "msg" => Message' \in Messages
  BY <1>2, Zenon DEF QueueInv, Message, PayloadCell, topicLen, payloadLen
<1> QED
  BY <1>2, <1>4, <1>7, <1>11, <1>12, Zenon DEF QueueInv

\* Every step of the two loops and of the other goroutine preserves QueueInv.
LEMMA QueueStep == QueueInv /\ [PathNext]_pathVars => QueueInv'
<1> SUFFICES ASSUME QueueInv, [PathNext]_pathVars PROVE QueueInv'
  BY Zenon
<1>1. CASE StepReader
  BY <1>1, QueueReader, Zenon
<1>2. CASE ReadClosed
  BY <1>2, QueueReadClosed, Zenon
<1>3. CASE SleepAfterError
  <2>1. /\ pc = "err" /\ pc' = "idle"
        /\ UNCHANGED <<stream, arrived, buffer, pos, count, startPos, delivered, staleScan,
                       msgCh, handled>>
    BY <1>3, Zenon DEF SleepAfterError, procVars
  <2>2. Base'
    BY <2>1, Zenon DEF QueueInv, Base, TypeOK, BufferIsStreamWindow, OffsetOf
  <2> QED
    BY <2>1, <2>2, QueueFrame, Zenon
<1>4. CASE Enqueue
  BY <1>4, QueueEnqueue, Zenon
<1>5. CASE TakeMessage
  BY <1>5, QueueTake, Zenon
<1>6. CASE ReceiveEnds \/ BeginDispatch \/ NextSub \/ HandlerReturns \/ EndDispatch
           \/ ProcessEnds
  <2>1. UNCHANGED <<vars, msgCh, handled>>
    BY <1>6, Zenon DEF ReceiveEnds, BeginDispatch, NextSub, HandlerReturns, EndDispatch,
                ProcessEnds, rxVars, procVars
  <2> QED
    BY <2>1, QueueStutter, Zenon
<1>7. CASE Caller \/ UNCHANGED pathVars
  <2>1. UNCHANGED <<vars, msgCh, handled>>
    BY <1>7, Zenon DEF Caller, BeginCall, Subscriber, Subscribe, Unsubscribe, RemoveEqual, Unlock,
                CancelParent, Close, rxVars, procVars, pathVars
  <2> QED
    BY <2>1, QueueStutter, Zenon
<1> QED
  BY <1>1, <1>2, <1>3, <1>4, <1>5, <1>6, <1>7, Zenon DEF PathNext, ReceiveLoop, ProcessLoop

\* Sequences of naturals with the same length and places are equal.
LEMMA SameFrames ==
    ASSUME NEW s \in Seq(Nat), NEW t \in Seq(Nat), Len(s) = Len(t),
           \A i \in 1 .. Len(s) : s[i] = t[i]
    PROVE  s = t
BY SeqEqual, Zenon

\* The frames of a sequence of messages, as a sequence.
LEMMA FramesSeq ==
    ASSUME NEW R, NEW s \in Seq(R), \A r \in R : r.frame \in Nat
    PROVE  /\ FramesOf(s) \in Seq(Nat) /\ Len(FramesOf(s)) = Len(s)
           /\ \A i \in 1 .. Len(s) : FramesOf(s)[i] = s[i].frame
<1>1. DOMAIN s = 1 .. Len(s) /\ Len(s) \in Nat /\ \A i \in 1 .. Len(s) : s[i] \in R
  BY LenProperties, ElementOfSeq, Zenon
<1>2. FramesOf(s) = [i \in 1 .. Len(s) |-> s[i].frame]
  BY <1>1, Zenon DEF FramesOf
<1> QED
  BY <1>1, <1>2

\* Two pieces that stand one behind the other in d, joined.
LEMMA JoinedPlaces ==
    ASSUME NEW a \in Seq(Nat), NEW b \in Seq(Nat), NEW d \in Seq(Nat),
           \A i \in 1 .. Len(a) : a[i] = d[i],
           \A i \in 1 .. Len(b) : b[i] = d[Len(a) + i]
    PROVE  /\ a \o b \in Seq(Nat) /\ Len(a \o b) = Len(a) + Len(b)
           /\ \A i \in 1 .. Len(a) + Len(b) : (a \o b)[i] = d[i]
<1>1. /\ a \o b \in Seq(Nat) /\ Len(a \o b) = Len(a) + Len(b)
      /\ \A i \in 1 .. Len(a) + Len(b) :
           (a \o b)[i] = IF i <= Len(a) THEN a[i] ELSE b[i - Len(a)]
  BY ConcatProperties, Zenon
<1>2. Len(a) \in Nat /\ Len(b) \in Nat
  BY LenProperties, Zenon
<1>3. ASSUME NEW i \in 1 .. Len(a) + Len(b)
      PROVE  (a \o b)[i] = d[i]
  <2>1. CASE i <= Len(a)
    <3>1. i \in 1 .. Len(a)
      BY ONLY <1>2, <2>1, i \in 1 .. Len(a) + Len(b)
    <3> QED
      BY <1>1, <2>1, <3>1, Zenon
  <2>2. CASE ~(i <= Len(a))
    <3>1. i - Len(a) \in 1 .. Len(b) /\ Len(a) + (i - Len(a)) = i
      BY ONLY <1>2, <2>2, i \in 1 .. Len(a) + Len(b)
    <3>2. (a \o b)[i] = b[i - Len(a)]
      BY <1>1, <2>2, Zenon
    <3> QED
      BY <3>1, <3>2, Zenon
  <2> QED
    BY <2>1, <2>2, Zenon
<1> QED
  BY <1>1, <1>3, Zenon

\* In place means in order, with nothing lost or repeated.
LEMMA InPlaceSuffices == QueueInv => NothingLostInQueue
<1> SUFFICES ASSUME QueueInv PROVE NothingLostInQueue
  BY Zenon
<1> DEFINE h == FramesOf(handled)
           q == FramesOf(msgCh)
           x == IF pc = "msg" THEN <<buffer[startPos]>> ELSE <<>>
<1>1. /\ h \in Seq(Nat) /\ Len(h) = Len(handled)
      /\ \A i \in 1 .. Len(h) : h[i] = delivered[i]
  <2>1. \A r \in HandledMessages : r.frame \in Nat
    BY Zenon DEF HandledMessages
  <2> QED
    BY <2>1, FramesSeq DEF QueueInv, InPlace
<1>2. /\ q \in Seq(Nat) /\ Len(q) = Len(msgCh)
      /\ \A i \in 1 .. Len(q) : q[i] = delivered[Len(h) + i]
  <2>1. \A r \in Messages : r.frame \in Nat
    BY Zenon DEF Messages
  <2> QED
    BY <1>1, <2>1, FramesSeq DEF QueueInv, InPlace
<1>3. /\ x \in Seq(Nat) /\ Len(x) = InHand
      /\ \A i \in 1 .. Len(x) : x[i] = delivered[Len(delivered)]
  <2>1. CASE pc = "msg"
    <3>1. buffer[startPos] \in Nat /\ buffer[startPos] = delivered[Len(delivered)]
      BY <2>1, Zenon DEF QueueInv, InPlace, Message, Messages
    <3> QED
      BY <2>1, <3>1 DEF InHand
  <2>2. CASE pc # "msg"
    BY <2>2 DEF InHand
  <2> QED
    BY <2>1, <2>2, Zenon
<1>4. /\ delivered \in Seq(Nat) /\ Len(h) \in Nat /\ Len(q) \in Nat /\ Len(x) \in Nat
      /\ Len(delivered) = Len(h) + Len(q) + Len(x) /\ Len(x) <= 1
  BY <1>1, <1>2, <1>3, LenProperties DEF QueueInv, InPlace, Base, TypeOK, InHand
<1> HIDE DEF h, q, x
<1>5. /\ h \o q \in Seq(Nat) /\ Len(h \o q) = Len(h) + Len(q)
      /\ \A i \in 1 .. Len(h) + Len(q) : (h \o q)[i] = delivered[i]
  BY ONLY <1>1, <1>2, <1>4, JoinedPlaces, ZenonT(30)
<1> DEFINE a == h \o q
<1> HIDE DEF a
<1>6. a \in Seq(Nat) /\ Len(a) = Len(h) + Len(q) /\ \A i \in 1 .. Len(a) : a[i] = delivered[i]
  BY ONLY <1>5, Zenon DEF a
<1>7. Len(delivered) = Len(a) + Len(x) /\ Len(a) \in Nat /\ Len(x) \in Nat /\ Len(x) <= 1
  BY ONLY <1>4, <1>6
<1>8. \A i \in 1 .. Len(x) : x[i] = delivered[Len(a) + i]
  <2> TAKE i \in 1 .. Len(x)
  <2>1. Len(a) + i = Len(delivered)
    BY ONLY <1>7, i \in 1 .. Len(x)
  <2> QED
    BY <1>3, <2>1, Zenon
<1>9. /\ a \o x \in Seq(Nat) /\ Len(a \o x) = Len(a) + Len(x)
      /\ \A i \in 1 .. Len(a) + Len(x) : (a \o x)[i] = delivered[i]
  BY ONLY <1>3, <1>4, <1>6, <1>8, JoinedPlaces, ZenonT(30)
<1>10. a \o x = delivered
  BY <1>4, <1>7, <1>9, SameFrames, Zenon
<1> QED
  BY <1>10, Zenon DEF NothingLostInQueue, a, h, q, x

\* Whenever the loops end and whoever cancels or closes, what was handled, what waits in
\* msgCh and the message in the receive loop's hands are exactly what the reader
\* returned, in order.
THEOREM QueueLosesNothing == PathSpec => []NothingLostInQueue
BY QueueInit, QueueStep, InPlaceSuffices, PTL DEF PathSpec
-----------------------------------------------------------------------------
(***************************************************************************)
(* From the stream to the handlers: what is proved of the reader alone     *)
(* holds under the two loops too, where a read may also fail because the   *)
(* transport was closed, and the queue carries it to the handlers.         *)
(***************************************************************************)
\* Every message taken for handling is an undamaged frame of the stream; no frame is
\* taken twice, and the frames are taken in stream order.  Unless a shift has moved the
\* bytes under a scan, every receivable frame that the reader has passed was taken, waits
\* in msgCh or is in the receive loop's hands.
StreamReachesHandlers ==
    /\ \A i \in 1 .. Len(handled) : handled[i].frame \in stream.intact
    /\ \A i, j \in 1 .. Len(handled) :
         i < j => handled[i].frame + TotalLen(stream, handled[i].frame) <= handled[j].frame
    /\ staleScan \/ \A f \in Receivable : f < OffsetOf(pos) =>
         \/ \E i \in 1 .. Len(handled) : handled[i].frame = f
         \/ \E i \in 1 .. Len(msgCh) : msgCh[i].frame = f
         \/ pc = "msg" /\ buffer[startPos] = f

\* A read that fails on a closed transport moves r.pos as the other reads do.
LEMMA CarriedReadClosed ==
    ASSUME QueueInv, OrderInv, SkipInv, ReadClosed
    PROVE  OrderInv' /\ SkipInv'
<1>1. PICK p \in 0 .. BufSize : AtRead(p) /\ readMore(p, 0)
                              /\ staleScan' = (staleScan \/ (InScan /\ ShiftBy(p) > 0))
  BY Zenon DEF ReadClosed
<1>2. p \in 0 .. count
  BY <1>1, TailStartLemma DEF AtRead, InScan, QueueInv, Base, TypeOK
<1>3. 0 \in 0 .. BufSize /\ 0 <= Room(p) /\ 0 <= stream.len - arrived
  <2>1. /\ arrived \in Nat /\ count \in Nat /\ stream.len \in Nat /\ BufSize \in Nat
        /\ arrived <= stream.len /\ count <= BufSize
    BY Numbers, Zenon DEF QueueInv
  <2>2. ShiftBy(p) \in Nat
    BY <1>2 DEF ShiftBy
  <2> QED
    BY ONLY <2>1, <2>2, SMTT(60) DEF Room
<1>4. UNCHANGED <<stream, startPos, delivered>> /\ pc' = "err" /\ Base
  BY Zenon DEF ReadClosed, QueueInv
<1>5. /\ arrived' \in Nat /\ arrived <= arrived' /\ count' \in Nat /\ pos' \in Nat
      /\ OffsetOf(pos)' = OffsetOf(p) /\ OffsetOf(p) \in Int
  BY <1>1, <1>2, <1>3, <1>4, FillLemma, Zenon
<1>6. startPos \in Nat /\ count \in Nat /\ arrived \in Nat /\ OffsetOf(startPos)' \in Int
  BY <1>4, <1>5, Numbers DEF OffsetOf
<1>7. \/ p = pos
      \/ /\ pc = "scan" /\ OffsetOf(p) >= arrived - HeaderSize
         /\ OffsetOf(p) <= OffsetOf(startPos)
  <2>1. CASE p = pos
    BY <2>1, Zenon
  <2>2. CASE pc = "scan" /\ startPos > count - HeaderSize /\ p = TailStart
    BY <1>2, <1>4, <1>6, <2>2, TailStartLemma DEF OffsetOf
  <2> QED
    BY <1>1, <2>1, <2>2, Zenon DEF AtRead
<1>8. OrderInv'
  BY <1>4, <1>5, <1>6, <1>7, OrderFrame
<1>9. ~staleScan' => ~staleScan
  BY <1>1, Zenon
<1>10. SkipInv'
  BY <1>4, <1>5, <1>6, <1>7, <1>9, SkipFrame
<1> QED
  BY <1>8, <1>10, Zenon

\* Every other step of the receive loop is one of the reader's, and nothing else touches
\* the reader.
LEMMA CarriedStep ==
    QueueInv /\ OrderInv /\ SkipInv /\ [PathNext]_pathVars => OrderInv' /\ SkipInv'
<1> SUFFICES ASSUME QueueInv, OrderInv, SkipInv, [PathNext]_pathVars
             PROVE  OrderInv' /\ SkipInv'
  BY Zenon
<1>1. CASE ReadClosed
  BY <1>1, CarriedReadClosed, Zenon
<1>2. CASE StepReader \/ SleepAfterError \/ Enqueue
  <2>1. Next
    BY <1>2, Zenon DEF StepReader, SleepAfterError, Enqueue, Next, Return
  <2> QED
    BY <2>1, OrderStep, SkipStep, Zenon DEF QueueInv
<1>3. CASE ReceiveEnds \/ ProcessLoop \/ Caller \/ UNCHANGED pathVars
  <2>1. UNCHANGED vars
    BY <1>3, Zenon DEF ReceiveEnds, ProcessLoop, TakeMessage, BeginDispatch, NextSub,
                HandlerReturns, EndDispatch, ProcessEnds, Caller, BeginCall, Subscriber,
                Subscribe, Unsubscribe, RemoveEqual, Unlock, CancelParent, Close, rxVars,
                pathVars
  <2> QED
    BY <2>1, OrderStep, SkipStep, Zenon DEF QueueInv
<1> QED
  BY <1>1, <1>2, <1>3, Zenon DEF PathNext, ReceiveLoop

\* The queue is in place, so what holds of the frames returned holds of those handled.
LEMMA CarriedSuffices == QueueInv /\ OrderInv /\ SkipInv => StreamReachesHandlers
<1> SUFFICES ASSUME QueueInv, OrderInv, SkipInv PROVE StreamReachesHandlers
  BY Zenon
<1>1. /\ Len(handled) \in Nat /\ Len(msgCh) \in Nat /\ InHand \in {0, 1}
      /\ delivered \in Seq(Nat) /\ DOMAIN delivered = 1 .. Len(delivered)
      /\ Len(delivered) = Len(handled) + Len(msgCh) + InHand
  BY LenProperties, Zenon DEF QueueInv, InPlace, InHand, Base, TypeOK
<1>2. \A i \in 1 .. Len(handled) : i \in DOMAIN delivered /\ handled[i].frame = delivered[i]
  BY <1>1 DEF QueueInv, InPlace
<1>3. \A i \in 1 .. Len(handled) : handled[i].frame \in stream.intact
  BY <1>2, Zenon DEF OrderInv
<1>4. \A i, j \in 1 .. Len(handled) :
        i < j => handled[i].frame + TotalLen(stream, handled[i].frame) <= handled[j].frame
  BY <1>2, Zenon DEF OrderInv, DeliveredInOrder
<1>5. ASSUME ~staleScan, NEW f \in Receivable, f < OffsetOf(pos)
      PROVE  \/ \E i \in 1 .. Len(handled) : handled[i].frame = f
             \/ \E i \in 1 .. Len(msgCh) : msgCh[i].frame = f
             \/ pc = "msg" /\ buffer[startPos] = f
  <2>1. PICK k \in 1 .. Len(delivered) : delivered[k] = f
    BY <1>1, <1>5, Zenon DEF SkipInv, AllReturnedBefore, Delivered
  <2>2. CASE k \in 1 .. Len(handled)
    BY <1>2, <2>1, <2>2, Zenon
  <2>3. CASE k - Len(handled) \in 1 .. Len(msgCh)
    <3>1. PICK i \in 1 .. Len(msgCh) : i = k - Len(handled)
      BY <2>3, Zenon
    <3>2. Len(handled) + i = k
      BY ONLY <1>1, <3>1, k \in 1 .. Len(delivered)
    <3> QED
      BY <2>1, <3>1, <3>2, Zenon DEF QueueInv, InPlace
  <2>4. CASE k > Len(handled) + Len(msgCh)
    <3>1. pc = "msg" /\ k = Len(delivered)
      BY <1>1, <2>4 DEF InHand
    <3> QED
      BY <2>1, <3>1, Zenon DEF QueueInv, InPlace
  <2>5. \/ k \in 1 .. Len(handled)
        \/ k - Len(handled) \in 1 .. Len(msgCh)
        \/ k > Len(handled) + Len(msgCh)
    BY ONLY <1>1, k \in 1 .. Len(delivered)
  <2> QED
    BY <2>2, <2>3, <2>4, <2>5, Zenon
<1> QED
  BY <1>3, <1>4, <1>5, Zenon DEF StreamReachesHandlers

\* From a TCP stream to the subscribers: no damaged, duplicated or reordered frame is
\* handled, whoever closes or cancels, and none is passed over before the first shift
\* under a scan.
THEOREM StreamReachesHandlersInOrder == PathSpec => []StreamReachesHandlers
<1>1. PathInit => OrderInv /\ SkipInv
  <2> SUFFICES ASSUME PathInit PROVE OrderInv /\ SkipInv
    BY Zenon
  <2>1. Init /\ Base
    BY BaseInit, Zenon DEF PathInit
  <2>2. OrderInv
    BY <2>1 DEF Init, OrderInv, DeliveredInOrder
  <2>3. SkipInv
    BY <2>1, SkipInit, Zenon
  <2> QED
    BY <2>2, <2>3, Zenon
<1>2. QueueInv /\ OrderInv /\ SkipInv /\ [PathNext]_pathVars
        => QueueInv' /\ OrderInv' /\ SkipInv'
  BY QueueStep, CarriedStep, Zenon
<1> QED
  BY <1>1, <1>2, QueueInit, CarriedSuffices, PTL DEF PathSpec

-----------------------------------------------------------------------------
(***************************************************************************)
(* The payloads of queued messages.                                        *)
(***************************************************************************)
\* The message's payload lies where its frame says, in the valid part of a buffer that
\* has never been shifted.
Sound(m) ==
    /\ m.cell = m.frame + HeaderSize + stream.word[m.frame]
    /\ m.cell + m.len <= count

IntactInv ==
    arrived = count =>
      /\ \A i \in 1 .. Len(handled) : handled[i].intact
      /\ \A i \in 1 .. Len(msgCh) : Sound(msgCh[i])
      /\ pc = "msg" => Sound(Message)

\* Reads only add bytes and shift them out: a buffer that has not been shifted after a
\* read was not shifted before it.
LEMMA ReadUnshifted ==
    ASSUME Base, NEW p \in 0 .. count, NEW n \in 0 .. BufSize,
           n <= Room(p), n <= stream.len - arrived, readMore(p, n), UNCHANGED stream,
           arrived' = count'
    PROVE  arrived = count /\ count <= count'
<1>1. /\ arrived' - count' = arrived - count + ShiftBy(p)
      /\ arrived' \in Nat /\ arrived <= arrived' /\ ShiftBy(p) \in Nat /\ count' \in Nat
  BY FillLemma, Zenon
<1>2. arrived \in Nat /\ count \in Nat /\ count <= arrived
  BY Numbers, Zenon
<1>3. arrived' = count'
  BY Zenon
<1> QED
  BY <1>1, <1>2, <1>3

\* The same for every step of the receive loop.
LEMMA Unshifted ==
    ASSUME Base, StepReader \/ ReadClosed, arrived' = count'
    PROVE  arrived = count /\ count <= count' /\ UNCHANGED stream
<1>1. count \in Nat
  BY Numbers, Zenon
<1>2. ASSUME NEW p \in 0 .. count, NEW n \in 0 .. BufSize, NEW err \in BOOLEAN,
             Reads(p, n, err), readMore(p, n), UNCHANGED stream
      PROVE  arrived = count /\ count <= count'
  <2>1. n <= Room(p) /\ n <= stream.len - arrived
    BY <1>2, Numbers DEF Reads, Room, ShiftBy
  <2> QED
    BY <1>2, <2>1, ReadUnshifted, Zenon
<1>3. CASE ReadMessage \/ AcceptCandidate \/ RejectCandidate
  BY <1>1, <1>3 DEF ReadMessage, AcceptCandidate, RejectCandidate
<1>4. CASE EnsureHeader
  <2>1. UNCHANGED stream /\ pos \in 0 .. count
    BY <1>4, Numbers DEF EnsureHeader
  <2>2. CASE arrived' = arrived /\ count' = count
    <3>1. arrived = count
      BY <2>2, Zenon
    <3>2. count <= count'
      BY ONLY <1>1, <2>2
    <3> QED
      BY <2>1, <3>1, <3>2, Zenon
  <2>3. CASE \E n \in 0 .. BufSize, err \in BOOLEAN : Reads(pos, n, err) /\ readMore(pos, n)
    BY <1>2, <2>1, <2>3, Zenon
  <2> QED
    BY <1>4, <2>2, <2>3, Zenon DEF EnsureHeader
<1>5. CASE AwaitRest
  <2>1. UNCHANGED stream /\ pos \in 0 .. count
    BY <1>5, Numbers DEF AwaitRest
  <2> QED
    BY <1>2, <1>5, <2>1, Zenon DEF AwaitRest
<1>6. CASE KeepTail
  <2>1. UNCHANGED stream /\ TailStart \in 0 .. count
    BY <1>6, TailStartLemma, Zenon DEF KeepTail
  <2> QED
    BY <1>2, <1>6, <2>1, Zenon DEF KeepTail
<1>7. CASE ReadClosed
  <2>1. PICK p \in 0 .. BufSize : AtRead(p) /\ readMore(p, 0)
    BY <1>7, Zenon DEF ReadClosed
  <2>2. p \in 0 .. count /\ UNCHANGED stream
    BY <1>7, <2>1, TailStartLemma DEF AtRead, InScan, Base, TypeOK, ReadClosed
  <2>3. 0 \in 0 .. BufSize /\ 0 <= Room(p) /\ 0 <= stream.len - arrived
    <3>1. /\ arrived \in Nat /\ count \in Nat /\ stream.len \in Nat /\ BufSize \in Nat
          /\ arrived <= stream.len /\ count <= BufSize
      BY Numbers, Zenon
    <3>2. ShiftBy(p) \in Nat
      BY <2>2 DEF ShiftBy
    <3> QED
      BY ONLY <3>1, <3>2, SMTT(60) DEF Room
  <2> QED
    BY <2>1, <2>2, <2>3, ReadUnshifted, Zenon
<1> QED
  BY <1>3, <1>4, <1>5, <1>6, <1>7, Zenon DEF StepReader, Scan

\* A sound message stays sound while the buffer only fills up.
LEMMA SoundStays ==
    ASSUME NEW m \in Messages, Sound(m), UNCHANGED stream,
           count \in Nat, count' \in Nat, count <= count'
    PROVE  Sound(m)'
<1>1. m.cell \in Nat /\ m.len \in Nat
  BY Zenon DEF Messages
<1> QED
  BY <1>1 DEF Sound

\* In a buffer that has not been shifted the cells of a sound message hold its payload.
LEMMA SoundIsUnchanged ==
    ASSUME Base, arrived = count, NEW m \in Messages, Sound(m)
    PROVE  PayloadUnchanged(m)
<1>1. /\ count \in Nat /\ BufSize \in Nat /\ count <= BufSize
      /\ m.cell \in Nat /\ m.len \in Nat
  BY Numbers, Zenon DEF Messages
<1> SUFFICES ASSUME NEW i \in 0 .. m.len - 1
             PROVE  buffer[m.cell + i] = m.frame + HeaderSize + stream.word[m.frame] + i
  BY Zenon DEF PayloadUnchanged
<1>2. m.cell + i \in Cells /\ m.cell + i < count
  BY <1>1 DEF Sound, Cells
<1>3. buffer[m.cell + i] = OffsetOf(m.cell + i)
  BY <1>2, Zenon DEF Base, BufferIsStreamWindow
<1>4. OffsetOf(m.cell + i) = m.cell + i
  BY <1>1, <1>2 DEF OffsetOf
<1> QED
  BY <1>3, <1>4, Zenon DEF Sound

\* The message the reader accepts lies behind its header, before r.count.
LEMMA AcceptedIsSound ==
    ASSUME Base, AcceptCandidate, arrived = count
    PROVE  Sound(Message)
<1>1. /\ startPos \in Nat /\ buffer[startPos] = OffsetOf(startPos)
      /\ topicLen = stream.word[buffer[startPos]] /\ topicLen \in Nat /\ payloadLen \in Nat
  BY CandidateLemma DEF AcceptCandidate
<1>2. count \in Nat /\ HeaderSize \in Nat /\ WordSize \in Nat
  BY Numbers, WordSizeAssumption, Zenon
<1>3. buffer[startPos] = startPos
  BY <1>1, <1>2 DEF OffsetOf
<1>4. startPos + (HeaderSize + topicLen + payloadLen + WordSize) <= count
  BY Zenon DEF AcceptCandidate, Complete, totalLen
<1>5. PayloadCell = startPos + HeaderSize + topicLen /\ PayloadCell + payloadLen <= count
  BY <1>1, <1>2, <1>4 DEF PayloadCell
<1>6. /\ Message.cell = PayloadCell /\ Message.frame = startPos /\ Message.len = payloadLen
  BY <1>3, Zenon DEF Message
<1> QED
  BY <1>1, <1>3, <1>5, <1>6, Zenon DEF Sound

\* Steps that only let the buffer fill up, with no message in the receive loop's hands.
LEMMA IntactFrame ==
    ASSUME QueueInv, IntactInv, QueueInv', UNCHANGED <<msgCh, handled>>, pc' # "msg",
           arrived' = count' => arrived = count /\ count <= count' /\ UNCHANGED stream
    PROVE  IntactInv'
<1> SUFFICES ASSUME arrived' = count'
             PROVE  /\ \A i \in 1 .. Len(handled) : handled[i].intact
                    /\ \A i \in 1 .. Len(msgCh) : Sound(msgCh[i])'
  BY Zenon DEF IntactInv
<1>1. count \in Nat /\ count' \in Nat
  BY Zenon DEF QueueInv, Base, TypeOK
<1>2. ASSUME NEW i \in 1 .. Len(msgCh)
      PROVE  Sound(msgCh[i])'
  <2>1. PICK m \in Messages : m = msgCh[i]
    BY ElementOfSeq, Zenon DEF QueueInv
  <2>2. Sound(m)
    BY <2>1, Zenon DEF IntactInv
  <2>3. Sound(m)'
    BY <1>1, <2>2, SoundStays, Zenon
  <2> QED
    BY <2>1, <2>3, Zenon DEF Sound
<1> QED
  BY <1>2, Zenon DEF IntactInv

\* Steps that do not touch the reader or the queue.
LEMMA IntactStutter ==
    ASSUME IntactInv, UNCHANGED <<vars, msgCh, handled>>
    PROVE  IntactInv'
<1>1. UNCHANGED <<stream, arrived, buffer, count, startPos, pc>>
  BY Zenon DEF vars
<1> QED
  BY <1>1, Zenon DEF IntactInv, Sound, Message, PayloadCell, topicLen, payloadLen

\* The step in which the reader returns a message.
LEMMA IntactAccept ==
    ASSUME QueueInv, IntactInv, QueueInv', StepReader, AcceptCandidate
    PROVE  IntactInv'
<1>1. UNCHANGED <<msgCh, handled, stream, arrived, buffer, count, startPos>>
  BY Zenon DEF StepReader, AcceptCandidate, procVars
<1>2. Message' = Message
  BY <1>1, Zenon DEF Message, PayloadCell, topicLen, payloadLen
<1>3. arrived = count => Sound(Message)
  BY AcceptedIsSound, Zenon DEF QueueInv
<1> QED
  BY <1>1, <1>2, <1>3, Zenon DEF IntactInv, Sound

\* p.msgCh <- msg.
LEMMA IntactEnqueue ==
    ASSUME QueueInv, IntactInv, Enqueue
    PROVE  IntactInv'
<1>1. /\ pc = "msg" /\ pc' = "idle" /\ msgCh' = Append(msgCh, Message)
      /\ UNCHANGED <<stream, arrived, count, handled>>
  BY Zenon DEF Enqueue, SendMsg, procVars
<1>2. Message \in Messages /\ msgCh \in Seq(Messages) /\ Len(msgCh) \in Nat
  BY <1>1, LenProperties, Zenon DEF QueueInv
<1>3. /\ Len(msgCh') = Len(msgCh) + 1
      /\ \A i \in 1 .. Len(msgCh) : msgCh'[i] = msgCh[i]
      /\ msgCh'[Len(msgCh) + 1] = Message
  BY <1>1, <1>2
<1> SUFFICES ASSUME arrived = count, NEW i \in 1 .. Len(msgCh')
             PROVE  Sound(msgCh[i])'
  BY <1>1, Zenon DEF IntactInv
<1>4. CASE i \in 1 .. Len(msgCh)
  <2>1. Sound(msgCh[i]) /\ msgCh'[i] = msgCh[i]
    BY <1>3, <1>4, Zenon DEF IntactInv
  <2> QED
    BY <1>1, <2>1, Zenon DEF Sound
<1>5. CASE i = Len(msgCh) + 1
  <2>1. Sound(Message) /\ msgCh'[i] = Message
    BY <1>1, <1>3, <1>5, Zenon DEF IntactInv
  <2> QED
    BY <1>1, <2>1, Zenon DEF Sound
<1> QED
  BY <1>2, <1>3, <1>4, <1>5

\* The handlers are given the first message of the queue.
LEMMA IntactTake ==
    ASSUME QueueInv, IntactInv, TakeMessage
    PROVE  IntactInv'
<1> DEFINE m == [frame  |-> Head(msgCh).frame, intact |-> PayloadUnchanged(Head(msgCh))]
<1>1. /\ msgCh # <<>> /\ msgCh' = Tail(msgCh)
      /\ handled' = Append(handled, m) /\ UNCHANGED vars
  BY Zenon DEF TakeMessage, MayTake, rxVars
<1>2. UNCHANGED <<stream, arrived, buffer, count, startPos, pc>>
  BY <1>1, Zenon DEF vars
<1>3. msgCh \in Seq(Messages) /\ handled \in Seq(HandledMessages) /\ Base
  BY Zenon DEF QueueInv
<1>4. /\ Len(msgCh) \in Nat \ {0} /\ Len(handled) \in Nat
      /\ Head(msgCh) = msgCh[1] /\ Head(msgCh) \in Messages
      /\ Len(msgCh') = Len(msgCh) - 1
      /\ \A i \in 1 .. Len(msgCh') : msgCh'[i] = msgCh[i + 1]
  BY <1>1, <1>3, HeadTailProperties, EmptySeq, LenProperties
<1> SUFFICES ASSUME arrived = count
             PROVE  /\ \A i \in 1 .. Len(handled') : handled'[i].intact
                    /\ \A i \in 1 .. Len(msgCh') : Sound(msgCh[i])'
                    /\ pc = "msg" => Sound(Message)'
  BY <1>2, Zenon DEF IntactInv
<1>5. PayloadUnchanged(Head(msgCh))
  BY <1>3, <1>4, SoundIsUnchanged DEF IntactInv
<1>6. m.intact
  BY <1>5, Zenon
<1>7. m \in HandledMessages
  <2>1. Head(msgCh).frame \in Nat
    BY <1>4, Zenon DEF Messages
  <2>2. PayloadUnchanged(Head(msgCh)) \in BOOLEAN
    BY Zenon DEF PayloadUnchanged
  <2> QED
    BY <2>1, <2>2, Zenon DEF HandledMessages
<1> HIDE DEF m
<1>8. /\ Len(handled') = Len(handled) + 1
      /\ \A i \in 1 .. Len(handled) : handled'[i] = handled[i]
      /\ handled'[Len(handled) + 1] = m
  BY <1>1, <1>3, <1>7
<1>9. \A i \in 1 .. Len(handled') : handled'[i].intact
  <2> TAKE i \in 1 .. Len(handled')
  <2>1. CASE i \in 1 .. Len(handled)
    BY <1>8, <2>1, Zenon DEF IntactInv
  <2>2. CASE i = Len(handled) + 1
    BY <1>6, <1>8, <2>2, Zenon
  <2> QED
    BY <1>4, <1>8, <2>1, <2>2
<1>10. ASSUME NEW i \in 1 .. Len(msgCh')
       PROVE  Sound(msgCh[i])'
  <2>1. i + 1 \in 1 .. Len(msgCh) /\ msgCh'[i] = msgCh[i + 1]
    BY <1>4
  <2>2. Sound(msgCh[i + 1])
    BY <2>1, Zenon DEF IntactInv
  <2> QED
    BY <1>2, <2>1, <2>2, Zenon DEF Sound
<1>11. pc = "msg" => Sound(Message)'
  BY <1>2, Zenon DEF IntactInv, Sound, Message, PayloadCell, topicLen, payloadLen
<1> QED
  BY <1>9, <1>10, <1>11, Zenon

\* Every step of the two loops and of the other goroutine preserves it.
LEMMA IntactStep == QueueInv /\ IntactInv /\ [PathNext]_pathVars => IntactInv'
<1> SUFFICES ASSUME QueueInv, IntactInv, [PathNext]_pathVars PROVE IntactInv'
  BY Zenon
<1>0. QueueInv' /\ Base
  BY QueueStep, Zenon DEF QueueInv
<1>1. CASE StepReader
  <2>1. CASE AcceptCandidate
    BY <1>0, <1>1, <2>1, IntactAccept, Zenon
  <2>2. CASE ReadMessage \/ EnsureHeader \/ RejectCandidate \/ AwaitRest \/ KeepTail
    <3>1. pc' # "msg" /\ UNCHANGED <<msgCh, handled>>
      BY <1>1, <2>2, Zenon DEF StepReader, procVars, ReadMessage, EnsureHeader, RejectCandidate,
                        AwaitRest, KeepTail, InScan
    <3> QED
      BY <1>0, <1>1, <3>1, Unshifted, IntactFrame, Zenon
  <2> QED
    BY <1>1, <2>1, <2>2, Zenon DEF StepReader, Scan
<1>2. CASE ReadClosed
  <2>1. pc' # "msg" /\ UNCHANGED <<msgCh, handled>>
    BY <1>2, Zenon DEF ReadClosed, procVars
  <2> QED
    BY <1>0, <1>2, <2>1, Unshifted, IntactFrame, Zenon
<1>3. CASE SleepAfterError
  BY <1>3, Zenon DEF SleepAfterError, procVars, IntactInv, Sound
<1>4. CASE Enqueue
  BY <1>4, IntactEnqueue, Zenon
<1>5. CASE TakeMessage
  BY <1>5, IntactTake, Zenon
<1>6. CASE ReceiveEnds \/ BeginDispatch \/ NextSub \/ HandlerReturns \/ EndDispatch
           \/ ProcessEnds
  <2>1. UNCHANGED <<vars, msgCh, handled>>
    BY <1>6, Zenon DEF ReceiveEnds, BeginDispatch, NextSub, HandlerReturns, EndDispatch,
                ProcessEnds, rxVars, procVars
  <2> QED
    BY <2>1, IntactStutter, Zenon
<1>7. CASE Caller \/ UNCHANGED pathVars
  <2>1. UNCHANGED <<vars, msgCh, handled>>
    BY <1>7, Zenon DEF Caller, BeginCall, Subscriber, Subscribe, Unsubscribe, RemoveEqual, Unlock,
                CancelParent, Close, rxVars, procVars, pathVars
  <2> QED
    BY <2>1, IntactStutter, Zenon
<1> QED
  BY <1>1, <1>2, <1>3, <1>4, <1>5, <1>6, <1>7, Zenon DEF PathNext, ReceiveLoop, ProcessLoop

\* A message's payload is a slice of r.buffer, and yet every handler sees what was sent
\* for as long as readMore has not shifted the buffer.
THEOREM IntactBeforeShift == PathSpec => []IntactUntilFirstShift
<1>1. PathInit => IntactInv
  BY DEF PathInit, Init, IntactInv
<1>2. QueueInv /\ IntactInv => IntactUntilFirstShift
  <2> SUFFICES ASSUME QueueInv, IntactInv, arrived = count, NEW i \in DOMAIN handled
               PROVE  handled[i].intact
    BY Zenon DEF IntactUntilFirstShift
  <2>1. i \in 1 .. Len(handled)
    BY LenProperties, Zenon DEF QueueInv
  <2> QED
    BY <2>1, Zenon DEF IntactInv
<1> QED
  BY <1>1, <1>2, QueueInit, QueueStep, IntactStep, PTL DEF PathSpec

-----------------------------------------------------------------------------
(***************************************************************************)
(* The dispatch to subscribers.                                            *)
(***************************************************************************)
Subscriptions == [topic : Patterns, handler : Handlers]

\* The call of the other goroutine; in Unsubscribe's loop it has the lock.
CallerOK ==
    /\ subs \in Seq(Subscriptions)
    /\ caller \in {NoCall} \cup ({"sub", "unsub"} \X Subscriptions)
                           \cup ({"remove"} \X Subscriptions \X Nat)
    /\ caller[1] = "remove" => LockFree /\ caller[3] <= Len(subs)

\* How many subscriptions the range has decided on.
Reached == IF px = "running" THEN next ELSE next - 1

Wanted(n) == Matches(subs[n], Current)

\* The calls of the dispatch so far: the matching ones of the first Reached
\* subscriptions, by place.
CallsSoFar ==
    /\ called \in Seq(Nat \X Subscriptions)
    /\ \A i \in 1 .. Len(called) :
         \E n \in 1 .. Reached : called[i] = <<n, subs[n]>> /\ Wanted(n)
    /\ \A i, j \in 1 .. Len(called) : i < j => called[i][1] < called[j][1]
    /\ \A n \in 1 .. Reached :
         Wanted(n) => \E i \in 1 .. Len(called) : called[i] = <<n, subs[n]>>

DispatchInv ==
    /\ CallerOK
    /\ ~LockFree =>
         /\ present = subs
         /\ next \in Nat \ {0} /\ Reached <= Len(subs)
         /\ CallsSoFar
    /\ px = "running" => Len(called) > 0 /\ called[Len(called)] = <<next, subs[next]>>

\* What a cut leaves of the subscriptions.
LEMMA CutOut ==
    ASSUME NEW S, NEW s \in Seq(S), NEW i \in 1 .. Len(s)
    PROVE  /\ SubSeq(s, 1, i - 1) \o SubSeq(s, i + 1, Len(s)) \in Seq(S)
           /\ Len(SubSeq(s, 1, i - 1) \o SubSeq(s, i + 1, Len(s))) = Len(s) - 1
<1>1. /\ Len(s) \in Nat /\ i \in Nat /\ 1 <= i /\ i <= Len(s)
      /\ \A j \in 1 .. Len(s) : s[j] \in S
  BY ElementOfSeq, LenProperties
<1>2. /\ SubSeq(s, 1, i - 1) \in Seq(S)
      /\ Len(SubSeq(s, 1, i - 1)) = i - 1
  <2>1. \A j \in 1 .. i - 1 : s[j] \in S
    BY <1>1
  <2>2. /\ SubSeq(s, 1, i - 1) \in Seq(S)
        /\ Len(SubSeq(s, 1, i - 1)) = IF 1 <= i - 1 THEN (i - 1) - 1 + 1 ELSE 0
    BY <1>1, <2>1, SubSeqProperties
  <2> QED
    BY <1>1, <2>2
<1>3. /\ SubSeq(s, i + 1, Len(s)) \in Seq(S)
      /\ Len(SubSeq(s, i + 1, Len(s))) = Len(s) - i
  <2>1. \A j \in i + 1 .. Len(s) : s[j] \in S
    BY <1>1
  <2>2. /\ SubSeq(s, i + 1, Len(s)) \in Seq(S)
        /\ Len(SubSeq(s, i + 1, Len(s)))
             = IF i + 1 <= Len(s) THEN Len(s) - (i + 1) + 1 ELSE 0
    BY <1>1, <2>1, SubSeqProperties
  <2> QED
    BY <1>1, <2>2
<1> DEFINE a == SubSeq(s, 1, i - 1)
           b == SubSeq(s, i + 1, Len(s))
<1> HIDE DEF a, b
<1>4. /\ a \in Seq(S) /\ Len(a) = i - 1
      /\ b \in Seq(S) /\ Len(b) = Len(s) - i
  BY ONLY <1>2, <1>3, Zenon DEF a, b
<1>5. a \o b \in Seq(S) /\ Len(a \o b) = Len(a) + Len(b)
  BY ONLY <1>4, ConcatProperties, Zenon
<1>6. Len(a) + Len(b) = Len(s) - 1
  BY ONLY <1>1, <1>4
<1> QED
  BY <1>5, <1>6, Zenon DEF a, b

\* A subscriber changes sm.subscriptions only when it has the lock to itself.
LEMMA DispatchSubscriber ==
    ASSUME DispatchInv, Subscriber
    PROVE  DispatchInv'
<1>1. /\ LockFree /\ LockFree' /\ caller # NoCall
      /\ subs \in Seq(Subscriptions) /\ Len(subs) \in Nat
  <2>1. LockFree /\ px' = px /\ caller[1] # "none"
    BY Zenon DEF Subscriber, Subscribe, Unsubscribe, RemoveEqual, Unlock, procVars, DispatchInv,
           CallerOK
  <2>2. subs \in Seq(Subscriptions) /\ Len(subs) \in Nat
    BY LenProperties, Zenon DEF DispatchInv, CallerOK
  <2> QED
    BY <2>1, <2>2 DEF LockFree, NoCall
<1>2. CASE Subscribe
  <2>1. caller[2] \in Subscriptions
    BY <1>1, <1>2, Zenon DEF Subscribe, DispatchInv, CallerOK, NoCall
  <2>2. subs' \in Seq(Subscriptions) /\ caller' = NoCall
    BY <1>1, <1>2, <2>1 DEF Subscribe
  <2> QED
    BY <1>1, <2>2, Zenon DEF DispatchInv, CallerOK, NoCall, LockFree
<1>3. CASE Unsubscribe
  <2>1. caller[2] \in Subscriptions
    BY <1>1, <1>3, Zenon DEF Unsubscribe, DispatchInv, CallerOK, NoCall
  <2>2. caller' = <<"remove", caller[2], Len(subs)>> /\ subs' = subs
    BY <1>3, Zenon DEF Unsubscribe
  <2>3. caller' \in {"remove"} \X Subscriptions \X Nat /\ caller'[3] = Len(subs)
    BY <1>1, <2>1, <2>2, Zenon
  <2> QED
    BY <1>1, <2>2, <2>3 DEF DispatchInv, CallerOK, LockFree
<1>4. CASE RemoveEqual
  <2>1. /\ caller[2] \in Subscriptions /\ caller[3] \in 1 .. Len(subs)
    <3>1. caller[1] = "remove" /\ caller[3] > 0 /\ caller[3] <= Len(subs)
      BY <1>4, Zenon DEF RemoveEqual, DispatchInv, CallerOK
    <3>2. caller \in {"remove"} \X Subscriptions \X Nat
      BY <3>1 DEF DispatchInv, CallerOK, NoCall
    <3>3. caller[2] \in Subscriptions /\ caller[3] \in Nat
      BY <3>2, Zenon
    <3> QED
      BY <1>1, <3>1, <3>3
  <2>2. caller' = <<"remove", caller[2], caller[3] - 1>>
    BY <1>4, Zenon DEF RemoveEqual
  <2>3. caller' \in {"remove"} \X Subscriptions \X Nat /\ caller'[3] = caller[3] - 1
    BY <1>1, <2>1, <2>2
  <2>4. \/ subs' = subs
        \/ subs' = SubSeq(subs, 1, caller[3] - 1) \o SubSeq(subs, caller[3] + 1, Len(subs))
    BY <1>4, Zenon DEF RemoveEqual
  <2>5. subs' \in Seq(Subscriptions) /\ Len(subs') \in {Len(subs), Len(subs) - 1}
    BY <1>1, <2>1, <2>4, CutOut, Zenon
  <2>6. caller[3] - 1 <= Len(subs')
    BY <1>1, <2>1, <2>5
  <2> QED
    BY <1>1, <2>3, <2>5, <2>6, Zenon DEF DispatchInv, CallerOK, LockFree
<1>5. CASE Unlock
  BY <1>1, <1>5, Zenon DEF Unlock, DispatchInv, CallerOK, NoCall, LockFree
<1> QED
  BY <1>2, <1>3, <1>4, <1>5, Zenon DEF Subscriber

\* Steps that leave the dispatch and the subscriptions alone.
LEMMA DispatchFrame ==
    ASSUME DispatchInv, UNCHANGED <<stream, handled, px, next, called, present, subs>>,
           CallerOK'
    PROVE  DispatchInv'
BY Zenon DEF DispatchInv, CallsSoFar, Reached, Wanted, Matches, Topic, Current, LockFree

\* Steps outside of a dispatch.
LEMMA DispatchOutside ==
    ASSUME DispatchInv, LockFree', UNCHANGED subVars
    PROVE  DispatchInv'
BY Zenon DEF DispatchInv, CallerOK, LockFree, subVars

\* A matching subscription is called, and with it the range has decided on one more.
LEMMA DispatchCall ==
    ASSUME DispatchInv, NextSub, Wanted(next)
    PROVE  DispatchInv'
<1>1. /\ px = "range" /\ next <= Len(subs) /\ px' = "running" /\ next' = next
      /\ called' = Append(called, <<next, subs[next]>>)
      /\ UNCHANGED <<stream, handled, present, subs, caller>>
  BY Zenon DEF NextSub, Wanted, rxVars, vars, subVars
<1>2. /\ CallerOK /\ CallsSoFar /\ present = subs /\ next \in Nat \ {0}
      /\ Reached = next - 1 /\ Reached' = next /\ subs \in Seq(Subscriptions)
      /\ ~LockFree /\ ~LockFree'
  <2>1. ~LockFree /\ ~LockFree' /\ Reached = next - 1 /\ Reached' = next
    BY <1>1, Zenon DEF LockFree, Reached
  <2>2. CallerOK /\ CallsSoFar /\ present = subs /\ next \in Nat \ {0}
    BY <2>1, Zenon DEF DispatchInv
  <2> QED
    BY <2>1, <2>2, Zenon DEF CallerOK
<1>3. CallerOK'
  BY <1>1, <1>2, Zenon DEF CallerOK, LockFree
<1>4. \A n : Wanted(n)' <=> Wanted(n)
  BY <1>1, Zenon DEF Wanted, Matches, Topic, Current
<1>5. /\ Len(called) \in Nat /\ Len(called') = Len(called) + 1
      /\ called' \in Seq(Nat \X Subscriptions)
      /\ \A i \in 1 .. Len(called) : called'[i] = called[i]
      /\ called'[Len(called) + 1] = <<next, subs[next]>>
  <2>1. Len(subs) \in Nat /\ subs[next] \in Subscriptions
    BY <1>1, <1>2, ElementOfSeq, LenProperties
  <2>2. <<next, subs[next]>> \in Nat \X Subscriptions
    BY <1>2, <2>1, Zenon
  <2>3. called \in Seq(Nat \X Subscriptions) /\ Len(called) \in Nat
    BY <1>2, LenProperties, Zenon DEF CallsSoFar
  <2> QED
    BY <1>1, <2>2, <2>3
<1>6. ASSUME NEW i \in 1 .. Len(called')
      PROVE  \E n \in 1 .. next : called'[i] = <<n, subs[n]>> /\ Wanted(n)
  <2>1. CASE i \in 1 .. Len(called)
    <3>1. PICK n \in 1 .. Reached : called[i] = <<n, subs[n]>> /\ Wanted(n)
      BY <1>2, <2>1, Zenon DEF CallsSoFar
    <3>2. n \in 1 .. next
      BY <1>2
    <3> QED
      BY <1>5, <2>1, <3>1, <3>2, Zenon
  <2>2. CASE i = Len(called) + 1
    <3>1. next \in 1 .. next
      BY <1>2
    <3> QED
      BY <1>5, <2>2, <3>1, Zenon
  <2> QED
    BY <1>5, <2>1, <2>2
<1>7. ASSUME NEW i \in 1 .. Len(called'), NEW j \in 1 .. Len(called'), i < j
      PROVE  called'[i][1] < called'[j][1]
  <2>1. i \in 1 .. Len(called)
    BY <1>5, <1>7
  <2>2. CASE j \in 1 .. Len(called)
    BY <1>2, <1>5, <1>7, <2>1, <2>2, Zenon DEF CallsSoFar
  <2>3. CASE j = Len(called) + 1
    <3>1. PICK n \in 1 .. Reached : called[i] = <<n, subs[n]>>
      BY <1>2, <2>1, Zenon DEF CallsSoFar
    <3>2. n < next
      BY <1>2
    <3> QED
      BY <1>5, <2>1, <2>3, <3>1, <3>2
  <2> QED
    BY <1>5, <2>2, <2>3
<1>8. ASSUME NEW n \in 1 .. next, Wanted(n)
      PROVE  \E i \in 1 .. Len(called') : called'[i] = <<n, subs[n]>>
  <2>1. CASE n = next
    <3>1. Len(called) + 1 \in 1 .. Len(called')
      BY <1>5
    <3> QED
      BY <1>5, <2>1, <3>1, Zenon
  <2>2. CASE n # next
    <3>1. n \in 1 .. Reached
      BY <1>2, <2>2
    <3>2. PICK i \in 1 .. Len(called) : called[i] = <<n, subs[n]>>
      BY <1>2, <1>8, <3>1, Zenon DEF CallsSoFar
    <3>3. i \in 1 .. Len(called')
      BY <1>5
    <3> QED
      BY <1>5, <3>2, <3>3, Zenon
  <2> QED
    BY <2>1, <2>2, Zenon
<1>9. CallsSoFar'
  BY <1>1, <1>2, <1>4, <1>5, <1>6, <1>7, <1>8, Zenon DEF CallsSoFar
<1>10. Len(called') > 0 /\ called'[Len(called')] = <<next', subs'[next']>>
  BY <1>1, <1>5
<1> QED
  BY <1>1, <1>2, <1>3, <1>9, <1>10, Zenon DEF DispatchInv

\* A subscription that does not match is passed over, and a handler that returns lets
\* the range go on.
LEMMA DispatchAdvance ==
    ASSUME DispatchInv, (NextSub /\ ~Wanted(next)) \/ HandlerReturns
    PROVE  DispatchInv'
<1>1. /\ px \in {"range", "running"} /\ px' = "range" /\ next' = next + 1
      /\ px = "range" => next <= Len(subs) /\ ~Wanted(next)
      /\ UNCHANGED <<called, stream, handled, present, subs, caller>>
  BY Zenon DEF NextSub, HandlerReturns, Wanted, rxVars, vars, subVars
<1>2. /\ CallerOK /\ CallsSoFar /\ present = subs /\ next \in Nat \ {0}
      /\ Reached \in {next - 1, next} /\ Reached' = next /\ Reached <= Len(subs)
      /\ px = "running" => Reached = next
      /\ ~LockFree /\ ~LockFree'
  <2>1. ~LockFree /\ ~LockFree'
    BY <1>1, Zenon DEF LockFree
  <2>2. /\ CallerOK /\ CallsSoFar /\ present = subs /\ next \in Nat \ {0}
        /\ Reached <= Len(subs)
    BY <2>1, Zenon DEF DispatchInv
  <2>3. /\ Reached \in {next - 1, next} /\ Reached' = next' - 1
        /\ px = "running" => Reached = next
    BY <1>1, Zenon DEF Reached
  <2>4. next' - 1 = next
    BY <1>1, <2>2
  <2> QED
    BY <2>1, <2>2, <2>3, <2>4, Zenon
<1>3. CallerOK'
  BY <1>1, <1>2, Zenon DEF CallerOK, LockFree
<1>4. \A n : Wanted(n)' <=> Wanted(n)
  BY <1>1, Zenon DEF Wanted, Matches, Topic, Current
<1>5. next <= Len(subs)
  BY <1>1, <1>2, Zenon
<1>6. ASSUME NEW i \in 1 .. Len(called)
      PROVE  \E n \in 1 .. next : called[i] = <<n, subs[n]>> /\ Wanted(n)
  <2>1. PICK n \in 1 .. Reached : called[i] = <<n, subs[n]>> /\ Wanted(n)
    BY <1>2, Zenon DEF CallsSoFar
  <2>2. n \in 1 .. next
    BY <1>2
  <2> QED
    BY <2>1, <2>2, Zenon
<1>7. ASSUME NEW n \in 1 .. next, Wanted(n)
      PROVE  \E i \in 1 .. Len(called) : called[i] = <<n, subs[n]>>
  <2>1. n \in 1 .. Reached
    <3>1. CASE px = "range"
      <4>1. n # next
        BY <1>1, <1>7, <3>1, Zenon
      <4> QED
        BY <1>2, <4>1
    <3>2. CASE px = "running"
      BY <1>2, <3>2, Zenon
    <3> QED
      BY <1>1, <3>1, <3>2, Zenon
  <2> QED
    BY <1>2, <1>7, <2>1, Zenon DEF CallsSoFar
<1>8. CallsSoFar'
  BY <1>1, <1>2, <1>4, <1>6, <1>7, Zenon DEF CallsSoFar
<1> QED
  BY <1>1, <1>2, <1>3, <1>5, <1>8 DEF DispatchInv

\* Every step of the two loops and of the other goroutine preserves it.
LEMMA DispatchStep == DispatchInv /\ [PathNext]_pathVars => DispatchInv'
<1> SUFFICES ASSUME DispatchInv, [PathNext]_pathVars PROVE DispatchInv'
  BY Zenon
<1>1. CASE TakeMessage \/ EndDispatch \/ ProcessEnds
  <2>1. LockFree' /\ UNCHANGED subVars
    BY <1>1, Zenon DEF TakeMessage, EndDispatch, ProcessEnds, LockFree
  <2> QED
    BY <2>1, DispatchOutside, Zenon
<1>2. CASE BeginDispatch
  <2>1. /\ caller = NoCall /\ px' = "range" /\ next' = 1 /\ called' = <<>>
        /\ present' = subs /\ UNCHANGED <<subs, caller>>
    BY <1>2, Zenon DEF BeginDispatch, subVars
  <2>2. subs \in Seq(Subscriptions) /\ Len(subs) \in Nat
    BY LenProperties, Zenon DEF DispatchInv, CallerOK
  <2>3. CallerOK'
    BY <2>1, <2>2, Zenon DEF CallerOK, NoCall
  <2>4. Reached' = 0
    BY <2>1 DEF Reached
  <2>5. CallsSoFar'
    BY <2>1, <2>4 DEF CallsSoFar
  <2>6. present' = subs' /\ next' \in Nat \ {0} /\ Reached' <= Len(subs')
    BY <2>1, <2>2, <2>4
  <2> QED
    BY <2>1, <2>3, <2>5, <2>6, Zenon DEF DispatchInv
<1>3. CASE NextSub
  BY <1>3, DispatchCall, DispatchAdvance, Zenon
<1>4. CASE HandlerReturns
  BY <1>4, DispatchAdvance, Zenon
<1>5. CASE ReceiveLoop
  <2>1. UNCHANGED <<stream, handled, px, next, called, present, subs, caller>>
    BY <1>5, Zenon DEF ReceiveLoop, StepReader, ReadClosed, SleepAfterError, Enqueue, ReceiveEnds,
                procVars, subVars, vars, ReadMessage, EnsureHeader, Scan, AcceptCandidate,
                RejectCandidate, AwaitRest, KeepTail
  <2>2. CallerOK'
    BY <2>1, Zenon DEF DispatchInv, CallerOK, LockFree
  <2> QED
    BY <2>1, <2>2, DispatchFrame, Zenon
<1>6. CASE BeginCall
  <2>1. UNCHANGED <<stream, handled, px, next, called, present, subs>>
    BY <1>6, Zenon DEF BeginCall, rxVars, vars, procVars
  <2>2. PICK op \in {"sub", "unsub"}, p \in Patterns, h \in Handlers :
            caller' = <<op, [topic |-> p, handler |-> h]>>
    BY <1>6, Zenon DEF BeginCall
  <2>3. [topic |-> p, handler |-> h] \in Subscriptions
    BY Zenon DEF Subscriptions
  <2>4. caller' \in {"sub", "unsub"} \X Subscriptions /\ caller'[1] # "remove"
    BY <2>2, <2>3, Zenon
  <2>5. CallerOK'
    BY <2>1, <2>4, Zenon DEF DispatchInv, CallerOK
  <2> QED
    BY <2>1, <2>5, DispatchFrame, Zenon
<1>7. CASE Subscriber
  BY <1>7, DispatchSubscriber, Zenon
<1>8. CASE CancelParent \/ Close \/ UNCHANGED pathVars
  <2>1. UNCHANGED <<stream, handled, px, next, called, present, subs, caller>>
    BY <1>8, Zenon DEF CancelParent, Close, rxVars, vars, procVars, subVars, pathVars
  <2>2. CallerOK'
    BY <2>1, Zenon DEF DispatchInv, CallerOK, LockFree
  <2> QED
    BY <2>1, <2>2, DispatchFrame, Zenon
<1> QED
  BY <1>1, <1>2, <1>3, <1>4, <1>5, <1>6, <1>7, <1>8, Zenon DEF PathNext, ProcessLoop, Caller

\* When the range is over it has decided on every subscription.
LEMMA DispatchSuffices == DispatchInv => DispatchExact
<1> SUFFICES ASSUME DispatchInv PROVE DispatchExact
  BY Zenon
<1>1. subs \in Seq(Subscriptions) /\ Len(subs) \in Nat /\ DOMAIN subs = 1 .. Len(subs)
  BY LenProperties, Zenon DEF DispatchInv, CallerOK
<1>2. ASSUME px = "range", next > Len(subs)
      PROVE  /\ \A i, j \in DOMAIN called : i < j => called[i][1] < called[j][1]
             /\ {called[i] : i \in DOMAIN called} =
                  {<<n, present[n]>> :
                     n \in {n \in DOMAIN present : Matches(present[n], Current)}}
  <2>1. /\ present = subs /\ CallsSoFar /\ Reached = Len(subs)
    BY <1>1, <1>2 DEF DispatchInv, LockFree, Reached
  <2>2. DOMAIN called = 1 .. Len(called)
    BY <2>1, LenProperties, Zenon DEF CallsSoFar
  <2>3. ASSUME NEW i \in DOMAIN called
        PROVE  \E n \in {n \in DOMAIN present : Matches(present[n], Current)} :
                   called[i] = <<n, present[n]>>
    BY <1>1, <2>1, <2>2, Zenon DEF CallsSoFar, Wanted
  <2>4. ASSUME NEW n \in {n \in DOMAIN present : Matches(present[n], Current)}
        PROVE  \E i \in DOMAIN called : called[i] = <<n, present[n]>>
    BY <1>1, <2>1, <2>2, Zenon DEF CallsSoFar, Wanted
  <2>5. \A i, j \in DOMAIN called : i < j => called[i][1] < called[j][1]
    BY <2>1, <2>2, Zenon DEF CallsSoFar
  <2> QED
    BY <2>3, <2>4, <2>5
<1>3. ASSUME px = "running"
      PROVE  next <= Len(subs) /\ called[Len(called)] = <<next, subs[next]>>
  BY <1>3, Zenon DEF DispatchInv, LockFree, Reached
<1> QED
  BY <1>2, <1>3, Zenon DEF DispatchExact

\* A dispatch calls exactly the matching subscriptions, once and in order, whatever calls
\* of Subscribe and Unsubscribe other goroutines make meanwhile, and no handler runs that
\* is not subscribed.
THEOREM DispatchIsExact == PathSpec => []DispatchExact
<1>1. PathInit => DispatchInv
  BY DEF PathInit, DispatchInv, CallerOK, LockFree, NoCall
<1> QED
  BY <1>1, DispatchStep, DispatchSuffices, PTL DEF PathSpec
=============================================================================
