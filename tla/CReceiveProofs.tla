--------------------------- MODULE CReceiveProofs ---------------------------
(***************************************************************************)
(* Proofs about CReceive and CDispatch, for every sequence of frames,      *)
(* header size and capacity of the buffer, every set of patterns and every *)
(* number of calls.                                                        *)
(*                                                                         *)
(* ReceiveInv says that the buffer holds byte i of the stream at index i   *)
(* or nothing; TableInv counts, within the loop over the subscription      *)
(* table, the entries that have moved before its index without a call.     *)
(***************************************************************************)
EXTENDS CDispatch, SequenceTheorems, FiniteSetTheorems, TLAPS

Indices == 0 .. Capacity - 1

\* rx_data holds bytes where they belong and nothing that was not received; the bytes
\* beyond size too.
DataInv ==
    /\ DOMAIN data = Indices
    /\ \A i \in Indices : data[i] = NoByte \/ (data[i] = i /\ i < taken)

\* tcp_recv keeps everything it has received.
PartialInv ==
    pc # "stopped" => Len(partial) = taken /\ \A i \in 1 .. taken : partial[i] = i - 1

\* The frames of the batch are the first ones, and end at position.
BatchInv ==
    /\ batch \in Seq(Nat) /\ Len(batch) < Len(Start)
    /\ \A i \in 1 .. Len(batch) : batch[i] = i
    /\ position = Start[Len(batch) + 1]
    /\ position <= size

ReceiveInv ==
    /\ arrived \in Nat /\ taken \in Nat /\ size \in Nat
    /\ taken <= arrived /\ taken <= Capacity
    /\ DataInv
    /\ PartialInv
    /\ pc = "recv" => position = 0
    /\ pc = "read" => size = taken
    /\ BatchInv
    /\ StopsWhenClosedOrFull

\* The offsets where frames begin are numbers, and ascend.
LEMMA Offsets ==
    /\ Len(Start) \in Nat /\ Len(Start) > 0 /\ Start[1] = 0
    /\ \A f \in 1 .. Len(Start) : Start[f] \in Nat
    /\ \A f, g \in 1 .. Len(Start) : Start[f] = Start[g] => f = g
    /\ \A f \in Frames : /\ f \in 1 .. Len(Start) /\ f + 1 \in 1 .. Len(Start)
                         /\ Length(f) \in Nat /\ Length(f) > 0
                         /\ Start[f] + Length(f) = Start[f + 1]
    /\ StreamLen \in Nat
<1>1. /\ Len(Start) \in Nat /\ Len(Start) > 0 /\ Start[1] = 0
      /\ \A f \in 1 .. Len(Start) : Start[f] \in Nat
  BY StartAssumption, LenProperties, ElementOfSeq, Zenon
<1>2. \A f, g \in 1 .. Len(Start) : f < g => Start[f] < Start[g]
  BY <1>1, StartAssumption, SizesAssumption
<1>3. \A f, g \in 1 .. Len(Start) : Start[f] = Start[g] => f = g
  BY <1>1, <1>2
<1>4. ASSUME NEW f \in Frames
      PROVE  /\ f \in 1 .. Len(Start) /\ f + 1 \in 1 .. Len(Start)
             /\ Length(f) \in Nat /\ Length(f) > 0 /\ Start[f] + Length(f) = Start[f + 1]
  <2>1. f \in 1 .. Len(Start) /\ f + 1 \in 1 .. Len(Start) /\ f < f + 1
    BY <1>1 DEF Frames
  <2>2. Start[f] < Start[f + 1] /\ Start[f] \in Nat /\ Start[f + 1] \in Nat
    BY <1>1, <1>2, <2>1, Zenon
  <2> QED
    BY <2>1, <2>2 DEF Length
<1>5. StreamLen \in Nat
  BY <1>1 DEF StreamLen
<1> QED
  BY <1>1, <1>3, <1>4, <1>5, Zenon

\* Before the first call of qdp_process nothing is received.
LEMMA ReceiveInit == Init => ReceiveInv
<1> SUFFICES ASSUME Init PROVE ReceiveInv
  BY Zenon
<1>1. DataInv
  BY Zenon DEF Init, DataInv, Indices
<1>2. PartialInv
  BY DEF Init, PartialInv
<1>3. BatchInv
  BY Offsets DEF Init, BatchInv
<1>4. StopsWhenClosedOrFull
  BY Zenon DEF Init, StopsWhenClosedOrFull
<1> QED
  BY <1>1, <1>2, <1>3, <1>4, SizesAssumption DEF Init, ReceiveInv

\* Copying the partial data changes nothing but puts every byte received in its place.
LEMMA Copied ==
    ASSUME ReceiveInv, pc # "stopped"
    PROVE  /\ DOMAIN CopiedPartial = Indices
           /\ \A i \in Indices : CopiedPartial[i] = IF i < taken THEN i ELSE NoByte
<1>1. /\ taken \in Nat /\ DOMAIN data = Indices
      /\ Len(partial) = taken /\ \A i \in 1 .. taken : partial[i] = i - 1
  BY Zenon DEF ReceiveInv, DataInv, PartialInv
<1>2. /\ DOMAIN CopiedPartial = Indices
      /\ \A i \in Indices :
           CopiedPartial[i] = IF i < taken THEN partial[i + 1] ELSE data[i]
  BY <1>1, Zenon DEF CopiedPartial
<1>3. ASSUME NEW i \in Indices
      PROVE  CopiedPartial[i] = IF i < taken THEN i ELSE NoByte
  <2>1. i \in Nat
    BY SizesAssumption DEF Indices
  <2>2. CASE i < taken
    <3>1. i + 1 \in 1 .. taken /\ (i + 1) - 1 = i
      BY <1>1, <2>1, <2>2
    <3> QED
      BY <1>1, <1>2, <2>2, <3>1, Zenon
  <2>3. CASE ~(i < taken)
    BY <1>2, <2>3, Zenon DEF ReceiveInv, DataInv
  <2> QED
    BY <2>2, <2>3, Zenon
<1> QED
  BY <1>2, <1>3, Zenon

\* The indices below b are those below a and those from a on.
LEMMA Below ==
    ASSUME NEW i \in Nat, NEW a \in Nat, NEW b \in Nat, a <= b
    PROVE  /\ i \in a .. b - 1 => i < b
           /\ i \notin a .. b - 1 => (i < b <=> i < a)
OBVIOUS

\* recv appends the next bytes of the stream, and all of them are kept.
LEMMA ReceiveData == ReceiveInv /\ tcp_recv_data => ReceiveInv'
<1> SUFFICES ASSUME ReceiveInv, tcp_recv_data PROVE ReceiveInv'
  BY Zenon
<1>1. /\ pc = "recv" /\ pc' = "read" /\ UNCHANGED <<arrived, closed, position, batch>>
      /\ taken \in Nat /\ arrived \in Nat /\ taken <= arrived /\ Capacity \in Nat
      /\ Len(partial) = taken /\ position = 0
  BY SizesAssumption, Zenon DEF tcp_recv_data, ReceiveInv, PartialInv
<1>2. PICK n \in 1 .. Waiting :
         /\ n <= Room
         /\ size' = Len(partial) + n
         /\ data' = [i \in DOMAIN data |->
                       IF i \in Len(partial) .. size' - 1 THEN Received(i)
                       ELSE CopiedPartial[i]]
         /\ taken' = taken + n
         /\ partial' = KeepPartial(data', size')
  BY Zenon DEF tcp_recv_data
<1>3. /\ n \in Nat /\ taken' \in Nat /\ size' = taken' /\ taken <= taken'
      /\ taken' <= arrived /\ taken' <= Capacity
  BY <1>1, <1>2 DEF Waiting, Room
<1>4. DOMAIN data' = Indices
  BY <1>2, Zenon DEF ReceiveInv, DataInv
<1>5. ASSUME NEW i \in Indices
      PROVE  data'[i] = IF i < taken' THEN i ELSE NoByte
  <2>1. i \in Nat /\ CopiedPartial[i] = IF i < taken THEN i ELSE NoByte
    BY <1>1, Copied, SizesAssumption DEF Indices
  <2>2. data'[i] = IF i \in taken .. taken' - 1 THEN Received(i) ELSE CopiedPartial[i]
    BY <1>1, <1>2, <1>3, <1>4, Zenon
  <2>3. Received(i) = i
    BY <1>1, <2>1 DEF Received
  <2>4. i \in Nat /\ taken \in Nat /\ taken' \in Nat /\ taken <= taken'
    BY <1>1, <1>3, <2>1, Zenon
  <2>5. CASE i \in taken .. taken' - 1
    <3>1. i < taken'
      BY <2>4, <2>5, Below, Zenon
    <3> QED
      BY <2>2, <2>3, <2>5, <3>1, Zenon
  <2>6. CASE i \notin taken .. taken' - 1
    <3>1. i < taken' <=> i < taken
      BY <2>4, <2>6, Below, Zenon
    <3> QED
      BY <2>1, <2>2, <2>6, <3>1, Zenon
  <2> QED
    BY <2>5, <2>6, Zenon
<1>6. DataInv'
  BY <1>4, <1>5, Zenon DEF DataInv, Indices, NoByte
<1>7. Len(partial') = taken' /\ \A i \in 1 .. taken' : partial'[i] = i - 1
  <2>1. partial' = [i \in 1 .. taken' |-> data'[i - 1]]
    BY <1>2, <1>3, Zenon DEF KeepPartial
  <2>2. Len(partial') = taken'
    BY <1>3, <2>1
  <2>3. ASSUME NEW i \in 1 .. taken'
        PROVE  partial'[i] = i - 1
    <3>1. i - 1 \in Indices /\ i - 1 < taken'
      BY <1>1, <1>3 DEF Indices
    <3> QED
      BY <1>5, <2>1, <3>1, Zenon
  <2> QED
    BY <2>2, <2>3, Zenon
<1>8. BatchInv'
  BY <1>1, <1>3 DEF ReceiveInv, BatchInv
<1> QED
  BY <1>1, <1>3, <1>6, <1>7, <1>8, Zenon DEF ReceiveInv, PartialInv, StopsWhenClosedOrFull

\* Without new data the buffer is what was kept; at the end of the stream, or when the
\* buffer has no room, the consumer stops.
LEMMA ReceiveNone == ReceiveInv /\ (tcp_recv_again \/ tcp_recv_closed) => ReceiveInv'
<1> SUFFICES ASSUME ReceiveInv, tcp_recv_again \/ tcp_recv_closed PROVE ReceiveInv'
  BY Zenon
<1>1. /\ pc = "recv" /\ UNCHANGED <<arrived, closed, taken, position, batch>>
      /\ size' = Len(partial) /\ data' = CopiedPartial
      /\ taken \in Nat /\ Len(partial) = taken /\ position = 0
  BY Zenon DEF tcp_recv_again, tcp_recv_closed, ReceiveInv, PartialInv
<1>2. DataInv'
  BY <1>1, Copied, Zenon DEF DataInv, Indices, NoByte
<1>3. BatchInv'
  BY <1>1 DEF ReceiveInv, BatchInv
<1>4. PartialInv' /\ (pc' = "read" => size' = taken') /\ pc' # "recv"
  BY <1>1, Zenon DEF tcp_recv_again, tcp_recv_closed, ReceiveInv, PartialInv
<1>5. StopsWhenClosedOrFull'
  <2>1. CASE tcp_recv_again
    BY <1>1, <2>1, Zenon DEF tcp_recv_again, StopsWhenClosedOrFull
  <2>2. CASE tcp_recv_closed
    BY <1>1, <2>2, SizesAssumption DEF tcp_recv_closed, StopsWhenClosedOrFull, Room
  <2> QED
    BY <2>1, <2>2, Zenon
<1> QED
  BY <1>1, <1>2, <1>3, <1>4, <1>5, Zenon DEF ReceiveInv

\* The test for an incomplete message looks at size only and the checksum at bytes that
\* may lie beyond it; the message accepted is the next one all the same, and ends
\* within what was received, because the buffer holds nothing else.
LEMMA ReceiveDispatch ==
    ASSUME ReceiveInv, NEW f \in Frames, Dispatch(f)
    PROVE  ReceiveInv'
<1>1. /\ pc = "read" /\ HoldsFrame(f) /\ position' = position + Length(f)
      /\ batch' = Append(batch, f) /\ UNCHANGED <<arrived, closed, taken, data, size, partial, pc>>
  BY Zenon DEF Dispatch, CanRead
<1>2. /\ size = taken /\ taken \in Nat /\ batch \in Seq(Nat) /\ Len(batch) \in Nat
      /\ Len(batch) + 1 \in 1 .. Len(Start) /\ position = Start[Len(batch) + 1]
      /\ position \in Nat
  BY <1>1, Offsets, LenProperties DEF ReceiveInv, BatchInv
<1>3. /\ f \in 1 .. Len(Start) /\ f + 1 \in 1 .. Len(Start)
      /\ Length(f) \in Nat /\ Length(f) > 0
      /\ Start[f] + Length(f) = Start[f + 1] /\ Start[f] \in Nat
  BY Offsets, Zenon
<1>4. ASSUME NEW k \in 0 .. Length(f) - 1
      PROVE  position + k = Start[f] + k /\ position + k < taken
  <2>0. position + k < Capacity /\ data[position + k] = Start[f] + k
    BY <1>1, Zenon DEF HoldsFrame
  <2>1. position + k \in Indices /\ data[position + k] = Start[f] + k
    BY <1>2, <2>0, SizesAssumption DEF Indices
  <2>2. Start[f] + k # NoByte
    BY <1>3 DEF NoByte
  <2> QED
    BY <2>1, <2>2, Zenon DEF ReceiveInv, DataInv
<1>5. 0 \in 0 .. Length(f) - 1 /\ Length(f) - 1 \in 0 .. Length(f) - 1
  BY <1>3
<1>6. position = Start[f]
  BY <1>2, <1>3, <1>4, <1>5
<1>7. f = Len(batch) + 1
  BY <1>2, <1>3, <1>6, Offsets, Zenon
<1>8. position + (Length(f) - 1) < taken
  BY <1>4, <1>5, Zenon
<1>9. position' <= size
  BY <1>1, <1>2, <1>3, <1>8, SMTT(30)
<1>10. /\ batch' \in Seq(Nat) /\ Len(batch') = Len(batch) + 1
       /\ \A i \in 1 .. Len(batch) : batch'[i] = batch[i]
       /\ batch'[Len(batch) + 1] = f
  BY <1>1, <1>2, <1>3
<1>11. \A i \in 1 .. Len(batch') : batch'[i] = i
  <2> TAKE i \in 1 .. Len(batch')
  <2>1. CASE i \in 1 .. Len(batch)
    BY <1>10, <2>1, Zenon DEF ReceiveInv, BatchInv
  <2>2. CASE i = Len(batch) + 1
    BY <1>7, <1>10, <2>2, Zenon
  <2> QED
    BY <1>2, <1>10, <2>1, <2>2
<1>12. Len(batch') < Len(Start) /\ position' = Start[Len(batch') + 1]
  BY <1>1, <1>2, <1>3, <1>6, <1>7, <1>10, Offsets
<1>13. BatchInv'
  BY <1>1, <1>9, <1>10, <1>11, <1>12, Zenon DEF BatchInv
<1> QED
  BY <1>1, <1>13, Zenon DEF ReceiveInv, DataInv, PartialInv, StopsWhenClosedOrFull

\* Every step of the peer, the application and qdp_process preserves ReceiveInv.
LEMMA ReceiveStep == ReceiveInv /\ [DispatchNext]_dispatchVars => ReceiveInv'
<1> SUFFICES ASSUME ReceiveInv, [DispatchNext]_dispatchVars PROVE ReceiveInv'
  BY Zenon
<1> USE DEF ReceiveInv, DataInv, PartialInv, BatchInv, StopsWhenClosedOrFull
<1>1. CASE Arrive
  <2>1. PICK n \in arrived + 1 .. StreamLen : arrived' = n
    BY <1>1, Zenon DEF Arrive
  <2>2. arrived' \in Nat /\ taken <= arrived'
    BY <2>1, Offsets
  <2> QED
    BY <1>1, <2>2, Zenon DEF Arrive
<1>2. CASE PeerCloses
  BY <1>2, Zenon DEF PeerCloses
<1>3. CASE qdp_stream_begin_message
  BY <1>3, Offsets DEF qdp_stream_begin_message
<1>4. CASE tcp_recv_data
  BY <1>4, ReceiveData, Zenon
<1>5. CASE tcp_recv_again \/ tcp_recv_closed
  BY <1>5, ReceiveNone, Zenon
<1>6. ASSUME NEW f \in Frames, Dispatch(f) PROVE ReceiveInv'
  BY <1>6, ReceiveDispatch, Zenon
<1>7. CASE EndBatch
  BY <1>7, Zenon DEF EndBatch
<1>8. CASE UNCHANGED vars
  BY <1>8, Zenon DEF vars
<1> QED
  BY <1>1, <1>2, <1>3, <1>4, <1>5, <1>6, <1>7, <1>8, Zenon DEF DispatchNext, dispatchVars,
     Process, Receiving, BeginLoop, NextEntry, CallbackReturns, EndLoop, qdp_subscribe,
     qdp_unsubscribe, Unsubscribing

\* In every state the buffer of the C library holds what was received and nothing else.
THEOREM ReceiveInvariant == DispatchSpec => []ReceiveInv
<1>1. DispatchInit => ReceiveInv
  BY ReceiveInit, Zenon DEF DispatchInit
<1> QED
  BY <1>1, ReceiveStep, PTL DEF DispatchSpec

\* Each call of qdp_process dispatches the frames received so far from the first one on,
\* in order and without a gap, for all frames and however recv cuts the stream.
THEOREM BatchesArePrefixes == DispatchSpec => []BatchIsPrefix
<1>1. ReceiveInv => BatchIsPrefix
  BY LenProperties, Zenon DEF ReceiveInv, BatchInv, BatchIsPrefix
<1> QED
  BY <1>1, ReceiveInvariant, PTL

\* qdp_message_read accepts no message that reaches beyond the bytes received, although
\* its test for an incomplete message does not consider where the message begins.
THEOREM NothingReadBeyond == DispatchSpec => []ReadsWithinReceived
<1>1. ReceiveInv => ReadsWithinReceived
  BY Zenon DEF ReceiveInv, BatchInv, ReadsWithinReceived
<1> QED
  BY <1>1, ReceiveInvariant, PTL

\* The consumer stops only if the peer has closed the connection or what tcp_recv keeps
\* has filled the buffer.
THEOREM StopsForAReason == DispatchSpec => []StopsWhenClosedOrFull
<1>1. ReceiveInv => StopsWhenClosedOrFull
  BY Zenon DEF ReceiveInv
<1> QED
  BY <1>1, ReceiveInvariant, PTL

-----------------------------------------------------------------------------
(***************************************************************************)
(* The subscription table.                                                 *)
(***************************************************************************)
Entries == [id : Nat, topic : Patterns]

TableType ==
    /\ subs \in Seq(Entries) /\ called \in Seq(Nat) /\ present \subseteq Nat
    /\ at \in Nat /\ calls \in Nat /\ removed \in Nat
    /\ running \in BOOLEAN /\ (running => at > 0)
    /\ cut = <<>> \/ cut \in Patterns \X (Nat \ {0})

\* Entries are numbered by the calls that made them.
IdsInv ==
    /\ \A i \in 1 .. Len(subs) : subs[i].id < calls
    /\ \A i, j \in 1 .. Len(subs) : subs[i].id = subs[j].id => i = j
    /\ \A n \in present : n < calls
    /\ \A k \in 1 .. Len(called) : called[k] < calls

\* The first index that the loop has not looked at.
Frontier == IF running THEN at + 1 ELSE at

WasCalled(n) == \E k \in 1 .. Len(called) : called[k] = n

\* The entries that have come before that index without being called.
Missed ==
    {n \in present : /\ ~WasCalled(n)
                     /\ \E i \in 1 .. Len(subs) :
                          i < Frontier /\ subs[i].id = n /\ Matches(subs[i])}

LoopInv ==
    at > 0 => /\ \A i \in 1 .. Len(subs) : i >= Frontier => ~WasCalled(subs[i].id)
              /\ IsFiniteSet(Missed) /\ Cardinality(Missed) <= removed

CalledOnce == \A i, j \in 1 .. Len(called) : called[i] = called[j] => i = j

TableInv == TableType /\ IdsInv /\ LoopInv /\ CalledOnce

\* Before the first call there is no entry.
LEMMA TableInit == DispatchInit => TableInv
<1> SUFFICES ASSUME DispatchInit PROVE TableInv
  BY Zenon
<1>1. subs = <<>> /\ called = <<>> /\ present = {} /\ at = 0 /\ calls = 0 /\ removed = 0
      /\ running = FALSE /\ cut = <<>>
  BY Zenon DEF DispatchInit
<1>2. /\ subs \in Seq(Entries) /\ called \in Seq(Nat) /\ present \subseteq Nat
      /\ Len(subs) = 0 /\ Len(called) = 0
  BY <1>1
<1>3. TableType
  BY <1>1, <1>2, Zenon DEF TableType
<1>4. IdsInv /\ CalledOnce
  BY <1>1, <1>2 DEF IdsInv, CalledOnce
<1>5. LoopInv
  BY <1>1 DEF LoopInv
<1> QED
  BY <1>3, <1>4, <1>5, Zenon DEF TableInv

\* The table and the sequence of calls are sequences.
LEMMA TableFacts ==
    ASSUME TableInv
    PROVE  /\ Len(subs) \in Nat /\ Len(called) \in Nat /\ Frontier \in Nat
           /\ \A i \in 1 .. Len(subs) : subs[i].id \in Nat
           /\ DOMAIN subs = 1 .. Len(subs) /\ DOMAIN called = 1 .. Len(called)
           /\ at <= Frontier
<1>1. subs \in Seq(Entries) /\ called \in Seq(Nat) /\ at \in Nat
  BY Zenon DEF TableInv, TableType
<1>2. /\ Len(subs) \in Nat /\ Len(called) \in Nat
      /\ DOMAIN subs = 1 .. Len(subs) /\ DOMAIN called = 1 .. Len(called)
  BY <1>1, LenProperties, Zenon
<1>3. \A i \in 1 .. Len(subs) : subs[i] \in Entries
  BY <1>1, ElementOfSeq, Zenon
<1> QED
  BY <1>1, <1>2, <1>3 DEF Frontier, Entries

\* What is outside of the table matters to its loop only through the message.
LEMMA TableFrame ==
    ASSUME TableInv, UNCHANGED tableVars, at = 0 \/ UNCHANGED batch
    PROVE  TableInv'
<1>1. UNCHANGED <<subs, at, running, cut, calls, present, called, removed>>
  BY Zenon DEF tableVars
<1>2. TableType' /\ IdsInv' /\ CalledOnce'
  BY <1>1, Zenon DEF TableInv, TableType, IdsInv, CalledOnce
<1>3. LoopInv'
  <2>1. CASE at = 0
    BY <1>1, <2>1 DEF LoopInv
  <2>2. CASE UNCHANGED batch
    <3>1. Missed' = Missed
      BY <1>1, <2>2, Zenon DEF Missed, WasCalled, Frontier, Matches, Current
    <3> QED
      BY <1>1, <3>1, Zenon DEF TableInv, LoopInv, WasCalled, Frontier
  <2> QED
    BY <2>1, <2>2, Zenon
<1> QED
  BY <1>2, <1>3, Zenon DEF TableInv

\* An entry made now was not there when the loop began, wherever it is put.
LEMMA TableSubscribe ==
    ASSUME TableInv, NEW p \in Patterns, qdp_subscribe(p)
    PROVE  TableInv'
<1>1. /\ subs' = Subscribed(p) /\ calls' = calls + 1 /\ calls \in Nat
      /\ UNCHANGED <<batch, at, running, cut, present, called, removed>>
  BY Zenon DEF qdp_subscribe, vars, TableInv, TableType
<1>2. CASE subs' = subs
  <2>1. TableType' /\ CalledOnce'
    BY <1>1, <1>2 DEF TableInv, TableType, CalledOnce
  <2>2. IdsInv'
    <3>1. /\ \A i \in 1 .. Len(subs) : subs[i].id < calls + 1
          /\ \A n \in present : n < calls + 1
          /\ \A k \in 1 .. Len(called) : called[k] < calls + 1
      BY <1>1, TableFacts DEF TableInv, IdsInv, TableType
    <3> QED
      BY <1>1, <1>2, <3>1, Zenon DEF TableInv, IdsInv
  <2>3. Missed' = Missed
    BY <1>1, <1>2, Zenon DEF Missed, WasCalled, Frontier, Matches, Current
  <2>4. LoopInv'
    BY <1>1, <1>2, <2>3, Zenon DEF TableInv, LoopInv, WasCalled, Frontier
  <2> QED
    BY <2>1, <2>2, <2>4, Zenon DEF TableInv
<1>3. CASE subs' = Append(subs, Entry(p))
  <2>1. /\ Entry(p) \in Entries /\ Entry(p).id = calls
        /\ subs \in Seq(Entries) /\ Len(subs) \in Nat
    BY <1>1, TableFacts, Zenon DEF Entry, Entries, TableInv, TableType
  <2>2. /\ subs' \in Seq(Entries) /\ Len(subs') = Len(subs) + 1
        /\ \A i \in 1 .. Len(subs) : subs'[i] = subs[i]
        /\ subs'[Len(subs) + 1] = Entry(p)
    BY <1>3, <2>1, AppendProperties
  <2>3. \A i \in 1 .. Len(subs') : i \in 1 .. Len(subs) \/ i = Len(subs) + 1
    BY <2>1, <2>2
  <2>4. TableType' /\ CalledOnce'
    <3>1. calls + 1 \in Nat
      BY <1>1
    <3> QED
      BY <1>1, <2>2, <3>1, Zenon DEF TableInv, TableType, CalledOnce
  <2>5. \A i \in 1 .. Len(subs) : subs[i].id \in Nat /\ subs[i].id < calls
    BY TableFacts, Zenon DEF TableInv, IdsInv
  <2>6. IdsInv'
    <3>1. /\ \A n \in present : n < calls + 1
          /\ \A k \in 1 .. Len(called) : called[k] < calls + 1
      BY <1>1, TableFacts DEF TableInv, IdsInv, TableType
    <3>2. ASSUME NEW i \in 1 .. Len(subs') PROVE subs'[i].id < calls + 1
      <4>1. CASE i \in 1 .. Len(subs)
        BY <1>1, <2>2, <2>5, <4>1
      <4>2. CASE i = Len(subs) + 1
        BY <1>1, <2>1, <2>2, <4>2
      <4> QED
        BY <2>3, <4>1, <4>2, Zenon
    <3>3. ASSUME NEW i \in 1 .. Len(subs'), NEW j \in 1 .. Len(subs'),
                 subs'[i].id = subs'[j].id
          PROVE  i = j
      <4>1. CASE i \in 1 .. Len(subs) /\ j \in 1 .. Len(subs)
        BY <2>2, <3>3, <4>1, Zenon DEF TableInv, IdsInv
      <4>2. CASE i \in 1 .. Len(subs) /\ j = Len(subs) + 1
        BY <1>1, <2>1, <2>2, <2>5, <3>3, <4>2
      <4>3. CASE i = Len(subs) + 1 /\ j \in 1 .. Len(subs)
        BY <1>1, <2>1, <2>2, <2>5, <3>3, <4>3
      <4> QED
        BY <2>3, <4>1, <4>2, <4>3, Zenon
    <3> QED
      BY <1>1, <3>1, <3>2, <3>3, Zenon DEF IdsInv
  <2>7. calls \notin present /\ ~WasCalled(calls)
    BY <1>1, TableFacts DEF TableInv, IdsInv, TableType, WasCalled
  <2>8. Missed' = Missed
    <3>1. /\ present' = present /\ Frontier' = Frontier
          /\ \A n : WasCalled(n)' <=> WasCalled(n)
          /\ \A s : Matches(s)' <=> Matches(s)
      BY <1>1, Zenon DEF Frontier, WasCalled, Matches, Current
    <3>2. ASSUME NEW n \in present
          PROVE  (\E i \in 1 .. Len(subs') :
                    i < Frontier /\ subs'[i].id = n /\ Matches(subs'[i]))
                 <=> (\E i \in 1 .. Len(subs) :
                    i < Frontier /\ subs[i].id = n /\ Matches(subs[i]))
      <4>1. n # calls
        BY <2>7, Zenon
      <4>2. 1 .. Len(subs) \subseteq 1 .. Len(subs')
        BY <2>1, <2>2
      <4> QED
        BY <2>1, <2>2, <2>3, <4>1, <4>2, Zenon
    <3> QED
      BY <3>1, <3>2 DEF Missed
  <2>9. LoopInv'
    <3>1. ASSUME at > 0, NEW i \in 1 .. Len(subs'), i >= Frontier
          PROVE  ~WasCalled(subs'[i].id)
      <4>1. CASE i \in 1 .. Len(subs)
        BY <2>2, <3>1, <4>1, Zenon DEF TableInv, LoopInv
      <4>2. CASE i = Len(subs) + 1
        BY <2>1, <2>2, <2>7, <4>2, Zenon
      <4> QED
        BY <2>3, <4>1, <4>2, Zenon
    <3>2. Frontier' = Frontier /\ at' = at /\ removed' = removed
      BY <1>1, Zenon DEF Frontier
    <3>3. \A n : WasCalled(n)' <=> WasCalled(n)
      BY <1>1, Zenon DEF WasCalled
    <3> QED
      BY <2>8, <3>1, <3>2, <3>3, Zenon DEF TableInv, LoopInv
  <2> QED
    BY <2>4, <2>6, <2>9, Zenon DEF TableInv
<1> QED
  BY <1>1, <1>2, <1>3, Zenon DEF Subscribed

\* The place of what is left when the entry at index i is cut out.
LEMMA CutOut ==
    ASSUME NEW S, NEW s \in Seq(S), NEW i \in 1 .. Len(s), NEW t,
           t = SubSeq(s, 1, i - 1) \o SubSeq(s, i + 1, Len(s))
    PROVE  /\ t \in Seq(S) /\ Len(t) = Len(s) - 1
           /\ \A j \in 1 .. Len(s) - 1 : t[j] = IF j < i THEN s[j] ELSE s[j + 1]
<1>1. /\ Len(s) \in Nat /\ i \in Nat /\ 1 <= i /\ i <= Len(s)
      /\ \A j \in 1 .. Len(s) : s[j] \in S
  BY ElementOfSeq, LenProperties
<1> DEFINE a == SubSeq(s, 1, i - 1)
           b == SubSeq(s, i + 1, Len(s))
<1>2. /\ a \in Seq(S) /\ Len(a) = i - 1
      /\ \A j \in 1 .. i - 1 : a[j] = s[j]
  <2>1. \A j \in 1 .. i - 1 : s[j] \in S
    BY <1>1
  <2>2. /\ a \in Seq(S)
        /\ Len(a) = IF 1 <= i - 1 THEN (i - 1) - 1 + 1 ELSE 0
        /\ \A j \in 1 .. (i - 1) - 1 + 1 : a[j] = s[1 + j - 1]
    BY <1>1, <2>1, SubSeqProperties
  <2> HIDE DEF a
  <2> QED
    BY <1>1, <2>2
<1>3. /\ b \in Seq(S) /\ Len(b) = Len(s) - i
      /\ \A j \in 1 .. Len(s) - i : b[j] = s[i + j]
  <2>1. \A j \in i + 1 .. Len(s) : s[j] \in S
    BY <1>1
  <2>2. /\ b \in Seq(S)
        /\ Len(b) = IF i + 1 <= Len(s) THEN Len(s) - (i + 1) + 1 ELSE 0
        /\ \A j \in 1 .. Len(s) - (i + 1) + 1 : b[j] = s[(i + 1) + j - 1]
    BY <1>1, <2>1, SubSeqProperties
  <2> HIDE DEF b
  <2> QED
    BY <1>1, <2>2
<1> HIDE DEF a, b
<1>4. t = a \o b
  BY Zenon DEF a, b
<1>5. /\ a \o b \in Seq(S) /\ Len(a \o b) = Len(a) + Len(b)
      /\ \A j \in 1 .. Len(a) + Len(b) :
           (a \o b)[j] = IF j <= Len(a) THEN a[j] ELSE b[j - Len(a)]
  BY <1>2, <1>3, ConcatProperties, Zenon
<1>6. t \in Seq(S) /\ Len(t) = Len(s) - 1
  <2>1. t \in Seq(S) /\ Len(t) = Len(a) + Len(b)
    BY <1>4, <1>5, Zenon
  <2>2. Len(a) + Len(b) = Len(s) - 1
    BY ONLY <1>1, <1>2, <1>3
  <2> QED
    BY <2>1, <2>2, Zenon
<1>7. ASSUME NEW j \in 1 .. Len(s) - 1
      PROVE  t[j] = IF j < i THEN s[j] ELSE s[j + 1]
  <2>1. j \in 1 .. Len(a) + Len(b)
    BY <1>1, <1>2, <1>3
  <2>2. t[j] = IF j <= Len(a) THEN a[j] ELSE b[j - Len(a)]
    BY <1>4, <1>5, <2>1, Zenon
  <2>3. CASE j < i
    <3>1. j <= Len(a) /\ j \in 1 .. i - 1
      BY <1>1, <1>2, <2>3
    <3> QED
      BY <1>2, <2>2, <2>3, <3>1, Zenon
  <2>4. CASE ~(j < i)
    <3>1. /\ ~(j <= Len(a)) /\ j - Len(a) \in 1 .. Len(s) - i
          /\ i + (j - Len(a)) = j + 1
      BY <1>1, <1>2, <2>4
    <3> QED
      BY <1>3, <2>2, <2>4, <3>1, Zenon
  <2> QED
    BY <2>3, <2>4, Zenon
<1> QED
  BY <1>6, <1>7, Zenon

\* Where what is then at index j was before the entry at index i was cut out.
Place(i, j) == IF j < i THEN j ELSE j + 1

\* Nothing moves by more than one place, and no two entries come together.
LEMMA Places ==
    ASSUME NEW n \in Nat, NEW i \in 1 .. n
    PROVE  /\ \A j \in 1 .. n - 1 : /\ Place(i, j) \in 1 .. n
                                   /\ j <= Place(i, j) /\ Place(i, j) <= j + 1
                                   /\ Place(i, j) = IF j < i THEN j ELSE j + 1
           /\ \A j, k \in 1 .. n - 1 : Place(i, j) = Place(i, k) => j = k
BY DEF Place

\* An entry that is cut out before the frontier lets at most one entry, the one at the
\* frontier, slip by uncalled; one cut out behind it lets none.
LEMMA TableCut ==
    ASSUME TableInv, NEW i \in 1 .. Len(subs),
           subs' \in Seq(Entries), Len(subs') = Len(subs) - 1,
           \A j \in 1 .. Len(subs) - 1 : subs'[j] = subs[Place(i, j)],
           removed' = IF i <= at THEN removed + 1 ELSE removed,
           UNCHANGED <<batch, at, running, cut, calls, present, called>>
    PROVE  TableInv'
<1>0. /\ batch' = batch /\ at' = at /\ running' = running /\ cut' = cut /\ calls' = calls
      /\ present' = present /\ called' = called
  BY Zenon
<1>1. /\ subs \in Seq(Entries) /\ removed \in Nat /\ at \in Nat
      /\ Len(subs) \in Nat /\ Frontier \in Nat /\ at <= Frontier
      /\ \A j \in 1 .. Len(subs) : subs[j].id \in Nat
  BY TableFacts, Zenon DEF TableInv, TableType
<1>2. DOMAIN subs' = 1 .. Len(subs) - 1 /\ 1 .. Len(subs') = 1 .. Len(subs) - 1
  BY LenProperties, Zenon
<1>3. ASSUME NEW j \in 1 .. Len(subs) - 1
      PROVE  /\ Place(i, j) \in 1 .. Len(subs) /\ subs'[j] = subs[Place(i, j)]
             /\ j <= Place(i, j) /\ Place(i, j) <= j + 1
  BY <1>1, Places, Zenon
<1>4. \A j, k \in 1 .. Len(subs) - 1 : Place(i, j) = Place(i, k) => j = k
  BY <1>1, Places, Zenon
<1>5. /\ Frontier' = Frontier /\ (\A n : WasCalled(n)' <=> WasCalled(n))
      /\ (\A s : Matches(s)' <=> Matches(s))
  BY <1>0 DEF Frontier, WasCalled, Matches, Current
<1>6. TableType' /\ CalledOnce'
  <2>1. removed' \in Nat
    BY <1>1
  <2>2. TableType'
    BY <1>0, <1>2, <2>1 DEF TableInv, TableType
  <2> QED
    BY <1>0, <2>2, Zenon DEF TableInv, CalledOnce
<1>7. IdsInv'
  <2>1. \A j \in 1 .. Len(subs) - 1 : subs'[j].id < calls
    BY <1>3, Zenon DEF TableInv, IdsInv
  <2>2. \A j, k \in 1 .. Len(subs) - 1 : subs'[j].id = subs'[k].id => j = k
    BY <1>3, <1>4, SMTT(30) DEF TableInv, IdsInv
  <2> QED
    BY <1>0, <1>2, <2>1, <2>2 DEF TableInv, IdsInv
<1>8. LoopInv'
  <2> SUFFICES ASSUME at > 0 PROVE LoopInv'
    BY Zenon DEF LoopInv
  <2>1. ASSUME NEW j \in 1 .. Len(subs) - 1, j >= Frontier
        PROVE  ~WasCalled(subs'[j].id)
    <3>1. Place(i, j) >= Frontier
      <4>1. Place(i, j) \in Int /\ j \in Int /\ j <= Place(i, j)
        BY <1>1, <1>3
      <4> QED
        BY ONLY <1>1, <2>1, <4>1
    <3> QED
      BY <1>3, <3>1, Zenon DEF TableInv, LoopInv
  <2>2. IsFiniteSet(Missed) /\ Cardinality(Missed) \in Nat /\ Cardinality(Missed) <= removed
    BY FS_CardinalityType, Zenon DEF TableInv, LoopInv
  <2>3. ASSUME NEW n \in Missed'
        PROVE  n \in Missed \/ (i <= at /\ n = subs[Frontier].id)
    <3>1. /\ n \in present /\ ~WasCalled(n)
          /\ \E j \in 1 .. Len(subs) - 1 : j < Frontier /\ subs'[j].id = n /\ Matches(subs'[j])
      BY <1>2, <1>5, Zenon DEF Missed
    <3>2. PICK j \in 1 .. Len(subs) - 1 : j < Frontier /\ subs'[j].id = n /\ Matches(subs'[j])
      BY <3>1, Zenon
    <3>3. /\ Place(i, j) \in 1 .. Len(subs) /\ subs[Place(i, j)].id = n /\ Matches(subs[Place(i, j)])
      BY <1>3, <3>2, Zenon
    <3>4. CASE Place(i, j) < Frontier
      BY <3>1, <3>3, <3>4, Zenon DEF Missed
    <3>5. CASE ~(Place(i, j) < Frontier)
      <4>1. Place(i, j) = Frontier /\ ~(j < i)
        BY <1>1, <1>3, <3>2, <3>5 DEF Place
      <4>2. i <= at
        BY <1>1, <3>2, <4>1 DEF Frontier
      <4> QED
        BY <3>3, <4>1, <4>2, Zenon
    <3> QED
      BY <3>4, <3>5, Zenon
  <2>4. IsFiniteSet(Missed') /\ Cardinality(Missed') <= removed'
    <3>1. CASE i <= at
      <4> DEFINE More == Missed \cup {subs[Frontier].id}
      <4>1. /\ IsFiniteSet(More)
            /\ Cardinality(More) = Cardinality(Missed) \/ Cardinality(More) = Cardinality(Missed) + 1
        BY <2>2, FS_AddElement, Zenon
      <4>2. Missed' \in SUBSET More
        BY <2>3, Zenon
      <4> HIDE DEF More
      <4>3. IsFiniteSet(Missed') /\ Cardinality(Missed') <= Cardinality(More)
        BY <4>1, <4>2, FS_Subset, Zenon
      <4>4. Cardinality(Missed') \in Nat
        BY <4>3, FS_CardinalityType, Zenon
      <4> QED
        BY <1>1, <2>2, <3>1, <4>1, <4>3, <4>4
    <3>2. CASE ~(i <= at)
      <4>1. Missed' \in SUBSET Missed
        BY <2>3, <3>2, Zenon
      <4>2. IsFiniteSet(Missed') /\ Cardinality(Missed') <= Cardinality(Missed)
        BY <2>2, <4>1, FS_Subset, Zenon
      <4>3. Cardinality(Missed') \in Nat
        BY <4>2, FS_CardinalityType, Zenon
      <4> QED
        BY <1>1, <2>2, <3>2, <4>2, <4>3
    <3> QED
      BY <3>1, <3>2, Zenon
  <2> QED
    BY <1>2, <1>5, <2>1, <2>4, Zenon DEF LoopInv
<1> QED
  BY <1>6, <1>7, <1>8, Zenon DEF TableInv

\* The calls of qdp_unsubscribe and the rounds of its loop.
LEMMA TableUnsubscribe ==
    ASSUME TableInv, Unsubscribing \/ \E p \in Patterns : qdp_unsubscribe(p)
    PROVE  TableInv'
<1>1. ASSUME NEW p \in Patterns, qdp_unsubscribe(p) PROVE TableInv'
  <2>1. /\ cut' = <<p, 1>> /\ calls' = calls + 1 /\ calls \in Nat
        /\ UNCHANGED <<batch, subs, at, running, present, called, removed>>
    BY <1>1, Zenon DEF qdp_unsubscribe, vars, TableInv, TableType
  <2>2. TableType' /\ CalledOnce'
    BY <2>1 DEF TableInv, TableType, CalledOnce
  <2>3. IdsInv'
    <3>1. /\ \A i \in 1 .. Len(subs) : subs[i].id < calls + 1
          /\ \A n \in present : n < calls + 1
          /\ \A k \in 1 .. Len(called) : called[k] < calls + 1
      BY <2>1, TableFacts DEF TableInv, IdsInv, TableType
    <3> QED
      BY <2>1, <3>1, Zenon DEF TableInv, IdsInv
  <2>4. Missed' = Missed
    BY <2>1, Zenon DEF Missed, WasCalled, Frontier, Matches, Current
  <2>5. LoopInv'
    BY <2>1, <2>4, Zenon DEF TableInv, LoopInv, WasCalled, Frontier
  <2> QED
    BY <2>2, <2>3, <2>5, Zenon DEF TableInv
<1>2. CASE Unsubscribing
  <2>1. /\ cut \in Patterns \X (Nat \ {0})
        /\ UNCHANGED <<batch, at, running, calls, present, called>>
    BY <1>2, Zenon DEF Unsubscribing, vars, TableInv, TableType
  <2>2. CASE /\ cut[2] \in DOMAIN subs
             /\ subs' = SubSeq(subs, 1, cut[2] - 1) \o SubSeq(subs, cut[2] + 1, Len(subs))
             /\ removed' = IF cut[2] <= at THEN removed + 1 ELSE removed
             /\ UNCHANGED cut
    <3>1. PICK i \in 1 .. Len(subs) : i = cut[2]
      BY <2>2, TableFacts, Zenon
    <3>2. subs \in Seq(Entries)
      BY Zenon DEF TableInv, TableType
    <3>3. /\ subs' = SubSeq(subs, 1, i - 1) \o SubSeq(subs, i + 1, Len(subs))
          /\ removed' = IF i <= at THEN removed + 1 ELSE removed
      BY <2>2, <3>1, Zenon
    <3>4. /\ subs' \in Seq(Entries) /\ Len(subs') = Len(subs) - 1
          /\ \A j \in 1 .. Len(subs) - 1 : subs'[j] = IF j < i THEN subs[j] ELSE subs[j + 1]
      BY ONLY <3>2, <3>3, CutOut, ZenonT(60)
    <3>5. \A j \in 1 .. Len(subs) - 1 : subs'[j] = subs[Place(i, j)]
      BY <3>4, Zenon DEF Place
    <3>6. UNCHANGED <<batch, at, running, cut, calls, present, called>>
      BY <2>1, <2>2, Zenon
    <3> QED
      BY <3>3, <3>4, <3>5, <3>6, TableCut, Zenon
  <2>3. CASE /\ cut' \in {<<cut[1], cut[2] + 1>>, <<>>}
             /\ UNCHANGED <<subs, removed>>
    <3>1. cut' = <<>> \/ cut' \in Patterns \X (Nat \ {0})
      BY <2>1, <2>3
    <3>2. TableType' /\ CalledOnce' /\ IdsInv'
      BY <2>1, <2>3, <3>1, Zenon DEF TableInv, TableType, CalledOnce, IdsInv
    <3>3. Missed' = Missed
      BY <2>1, <2>3, Zenon DEF Missed, WasCalled, Frontier, Matches, Current
    <3>4. LoopInv'
      BY <2>1, <2>3, <3>3, Zenon DEF TableInv, LoopInv, WasCalled, Frontier
    <3> QED
      BY <3>2, <3>4, Zenon DEF TableInv
  <2> QED
    BY <1>2, <2>2, <2>3, Zenon DEF Unsubscribing
<1> QED
  BY <1>1, <1>2, Zenon

\* The loop over the table: an entry looked at is called or does not match.
LEMMA TableLoop ==
    ASSUME TableInv, NextEntry \/ CallbackReturns
    PROVE  TableInv'
<1>1. /\ Len(subs) \in Nat /\ Len(called) \in Nat /\ at \in Nat /\ called \in Seq(Nat)
      /\ \A i \in 1 .. Len(subs) : subs[i].id \in Nat
      /\ DOMAIN subs = 1 .. Len(subs)
  BY TableFacts, Zenon DEF TableInv, TableType
<1>2. CASE CallbackReturns
  <2>1. /\ running = TRUE /\ running' = FALSE /\ at' = at + 1
        /\ UNCHANGED <<batch, subs, cut, calls, present, called, removed>>
    BY <1>2, Zenon DEF CallbackReturns, vars, TableInv, TableType
  <2>2. Frontier' = Frontier /\ Missed' = Missed
    BY <2>1, Zenon DEF Missed, WasCalled, Frontier, Matches, Current
  <2>3. TableType' /\ IdsInv' /\ CalledOnce'
    <3>1. at' \in Nat
      BY <1>1, <2>1
    <3>2. TableType'
      BY <2>1, <3>1, Zenon DEF TableInv, TableType
    <3> QED
      BY <2>1, <3>2, Zenon DEF TableInv, IdsInv, CalledOnce
  <2>4. at > 0
    BY <2>1, Zenon DEF TableInv, TableType
  <2>5. LoopInv'
    BY <2>1, <2>2, <2>4, Zenon DEF TableInv, LoopInv, WasCalled
  <2> QED
    BY <2>3, <2>5, Zenon DEF TableInv
<1>3. CASE NextEntry /\ ~Matches(subs[at])
  <2>1. /\ at \in 1 .. Len(subs) /\ running = FALSE /\ at' = at + 1
        /\ UNCHANGED <<batch, subs, running, cut, calls, present, called, removed>>
    BY <1>1, <1>3, Zenon DEF NextEntry, vars, TableInv, TableType
  <2>2. Frontier = at /\ Frontier' = at + 1
    BY <2>1, Zenon DEF Frontier
  <2>3. Missed' = Missed
    <3>1. ASSUME NEW n
          PROVE  (\E i \in 1 .. Len(subs) :
                    i < at + 1 /\ subs[i].id = n /\ Matches(subs[i]))
                 <=> (\E i \in 1 .. Len(subs) :
                    i < at /\ subs[i].id = n /\ Matches(subs[i]))
      <4>1. \A i \in 1 .. Len(subs) : i < at + 1 <=> i < at \/ i = at
        BY <1>1
      <4> QED
        BY <1>3, <4>1, Zenon
    <3> QED
      BY <2>1, <2>2, <3>1, Zenon DEF Missed, WasCalled, Matches, Current
  <2>4. TableType' /\ IdsInv' /\ CalledOnce'
    <3>1. at' \in Nat
      BY <1>1, <2>1
    <3>2. TableType'
      BY <2>1, <3>1, Zenon DEF TableInv, TableType
    <3> QED
      BY <2>1, <3>2, Zenon DEF TableInv, IdsInv, CalledOnce
  <2>5. at > 0 /\ \A i \in 1 .. Len(subs) : i >= at + 1 => i >= at
    BY <1>1, <2>1
  <2>6. LoopInv'
    BY <2>1, <2>2, <2>3, <2>5, Zenon DEF TableInv, LoopInv, WasCalled
  <2> QED
    BY <2>4, <2>6, Zenon DEF TableInv
<1>4. CASE NextEntry /\ Matches(subs[at])
  <2>1. /\ at \in 1 .. Len(subs) /\ running = FALSE /\ running' = TRUE /\ at' = at
        /\ called' = Append(called, subs[at].id)
        /\ UNCHANGED <<batch, subs, cut, calls, present, removed>>
    BY <1>1, <1>4, Zenon DEF NextEntry, vars, TableInv, TableType
  <2>2. Frontier = at /\ Frontier' = at + 1 /\ at > 0
    BY <1>1, <2>1 DEF Frontier
  <2>3. /\ called' \in Seq(Nat) /\ Len(called') = Len(called) + 1
        /\ \A k \in 1 .. Len(called) : called'[k] = called[k]
        /\ called'[Len(called) + 1] = subs[at].id
    BY <1>1, <2>1, AppendProperties
  <2>4. \A k \in 1 .. Len(called') : k \in 1 .. Len(called) \/ k = Len(called) + 1
    BY <1>1, <2>3
  <2>5. 1 .. Len(called) \subseteq 1 .. Len(called') /\ Len(called) + 1 \in 1 .. Len(called')
    BY <1>1, <2>3
  <2>6. \A n : WasCalled(n)' <=> WasCalled(n) \/ n = subs[at].id
    BY <2>3, <2>4, <2>5, Zenon DEF WasCalled
  <2>7. ~WasCalled(subs[at].id)
    BY <1>1, <2>1, <2>2, SMTT(30) DEF TableInv, LoopInv
  <2>8. TableType'
    BY <2>1, <2>2, <2>3, Zenon DEF TableInv, TableType
  <2>9. IdsInv'
    <3>1. ASSUME NEW k \in 1 .. Len(called') PROVE called'[k] < calls
      <4>1. CASE k \in 1 .. Len(called)
        BY <2>3, <4>1, Zenon DEF TableInv, IdsInv
      <4>2. CASE k = Len(called) + 1
        BY <2>1, <2>3, <4>2, Zenon DEF TableInv, IdsInv
      <4> QED
        BY <2>4, <4>1, <4>2, Zenon
    <3> QED
      BY <2>1, <3>1, Zenon DEF TableInv, IdsInv
  <2>10. CalledOnce'
    <3>1. ASSUME NEW k \in 1 .. Len(called'), NEW m \in 1 .. Len(called'),
                 called'[k] = called'[m]
          PROVE  k = m
      <4>1. CASE k \in 1 .. Len(called) /\ m \in 1 .. Len(called)
        BY <2>3, <3>1, <4>1, Zenon DEF TableInv, CalledOnce
      <4>2. CASE k \in 1 .. Len(called) /\ m = Len(called) + 1
        BY <2>3, <2>7, <3>1, <4>2, Zenon DEF WasCalled
      <4>3. CASE k = Len(called) + 1 /\ m \in 1 .. Len(called)
        BY <2>3, <2>7, <3>1, <4>3, Zenon DEF WasCalled
      <4> QED
        BY <2>4, <4>1, <4>2, <4>3, Zenon
    <3> QED
      BY <3>1, Zenon DEF CalledOnce
  <2>11. Missed' = Missed
    <3>1. ASSUME NEW n
          PROVE  (/\ ~(WasCalled(n) \/ n = subs[at].id)
                  /\ \E i \in 1 .. Len(subs) :
                       i < at + 1 /\ subs[i].id = n /\ Matches(subs[i]))
                 <=> (/\ ~WasCalled(n)
                      /\ \E i \in 1 .. Len(subs) :
                           i < at /\ subs[i].id = n /\ Matches(subs[i]))
      <4>1. \A i \in 1 .. Len(subs) : i < at + 1 <=> i < at \/ i = at
        BY <1>1
      <4>2. \A i \in 1 .. Len(subs) : i < at => subs[i].id # subs[at].id
        BY <1>1, <2>1 DEF TableInv, IdsInv
      <4> QED
        BY <4>1, <4>2, Zenon
    <3>2. \A s : Matches(s)' <=> Matches(s)
      BY <2>1, Zenon DEF Matches, Current
    <3> QED
      BY <2>1, <2>2, <2>6, <3>1, <3>2 DEF Missed
  <2>12. LoopInv'
    <3>1. ASSUME NEW i \in 1 .. Len(subs), i >= at + 1
          PROVE  ~(WasCalled(subs[i].id) \/ subs[i].id = subs[at].id)
      <4>1. i >= at /\ i # at
        BY <1>1, <3>1
      <4> QED
        BY <2>1, <2>2, <4>1, Zenon DEF TableInv, LoopInv, IdsInv
    <3> QED
      BY <2>1, <2>2, <2>6, <2>11, <3>1, Zenon DEF TableInv, LoopInv
  <2> QED
    BY <2>8, <2>9, <2>10, <2>12, Zenon DEF TableInv
<1> QED
  BY <1>2, <1>3, <1>4, Zenon

\* A loop begins with no entry behind it, and ends.
LEMMA TableBegin ==
    ASSUME TableInv, EndLoop \/ \E f \in Frames : BeginLoop(f)
    PROVE  TableInv'
<1>1. /\ subs \in Seq(Entries) /\ Len(subs) \in Nat
      /\ \A i \in 1 .. Len(subs) : subs[i].id \in Nat /\ subs[i].id < calls
      /\ DOMAIN subs = 1 .. Len(subs)
  BY TableFacts, Zenon DEF TableInv, TableType, IdsInv
<1>2. CASE EndLoop
  <2>1. /\ at' = 0 /\ present' = {} /\ called' = <<>> /\ removed' = 0 /\ running = FALSE
        /\ UNCHANGED <<subs, running, cut, calls>>
    BY <1>2, Zenon DEF EndLoop, LoopOver, TableInv, TableType
  <2>2. called' \in Seq(Nat) /\ Len(called') = 0
    BY <2>1
  <2>3. TableType'
    BY <2>1, <2>2, Zenon DEF TableInv, TableType
  <2>4. IdsInv' /\ CalledOnce'
    BY <2>1, <2>2 DEF TableInv, IdsInv, CalledOnce
  <2>5. LoopInv'
    BY <2>1 DEF LoopInv
  <2> QED
    BY <2>3, <2>4, <2>5, Zenon DEF TableInv
<1>3. ASSUME NEW f \in Frames, BeginLoop(f) PROVE TableInv'
  <2>1. /\ at' = 1 /\ present' = Ids(subs) /\ called' = <<>> /\ removed' = 0
        /\ UNCHANGED <<subs, running, cut, calls>> /\ at = 0
    BY <1>3, Zenon DEF BeginLoop
  <2>2. running = FALSE
    BY <2>1 DEF TableInv, TableType
  <2>3. called' \in Seq(Nat) /\ Len(called') = 0
    BY <2>1
  <2>4. present' \subseteq Nat /\ \A n \in present' : n < calls
    BY <1>1, <2>1, Zenon DEF Ids
  <2>5. TableType'
    BY <2>1, <2>2, <2>3, <2>4, Zenon DEF TableInv, TableType
  <2>6. IdsInv' /\ CalledOnce'
    BY <2>1, <2>3, <2>4 DEF TableInv, IdsInv, CalledOnce
  <2>7. Frontier' = 1
    BY <2>1, <2>2, Zenon DEF Frontier
  <2>8. Missed' = {}
    <3>1. \A i \in 1 .. Len(subs') : ~(i < Frontier')
      BY <1>1, <2>1, <2>7
    <3> QED
      BY <3>1, Zenon DEF Missed
  <2>9. \A n : ~WasCalled(n)'
    BY <2>3 DEF WasCalled
  <2>10. LoopInv'
    BY <2>1, <2>8, <2>9, FS_EmptySet DEF LoopInv
  <2> QED
    BY <2>5, <2>6, <2>10, Zenon DEF TableInv
<1> QED
  BY <1>2, <1>3, Zenon

\* Every step of the consumer's thread, the application and the peer preserves the
\* invariant of the table.
LEMMA TableStep == TableInv /\ [DispatchNext]_dispatchVars => TableInv'
<1> SUFFICES ASSUME TableInv, [DispatchNext]_dispatchVars PROVE TableInv'
  BY Zenon
<1>1. CASE (Arrive \/ PeerCloses) /\ UNCHANGED tableVars
  BY <1>1, TableFrame, Zenon DEF Arrive, PeerCloses
<1>2. CASE at = 0 /\ UNCHANGED tableVars
  BY <1>2, TableFrame, Zenon
<1>3. CASE UNCHANGED dispatchVars
  BY <1>3, TableFrame, Zenon DEF dispatchVars, vars
<1>4. ASSUME NEW p \in Patterns, qdp_subscribe(p) PROVE TableInv'
  BY <1>4, TableSubscribe, Zenon
<1>5. CASE Unsubscribing \/ \E p \in Patterns : qdp_unsubscribe(p)
  BY <1>5, TableUnsubscribe, Zenon
<1>6. CASE NextEntry \/ CallbackReturns
  BY <1>6, TableLoop, Zenon
<1>7. CASE EndLoop \/ \E f \in Frames : BeginLoop(f)
  BY <1>7, TableBegin, Zenon
<1> QED
  BY <1>1, <1>2, <1>3, <1>4, <1>5, <1>6, <1>7, Zenon DEF DispatchNext, Process

\* In every state the loop over the table has passed over no more entries than were
\* removed before its index.
THEOREM TableInvariant == DispatchSpec => []TableInv
BY TableInit, TableStep, PTL DEF DispatchSpec

\* Whatever the callbacks subscribe and unsubscribe while the loop of qdp_process stands
\* on their entry, no entry is called twice for one message, and at the end of the loop
\* no more matching entries were passed over than were removed at or before its index:
\* for any table, patterns and number of calls.
THEOREM FewPassedOver == DispatchSpec => []PassesOverOnlyForRemoved
<1>1. ASSUME TableInv PROVE PassesOverOnlyForRemoved
  <2>1. /\ Len(subs) \in Nat /\ at \in Nat /\ removed \in Nat
        /\ DOMAIN subs = 1 .. Len(subs) /\ DOMAIN called = 1 .. Len(called)
    BY <1>1, TableFacts, Zenon DEF TableInv, TableType
  <2>2. \A i, j \in DOMAIN called : called[i] = called[j] => i = j
    BY <1>1, <2>1, Zenon DEF TableInv, CalledOnce
  <2>3. ASSUME at > 0, LoopOver PROVE Cardinality(PassedOver) <= removed
    <3> DEFINE IdOf == [i \in PassedOver |-> subs[i].id]
    <3>1. \A i \in 1 .. Len(subs) : i < Frontier
      BY <2>1, <2>3 DEF LoopOver, Frontier
    <3>2. \A i \in PassedOver : subs[i].id \in Missed
      BY <2>1, <3>1, Zenon DEF PassedOver, Missed, WasCalled
    <3>3. \A i, j \in PassedOver : subs[i].id = subs[j].id => i = j
      BY <1>1, <2>1, Zenon DEF PassedOver, TableInv, IdsInv
    <3>4. IdOf \in Injection(PassedOver, Missed)
      BY <3>2, <3>3, Zenon DEF Injection, IsInjective
    <3>5. IsFiniteSet(Missed) /\ Cardinality(Missed) <= removed
      BY <1>1, <2>3, Zenon DEF TableInv, LoopInv
    <3> HIDE DEF IdOf
    <3>6. IsFiniteSet(PassedOver) /\ Cardinality(PassedOver) <= Cardinality(Missed)
      BY <3>4, <3>5, FS_Injection, Zenon
    <3>7. Cardinality(PassedOver) \in Nat /\ Cardinality(Missed) \in Nat
      BY <3>5, <3>6, FS_CardinalityType, Zenon
    <3> QED
      BY <2>1, <3>5, <3>6, <3>7
  <2> QED
    BY <2>2, <2>3, Zenon DEF PassesOverOnlyForRemoved
<1> QED
  BY <1>1, TableInvariant, PTL
=============================================================================
