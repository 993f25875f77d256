--------------------------- MODULE MessageReader ---------------------------
(***************************************************************************)
(* The buffered frame reader of the Go library: MessageReader in           *)
(* src/lib/go/qdp.go.  It turns the byte stream of a connection into       *)
(* messages and resynchronises by scanning forward when the bytes at hand  *)
(* are not a frame.                                                        *)
(*                                                                         *)
(* A frame is a topic length word, a payload length word, the topic, the   *)
(* payload and a checksum word.  Two abstractions of the data:             *)
(*                                                                         *)
(*   - a buffer cell holds the offset, in the stream, of the byte that was *)
(*     read into it.  What the bytes say is looked up in the stream:       *)
(*     stream.word[o] is the little-endian word that starts at offset o.   *)
(*   - the checksum is ideal: it verifies exactly on the offsets in        *)
(*     stream.intact, where a frame written by writeMessage starts that    *)
(*     the line did not damage.                                            *)
(*                                                                         *)
(* Every index computation of the code is kept.                            *)
(***************************************************************************)
EXTENDS Integers, Sequences, FiniteSets

CONSTANTS
    WordSize,        \* bytes of a uint32: 4
    maxTopicSize,    \* 64
    maxMessageSize,  \* 1024
    BufSize,         \* len(r.buffer): 2048
    Streams,         \* the byte streams the peer may send
    IdleReads        \* TRUE if Read may return no byte and no error (FTDI)

HeaderSize == 2 * WordSize

TotalLen(s, o) ==
    HeaderSize + s.word[o] + s.word[o + WordSize] + WordSize

(***************************************************************************)
(* A stream of s.len bytes.  Undamaged frames are complete and do not      *)
(* overlap: a writer puts one whole frame after another on the wire.       *)
(***************************************************************************)
IsStream(s) ==
    /\ s.len \in Nat
    /\ s.word \in [0 .. s.len - 1 -> Nat]
    /\ s.intact \subseteq 0 .. s.len - 1
    /\ \A f \in s.intact :
         /\ f + HeaderSize <= s.len
         /\ f + TotalLen(s, f) <= s.len
    /\ \A f, g \in s.intact : f < g => f + TotalLen(s, f) <= g

ASSUME WordSizeAssumption == WordSize \in Nat \ {0}

ASSUME LimitAssumption == maxTopicSize \in Nat /\ maxMessageSize \in Nat

ASSUME BufSizeAssumption == BufSize \in Nat /\ BufSize >= HeaderSize

ASSUME StreamsAssumption == \A s \in Streams : IsStream(s)

ASSUME IdleReadsAssumption == IdleReads \in BOOLEAN

VARIABLES
    stream,     \* what the peer sends
    arrived,    \* how many bytes of it have been read
    buffer,     \* r.buffer: the stream offset of the byte in each cell
    pos,        \* r.pos
    count,      \* r.count
    startPos,   \* the local startPos of ReadMessage
    pc,         \* where the current call is
    delivered,  \* history: the offsets of the frames returned so far
    staleScan   \* history: a shift moved the bytes under startPos

vars == <<stream, arrived, buffer, pos, count, startPos, pc, delivered, staleScan>>

Cells == 0 .. BufSize - 1

NoByte == -1

Init ==
    /\ stream \in Streams
    /\ arrived = 0
    /\ buffer = [i \in Cells |-> NoByte]
    /\ pos = 0
    /\ count = 0
    /\ startPos = 0
    /\ pc = "idle"
    /\ delivered = <<>>
    /\ staleScan = FALSE

-----------------------------------------------------------------------------
(***************************************************************************)
(* readMore, entered with r.pos = p: shift what is unread to the front     *)
(* when the buffer is more than half full, then read behind it.            *)
(***************************************************************************)
ShiftBy(p) == IF count > BufSize \div 2 THEN p ELSE 0

Room(p) == BufSize - (count - ShiftBy(p))

\* The outcomes of r.reader.Read on the free part of the buffer: some of the
\* bytes the peer sends, nothing (always so when that part is empty), or the
\* end of the stream.
Reads(p, n, err) ==
    \/ n \in 1 .. Room(p) /\ n <= stream.len - arrived /\ ~err
    \/ n = 0 /\ ~err /\ (IdleReads \/ Room(p) = 0)
    \/ n = 0 /\ err /\ Room(p) > 0 /\ arrived = stream.len

\* mutant: r.count is not lowered by the bytes that were shifted out
readMoreKeepsCount(p, n) ==
    LET kept == count - ShiftBy(p) IN
    /\ buffer' = [i \in Cells |->
                    IF i < kept THEN buffer[i + ShiftBy(p)]
                    ELSE IF i \in count .. count + n - 1 THEN arrived + (i - count)
                    ELSE buffer[i]]
    /\ pos' = p - ShiftBy(p)
    /\ count' = count + n
    /\ arrived' = arrived + n

readMore(p, n) ==
    LET kept == count - ShiftBy(p) IN
    /\ buffer' = [i \in Cells |->
                    IF i < kept THEN buffer[i + ShiftBy(p)]
                    ELSE IF i < kept + n THEN arrived + (i - kept)
                    ELSE buffer[i]]
    /\ pos' = p - ShiftBy(p)
    /\ count' = kept + n
    /\ arrived' = arrived + n

-----------------------------------------------------------------------------
(***************************************************************************)
(* ReadMessage.  pc = "header" is the top of the outer loop, pc = "scan"   *)
(* the top of the inner one; "msg" and "err" are its two ways to return.   *)
(***************************************************************************)
ReadMessage ==
    /\ pc = "idle"
    /\ pc' = "header"
    /\ UNCHANGED <<stream, arrived, buffer, pos, count, startPos, delivered, staleScan>>

EnsureHeader ==
    /\ pc = "header"
    /\ \/ /\ count - pos >= HeaderSize
          /\ pc' = "scan"
          /\ startPos' = pos
          /\ UNCHANGED <<arrived, buffer, pos, count>>
       \/ /\ count - pos < HeaderSize
          /\ \E n \in 0 .. BufSize, err \in BOOLEAN :
               /\ Reads(pos, n, err)
               /\ readMore(pos, n)
               /\ IF err /\ count' - pos' < HeaderSize
                  THEN pc' = "err" /\ UNCHANGED startPos
                  ELSE pc' = "scan" /\ startPos' = pos'
    /\ UNCHANGED <<stream, delivered, staleScan>>

WithinLimits(t, p) == t <= maxTopicSize /\ p <= maxMessageSize

InScan == pc = "scan" /\ startPos <= count - HeaderSize

\* The header at startPos, decoded from the bytes in the buffer.
topicLen == stream.word[buffer[startPos]]

payloadLen == stream.word[buffer[startPos + WordSize]]

totalLen == HeaderSize + topicLen + payloadLen + WordSize

Plausible == WithinLimits(topicLen, payloadLen)

Complete == startPos + totalLen <= count

\* The checksum verifies: the cells hold one undamaged frame, byte for byte.
tryParseMessage ==
    /\ buffer[startPos] \in stream.intact
    /\ \A i \in 0 .. totalLen - 1 : buffer[startPos + i] = buffer[startPos] + i

AcceptCandidate ==
    /\ InScan
    /\ Plausible /\ Complete /\ tryParseMessage
    /\ pos' = startPos + totalLen
    /\ delivered' = Append(delivered, buffer[startPos])
    /\ pc' = "msg"
    /\ UNCHANGED <<stream, arrived, buffer, count, startPos, staleScan>>

RejectCandidate ==
    /\ InScan
    /\ Plausible => (Complete /\ ~tryParseMessage)
    /\ startPos' = startPos + 1
    /\ UNCHANGED <<stream, arrived, buffer, pos, count, pc, delivered, staleScan>>

\* startPos keeps its value across the shift that readMore may do.
AwaitRest ==
    /\ InScan
    /\ Plausible /\ ~Complete
    /\ \E n \in 0 .. BufSize, err \in BOOLEAN :
         /\ Reads(pos, n, err)
         /\ readMore(pos, n)
         /\ pc' = IF err /\ startPos + totalLen > count' THEN "err" ELSE "scan"
    /\ staleScan' = (staleScan \/ ShiftBy(pos) > 0)
    /\ UNCHANGED <<stream, startPos, delivered>>

maxIntFirst(a, b) == a \* mutant: no lower bound

maxInt(a, b) == IF a > b THEN a ELSE b

\* mutants: a word too many is kept, nothing is kept
TailStartEarly == maxInt(count - HeaderSize - WordSize, 0)

TailStartLate == count

TailStart == maxInt(count - HeaderSize, 0)

\* Nothing found in the whole buffer: keep its last HeaderSize bytes.
KeepTail ==
    /\ pc = "scan"
    /\ startPos > count - HeaderSize
    /\ \E n \in 0 .. BufSize, err \in BOOLEAN :
         /\ Reads(TailStart, n, err)
         /\ readMore(TailStart, n)
         /\ pc' = IF err THEN "err" ELSE "header"
    /\ UNCHANGED <<stream, startPos, delivered, staleScan>>

\* The caller takes the result and calls again, after an error too
\* (the receive loop of DefaultProtocol.StartReceiving).
Return ==
    /\ pc \in {"msg", "err"}
    /\ pc' = "idle"
    /\ UNCHANGED <<stream, arrived, buffer, pos, count, startPos, delivered, staleScan>>

Scan == AcceptCandidate \/ RejectCandidate \/ AwaitRest \/ KeepTail

Next == ReadMessage \/ EnsureHeader \/ Scan \/ Return

Spec == Init /\ [][Next]_vars

-----------------------------------------------------------------------------
Delivered == {delivered[i] : i \in DOMAIN delivered}

\* The stream offset of buffer cell i.
OffsetOf(i) == arrived - count + i

\* The frames a reader with these limits can return at all.
Receivable ==
    {f \in stream.intact : WithinLimits(stream.word[f], stream.word[f + WordSize])}

\* The fields of the reader keep their types, and 0 <= r.pos <= r.count <=
\* len(r.buffer): no slice expression of ReadMessage or readMore is out of range.
TypeOK ==
    /\ IsStream(stream)
    /\ arrived \in 0 .. stream.len
    /\ buffer \in [Cells -> Nat \cup {NoByte}]
    /\ pos \in Nat /\ count \in Nat
    /\ pos <= count /\ count <= BufSize
    /\ startPos \in Nat
    /\ pc \in {"idle", "header", "scan", "msg", "err"}
    /\ delivered \in Seq(Nat)
    /\ staleScan \in BOOLEAN

\* The valid part of r.buffer is always one contiguous piece of the stream,
\* ending with the last byte read: shifting and reading in readMore lose,
\* repeat and reorder no byte.
BufferIsStreamWindow ==
    /\ count <= arrived
    /\ \A i \in Cells : i < count => buffer[i] = OffsetOf(i)

\* No frame is returned twice, and frames are returned in stream order without
\* overlap, although ReadMessage moves r.pos back over bytes of a message it
\* already returned when fewer than a header's bytes follow it (line 482).
DeliveredInOrder ==
    \A i, j \in DOMAIN delivered :
        i < j => delivered[i] + TotalLen(stream, delivered[i]) <= delivered[j]

\* Every receivable frame that lies before r.pos has been returned, unless a
\* shift has moved the bytes under the startPos of a scan.
NoFrameSkipped ==
    staleScan \/ \A f \in Receivable : f < OffsetOf(pos) => f \in Delivered

\* The same without the exception.
FramesNeverLost ==
    \A f \in Receivable : f < OffsetOf(pos) => f \in Delivered
=============================================================================
