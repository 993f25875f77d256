---------------------------- MODULE ChunkedWriter ----------------------------
(***************************************************************************)
(* WriteMessage of the FTDI transport (src/lib/go/transport_ftdi.go): the  *)
(* frame is written to the USB OUT endpoint in chunks; if one fails, the   *)
(* transport reconnects and writes the whole frame again, once.            *)
(*                                                                         *)
(* A byte of a frame is the number of the message and its place in the     *)
(* frame.  A transfer that fails may have passed on part of its chunk, or  *)
(* all of it.  Only the broker's main thread writes.                       *)
(***************************************************************************)
EXTENDS Integers, Sequences, FiniteSets

CONSTANTS
    ChunkSize,  \* ftdiMaxDataSize: 62
    FrameSizes, \* the sizes of encoded frames
    MaxMsgs     \* bound: calls of WriteMessage

ASSUME WriterSizes ==
    /\ ChunkSize \in Nat \ {0} /\ FrameSizes \subseteq Nat \ {0} /\ MaxMsgs \in Nat

VARIABLES
    msg,     \* how many messages WriteMessage has been called with
    len,     \* len(encoded) of the last one
    off,     \* how much of it writeChunked has passed on
    state,   \* "idle", "first" or "second" call of writeChunked, "reconnect"
    wire,    \* what the device has been given
    failed,  \* history: how many transfers failed for this message
    sentOk   \* history: the messages for which WriteMessage returned nil

writerVars == <<msg, len, off, state, wire, failed, sentOk>>

WriterInit ==
    /\ msg = 0 /\ len = 0 /\ off = 0 /\ state = "idle"
    /\ wire = <<>> /\ failed = 0 /\ sentOk = <<>>

WriteMessage(n) ==
    /\ state = "idle" /\ msg < MaxMsgs
    /\ msg' = msg + 1 /\ len' = n /\ off' = 0
    /\ state' = "first" /\ failed' = 0
    /\ UNCHANGED <<wire, sentOk>>

\* Byte number j of the frame of message m.
Byte(m, j) == <<m, j>>

Bytes == Nat \X Nat

\* Bytes lo + 1 to hi of the frame being written.
Part(lo, hi) == [i \in 1 .. hi - lo |-> Byte(msg, lo + i)]

\* Where the next chunk ends.
ChunkEnd == IF len - off < ChunkSize THEN len ELSE off + ChunkSize

\* mutant: the frame is written again although no transfer has failed
WriteChunkTwice ==
    /\ state \in {"first", "second"}
    /\ wire' = wire \o Part(off, ChunkEnd)
    /\ off' = ChunkEnd
    /\ CASE ChunkEnd < len -> UNCHANGED <<state, sentOk>>
         [] ChunkEnd = len /\ state = "first" -> state' = "reconnect" /\ UNCHANGED sentOk
         [] OTHER -> state' = "idle" /\ sentOk' = Append(sentOk, msg)
    /\ UNCHANGED <<msg, len, failed>>

\* One round of the loop of writeChunked; after the last one WriteMessage returns nil.
WriteChunk ==
    /\ state \in {"first", "second"}
    /\ wire' = wire \o Part(off, ChunkEnd)
    /\ off' = ChunkEnd
    /\ IF ChunkEnd = len THEN state' = "idle" /\ sentOk' = Append(sentOk, msg)
       ELSE UNCHANGED <<state, sentOk>>
    /\ UNCHANGED <<msg, len, failed>>

\* The transfer fails after passing on the bytes up to e.
ChunkFails(e) ==
    /\ state \in {"first", "second"}
    /\ wire' = wire \o Part(off, e)
    /\ failed' = failed + 1
    /\ state' = IF state = "first" THEN "reconnect" ELSE "idle"
    /\ UNCHANGED <<msg, len, off, sentOk>>

\* mutant: writing goes on where it stopped
RetryRest ==
    /\ state = "reconnect"
    /\ state' = "second"
    /\ UNCHANGED <<msg, len, off, wire, failed, sentOk>>

\* tryReconnect succeeds, and the whole frame is written to the new connection.
Retry ==
    /\ state = "reconnect"
    /\ off' = 0 /\ state' = "second"
    /\ UNCHANGED <<msg, len, wire, failed, sentOk>>

\* tryReconnect fails, and so does WriteMessage.
GiveUp ==
    /\ state = "reconnect"
    /\ state' = "idle"
    /\ UNCHANGED <<msg, len, off, wire, failed, sentOk>>

WriterNext ==
    \/ \E n \in FrameSizes : WriteMessage(n)
    \/ WriteChunk
    \/ \E e \in off .. ChunkEnd : ChunkFails(e)
    \/ Retry
    \/ GiveUp

-----------------------------------------------------------------------------
Succeeded == state = "idle" /\ sentOk # <<>> /\ sentOk[Len(sentOk)] = msg

\* When WriteMessage returns nil, the last bytes on the wire are the whole frame,
\* whatever a failed attempt left before them.
SuccessEndsWithFrame ==
    Succeeded =>
      /\ len <= Len(wire)
      /\ \A j \in 1 .. len : wire[Len(wire) - len + j] = Byte(msg, j)

\* The retry makes delivery at least once: the device gets a whole frame at most once
\* more than transfers of it failed, and not at all from a call that fails twice
\* unless one of those transfers had passed on its end.
CopiesNeedFailures ==
    Cardinality({i \in DOMAIN wire : wire[i] = Byte(msg, len)})
      <= failed + (IF Succeeded THEN 1 ELSE 0)

FirstByte(c) == c[2] = 1

Precedes(b, c) == b = Byte(c[1], c[2] - 1)

\* What the device is given is made of beginnings of frames: inside a frame no byte
\* is left out, repeated or put in from another attempt or message.
WireIsPrefixes ==
    \A i \in 1 .. Len(wire) : FirstByte(wire[i]) \/ (i > 1 /\ Precedes(wire[i - 1], wire[i]))

\* What a device gets from any sequence of writes, retries and failures.
WireCorrect == WireIsPrefixes /\ SuccessEndsWithFrame
=============================================================================
