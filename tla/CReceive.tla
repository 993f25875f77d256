------------------------------ MODULE CReceive ------------------------------
(***************************************************************************)
(* Receiving with the C library: qdp_process and qdp_message_read          *)
(* (src/lib/c/qdp.c) over tcp_recv (src/examples/client/tcp_transport.h),  *)
(* called in the loop of src/examples/client/consumer.c.  CDispatch adds   *)
(* the subscribers and has the specification of the whole.                 *)
(*                                                                         *)
(* A byte is its offset in the stream the peer sends, which is the frames  *)
(* one after the other.  The CRC is taken to tell frames from other bytes: *)
(* a read succeeds exactly on the bytes of one whole frame.                *)
(***************************************************************************)
EXTENDS Integers, Sequences

CONSTANTS
    Start,       \* where in the stream the frames begin, and where the last one ends
    HeaderSize,  \* of the two length fields (8)
    Capacity     \* QDP_MAX_BUFFER_CAPACITY

Frames == 1 .. Len(Start) - 1

\* The length of a frame, header and CRC included.
Length(f) == Start[f + 1] - Start[f]

ASSUME SizesAssumption == HeaderSize \in Nat \ {0} /\ Capacity \in Nat \ {0}

ASSUME StartAssumption ==
    /\ Start \in Seq(Nat) /\ Len(Start) > 0 /\ Start[1] = 0
    /\ \A f, g \in 1 .. Len(Start) : f < g => Start[f] + HeaderSize < Start[g]
    /\ \A f \in Frames : Length(f) <= Capacity

VARIABLES
    arrived,    \* bytes of the stream that have reached the socket
    closed,     \* the peer has closed the connection
    taken,      \* bytes that recv has returned
    data,       \* qdp->rx_data
    size,       \* qdp->rx.buffer.size
    position,   \* qdp->rx.buffer.position
    partial,    \* tcp->partial_buf, up to partial_size
    pc,         \* "loop" (consumer), "recv" and "read" (qdp_process), "stopped"
    batch,      \* frames dispatched by this call of qdp_process
    dispatched  \* history: the frames dispatched by any call

vars == <<arrived, closed, taken, data, size, position, partial, pc, batch, dispatched>>

NoByte == -1

StreamLen == Start[Len(Start)]

Init ==
    /\ arrived = 0 /\ closed = FALSE /\ taken = 0
    /\ data = [i \in 0 .. Capacity - 1 |-> NoByte]
    /\ size = 0 /\ position = 0 /\ partial = <<>>
    /\ pc = "loop" /\ batch = <<>>
    /\ dispatched = {}

\* The network and the peer.
Arrive ==
    /\ ~closed /\ arrived < StreamLen
    /\ \E n \in arrived + 1 .. StreamLen : arrived' = n
    /\ UNCHANGED <<closed, taken, data, size, position, partial, pc, batch, dispatched>>

PeerCloses ==
    /\ ~closed /\ arrived = StreamLen
    /\ closed' = TRUE
    /\ UNCHANGED <<arrived, taken, data, size, position, partial, pc, batch, dispatched>>

\* qdp_process: the stream is reset.
qdp_stream_begin_message ==
    /\ pc = "loop"
    /\ size' = 0 /\ position' = 0 /\ batch' = <<>>
    /\ pc' = "recv"
    /\ UNCHANGED <<arrived, closed, taken, data, partial, dispatched>>

-----------------------------------------------------------------------------
(***************************************************************************)
(* tcp_recv: the partial data is copied, then recv is called for the rest  *)
(* of the buffer.  recv returns some of the bytes that wait; 0 when it is  *)
(* asked for none of them, or at the end of the stream; EAGAIN otherwise.  *)
(***************************************************************************)
CopiedPartial ==
    [i \in DOMAIN data |-> IF i < Len(partial) THEN partial[i + 1] ELSE data[i]]

Waiting == arrived - taken

RoomForNul == Capacity - Len(partial) - 1 \* mutant: a byte is kept free

Room == Capacity - Len(partial)

\* The byte that recv writes to index i: it appends to the partial data.
Received(i) == taken + i - Len(partial)

\* What is kept for the next call: everything.
KeepNothing(buf, n) == <<>> \* mutant: partial data is dropped

KeepPartial(buf, n) == [i \in 1 .. n |-> buf[i - 1]]

tcp_recv_data ==
    /\ pc = "recv" /\ Waiting > 0 /\ Room > 0
    /\ \E n \in 1 .. Waiting :
         /\ n <= Room
         /\ size' = Len(partial) + n
         /\ data' = [i \in DOMAIN data |->
                       IF i \in Len(partial) .. size' - 1 THEN Received(i)
                       ELSE CopiedPartial[i]]
         /\ taken' = taken + n
         /\ partial' = KeepPartial(data', size')
    /\ pc' = "read"
    /\ UNCHANGED <<arrived, closed, position, batch, dispatched>>

tcp_recv_again ==
    /\ pc = "recv" /\ Waiting = 0 /\ ~closed
    /\ size' = Len(partial) /\ data' = CopiedPartial
    /\ pc' = IF size' = 0 THEN "loop" ELSE "read"
    /\ UNCHANGED <<arrived, closed, taken, position, partial, batch, dispatched>>

tcp_recv_closed ==
    /\ pc = "recv" /\ (IF Waiting = 0 THEN closed ELSE Room = 0)
    /\ size' = Len(partial) /\ data' = CopiedPartial
    /\ partial' = <<>>
    /\ pc' = "stopped"   \* qdp_process returns -1 and the consumer's loop ends
    /\ UNCHANGED <<arrived, closed, taken, position, batch, dispatched>>

-----------------------------------------------------------------------------
(***************************************************************************)
(* qdp_stream_next_message and qdp_message_read.                           *)
(***************************************************************************)
\* The bytes from position on are those of frame f.  They may lie beyond size.
\* mutant: the CRC is not verified
HoldsHeader(f) ==
    \A k \in 0 .. HeaderSize - 1 :
      position + k < Capacity /\ data[position + k] = Start[f] + k

HoldsFrame(f) ==
    \A k \in 0 .. Length(f) - 1 :
      position + k < Capacity /\ data[position + k] = Start[f] + k

\* The test for an incomplete message compares size with the length of the message,
\* wherever the message begins.
CompleteLater(f) == size > Length(f) \* mutant: off by one

Complete(f) == size >= Length(f)

CanRead(f) ==
    /\ position < size /\ position + HeaderSize <= size
    /\ Complete(f) /\ HoldsFrame(f)

\* A message is read and dispatched to its subscribers (CDispatch has their calls).
Dispatch(f) ==
    /\ pc = "read" /\ CanRead(f)
    /\ position' = position + Length(f)
    /\ batch' = Append(batch, f)
    /\ dispatched' = dispatched \cup {f}
    /\ UNCHANGED <<arrived, closed, taken, data, size, partial, pc>>

\* The first read that fails ends the loop, and qdp_process returns 0.
EndBatch ==
    /\ pc = "read" /\ \A f \in Frames : ~CanRead(f)
    /\ pc' = "loop"
    /\ UNCHANGED <<arrived, closed, taken, data, size, position, partial, batch, dispatched>>

\* The steps of qdp_process other than a dispatch.
Receiving ==
    \/ qdp_stream_begin_message
    \/ tcp_recv_data \/ tcp_recv_again \/ tcp_recv_closed
    \/ EndBatch

-----------------------------------------------------------------------------
(***************************************************************************)
(* Properties.                                                             *)
(***************************************************************************)
\* Each call of qdp_process dispatches the frames received so far from the first one
\* on, in order and without a gap, however recv cuts the stream.  (tcp_recv keeps
\* complete messages as partial data too, so later calls dispatch them again.)
BatchIsPrefix == \A i \in DOMAIN batch : batch[i] = i

\* Although the test for an incomplete message does not consider where the message
\* begins, and the bytes beyond size are old ones, no message is accepted that
\* reaches beyond the bytes received.
ReadsWithinReceived == position <= size

\* Every frame that has arrived is dispatched, as long as the buffer can hold all that
\* was sent up to its end.
EventuallyDispatched ==
    \A f \in Frames :
      Start[f + 1] <= Capacity => ((arrived >= Start[f + 1]) ~> (f \in dispatched))

\* qdp_process fails, and the consumer stops, only if the peer has closed the
\* connection or the data that tcp_recv keeps has filled the whole buffer.
StopsWhenClosedOrFull == pc = "stopped" => closed \/ taken = Capacity
=============================================================================
