--------------------------- MODULE EndpointReader ---------------------------
(***************************************************************************)
(* endpointReader (src/lib/go/transport_ftdi.go): the io.Reader that takes *)
(* packets from the USB IN endpoint, strips the two status bytes the FTDI  *)
(* chip puts before the data of each, and hands the data out in the        *)
(* portions its caller asks for.                                           *)
(*                                                                         *)
(* The device (external) makes a packet of any part of what the line has   *)
(* brought, also of nothing.  A data byte is its number in the stream.     *)
(***************************************************************************)
EXTENDS Integers, Sequences

CONSTANTS
    ftdiStatusSize,     \* 2
    ftdiMaxPacketSize,  \* 64
    MaxAsked,           \* the largest slice Read is called with
    MaxSent             \* bound: data bytes in a run

ASSUME ReaderSizes ==
    /\ ftdiStatusSize \in Nat /\ ftdiMaxPacketSize \in Nat
    /\ ftdiStatusSize < ftdiMaxPacketSize /\ MaxAsked \in Nat \ {0} /\ MaxSent \in Nat

ftdiMaxDataSize == ftdiMaxPacketSize - ftdiStatusSize

Status == 0  \* a status byte; data bytes are numbered from 1

VARIABLES
    sent,   \* how many data bytes the line has brought to the device
    taken,  \* how many of them it has put into packets
    buf,    \* r.buf
    pos,    \* r.pos
    size,   \* r.size
    ended,  \* Read has returned an error: the reader is given up
    got     \* history: what the calls of Read have returned

readerVars == <<sent, taken, buf, pos, size, ended, got>>

ReaderInit ==
    /\ sent = 0 /\ taken = 0
    /\ buf = [i \in 1 .. ftdiMaxPacketSize |-> Status]
    /\ pos = 0 /\ size = 0 /\ ended = FALSE /\ got = <<>>

\* More bytes arrive on the line.
Arrive(n) ==
    /\ sent' = sent + n
    /\ UNCHANGED <<taken, buf, pos, size, ended, got>>

\* The packet with the next k data bytes, in a buffer that held b.
Packet(b, k) ==
    [i \in 1 .. ftdiMaxPacketSize |->
        IF i <= ftdiStatusSize THEN Status
        ELSE IF i <= ftdiStatusSize + k THEN taken + i - ftdiStatusSize
        ELSE b[i]]

\* copy(p, r.buf[from:to]) for a slice p of n bytes, in a buffer b.
Least(m, n) == IF m < n THEN m ELSE n

Copy(b, from, to, n) == [i \in 1 .. Least(n, to - from) |-> b[from + i]]

\* Read(p) with len(p) = n while the last packet is not used up.
ReadBuffered(n) ==
    /\ ~ended /\ pos < size
    /\ got' = got \o Copy(buf, ftdiStatusSize + pos, ftdiStatusSize + size, n)
    /\ pos' = pos + Least(n, size - pos)
    /\ UNCHANGED <<sent, taken, buf, size, ended>>

\* mutant: what the caller's slice has no room for is not kept
ReadPacketDropping(n, k) ==
    /\ ~ended /\ pos >= size
    /\ k <= ftdiMaxDataSize /\ k <= sent - taken
    /\ buf' = Packet(buf, k)
    /\ taken' = taken + k
    /\ size' = Least(n, k)
    /\ pos' = Least(n, k)
    /\ got' = got \o Copy(buf', ftdiStatusSize, ftdiStatusSize + k, n)
    /\ UNCHANGED <<sent, ended>>

\* Read(p) when it is: the next packet has k data bytes.
ReadPacket(n, k) ==
    /\ ~ended /\ pos >= size
    /\ k <= ftdiMaxDataSize /\ k <= sent - taken
    /\ buf' = Packet(buf, k)
    /\ taken' = taken + k
    /\ size' = k
    /\ pos' = Least(n, k)
    /\ got' = got \o Copy(buf', ftdiStatusSize, ftdiStatusSize + k, n)
    /\ UNCHANGED <<sent, ended>>

\* ReadContext fails, or t.ctx is cancelled: the error ends the use of this reader.
ReadError ==
    /\ ~ended /\ pos >= size
    /\ ended' = TRUE
    /\ UNCHANGED <<sent, taken, buf, pos, size, got>>

ReaderStep ==
    \/ \E n \in 1 .. MaxAsked : ReadBuffered(n)
    \/ \E n \in 1 .. MaxAsked, k \in 0 .. ftdiMaxDataSize : ReadPacket(n, k)
    \/ ReadError

ReaderNext == ReaderStep \/ \E n \in 1 .. MaxSent - sent : Arrive(n)

ReaderSpec == ReaderInit /\ [][ReaderNext]_readerVars

-----------------------------------------------------------------------------
\* Read with an empty slice returns at once and changes nothing.  Otherwise the
\* reader is a source of the bytes on the line: status bytes never come through,
\* and no data byte is lost, repeated or moved, however packets and calls cut the
\* stream.
Source == INSTANCE ByteSource WITH sent <- sent, got <- got

IsByteSource == Source!Spec

\* What the caller has got, what the last packet still holds and what the device
\* has not yet sent make up the stream.
BytesInPlace ==
    /\ \A i \in DOMAIN got : got[i] = i
    /\ Len(got) + (size - pos) = taken
    /\ \A i \in 1 .. size - pos : buf[ftdiStatusSize + pos + i] = Len(got) + i
=============================================================================
