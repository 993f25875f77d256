-------------------------------- MODULE Wire --------------------------------
(***************************************************************************)
(* What a writer puts on the wire: the frame of writeMessage               *)
(* (src/lib/go/qdp.go), and byte streams made of frames and of line noise. *)
(* A word (a length, the checksum) takes one cell here, so these streams   *)
(* are for instances with WordSize = 1.                                    *)
(***************************************************************************)
EXTENDS Integers, Sequences, SequencesExt

\* One segment of a stream: its bytes, and whether they are a frame that the
\* reader's checksum accepts.  crc is the value of the checksum word.
writeMessage(topic, payload, crc) ==
    [bytes |-> <<Len(topic), Len(payload)>> \o topic \o payload \o <<crc>>,
     intact |-> TRUE]

Noise(bytes) == [bytes |-> bytes, intact |-> FALSE]

\* The stream that sends the segments of the sequence segs one after the other.
StreamOf(segs) ==
    LET bytes == FoldLeft(LAMBDA acc, g : acc \o g.bytes, <<>>, segs)
        Start(k) == FoldLeft(LAMBDA acc, g : acc + Len(g.bytes), 0, SubSeq(segs, 1, k - 1))
    IN [len    |-> Len(bytes),
        word   |-> [o \in 0 .. Len(bytes) - 1 |-> bytes[o + 1]],
        intact |-> {Start(k) : k \in {i \in DOMAIN segs : segs[i].intact}}]
=============================================================================
