--------------------------- MODULE MCMessageReader ---------------------------
(***************************************************************************)
(* Instances of MessageReader for TLC.  One cell per word, a frame of at   *)
(* most 6 bytes (1100 in the code) and a buffer of 11 (2048): the buffer   *)
(* holds less than two of the largest frames, as in the code.              *)
(***************************************************************************)
EXTENDS MessageReader, Wire

Big == 9  \* a length above both limits

Ping == writeMessage(<<>>, <<>>, Big)
Zero == writeMessage(<<>>, <<>>, 0)        \* ends in a small checksum word
Data == writeMessage(<<1>>, <<0, 2>>, Big) \* the largest frame
Like == writeMessage(<<>>, <<0, 0>>, Big)  \* a payload that looks like a header
Over == writeMessage(<<1, 1>>, <<0>>, Big) \* exceeds maxTopicSize
Hiss == Noise(<<Big>>)
Fake == Noise(<<1, 2>>)                    \* noise that looks like a header

SafetyStreams ==
    {StreamOf(segs) : segs \in SeqOf({Ping, Zero, Data, Like, Over, Hiss, Fake}, 3)}

\* Two full frames after a short one.
BurstStreams == {StreamOf(<<Ping, Data, Data>>)}
=============================================================================
