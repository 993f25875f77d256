-------------------------------- MODULE Codec --------------------------------
(***************************************************************************)
(* Frames as bytes: Encode, Decode and calculateCRC32 of src/lib/go/qdp.go,*)
(* qdp_publish_bytes, qdp_message_read and qdp_calc_crc32 of               *)
(* src/lib/c/qdp.c, and a line between them that damages some bits.        *)
(*                                                                         *)
(* A byte or a word is the set of its bits that are 1, bit 0 the lowest:   *)
(* exclusive or is the symmetric difference, and a uint32 keeps its width. *)
(***************************************************************************)
EXTENDS Integers, Sequences

CONSTANTS
    ByteValues,            \* the bytes that topics and payloads are made of
    QDP_MAX_TOPIC_LENGTH,  \* 256
    QDP_MAX_PAYLOAD_SIZE,  \* 512
    MaxText,               \* bound: length of a topic
    MaxData,               \* bound: length of a payload
    DamagedBytes,          \* bound: the bytes of messages whose frames are damaged
    MaxBurst               \* bound: bits from the first to the last of a burst

ASSUME CodecAssumption ==
    /\ DamagedBytes \subseteq ByteValues /\ ByteValues \subseteq SUBSET (0 .. 7)
    /\ {QDP_MAX_TOPIC_LENGTH, QDP_MAX_PAYLOAD_SIZE} \subseteq Nat
    /\ {MaxText, MaxData, MaxBurst} \subseteq Nat
    /\ 12 + MaxText + MaxData < 65536 \* the length of a frame fits in 16 bits

VARIABLES
    msgTopic, msgPayload,  \* a message
    received,              \* its frame, as the line delivers it
    damaged                \* the line has inverted some bits of the frame

codecVars == <<msgTopic, msgPayload, received, damaged>>

-----------------------------------------------------------------------------
(***************************************************************************)
(* calculateCRC32 and its table.                                           *)
(***************************************************************************)
Xor(a, b) == (a \ b) \cup (b \ a)

Shr(w, k) == {i - k : i \in {j \in w : j >= k}}

Ones == 0 .. 31

\* mutant: only the highest term
polynomialHighest == {31}

\* 0xEDB88320
polynomial == {5, 8, 9, 15, 19, 20, 21, 23, 24, 26, 27, 29, 30, 31}

\* One round of the inner loop that fills the table.
ShiftOut(crc) == IF 0 \in crc THEN Xor(Shr(crc, 1), polynomial) ELSE Shr(crc, 1)

crc32Table ==
    [i \in SUBSET (0 .. 7) |->
       LET crc[j \in 0 .. 8] == IF j = 0 THEN i ELSE ShiftOut(crc[j - 1]) IN crc[8]]

\* mutant: one bit too few is shifted out
NextCRCShort(crc, b) == Xor(Shr(crc, 7), crc32Table[Xor(crc \cap 0 .. 7, b)])

NextCRC(crc, b) == Xor(Shr(crc, 8), crc32Table[Xor(crc \cap 0 .. 7, b)])

calculateCRC32(data) ==
    LET crc[n \in 0 .. Len(data)] == IF n = 0 THEN Ones ELSE NextCRC(crc[n - 1], data[n])
    IN Xor(crc[Len(data)], Ones)

-----------------------------------------------------------------------------
(***************************************************************************)
(* Encode and Decode.                                                      *)
(***************************************************************************)
Word(n) ==
    LET rest[i \in 0 .. 31] == IF i = 0 THEN n ELSE rest[i - 1] \div 2
    IN {i \in 0 .. 31 : rest[i] % 2 = 1}

PutUint32(w) == [k \in 1 .. 4 |-> {i \in 0 .. 7 : i + 8 * (k - 1) \in w}]

Uint32(data, from) ==
    {i \in Ones : (i % 8) \in data[from + (i \div 8)]}

ErrInvalidMessage == <<"ErrInvalidMessage">>
ErrCRCMismatch == <<"ErrCRCMismatch">>
Ok(value) == <<"ok", value>>

Encode(t, p) ==
    LET body == PutUint32(Word(Len(t))) \o PutUint32(Word(Len(p))) \o t \o p
    IN IF t = <<>> THEN ErrInvalidMessage ELSE Ok(body \o PutUint32(calculateCRC32(body)))

\* The two halves of a word as numbers.
LowHalf(w) ==
    LET value[k \in 0 .. 16] ==
          IF k = 0 THEN 0 ELSE 2 * value[k - 1] + (IF 16 - k \in w THEN 1 ELSE 0)
    IN value[16]

HighHalf(w) == LowHalf(Shr(w, 16))

\* mutant: the checksum is not counted
TotalLenIsBody(topicLen, payloadLen, n) ==
    LowHalf(topicLen) + LowHalf(payloadLen) + 8 = n

\* 8 + topicLen + payloadLen + 4 = n, for uint32 operands.
TotalLenIs(topicLen, payloadLen, n) ==
    LET low == 12 + LowHalf(topicLen) + LowHalf(payloadLen)
        high == HighHalf(topicLen) + HighHalf(payloadLen) + (low \div 65536)
    IN low % 65536 = n /\ high % 65536 = 0

\* Where the sum of the lengths wraps around, the last line of the code would slice
\* past the data; DamageDetected shows that the checksum keeps damaged frames from it.
Decode(data) ==
    LET n == Len(data)
        topicLen == Uint32(data, 1)
        payloadLen == Uint32(data, 5)
        end == 8 + LowHalf(topicLen)
    IN IF n < 12 THEN ErrInvalidMessage
       ELSE IF ~TotalLenIs(topicLen, payloadLen, n) THEN ErrInvalidMessage
       ELSE IF Uint32(data, n - 3) # calculateCRC32(SubSeq(data, 1, n - 4))
            THEN ErrCRCMismatch
       ELSE Ok(<<SubSeq(data, 9, end), SubSeq(data, end + 1, n - 4)>>)

-----------------------------------------------------------------------------
(***************************************************************************)
(* The C library.                                                          *)
(***************************************************************************)
qdp_crc32_init(crc) == Xor(Shr(crc, 1), IF 0 \in crc THEN polynomial ELSE {})

qdp_crc32_table ==
    [i \in SUBSET (0 .. 7) |->
       LET crc[j \in 0 .. 8] == IF j = 0 THEN i ELSE qdp_crc32_init(crc[j - 1]) IN crc[8]]

NextC(crc, b) == Xor(Shr(crc, 8), qdp_crc32_table[Xor(crc, b) \cap 0 .. 7])

qdp_calc_crc32(data) ==
    LET crc[n \in 0 .. Len(data)] == IF n = 0 THEN Ones ELSE NextC(crc[n - 1], data[n])
    IN Xor(crc[Len(data)], Ones)

qdp_message_write(t, p) ==
    LET body == PutUint32(Word(Len(t))) \o PutUint32(Word(Len(p))) \o t \o p
    IN body \o PutUint32(qdp_calc_crc32(body))

Failed == <<"failed">>

\* The buffer has room for every message within the limits.
qdp_publish_bytes(t, p) ==
    IF Len(p) > QDP_MAX_PAYLOAD_SIZE THEN Failed ELSE Ok(qdp_message_write(t, p))

AtMost(w, limit) == HighHalf(w) = 0 /\ LowHalf(w) <= limit

\* For a buffer that holds data, read from its start.
qdp_message_read(data) ==
    LET topic_len == Uint32(data, 1)
        payload_len == Uint32(data, 5)
        end == 8 + LowHalf(topic_len)
        crcAt == end + LowHalf(payload_len)
    IN IF Len(data) < 8 THEN Failed
       ELSE IF ~(/\ AtMost(topic_len, QDP_MAX_TOPIC_LENGTH)
                 /\ AtMost(payload_len, QDP_MAX_PAYLOAD_SIZE)) THEN Failed
       ELSE IF Len(data) < crcAt + 4 THEN Failed
       ELSE IF Uint32(data, crcAt + 1) # qdp_calc_crc32(SubSeq(data, 1, crcAt)) THEN Failed
       ELSE Ok(<<SubSeq(data, 9, end), SubSeq(data, end + 1, crcAt)>>)

-----------------------------------------------------------------------------
(***************************************************************************)
(* Messages, and the damage a frame may take on the line.                  *)
(***************************************************************************)
CodecInit == msgTopic = <<>> /\ msgPayload = <<>> /\ received = <<>> /\ damaged = FALSE

\* A message is made up, and then its frame sent.
Compose ==
    /\ received = <<>>
    /\ \E b \in ByteValues :
         \/ /\ Len(msgTopic) < MaxText /\ msgTopic' = Append(msgTopic, b)
            /\ UNCHANGED msgPayload
         \/ /\ Len(msgPayload) < MaxData /\ msgPayload' = Append(msgPayload, b)
            /\ UNCHANGED msgTopic
    /\ UNCHANGED <<received, damaged>>

\* Topics in C are strings, which hold no zero byte, that fit their array.
IsCString(t) == Len(t) < QDP_MAX_TOPIC_LENGTH /\ \A i \in DOMAIN t : t[i] # {}

CFrame(t, p) == IF IsCString(t) THEN qdp_publish_bytes(t, p) ELSE Failed

\* The Go library or the C library sends the message.
Transmit ==
    /\ received = <<>>
    /\ \E frame \in {Encode(msgTopic, msgPayload), CFrame(msgTopic, msgPayload)} :
         frame[1] = "ok" /\ received' = frame[2]
    /\ UNCHANGED <<msgTopic, msgPayload, damaged>>

\* The line inverts two bits anywhere (or one), or every bit of a burst.  (The checksum
\* is linear: which damage it shows depends on the lengths, not on the other contents.)
Inverted(data, bits) ==
    [k \in DOMAIN data |-> Xor(data[k], {i \in 0 .. 7 : 8 * (k - 1) + i \in bits})]

Damage ==
    /\ received # <<>> /\ ~damaged
    /\ msgTopic \o msgPayload \in Seq(DamagedBytes)
    /\ \E i \in 0 .. 8 * Len(received) - 1 : \E j \in i .. 8 * Len(received) - 1 :
         \/ received' = Inverted(received, {i, j})
         \/ j - i < MaxBurst /\ received' = Inverted(received, i .. j)
    /\ damaged' = TRUE
    /\ UNCHANGED <<msgTopic, msgPayload>>

CodecNext == Compose \/ Transmit \/ Damage

CodecSpec == CodecInit /\ [][CodecNext]_codecVars

-----------------------------------------------------------------------------
\* What the checksum is meant to be: the remainder of a division by the polynomial,
\* bit by bit and without a table.
Remainder(data) ==
    LET rest[k \in 0 .. 8 * Len(data)] ==
          IF k = 0 THEN Ones
          ELSE LET bit == {0} \cap {i - ((k - 1) % 8) : i \in data[1 + ((k - 1) \div 8)]}
               IN ShiftOut(Xor(rest[k - 1], bit))
    IN Xor(rest[8 * Len(data)], Ones)

\* The table gives the same checksum as the division, on all data.
TableIsDivision ==
    received = <<>> =>
      calculateCRC32(msgTopic \o msgPayload) = Remainder(msgTopic \o msgPayload)

\* Either library reads every frame that either library writes, and gets back the
\* topic and the payload; the C library refuses those above its limits.
FramesRoundTrip ==
    received # <<>> /\ ~damaged =>
      LET message == Ok(<<msgTopic, msgPayload>>) IN
      /\ Decode(received) = message
      /\ qdp_message_read(received) =
           IF Len(msgTopic) <= QDP_MAX_TOPIC_LENGTH /\ Len(msgPayload) <= QDP_MAX_PAYLOAD_SIZE
           THEN message ELSE Failed

\* A frame with one or two wrong bits, or a burst of wrong bits that is not longer
\* than the checksum, is never accepted by either library: not where the damaged
\* lengths still add up to the right total, nor where they make C look for a shorter
\* frame.
DamageDetected ==
    damaged => /\ Decode(received) \in {ErrInvalidMessage, ErrCRCMismatch}
               /\ qdp_message_read(received) = Failed
=============================================================================
