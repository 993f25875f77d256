----------------------------- MODULE MCFunctions -----------------------------
(***************************************************************************)
(* The pure functions of the libraries, each on all of its small inputs:   *)
(* TopicMatch over patterns and topics of up to five characters, and Codec *)
(* over messages with topics of three and payloads of two bytes, with the  *)
(* damage to their frames.  The two have nothing in common, so each is     *)
(* explored while the other rests.                                         *)
(***************************************************************************)
EXTENDS TopicMatch, Codec

\* 0x00, 0x08, 0xA5 and 0xFF.
Bytes == {{}, {3}, {0, 2, 5, 7}, 0 .. 7}

OneByte == {{0, 2, 5, 7}}

FunctionsInit == Init /\ CodecInit

FunctionsNext ==
    \/ msgTopic \o msgPayload \o received = <<>> /\ Next /\ UNCHANGED codecVars
    \/ pattern \o topic = <<>> /\ CodecNext /\ UNCHANGED vars

FunctionsSpec == FunctionsInit /\ [][FunctionsNext]_<<vars, codecVars>>
=============================================================================
