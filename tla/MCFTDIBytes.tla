----------------------------- MODULE MCFTDIBytes -----------------------------
(***************************************************************************)
(* Instances of FTDIBytes for TLC: packets of up to three data bytes,      *)
(* frames of less than one, exactly two and more than two chunks, common   *)
(* baud rates and the boundaries of the divisor.                           *)
(***************************************************************************)
EXTENDS FTDIBytes

\* The baud rate, the reader and the writer share no variable, and no property is
\* about two of them: it is enough to explore each while the others are at rest.
OneAtATime ==
    /\ (sent = 0 /\ ~ended) \/ msg = 0
    /\ (sent = 0 /\ msg = 0) \/ baud = 9600
=============================================================================
