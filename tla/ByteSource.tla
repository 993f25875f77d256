----------------------------- MODULE ByteSource -----------------------------
(***************************************************************************)
(* What a MessageReader relies on: an io.Reader hands out the bytes that   *)
(* were sent to it, each once and in order.  A byte is its number in the   *)
(* stream, so `sent` counts the bytes sent so far.                         *)
(***************************************************************************)
EXTENDS Integers, Sequences

VARIABLES
    sent,  \* how many bytes have been sent
    got    \* what the calls of Read have returned, one after the other

Init == sent = 0 /\ got = <<>>

Send == sent' \in Nat /\ sent' >= sent /\ UNCHANGED got

\* The bytes from number lo to number hi.
Run(lo, hi) == [i \in 1 .. hi - lo + 1 |-> lo + i - 1]

Read ==
    /\ \E n \in 0 .. sent - Len(got) : got' = got \o Run(Len(got) + 1, Len(got) + n)
    /\ UNCHANGED sent

Spec == Init /\ [][Send \/ Read]_<<sent, got>>
=============================================================================
