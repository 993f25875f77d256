------------------------------ MODULE BaudRate ------------------------------
(***************************************************************************)
(* calculateFTDIBaudRateDivisor (src/lib/go/transport_ftdi.go).  The code  *)
(* computes with float64; the divisor is the quotient of two integers      *)
(* below 2^22 and is compared with multiples of 1/16, so the integers here *)
(* decide every comparison as the code does.                               *)
(***************************************************************************)
EXTENDS Integers

baseClock == 3000000

\* mutant: the sub-integer part is cut, not rounded
EighthsCut(rest, b) == (8 * rest) \div b

\* The case of the switch: how many eighths stand for the sub-integer part rest/b,
\* or 8 when the integer part is to be increased.
Eighths(rest, b) ==
    IF 16 * rest < b THEN 0
    ELSE IF 16 * rest < 3 * b THEN 1
    ELSE IF 16 * rest < 5 * b THEN 2
    ELSE IF 16 * rest < 7 * b THEN 3
    ELSE IF 16 * rest < 9 * b THEN 4
    ELSE IF 16 * rest < 11 * b THEN 5
    ELSE IF 16 * rest < 13 * b THEN 6
    ELSE IF 16 * rest < 15 * b THEN 7
    ELSE 8

Bit(n, w) == (n \div w) % 2

\* m | n for numbers below 2^3.
BitOr3(m, n) ==
    LET or(w) == IF Bit(m, w) = 1 \/ Bit(n, w) = 1 THEN w ELSE 0
    IN or(4) + or(2) + or(1)

\* (integerPart & 0x3FFF) | prescaler: 14 bits of the integer part, combined with the
\* eighths in bits 12 to 14.
Combine(integerPart, eighths) ==
    LET low == integerPart % 16384
    IN BitOr3(low \div 4096, eighths) * 4096 + (low % 4096)

finalDivisor(integerPart, eighths) ==
    IF eighths < 8 THEN Combine(integerPart, eighths) ELSE Combine(integerPart + 1, 0)

\* valueL and valueH, as they are passed to the device.
Split(d) == <<d % 256, (d \div 256) % 256>>

calculateFTDIBaudRateDivisor(b) ==
    Split(finalDivisor(baseClock \div b, Eighths(baseClock % b, b)))

-----------------------------------------------------------------------------
\* The divisor that two bytes stand for, in eighths, as the function lays it out:
\* bits 12 to 14 hold the eighths and the lower bits the integer part.
EighthsOf(v) ==
    LET d == v[2] * 256 + v[1] IN (d % 4096) * 8 + (d \div 4096)

\* No multiple of 1/8 is nearer to baseClock / b than the divisor v.
IsClosest(v, b) ==
    LET error == 16 * baseClock - 2 * EighthsOf(v) * b
    IN -b <= error /\ error <= b
=============================================================================
