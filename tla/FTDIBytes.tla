------------------------------ MODULE FTDIBytes ------------------------------
(***************************************************************************)
(* The byte level of an FTDI connection: connect has programmed the baud   *)
(* rate, one goroutine reads through the endpointReader, and the main      *)
(* thread writes frames in chunks.  The two directions share nothing.      *)
(***************************************************************************)
EXTENDS EndpointReader, ChunkedWriter, BaudRate

CONSTANT Bauds  \* baud rates an entity may ask for

ASSUME BaudsAssumption == Bauds \subseteq 1 .. baseClock

VARIABLES
    baud,    \* t.config.BaudRate
    divisor  \* the bytes sent to the device with SET_BAUDRATE

vars == <<readerVars, writerVars, baud, divisor>>

Init ==
    /\ ReaderInit /\ WriterInit
    /\ baud \in Bauds
    /\ divisor = calculateFTDIBaudRateDivisor(baud)

Next ==
    \/ ReaderNext /\ UNCHANGED <<writerVars, baud, divisor>>
    \/ WriterNext /\ UNCHANGED <<readerVars, baud, divisor>>

Spec == Init /\ [][Next]_vars

-----------------------------------------------------------------------------
\* The device runs at the closest achievable rate, for every rate whose divisor is
\* below 4096: above that the integer part reaches into the bits of the eighths.
DivisorClosest == baseClock \div baud < 4095 => IsClosest(divisor, baud)
=============================================================================
