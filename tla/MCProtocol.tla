----------------------------- MODULE MCProtocol -----------------------------
(***************************************************************************)
(* Instances of Protocol for TLC: a text and two frames without a topic,   *)
(* more than the buffer holds; and a text after so much noise that it does *)
(* not fit behind it.  A channel of one message, and one subscription that *)
(* comes and goes and matches the text only.                               *)
(***************************************************************************)
EXTENDS Protocol, Wire

Big == 9  \* a length above both limits

Ping == writeMessage(<<>>, <<>>, Big)
Text == writeMessage(<<1>>, <<7, 8>>, Big)

PathStreams ==
    {StreamOf(<<Text, Ping, Ping>>),
     StreamOf(<<Noise(<<Big, Big, Big, Big, Big, Big>>), Text>>)}

\* The pattern "one" matches topics of length 1.
TextOnly == {<<"one", 1>>}
=============================================================================
