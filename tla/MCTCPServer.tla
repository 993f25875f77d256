----------------------------- MODULE MCTCPServer ----------------------------
(***************************************************************************)
(* Instances of TCPServer for TLC.  The clients are interchangeable in the *)
(* safety run, where every load treats them alike.                         *)
(***************************************************************************)
EXTENDS TCPServer, TLC

CONSTANTS c1, c2

TwoClients == {c1, c2}

ClientSymmetry == Permutations(Clients)

Load(senders, sends, writes, halfClose) ==
    [senders |-> senders, sends |-> sends, writes |-> writes, halfClose |-> halfClose]

\* Two clients that send at once; the owner that writes, to clients that do not send.
SafetyLoads == {Load(Clients, 2, 0, TRUE), Load({}, 0, 1, TRUE)}

\* One client sends more than the other takes, which may shut down its sending side.
CloseLoads == {Load({c1}, 2, 0, TRUE)}
=============================================================================
