------------------------------ MODULE TCPServer -----------------------------
(***************************************************************************)
(* TCPServerTransport (src/lib/go/transport_tcp.go): the accept loop, one  *)
(* reading goroutine per client that forwards every message to the other   *)
(* clients and to msgCh, WriteMessage of the owner, and Close.             *)
(*                                                                         *)
(* A message is <<sender, n>>.  What the server knows of the MessageReader *)
(* is that it returns the messages a peer sent, in order.  Writing a       *)
(* message is one conn.Write, which the runtime does not interleave with   *)
(* other writes; it blocks while the peer has Window messages unread.      *)
(***************************************************************************)
EXTENDS Integers, Sequences, FiniteSets

CONSTANTS
    Clients,    \* the connections that may be made
    Owner,      \* the goroutine that calls WriteMessage
    ChanCap,    \* capacity of msgCh (100)
    Window,     \* messages a peer's connection buffers before a write blocks
    Loads       \* bound: what peers and owner may do, as records of
                \*   senders   the peers that send
                \*   sends     messages they send in all
                \*   writes    calls of WriteMessage
                \*   halfClose peers may shut down one direction only

ASSUME ServerAssumption ==
    /\ Owner \notin Clients /\ IsFiniteSet(Clients)
    /\ ChanCap \in Nat \ {0} /\ Window \in Nat \ {0}
    /\ Loads \subseteq [senders : SUBSET Clients, sends : Nat, writes : Nat, halfClose : BOOLEAN]

Writers == Clients \cup {Owner}

VARIABLES
    \* the connections
    peer,       \* "away", "dialing", "up", "half" (sends no more), "gone"
    wire,       \* messages sent by the peer and not yet read
    sent,       \* how many messages the peer (or the owner) has sent
    inbox,      \* history: messages written to the connection
    unread,     \* how many of those the peer has not read
    open,       \* the server's end of the connection is open
    \* the server
    listening, ctxDone, clients, msgCh, disconnected, wg,
    acc,        \* where the accept loop is
    accConn,    \* the connection it has accepted
    pc,         \* where each writing goroutine is
    msg,        \* the message it forwards
    target,     \* the client it writes to
    must,       \* the clients in the map when its Range began
    seen,       \* the clients its Range has visited
    closing,    \* where Close is
    closeMust, closeSeen,
    received,   \* history: messages returned by ReadMessage
    reported,   \* history: calls of OnDisconnect
    load        \* the load of this behaviour

connVars == <<peer, wire, unread, sent, inbox, open>>
serverVars == <<listening, ctxDone, clients, msgCh, disconnected, wg>>
accVars == <<acc, accConn>>
writerVars == <<pc, msg, target, must, seen>>
closeVars == <<closing, closeMust, closeSeen>>
threadVars == <<accVars, writerVars, closeVars>>
histVars == <<received, reported, load>>
vars == <<connVars, serverVars, threadVars, histVars>>

NoMsg == <<Owner, 0>>

\* NewTCPServerTransport: the accept loop has been started.
Init ==
    /\ peer = [c \in Clients |-> "away"]
    /\ wire = [c \in Clients |-> <<>>]
    /\ sent = [w \in Writers |-> 0]
    /\ inbox = [c \in Clients |-> <<>>]
    /\ unread = [c \in Clients |-> 0]
    /\ open = [c \in Clients |-> FALSE]
    /\ listening = TRUE /\ ctxDone = FALSE /\ clients = {} /\ msgCh = <<>>
    /\ disconnected = FALSE /\ wg = 1
    /\ acc = "select" /\ accConn = Owner
    /\ pc = [w \in Writers |-> "none"]
    /\ msg = [w \in Writers |-> NoMsg]
    /\ target = [w \in Writers |-> Owner]
    /\ must = [w \in Writers |-> {}] /\ seen = [w \in Writers |-> {}]
    /\ closing = "no" /\ closeMust = {} /\ closeSeen = {}
    /\ received = <<>> /\ reported = 0 /\ load \in Loads

-----------------------------------------------------------------------------
(***************************************************************************)
(* The peers.                                                              *)
(***************************************************************************)
Dial(c) ==
    /\ peer[c] = "away" /\ listening
    /\ peer' = [peer EXCEPT ![c] = "dialing"]
    /\ UNCHANGED <<wire, unread, sent, inbox, open, serverVars, threadVars, histVars>>

AllSent == {m \in load.senders \X (1 .. load.sends) : m[2] <= sent[m[1]]}

PeerSends(c) ==
    /\ peer[c] = "up" /\ c \in load.senders /\ Cardinality(AllSent) < load.sends
    /\ sent' = [sent EXCEPT ![c] = @ + 1]
    /\ wire' = [wire EXCEPT ![c] = Append(@, <<c, sent[c] + 1>>)]
    /\ UNCHANGED <<peer, unread, inbox, open, serverVars, threadVars, histVars>>

PeerReads(c) ==
    /\ peer[c] \in {"up", "half"} /\ unread[c] > 0
    /\ unread' = [unread EXCEPT ![c] = @ - 1]
    /\ UNCHANGED <<peer, wire, sent, inbox, open, serverVars, threadVars, histVars>>

PeerLeaves(c) ==
    /\ peer[c] = "up"
    /\ \/ peer' = [peer EXCEPT ![c] = "gone"]
       \/ load.halfClose /\ peer' = [peer EXCEPT ![c] = "half"]
    /\ UNCHANGED <<wire, unread, sent, inbox, open, serverVars, threadVars, histVars>>

-----------------------------------------------------------------------------
(***************************************************************************)
(* acceptLoop.                                                             *)
(***************************************************************************)
AcceptSelect ==
    /\ acc = "select"
    /\ acc' = IF ctxDone THEN "report" ELSE "accept"
    /\ UNCHANGED <<connVars, serverVars, accConn, writerVars, closeVars, histVars>>

Accept(c) ==
    /\ acc = "accept" /\ listening /\ peer[c] = "dialing"
    /\ acc' = "store" /\ accConn' = c
    /\ peer' = [peer EXCEPT ![c] = "up"]
    /\ open' = [open EXCEPT ![c] = TRUE]
    /\ UNCHANGED <<wire, unread, sent, inbox, serverVars, writerVars, closeVars, histVars>>

\* Accept fails: the listener is closed, or the system has no descriptor left.
AcceptError ==
    /\ acc = "accept"
    /\ acc' = "report"
    /\ UNCHANGED <<connVars, serverVars, accConn, writerVars, closeVars, histVars>>

StoreClient ==
    /\ acc = "store"
    /\ acc' = "spawn"
    /\ clients' = clients \cup {accConn}
    /\ UNCHANGED <<connVars, listening, ctxDone, msgCh, disconnected, wg, accConn,
                   writerVars, closeVars, histVars>>

WgAdd == wg + 1

\* wg.Add(1) and the go statement.
Spawn ==
    /\ acc = "spawn"
    /\ acc' = "select" /\ accConn' = Owner
    /\ wg' = WgAdd
    /\ pc' = [pc EXCEPT ![accConn] = "select"]
    /\ UNCHANGED <<connVars, listening, ctxDone, clients, msgCh, disconnected, msg, target,
                   must, seen, closeVars, histVars>>

\* CompareAndSwap and OnDisconnect, by the accept loop and by Close.
SwapAndReport ==
    /\ disconnected' = TRUE
    /\ reported' = IF disconnected THEN reported ELSE reported + 1

AcceptReturns ==
    /\ acc = "report"
    /\ acc' = "done" /\ wg' = wg - 1
    /\ SwapAndReport
    /\ UNCHANGED <<connVars, listening, ctxDone, clients, msgCh, accConn, writerVars,
                   closeVars, received, load>>

-----------------------------------------------------------------------------
(***************************************************************************)
(* handleClientReads(c), and the broadcast it shares with WriteMessage.    *)
(***************************************************************************)
HandlerSelect(c) ==
    /\ pc[c] = "select"
    /\ pc' = [pc EXCEPT ![c] = IF ctxDone THEN "done" ELSE "read"]
    /\ wg' = IF ctxDone THEN wg - 1 ELSE wg
    /\ UNCHANGED <<connVars, listening, ctxDone, clients, msgCh, disconnected, accVars, msg,
                   target, must, seen, closeVars, histVars>>

\* clients.Range begins.  It visits a client at most once, visits every client
\* that stays in the map, and may visit one that is stored meanwhile.
StartRange(w, m) ==
    /\ pc' = [pc EXCEPT ![w] = "range"]
    /\ msg' = [msg EXCEPT ![w] = m]
    /\ must' = [must EXCEPT ![w] = clients]
    /\ seen' = [seen EXCEPT ![w] = {}]
    /\ UNCHANGED target

ConsumeNothing(q) == q \* mutant: the reader does not advance

\* What is left for the client's reader after it has returned a message.
Consume(q) == Tail(q)

ReadMessageOf(c) ==
    /\ pc[c] = "read" /\ open[c] /\ wire[c] # <<>>
    /\ wire' = [wire EXCEPT ![c] = Consume(@)]
    /\ StartRange(c, Head(wire[c]))
    /\ UNCHANGED <<peer, unread, sent, inbox, open, serverVars, accVars, closeVars,
                   histVars>>

ReadFails(c) ==
    /\ pc[c] = "read"
    /\ ~open[c] \/ peer[c] = "gone" \/ (peer[c] = "half" /\ wire[c] = <<>>)
    /\ clients' = clients \ {c}
    /\ pc' = [pc EXCEPT ![c] = "done"]
    /\ wg' = wg - 1
    /\ UNCHANGED <<connVars, listening, ctxDone, msgCh, disconnected, accVars, msg, target,
                   must, seen, closeVars, histVars>>

WriteMessage ==
    /\ pc[Owner] = "none" /\ sent[Owner] < load.writes
    /\ sent' = [sent EXCEPT ![Owner] = @ + 1]
    /\ StartRange(Owner, <<Owner, sent[Owner] + 1>>)
    /\ UNCHANGED <<peer, wire, unread, inbox, open, serverVars, accVars, closeVars,
                   histVars>>

\* A handler skips its own client.
AnyTargets(w) == clients \* mutant: the sender is not skipped

Targets(w) == clients \ {w}

Visit(w, c) ==
    /\ pc[w] = "range"
    /\ c \in Targets(w) \ seen[w]
    /\ seen' = [seen EXCEPT ![w] = @ \cup {c}]
    /\ target' = [target EXCEPT ![w] = c]
    /\ pc' = [pc EXCEPT ![w] = "write"]
    /\ UNCHANGED <<connVars, serverVars, accVars, msg, must, closeVars, histVars>>

\* The write blocks while neither Write nor WriteFails is possible.
Write(w) ==
    /\ pc[w] = "write"
    /\ LET c == target[w] IN
       /\ open[c] /\ unread[c] < Window
       /\ inbox' = [inbox EXCEPT ![c] = Append(@, msg[w])]
       /\ unread' = [unread EXCEPT ![c] = @ + 1]
    /\ pc' = [pc EXCEPT ![w] = "range"]
    /\ UNCHANGED <<peer, wire, sent, open, serverVars, accVars, msg, target, must, seen,
                   closeVars, histVars>>

CancelOnly(c) == open \* mutant: the connection is not closed

\* Close of a client transport (it has no connection handler).
CloseOf(c) == [open EXCEPT ![c] = FALSE]

\* After a failed write the client is deleted, and then closed.
WriteFails(w) ==
    /\ pc[w] = "write"
    /\ ~open[target[w]] \/ peer[target[w]] = "gone"
    /\ clients' = clients \ {target[w]}
    /\ pc' = [pc EXCEPT ![w] = "drop"]
    /\ UNCHANGED <<connVars, listening, ctxDone, msgCh, disconnected, wg, accVars, msg,
                   target, must, seen, closeVars, histVars>>

DropClient(w) ==
    /\ pc[w] = "drop"
    /\ open' = CloseOf(target[w])
    /\ pc' = [pc EXCEPT ![w] = "range"]
    /\ UNCHANGED <<peer, wire, unread, sent, inbox, serverVars, accVars, msg, target, must,
                   seen, closeVars, histVars>>

\* The locals of the iteration are dead after it, those of a handler's loop body
\* after the select on msgCh; dead locals are reset.
ForgetMessage(w) == msg' = [msg EXCEPT ![w] = NoMsg] /\ must' = [must EXCEPT ![w] = {}]

LeaveRange(w) ==
    /\ pc' = [pc EXCEPT ![w] = IF w = Owner THEN "return" ELSE "send"]
    /\ target' = [target EXCEPT ![w] = Owner] /\ seen' = [seen EXCEPT ![w] = {}]
    /\ UNCHANGED <<msg, must>>

\* mutant: the iteration stops after one client
RangeDoneAfterOne(w) == Targets(w) = {} \/ seen[w] # {}

RangeDone(w) == must[w] \cap Targets(w) \subseteq seen[w]

EndRange(w) ==
    /\ pc[w] = "range"
    /\ RangeDone(w)
    /\ LeaveRange(w)
    /\ UNCHANGED <<connVars, serverVars, accVars, closeVars, histVars>>

WriteMessageReturns ==
    /\ pc[Owner] = "return"
    /\ pc' = [pc EXCEPT ![Owner] = "none"]
    /\ ForgetMessage(Owner)
    /\ UNCHANGED <<connVars, serverVars, accVars, target, seen, closeVars, histVars>>

\* The select between msgCh and ctx.Done().
SendToChannel(c) ==
    /\ pc[c] = "send" /\ Len(msgCh) < ChanCap
    /\ msgCh' = Append(msgCh, msg[c])
    /\ pc' = [pc EXCEPT ![c] = "select"]
    /\ ForgetMessage(c)
    /\ UNCHANGED <<connVars, listening, ctxDone, clients, disconnected, wg, accVars, target,
                   seen, closeVars, histVars>>

GiveUpSend(c) ==
    /\ pc[c] = "send" /\ ctxDone
    /\ pc' = [pc EXCEPT ![c] = "done"]
    /\ wg' = wg - 1
    /\ ForgetMessage(c)
    /\ UNCHANGED <<connVars, listening, ctxDone, clients, msgCh, disconnected, accVars,
                   target, seen, closeVars, histVars>>

\* ReadMessage returns a message; its other case, EOF, changes nothing.
ReadMessage ==
    /\ msgCh # <<>>
    /\ received' = Append(received, Head(msgCh))
    /\ msgCh' = Tail(msgCh)
    /\ UNCHANGED <<connVars, listening, ctxDone, clients, disconnected, wg, threadVars,
                   reported, load>>

-----------------------------------------------------------------------------
(***************************************************************************)
(* Close.                                                                  *)
(***************************************************************************)
CancelContext ==
    /\ closing = "no"
    /\ closing' = "begin" /\ ctxDone' = TRUE
    /\ UNCHANGED <<connVars, listening, clients, msgCh, disconnected, wg, accVars,
                   writerVars, closeMust, closeSeen, histVars>>

CloseStartRange ==
    /\ closing = "begin"
    /\ closing' = "range" /\ closeMust' = clients
    /\ UNCHANGED <<connVars, serverVars, accVars, writerVars, closeSeen, histVars>>

CloseClient(c) ==
    /\ closing = "range" /\ c \in clients \ closeSeen
    /\ open' = CloseOf(c)
    /\ closeSeen' = closeSeen \cup {c}
    /\ UNCHANGED <<peer, wire, unread, sent, inbox, serverVars, accVars, writerVars,
                   closing, closeMust, histVars>>

CloseListener ==
    /\ closing = "range" /\ closeMust \cap clients \subseteq closeSeen
    /\ closing' = "swap" /\ listening' = FALSE
    /\ closeMust' = {} /\ closeSeen' = {}
    /\ UNCHANGED <<connVars, ctxDone, clients, msgCh, disconnected, wg, accVars, writerVars,
                   histVars>>

CloseReports ==
    /\ closing = "swap"
    /\ closing' = "wait"
    /\ SwapAndReport
    /\ UNCHANGED <<connVars, listening, ctxDone, clients, msgCh, wg, accVars, writerVars,
                   closeMust, closeSeen, received, load>>

NoWait == TRUE \* mutant: wg.Wait is left out

Wait == wg = 0

\* wg.Wait returns.
CloseReturns ==
    /\ closing = "wait" /\ Wait
    /\ closing' = "done"
    /\ UNCHANGED <<connVars, serverVars, accVars, writerVars, closeMust, closeSeen,
                   histVars>>

-----------------------------------------------------------------------------
AcceptStep == AcceptSelect \/ StoreClient \/ Spawn \/ AcceptReturns
              \/ \E c \in Clients : Accept(c)

HandlerStep(c) ==
    HandlerSelect(c) \/ ReadMessageOf(c) \/ ReadFails(c) \/ SendToChannel(c) \/ GiveUpSend(c)

BroadcastStep(w) ==
    \/ Write(w) \/ WriteFails(w) \/ DropClient(w) \/ EndRange(w)
    \/ \E c \in Clients : Visit(w, c)

CloseStep ==
    \/ CloseStartRange \/ CloseListener \/ CloseReports \/ CloseReturns
    \/ \E c \in Clients : CloseClient(c)

Next ==
    \/ \E c \in Clients : Dial(c) \/ PeerSends(c) \/ PeerReads(c) \/ PeerLeaves(c)
    \/ AcceptStep \/ AcceptError
    \/ \E c \in Clients : HandlerStep(c)
    \/ \E w \in Writers : BroadcastStep(w)
    \/ WriteMessage \/ WriteMessageReturns \/ ReadMessage
    \/ CancelContext \/ CloseStep

Spec == Init /\ [][Next]_vars

\* Goroutines are scheduled, a call that can return does, and Accept fails once the
\* listener is closed.  Nothing is assumed of the peers: one may never read.
Fairness ==
    /\ WF_vars(AcceptStep) /\ WF_vars(AcceptError /\ ~listening)
    /\ \A c \in Clients : WF_vars(HandlerStep(c))
    /\ \A w \in Writers : WF_vars(BroadcastStep(w))
    /\ WF_vars(CloseStep)

FairSpec == Spec /\ Fairness

-----------------------------------------------------------------------------
(***************************************************************************)
(* Properties.                                                             *)
(***************************************************************************)
\* The messages of each sender stand in q in the order of their numbers, none twice.
InSenderOrder(q) ==
    \A i, j \in DOMAIN q : i < j /\ q[i][1] = q[j][1] => q[i][2] < q[j][2]

\* Every client, and the reader of msgCh, sees the messages of one sender in the
\* order they were sent and none twice, whatever the other goroutines do.
SenderOrder ==
    /\ \A c \in Clients : InSenderOrder(inbox[c])
    /\ InSenderOrder(received \o msgCh)

\* A client never gets its own message back from the broadcast.
NoEcho == \A c \in Clients : \A i \in DOMAIN inbox[c] : inbox[c][i][1] # c

\* When the broadcast of a message ends, by a handler or by WriteMessage, every other
\* client that was connected when it began and has not been removed has been sent
\* the message: a failing client does not keep it from the others.
BroadcastComplete ==
    \A w \in Writers : pc[w] \in {"send", "return"} =>
      \A c \in (must[w] \cap clients) \ {w} :
        \E i \in DOMAIN inbox[c] : inbox[c][i] = msg[w]

\* When Close returns, the accept loop and every reading goroutine have ended, and
\* OnDisconnect was called once.
CloseWaitsForAll ==
    closing = "done" =>
      /\ acc = "done" /\ \A c \in Clients : pc[c] \in {"none", "done"}
      /\ reported = 1

\* A goroutine is blocked in a write to a client that shut down its sending side and
\* does not read.  The client's own handler has taken it out of the map without
\* closing its connection, so Close, which closes what is in the map, passes it by.
Stranded ==
    \E w \in Clients :
      /\ pc[w] = "write" /\ open[target[w]] /\ unread[target[w]] = Window
      /\ peer[target[w]] = "half" /\ target[w] \notin clients

\* Close returns, even if a peer has stopped reading and a goroutine is blocked in a
\* write to it, except while a goroutine stays stranded for ever.
CloseTerminates == []<>~Stranded => ((closing # "no") ~> (closing = "done"))
=============================================================================
