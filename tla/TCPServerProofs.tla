--------------------------- MODULE TCPServerProofs ---------------------------
(***************************************************************************)
(* Proofs about TCPServer, for any number of clients, any capacity of      *)
(* msgCh and of the connections, and any load: the types, the life of a    *)
(* client's entry in the map, Close, and the order of the messages.        *)
(***************************************************************************)
EXTENDS TCPServer, FiniteSetTheorems, TLAPS

Msgs == Writers \X Nat

\* The places of a goroutine between the begin and the end of clients.Range.
Casting == {"range", "write", "drop"}

Connected == {"up", "half", "gone"}

WriterTypes ==
    /\ pc \in [Writers -> Casting \cup {"none", "select", "read", "send", "return", "done"}]
    /\ msg \in [Writers -> Msgs] /\ target \in [Writers -> Writers]
    /\ must \in [Writers -> SUBSET Clients] /\ seen \in [Writers -> SUBSET Clients]

TypeOK ==
    /\ peer \in [Clients -> {"away", "dialing", "up", "half", "gone"}]
    /\ wire \in [Clients -> Seq(Msgs)] /\ inbox \in [Clients -> Seq(Msgs)]
    /\ sent \in [Writers -> Nat]
    /\ clients \in SUBSET Clients
    /\ msgCh \in Seq(Msgs) /\ received \in Seq(Msgs)
    /\ acc \in {"select", "accept", "store", "spawn", "report", "done"}
    /\ accConn \in Writers /\ (acc \in {"store", "spawn"} => accConn \in Clients)
    /\ WriterTypes

\* The clients that the accept loop has put into the map, at some time.
Met == {c \in Clients : peer[c] \in Connected /\ (acc = "store" => c # accConn)}

\* A client comes into the map once, before its goroutine starts, and never comes back.
AcceptInv ==
    /\ acc \in {"store", "spawn"} =>
         peer[accConn] \in Connected /\ pc[accConn] = "none"
    /\ clients \subseteq Met
    /\ \A w \in Writers : must[w] \subseteq Met /\ seen[w] \subseteq Met
    /\ \A c \in Clients : pc[c] # "none" => c \in Met
    /\ \A w \in Writers : pc[w] \in {"write", "drop"} => target[w] \in seen[w] \ {w}

\* The clients whose goroutine runs.
Handling == {c \in Clients : pc[c] \notin {"none", "done"}}

\* The WaitGroup counts the goroutines that run, and the flag the report.
CloseInv ==
    /\ wg = Cardinality(Handling) + (IF acc = "done" THEN 0 ELSE 1)
    /\ disconnected \in BOOLEAN /\ reported = (IF disconnected THEN 1 ELSE 0)
    /\ closing \in {"wait", "done"} => disconnected
    /\ closing = "done" => acc = "done" /\ Handling = {}

Got(c, m) == \E i \in DOMAIN inbox[c] : inbox[c][i] = m

\* A client that a broadcast has visited, and that is still in the map, has been sent
\* the message, or is being sent it.
VisitInv ==
    \A w \in Writers : pc[w] \in Casting =>
      \A c \in seen[w] \cap clients : Got(c, msg[w]) \/ (pc[w] = "write" /\ target[w] = c)

-----------------------------------------------------------------------------
(***************************************************************************)
(* Types.                                                                  *)
(***************************************************************************)
\* Owner is a writer that is not a client.
LEMMA WriterFacts == Owner \in Writers /\ Owner \notin Clients /\ Clients \subseteq Writers
BY ServerAssumption DEF Writers

\* The first states have their types.
LEMMA TypeInit == Init => TypeOK
<1> SUFFICES ASSUME Init PROVE TypeOK
  BY Zenon
<1>1. NoMsg \in Msgs
  BY WriterFacts, Zenon DEF NoMsg, Msgs
<1> QED BY <1>1, WriterFacts DEF Init, TypeOK, WriterTypes

\* The steps of the peers and of the accept loop.
LEMMA TypeOutside ==
    ASSUME TypeOK,
           \/ AcceptStep \/ AcceptError
           \/ \E c \in Clients : Dial(c) \/ PeerSends(c) \/ PeerReads(c) \/ PeerLeaves(c)
    PROVE  TypeOK'
<1> USE WriterFacts DEF TypeOK, WriterTypes
<1>1. ASSUME NEW c \in Clients, NEW s \in {"dialing", "gone", "half"},
             peer' = [peer EXCEPT ![c] = s] \/ peer' = peer,
             UNCHANGED <<wire, sent, inbox, serverVars, threadVars, histVars>>
      PROVE  TypeOK'
  BY <1>1, Zenon DEF serverVars, threadVars, accVars, writerVars, histVars
<1>6. ASSUME NEW c \in Clients, Dial(c) \/ PeerReads(c) \/ PeerLeaves(c) PROVE TypeOK'
  BY <1>1, <1>6, Zenon DEF Dial, PeerReads, PeerLeaves
<1>2. ASSUME NEW c \in Clients, PeerSends(c) PROVE TypeOK'
  <2>1. <<c, sent[c] + 1>> \in Msgs
    BY DEF Msgs
  <2> QED
    BY <1>2, <2>1 DEF PeerSends, serverVars, threadVars, accVars, writerVars, histVars
<1>3. CASE AcceptSelect \/ AcceptReturns \/ AcceptError
  BY <1>3, Zenon DEF AcceptSelect, AcceptReturns, AcceptError, connVars, serverVars, accVars,
              writerVars, histVars
<1>7. CASE StoreClient
  BY <1>7, Zenon DEF StoreClient, connVars, writerVars, histVars
<1>4. CASE Spawn
  BY <1>4, Zenon DEF Spawn, connVars, histVars
<1>5. ASSUME NEW c \in Clients, Accept(c) PROVE TypeOK'
  BY <1>5, Zenon DEF Accept, serverVars, writerVars, histVars
<1> QED BY <1>2, <1>3, <1>4, <1>5, <1>6, <1>7, Zenon DEF AcceptStep

\* The steps of the reading goroutines.
LEMMA TypeHandler ==
    ASSUME TypeOK, NEW c \in Clients, HandlerStep(c)
    PROVE  TypeOK'
<1> USE WriterFacts DEF TypeOK, WriterTypes
<1>1. CASE HandlerSelect(c) \/ ReadFails(c)
  BY <1>1, Zenon DEF HandlerSelect, ReadFails, connVars, accVars, histVars
<1>2. CASE ReadMessageOf(c)
  <2>1. Head(wire[c]) \in Msgs /\ Consume(wire[c]) \in Seq(Msgs)
    BY <1>2 DEF ReadMessageOf, Consume
  <2> QED
    BY <1>2, <2>1, Zenon DEF ReadMessageOf, StartRange, Casting, serverVars, accVars, histVars
<1>3. NoMsg \in Msgs
  BY Zenon DEF NoMsg, Msgs
<1>4. CASE SendToChannel(c)
  BY <1>3, <1>4 DEF SendToChannel, ForgetMessage, connVars, accVars, histVars
<1>5. CASE GiveUpSend(c)
  BY <1>3, <1>5, Zenon DEF GiveUpSend, ForgetMessage, connVars, accVars, histVars
<1> QED BY <1>1, <1>2, <1>4, <1>5, Zenon DEF HandlerStep

\* The steps of a broadcast.
LEMMA TypeBroadcast ==
    ASSUME TypeOK, NEW w \in Writers, BroadcastStep(w)
    PROVE  TypeOK'
<1> USE WriterFacts DEF TypeOK, WriterTypes, Casting
<1>1. CASE Write(w)
  <2>1. inbox' \in [Clients -> Seq(Msgs)]
    <3>1. CASE target[w] \in Clients
      BY <1>1, <3>1 DEF Write
    <3>2. CASE target[w] \notin Clients
      <4>1. inbox' = inbox
        BY <1>1, <3>2 DEF Write
      <4> QED BY <4>1, Zenon
    <3> QED BY <3>1, <3>2, Zenon
  <2> QED BY <1>1, <2>1, Zenon DEF Write, serverVars, accVars, histVars
<1>2. CASE WriteFails(w) \/ DropClient(w)
  BY <1>2, Zenon DEF WriteFails, DropClient, connVars, serverVars, accVars, histVars
<1>3. CASE EndRange(w)
  BY <1>3, Zenon DEF EndRange, LeaveRange, connVars, serverVars, accVars, histVars
<1>4. ASSUME NEW c \in Clients, Visit(w, c) PROVE TypeOK'
  BY <1>4, Zenon DEF Visit, connVars, serverVars, accVars, histVars
<1> QED BY <1>1, <1>2, <1>3, <1>4, Zenon DEF BroadcastStep

\* The steps of the owner and of Close.
LEMMA TypeOwner ==
    ASSUME TypeOK,
           WriteMessage \/ WriteMessageReturns \/ ReadMessage \/ CancelContext \/ CloseStep
    PROVE  TypeOK'
<1> USE WriterFacts DEF TypeOK, WriterTypes
<1>1. <<Owner, sent[Owner] + 1>> \in Msgs /\ NoMsg \in Msgs
  BY DEF NoMsg, Msgs
<1>2. CASE WriteMessage
  BY <1>1, <1>2 DEF WriteMessage, StartRange, Casting, serverVars, accVars, histVars
<1>3. CASE WriteMessageReturns
  BY <1>1, <1>3, Zenon DEF WriteMessageReturns, ForgetMessage, connVars, serverVars, accVars, histVars
<1>4. CASE ReadMessage
  BY <1>4 DEF ReadMessage, connVars, threadVars, accVars, writerVars
<1>5. CASE CancelContext \/ CloseStep
  <2>1. UNCHANGED <<peer, wire, inbox, sent, clients, msgCh, received, acc, accConn, writerVars>>
    BY <1>5, Zenon DEF CancelContext, CloseStep, CloseStartRange, CloseListener, CloseReports,
                CloseReturns, CloseClient, connVars, serverVars, accVars, histVars
  <2> QED BY <2>1, SMTT(20) DEF writerVars
<1> QED BY <1>2, <1>3, <1>4, <1>5, Zenon

\* Every step preserves the types.
LEMMA TypeStep == TypeOK /\ [Next]_vars => TypeOK'
<1> SUFFICES ASSUME TypeOK, [Next]_vars PROVE TypeOK'
  BY Zenon
<1>1. CASE UNCHANGED vars
  BY <1>1, Zenon DEF TypeOK, WriterTypes, vars, connVars, serverVars, threadVars, accVars,
              writerVars, histVars
<1> QED
  BY <1>1, TypeOutside, TypeHandler, TypeBroadcast, TypeOwner, Zenon DEF Next

-----------------------------------------------------------------------------
(***************************************************************************)
(* Clients come into the map once.                                         *)
(***************************************************************************)
LEMMA AcceptInit == Init => AcceptInv
BY WriterFacts, Zenon DEF Init, AcceptInv

\* The steps of the peers and of the accept loop.
LEMMA AcceptOutside ==
    ASSUME TypeOK, AcceptInv,
           \/ AcceptStep \/ AcceptError
           \/ \E c \in Clients : Dial(c) \/ PeerSends(c) \/ PeerReads(c) \/ PeerLeaves(c)
    PROVE  AcceptInv'
<1> USE WriterFacts DEF TypeOK, WriterTypes, AcceptInv, Met, Connected
<1>1. ASSUME NEW c \in Clients, Dial(c) PROVE AcceptInv'
  BY <1>1 DEF Dial, serverVars, threadVars, accVars, writerVars
<1>2. ASSUME NEW c \in Clients, PeerLeaves(c) PROVE AcceptInv'
  <2>1. \A d \in Clients : peer'[d] \in Connected <=> peer[d] \in Connected
    BY <1>2, SMTT(30) DEF PeerLeaves
  <2>2. UNCHANGED <<acc, accConn, pc, clients, must, seen, target>>
    BY <1>2, Zenon DEF PeerLeaves, serverVars, threadVars, accVars, writerVars
  <2> HIDE DEF Connected
  <2>3. Met' = Met
    BY <2>1, <2>2, Zenon
  <2> QED
    BY <2>1, <2>2, <2>3, Zenon DEF AcceptInv
<1>3. ASSUME NEW c \in Clients, PeerSends(c) \/ PeerReads(c) PROVE AcceptInv'
  BY <1>3, Zenon DEF PeerSends, PeerReads, serverVars, threadVars, accVars, writerVars
<1>4. CASE AcceptSelect \/ AcceptReturns \/ AcceptError
  BY <1>4, Zenon DEF AcceptSelect, AcceptReturns, AcceptError, connVars, serverVars, writerVars
<1>5. ASSUME NEW c \in Clients, Accept(c) PROVE AcceptInv'
  BY <1>5, Zenon DEF Accept, serverVars, writerVars
<1>6. CASE StoreClient
  BY <1>6, Zenon DEF StoreClient, connVars, writerVars
<1>7. CASE Spawn
  BY <1>7, Zenon DEF Spawn, connVars
<1> QED BY <1>1, <1>2, <1>3, <1>4, <1>5, <1>6, <1>7, Zenon DEF AcceptStep

\* The other goroutines take clients only out of the map, and visit what is in it.
LEMMA AcceptInside ==
    ASSUME TypeOK, AcceptInv,
           \/ \E c \in Clients : HandlerStep(c)
           \/ \E w \in Writers : BroadcastStep(w)
           \/ WriteMessage \/ WriteMessageReturns \/ ReadMessage \/ CancelContext \/ CloseStep
    PROVE  AcceptInv'
<1>0. ASSUME NEW w \in Writers, NEW p,
             UNCHANGED <<peer, accVars>>, clients' \subseteq clients,
             pc' = [pc EXCEPT ![w] = p], w \in Clients => pc[w] # "none",
             \A x \in Writers : must'[x] \subseteq Met /\ seen'[x] \subseteq Met,
             \A x \in Writers \ {w} : target'[x] = target[x] /\ seen'[x] = seen[x],
             p \in {"write", "drop"} => target'[w] \in seen'[w] \ {w}
      PROVE  AcceptInv'
  <2>1. Met' = Met
    BY <1>0, Zenon DEF Met, accVars
  <2>2. acc \in {"store", "spawn"} => accConn # w
    BY <1>0, WriterFacts, Zenon DEF AcceptInv, TypeOK, WriterTypes
  <2> QED
    BY <1>0, <2>1, <2>2, WriterFacts DEF AcceptInv, TypeOK, WriterTypes, accVars
<1> USE WriterFacts DEF TypeOK, WriterTypes, AcceptInv
<1>1. ASSUME NEW c \in Clients, HandlerSelect(c) \/ ReadFails(c) PROVE AcceptInv'
  BY <1>0, <1>1, Zenon DEF HandlerSelect, ReadFails, connVars, accVars
<1>2. ASSUME NEW c \in Clients, ReadMessageOf(c) PROVE AcceptInv'
  BY <1>0, <1>2, Zenon DEF ReadMessageOf, StartRange, accVars, serverVars
<1>3. ASSUME NEW c \in Clients, SendToChannel(c) \/ GiveUpSend(c) PROVE AcceptInv'
  BY <1>0, <1>3, ZenonT(60) DEF SendToChannel, GiveUpSend, ForgetMessage, connVars, accVars
<1>4. ASSUME NEW w \in Writers, Write(w) \/ WriteFails(w) \/ DropClient(w) PROVE AcceptInv'
  BY <1>0, <1>4, Zenon DEF Write, WriteFails, DropClient, connVars, serverVars
<1>5. ASSUME NEW w \in Writers, EndRange(w) PROVE AcceptInv'
  BY <1>0, <1>5, Zenon DEF EndRange, LeaveRange, connVars, serverVars
<1>6. ASSUME NEW w \in Writers, NEW c \in Clients, Visit(w, c) PROVE AcceptInv'
  BY <1>0, <1>6, ZenonT(60) DEF Visit, Targets, connVars, serverVars
<1>7. CASE WriteMessage
  BY <1>0, <1>7, Zenon DEF WriteMessage, StartRange, accVars, serverVars
<1>8. CASE WriteMessageReturns
  BY <1>0, <1>8, Zenon DEF WriteMessageReturns, ForgetMessage, connVars, serverVars
<1>9. CASE ReadMessage \/ CancelContext \/ CloseStep
  <2>1. UNCHANGED <<peer, acc, accConn, pc, clients, must, seen, target>>
    BY <1>9, Zenon DEF ReadMessage, CancelContext, CloseStep, CloseStartRange, CloseListener,
                CloseReports, CloseReturns, CloseClient, connVars, serverVars, threadVars,
                accVars, writerVars
  <2> QED BY <2>1, Zenon DEF Met
<1> QED
  BY <1>1, <1>2, <1>3, <1>4, <1>5, <1>6, <1>7, <1>8, <1>9, Zenon DEF HandlerStep, BroadcastStep

\* Every step preserves AcceptInv.
LEMMA AcceptStepInv == TypeOK /\ AcceptInv /\ [Next]_vars => AcceptInv'
<1> SUFFICES ASSUME TypeOK, AcceptInv, [Next]_vars PROVE AcceptInv'
  BY Zenon
<1>1. CASE UNCHANGED vars
  BY <1>1, Zenon DEF AcceptInv, Met, vars, connVars, serverVars, threadVars, accVars, writerVars
<1> QED
  BY <1>1, AcceptOutside, AcceptInside, Zenon DEF Next

-----------------------------------------------------------------------------
(***************************************************************************)
(* The WaitGroup and the report.                                           *)
(***************************************************************************)
\* The goroutines that run can be counted.
LEMMA HandlingFinite ==
    /\ IsFiniteSet(Handling) /\ Cardinality(Handling) \in Nat
    /\ Cardinality(Handling) = 0 <=> Handling = {}
<1>0. IsFiniteSet(Clients)
  BY ServerAssumption, Zenon
<1>1. IsFiniteSet(Clients) /\ Handling \in SUBSET Clients
  BY <1>0, Zenon DEF Handling
<1>2. IsFiniteSet(Handling)
  BY <1>1, FS_Subset, Zenon
<1> QED BY <1>2, FS_CardinalityType, FS_EmptySet, Zenon

\* A goroutine starts: wg.Add(1).
LEMMA HandlingStarts ==
    ASSUME TypeOK, NEW c \in Clients, pc[c] = "none", pc' = [pc EXCEPT ![c] = "select"]
    PROVE  Cardinality(Handling') = Cardinality(Handling) + 1
<1>1. Handling' = Handling \cup {c} /\ c \notin Handling
  BY WriterFacts DEF TypeOK, WriterTypes, Handling
<1> QED
  BY <1>1, HandlingFinite, FS_AddElement, Zenon

\* A goroutine ends: wg.Done.
LEMMA HandlingEnds ==
    ASSUME TypeOK, NEW c \in Clients, pc[c] \notin {"none", "done"},
           pc' = [pc EXCEPT ![c] = "done"]
    PROVE  Cardinality(Handling') = Cardinality(Handling) - 1 /\ c \in Handling
<1>1. Handling' = Handling \ {c} /\ c \in Handling
  BY WriterFacts, Zenon DEF TypeOK, WriterTypes, Handling
<1> QED
  BY <1>1, HandlingFinite, FS_RemoveElement, Zenon

\* Nothing has been reported before the accept loop starts.
LEMMA CloseInit == Init => CloseInv
<1> SUFFICES ASSUME Init PROVE CloseInv
  BY Zenon
<1>1. Handling = {}
  BY WriterFacts, Zenon DEF Init, Handling
<1>2. wg = 1 /\ ~disconnected /\ disconnected \in BOOLEAN /\ reported = 0 /\ closing = "no"
      /\ acc = "select"
  BY Zenon DEF Init
<1>3. Cardinality(Handling) = 0
  BY <1>1, HandlingFinite, Zenon
<1> QED
  BY <1>2, <1>3 DEF CloseInv

\* Steps that neither start nor end a goroutine, nor report.
LEMMA CloseFrame ==
    ASSUME CloseInv, Handling' = Handling, acc = "done" <=> acc' = "done",
           UNCHANGED <<wg, disconnected, reported, closing>>
    PROVE  CloseInv'
BY Zenon DEF CloseInv

\* A goroutine that goes on.
LEMMA HandlingSame ==
    ASSUME TypeOK, NEW w \in Writers, NEW p, pc' = [pc EXCEPT ![w] = p],
           w \in Clients => {p, pc[w]} \cap {"none", "done"} = {}
    PROVE  Handling' = Handling
BY WriterFacts, Zenon DEF TypeOK, WriterTypes, Handling

\* The accept loop, and peers.
LEMMA CloseOutside ==
    ASSUME TypeOK, AcceptInv, CloseInv,
           \/ AcceptStep \/ AcceptError
           \/ \E c \in Clients : Dial(c) \/ PeerSends(c) \/ PeerReads(c) \/ PeerLeaves(c)
    PROVE  CloseInv'
<1>1. CASE \/ AcceptSelect \/ StoreClient \/ AcceptError \/ \E c \in Clients : Accept(c)
           \/ \E c \in Clients : Dial(c) \/ PeerSends(c) \/ PeerReads(c) \/ PeerLeaves(c)
  <2>1. /\ UNCHANGED <<pc, wg, disconnected, reported, closing>>
        /\ acc' = acc \/ (acc # "done" /\ acc' # "done")
    BY <1>1, Zenon DEF AcceptSelect, StoreClient, AcceptError, Accept, Dial, PeerSends, PeerReads,
                PeerLeaves, serverVars, threadVars, accVars, writerVars, closeVars, histVars
  <2>2. Handling' = Handling
    BY <2>1, Zenon DEF Handling
  <2> QED BY <2>1, <2>2, CloseFrame, Zenon
<1>2. CASE Spawn
  <2>1. Cardinality(Handling') = Cardinality(Handling) + 1
    BY <1>2, HandlingStarts, Zenon DEF Spawn, TypeOK, WriterTypes, AcceptInv
  <2>2. /\ acc = "spawn" /\ acc' = "select" /\ wg' = wg + 1
        /\ UNCHANGED <<disconnected, reported, closing>>
    BY <1>2, Zenon DEF Spawn, WgAdd, closeVars, histVars
  <2> QED BY <2>1, <2>2, HandlingFinite, Zenon DEF CloseInv
<1>3. CASE AcceptReturns
  <2>1. /\ acc = "report" /\ acc' = "done" /\ wg' = wg - 1 /\ UNCHANGED <<pc, closing>>
        /\ SwapAndReport
    BY <1>3, Zenon DEF AcceptReturns, writerVars, closeVars
  <2>2. Handling' = Handling
    BY <2>1, Zenon DEF Handling
  <2> QED BY <2>1, <2>2, HandlingFinite DEF CloseInv, SwapAndReport
<1> QED BY <1>1, <1>2, <1>3, Zenon DEF AcceptStep

\* The reading goroutines and the broadcasts.
LEMMA CloseInside ==
    ASSUME TypeOK, CloseInv,
           \/ \E c \in Clients : HandlerStep(c)
           \/ \E w \in Writers : BroadcastStep(w)
           \/ WriteMessage \/ WriteMessageReturns \/ ReadMessage
    PROVE  CloseInv'
<1>1. ASSUME NEW c \in Clients, pc[c] \notin {"none", "done"},
             pc' = [pc EXCEPT ![c] = "done"], wg' = wg - 1,
             UNCHANGED <<acc, disconnected, reported, closing>>
      PROVE  CloseInv'
  <2>1. Cardinality(Handling') = Cardinality(Handling) - 1 /\ Handling # {}
    BY <1>1, HandlingEnds, Zenon
  <2> QED BY <1>1, <2>1, HandlingFinite DEF CloseInv
<1>2. ASSUME NEW w \in Writers, NEW p, pc' = [pc EXCEPT ![w] = p],
             w \in Clients => {p, pc[w]} \cap {"none", "done"} = {},
             UNCHANGED <<acc, wg, disconnected, reported, closing>>
      PROVE  CloseInv'
  BY <1>2, HandlingSame, CloseFrame, Zenon
<1> USE WriterFacts
<1>3. ASSUME NEW c \in Clients, HandlerStep(c)
      PROVE  CloseInv'
  <2>1. CASE HandlerSelect(c)
    <3>1. CASE ctxDone
      BY <1>1, <2>1, <3>1, Zenon DEF HandlerSelect, accVars, closeVars, histVars
    <3>2. CASE ~ctxDone
      BY <1>2, <2>1, <3>2, Zenon DEF HandlerSelect, accVars, closeVars, histVars
    <3> QED BY <3>1, <3>2, Zenon
  <2>2. CASE ReadFails(c) \/ GiveUpSend(c)
    BY <1>1, <2>2, Zenon DEF ReadFails, GiveUpSend, accVars, closeVars, histVars
  <2>3. CASE ReadMessageOf(c)
    BY <1>2, <2>3, Zenon DEF ReadMessageOf, StartRange, serverVars, accVars, closeVars, histVars
  <2>4. CASE SendToChannel(c)
    BY <1>2, <2>4, Zenon DEF SendToChannel, accVars, closeVars, histVars
  <2> QED BY <1>3, <2>1, <2>2, <2>3, <2>4, Zenon DEF HandlerStep
<1>4. ASSUME NEW w \in Writers, BroadcastStep(w)
      PROVE  CloseInv'
  <2>1. CASE Write(w) \/ WriteFails(w) \/ DropClient(w)
    BY <1>2, <2>1 DEF Write, WriteFails, DropClient, serverVars, accVars, closeVars, histVars
  <2>2. CASE EndRange(w)
    BY <1>2, <2>2, Zenon DEF EndRange, LeaveRange, serverVars, accVars, closeVars, histVars
  <2>3. ASSUME NEW c \in Clients, Visit(w, c) PROVE CloseInv'
    BY <1>2, <2>3, Zenon DEF Visit, serverVars, accVars, closeVars, histVars
  <2> QED BY <1>4, <2>1, <2>2, <2>3, Zenon DEF BroadcastStep
<1>5. CASE WriteMessage \/ WriteMessageReturns
  BY <1>2, <1>5, Zenon DEF WriteMessage, WriteMessageReturns, StartRange, serverVars, accVars,
                    closeVars, histVars
<1>6. CASE ReadMessage
  <2>1. UNCHANGED <<pc, acc, wg, disconnected, reported, closing>>
    BY <1>6, Zenon DEF ReadMessage, threadVars, accVars, writerVars, closeVars
  <2>2. Handling' = Handling
    BY <2>1, Zenon DEF Handling
  <2> QED BY <2>1, <2>2, CloseFrame, Zenon
<1> QED BY <1>3, <1>4, <1>5, <1>6, Zenon

\* Every step preserves CloseInv; Close itself returns only when wg is 0.
LEMMA CloseStepInv == TypeOK /\ AcceptInv /\ CloseInv /\ [Next]_vars => CloseInv'
<1> SUFFICES ASSUME TypeOK, AcceptInv, CloseInv, [Next]_vars PROVE CloseInv'
  BY Zenon
<1>1. ASSUME UNCHANGED <<pc, acc, wg>> PROVE Handling' = Handling
  BY <1>1, Zenon DEF Handling
<1>2. CASE CancelContext \/ CloseStartRange \/ CloseListener \/ \E c \in Clients : CloseClient(c)
  <2>1. /\ UNCHANGED <<pc, acc, wg, disconnected, reported>> /\ closing # "done"
        /\ closing' \notin {"wait", "done"}
    BY <1>2, Zenon DEF CancelContext, CloseStartRange, CloseListener, CloseClient, serverVars,
                accVars, writerVars, histVars
  <2> QED BY <1>1, <2>1, Zenon DEF CloseInv
<1>3. CASE CloseReports
  <2>1. /\ UNCHANGED <<pc, acc, wg>> /\ SwapAndReport /\ closing' = "wait"
    BY <1>3, Zenon DEF CloseReports, accVars, writerVars
  <2> QED BY <1>1, <2>1 DEF CloseInv, SwapAndReport
<1>4. CASE CloseReturns
  <2>1. /\ UNCHANGED <<pc, acc, wg, disconnected, reported>> /\ wg = 0 /\ closing = "wait"
    BY <1>4, Zenon DEF CloseReturns, Wait, serverVars, accVars, writerVars, histVars
  <2> QED BY <1>1, <2>1, HandlingFinite DEF CloseInv
<1>5. CASE UNCHANGED vars
  <2>1. UNCHANGED <<pc, acc, wg, disconnected, reported, closing>>
    BY <1>5, Zenon DEF vars, serverVars, threadVars, accVars, writerVars, closeVars, histVars
  <2> QED BY <1>1, <2>1, CloseFrame, Zenon
<1> QED
  BY <1>2, <1>3, <1>4, <1>5, CloseOutside, CloseInside, Zenon DEF Next, CloseStep

\* When Close returns, the accept loop and every reading goroutine have ended, and
\* OnDisconnect was called once: for any number of clients and every interleaving.
THEOREM CloseWaits == Spec => []CloseWaitsForAll
<1>1. CloseInv => CloseWaitsForAll
  BY Zenon DEF CloseInv, CloseWaitsForAll, Handling
<1> QED
  BY <1>1, TypeInit, TypeStep, AcceptInit, AcceptStepInv, CloseInit, CloseStepInv, PTL DEF Spec

-----------------------------------------------------------------------------
(***************************************************************************)
(* A step moves at most one of the goroutines that write.                  *)
(***************************************************************************)
Rests(w) ==
    /\ pc'[w] = pc[w] /\ msg'[w] = msg[w] /\ target'[w] = target[w]
    /\ must'[w] = must[w] /\ seen'[w] = seen[w]

OwnStep(w) ==
    \/ w \in Clients /\ HandlerStep(w)
    \/ BroadcastStep(w)
    \/ w = Owner /\ (WriteMessage \/ WriteMessageReturns)
    \/ Spawn /\ pc'[w] = "select"

\* Every goroutine rests or takes a step of its own.
LEMMA OneMoves == ASSUME TypeOK, [Next]_vars, NEW w \in Writers PROVE Rests(w) \/ OwnStep(w)
<1> USE WriterFacts
<1>1. ASSUME UNCHANGED writerVars PROVE Rests(w)
  BY <1>1, Zenon DEF Rests, writerVars
<1>2. CASE UNCHANGED vars
  BY <1>1, <1>2, Zenon DEF vars, threadVars
<1>3. CASE \E c \in Clients : Dial(c) \/ PeerSends(c) \/ PeerReads(c) \/ PeerLeaves(c)
  BY <1>1, <1>3, Zenon DEF Dial, PeerSends, PeerReads, PeerLeaves, threadVars
<1>4. CASE \/ AcceptSelect \/ StoreClient \/ AcceptReturns \/ AcceptError \/ ReadMessage
           \/ \E c \in Clients : Accept(c)
  BY <1>1, <1>4, Zenon DEF AcceptSelect, StoreClient, AcceptReturns, AcceptError, ReadMessage, Accept,
                    threadVars
<1>5. CASE CancelContext \/ CloseStep
  BY <1>1, <1>5, Zenon DEF CancelContext, CloseStep, CloseStartRange, CloseListener, CloseReports,
                    CloseReturns, CloseClient
<1>6. ASSUME NEW v \in Writers \ {w}, NEW p, NEW m, NEW t, NEW d, NEW e,
             pc' = [pc EXCEPT ![v] = p],
             msg' = msg \/ msg' = [msg EXCEPT ![v] = m],
             target' = target \/ target' = [target EXCEPT ![v] = t],
             must' = must \/ must' = [must EXCEPT ![v] = d],
             seen' = seen \/ seen' = [seen EXCEPT ![v] = e]
      PROVE  Rests(w)
  BY <1>6 DEF Rests, TypeOK, WriterTypes
<1>7. ASSUME NEW c \in Clients, HandlerStep(c), c # w PROVE Rests(w)
  <2>1. CASE HandlerSelect(c) \/ ReadFails(c)
    BY <1>6, <1>7, <2>1, Zenon DEF HandlerSelect, ReadFails
  <2>2. CASE SendToChannel(c) \/ GiveUpSend(c)
    BY <1>6, <1>7, <2>2 DEF SendToChannel, GiveUpSend, ForgetMessage
  <2>3. CASE ReadMessageOf(c)
    BY <1>6, <1>7, <2>3, Zenon DEF ReadMessageOf, StartRange
  <2> QED BY <1>7, <2>1, <2>2, <2>3, Zenon DEF HandlerStep
<1>8. ASSUME NEW v \in Writers, BroadcastStep(v), v # w PROVE Rests(w)
  <2>1. CASE Write(v) \/ WriteFails(v) \/ DropClient(v)
    BY <1>6, <1>8, <2>1, Zenon DEF Write, WriteFails, DropClient
  <2>2. CASE EndRange(v)
    BY <1>6, <1>8, <2>2, Zenon DEF EndRange, LeaveRange
  <2>3. ASSUME NEW c \in Clients, Visit(v, c) PROVE Rests(w)
    BY <1>6, <1>8, <2>3, Zenon DEF Visit
  <2> QED BY <1>8, <2>1, <2>2, <2>3, Zenon DEF BroadcastStep
<1>9. CASE WriteMessage \/ WriteMessageReturns
  <2>1. CASE w = Owner
    BY <1>9, <2>1, Zenon DEF OwnStep
  <2>2. CASE w # Owner
    BY <1>6, <1>9, <2>2 DEF WriteMessage, WriteMessageReturns, StartRange, ForgetMessage
  <2> QED BY <2>1, <2>2, Zenon
<1>10. CASE Spawn
  <2>1. accConn \in Writers /\ pc' = [pc EXCEPT ![accConn] = "select"]
        /\ UNCHANGED <<msg, target, must, seen>>
    BY <1>10, Zenon DEF Spawn, TypeOK
  <2>2. CASE w = accConn
    BY <1>10, <2>1, <2>2, Zenon DEF OwnStep, TypeOK, WriterTypes
  <2>3. CASE w # accConn
    BY <1>6, <2>1, <2>3, Zenon
  <2> QED BY <2>2, <2>3, Zenon
<1>11. CASE \E c \in Clients : HandlerStep(c)
  BY <1>7, <1>11, Zenon DEF OwnStep
<1>12. CASE \E v \in Writers : BroadcastStep(v)
  BY <1>8, <1>12, Zenon DEF OwnStep
<1> QED
  BY <1>2, <1>3, <1>4, <1>5, <1>9, <1>10, <1>11, <1>12, Zenon DEF Next, AcceptStep

-----------------------------------------------------------------------------
(***************************************************************************)
(* The broadcasts.                                                         *)
(***************************************************************************)
\* A client comes into the map only if no broadcast has seen or must see it, and
\* what is in an inbox stays there.
LEMMA MapAndInboxes ==
    ASSUME TypeOK, AcceptInv, [Next]_vars
    PROVE  /\ \A w \in Writers : clients' \cap (seen[w] \cup must[w]) \subseteq clients
           /\ \A c \in Clients : \A m : Got(c, m) => Got(c, m)'
<1>1. \A w \in Writers : clients' \cap (seen[w] \cup must[w]) \subseteq clients
  <2>1. CASE StoreClient
    <3>1. clients' = clients \cup {accConn} /\ accConn \notin Met
      BY <2>1, Zenon DEF StoreClient, Met
    <3> QED BY <3>1, Zenon DEF AcceptInv
  <2>2. ASSUME ~StoreClient PROVE clients' \subseteq clients
    <3>1. CASE \/ UNCHANGED vars \/ AcceptSelect \/ AcceptError \/ Spawn \/ AcceptReturns
               \/ \E c \in Clients : Dial(c) \/ PeerSends(c) \/ PeerReads(c) \/ PeerLeaves(c)
                                     \/ Accept(c)
      BY <3>1, Zenon DEF vars, Dial, PeerSends, PeerReads, PeerLeaves, AcceptSelect, Accept, AcceptError,
                  Spawn, AcceptReturns, serverVars
    <3>2. CASE \E c \in Clients : HandlerStep(c)
      BY <3>2, Zenon DEF HandlerStep, HandlerSelect, ReadMessageOf, ReadFails, SendToChannel, GiveUpSend,
                  serverVars
    <3>3. CASE \E w \in Writers : BroadcastStep(w)
      BY <3>3 DEF BroadcastStep, Write, WriteFails, DropClient, EndRange, Visit, serverVars
    <3>4. CASE WriteMessage \/ WriteMessageReturns \/ ReadMessage \/ CancelContext \/ CloseStep
      BY <3>4, Zenon DEF WriteMessage, WriteMessageReturns, ReadMessage, CancelContext, CloseStep,
                  CloseStartRange, CloseListener, CloseReports, CloseReturns, CloseClient,
                  serverVars
    <3> QED BY <2>2, <3>1, <3>2, <3>3, <3>4, Zenon DEF Next, AcceptStep
  <2> QED BY <2>1, <2>2, Zenon
<1>2. ASSUME NEW c \in Clients, NEW m, Got(c, m) PROVE Got(c, m)'
  <2>1. PICK i \in DOMAIN inbox[c] : inbox[c][i] = m
    BY <1>2, Zenon DEF Got
  <2>2. CASE inbox' = inbox
    BY <2>1, <2>2, Zenon DEF Got
  <2>3. ASSUME NEW w \in Writers, Write(w) PROVE Got(c, m)'
    <3>1. inbox'[c] = inbox[c] \/ inbox'[c] = Append(inbox[c], msg[w])
      BY <2>3, Zenon DEF Write, TypeOK
    <3>2. inbox[c] \in Seq(Msgs) /\ msg[w] \in Msgs
      BY Zenon DEF TypeOK, WriterTypes
    <3>3. i \in DOMAIN inbox'[c] /\ inbox'[c][i] = inbox[c][i]
      BY <2>1, <3>1, <3>2
    <3> QED BY <2>1, <3>3, Zenon DEF Got
  <2>4. inbox' = inbox \/ \E w \in Writers : Write(w)
    <3>1. CASE \/ UNCHANGED vars \/ AcceptSelect \/ StoreClient \/ AcceptError \/ Spawn
               \/ AcceptReturns \/ \E d \in Clients : Accept(d)
      BY <3>1, Zenon DEF vars, AcceptSelect, StoreClient, Accept, AcceptError, Spawn, AcceptReturns,
                  connVars
    <3>2. CASE \E d \in Clients : Dial(d) \/ PeerSends(d) \/ PeerReads(d) \/ PeerLeaves(d)
      BY <3>2, Zenon DEF Dial, PeerSends, PeerReads, PeerLeaves
    <3>3. CASE \E d \in Clients : HandlerStep(d)
      BY <3>3, Zenon DEF HandlerStep, HandlerSelect, ReadMessageOf, ReadFails, SendToChannel, GiveUpSend,
                  connVars
    <3>4. CASE \E w \in Writers : BroadcastStep(w)
      BY <3>4, Zenon DEF BroadcastStep, WriteFails, DropClient, EndRange, Visit, connVars
    <3>5. CASE WriteMessage \/ WriteMessageReturns \/ ReadMessage \/ CancelContext \/ CloseStep
      BY <3>5, Zenon DEF WriteMessage, WriteMessageReturns, ReadMessage, CancelContext, CloseStep,
                  CloseStartRange, CloseListener, CloseReports, CloseReturns, CloseClient,
                  connVars
    <3> QED BY <3>1, <3>2, <3>3, <3>4, <3>5, Zenon DEF Next, AcceptStep
  <2> QED BY <2>2, <2>3, <2>4, Zenon
<1> QED BY <1>1, <1>2, Zenon

\* What a step may do to a broadcast that goes on: nothing, visit a client, be done
\* with one, or begin.
LEMMA BroadcastGoes ==
    ASSUME TypeOK, AcceptInv, [Next]_vars, NEW w \in Writers, pc'[w] \in Casting
    PROVE  \/ seen'[w] = {}
           \/ /\ pc[w] \in Casting /\ pc'[w] = pc[w]
              /\ UNCHANGED <<seen[w], msg[w], target[w]>>
           \/ /\ pc[w] = "range" /\ pc'[w] = "write" /\ msg'[w] = msg[w]
              /\ seen'[w] = seen[w] \cup {target'[w]}
           \/ /\ pc[w] = "drop" /\ UNCHANGED <<seen[w], msg[w], target[w]>>
           \/ /\ pc[w] = "write" /\ UNCHANGED <<seen[w], msg[w], target[w]>>
              /\ pc'[w] # "write"
              /\ Write(w) \/ target[w] \notin clients'
<1> USE WriterFacts DEF TypeOK, WriterTypes
<1>1. CASE Rests(w)
  BY <1>1, Zenon DEF Rests
<1>2. CASE HandlerSelect(w) \/ ReadFails(w) \/ SendToChannel(w) \/ GiveUpSend(w)
  BY <1>2, Zenon DEF HandlerSelect, ReadFails, SendToChannel, GiveUpSend, Casting
<1>3. CASE ReadMessageOf(w)
  BY <1>3, Zenon DEF ReadMessageOf, StartRange
<1>4. CASE Write(w) \/ WriteFails(w)
  BY <1>4, Zenon DEF Write, WriteFails
<1>5. CASE DropClient(w)
  BY <1>5, Zenon DEF DropClient
<1>6. CASE EndRange(w)
  BY <1>6, Zenon DEF EndRange, LeaveRange, Casting
<1>7. CASE \E c \in Clients : Visit(w, c)
  BY <1>7 DEF Visit
<1>8. CASE w = Owner /\ WriteMessage
  BY <1>8, Zenon DEF WriteMessage, StartRange
<1>9. CASE w = Owner /\ WriteMessageReturns
  BY <1>9, Zenon DEF WriteMessageReturns, Casting
<1>10. CASE pc'[w] = "select"
  BY <1>10, Zenon DEF Casting
<1> HIDE DEF TypeOK, WriterTypes
<1> QED
  BY <1>1, <1>2, <1>3, <1>4, <1>5, <1>6, <1>7, <1>8, <1>9, <1>10, OneMoves, Zenon
     DEF OwnStep, HandlerStep, BroadcastStep

\* Every step preserves VisitInv.
LEMMA VisitStep ==
    ASSUME TypeOK, AcceptInv, VisitInv, [Next]_vars
    PROVE  VisitInv'
<1> SUFFICES ASSUME NEW w \in Writers, pc'[w] \in Casting,
                    NEW c \in seen'[w] \cap clients',
                    ~(pc'[w] = "write" /\ target'[w] = c)
             PROVE  Got(c, msg[w])'
  BY Zenon DEF VisitInv, Got
<1>1. ASSUME pc[w] \in Casting, c \in seen[w], c \in Clients, msg'[w] = msg[w],
             ~(pc[w] = "write" /\ target[w] = c)
      PROVE  Got(c, msg[w])'
  <2>1. c \in clients
    BY <1>1, MapAndInboxes, Zenon
  <2>2. Got(c, msg[w])
    BY <1>1, <2>1, Zenon DEF VisitInv
  <2>3. ASSUME NEW m, m = msg[w] PROVE Got(c, m)'
    BY <1>1, <2>2, <2>3, MapAndInboxes, Zenon
  <2> QED BY <1>1, <2>3, Zenon DEF Got
<1>2. ASSUME Write(w), c = target[w], c \in Clients PROVE Got(c, msg[w])'
  <2>1. inbox'[c] = Append(inbox[c], msg[w]) /\ msg'[w] = msg[w]
    BY <1>2, Zenon DEF Write, TypeOK
  <2>2. inbox[c] \in Seq(Msgs) /\ msg[w] \in Msgs
    BY <1>2, Zenon DEF TypeOK, WriterTypes
  <2>3. Len(inbox[c]) + 1 \in DOMAIN inbox'[c] /\ inbox'[c][Len(inbox[c]) + 1] = msg[w]
    BY <2>1, <2>2
  <2> QED BY <2>1, <2>3, Zenon DEF Got
<1>3. c \in Clients
  BY TypeStep, Zenon DEF TypeOK
<1> QED BY <1>1, <1>2, <1>3, BroadcastGoes, Zenon DEF Casting

\* BroadcastComplete is preserved: a broadcast ends when it has seen all it must see.
LEMMA BroadcastStepInv ==
    ASSUME TypeOK, AcceptInv, VisitInv, BroadcastComplete, [Next]_vars
    PROVE  BroadcastComplete'
<1> USE WriterFacts
<1> SUFFICES ASSUME NEW w \in Writers, pc'[w] \in {"send", "return"},
                    NEW c \in (must'[w] \cap clients') \ {w}
             PROVE  Got(c, msg[w])'
  BY Zenon DEF BroadcastComplete, Got
<1>1. \/ EndRange(w)
      \/ pc[w] \in {"send", "return"} /\ must'[w] = must[w] /\ msg'[w] = msg[w]
  <2> USE DEF TypeOK, WriterTypes
  <2>1. CASE Rests(w)
    BY <2>1, Zenon DEF Rests
  <2>2. CASE HandlerSelect(w) \/ ReadFails(w) \/ SendToChannel(w) \/ GiveUpSend(w)
    BY <2>2, Zenon DEF HandlerSelect, ReadFails, SendToChannel, GiveUpSend
  <2>3. CASE ReadMessageOf(w)
    BY <2>3, Zenon DEF ReadMessageOf, StartRange
  <2>4. CASE Write(w) \/ WriteFails(w) \/ DropClient(w) \/ \E d \in Clients : Visit(w, d)
    BY <2>4 DEF Write, WriteFails, DropClient, Visit
  <2>5. CASE w = Owner /\ (WriteMessage \/ WriteMessageReturns)
    BY <2>5 DEF WriteMessage, WriteMessageReturns, StartRange
  <2>6. CASE pc'[w] = "select"
    BY <2>6, Zenon
  <2> HIDE DEF TypeOK, WriterTypes
  <2> QED
    BY <2>1, <2>2, <2>3, <2>4, <2>5, <2>6, OneMoves, Zenon DEF OwnStep, HandlerStep, BroadcastStep
<1>2. must'[w] = must[w] /\ msg'[w] = msg[w]
  BY <1>1, Zenon DEF EndRange, LeaveRange, TypeOK, WriterTypes
<1>3. c \in clients /\ c \in Clients
  BY <1>2, MapAndInboxes, Zenon DEF TypeOK
<1>4. Got(c, msg[w])
  <2>1. CASE EndRange(w)
    BY <1>2, <1>3, <2>1, Zenon DEF EndRange, RangeDone, Targets, VisitInv, Casting
  <2>2. CASE pc[w] \in {"send", "return"}
    BY <1>2, <1>3, <2>2, Zenon DEF BroadcastComplete, Got
  <2> QED BY <1>1, <2>1, <2>2, Zenon
<1>5. ASSUME NEW m, m = msg[w] PROVE Got(c, m)'
  BY <1>3, <1>4, <1>5, MapAndInboxes, Zenon
<1> QED BY <1>2, <1>5, Zenon DEF Got

\* When a broadcast ends, every other client that was connected when it began and is
\* still in the map has been sent the message: for any number of clients, any
\* interleaving of the goroutines, and any clients failing or leaving meanwhile.
THEOREM BroadcastReachesAll == Spec => []BroadcastComplete
<1>1. Init => VisitInv /\ BroadcastComplete
  BY Zenon DEF Init, VisitInv, BroadcastComplete, Casting
<1> QED
  BY <1>1, TypeInit, TypeStep, AcceptInit, AcceptStepInv, VisitStep, BroadcastStepInv,
     PTL DEF Spec

-----------------------------------------------------------------------------
(***************************************************************************)
(* The order of the messages that pass through the server.                 *)
(***************************************************************************)
\* How many messages of w the server has taken for forwarding.
Taken(w) == IF w = Owner THEN sent[w] ELSE sent[w] - Len(wire[w])

\* In its broadcast, w has not written to c yet.
Owes(w, c) ==
    pc[w] \in Casting /\ (c \notin seen[w] \/ (pc[w] = "write" /\ target[w] = c))

\* What a client sent and the server has not taken are its last messages, and the
\* message in a goroutine's hands is the last one taken.
InHandInv ==
    /\ \A c \in Clients :
         /\ Len(wire[c]) <= sent[c]
         /\ \A i \in 1 .. Len(wire[c]) : wire[c][i] = <<c, sent[c] - Len(wire[c]) + i>>
    /\ \A w \in Writers : pc[w] \in Casting \cup {"send", "return"} => msg[w] = <<w, Taken(w)>>

\* A client's inbox has only messages taken, and the last one of w only if w has
\* written it.
InboxInv ==
    \A c \in Clients :
      /\ InSenderOrder(inbox[c])
      /\ \A i \in 1 .. Len(inbox[c]) :
           LET w == inbox[c][i][1] IN
           /\ w # c /\ inbox[c][i][2] <= Taken(w)
           /\ Owes(w, c) => inbox[c][i][2] < Taken(w)

\* The same for what ReadMessage has returned and will return.
ChannelInv ==
    LET q == received \o msgCh IN
    /\ InSenderOrder(q)
    /\ \A i \in 1 .. Len(q) :
         LET w == q[i][1] IN
         /\ q[i][2] <= Taken(w)
         /\ pc[w] \in Casting \cup {"send"} => q[i][2] < Taken(w)

OrderInv == InHandInv /\ InboxInv /\ ChannelInv

-----------------------------------------------------------------------------
(***************************************************************************)
(* The messages.  Most steps are quiet: no message is taken or delivered,  *)
(* and nobody begins a broadcast.                                          *)
(***************************************************************************)
\* What a quiet step may do to the goroutine w.
QuietOf(w) ==
    /\ pc'[w] \in Casting =>
         pc[w] \in Casting /\ \A c \in Clients : Owes(w, c)' => Owes(w, c)
    /\ pc'[w] \in Casting \cup {"send"} => pc[w] \in Casting \cup {"send"}
    /\ pc'[w] \in Casting \cup {"send", "return"} =>
         pc[w] \in Casting \cup {"send", "return"} /\ msg'[w] = msg[w]

Quiet ==
    UNCHANGED <<wire, sent, inbox, msgCh, received>> /\ \A w \in Writers : QuietOf(w)

\* The steps that are not.
Loud ==
    \/ \E c \in Clients : PeerSends(c) \/ ReadMessageOf(c) \/ SendToChannel(c)
    \/ \E w \in Writers : Write(w)
    \/ WriteMessage \/ ReadMessage

\* Every step is one or the other.
LEMMA QuietOrLoud == TypeOK /\ AcceptInv /\ [Next]_vars => Quiet \/ Loud
<1> SUFFICES ASSUME TypeOK, AcceptInv, [Next]_vars, ~Loud PROVE Quiet
  BY Zenon
<1>1. ASSUME UNCHANGED <<wire, sent, inbox, msgCh, received, pc, msg, target, seen>> PROVE Quiet
  BY <1>1, Zenon DEF Quiet, QuietOf, Owes
<1>2. ASSUME NEW v \in Writers, QuietOf(v),
             UNCHANGED <<wire, sent, inbox, msgCh, received>>,
             \A w \in Writers \ {v} : /\ pc'[w] = pc[w] /\ msg'[w] = msg[w]
                                      /\ target'[w] = target[w] /\ seen'[w] = seen[w]
      PROVE  Quiet
  <2>1. ASSUME NEW w \in Writers \ {v} PROVE QuietOf(w)
    BY <1>2, <2>1, Zenon DEF QuietOf, Owes
  <2> QED BY <1>2, <2>1, Zenon DEF Quiet
<1>3. CASE UNCHANGED vars
  BY <1>1, <1>3, Zenon DEF vars, connVars, serverVars, threadVars, writerVars, histVars
<1>4. CASE \E c \in Clients : Dial(c) \/ PeerReads(c) \/ PeerLeaves(c)
  BY <1>1, <1>4, Zenon DEF Dial, PeerReads, PeerLeaves, serverVars, threadVars, writerVars, histVars
<1>5. CASE \/ AcceptSelect \/ StoreClient \/ AcceptReturns \/ AcceptError
           \/ \E c \in Clients : Accept(c)
  BY <1>1, <1>5, Zenon DEF AcceptSelect, StoreClient, AcceptReturns, AcceptError, Accept, connVars,
                    serverVars, writerVars, histVars
<1>6. CASE CancelContext \/ CloseStep
  BY <1>1, <1>6, Zenon DEF CancelContext, CloseStep, CloseStartRange, CloseListener, CloseReports,
                    CloseReturns, CloseClient, connVars, serverVars, writerVars, histVars
<1> USE WriterFacts
<1>7. CASE Spawn
  <2>1. /\ accConn \in Writers /\ pc' = [pc EXCEPT ![accConn] = "select"]
        /\ UNCHANGED <<wire, sent, inbox, msgCh, received, msg, target, seen>>
    BY <1>7, Zenon DEF Spawn, TypeOK, connVars, histVars
  <2>2. QuietOf(accConn)
    BY <2>1, Zenon DEF TypeOK, WriterTypes, QuietOf, Casting
  <2> QED BY <1>2, <2>1, <2>2, Zenon DEF TypeOK, WriterTypes
<1>8. ASSUME NEW c \in Clients, HandlerSelect(c) \/ ReadFails(c) \/ GiveUpSend(c)
      PROVE  Quiet
  <2>1. /\ UNCHANGED <<wire, sent, inbox, msgCh, received, target, seen>>
        /\ pc'[c] \in {"done", "read"}
        /\ \A w \in Writers \ {c} : pc'[w] = pc[w] /\ msg'[w] = msg[w]
    BY <1>8, Zenon DEF HandlerSelect, ReadFails, GiveUpSend, ForgetMessage, TypeOK, WriterTypes,
                connVars, histVars
  <2>2. QuietOf(c)
    BY <2>1, Zenon DEF QuietOf, Casting
  <2> QED BY <1>2, <2>1, <2>2, Zenon
<1>9. CASE WriteMessageReturns
  <2>1. /\ UNCHANGED <<wire, sent, inbox, msgCh, received, target, seen>>
        /\ pc'[Owner] = "none"
        /\ \A w \in Writers \ {Owner} : pc'[w] = pc[w] /\ msg'[w] = msg[w]
    BY <1>9, Zenon DEF WriteMessageReturns, ForgetMessage, TypeOK, WriterTypes, connVars,
                serverVars, histVars
  <2>2. QuietOf(Owner)
    BY <2>1, Zenon DEF QuietOf, Casting
  <2> QED BY <1>2, <2>1, <2>2, Zenon
<1>10. ASSUME NEW w \in Writers, BroadcastStep(w), ~Write(w) PROVE Quiet
  <2>1. CASE WriteFails(w) \/ DropClient(w)
    <3>1. /\ UNCHANGED <<wire, sent, inbox, msgCh, received, msg, target, seen>>
          /\ pc[w] \in {"write", "drop"} /\ pc'[w] \in {"drop", "range"}
          /\ \A v \in Writers \ {w} : pc'[v] = pc[v]
      BY <2>1 DEF WriteFails, DropClient, TypeOK, WriterTypes, connVars, serverVars, histVars
    <3>2. QuietOf(w)
      BY <3>1, Zenon DEF QuietOf, Casting, Owes
    <3> QED BY <1>2, <3>1, <3>2, Zenon
  <2>2. CASE EndRange(w)
    <3>1. /\ UNCHANGED <<wire, sent, inbox, msgCh, received, msg>>
          /\ pc[w] = "range" /\ pc'[w] \in {"return", "send"}
          /\ \A v \in Writers \ {w} : pc'[v] = pc[v] /\ target'[v] = target[v]
                                       /\ seen'[v] = seen[v]
      BY <2>2, Zenon DEF EndRange, LeaveRange, TypeOK, WriterTypes, connVars, serverVars, histVars
    <3>2. QuietOf(w)
      BY <3>1, Zenon DEF QuietOf, Casting
    <3> QED BY <1>2, <3>1, <3>2, Zenon
  <2>3. ASSUME NEW c \in Clients, Visit(w, c) PROVE Quiet
    <3>1. /\ UNCHANGED <<wire, sent, inbox, msgCh, received, msg>>
          /\ pc[w] = "range" /\ pc'[w] = "write" /\ target'[w] = c
          /\ c \notin seen[w] /\ seen'[w] = seen[w] \cup {c}
          /\ \A v \in Writers \ {w} : pc'[v] = pc[v] /\ target'[v] = target[v]
                                       /\ seen'[v] = seen[v]
      BY <2>3, Zenon DEF Visit, TypeOK, WriterTypes, connVars, serverVars, histVars
    <3>2. QuietOf(w)
      BY <3>1, Zenon DEF QuietOf, Casting, Owes
    <3> QED BY <1>2, <3>1, <3>2, Zenon
  <2> QED BY <1>10, <2>1, <2>2, <2>3, Zenon DEF BroadcastStep
<1> QED
  BY <1>3, <1>4, <1>5, <1>6, <1>7, <1>8, <1>9, <1>10, Zenon
     DEF Next, AcceptStep, HandlerStep, Loud

\* What has been taken is a number.
LEMMA TakenNat == ASSUME TypeOK, InHandInv, NEW w \in Writers PROVE Taken(w) \in Nat
<1>1. CASE w = Owner
  BY <1>1, Zenon DEF Taken, TypeOK
<1>2. CASE w \in Clients
  <2>1. sent[w] \in Nat /\ Len(wire[w]) \in Nat /\ Len(wire[w]) <= sent[w]
    BY <1>2 DEF TypeOK, InHandInv
  <2> QED BY <1>2, <2>1, WriterFacts DEF Taken
<1> QED BY <1>1, <1>2, Zenon DEF Writers

\* q holds the last messages of the n that c has sent.
LastOf(c, q, n) ==
    /\ Len(q) <= n
    /\ \A i \in 1 .. Len(q) : q[i] = <<c, n - Len(q) + i>>

\* Sending appends the next one.
LEMMA LastSend ==
    ASSUME NEW c \in Writers, NEW q \in Seq(Msgs), NEW n \in Nat, LastOf(c, q, n),
           NEW r, r = Append(q, <<c, n + 1>>)
    PROVE  Len(r) = Len(q) + 1 /\ LastOf(c, r, n + 1)
<1>1. <<c, n + 1>> \in Msgs
  BY DEF Msgs
<1>2. r \in Seq(Msgs) /\ Len(r) = Len(q) + 1 /\ Len(q) \in Nat
  BY <1>1
<1>3. \A i \in 1 .. Len(q) : r[i] = q[i]
  BY <1>1
<1>4. r[Len(q) + 1] = <<c, n + 1>>
  BY <1>1
<1>5. ASSUME NEW i \in 1 .. Len(r) PROVE r[i] = <<c, (n + 1) - Len(r) + i>>
  <2>1. (n + 1) - Len(r) + i = n - Len(q) + i
    BY <1>2
  <2>2. CASE i \in 1 .. Len(q)
    BY <1>3, <2>1, <2>2, Zenon DEF LastOf
  <2>3. CASE i = Len(q) + 1
    <3>1. n - Len(q) + i = n + 1
      BY <1>2, <2>3
    <3> QED BY <1>4, <2>1, <2>3, <3>1, Zenon
  <2> QED BY <1>2, <2>2, <2>3
<1>6. Len(r) <= n + 1
  BY <1>2 DEF LastOf
<1> QED BY <1>2, <1>5, <1>6, Zenon DEF LastOf

\* r is what is left of q without its first element.
IsTailOf(r, q) == Len(r) = Len(q) - 1 /\ \A i \in 1 .. Len(r) : r[i] = q[i + 1]

\* Reading takes the first of them, which is the one after those taken, and leaves r.
LEMMA LastRead ==
    ASSUME NEW c \in Writers, NEW q \in Seq(Msgs), NEW n \in Nat, LastOf(c, q, n),
           NEW r \in Seq(Msgs), IsTailOf(r, q)
    PROVE  LastOf(c, r, n) /\ q[1] = <<c, n - Len(r)>>
<1>1. Len(q) \in Nat \ {0} /\ Len(r) \in Nat /\ Len(r) = Len(q) - 1
  BY DEF IsTailOf
<1>2. ASSUME NEW i \in 1 .. Len(r) PROVE r[i] = <<c, n - Len(r) + i>>
  <2>1. n - Len(r) + i = n - Len(q) + (i + 1) /\ i + 1 \in 1 .. Len(q)
    BY <1>1
  <2>2. r[i] = q[i + 1]
    BY Zenon DEF IsTailOf
  <2>3. q[i + 1] = <<c, n - Len(q) + (i + 1)>>
    BY <2>1, Zenon DEF LastOf
  <2> QED BY <2>1, <2>2, <2>3, Zenon
<1>3. n - Len(r) = n - Len(q) + 1 /\ 1 \in 1 .. Len(q)
  BY <1>1
<1>4. q[1] = <<c, n - Len(q) + 1>>
  BY <1>3, Zenon DEF LastOf
<1>5. Len(r) <= n
  BY <1>1 DEF LastOf
<1> QED BY <1>2, <1>3, <1>4, <1>5, Zenon DEF LastOf

\* The step that takes a message of w.
Takes(w) ==
    \/ w \in Clients /\ ReadMessageOf(w)
    \/ w = Owner /\ WriteMessage

\* A message is taken by Takes alone, and the invariant is preserved.
LEMMA InHandStep ==
    ASSUME TypeOK, InHandInv, Quiet \/ Loud
    PROVE  /\ InHandInv'
           /\ \A w \in Writers : Taken(w)' = IF Takes(w) THEN Taken(w) + 1 ELSE Taken(w)
<1> USE WriterFacts
<1> DEFINE Wired(c) == LastOf(c, wire[c], sent[c])
           InHand(w) == pc[w] \in Casting \cup {"send", "return"} => msg[w] = <<w, Taken(w)>>
           Goal == /\ \A c \in Clients : Wired(c)'
                   /\ \A w \in Writers :
                        /\ InHand(w)'
                        /\ Taken(w)' = IF Takes(w) THEN Taken(w) + 1 ELSE Taken(w)
<1>1. /\ \A c \in Clients : wire[c] \in Seq(Msgs) /\ Len(wire[c]) \in Nat
      /\ \A w \in Writers : sent[w] \in Nat
  BY DEF TypeOK
<1>2. (\A c \in Clients : Wired(c)) /\ \A w \in Writers : InHand(w) /\ Taken(w) \in Nat
  BY TakenNat, Zenon DEF InHandInv, LastOf
<1>3. SUFFICES Goal
  BY Zenon DEF InHandInv, LastOf
<1>4. ASSUME NEW c \in Clients, wire'[c] = wire[c], sent'[c] = sent[c]
      PROVE  Wired(c)' /\ Taken(c)' = Taken(c)
  BY <1>2, <1>4, Zenon DEF Taken
<1>5. ASSUME UNCHANGED <<wire, sent>>
      PROVE  (\A c \in Clients : Wired(c)') /\ \A w \in Writers : Taken(w)' = Taken(w)
  BY <1>2, <1>5, Zenon DEF Taken
<1>6. ASSUME NEW w \in Writers, Takes(w)
      PROVE  /\ pc[w] # pc'[w] /\ pc'[w] = "range" /\ UNCHANGED <<msgCh, inbox>>
             /\ (w = Owner => sent'[Owner] # sent[Owner]) /\ (w \in Clients => sent' = sent)
             /\ \A v \in Writers : v # w => pc'[v] = pc[v]
  BY <1>1, <1>6 DEF Takes, ReadMessageOf, WriteMessage, StartRange, TypeOK, WriterTypes,
                    serverVars, connVars
<1>61. ASSUME NEW w \in Clients, Takes(w) PROVE wire' # wire
  <2>1. wire'[w] = Tail(wire[w]) /\ wire[w] # <<>>
    BY <1>61, Zenon DEF Takes, ReadMessageOf, Consume, TypeOK
  <2>2. Len(wire'[w]) = Len(wire[w]) - 1
    BY <1>1, <2>1
  <2> QED BY <1>1, <2>2
<1>7. CASE Quiet
  <2>1. UNCHANGED <<wire, sent>> /\ \A w \in Writers : ~Takes(w)
    BY <1>6, <1>61, <1>7, Zenon DEF Quiet, Writers
  <2>2. \A w \in Writers : InHand(w)'
    BY <1>2, <1>5, <1>7, <2>1, Zenon DEF Quiet, QuietOf
  <2> QED BY <1>5, <2>1, <2>2, Zenon
<1>8. ASSUME NEW c \in Clients, PeerSends(c) PROVE Goal
  <2>1. /\ sent' = [sent EXCEPT ![c] = sent[c] + 1]
        /\ wire' = [wire EXCEPT ![c] = Append(wire[c], <<c, sent[c] + 1>>)]
        /\ UNCHANGED <<pc, msg>>
    BY <1>8, Zenon DEF PeerSends, threadVars, writerVars
  <2>2. \A w \in Writers : ~Takes(w)
    BY <1>6, <2>1, Zenon
  <2>3. sent'[c] = sent[c] + 1 /\ wire'[c] = Append(wire[c], <<c, sent[c] + 1>>)
    BY <2>1, Zenon DEF TypeOK
  <2>4. Len(wire'[c]) = Len(wire[c]) + 1 /\ Wired(c)'
    <3>1. c \in Writers /\ wire[c] \in Seq(Msgs) /\ sent[c] \in Nat
          /\ LastOf(c, wire[c], sent[c])
      BY <1>1, <1>2, Zenon
    <3>2. Len(wire'[c]) = Len(wire[c]) + 1 /\ LastOf(c, wire'[c], sent[c] + 1)
      BY <2>3, <3>1, LastSend, Zenon
    <3> QED BY <2>3, <3>2, Zenon
  <2> HIDE DEF Wired
  <2>5. Taken(c)' = Taken(c)
    <3>1. sent'[c] - Len(wire'[c]) = sent[c] - Len(wire[c])
      <4>1. sent'[c] = sent[c] + 1
        BY <2>3, Zenon
      <4> QED BY <1>1, <2>4, <4>1
    <3> QED BY <3>1, Zenon DEF Taken
  <2>6. \A d \in Clients : Wired(d)' /\ Taken(d)' = Taken(d)
    BY <1>4, <2>1, <2>4, <2>5, Zenon DEF TypeOK
  <2>7. Taken(Owner)' = Taken(Owner)
    BY <2>1, Zenon DEF Taken, TypeOK
  <2> QED BY <1>2, <2>1, <2>2, <2>6, <2>7, Zenon DEF Writers
<1>9. ASSUME NEW c \in Clients, ReadMessageOf(c) PROVE Goal
  <2>1. /\ sent' = sent /\ wire[c] # <<>>
        /\ wire' = [wire EXCEPT ![c] = Tail(wire[c])]
        /\ pc' = [pc EXCEPT ![c] = "range"] /\ msg' = [msg EXCEPT ![c] = Head(wire[c])]
    BY <1>9, Zenon DEF ReadMessageOf, Consume, StartRange
  <2>2. wire'[c] = Tail(wire[c]) /\ msg'[c] = Head(wire[c])
    BY <2>1, Zenon DEF TypeOK, WriterTypes
  <2>3. /\ Len(wire'[c]) = Len(wire[c]) - 1 /\ Wired(c)'
        /\ msg'[c] = <<c, sent[c] - Len(wire'[c])>>
    <3>1. c \in Writers /\ wire[c] \in Seq(Msgs) /\ sent[c] \in Nat
          /\ LastOf(c, wire[c], sent[c]) /\ wire[c] # <<>>
      BY <1>1, <1>2, <2>1, Zenon
    <3>2. /\ wire'[c] \in Seq(Msgs) /\ IsTailOf(wire'[c], wire[c])
          /\ msg'[c] = wire[c][1]
      BY <2>2, <3>1 DEF IsTailOf
    <3>3. LastOf(c, wire'[c], sent[c]) /\ wire[c][1] = <<c, sent[c] - Len(wire'[c])>>
      BY <3>1, <3>2, LastRead
    <3> QED BY <2>1, <3>2, <3>3, Zenon DEF IsTailOf
  <2>4. Takes(c) /\ \A w \in Writers \ {c} : ~Takes(w)
    <3>1. Takes(c)
      BY <1>9, Zenon DEF Takes
    <3> QED BY <1>6, <3>1, Zenon
  <2> HIDE DEF Wired
  <2>5. Taken(c)' = Taken(c) + 1 /\ msg'[c] = <<c, Taken(c)'>>
    <3>1. sent[c] - Len(wire'[c]) = sent[c] - Len(wire[c]) + 1 /\ sent'[c] = sent[c]
      BY <1>1, <2>3, <2>1
    <3> QED BY <2>3, <3>1, Zenon DEF Taken
  <2>6. \A d \in Clients : Wired(d)' /\ (d # c => Taken(d)' = Taken(d))
    BY <1>4, <2>1, <2>3, Zenon DEF TypeOK
  <2>7. Taken(Owner)' = Taken(Owner)
    BY <2>1, Zenon DEF Taken, TypeOK
  <2>8. \A w \in Writers \ {c} : Taken(w)' = Taken(w) /\ pc'[w] = pc[w] /\ msg'[w] = msg[w]
    BY <2>1, <2>6, <2>7, Zenon DEF Writers, TypeOK, WriterTypes
  <2> QED BY <1>2, <2>4, <2>5, <2>6, <2>8, Zenon
<1>10. CASE WriteMessage
  <2>1. /\ wire' = wire /\ sent' = [sent EXCEPT ![Owner] = sent[Owner] + 1]
        /\ pc' = [pc EXCEPT ![Owner] = "range"]
        /\ msg' = [msg EXCEPT ![Owner] = <<Owner, sent[Owner] + 1>>]
    BY <1>10, Zenon DEF WriteMessage, StartRange
  <2>2. \A d \in Clients : Wired(d)' /\ Taken(d)' = Taken(d)
    BY <1>4, <2>1, Zenon DEF TypeOK
  <2>3. Taken(Owner)' = Taken(Owner) + 1 /\ msg'[Owner] = <<Owner, Taken(Owner)'>>
    <3>1. sent'[Owner] = sent[Owner] + 1 /\ msg'[Owner] = <<Owner, sent[Owner] + 1>>
      BY <2>1, Zenon DEF TypeOK, WriterTypes
    <3> QED BY <3>1, Zenon DEF Taken
  <2>4. Takes(Owner) /\ \A w \in Writers \ {Owner} : ~Takes(w)
    <3>1. Takes(Owner)
      BY <1>10, Zenon DEF Takes
    <3> QED BY <1>6, <3>1, Zenon
  <2>5. \A w \in Writers \ {Owner} : Taken(w)' = Taken(w) /\ pc'[w] = pc[w] /\ msg'[w] = msg[w]
    BY <2>1, <2>2, Zenon DEF Writers, TypeOK, WriterTypes
  <2> QED BY <1>2, <2>2, <2>3, <2>4, <2>5, Zenon
<1>11. ASSUME UNCHANGED <<wire, sent>>,
              \A w \in Writers : pc'[w] \in Casting \cup {"send", "return"} =>
                pc[w] \in Casting \cup {"send", "return"} /\ msg'[w] = msg[w]
       PROVE  Goal
  <2>1. \A w \in Writers : ~Takes(w)
    BY <1>6, <1>61, <1>11, Zenon DEF Writers
  <2> QED BY <1>2, <1>5, <1>11, <2>1, Zenon
<1>12. CASE ReadMessage
  BY <1>11, <1>12, Zenon DEF ReadMessage, connVars, threadVars, writerVars
<1>13. CASE \E w \in Writers : Write(w)
  BY <1>11, <1>13 DEF Write, TypeOK, WriterTypes, Casting
<1>14. CASE \E c \in Clients : SendToChannel(c)
  BY <1>11, <1>14 DEF SendToChannel, ForgetMessage, connVars, TypeOK, WriterTypes, Casting
<1> QED BY <1>7, <1>8, <1>9, <1>10, <1>12, <1>13, <1>14, Zenon DEF Loud

\* m is later than every message of its sender in q.
Latest(q, m) == \A i \in 1 .. Len(q) : q[i][1] = m[1] => q[i][2] < m[2]

\* A message after all those of its sender keeps a sequence in order.
LEMMA OrderAppend ==
    ASSUME NEW q \in Seq(Msgs), NEW m \in Msgs, InSenderOrder(q), Latest(q, m)
    PROVE  /\ InSenderOrder(Append(q, m)) /\ Len(Append(q, m)) = Len(q) + 1
           /\ \A i \in 1 .. Len(q) : Append(q, m)[i] = q[i]
           /\ Append(q, m)[Len(q) + 1] = m
<1> DEFINE r == Append(q, m)
<1>1. /\ r \in Seq(Msgs) /\ Len(r) = Len(q) + 1 /\ Len(q) \in Nat
      /\ DOMAIN r = 1 .. Len(r) /\ DOMAIN q = 1 .. Len(q)
      /\ \A i \in 1 .. Len(q) : r[i] = q[i]
      /\ r[Len(q) + 1] = m
  OBVIOUS
<1> HIDE DEF r
<1>2. ASSUME NEW i \in DOMAIN r, NEW j \in DOMAIN r, i < j, r[i][1] = r[j][1]
      PROVE  r[i][2] < r[j][2]
  <2>1. i \in 1 .. Len(q)
    BY <1>1, <1>2
  <2>2. CASE j \in 1 .. Len(q)
    BY <1>1, <1>2, <2>1, <2>2, Zenon DEF InSenderOrder
  <2>3. CASE j = Len(q) + 1
    BY <1>1, <1>2, <2>1, <2>3, Zenon DEF Latest
  <2> QED BY <1>1, <2>2, <2>3
<1>3. InSenderOrder(r)
  BY <1>2, Zenon DEF InSenderOrder
<1> QED BY <1>1, <1>3, Zenon DEF r

\* A message has a writer and a number.
LEMMA Elements ==
    ASSUME NEW q \in Seq(Msgs), NEW i \in 1 .. Len(q)
    PROVE  q[i] \in Msgs /\ q[i][1] \in Writers /\ q[i][2] \in Nat
<1>1. q[i] \in Msgs
  OBVIOUS
<1> QED BY <1>1, Zenon DEF Msgs

\* Steps other than Write deliver nothing; a goroutine that begins a broadcast has
\* just taken a message.
LEMMA InboxFrame ==
    ASSUME TypeOK, Quiet \/ Loud, \A w \in Writers : ~Write(w)
    PROVE  /\ inbox' = inbox
           /\ \A w \in Writers, c \in Clients : Owes(w, c)' => Owes(w, c) \/ Takes(w)
<1> USE WriterFacts
<1>1. CASE Quiet
  BY <1>1, Zenon DEF Quiet, QuietOf, Owes
<1>2. CASE \/ ReadMessage
           \/ \E c \in Clients : PeerSends(c) \/ SendToChannel(c)
  <2>1. /\ UNCHANGED <<inbox, target, seen>>
        /\ \A w \in Writers : pc'[w] = pc[w] \/ pc'[w] = "select"
    BY <1>2 DEF ReadMessage, PeerSends, SendToChannel, connVars, threadVars, writerVars,
                TypeOK, WriterTypes
  <2> QED BY <2>1, Zenon DEF Owes, Casting
<1>3. ASSUME NEW c \in Clients, ReadMessageOf(c)
      PROVE  /\ inbox' = inbox
             /\ \A w \in Writers, d \in Clients : Owes(w, d)' => Owes(w, d) \/ Takes(w)
  <2>1. /\ UNCHANGED <<inbox, target>> /\ Takes(c)
        /\ \A w \in Writers \ {c} : pc'[w] = pc[w] /\ seen'[w] = seen[w]
    BY <1>3, Zenon DEF ReadMessageOf, StartRange, Takes, TypeOK, WriterTypes
  <2> QED BY <2>1, Zenon DEF Owes
<1>4. CASE WriteMessage
  <2>1. /\ UNCHANGED <<inbox, target>> /\ Takes(Owner)
        /\ \A w \in Writers \ {Owner} : pc'[w] = pc[w] /\ seen'[w] = seen[w]
    BY <1>4, Zenon DEF WriteMessage, StartRange, Takes, TypeOK, WriterTypes
  <2> QED BY <2>1, Zenon DEF Owes
<1> QED BY <1>1, <1>2, <1>3, <1>4, Zenon DEF Loud

\* Every step preserves InboxInv.
LEMMA InboxStep ==
    ASSUME TypeOK, AcceptInv, InHandInv, InboxInv, Quiet \/ Loud
    PROVE  InboxInv'
<1> DEFINE Fine(c, m) ==
      m[1] # c /\ m[2] <= Taken(m[1]) /\ (Owes(m[1], c) => m[2] < Taken(m[1]))
<1>0. \A c \in Clients :
        InSenderOrder(inbox[c]) /\ \A i \in 1 .. Len(inbox[c]) : Fine(c, inbox[c][i])
  BY Zenon DEF InboxInv
<1>1. SUFFICES ASSUME NEW c \in Clients
               PROVE  /\ InSenderOrder(inbox'[c])
                      /\ \A i \in 1 .. Len(inbox'[c]) : Fine(c, inbox[c][i])'
  BY Zenon DEF InboxInv
<1>2. inbox[c] \in Seq(Msgs) /\ \A w \in Writers : Taken(w) \in Nat
  BY TakenNat, Zenon DEF TypeOK
<1>3. \A w \in Writers : Taken(w)' = IF Takes(w) THEN Taken(w) + 1 ELSE Taken(w)
  BY InHandStep, Zenon
<1>4. ASSUME \A w \in Writers : Owes(w, c)' => Owes(w, c) \/ Takes(w)
      PROVE  \A i \in 1 .. Len(inbox[c]) : \A w \in Writers : inbox[c][i][1] = w =>
               /\ w # c /\ inbox[c][i][2] <= Taken(w)'
               /\ Owes(w, c)' => inbox[c][i][2] < Taken(w)'
  <2> SUFFICES ASSUME NEW i \in 1 .. Len(inbox[c]), NEW w \in Writers, inbox[c][i][1] = w
               PROVE  /\ w # c /\ inbox[c][i][2] <= Taken(w)'
                      /\ Owes(w, c)' => inbox[c][i][2] < Taken(w)'
    BY Zenon
  <2>1. /\ inbox[c][i][2] \in Nat /\ w # c /\ inbox[c][i][2] <= Taken(w)
        /\ Owes(w, c) => inbox[c][i][2] < Taken(w)
    BY <1>0, <1>2, Elements, Zenon
  <2> QED BY <1>2, <1>3, <1>4, <2>1
<1>5. CASE \A w \in Writers : ~Write(w)
  <2>1. inbox' = inbox /\ \A w \in Writers : Owes(w, c)' => Owes(w, c) \/ Takes(w)
    BY <1>5, InboxFrame, Zenon
  <2> QED BY <1>0, <1>2, <1>4, <2>1, Elements, Zenon
<1>6. ASSUME NEW w \in Writers, Write(w)
      PROVE  /\ InSenderOrder(inbox'[c])
             /\ \A i \in 1 .. Len(inbox'[c]) : Fine(c, inbox[c][i])'
  <2>1. /\ pc[w] = "write" /\ pc'[w] = "range" /\ UNCHANGED <<seen, target>>
        /\ \A v \in Writers \ {w} : pc'[v] = pc[v]
        /\ inbox' = [inbox EXCEPT ![target[w]] = Append(@, msg[w])]
    BY <1>6, Zenon DEF Write, TypeOK, WriterTypes
  <2>2. target[w] \in seen[w] \ {w} /\ target[w] \in Clients
    BY <2>1, Zenon DEF AcceptInv, TypeOK, WriterTypes
  <2>3. \A v \in Writers : Owes(v, c)' => Owes(v, c)
    BY <2>1, Zenon DEF Owes, Casting
  <2>4. CASE c # target[w]
    <3>1. inbox'[c] = inbox[c]
      BY <2>1, <2>4, Zenon DEF TypeOK
    <3> QED BY <1>0, <1>2, <1>4, <2>3, <3>1, Elements, Zenon
  <2>5. CASE c = target[w]
    <3>1. inbox'[c] = Append(inbox[c], msg[w])
      BY <2>1, <2>2, <2>5, Zenon DEF TypeOK
    <3>2. msg[w] = <<w, Taken(w)>> /\ msg[w] \in Msgs /\ Owes(w, c) /\ ~Owes(w, c)'
      BY <2>1, <2>2, <2>5, Zenon DEF InHandInv, Casting, Owes, TypeOK, WriterTypes
    <3>3. Latest(inbox[c], msg[w])
      BY <1>0, <3>2 DEF Latest
    <3>4. /\ InSenderOrder(inbox'[c]) /\ Len(inbox'[c]) = Len(inbox[c]) + 1
          /\ \A i \in 1 .. Len(inbox[c]) : inbox'[c][i] = inbox[c][i]
          /\ inbox'[c][Len(inbox[c]) + 1] = msg[w]
      <4>1. inbox[c] \in Seq(Msgs) /\ msg[w] \in Msgs /\ InSenderOrder(inbox[c])
        BY <1>0, <1>2, <3>2, Zenon
      <4> HIDE DEF Fine
      <4> QED BY <3>1, <3>3, <4>1, OrderAppend
    <3>5. ASSUME NEW i \in 1 .. Len(inbox'[c]) PROVE Fine(c, inbox[c][i])'
      <4>1. CASE i \in 1 .. Len(inbox[c])
        BY <1>2, <1>4, <2>3, <3>4, <4>1, Elements, Zenon
      <4>2. CASE i = Len(inbox[c]) + 1
        <5>1. inbox'[c][i] = <<w, Taken(w)>>
          BY <3>2, <3>4, <4>2, Zenon
        <5>2. w # c /\ Taken(w) <= Taken(w)'
          BY <1>2, <1>3, <2>2, <2>5
        <5> QED BY <3>2, <5>1, <5>2
      <4> QED BY <1>2, <3>4, <4>1, <4>2
    <3> QED BY <3>4, <3>5, Zenon
  <2> QED BY <2>4, <2>5, Zenon
<1> QED BY <1>5, <1>6, Zenon

\* What ReadMessage has returned and will return only grows, by SendToChannel.
LEMMA ChannelFrame ==
    ASSUME TypeOK, Quiet \/ Loud, \A c \in Clients : ~SendToChannel(c)
    PROVE  /\ received' \o msgCh' = received \o msgCh
           /\ \A w \in Writers : pc'[w] \in Casting \cup {"send"} =>
                pc[w] \in Casting \cup {"send"} \/ Takes(w)
<1> USE WriterFacts
<1>1. CASE Quiet
  BY <1>1, Zenon DEF Quiet, QuietOf
<1>2. CASE ReadMessage
  <2>1. received' = Append(received, Head(msgCh)) /\ msgCh' = Tail(msgCh) /\ msgCh # <<>>
        /\ pc' = pc
    BY <1>2, Zenon DEF ReadMessage, threadVars, writerVars
  <2>2. received \in Seq(Msgs) /\ msgCh \in Seq(Msgs)
    BY Zenon DEF TypeOK
  <2>3. received' \o msgCh' = received \o msgCh
    BY <2>1, <2>2
  <2> QED BY <2>1, <2>3, Zenon
<1>3. CASE \E c \in Clients : PeerSends(c)
  BY <1>3, Zenon DEF PeerSends, serverVars, threadVars, writerVars, histVars
<1>4. CASE \E w \in Writers : Write(w)
  BY <1>4 DEF Write, serverVars, histVars, TypeOK, WriterTypes, Casting
<1>5. ASSUME NEW w \in Writers, Takes(w)
      PROVE  /\ UNCHANGED <<received, msgCh>>
             /\ \A v \in Writers \ {w} : pc'[v] = pc[v]
  BY <1>5, Zenon DEF Takes, ReadMessageOf, WriteMessage, StartRange, serverVars, histVars, TypeOK,
              WriterTypes
<1>6. CASE WriteMessage \/ \E c \in Clients : ReadMessageOf(c)
  <2>1. PICK w \in Writers : Takes(w)
    BY <1>6, Zenon DEF Takes
  <2> QED BY <1>5, <2>1, Zenon
<1> QED BY <1>1, <1>2, <1>3, <1>4, <1>6, Zenon DEF Loud

\* Appending to the second part appends to the whole.
LEMMA AppendLast ==
    ASSUME NEW a \in Seq(Msgs), NEW b \in Seq(Msgs), NEW e \in Msgs
    PROVE  a \o Append(b, e) = Append(a \o b, e)
OBVIOUS

\* Every step preserves ChannelInv.
LEMMA ChannelStep ==
    ASSUME TypeOK, TypeOK', InHandInv, ChannelInv, Quiet \/ Loud
    PROVE  ChannelInv'
<1> USE WriterFacts
<1> DEFINE q == received \o msgCh
<1>1. /\ InSenderOrder(q) /\ q \in Seq(Msgs) /\ \A w \in Writers : Taken(w) \in Nat
      /\ \A i \in 1 .. Len(q) : \A w \in Writers : q[i][1] = w =>
           /\ q[i][2] <= Taken(w)
           /\ pc[w] \in Casting \cup {"send"} => q[i][2] < Taken(w)
  <2>1. q \in Seq(Msgs)
    BY DEF TypeOK
  <2> QED BY <2>1, TakenNat, Zenon DEF ChannelInv
<1>2. SUFFICES /\ InSenderOrder(q')
               /\ \A i \in 1 .. Len(q') : \A w \in Writers : q'[i][1] = w =>
                    /\ q'[i][2] <= Taken(w)'
                    /\ pc'[w] \in Casting \cup {"send"} => q'[i][2] < Taken(w)'
  <2>1. q' \in Seq(Msgs)
    BY DEF TypeOK
  <2>2. \A i \in 1 .. Len(q') : q'[i][1] \in Writers
    BY <2>1, Elements, Zenon
  <2> QED BY <1>2, <2>2, Zenon DEF ChannelInv
<1>3. \A w \in Writers : Taken(w)' = IF Takes(w) THEN Taken(w) + 1 ELSE Taken(w)
  BY InHandStep, Zenon
<1>4. CASE \A c \in Clients : ~SendToChannel(c)
  <2>1. /\ q' = q
        /\ \A w \in Writers : pc'[w] \in Casting \cup {"send"} =>
             pc[w] \in Casting \cup {"send"} \/ Takes(w)
    BY <1>4, ChannelFrame, Zenon
  <2> HIDE DEF q
  <2>2. ASSUME NEW i \in 1 .. Len(q), NEW w \in Writers, w = q[i][1]
        PROVE  /\ q[i][2] <= Taken(w)'
               /\ pc'[w] \in Casting \cup {"send"} => q[i][2] < Taken(w)'
    <3>1. q[i][2] \in Nat
      BY <1>1, <2>2, Elements, Zenon
    <3> QED BY <1>1, <1>3, <2>1, <2>2, <3>1
  <2> QED BY <1>1, <2>1, <2>2, Zenon
<1>5. ASSUME NEW c \in Clients, SendToChannel(c)
      PROVE  /\ InSenderOrder(q')
             /\ \A i \in 1 .. Len(q') : \A w \in Writers : q'[i][1] = w =>
                  /\ q'[i][2] <= Taken(w)'
                  /\ pc'[w] \in Casting \cup {"send"} => q'[i][2] < Taken(w)'
  <2>1. /\ pc[c] = "send" /\ pc'[c] = "select" /\ received' = received
        /\ \A w \in Writers \ {c} : pc'[w] = pc[w]
        /\ msgCh' = Append(msgCh, msg[c]) /\ UNCHANGED <<wire, sent>>
    BY <1>5 DEF SendToChannel, TypeOK, WriterTypes, histVars, connVars
  <2>2. msg[c] = <<c, Taken(c)>> /\ msg[c] \in Msgs /\ \A w \in Writers : Taken(w)' = Taken(w)
    BY <2>1, Zenon DEF InHandInv, TypeOK, WriterTypes, Taken
  <2>3. q' = Append(q, msg[c])
    <3>1. received \in Seq(Msgs) /\ msgCh \in Seq(Msgs)
      BY Zenon DEF TypeOK
    <3> QED BY <2>1, <2>2, <3>1, AppendLast, Zenon
  <2> HIDE DEF q
  <2>4. Latest(q, msg[c])
    BY <1>1, <2>1, <2>2 DEF Latest
  <2>5. /\ InSenderOrder(q') /\ Len(q') = Len(q) + 1
        /\ \A i \in 1 .. Len(q) : q'[i] = q[i]
        /\ q'[Len(q) + 1] = msg[c]
    BY <1>1, <2>2, <2>3, <2>4, OrderAppend, Zenon
  <2>6. ASSUME NEW i \in 1 .. Len(q'), NEW w \in Writers, w = q'[i][1]
        PROVE  /\ q'[i][2] <= Taken(w)'
               /\ pc'[w] \in Casting \cup {"send"} => q'[i][2] < Taken(w)'
    <3>1. CASE i \in 1 .. Len(q)
      <4>1. w = q[i][1] /\ q'[i] = q[i]
        BY <2>5, <2>6, <3>1, Zenon
      <4>2. pc'[w] \in Casting \cup {"send"} => pc[w] \in Casting \cup {"send"}
        BY <2>1, <4>1, Zenon DEF Casting
      <4> QED BY <1>1, <2>2, <3>1, <4>1, <4>2, Zenon
    <3>2. CASE i = Len(q) + 1
      <4>1. q'[i] = <<c, Taken(c)>> /\ w = c
        BY <2>2, <2>5, <2>6, <3>2
      <4> QED BY <1>1, <2>1, <2>2, <4>1 DEF Casting
    <3> QED BY <1>1, <2>5, <3>1, <3>2
  <2> QED BY <2>5, <2>6, Zenon
<1> QED BY <1>4, <1>5, Zenon

-----------------------------------------------------------------------------
(***************************************************************************)
(* The theorems.                                                           *)
(***************************************************************************)
\* The first states satisfy the invariants about messages.
LEMMA OrderInit == Init => OrderInv
<1> SUFFICES ASSUME Init PROVE OrderInv
  BY Zenon
<1> USE WriterFacts
<1>1. /\ \A c \in Clients : wire[c] = <<>> /\ inbox[c] = <<>> /\ sent[c] = 0
      /\ \A w \in Writers : pc[w] = "none"
      /\ received = <<>> /\ msgCh = <<>>
  BY Zenon DEF Init
<1>2. InHandInv
  BY <1>1 DEF InHandInv, Casting
<1>3. InboxInv
  BY <1>1 DEF InboxInv, InSenderOrder
<1>4. received \o msgCh = <<>>
  BY <1>1
<1>5. ChannelInv
  BY <1>4 DEF ChannelInv, InSenderOrder
<1> QED BY <1>2, <1>3, <1>5, Zenon DEF OrderInv

\* The invariants of the messages hold in every reachable state.
THEOREM OrderInvariant == Spec => [](TypeOK /\ OrderInv)
<1>1. TypeOK /\ AcceptInv /\ OrderInv /\ [Next]_vars => OrderInv'
  <2> SUFFICES ASSUME TypeOK, AcceptInv, OrderInv, [Next]_vars PROVE OrderInv'
    BY Zenon
  <2>1. TypeOK'
    BY TypeStep, Zenon
  <2>2. Quiet \/ Loud
    BY QuietOrLoud, Zenon
  <2> QED
    BY <2>1, <2>2, InHandStep, InboxStep, ChannelStep, Zenon DEF OrderInv
<1> QED
  BY <1>1, TypeInit, TypeStep, AcceptInit, AcceptStepInv, OrderInit, PTL DEF Spec

\* Every client, and the reader of msgCh, sees the messages of one sender in the order
\* they were sent and none twice.
THEOREM SendersStayInOrder == Spec => []SenderOrder
<1>1. OrderInv => SenderOrder
  BY Zenon DEF OrderInv, InboxInv, ChannelInv, SenderOrder
<1> QED BY <1>1, OrderInvariant, PTL

\* No client gets its own message back from the broadcast.
THEOREM NothingEchoes == Spec => []NoEcho
<1>1. TypeOK /\ OrderInv => NoEcho
  <2> SUFFICES ASSUME TypeOK, OrderInv, NEW c \in Clients, NEW i \in DOMAIN inbox[c]
               PROVE  inbox[c][i][1] # c
    BY Zenon DEF NoEcho
  <2>1. inbox[c] \in Seq(Msgs)
    BY Zenon DEF TypeOK
  <2>2. i \in 1 .. Len(inbox[c])
    BY <2>1
  <2> QED BY <2>2, Zenon DEF OrderInv, InboxInv
<1> QED BY <1>1, OrderInvariant, PTL
=============================================================================
