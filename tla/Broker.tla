------------------------------- MODULE Broker -------------------------------
(***************************************************************************)
(* The message broker (src/message_broker.go): which TCP transports exist, *)
(* which of them the broker holds a protocol for, and what the store says  *)
(* about them, while leadership, configuration and connections change.     *)
(*                                                                         *)
(* All handlers of the broker run on the application's main thread.  Other *)
(* goroutines reach it only through handle.DoInMainThread, a FIFO queue of *)
(* tasks.  A handler may make several calls with effects that other        *)
(* goroutines see or race with (closing a connection, then swapping the    *)
(* disconnected flag).  `agenda` is what is left of the protocol.Close or  *)
(* the setupTcpTransport that the handler is in, `phase` what it does      *)
(* after that; the main thread starts nothing else before both are over.   *)
(*                                                                         *)
(* A transport is a number; its entity is in ent.  The protocol that the   *)
(* broker keeps for an entity is identified with its transport.            *)
(***************************************************************************)
EXTENDS Integers, Sequences, FiniteSets

CONSTANTS
    Entities,       \* the QdpTcpTransport entities of the store
    Clients,        \* those whose IsClient field is true; the others listen
    MaxTransports,  \* bound: transports created in a run
    MaxEvents       \* bound: elections won and configuration changes, together

Transports == 1 .. MaxTransports

None == 0  \* no transport

ASSUME EntitiesAssumption ==
    IsFiniteSet(Entities) /\ Entities # {} /\ Clients \subseteq Entities

ASSUME BoundsAssumption ==
    MaxTransports \in Nat /\ MaxEvents \in Nat

VARIABLES
    isLeader,   \* w.isLeader
    stopped,    \* Deinit has run
    bound,      \* the notification tokens are registered
    enabled,    \* store: IsEnabled of each entity
    connected,  \* store: IsConnected of each entity
    protocols,  \* w.protocolsByEntity
    tasks,      \* the queue of DoInMainThread
    notifs,     \* IsEnabled notifications not yet delivered
    agenda,     \* the calls left of the Close or setup that a handler is in
    phase,      \* what the handler does once the agenda is empty
    toSetup,    \* the entities that setup has still to come to
    made,       \* how many transports have been created
    ent,        \* entity of each transport
    open,       \* its connection or listener is open
    dropped,    \* its peer is gone, or Accept fails
    flag,       \* t.disconnected
    loop,       \* the goroutine that reads or accepts on it
    reported,   \* history: how often OnDisconnect was called for it
    events      \* elections and configuration changes so far

mainVars == <<isLeader, stopped, bound, protocols, connected>>
userVars == <<enabled, notifs, events>>
transVars == <<made, ent, open, dropped, flag, loop, reported>>
handlerVars == <<agenda, phase, toSetup>>
vars == <<mainVars, userVars, transVars, tasks, handlerVars>>

Init ==
    /\ isLeader = FALSE /\ stopped = FALSE /\ bound = FALSE
    /\ enabled \in [Entities -> BOOLEAN]
    /\ connected = [e \in Entities |-> FALSE]
    /\ protocols = [e \in Entities |-> None]
    /\ tasks = <<>> /\ notifs = <<>>
    /\ agenda = <<>> /\ phase = "end" /\ toSetup = {}
    /\ made = 0
    /\ ent = [t \in Transports |-> CHOOSE e \in Entities : TRUE]  \* until it is made
    /\ open = [t \in Transports |-> FALSE]
    /\ dropped = [t \in Transports |-> FALSE]
    /\ flag = [t \in Transports |-> FALSE]
    /\ loop = [t \in Transports |-> "none"]
    /\ reported = [t \in Transports |-> 0]
    /\ events = 0

-----------------------------------------------------------------------------
(***************************************************************************)
(* Transports (src/lib/go/transport_tcp.go).                               *)
(***************************************************************************)
IsClient(t) == ent[t] \in Clients

\* The calls of protocol.Close, in order: close the connection or listener,
\* swap the flag and report, and, for a server, wait for the accept loop.  Every
\* handler that closes a protocol then deletes it from the map.
\* mutant: the wait comes before the listener is closed
CloseCallsWaitFirst(t) ==
    IF IsClient(t) THEN << <<"close", t>>, <<"swap", t>>, <<"delete", t>> >>
    ELSE << <<"wait", t>>, <<"close", t>>, <<"swap", t>>, <<"delete", t>> >>

CloseCalls(t) ==
    IF IsClient(t) THEN << <<"close", t>>, <<"swap", t>>, <<"delete", t>> >>
    ELSE << <<"close", t>>, <<"swap", t>>, <<"wait", t>>, <<"delete", t>> >>

\* OnDisconnect of transport t is called: a task is queued.
Report(t) ==
    /\ tasks' = Append(tasks, <<"disconnect", t>>)
    /\ reported' = [reported EXCEPT ![t] = @ + 1]

Doing(what) == agenda # <<>> /\ Head(agenda)[1] = what

Subject == Head(agenda)[2]

\* The call at the head of the agenda returns.
Done == agenda' = Tail(agenda) /\ UNCHANGED <<phase, toSetup>>

CloseConnection ==
    /\ Doing("close")
    /\ open' = [open EXCEPT ![Subject] = FALSE]
    /\ Done
    /\ UNCHANGED <<mainVars, userVars, tasks, made, ent, dropped, flag, loop, reported>>

\* CompareAndSwap(false, true) and, if it succeeds, OnDisconnect.
\* mutant: the flag is not swapped
ReportWithoutSwap ==
    /\ Doing("swap")
    /\ Done
    /\ Report(Subject)
    /\ UNCHANGED <<mainVars, userVars, made, ent, open, dropped, flag, loop>>

SwapAndReport ==
    /\ Doing("swap")
    /\ Done
    /\ IF flag[Subject] THEN UNCHANGED <<flag, tasks, reported>>
       ELSE flag' = [flag EXCEPT ![Subject] = TRUE] /\ Report(Subject)
    /\ UNCHANGED <<mainVars, userVars, made, ent, open, dropped, loop>>

\* wg.Wait: the accept loop has returned, its own report included.
WaitAcceptLoop ==
    /\ Doing("wait")
    /\ loop[Subject] = "done"
    /\ Done
    /\ UNCHANGED <<mainVars, userVars, transVars, tasks>>

DeleteProtocol ==
    /\ Doing("delete")
    /\ protocols' = [protocols EXCEPT ![ent[Subject]] = None]
    /\ Done
    /\ UNCHANGED <<isLeader, stopped, bound, connected, userVars, transVars, tasks>>

\* ReadMessage of a client transport, or Accept of a server, returns an error:
\* the peer is gone or the broker closed it.  The goroutine that wins the swap
\* reports; between the two it may be preempted.
\* mutant: the loop ends without reporting
LoopFailsSilently(t) ==
    /\ loop[t] = "running"
    /\ dropped[t] \/ ~open[t]
    /\ loop' = [loop EXCEPT ![t] = "done"]
    /\ UNCHANGED <<mainVars, userVars, tasks, handlerVars, made, ent, open, dropped,
                   flag, reported>>

LoopFails(t) ==
    /\ loop[t] = "running"
    /\ dropped[t] \/ ~open[t]
    /\ IsClient(t) => ~flag[t]  \* a later error of a client's loop changes nothing
    /\ IF flag[t]
       THEN loop' = [loop EXCEPT ![t] = "done"] /\ UNCHANGED flag
       ELSE loop' = [loop EXCEPT ![t] = "reporting"] /\ flag' = [flag EXCEPT ![t] = TRUE]
    /\ UNCHANGED <<mainVars, userVars, tasks, handlerVars, made, ent, open, dropped,
                   reported>>

LoopReports(t) ==
    /\ loop[t] = "reporting"
    /\ loop' = [loop EXCEPT ![t] = "done"]
    /\ Report(t)
    /\ UNCHANGED <<mainVars, userVars, handlerVars, made, ent, open, dropped, flag>>

Drop(t) ==
    /\ open[t] /\ ~dropped[t]
    /\ dropped' = [dropped EXCEPT ![t] = TRUE]
    /\ UNCHANGED <<mainVars, userVars, tasks, handlerVars, made, ent, open, flag, loop,
                   reported>>

-----------------------------------------------------------------------------
(***************************************************************************)
(* setupTcpTransport.  Dial and Listen may fail; Listen does when the      *)
(* address is still bound by an earlier transport of the entity.           *)
(***************************************************************************)
AddressFree(e) == \A t \in Transports : ent[t] = e => ~open[t]

setupTcpTransport ==
    /\ Doing("setup")
    /\ LET e == Subject
           t == made + 1 IN
       /\ connected' = [connected EXCEPT ![e] = FALSE]
       /\ \/ agenda' = <<>> /\ UNCHANGED transVars
          \/ /\ enabled[e]
             /\ e \in Clients \/ AddressFree(e)
             /\ made < MaxTransports
             /\ made' = t
             /\ ent' = [ent EXCEPT ![t] = e]
             /\ open' = [open EXCEPT ![t] = TRUE]
             /\ loop' = [loop EXCEPT ![t] = IF e \in Clients THEN "none" ELSE "running"]
             /\ agenda' = << <<"announce", t>> >>
             /\ UNCHANGED <<dropped, flag, reported>>
    /\ UNCHANGED <<isLeader, stopped, bound, protocols, userVars, tasks, phase, toSetup>>

\* The constructor calls OnConnect, which queues a task.
AnnounceTransport ==
    /\ Doing("announce")
    /\ tasks' = Append(tasks, <<"connect", Subject>>)
    /\ Done
    /\ UNCHANGED <<mainVars, userVars, transVars>>

Agenda ==
    \/ CloseConnection \/ SwapAndReport \/ WaitAcceptLoop \/ DeleteProtocol
    \/ setupTcpTransport \/ AnnounceTransport

-----------------------------------------------------------------------------
(***************************************************************************)
(* The handlers.                                                           *)
(***************************************************************************)
Idle == agenda = <<>> /\ phase = "end" /\ ~stopped

Held == {protocols[e] : e \in Entities} \ {None}

SetupCall(e) == << <<"setup", e>> >>

\* A handler's next part once its agenda is empty.
In(p) == agenda = <<>> /\ phase = p

\* teardown, alone or (phase "restart") followed by setup, closes every protocol,
\* in any order of the map's iteration, ...
CloseNext ==
    /\ In("teardown") \/ In("restart")
    /\ \E t \in Held : agenda' = CloseCalls(t)
    /\ UNCHANGED <<mainVars, userVars, transVars, tasks, phase, toSetup>>

\* ... and unbinds the tokens;
Unbind ==
    /\ In("teardown") \/ In("restart")
    /\ Held = {}
    /\ bound' = FALSE
    /\ phase' = IF phase = "restart" THEN "bind" ELSE "end"
    /\ UNCHANGED <<isLeader, stopped, protocols, connected, userVars, transVars, tasks,
                   agenda, toSetup>>

\* setup binds them again ...
Notify ==
    /\ In("bind")
    /\ bound' = TRUE
    /\ phase' = "setup" /\ toSetup' = Entities
    /\ UNCHANGED <<isLeader, stopped, protocols, connected, userVars, transVars, tasks,
                   agenda>>

\* ... and creates the transports, in any order of the query's result.
SetupNext ==
    /\ In("setup")
    /\ \E e \in toSetup :
         /\ agenda' = SetupCall(e)
         /\ toSetup' = toSetup \ {e}
    /\ phase' = IF toSetup' = {} THEN "end" ELSE "setup"
    /\ UNCHANGED <<mainVars, userVars, transVars, tasks>>

Handler == CloseNext \/ Unbind \/ Notify \/ SetupNext

\* The handler that starts goes on with p.
Begin(p) == phase' = p /\ UNCHANGED <<agenda, toSetup>>

OnBecameLeader ==
    /\ Idle /\ ~isLeader
    /\ events < MaxEvents /\ events' = events + 1
    /\ isLeader' = TRUE
    /\ Begin("restart")
    /\ UNCHANGED <<stopped, bound, protocols, connected, enabled, notifs, transVars, tasks>>

OnLosingLeadership ==
    /\ Idle /\ isLeader
    /\ isLeader' = FALSE
    /\ Begin("teardown")
    /\ UNCHANGED <<stopped, bound, protocols, connected, userVars, transVars, tasks>>

\* The store's SchemaUpdateTrigger has fired.
OnSchemaUpdated ==
    /\ Idle /\ bound
    /\ events < MaxEvents /\ events' = events + 1
    /\ isLeader
    /\ Begin("restart")
    /\ UNCHANGED <<mainVars, enabled, notifs, transVars, tasks>>

Deinit ==
    /\ Idle
    /\ stopped' = TRUE
    /\ Begin("teardown")
    /\ UNCHANGED <<isLeader, bound, protocols, connected, userVars, transVars, tasks>>

\* A user writes IsEnabled; the store (external) notifies the broker if it is bound.
SetEnabled(e, b) ==
    /\ events < MaxEvents /\ events' = events + 1
    /\ enabled' = [enabled EXCEPT ![e] = b]
    /\ notifs' = IF bound THEN Append(notifs, <<e, b>>) ELSE notifs
    /\ UNCHANGED <<mainVars, transVars, tasks, handlerVars>>

\* A notification for a token that is no longer bound has no callback.
onTcpTransportIsEnabledChanged ==
    /\ Idle /\ notifs # <<>>
    /\ notifs' = Tail(notifs)
    /\ LET e == Head(notifs)[1]
           isEnabled == Head(notifs)[2]
           existing == protocols[e] IN
       \/ /\ bound /\ ~isEnabled /\ existing # None
          /\ agenda' = CloseCalls(existing)
       \/ /\ bound /\ isEnabled /\ existing = None
          /\ agenda' = SetupCall(e)
       \/ /\ ~bound \/ (isEnabled <=> existing # None)
          /\ UNCHANGED agenda
    /\ UNCHANGED <<mainVars, enabled, events, transVars, tasks, phase, toSetup>>

\* The body of the task that OnConnect queues: a protocol is made for the
\* transport and its receive loop starts.
\* mutant: leadership is not tested
OnConnectUnguarded(t) ==
    /\ connected' = [connected EXCEPT ![ent[t]] = TRUE]
    /\ protocols' = [protocols EXCEPT ![ent[t]] = t]
    /\ loop' = IF IsClient(t) THEN [loop EXCEPT ![t] = "running"] ELSE loop

OnConnect(t) ==
    IF isLeader
    THEN /\ connected' = [connected EXCEPT ![ent[t]] = TRUE]
         /\ protocols' = [protocols EXCEPT ![ent[t]] = t]
         /\ loop' = IF IsClient(t) THEN [loop EXCEPT ![t] = "running"] ELSE loop
    ELSE UNCHANGED <<connected, protocols, loop>>

\* The body of the task that OnDisconnect queues: whatever protocol the entity has
\* is closed.
\* mutants: IsConnected is not written, the protocol stays in the map
OnDisconnectKeepsStatus(t) ==
    /\ agenda' = IF isLeader /\ protocols[ent[t]] # None
                 THEN CloseCalls(protocols[ent[t]]) ELSE <<>>
    /\ UNCHANGED connected

OnDisconnectKeepsProtocol(t) ==
    /\ connected' = IF isLeader THEN [connected EXCEPT ![ent[t]] = FALSE] ELSE connected
    /\ agenda' = IF isLeader /\ protocols[ent[t]] # None
                 THEN SubSeq(CloseCalls(protocols[ent[t]]), 1, 2) ELSE <<>>

OnDisconnect(t) ==
    IF isLeader
    THEN /\ connected' = [connected EXCEPT ![ent[t]] = FALSE]
         /\ agenda' = IF protocols[ent[t]] = None THEN <<>>
                      ELSE CloseCalls(protocols[ent[t]])
    ELSE UNCHANGED <<connected, agenda>>

\* The main thread takes the next task of DoInMainThread.
RunConnect ==
    /\ Idle /\ tasks # <<>> /\ Head(tasks)[1] = "connect"
    /\ tasks' = Tail(tasks)
    /\ OnConnect(Head(tasks)[2])
    /\ UNCHANGED <<isLeader, stopped, bound, userVars, handlerVars, made, ent, open,
                   dropped, flag, reported>>

RunDisconnect ==
    /\ Idle /\ tasks # <<>> /\ Head(tasks)[1] = "disconnect"
    /\ tasks' = Tail(tasks)
    /\ OnDisconnect(Head(tasks)[2])
    /\ UNCHANGED <<isLeader, stopped, bound, protocols, userVars, transVars, phase,
                   toSetup>>

MainThread ==
    Agenda \/ Handler \/ onTcpTransportIsEnabledChanged \/ RunConnect \/ RunDisconnect

Environment ==
    \/ OnBecameLeader \/ OnLosingLeadership \/ OnSchemaUpdated \/ Deinit
    \/ \E e \in Entities, b \in BOOLEAN : SetEnabled(e, b)
    \/ \E t \in Transports : Drop(t)

Next ==
    \/ MainThread
    \/ Environment
    \/ \E t \in Transports : LoopFails(t) \/ LoopReports(t)

Spec == Init /\ [][Next]_vars

\* The main thread keeps running its handlers and its queue.  A blocked Accept or
\* Read returns once its connection is gone, and its goroutine is scheduled.
Fairness ==
    /\ WF_vars(MainThread)
    /\ \A t \in Transports : WF_vars(LoopFails(t)) /\ WF_vars(LoopReports(t))

FairSpec == Spec /\ Fairness

-----------------------------------------------------------------------------
(***************************************************************************)
(* Properties.                                                             *)
(***************************************************************************)
\* Between handlers, a broker that does not lead holds no protocol: teardown
\* closed them, and a connect task that arrives late adds none.
NonLeaderHoldsNoProtocol == Idle /\ ~isLeader => Held = {}

\* However Close, the receive loop and the accept loop race on `disconnected`,
\* OnDisconnect is called at most once for a transport.
DisconnectReportedOnce == \A t \in Transports : reported[t] <= 1

\* Between handlers, a protocol in protocolsByEntity is never one that the broker
\* has already closed, so onTxMessage never picks a closed one.
HeldIsOpen == Idle => \A t \in Held : open[t]

\* The task that will report the end of a transport of e is on its way.
DisconnectPending(e) ==
    \/ \E i \in DOMAIN tasks : tasks[i][1] = "disconnect" /\ ent[tasks[i][2]] = e
    \/ \E t \in Transports : ent[t] = e /\ loop[t] = "reporting"

\* Between handlers of a leader, IsConnected of a client entity agrees with
\* protocolsByEntity, except that it may still be true while the task that clears
\* it is on its way.  (A server entity can stay connected: its accept loop may fail,
\* and its disconnect task be queued, before the constructor calls OnConnect.)
StatusTruthful ==
    Idle /\ isLeader =>
      \A e \in Clients :
        /\ protocols[e] # None => connected[e]
        /\ connected[e] => protocols[e] # None \/ DisconnectPending(e)

\* A client connection whose peer is gone does not stay in protocolsByEntity: its
\* receive loop reports it and the task removes it.
LostConnectionNoticed ==
    \A e \in Clients, t \in Transports :
      (protocols[e] = t /\ dropped[t]) ~> (protocols[e] # t)

\* A handler on the main thread always ends: in particular, the wait for the
\* accept loop in the Close of a server never blocks for ever.  (Close also waits
\* for the goroutines of the server's clients, which are part of TCPServer.)
HandlersEnd == (agenda # <<>> \/ phase # "end") ~> (agenda = <<>> /\ phase = "end")

\* The cleanup in OnDisconnect closes the protocol of the transport that has
\* disconnected, never one that has replaced it.
CleanupClosesOwnProtocol ==
    [][RunDisconnect /\ isLeader =>
         LET t == Head(tasks)[2] IN protocols[ent[t]] \in {None, t}]_vars
=============================================================================
