----------------------------- MODULE FTDIBroker -----------------------------
(***************************************************************************)
(* The message broker (src/message_broker.go) with one FTDI entity: its    *)
(* handlers on the main thread, the receive loops that its connect tasks   *)
(* start (src/lib/go/qdp.go), and the FTDI transports they call.           *)
(*                                                                         *)
(* Every call of OnConnect makes a protocol with its own receive loop, so  *)
(* several loops may read from one transport; the broker keeps the last    *)
(* protocol, identified with its transport.  The calls that a handler      *)
(* still has to make are its agenda.  The store's notifications reach the  *)
(* broker while it leads.  The counters TotalReceived and TotalSent and    *)
(* the messages themselves are left out.                                   *)
(***************************************************************************)
EXTENDS FTDITransport

CONSTANTS
    MaxEvents,  \* bound: elections lost and configuration changes, together
    MaxTasks    \* bound: tasks waiting when a message is read or written

ASSUME BrokerBounds == MaxEvents \in Nat /\ MaxTasks \in Nat

VARIABLES
    isLeader,   \* w.isLeader
    stopped,    \* Deinit has cancelled w.ctx
    enabled,    \* store: IsEnabled
    connected,  \* store: IsConnected
    held,       \* w.protocolsByEntity
    notifs,     \* IsEnabled notifications not yet delivered
    agenda,     \* what the running handler still has to do
    made,       \* how many transports have been made
    loops,      \* how many receive loops have been started
    events      \* elections lost and configuration changes so far

brokerVars == <<isLeader, stopped, enabled, connected, held, notifs, agenda, made,
                loops, events>>
vars == <<ftdiVars, brokerVars>>

Init ==
    /\ FTDIInit
    /\ isLeader = FALSE /\ stopped = FALSE
    /\ enabled = TRUE /\ connected = FALSE
    /\ held = None /\ notifs = <<>> /\ agenda = <<>>
    /\ made = 0 /\ loops = 0 /\ events = 0

\* The main thread is not inside a call on a transport.
Free == At(Main, "idle")

Idle == Free /\ agenda = <<>> /\ ~stopped

MainCalls(op, t, pc) == thread' = [thread EXCEPT ![Main] = Call(op, t, pc)]

-----------------------------------------------------------------------------
(***************************************************************************)
(* The calls on an agenda.                                                 *)
(***************************************************************************)
Doing(what) == Free /\ agenda # <<>> /\ Head(agenda) = what

Cleanup == IF held = None THEN <<>> ELSE <<"close", "delete">>

CloseProtocol ==
    /\ Doing("close")
    /\ agenda' = Tail(agenda)
    /\ MainCalls("close", held, "cancel")
    /\ UNCHANGED <<usb, ptr, object, tasks, crashed, overlap, isLeader, stopped, enabled,
                   connected, held, notifs, made, loops, events>>

DeleteProtocol ==
    /\ Doing("delete")
    /\ agenda' = Tail(agenda)
    /\ held' = None
    /\ UNCHANGED <<ftdiVars, isLeader, stopped, enabled, connected, notifs, made, loops,
                   events>>

\* NewFTDITransport connects on the main thread.
setupFtdiTransport ==
    /\ Doing("setup")
    /\ agenda' = Tail(agenda)
    /\ connected' = FALSE
    /\ IF enabled /\ made < MaxTransports
       THEN made' = made + 1 /\ MainCalls("new", made + 1, "open")
       ELSE UNCHANGED <<made, thread>>
    /\ UNCHANGED <<usb, ptr, object, tasks, crashed, overlap, isLeader, stopped, enabled, held,
                   notifs, loops, events>>

-----------------------------------------------------------------------------
(***************************************************************************)
(* The handlers.                                                           *)
(***************************************************************************)
Event == events < MaxEvents /\ events' = events + 1

OnBecameLeader ==
    /\ Idle /\ ~isLeader
    /\ isLeader' = TRUE
    /\ agenda' = Append(Cleanup, "setup")
    /\ UNCHANGED <<ftdiVars, stopped, enabled, connected, held, notifs, made, loops, events>>

OnLosingLeadership ==
    /\ Idle /\ isLeader /\ Event
    /\ isLeader' = FALSE
    /\ agenda' = Cleanup
    /\ UNCHANGED <<ftdiVars, stopped, enabled, connected, held, notifs, made, loops>>

OnSchemaUpdated ==
    /\ Idle /\ isLeader /\ Event
    /\ agenda' = Append(Cleanup, "setup")
    /\ UNCHANGED <<ftdiVars, isLeader, stopped, enabled, connected, held, notifs, made,
                   loops>>

Deinit ==
    /\ Idle
    /\ stopped' = TRUE
    /\ agenda' = Cleanup
    /\ UNCHANGED <<ftdiVars, isLeader, enabled, connected, held, notifs, made, loops, events>>

\* A user writes IsEnabled; the store (external) notifies a leader.
SetEnabled ==
    /\ ~crashed /\ Event
    /\ enabled' = ~enabled
    /\ notifs' = IF isLeader THEN Append(notifs, ~enabled) ELSE notifs
    /\ UNCHANGED <<ftdiVars, isLeader, stopped, connected, held, agenda, made, loops>>

onFtdiTransportIsEnabledChanged ==
    /\ Idle /\ notifs # <<>>
    /\ notifs' = Tail(notifs)
    /\ agenda' = IF ~isLeader \/ (Head(notifs) <=> held # None) THEN <<>>
                 ELSE IF Head(notifs) THEN <<"setup">> ELSE Cleanup
    /\ UNCHANGED <<ftdiVars, isLeader, stopped, enabled, connected, held, made, loops,
                   events>>

\* A message is to be sent: WriteMessage on the main thread.
onTxMessage ==
    /\ Idle /\ isLeader /\ held # None /\ Len(tasks) < MaxTasks
    /\ thread' = [thread EXCEPT ![Main] = StartIO("write", held, FALSE)]
    /\ UNCHANGED <<usb, ptr, object, tasks, crashed, overlap, brokerVars>>

\* The task of OnConnect: a protocol is made and its receive loop starts.
RunConnect ==
    /\ Idle /\ tasks # <<>> /\ Head(tasks)[1] = "connect"
    /\ tasks' = Tail(tasks)
    /\ IF isLeader
       THEN /\ connected' = TRUE
            /\ held' = Head(tasks)[2]
            /\ IF loops < MaxLoops
               THEN /\ loops' = loops + 1
                    /\ thread' = [thread EXCEPT ![loops'] = StartIO("read", held', FALSE)]
               ELSE UNCHANGED <<loops, thread>>
       ELSE UNCHANGED <<loops, connected, held, thread>>
    /\ UNCHANGED <<usb, ptr, object, crashed, overlap, isLeader, stopped, enabled, notifs, agenda,
                   made, events>>

\* The task of OnDisconnect: whatever protocol the entity has is closed.
RunDisconnect ==
    /\ Idle /\ tasks # <<>> /\ Head(tasks)[1] = "disconnect"
    /\ tasks' = Tail(tasks)
    /\ IF isLeader THEN connected' = FALSE /\ agenda' = Cleanup
       ELSE UNCHANGED <<connected, agenda>>
    /\ UNCHANGED <<usb, ptr, object, thread, crashed, overlap, isLeader, stopped, enabled, held,
                   notifs, made, loops, events>>

\* The receive loop after ReadMessage, with a message or an error: it ends when
\* w.ctx is cancelled and reads again otherwise.
\* mutant: the context is not tested
NextReadAlways(p) ==
    /\ p <= loops /\ At(p, "idle") /\ (stopped \/ Len(tasks) < MaxTasks)
    /\ thread' = [thread EXCEPT ![p] = StartIO("read", T(p), FALSE)]
    /\ UNCHANGED <<usb, ptr, object, tasks, crashed, overlap, brokerVars>>

NextRead(p) ==
    /\ p <= loops /\ At(p, "idle") /\ (stopped \/ Len(tasks) < MaxTasks)
    /\ thread' = [thread EXCEPT ![p] = IF stopped THEN Call("none", T(p), "done")
                                       ELSE StartIO("read", T(p), FALSE)]
    /\ UNCHANGED <<usb, ptr, object, tasks, crashed, overlap, brokerVars>>

MainThread ==
    \/ CloseProtocol \/ DeleteProtocol \/ setupFtdiTransport
    \/ onFtdiTransportIsEnabledChanged \/ RunConnect \/ RunDisconnect

Environment ==
    \/ OnBecameLeader \/ OnLosingLeadership \/ OnSchemaUpdated \/ Deinit \/ SetEnabled
    \/ onTxMessage
    \/ (Unplug \/ Plug) /\ UNCHANGED brokerVars

Step(p) == ThreadStep(p) /\ UNCHANGED brokerVars

Next ==
    \/ MainThread
    \/ Environment
    \/ \E p \in Loops : NextRead(p)
    \/ \E p \in Threads : Step(p)

Spec == Init /\ [][Next]_vars

\* The main thread runs its handlers and its queue, and every thread inside a call
\* on a transport goes on.  A read may wait for ever as long as its connection works.
Waiting(p) ==
    At(p, "wait") /\ thread[p].op = "read" /\ thread[p].c = "live" /\ ~cancelled[T(p)]

Fairness ==
    /\ WF_vars(MainThread \/ Step(Main))
    /\ \A p \in Loops : WF_vars(NextRead(p) \/ (~Waiting(p) /\ Step(p)))

FairSpec == Spec /\ Fairness

-----------------------------------------------------------------------------
(***************************************************************************)
(* Properties.                                                             *)
(***************************************************************************)
\* closeResources never calls a method on a nil pointer, unless two threads have
\* been replacing the connection of one transport at the same time.
NoNilCall == crashed => overlap

\* While nobody replaces it, a transport's interface, device and endpoints belong
\* to one connection, or all handles are nil (with the same exception).
PointersAgree ==
    overlap \/ \A t \in Transports :
      (\A p \in Threads : T(p) = t => thread[p].pc \notin Replacing)
        => ptr[t].intf = ptr[t].device /\ ptr[t].intf \in {"nil", ptr[t].io}

\* Somebody can still close the interface that is claimed.
ClaimOwned ==
    claimed => \/ \E t \in Transports : ptr[t].intf = "live"
               \/ \E p \in Threads : thread[p].pc \in Replacing /\ thread[p].c = "live"

\* A claim is given up for good only where connect fails to configure the device,
\* or by two threads replacing the connection at the same time.
ClaimKept ==
    [][ClaimOwned /\ ~ClaimOwned' => overlap \/ \E p \in Threads : ConfigureFails(p)]_vars

\* A transport that the broker has closed is never registered again: its protocol
\* stays out of protocolsByEntity.
ClosedStaysClosed == Idle /\ held # None => ~cancelled[held]

\* Loop p of an open transport runs alone: no other thread is inside a transport, the
\* device is there, and no other connection has its claim.
Undisturbed(p) ==
    /\ p <= loops /\ ~crashed /\ ~stopped /\ plugged /\ ~cancelled[T(p)]
    /\ \A q \in Threads \ {p} : thread[q].pc \in {"idle", "done"}
    /\ claimed => ptr[T(p)].intf = "live" \/ thread[p].c = "live"

\* A receive loop whose connection is lost gets back to a connection that works, as
\* long as nothing disturbs it.
LoneLoopRecovers == \A p \in Loops : []<>(Waiting(p) \/ ~Undisturbed(p))

\* A call on the main thread always ends, whatever the loops and the device do:
\* neither WriteMessage nor Close keeps the broker waiting for ever.
HandlersEnd == (agenda # <<>> \/ ~Free) ~> (crashed \/ (Free /\ agenda = <<>>))

\* After Deinit every receive loop of a closed transport ends, although its failed
\* read first opens the device again: it comes back to the test of its context.
\* (A transport that another one has replaced in protocolsByEntity is not closed.)
LoopsEnd ==
    \A p \in Loops :
      (stopped /\ p <= loops /\ cancelled[T(p)]) ~> (crashed \/ thread[p].pc = "done")
=============================================================================
