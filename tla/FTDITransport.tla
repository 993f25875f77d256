--------------------------- MODULE FTDITransport ---------------------------
(***************************************************************************)
(* The FTDI transport (src/lib/go/transport_ftdi.go): connecting to the    *)
(* USB device, reading and writing with reconnection, and Close, called by *)
(* several threads at once.  Nothing in FTDITransport is protected by a    *)
(* lock, so each test, call and assignment on its fields is a step of its  *)
(* own.                                                                    *)
(*                                                                         *)
(* A connection stands for the USB context, device, configuration and      *)
(* interface opened by one call of connect.  The USB stack (external) lets *)
(* one connection at a time claim the interface, and releases it when that *)
(* interface is closed or the device is unplugged.  A connection works as  *)
(* long as it has the claim, and nothing else distinguishes connections:   *)
(* a pointer is nil, or leads to the connection with the claim, or to one  *)
(* that has lost it.                                                       *)
(***************************************************************************)
EXTENDS Integers, Sequences, FiniteSets

CONSTANTS
    MaxTransports,  \* bound: transports made in a run
    MaxLoops,       \* bound: receive loops that get to run
    MaxFaults       \* bound: times the device is unplugged or a transfer fails

Transports == 1 .. MaxTransports

Main == 0  \* the thread that runs the broker's handlers: it writes and closes

Loops == 1 .. MaxLoops  \* receive loops of StartReceiving: they read

Threads == {Main} \cup Loops

None == 0  \* no transport

Conns == {"nil", "gone", "live"}

ASSUME FTDIBounds ==
    /\ MaxTransports \in Nat \ {0} /\ MaxLoops \in Nat /\ MaxFaults \in Nat

VARIABLES
    plugged,    \* the device is there
    claimed,    \* a connection has the claim of its interface
    faults,     \* how often the device was unplugged or a transfer failed
    ptr,        \* the pointers of each transport
    more,       \* t.reader holds another complete frame
    flag,       \* t.disconnected
    cancelled,  \* t.ctx is cancelled
    thread,     \* what each thread is doing
    tasks,      \* calls of OnConnect and OnDisconnect, as tasks of DoInMainThread
    crashed,    \* a method was called on a nil pointer
    overlap     \* history: two threads were replacing the connection at once

usb == <<plugged, claimed, faults>>
object == <<more, flag, cancelled>>
ftdiVars == <<usb, ptr, object, thread, tasks, crashed, overlap>>

\* The pointers that closeResources tests, in its order; connect assigns them in
\* the opposite order, then the endpoints and the reader.  "device" stands for
\* usbConfig, device and context, "io" for reader, inEndpoint and outEndpoint.
Handles == <<"intf", "device">>

\* A thread in a call op on transport t: the connection it works with, the handle it
\* has come to, and whether it has reconnected already.
Call(op, t, pc) == [op |-> op, t |-> t, pc |-> pc, c |-> "nil", k |-> 1, again |-> FALSE]

FTDIInit ==
    /\ plugged = TRUE /\ claimed = FALSE /\ faults = 0
    /\ ptr = [t \in Transports |-> [intf |-> "nil", device |-> "nil", io |-> "nil"]]
    /\ more = [t \in Transports |-> FALSE]
    /\ flag = [t \in Transports |-> FALSE]
    /\ cancelled = [t \in Transports |-> FALSE]
    /\ thread = [p \in Threads |-> Call("none", 1, "idle")]
    /\ tasks = <<>> /\ crashed = FALSE /\ overlap = FALSE

-----------------------------------------------------------------------------
At(p, pc) == ~crashed /\ thread[p].pc = pc

Goto(p, pc) == thread' = [thread EXCEPT ![p].pc = pc]

T(p) == thread[p].t

Return(p) == thread' = [thread EXCEPT ![p] = Call("none", T(p), "idle")]

\* The places in closeResources and connect.
Replacing == {"test", "close", "nil", "open", "configure", "publish"}

\* closeResources begins, in tryReconnect (after its sleep) or in Close.
\* (overlap is history.)
BeginReplacing(p) ==
    /\ thread' = [thread EXCEPT ![p] = Call(@.op, @.t, "test")]
    /\ overlap' = (overlap \/ \E q \in Threads \ {p} :
                                T(q) = T(p) /\ thread[q].pc \in Replacing)

\* The connection that has the claim loses it; the threads are then in states th.
Lost(c) == IF c = "live" THEN "gone" ELSE c

Release(th) ==
    /\ claimed' = FALSE
    /\ ptr' = [t \in Transports |-> [h \in DOMAIN ptr[t] |-> Lost(ptr[t][h])]]
    /\ thread' = [p \in Threads |-> [th[p] EXCEPT !.c = Lost(@)]]

Fault == faults < MaxFaults /\ faults' = faults + 1

\* A task is queued for transport t.
Queue(what, t) == tasks' = Append(tasks, <<what, t>>)

-----------------------------------------------------------------------------
(***************************************************************************)
(* ReadMessage and WriteMessage.                                           *)
(***************************************************************************)
\* t.reader.ReadMessage() or writeChunked(t.outEndpoint, ...) is called.
StartIO(op, t, again) ==
    [Call(op, t, "wait") EXCEPT !.c = ptr[t].io, !.again = again]

\* After a success, a flag that is set is cleared and OnConnect called, except
\* that a second read returns at once.
AfterSuccess(p) ==
    IF flag[T(p)] /\ ~(thread[p].op = "read" /\ thread[p].again)
    THEN Goto(p, "clear") ELSE Return(p)

\* The transfer succeeds.  A read may leave complete frames in the reader, and
\* return one of these although the connection is gone.
IOSucceeds(p) ==
    /\ At(p, "wait")
    /\ LET r == thread[p]
           works == r.c = "live" /\ ~cancelled[r.t] IN
       \/ /\ works /\ r.op = "write"
          /\ UNCHANGED more
       \/ /\ r.op = "read" /\ (works \/ more[r.t])
          /\ \E b \in {FALSE, works} : more' = [more EXCEPT ![r.t] = b]
    /\ AfterSuccess(p)
    /\ UNCHANGED <<usb, ptr, flag, cancelled, tasks, crashed, overlap>>

\* The transfer fails: the connection is gone, the context cancelled, or the device
\* reports an error.  The reader turns every USB error into io.EOF, so only a
\* writer can see one that isUsbDisconnectError knows.
DisconnectError(p) == thread[p].op = "write" /\ ~cancelled[T(p)]

\* mutant: an error of a read is returned without reconnecting
IOFailsForGood(p) ==
    /\ At(p, "wait")
    /\ \/ (thread[p].c # "live" \/ cancelled[T(p)]) /\ UNCHANGED faults
       \/ Fault
    /\ \/ /\ thread[p].again \/ thread[p].op = "read"
          /\ Return(p) /\ UNCHANGED overlap
       \/ /\ ~thread[p].again /\ DisconnectError(p) /\ ~flag[T(p)]
          /\ Goto(p, "set") /\ UNCHANGED overlap
       \/ /\ ~thread[p].again /\ thread[p].op = "write"
          /\ BeginReplacing(p)
    /\ UNCHANGED <<plugged, claimed, ptr, object, tasks, crashed>>

IOFails(p) ==
    /\ At(p, "wait")
    /\ \/ (thread[p].c # "live" \/ cancelled[T(p)]) /\ UNCHANGED faults
       \/ Fault
    /\ \/ /\ thread[p].again
          /\ Return(p) /\ UNCHANGED overlap
       \/ /\ ~thread[p].again /\ DisconnectError(p) /\ ~flag[T(p)]
          /\ Goto(p, "set") /\ UNCHANGED overlap
       \/ /\ ~thread[p].again
          /\ BeginReplacing(p)
    /\ UNCHANGED <<plugged, claimed, ptr, object, tasks, crashed>>

\* t.disconnected.Store(true), then OnDisconnect, then tryReconnect.
SetFlag(p) ==
    /\ At(p, "set")
    /\ flag' = [flag EXCEPT ![T(p)] = TRUE]
    /\ Goto(p, "report")
    /\ UNCHANGED <<usb, ptr, more, cancelled, tasks, crashed, overlap>>

ReportDisconnect(p) ==
    /\ At(p, "report")
    /\ Queue("disconnect", T(p))
    /\ BeginReplacing(p)
    /\ UNCHANGED <<usb, ptr, object, crashed>>

\* t.disconnected.Store(false), then OnConnect: at the end of a call that
\* succeeded ("clear") and at the end of connect ("connected").
ClearFlag(p) ==
    /\ At(p, "clear") \/ At(p, "connected")
    /\ flag' = [flag EXCEPT ![T(p)] = FALSE]
    /\ Goto(p, IF thread[p].pc = "clear" THEN "announce" ELSE "announceConnected")
    /\ UNCHANGED <<usb, ptr, more, cancelled, tasks, crashed, overlap>>

\* OnConnect.  After a reconnection the read or write is tried again.
Announce(p) ==
    /\ At(p, "announce") \/ At(p, "announceConnected")
    /\ Queue("connect", T(p))
    /\ IF thread[p].pc = "announceConnected" /\ thread[p].op \in {"read", "write"}
       THEN thread' = [thread EXCEPT ![p] = StartIO(@.op, @.t, TRUE)]
       ELSE Return(p)
    /\ UNCHANGED <<usb, ptr, object, crashed, overlap>>

-----------------------------------------------------------------------------
(***************************************************************************)
(* closeResources: for each pointer, test it, call its Close, set it to    *)
(* nil.  The pointer is read again for the call.                           *)
(***************************************************************************)
Handle(p) == Handles[thread[p].k]

\* The next pointer; after the last one Close returns and tryReconnect connects.
NextHandle(p) ==
    IF thread[p].k < 2
    THEN thread' = [thread EXCEPT ![p].k = @ + 1, ![p].pc = "test"]
    ELSE IF thread[p].op = "close" THEN Return(p) ELSE Goto(p, "open")

\* mutant: without the test
TestHandleNever(p) ==
    /\ At(p, "test")
    /\ Goto(p, "close")
    /\ UNCHANGED <<usb, ptr, object, tasks, crashed, overlap>>

TestHandle(p) ==
    /\ At(p, "test")
    /\ IF ptr[T(p)][Handle(p)] = "nil" THEN NextHandle(p) ELSE Goto(p, "close")
    /\ UNCHANGED <<usb, ptr, object, tasks, crashed, overlap>>

\* mutant: the interface is forgotten without being closed
CloseHandleSkipped(p) ==
    /\ At(p, "close")
    /\ crashed' = (ptr[T(p)][Handle(p)] = "nil")
    /\ Goto(p, "nil")
    /\ UNCHANGED <<usb, ptr, object, tasks, overlap>>

CloseHandle(p) ==
    /\ At(p, "close")
    /\ crashed' = (ptr[T(p)][Handle(p)] = "nil")
    /\ IF Handle(p) = "intf" /\ ptr[T(p)].intf = "live"
       THEN Release([thread EXCEPT ![p].pc = "nil"])
       ELSE Goto(p, "nil") /\ UNCHANGED <<claimed, ptr>>
    /\ UNCHANGED <<plugged, faults, object, tasks, overlap>>

ForgetHandle(p) ==
    /\ At(p, "nil")
    /\ ptr' = [ptr EXCEPT ![T(p)][Handle(p)] = "nil"]
    /\ NextHandle(p)
    /\ UNCHANGED <<usb, object, tasks, crashed, overlap>>

-----------------------------------------------------------------------------
(***************************************************************************)
(* connect.                                                                *)
(***************************************************************************)
\* The device is opened and its interface claimed.
OpenDevice(p) ==
    /\ At(p, "open")
    /\ plugged /\ ~claimed
    /\ claimed' = TRUE
    /\ thread' = [thread EXCEPT ![p].c = "live", ![p].pc = "configure"]
    /\ UNCHANGED <<plugged, faults, ptr, object, tasks, crashed, overlap>>

\* It cannot be opened, or another connection has the claim: what was opened is
\* closed and an error returned.
\* mutant: connecting is tried until it succeeds
OpenFailsAndRetries(p) ==
    /\ At(p, "open")
    /\ \/ (~plugged \/ claimed) /\ UNCHANGED faults
       \/ Fault
    /\ BeginReplacing(p)
    /\ UNCHANGED <<plugged, claimed, ptr, object, tasks, crashed>>

OpenFails(p) ==
    /\ At(p, "open")
    /\ \/ (~plugged \/ claimed) /\ UNCHANGED faults
       \/ Fault
    /\ Return(p)
    /\ UNCHANGED <<plugged, claimed, ptr, object, tasks, crashed, overlap>>

\* Baud rate, line properties and flow control are set.
\* mutant: connect does not assign the device
ConfigureInterfaceOnly(p) ==
    /\ At(p, "configure")
    /\ thread[p].c = "live"
    /\ thread' = [thread EXCEPT ![p].pc = "publish", ![p].k = 1]
    /\ UNCHANGED <<usb, ptr, object, tasks, crashed, overlap>>

Configure(p) ==
    /\ At(p, "configure")
    /\ thread[p].c = "live"
    /\ thread' = [thread EXCEPT ![p].pc = "publish", ![p].k = 2]
    /\ UNCHANGED <<usb, ptr, object, tasks, crashed, overlap>>

\* One of these transfers fails: device and context are closed, the interface is not.
ConfigureFails(p) ==
    /\ At(p, "configure")
    /\ \/ thread[p].c # "live" /\ UNCHANGED faults
       \/ Fault
    /\ Return(p)
    /\ UNCHANGED <<plugged, claimed, ptr, object, tasks, crashed, overlap>>

\* The handles are assigned one by one, then the endpoints and a new reader.
PublishHandle(p) ==
    /\ At(p, "publish") /\ thread[p].k > 0
    /\ ptr' = [ptr EXCEPT ![T(p)][Handle(p)] = thread[p].c]
    /\ thread' = [thread EXCEPT ![p].k = @ - 1]
    /\ UNCHANGED <<usb, object, tasks, crashed, overlap>>

PublishReader(p) ==
    /\ At(p, "publish") /\ thread[p].k = 0
    /\ ptr' = [ptr EXCEPT ![T(p)].io = thread[p].c]
    /\ more' = [more EXCEPT ![T(p)] = FALSE]
    /\ Goto(p, "connected")
    /\ UNCHANGED <<usb, flag, cancelled, tasks, crashed, overlap>>

-----------------------------------------------------------------------------
(***************************************************************************)
(* Close, and the steps of a thread.                                       *)
(***************************************************************************)
Cancel(p) ==
    /\ At(p, "cancel")
    /\ cancelled' = [cancelled EXCEPT ![T(p)] = TRUE]
    /\ Goto(p, "swap")
    /\ UNCHANGED <<usb, ptr, more, flag, tasks, crashed, overlap>>

\* CompareAndSwap(false, true): OnDisconnect if it succeeds, then closeResources.
SwapFlag(p) ==
    /\ At(p, "swap")
    /\ flag' = [flag EXCEPT ![T(p)] = TRUE]
    /\ IF flag[T(p)] THEN BeginReplacing(p)
       ELSE Goto(p, "report") /\ UNCHANGED overlap
    /\ UNCHANGED <<usb, ptr, more, cancelled, tasks, crashed>>

ThreadStep(p) ==
    \/ IOSucceeds(p) \/ IOFails(p) \/ SetFlag(p) \/ ReportDisconnect(p)
    \/ ClearFlag(p) \/ Announce(p)
    \/ TestHandle(p) \/ CloseHandle(p) \/ ForgetHandle(p)
    \/ OpenDevice(p) \/ OpenFails(p) \/ Configure(p) \/ ConfigureFails(p)
    \/ PublishHandle(p) \/ PublishReader(p)
    \/ Cancel(p) \/ SwapFlag(p)

\* The device is unplugged, and plugged in again.
Unplug ==
    /\ plugged /\ Fault
    /\ plugged' = FALSE
    /\ Release(thread)
    /\ UNCHANGED <<object, tasks, crashed, overlap>>

Plug ==
    /\ ~plugged /\ plugged' = TRUE
    /\ UNCHANGED <<claimed, faults, ptr, object, thread, tasks, crashed, overlap>>
=============================================================================
