------------------------------ MODULE Protocol ------------------------------
(***************************************************************************)
(* DefaultProtocol and DefaultSubscriptionManager (src/lib/go/qdp.go) on   *)
(* the MessageReader of a TCP client: the receive loop and the process     *)
(* loop that StartReceiving starts, the end of both, the dispatch to       *)
(* subscribers under the read lock, and another goroutine that subscribes, *)
(* unsubscribes, cancels the context of the caller and calls Close.        *)
(*                                                                         *)
(* tryParseMessage returns a message whose payload is a slice of r.buffer, *)
(* not a copy.  The message waits in msgCh while the receive loop is       *)
(* already back in ReadMessage and the reader reuses the buffer, so a      *)
(* queued message is modelled by the cells its payload occupies, and what  *)
(* a handler sees is whatever these cells hold when it runs.               *)
(*                                                                         *)
(* A topic is told from others by its length.  Handlers are comparable     *)
(* values that return and do not subscribe, as those of the broker.        *)
(***************************************************************************)
EXTENDS MessageReader

CONSTANTS
    ChanCap,   \* the capacity of p.msgCh: 100
    Patterns,  \* topic patterns
    Handlers,  \* IMessageRxHandlers
    Matching,  \* the pairs of pattern and topic that matchTopic accepts
    MaxCalls   \* bound: calls of Subscribe and Unsubscribe

ASSUME ChanCapAssumption == ChanCap \in Nat \ {0}

ASSUME MatchingAssumption == Matching \subseteq Patterns \X Nat /\ MaxCalls \in Nat

VARIABLES
    msgCh,      \* p.msgCh: messages received and not yet taken
    handled,    \* history: the messages taken for handling, in order
    rxDone,     \* the receive loop has returned
    px,         \* where the process loop is
    next,       \* the index of OnMessageRx's range over sm.subscriptions
    called,     \* history: the places and subscriptions called in this dispatch
    present,    \* history: the subscriptions when the dispatch began
    subs,       \* sm.subscriptions
    caller,     \* the call another goroutine is in, or NoCall
    calls,      \* how many calls it has made
    cancelled,  \* ctx is done: the caller's context, or the derived one
    closed      \* p.Close has closed the transport

rxVars == <<vars, rxDone>>
procVars == <<handled, px, next, called, present>>
subVars == <<subs, caller, calls>>
pathVars == <<vars, msgCh, handled, rxDone, px, next, called, present, subs, caller, calls,
              cancelled, closed>>

NoCall == <<"none">>

PathInit ==
    /\ Init
    /\ msgCh = <<>> /\ handled = <<>>
    /\ rxDone = FALSE /\ px = "select"
    /\ next = 0 /\ called = <<>> /\ present = <<>>
    /\ subs = <<>> /\ caller = NoCall /\ calls = 0
    /\ cancelled = FALSE /\ closed = FALSE

-----------------------------------------------------------------------------
(***************************************************************************)
(* The receive loop.                                                       *)
(***************************************************************************)
\* The reader is about to call Read, in readMore with r.pos = p.
AtRead(p) ==
    \/ pc = "header" /\ count - pos < HeaderSize /\ p = pos
    \/ InScan /\ Plausible /\ ~Complete /\ p = pos
    \/ pc = "scan" /\ startPos > count - HeaderSize /\ p = TailStart

\* The call of ReceiveMessage; the first test of ctx comes before it.
StepReader ==
    /\ ~rxDone
    /\ \/ ReadMessage /\ ~cancelled
       \/ (EnsureHeader \/ Scan) /\ (closed => \A p \in 0 .. BufSize : ~AtRead(p))
    /\ UNCHANGED <<rxDone, msgCh, procVars, subVars, cancelled, closed>>

\* Read on a closed connection fails.
ReadClosed ==
    /\ ~rxDone /\ closed
    /\ \E p \in 0 .. BufSize :
         /\ AtRead(p)
         /\ readMore(p, 0)
         /\ staleScan' = (staleScan \/ (InScan /\ ShiftBy(p) > 0))
    /\ pc' = "err"
    /\ UNCHANGED <<stream, startPos, delivered, rxDone, msgCh, procVars, subVars,
                   cancelled, closed>>

SleepAfterError ==
    /\ ~rxDone /\ pc = "err" /\ ~cancelled
    /\ pc' = "idle"
    /\ UNCHANGED <<stream, arrived, buffer, pos, count, startPos, delivered, staleScan,
                   rxDone, msgCh, procVars, subVars, cancelled, closed>>

\* The first cell of the payload of the message at startPos.
PayloadCellNoTopic == startPos + HeaderSize \* mutant: the topic is not skipped

PayloadCell == startPos + HeaderSize + topicLen

Message == [frame |-> buffer[startPos], cell |-> PayloadCell, len |-> payloadLen]

HasRoom == Len(msgCh) < ChanCap

\* mutant: the receive loop drops the message when the channel is full
SendOrDrop == msgCh' = IF HasRoom THEN Append(msgCh, Message) ELSE msgCh

SendMsg == HasRoom /\ msgCh' = Append(msgCh, Message)

\* p.msgCh <- msg: blocks while the channel is full and ctx is not done.
Enqueue ==
    /\ ~rxDone /\ pc = "msg"
    /\ SendMsg
    /\ pc' = "idle"
    /\ UNCHANGED <<stream, arrived, buffer, pos, count, startPos, delivered, staleScan,
                   rxDone, procVars, subVars, cancelled, closed>>

\* <-ctx.Done() at each of the three places where the loop looks; the deferred cancel
\* then changes nothing.
ReceiveEnds ==
    /\ ~rxDone /\ cancelled
    /\ pc \in {"idle", "err", "msg"}
    /\ rxDone' = TRUE
    /\ UNCHANGED <<vars, msgCh, procVars, subVars, cancelled, closed>>

ReceiveLoop == StepReader \/ ReadClosed \/ SleepAfterError \/ Enqueue \/ ReceiveEnds

-----------------------------------------------------------------------------
(***************************************************************************)
(* The process loop: handleMessage calls the protocol's own handler, then  *)
(* the subscribers, one after the other and under the read lock.           *)
(***************************************************************************)
Current == handled[Len(handled)].frame

Topic(f) == stream.word[f]

Matches(sub, f) == <<sub.topic, Topic(f)>> \in Matching

\* What is in the buffer is still the payload that was sent with the frame.
PayloadUnchanged(m) ==
    \A i \in 0 .. m.len - 1 :
        buffer[m.cell + i] = m.frame + HeaderSize + stream.word[m.frame] + i

MayTakeLate == Len(msgCh) > 1 \* mutant: the last message stays behind

MayTake == msgCh # <<>>

TakeMessage ==
    /\ px = "select" /\ MayTake
    /\ handled' = Append(handled, [frame  |-> Head(msgCh).frame,
                                   intact |-> PayloadUnchanged(Head(msgCh))])
    /\ msgCh' = Tail(msgCh)
    /\ px' = "lock"
    /\ UNCHANGED <<rxVars, next, called, present, subVars, cancelled, closed>>

\* sm.mu.RLock: a waiting writer goes first.
BeginDispatch ==
    /\ px = "lock" /\ caller = NoCall
    /\ px' = "range" /\ next' = 1
    /\ called' = <<>> /\ present' = subs
    /\ UNCHANGED <<rxVars, msgCh, handled, subVars, cancelled, closed>>

\* The next subscription of the range: its handler is called if the topic matches.
NextSub ==
    /\ px = "range" /\ next <= Len(subs)
    /\ IF Matches(subs[next], Current)
       THEN /\ px' = "running" /\ called' = Append(called, <<next, subs[next]>>)
            /\ UNCHANGED next
       ELSE next' = next + 1 /\ UNCHANGED <<px, called>>
    /\ UNCHANGED <<rxVars, msgCh, handled, present, subVars, cancelled, closed>>

HandlerReturns ==
    /\ px = "running"
    /\ px' = "range" /\ next' = next + 1
    /\ UNCHANGED <<rxVars, msgCh, handled, called, present, subVars, cancelled, closed>>

\* sm.mu.RUnlock, and the loop goes on.
EndDispatch ==
    /\ px = "range" /\ next > Len(subs)
    /\ px' = "select"
    /\ next' = 0 /\ called' = <<>> /\ present' = <<>>
    /\ UNCHANGED <<rxVars, msgCh, handled, subVars, cancelled, closed>>

\* mutant: the loop looks at ctx only when no message waits and the transport is open
ProcessEndsOpen ==
    /\ px = "select" /\ cancelled /\ msgCh = <<>> /\ ~closed
    /\ px' = "done"
    /\ UNCHANGED <<rxVars, msgCh, handled, next, called, present, subVars, cancelled, closed>>

\* <-ctx.Done(): messages may be left in msgCh.
ProcessEnds ==
    /\ px = "select" /\ cancelled
    /\ px' = "done"
    /\ UNCHANGED <<rxVars, msgCh, handled, next, called, present, subVars, cancelled, closed>>

ProcessLoop ==
    TakeMessage \/ BeginDispatch \/ NextSub \/ HandlerReturns \/ EndDispatch \/ ProcessEnds

-----------------------------------------------------------------------------
(***************************************************************************)
(* The other goroutine.                                                    *)
(***************************************************************************)
\* Subscribe or Unsubscribe is called and waits for sm.mu.Lock.
BeginCall ==
    /\ caller = NoCall /\ calls < MaxCalls
    /\ \E op \in {"sub", "unsub"}, p \in Patterns, h \in Handlers :
         caller' = <<op, [topic |-> p, handler |-> h]>>
    /\ calls' = calls + 1
    /\ UNCHANGED <<rxVars, msgCh, procVars, subs, cancelled, closed>>

\* mutant: the read lock is not held while a handler runs
LockFreeDuringHandler == px # "range"

LockFree == px \notin {"range", "running"}

Subscribe ==
    /\ caller[1] = "sub" /\ LockFree
    /\ subs' = Append(subs, caller[2])
    /\ caller' = NoCall
    /\ UNCHANGED <<rxVars, msgCh, procVars, calls, cancelled, closed>>

\* Unsubscribe has the lock and goes through the subscriptions from the back.
Unsubscribe ==
    /\ caller[1] = "unsub" /\ LockFree
    /\ caller' = <<"remove", caller[2], Len(subs)>>
    /\ UNCHANGED <<rxVars, msgCh, procVars, subs, calls, cancelled, closed>>

\* One round of its loop: an equal subscription is cut out.
RemoveEqual ==
    /\ caller[1] = "remove" /\ caller[3] > 0
    /\ LET i == caller[3] IN
       /\ subs' = IF subs[i] = caller[2]
                  THEN SubSeq(subs, 1, i - 1) \o SubSeq(subs, i + 1, Len(subs)) ELSE subs
       /\ caller' = <<"remove", caller[2], i - 1>>
    /\ UNCHANGED <<rxVars, msgCh, procVars, calls, cancelled, closed>>

Unlock ==
    /\ caller[1] = "remove" /\ caller[3] = 0
    /\ caller' = NoCall
    /\ UNCHANGED <<rxVars, msgCh, procVars, subs, calls, cancelled, closed>>

\* The context given to StartReceiving is cancelled.
CancelParent ==
    /\ ~cancelled /\ cancelled' = TRUE
    /\ UNCHANGED <<rxVars, msgCh, procVars, subVars, closed>>

\* p.cancel cancels a context neither loop looks at; then the transport is closed.
Close ==
    /\ ~closed /\ closed' = TRUE
    /\ UNCHANGED <<rxVars, msgCh, procVars, subVars, cancelled>>

Subscriber == Subscribe \/ Unsubscribe \/ RemoveEqual \/ Unlock

Caller == BeginCall \/ Subscriber \/ CancelParent \/ Close

PathNext == ReceiveLoop \/ ProcessLoop \/ Caller

PathSpec == PathInit /\ [][PathNext]_pathVars

\* Both goroutines are scheduled, handlers return, and a goroutine that waits for the
\* lock gets it.  The caller need not call anything.
FairPathSpec ==
    /\ PathSpec
    /\ WF_pathVars(ReceiveLoop) /\ WF_pathVars(ProcessLoop)
    /\ WF_pathVars(Subscriber)

-----------------------------------------------------------------------------
FramesOf(s) == [i \in DOMAIN s |-> s[i].frame]

\* Between ReadMessage and the handlers no message is lost, repeated or reordered,
\* whenever the loops end: what was handled, what waits (or was left) in msgCh and the
\* message in the hands of the receive loop are exactly what the reader returned.
NothingLostInQueue ==
    FramesOf(handled) \o FramesOf(msgCh)
        \o (IF pc = "msg" THEN <<buffer[startPos]>> ELSE <<>>) = delivered

\* Until the reader shifts its buffer for the first time, every handler sees
\* the payload that was sent.
IntactUntilFirstShift ==
    arrived = count => \A i \in DOMAIN handled : handled[i].intact

\* A dispatch calls exactly the matching subscriptions that were there when it took
\* the lock, each once and in the order they were made; and a handler runs only while
\* it is subscribed: once Unsubscribe has returned, no call of it is going on or begins.
DispatchExact ==
    /\ px = "range" /\ next > Len(subs) =>
         /\ \A i, j \in DOMAIN called : i < j => called[i][1] < called[j][1]
         /\ {called[i] : i \in DOMAIN called} =
              {<<n, present[n]>> : n \in {n \in DOMAIN present : Matches(present[n], Current)}}
    /\ px = "running" => next <= Len(subs) /\ called[Len(called)] = <<next, subs[next]>>

\* Read is asked for no bytes and will be for ever: a candidate frame does not end
\* before the end of the buffer and there is nothing before r.pos to shift out.
Wedged == \E p \in 0 .. BufSize : AtRead(p) /\ Room(p) = 0

\* End to end: every receivable frame of the stream reaches the handlers in the end,
\* although the bounded channel makes the receive loop wait for the process loop and
\* subscribers come and go; unless the protocol is ended, or the reader has lost its
\* place in the buffer or is wedged in it.
EventuallyHandled ==
    <>(\/ Receivable \subseteq {handled[i].frame : i \in DOMAIN handled}
       \/ cancelled \/ closed \/ staleScan \/ Wedged)

\* Once the context is cancelled the process loop ends; once the transport is closed
\* too, so does the receive loop, wherever it was waiting.
LoopsEnd ==
    /\ cancelled ~> px = "done"
    /\ (cancelled /\ closed) ~> rxDone
=============================================================================
