---------------------------- MODULE BrokerProofs ----------------------------
(***************************************************************************)
(* Proofs about Broker, for any entities and any number of transports,     *)
(* configuration changes and elections.                                    *)
(***************************************************************************)
EXTENDS Broker, TLAPS

\* The strengthening of DisconnectReportedOnce: whoever reports has won the swap
\* of the flag, and a loop that has won it has not reported yet.
ReportInv ==
    /\ flag \in [Transports -> BOOLEAN]
    /\ loop \in [Transports -> {"none", "running", "reporting", "done"}]
    /\ reported \in [Transports -> {0, 1}]
    /\ \A t \in Transports :
         /\ reported[t] = 1 => flag[t]
         /\ loop[t] = "reporting" => flag[t] /\ reported[t] = 0

\* No transport has reported before the first step.
LEMMA ReportInit == Init => ReportInv
BY DEF Init, ReportInv

\* Every step preserves ReportInv; only the swap in Close, the two steps of a
\* failing loop, the constructor and a connect task touch what it speaks of.
LEMMA ReportStep == ReportInv /\ [Next]_vars => ReportInv'
<1> SUFFICES ASSUME ReportInv, [Next]_vars PROVE ReportInv'
  BY Zenon
<1>1. CASE SwapAndReport
  <2>1. CASE flag[Subject]
    BY <1>1, <2>1, Zenon DEF SwapAndReport, ReportInv
  <2>2. ASSUME NEW s, ~flag[s],
               flag' = [flag EXCEPT ![s] = TRUE],
               reported' = [reported EXCEPT ![s] = @ + 1],
               loop' = loop
        PROVE  ReportInv'
    <3>1. CASE s \in Transports
      <4>1. reported[s] = 0
        BY <2>2, <3>1, Zenon DEF ReportInv
      <4>2. reported' = [reported EXCEPT ![s] = 1]
        BY <2>2, <4>1
      <4> QED
        BY <2>2, <3>1, <4>1, <4>2, Zenon DEF ReportInv
    <3>2. CASE s \notin Transports
      <4>1. flag' = flag /\ reported' = reported
        BY <2>2, <3>2, Zenon DEF ReportInv
      <4> QED
        BY <2>2, <4>1, Zenon DEF ReportInv
    <3> QED
      BY <3>1, <3>2, Zenon
  <2>3. CASE ~flag[Subject]
    BY <1>1, <2>2, <2>3, Zenon DEF SwapAndReport, Report
  <2> QED
    BY <2>1, <2>3, Zenon
<1>2. ASSUME NEW t \in Transports, LoopFails(t) PROVE ReportInv'
  BY <1>2 DEF LoopFails, ReportInv
<1>3. ASSUME NEW t \in Transports, LoopReports(t) PROVE ReportInv'
  BY <1>3 DEF LoopReports, Report, ReportInv
<1>4. CASE setupTcpTransport
  BY <1>4 DEF setupTcpTransport, transVars, ReportInv
<1>5. CASE RunConnect
  BY <1>5 DEF RunConnect, OnConnect, ReportInv
<1>6. ASSUME UNCHANGED <<flag, loop, reported>> PROVE ReportInv'
  BY <1>6, Zenon DEF ReportInv
<1>7. CASE CloseConnection \/ WaitAcceptLoop \/ DeleteProtocol
           \/ AnnounceTransport
  BY <1>6, <1>7, Zenon DEF CloseConnection, WaitAcceptLoop, DeleteProtocol,
                    AnnounceTransport, transVars
<1>8. CASE Handler \/ onTcpTransportIsEnabledChanged \/ RunDisconnect
  BY <1>6, <1>8, Zenon DEF Handler, CloseNext, Unbind, Notify, SetupNext,
                    onTcpTransportIsEnabledChanged, RunDisconnect, transVars
<1>9. CASE Environment
  BY <1>6, <1>9, Zenon DEF Environment, OnBecameLeader, OnLosingLeadership, OnSchemaUpdated,
                    Deinit, SetEnabled, Drop, transVars
<1>10. CASE UNCHANGED vars
  BY <1>6, <1>10, Zenon DEF vars, transVars
<1> QED
  BY <1>1, <1>2, <1>3, <1>4, <1>5, <1>7, <1>8, <1>9, <1>10, Zenon
  DEF Next, MainThread, Agenda

\* OnDisconnect is called at most once for a transport, in every behaviour of the
\* broker: the CompareAndSwap on `disconnected` decides all the races between
\* Close, the receive loop and the accept loop.
THEOREM BrokerReportsOnce == Spec => []DisconnectReportedOnce
<1>1. ReportInv => DisconnectReportedOnce
  BY DEF ReportInv, DisconnectReportedOnce
<1> QED
  BY <1>1, ReportInit, ReportStep, PTL DEF Spec

-----------------------------------------------------------------------------
(***************************************************************************)
(* Types, the call in progress and the queue of tasks.                     *)
(***************************************************************************)
Phases == {"end", "teardown", "restart", "bind", "setup"}

TaskSet == {"connect", "disconnect"} \X Transports

RestType ==
    /\ isLeader \in BOOLEAN /\ stopped \in BOOLEAN /\ bound \in BOOLEAN
    /\ connected \in [Entities -> BOOLEAN]
    /\ protocols \in [Entities -> Transports \cup {None}]
    /\ made \in Nat /\ made <= MaxTransports
    /\ ent \in [Transports -> Entities]
    /\ open \in [Transports -> BOOLEAN]
    /\ flag \in [Transports -> BOOLEAN]
    /\ loop \in [Transports -> {"none", "running", "reporting", "done"}]
    /\ phase \in Phases /\ toSetup \in SUBSET Entities

TypeInv ==
    RestType /\ tasks \in Seq(TaskSet) /\ notifs \in Seq(Entities \X BOOLEAN)

\* What an agenda can be once its first call has returned.
SwapAt(t) ==
    IF IsClient(t) THEN << <<"swap", t>>, <<"delete", t>> >>
    ELSE << <<"swap", t>>, <<"wait", t>>, <<"delete", t>> >>

WaitAt(t) == << <<"wait", t>>, <<"delete", t>> >>

DeleteAt(t) == << <<"delete", t>> >>

AnnounceAt(t) == << <<"announce", t>> >>

Shape ==
    \/ agenda = <<>>
    \/ \E t \in Transports : agenda \in {CloseCalls(t), SwapAt(t), DeleteAt(t), AnnounceAt(t)}
    \/ \E t \in Transports : agenda = WaitAt(t) /\ ~IsClient(t)
    \/ \E e \in Entities : agenda = SetupCall(e)

\* The call that the main thread is in, if any.
Now == IF agenda = <<>> THEN <<"rest", None>> ELSE Head(agenda)

\* The head and the tail of short sequences.
LEMMA Short ==
    ASSUME NEW a, NEW b, NEW c, NEW d
    PROVE  /\ << a >> # <<>> /\ Head(<< a >>) = a /\ Tail(<< a >>) = <<>>
           /\ << a, b >> # <<>> /\ Head(<< a, b >>) = a /\ Tail(<< a, b >>) = << b >>
           /\ << a, b, c >> # <<>> /\ Head(<< a, b, c >>) = a
           /\ Tail(<< a, b, c >>) = << b, c >>
           /\ << a, b, c, d >> # <<>> /\ Head(<< a, b, c, d >>) = a
           /\ Tail(<< a, b, c, d >>) = << b, c, d >>
OBVIOUS

\* How each shape begins and what is left of it after a call.
LEMMA Shapes ==
    ASSUME NEW t
    PROVE  /\ CloseCalls(t) # <<>> /\ Head(CloseCalls(t)) = <<"close", t>>
           /\ Tail(CloseCalls(t)) = SwapAt(t)
           /\ SwapAt(t) # <<>> /\ Head(SwapAt(t)) = <<"swap", t>>
           /\ Tail(SwapAt(t)) = IF IsClient(t) THEN DeleteAt(t) ELSE WaitAt(t)
           /\ WaitAt(t) # <<>> /\ Head(WaitAt(t)) = <<"wait", t>>
           /\ Tail(WaitAt(t)) = DeleteAt(t)
           /\ DeleteAt(t) # <<>> /\ Head(DeleteAt(t)) = <<"delete", t>>
           /\ Tail(DeleteAt(t)) = <<>>
           /\ AnnounceAt(t) # <<>> /\ Head(AnnounceAt(t)) = <<"announce", t>>
           /\ Tail(AnnounceAt(t)) = <<>>
           /\ SetupCall(t) # <<>> /\ Head(SetupCall(t)) = <<"setup", t>>
           /\ Tail(SetupCall(t)) = <<>>
<1>1. CASE IsClient(t)
  BY <1>1, Short DEF CloseCalls, SwapAt, WaitAt, DeleteAt, AnnounceAt, SetupCall
<1>2. CASE ~IsClient(t)
  BY <1>2, Short DEF CloseCalls, SwapAt, WaitAt, DeleteAt, AnnounceAt, SetupCall
<1> QED
  BY <1>1, <1>2, Zenon

\* The agenda is empty exactly when the main thread is in no call.
LEMMA AtRest == ASSUME Shape PROVE agenda = <<>> <=> Now[1] = "rest"
BY Shapes DEF Shape, Now

\* What the agenda is when its first call is known.
LEMMA AtCall ==
    ASSUME Shape, NEW what, Doing(what)
    PROVE  /\ Now = <<what, Subject>>
           /\ what \in {"close", "swap", "wait", "delete", "announce", "setup"}
           /\ what # "setup" => Subject \in Transports
           /\ what = "close" => agenda = CloseCalls(Subject)
           /\ what = "swap" => agenda = SwapAt(Subject)
           /\ what = "wait" => agenda = WaitAt(Subject)
           /\ what = "delete" => agenda = DeleteAt(Subject)
           /\ what = "announce" => agenda = AnnounceAt(Subject)
           /\ what = "setup" => agenda = SetupCall(Subject) /\ Subject \in Entities
<1>1. ASSUME NEW t \in Transports, agenda = CloseCalls(t)
      PROVE  Now = <<"close", t>> /\ what = "close" /\ Subject = t
  BY <1>1, Shapes DEF Doing, Subject, Now
<1>2. ASSUME NEW t \in Transports, agenda = SwapAt(t)
      PROVE  Now = <<"swap", t>> /\ what = "swap" /\ Subject = t
  BY <1>2, Shapes DEF Doing, Subject, Now
<1>3. ASSUME NEW t \in Transports, agenda = WaitAt(t)
      PROVE  Now = <<"wait", t>> /\ what = "wait" /\ Subject = t
  BY <1>3, Shapes DEF Doing, Subject, Now
<1>4. ASSUME NEW t \in Transports, agenda = DeleteAt(t)
      PROVE  Now = <<"delete", t>> /\ what = "delete" /\ Subject = t
  BY <1>4, Shapes DEF Doing, Subject, Now
<1>5. ASSUME NEW t \in Transports, agenda = AnnounceAt(t)
      PROVE  Now = <<"announce", t>> /\ what = "announce" /\ Subject = t
  BY <1>5, Shapes DEF Doing, Subject, Now
<1>6. ASSUME NEW e \in Entities, agenda = SetupCall(e)
      PROVE  Now = <<"setup", e>> /\ what = "setup" /\ Subject = e
  BY <1>6, Shapes DEF Doing, Subject, Now
<1> QED
  BY <1>1, <1>2, <1>3, <1>4, <1>5, <1>6, Zenon DEF Shape, Doing

\* The main thread goes from one call to the next.
Turn(a, b, t) == Now = <<a, t>> /\ Subject = t /\ Now' = <<b, t>> /\ Shape'

Ends(a, t) == Now = <<a, t>> /\ Subject = t /\ Now' = <<"rest", None>> /\ Shape'

\* How the actions of a Close move through its calls, and the end of an OnConnect.
LEMMA CloseMoves ==
    ASSUME Shape
    PROVE  /\ CloseConnection => \E t \in Transports : Turn("close", "swap", t)
           /\ SwapAndReport => \E t \in Transports :
                                 IF IsClient(t) THEN Turn("swap", "delete", t)
                                 ELSE Turn("swap", "wait", t)
           /\ WaitAcceptLoop => \E t \in Transports : ~IsClient(t) /\ Turn("wait", "delete", t)
           /\ DeleteProtocol => \E t \in Transports : Ends("delete", t)
           /\ AnnounceTransport => \E t \in Transports : Ends("announce", t)
<1>1. ASSUME CloseConnection PROVE \E t \in Transports : Turn("close", "swap", t)
  <2> PICK t \in Transports : t = Subject
    BY <1>1, AtCall DEF CloseConnection
  <2>1. Now = <<"close", t>> /\ agenda' = SwapAt(t) /\ ent' = ent
    BY <1>1, AtCall, Shapes, Zenon DEF CloseConnection, Done
  <2>2. SwapAt(t)' = SwapAt(t)
    BY <2>1, Zenon DEF SwapAt, IsClient
  <2>3. Shape'
    BY <2>1, <2>2, Zenon DEF Shape
  <2> QED
    BY <2>1, <2>3, Shapes, Zenon DEF Turn, Now
<1>2. ASSUME SwapAndReport
      PROVE  \E t \in Transports : IF IsClient(t) THEN Turn("swap", "delete", t)
                                   ELSE Turn("swap", "wait", t)
  <2> PICK t \in Transports : t = Subject
    BY <1>2, AtCall DEF SwapAndReport
  <2>1. /\ Now = <<"swap", t>> /\ ent' = ent
        /\ agenda' = IF IsClient(t) THEN DeleteAt(t) ELSE WaitAt(t)
    BY <1>2, AtCall, Shapes, Zenon DEF SwapAndReport, Done
  <2>2. WaitAt(t)' = WaitAt(t) /\ DeleteAt(t)' = DeleteAt(t) /\ IsClient(t)' = IsClient(t)
    BY <2>1, Zenon DEF WaitAt, DeleteAt, IsClient
  <2>3. Shape'
    BY <2>1, <2>2, Zenon DEF Shape
  <2> QED
    BY <2>1, <2>3, Shapes, Zenon DEF Turn, Now
<1>3. ASSUME WaitAcceptLoop
      PROVE  \E t \in Transports : ~IsClient(t) /\ Turn("wait", "delete", t)
  <2> PICK t \in Transports : t = Subject
    BY <1>3, AtCall DEF WaitAcceptLoop
  <2>1. /\ Now = <<"wait", t>> /\ agenda = WaitAt(t) /\ agenda' = DeleteAt(t)
    BY <1>3, AtCall, Shapes, Zenon DEF WaitAcceptLoop, Done
  <2>2. Shape'
    BY <2>1, Zenon DEF Shape, DeleteAt
  <2>3. ~IsClient(t)
    BY <2>1, Shapes DEF Shape
  <2> QED
    BY <2>1, <2>2, <2>3, Shapes, Zenon DEF Turn, Now
<1>4. ASSUME DeleteProtocol PROVE \E t \in Transports : Ends("delete", t)
  BY <1>4, AtCall, Shapes, Zenon DEF DeleteProtocol, Done, Ends, Now, Shape
<1>5. ASSUME AnnounceTransport PROVE \E t \in Transports : Ends("announce", t)
  BY <1>5, AtCall, Shapes, Zenon DEF AnnounceTransport, Done, Ends, Now, Shape
<1> QED
  BY <1>1, <1>2, <1>3, <1>4, <1>5, Zenon

\* A handler that has nothing left to call starts on one.
Starts(a, x) == Now = <<"rest", None>> /\ Now' = <<a, x>> /\ Shape'

\* The constructor makes transport t for e.
Makes(t, e) ==
    /\ t \in Transports /\ t = made + 1 /\ made' = t
    /\ ent' = [ent EXCEPT ![t] = e]
    /\ open' = [open EXCEPT ![t] = TRUE]
    /\ loop' = [loop EXCEPT ![t] = IF e \in Clients THEN "none" ELSE "running"]
    /\ Now' = <<"announce", t>>

MakesNone == UNCHANGED <<made, ent, open, loop>> /\ Now' = <<"rest", None>>

\* How the other actions change the call in progress.
LEMMA OtherMoves ==
    ASSUME TypeInv, Shape
    PROVE  /\ setupTcpTransport =>
                \E e \in Entities : /\ Now = <<"setup", e>> /\ Subject = e /\ Shape'
                                    /\ MakesNone \/ Makes(made + 1, e)
           /\ CloseNext => \E t \in Held : t \in Transports /\ Starts("close", t)
           /\ SetupNext => \E e \in toSetup : toSetup' = toSetup \ {e} /\ Starts("setup", e)
           /\ (Idle \/ Unbind \/ Notify) => Now = <<"rest", None>>
           /\ UNCHANGED <<agenda, ent>> => Now' = Now /\ Shape'
<1>1. ASSUME setupTcpTransport
      PROVE  \E e \in Entities : /\ Now = <<"setup", e>> /\ Subject = e /\ Shape'
                                 /\ MakesNone \/ Makes(made + 1, e)
  <2> PICK e \in Entities : e = Subject
    BY <1>1, AtCall, Zenon DEF setupTcpTransport
  <2>1. Now = <<"setup", e>>
    BY <1>1, AtCall, Zenon DEF setupTcpTransport
  <2>2. CASE agenda' = <<>> /\ UNCHANGED transVars
    BY <2>1, <2>2, Zenon DEF Now, Shape, MakesNone, transVars
  <2>3. CASE /\ agenda' = AnnounceAt(made + 1) /\ made < MaxTransports
             /\ made' = made + 1
             /\ ent' = [ent EXCEPT ![made + 1] = e]
             /\ open' = [open EXCEPT ![made + 1] = TRUE]
             /\ loop' = [loop EXCEPT ![made + 1] = IF e \in Clients THEN "none" ELSE "running"]
    <3>1. made + 1 \in Transports
      BY <2>3, BoundsAssumption DEF TypeInv, RestType, Transports
    <3>2. Now' = <<"announce", made + 1>>
      BY <2>3, Shapes, Zenon DEF Now
    <3>3. ASSUME NEW t PROVE AnnounceAt(t)' = AnnounceAt(t)
      BY Zenon DEF AnnounceAt
    <3>4. Shape'
      BY <2>3, <3>1, <3>3, Zenon DEF Shape
    <3> QED
      BY <2>1, <2>3, <3>1, <3>2, <3>4, Zenon DEF Makes
  <2> QED
    BY <1>1, <2>2, <2>3, Zenon DEF setupTcpTransport, AnnounceAt
<1>2. ASSUME CloseNext PROVE \E t \in Held : t \in Transports /\ Starts("close", t)
  <2> PICK t \in Held : agenda' = CloseCalls(t)
    BY <1>2, Zenon DEF CloseNext
  <2>1. t \in Transports /\ agenda = <<>> /\ ent' = ent
    BY <1>2, Zenon DEF CloseNext, Held, TypeInv, RestType, In, transVars
  <2>2. CloseCalls(t)' = CloseCalls(t)
    BY <2>1, Zenon DEF CloseCalls, IsClient
  <2> QED
    BY <2>1, <2>2, Shapes, Zenon DEF Starts, Now, Shape
<1>3. ASSUME SetupNext
      PROVE  \E e \in toSetup : toSetup' = toSetup \ {e} /\ Starts("setup", e)
  <2> PICK e \in toSetup : agenda' = SetupCall(e) /\ toSetup' = toSetup \ {e}
    BY <1>3, Zenon DEF SetupNext
  <2>1. e \in Entities /\ agenda = <<>>
    BY <1>3, Zenon DEF SetupNext, TypeInv, RestType, In
  <2> QED
    BY <2>1, Shapes, Zenon DEF Starts, Now, Shape, SetupCall
<1>4. (Idle \/ Unbind \/ Notify) => Now = <<"rest", None>>
  BY Zenon DEF Idle, Unbind, Notify, In, Now
<1>5. UNCHANGED <<agenda, ent>> => Now' = Now /\ Shape'
  BY Zenon DEF Now, Shape, CloseCalls, SwapAt, DeleteAt, AnnounceAt, WaitAt, SetupCall, IsClient
<1> QED
  BY <1>1, <1>2, <1>3, <1>4, <1>5, Zenon

\* Whether a task is in the queue.
Queued(x) == \E i \in DOMAIN tasks : tasks[i] = x

\* No connect task is in the queue twice.
OnceQueued ==
    \A i, j \in DOMAIN tasks : tasks[i] = tasks[j] /\ tasks[i][1] = "connect" => i = j

\* A task is added at the end of the queue.
LEMMA QueueAppend ==
    ASSUME TypeInv, OnceQueued, NEW x \in TaskSet,
           tasks' = Append(tasks, x)
    PROVE  /\ \A y : Queued(y)' <=> Queued(y) \/ y = x
           /\ (x[1] = "connect" => ~Queued(x)) => OnceQueued'
<1>1. /\ DOMAIN tasks = 1 .. Len(tasks) /\ DOMAIN tasks' = 1 .. Len(tasks) + 1
      /\ Len(tasks) \in Nat
      /\ tasks'[Len(tasks) + 1] = x
      /\ \A i \in DOMAIN tasks : i \in DOMAIN tasks' /\ tasks'[i] = tasks[i]
  BY DEF TypeInv, TaskSet
<1>2. ASSUME NEW y PROVE Queued(y)' <=> Queued(y) \/ y = x
  BY <1>1 DEF Queued
<1>3. ASSUME x[1] = "connect" => ~Queued(x) PROVE OnceQueued'
  BY <1>1, <1>3 DEF OnceQueued, Queued
<1> QED
  BY <1>2, <1>3, Zenon

\* A task is taken from the front of the queue.
LEMMA QueueTail ==
    ASSUME TypeInv, OnceQueued, tasks # <<>>, tasks' = Tail(tasks)
    PROVE  /\ Head(tasks) \in TaskSet
           /\ Queued(Head(tasks))
           /\ \A y : Queued(y)' => Queued(y)
           /\ \A y : Queued(y) => Queued(y)' \/ y = Head(tasks)
           /\ \A y : Queued(y)' /\ y[1] = "connect" => y # Head(tasks)
           /\ OnceQueued'
<1> DEFINE n == Len(tasks)
<1>1. /\ DOMAIN tasks = 1 .. n /\ n \in Nat /\ n > 0 /\ DOMAIN tasks' = 1 .. n - 1
      /\ Head(tasks) = tasks[1]
      /\ \A i \in 1 .. n - 1 : tasks'[i] = tasks[i + 1]
      /\ Head(tasks) \in TaskSet
  BY DEF TypeInv, TaskSet
<1> HIDE DEF n
<1>2. Queued(Head(tasks))
  BY <1>1 DEF Queued
<1>3. ASSUME NEW y, Queued(y)' PROVE Queued(y) /\ (y[1] = "connect" => y # Head(tasks))
  <2> PICK i \in 1 .. n - 1 : tasks[i + 1] = y
    BY <1>1, <1>3, Zenon DEF Queued
  <2>1. i + 1 \in 1 .. n /\ i + 1 # 1 /\ 1 \in 1 .. n
    BY <1>1
  <2> QED
    BY <1>1, <2>1, Zenon DEF Queued, OnceQueued
<1>4. ASSUME NEW y, Queued(y) PROVE Queued(y)' \/ y = Head(tasks)
  <2> PICK i \in 1 .. n : tasks[i] = y
    BY <1>1, <1>4, Zenon DEF Queued
  <2>1. CASE i # 1
    <3>1. i - 1 \in 1 .. n - 1 /\ (i - 1) + 1 = i
      BY <1>1, <2>1
    <3> QED
      BY <1>1, <3>1, Zenon DEF Queued
  <2> QED
    BY <1>1, <2>1, Zenon
<1>5. OnceQueued'
  <2> SUFFICES ASSUME NEW i \in 1 .. n - 1, NEW j \in 1 .. n - 1,
                      tasks'[i] = tasks'[j], tasks'[i][1] = "connect"
               PROVE  i = j
    BY <1>1 DEF OnceQueued
  <2>1. i + 1 \in 1 .. n /\ j + 1 \in 1 .. n /\ tasks[i + 1] = tasks[j + 1]
    BY <1>1
  <2>2. i + 1 = j + 1
    BY <1>1, <2>1 DEF OnceQueued
  <2> QED
    BY <2>2
<1> QED
  BY <1>1, <1>2, <1>3, <1>4, <1>5, Zenon

-----------------------------------------------------------------------------
(***************************************************************************)
(* The inductive invariant.                                                *)
(***************************************************************************)
\* Nobody uses a transport before its connect task has run: it is open and, if it
\* is a client, nothing can have swapped its flag.
Unused(t) ==
    /\ t <= made
    /\ \A e \in Entities : protocols[e] # t
    /\ open[t]
    /\ IsClient(t) => ~flag[t] /\ loop[t] = "none"

\* The life of a transport: made, announced, queued, used.
LifeInv ==
    /\ \A t \in Transports : t > made => loop[t] = "none" /\ ~flag[t]
    /\ \A t \in Transports : Queued(<<"connect", t>>) => Unused(t)
    /\ \A t \in Transports : Queued(<<"disconnect", t>>) => t <= made
    /\ \A t \in Transports : Now = <<"announce", t>> => Unused(t) /\ ~Queued(<<"connect", t>>)
    /\ OnceQueued

Closing(t) == Now \in {<<"close", t>>, <<"swap", t>>, <<"wait", t>>, <<"delete", t>>}

\* A call speaks of a protocol in the map or of an entity without one.
CallInv ==
    /\ \A t \in Transports : Closing(t) => protocols[ent[t]] = t
    /\ \A t \in Transports : Now \in {<<"wait", t>>, <<"delete", t>>} => flag[t]
    /\ \A e \in Entities : Now = <<"setup", e>> => isLeader /\ protocols[e] = None
    /\ Now[1] = "announce" => isLeader

\* A protocol in the map is that of its entity, and open unless it is being closed.
HeldInv ==
    \A e \in Entities :
      protocols[e] # None =>
        LET t == protocols[e] IN ent[t] = e /\ t <= made /\ (open[t] \/ Closing(t))

NoneHeld == \A e \in Entities : protocols[e] = None

\* How far a handler is, and who leads.
PhaseInv ==
    /\ phase = "setup" <=> toSetup # {}
    /\ bound => isLeader \/ phase = "teardown"
    /\ ~isLeader => phase \in {"end", "teardown"}
    /\ ~isLeader /\ phase = "end" => NoneHeld /\ Now[1] = "rest"
    /\ phase \in {"bind", "setup"} => NoneHeld

\* The handler that runs will clear IsConnected of e.
AboutToClear(e) == phase \in {"restart", "bind"} \/ e \in toSetup \/ Now = <<"setup", e>>

\* The end of a transport of e is on its way (DisconnectPending).
Leaving(e) ==
    \E t \in Transports :
      ent[t] = e /\ (Queued(<<"disconnect", t>>) \/ loop[t] = "reporting")

\* What IsConnected of a client says, within handlers too.
StatusInv ==
    \A e \in Clients :
      /\ isLeader /\ protocols[e] # None => connected[e] \/ Closing(protocols[e])
      /\ isLeader /\ connected[e] =>
           protocols[e] # None \/ Leaving(e) \/ AboutToClear(e)
      /\ protocols[e] # None /\ flag[protocols[e]] => Leaving(e) \/ ~connected[e]

BrokerInv == TypeInv /\ Shape /\ LifeInv /\ CallInv /\ HeldInv /\ PhaseInv /\ StatusInv

\* The invariant holds before the first step.
LEMMA BrokerInit == Init => BrokerInv
<1> SUFFICES ASSUME Init PROVE BrokerInv
  BY Zenon
<1>1. TypeInv
  <2>1. ASSUME NEW x, x = CHOOSE e \in Entities : TRUE PROVE x \in Entities
    BY <2>1, EntitiesAssumption, Zenon
  <2>2. ent \in [Transports -> Entities]
    BY <2>1, Zenon DEF Init
  <2>3. tasks \in Seq(TaskSet) /\ notifs \in Seq(Entities \X BOOLEAN)
    BY DEF Init
  <2>4. /\ protocols \in [Entities -> Transports \cup {None}]
        /\ connected \in [Entities -> BOOLEAN]
    BY Zenon DEF Init
  <2>5. made \in Nat /\ made <= MaxTransports
    BY BoundsAssumption DEF Init
  <2> QED
    BY <2>2, <2>3, <2>4, <2>5, Zenon DEF Init, TypeInv, RestType, Phases
<1>2. Shape /\ Now = <<"rest", None>>
  BY Zenon DEF Init, Shape, Now
<1>3. \A x : ~Queued(x)
  BY DEF Init, Queued
<1>4. LifeInv
  BY <1>2, <1>3 DEF LifeInv, Init, OnceQueued
<1>5. CallInv /\ HeldInv
  BY <1>2, Zenon DEF CallInv, Closing, HeldInv, Init
<1>6. PhaseInv
  BY <1>2, Zenon DEF PhaseInv, NoneHeld, Init
<1>7. StatusInv
  BY EntitiesAssumption, Zenon DEF StatusInv, Init
<1> QED
  BY <1>1, <1>2, <1>4, <1>5, <1>6, <1>7, Zenon DEF BrokerInv

\* A sequence keeps its type when its ends change.
LEMMA SeqType ==
    ASSUME NEW S, NEW q \in Seq(S)
    PROVE  (\A x \in S : Append(q, x) \in Seq(S)) /\ (q # <<>> => Tail(q) \in Seq(S))
OBVIOUS

\* Every step keeps the types.
LEMMA TypeStep == BrokerInv /\ [Next]_vars => TypeInv'
<1> SUFFICES ASSUME TypeInv, Shape, LifeInv, [Next]_vars PROVE TypeInv'
  BY Zenon DEF BrokerInv
<1>a. RestType /\ tasks \in Seq(TaskSet) /\ notifs \in Seq(Entities \X BOOLEAN)
  BY Zenon DEF TypeInv
<1>b. (RestType /\ tasks \in Seq(TaskSet) /\ notifs \in Seq(Entities \X BOOLEAN))' => TypeInv'
  BY Zenon DEF TypeInv
<1>c. \A t \in Transports : <<"connect", t>> \in TaskSet /\ <<"disconnect", t>> \in TaskSet
  BY Zenon DEF TaskSet
<1>d. ASSUME UNCHANGED <<tasks, notifs>>, RestType' PROVE TypeInv'
  BY <1>a, <1>b, <1>d, Zenon
<1>1. CASE CloseConnection \/ WaitAcceptLoop \/ DeleteProtocol
  <2> PICK t \in Transports : Subject = t
    BY <1>1, CloseMoves, Zenon DEF Turn, Ends
  <2> QED
    <3>1. CASE CloseConnection
      BY <1>a, <1>d, <3>1, Zenon DEF CloseConnection, Done, mainVars, userVars, transVars, RestType
    <3>2. CASE WaitAcceptLoop
      BY <1>a, <1>d, <3>2, Zenon DEF WaitAcceptLoop, Done, mainVars, userVars, transVars, RestType
    <3>3. CASE DeleteProtocol
      BY <1>a, <1>d, <3>3, Zenon DEF DeleteProtocol, Done, mainVars, userVars, transVars, RestType
    <3> QED
      BY <1>1, <3>1, <3>2, <3>3, Zenon
<1>2. CASE AnnounceTransport
  <2> PICK t \in Transports : Subject = t
    BY <1>2, CloseMoves, Zenon DEF Ends
  <2>1. tasks' \in Seq(TaskSet) /\ notifs' = notifs
    BY <1>2, <1>a, <1>c, SeqType, Zenon DEF AnnounceTransport, userVars
  <2>2. RestType'
    BY <1>2, <1>a, Zenon DEF AnnounceTransport, Done, mainVars, transVars, RestType
  <2> QED
    BY <1>a, <1>b, <2>1, <2>2, Zenon
<1>3. CASE SwapAndReport
  <2> PICK t \in Transports : Subject = t
    BY <1>3, CloseMoves, Zenon DEF Turn
  <2>1. tasks' \in Seq(TaskSet) /\ notifs' = notifs
    <3>1. CASE flag[t]
      BY <1>3, <1>a, <3>1, Zenon DEF SwapAndReport, userVars
    <3>2. CASE ~flag[t]
      <4>1. tasks' = Append(tasks, <<"disconnect", t>>) /\ notifs' = notifs
        BY <1>3, <3>2, Zenon DEF SwapAndReport, Report, userVars
      <4> QED
        BY <1>a, <1>c, <4>1, SeqType, Zenon
    <3> QED
      BY <3>1, <3>2, Zenon
  <2>2. RestType'
    BY <1>3, <1>a, Zenon DEF SwapAndReport, Done, mainVars, RestType
  <2> QED
    BY <1>a, <1>b, <2>1, <2>2, Zenon
<1>4. CASE setupTcpTransport
  <2> PICK e \in Entities : Subject = e
    BY <1>4, OtherMoves, Zenon
  <2>1. made < MaxTransports => made + 1 \in Transports /\ made + 1 <= MaxTransports
    BY <1>a, BoundsAssumption DEF RestType, Transports
  <2>2. CASE UNCHANGED transVars
    BY <1>4, <1>a, <1>d, <2>2, Zenon DEF setupTcpTransport, transVars, userVars, RestType
  <2>3. CASE ~UNCHANGED transVars
    <3>1. made' = made + 1 /\ made < MaxTransports
      BY <1>4, <2>3, Zenon DEF setupTcpTransport
    <3>2. /\ ent' \in [Transports -> Entities] /\ open' \in [Transports -> BOOLEAN]
          /\ loop' \in [Transports -> {"none", "running", "reporting", "done"}]
      <4>1. /\ made + 1 \in Transports
            /\ ent' = [ent EXCEPT ![made + 1] = e]
            /\ open' = [open EXCEPT ![made + 1] = TRUE]
            /\ loop' = [loop EXCEPT ![made + 1] = IF e \in Clients THEN "none" ELSE "running"]
        BY <1>4, <2>1, <2>3, <3>1, Zenon DEF setupTcpTransport
      <4>2. /\ ent \in [Transports -> Entities] /\ open \in [Transports -> BOOLEAN]
            /\ loop \in [Transports -> {"none", "running", "reporting", "done"}]
        BY <1>a, Zenon DEF RestType
      <4>3. ent' \in [Transports -> Entities] /\ open' \in [Transports -> BOOLEAN]
        BY ONLY <4>1, <4>2, e \in Entities, Zenon
      <4>4. loop' \in [Transports -> {"none", "running", "reporting", "done"}]
        BY ONLY <4>1, <4>2, Zenon
      <4> QED
        BY <4>3, <4>4, Zenon
    <3>3. /\ connected' \in [Entities -> BOOLEAN]
          /\ UNCHANGED <<isLeader, stopped, bound, protocols, flag, phase, toSetup, tasks,
                         notifs>>
      BY <1>4, <1>a, <2>3, Zenon DEF setupTcpTransport, RestType, userVars
    <3>4. RestType'
      BY <1>a, <2>1, <3>1, <3>2, <3>3 DEF RestType
    <3> QED
      BY <1>d, <3>3, <3>4, Zenon
  <2> QED
    BY <2>2, <2>3, Zenon
<1>5. CASE Handler
  BY <1>5, <1>a, <1>d, Zenon DEF Handler, CloseNext, Unbind, Notify, SetupNext, mainVars, userVars,
              transVars, RestType, Phases
<1>6. CASE onTcpTransportIsEnabledChanged
  <2>1. notifs' \in Seq(Entities \X BOOLEAN) /\ tasks' = tasks
    BY <1>6, <1>a, SeqType, Zenon DEF onTcpTransportIsEnabledChanged
  <2>2. RestType'
    BY <1>6, <1>a, Zenon DEF onTcpTransportIsEnabledChanged, mainVars, transVars, RestType
  <2> QED
    BY <1>a, <1>b, <2>1, <2>2, Zenon
<1>7. CASE RunConnect
  <2> PICK t \in Transports : Head(tasks)[2] = t
    BY <1>7, QueueTail, Zenon DEF RunConnect, LifeInv, TaskSet
  <2>1. tasks' \in Seq(TaskSet) /\ notifs' = notifs
    BY <1>7, <1>a, SeqType, Zenon DEF RunConnect, userVars
  <2>2. RestType'
    BY <1>7, <1>a, Zenon DEF RunConnect, OnConnect, handlerVars, RestType
  <2> QED
    BY <1>a, <1>b, <2>1, <2>2, Zenon
<1>8. CASE RunDisconnect
  <2> PICK t \in Transports : Head(tasks)[2] = t
    BY <1>8, QueueTail, Zenon DEF RunDisconnect, LifeInv, TaskSet
  <2>1. tasks' \in Seq(TaskSet) /\ notifs' = notifs
    BY <1>8, <1>a, SeqType, Zenon DEF RunDisconnect, userVars
  <2>2. RestType'
    BY <1>8, <1>a, Zenon DEF RunDisconnect, OnDisconnect, transVars, RestType
  <2> QED
    BY <1>a, <1>b, <2>1, <2>2, Zenon
<1>9. CASE OnBecameLeader \/ OnLosingLeadership \/ OnSchemaUpdated \/ Deinit
  BY <1>9, <1>a, <1>d, Zenon DEF OnBecameLeader, OnLosingLeadership, OnSchemaUpdated, Deinit, Begin,
              mainVars, userVars, transVars, RestType, Phases
<1>10. ASSUME NEW e \in Entities, NEW b \in BOOLEAN, SetEnabled(e, b) PROVE TypeInv'
  <2>1. notifs' \in Seq(Entities \X BOOLEAN) /\ tasks' = tasks
    BY <1>10, <1>a, SeqType, Zenon DEF SetEnabled
  <2>2. RestType'
    BY <1>10, <1>a, Zenon DEF SetEnabled, mainVars, transVars, handlerVars, RestType
  <2> QED
    BY <1>a, <1>b, <2>1, <2>2, Zenon
<1>11. ASSUME NEW t \in Transports, Drop(t) \/ LoopFails(t) PROVE TypeInv'
  BY <1>11, <1>a, <1>d, Zenon DEF Drop, LoopFails, mainVars, userVars, handlerVars, RestType
<1>12. ASSUME NEW t \in Transports, LoopReports(t) PROVE TypeInv'
  <2>1. tasks' \in Seq(TaskSet) /\ notifs' = notifs
    BY <1>12, <1>a, <1>c, SeqType, Zenon DEF LoopReports, Report, userVars
  <2>2. RestType'
    BY <1>12, <1>a, Zenon DEF LoopReports, mainVars, handlerVars, RestType
  <2> QED
    BY <1>a, <1>b, <2>1, <2>2, Zenon
<1>13. CASE UNCHANGED vars
  BY <1>13, <1>a, <1>d, Zenon DEF vars, mainVars, userVars, transVars, handlerVars, RestType
<1> QED
  BY <1>1, <1>2, <1>3, <1>4, <1>5, <1>6, <1>7, <1>8, <1>9, <1>10, <1>11, <1>12, <1>13, Zenon
  DEF Next, MainThread, Agenda, Environment

\* The tasks and the loops that will report a transport are those of Leaving.
LEMMA LeavingIsPending == ASSUME TypeInv, NEW e PROVE DisconnectPending(e) <=> Leaving(e)
<1>1. ASSUME NEW i \in DOMAIN tasks
      PROVE  tasks[i][2] \in Transports /\ tasks[i] = <<tasks[i][1], tasks[i][2]>>
  BY DEF TypeInv, TaskSet
<1> QED
  BY <1>1 DEF DisconnectPending, Leaving, Queued

\* A transport that is being closed is that of a protocol in the map.
LEMMA ClosingIsHeld ==
    ASSUME BrokerInv, NEW t \in Transports, Closing(t)
    PROVE  protocols[ent[t]] = t /\ t # None /\ ent[t] \in Entities /\ t <= made
<1>1. t # None
  BY DEF Transports, None
<1>2. ent[t] \in Entities
  BY Zenon DEF BrokerInv, TypeInv, RestType
<1>3. protocols[ent[t]] = t
  BY Zenon DEF BrokerInv, CallInv
<1> QED
  BY <1>1, <1>2, <1>3, Zenon DEF BrokerInv, HeldInv

StepInv == (LifeInv /\ CallInv /\ HeldInv /\ PhaseInv /\ StatusInv)'

\* The calls of a Close preserve the invariant.
LEMMA CloseStep ==
    ASSUME BrokerInv, TypeInv',
           CloseConnection \/ SwapAndReport \/ WaitAcceptLoop \/ DeleteProtocol
    PROVE  Shape' /\ StepInv
<1> USE DEF BrokerInv
<1>1. CASE CloseConnection
  <2> PICK t \in Transports : Turn("close", "swap", t)
    BY <1>1, CloseMoves, Zenon
  <2>1. Now = <<"close", t>> /\ Now' = <<"swap", t>> /\ Shape' /\ Subject = t
    BY Zenon DEF Turn
  <2>2. /\ open' = [open EXCEPT ![t] = FALSE]
        /\ UNCHANGED <<isLeader, bound, connected, protocols, made, ent, flag, loop,
                       phase, toSetup, tasks>>
    BY <1>1, <2>1, Zenon DEF CloseConnection, Done, mainVars
  <2>3. \A x : Queued(x)' = Queued(x)
    BY <2>2, Zenon DEF Queued
  <2>4. protocols[ent[t]] = t /\ t # None /\ ent[t] \in Entities /\ t <= made
    BY <2>1, ClosingIsHeld, Zenon DEF Closing
  <2>5. LifeInv'
    <3>1. ASSUME NEW u \in Transports, Unused(u) PROVE Unused(u)'
      BY <2>2, <2>4, <3>1, Zenon DEF Unused, IsClient, TypeInv, RestType
    <3> QED
      BY <2>1, <2>2, <2>3, <3>1, Zenon DEF LifeInv, OnceQueued
  <2>6. CallInv'
    BY <2>1, <2>2, <2>4, Zenon DEF CallInv, Closing
  <2>7. HeldInv'
    BY <2>1, <2>2, <2>4 DEF HeldInv, Closing, TypeInv, RestType
  <2>8. PhaseInv'
    BY <2>1, <2>2, Zenon DEF PhaseInv, NoneHeld
  <2>9. StatusInv'
    BY <2>1, <2>2, <2>3, Zenon DEF StatusInv, Closing, Leaving, AboutToClear
  <2> QED
    BY <2>1, <2>5, <2>6, <2>7, <2>8, <2>9, Zenon DEF StepInv
<1>2. CASE SwapAndReport
  <2> PICK t \in Transports : IF IsClient(t) THEN Turn("swap", "delete", t)
                              ELSE Turn("swap", "wait", t)
    BY <1>2, CloseMoves, Zenon
  <2>1. /\ Now = <<"swap", t>> /\ Now' \in {<<"wait", t>>, <<"delete", t>>} /\ Shape'
        /\ Subject = t
    BY Zenon DEF Turn
  <2>2. /\ flag' = [flag EXCEPT ![t] = TRUE]
        /\ UNCHANGED <<isLeader, bound, connected, protocols, made, ent, open, loop,
                       phase, toSetup>>
    BY <1>2, <2>1, Zenon DEF SwapAndReport, Report, Done, mainVars, TypeInv, RestType
  <2>3. /\ OnceQueued'
        /\ \A x : Queued(x) => Queued(x)'
        /\ \A x : Queued(x)' => Queued(x) \/ x = <<"disconnect", t>>
        /\ Queued(<<"disconnect", t>>)' \/ flag[t]
    <3>1. CASE flag[t]
      BY <1>2, <2>1, <3>1, Zenon DEF SwapAndReport, Queued, LifeInv, OnceQueued
    <3>2. CASE ~flag[t]
      <4>1. tasks' = Append(tasks, <<"disconnect", t>>) /\ <<"disconnect", t>> \in TaskSet
        BY <1>2, <2>1, <3>2, Zenon DEF SwapAndReport, Report, TaskSet
      <4> QED
        BY <4>1, QueueAppend, Zenon DEF LifeInv
    <3> QED
      BY <3>1, <3>2, Zenon
  <2>4. protocols[ent[t]] = t /\ t # None /\ ent[t] \in Entities /\ t <= made
    BY <2>1, ClosingIsHeld, Zenon DEF Closing
  <2>5. LifeInv'
    <3>1. ASSUME NEW u \in Transports, Unused(u) PROVE Unused(u)'
      BY <2>2, <2>4, <3>1, Zenon DEF Unused, IsClient, TypeInv, RestType
    <3>3. ASSUME NEW u \in Transports, u > made PROVE loop[u] = "none" /\ ~flag[u] /\ u # t
      BY <2>4, <3>3 DEF LifeInv, TypeInv, RestType, Transports
    <3>4. \A u \in Transports : u > made' => loop'[u] = "none" /\ ~flag'[u]
      BY <2>2, <3>3, Zenon DEF TypeInv, RestType
    <3>5. \A u \in Transports : Queued(<<"connect", u>>)' => Unused(u)'
      BY <2>3, <3>1, Zenon DEF LifeInv
    <3>6. \A u \in Transports : Queued(<<"disconnect", u>>)' => u <= made'
      BY <2>2, <2>3, <2>4, Zenon DEF LifeInv
    <3> QED
      BY <2>1, <2>3, <3>4, <3>5, <3>6 DEF LifeInv
  <2>6. CallInv'
    <3>1. flag'[t]
      BY <2>2, Zenon DEF TypeInv, RestType
    <3>2. Now'[1] \in {"wait", "delete"} /\ Now'[2] = t
      BY <2>1
    <3> QED
      BY <2>1, <2>2, <2>4, <3>1, <3>2 DEF CallInv, Closing
  <2>7. HeldInv'
    BY <2>1, <2>2, <2>4, Zenon DEF HeldInv, Closing, TypeInv, RestType
  <2>8. PhaseInv'
    BY <2>1, <2>2, Zenon DEF PhaseInv, NoneHeld
  <2>9. StatusInv'
    <3>1. \A e : Leaving(e) => Leaving(e)'
      BY <2>2, <2>3, Zenon DEF Leaving
    <3>2. Leaving(ent[t])' \/ flag[t]
      BY <2>2, <2>3, Zenon DEF Leaving
    <3> SUFFICES ASSUME NEW e \in Clients
                 PROVE  /\ isLeader /\ protocols[e] # None =>
                             connected[e] \/ Closing(protocols[e])'
                        /\ isLeader /\ connected[e] =>
                             protocols[e] # None \/ Leaving(e)' \/ AboutToClear(e)'
                        /\ protocols[e] # None /\ flag'[protocols[e]] =>
                             Leaving(e)' \/ ~connected[e]
      BY <2>2, Zenon DEF StatusInv, Closing
    <3>3. e \in Entities
      BY EntitiesAssumption, Zenon
    <3>5. AboutToClear(e) => AboutToClear(e)'
      BY <2>1, <2>2, Zenon DEF AboutToClear
    <3>6. protocols[e] # None /\ flag'[protocols[e]] => flag[protocols[e]] \/ Leaving(e)'
      BY <2>2, <2>4, <3>2, <3>3 DEF HeldInv, TypeInv, RestType
    <3> QED
      BY <2>1, <2>2, <3>1, <3>5, <3>6, Zenon DEF StatusInv, Closing
  <2> QED
    BY <2>1, <2>5, <2>6, <2>7, <2>8, <2>9, Zenon DEF StepInv
<1>3. CASE WaitAcceptLoop
  <2> PICK t \in Transports : Turn("wait", "delete", t)
    BY <1>3, CloseMoves, Zenon
  <2>1. Now = <<"wait", t>> /\ Now' = <<"delete", t>> /\ Shape' /\ Subject = t
    BY Zenon DEF Turn
  <2>2. UNCHANGED <<isLeader, bound, connected, protocols, made, ent, open, flag, loop, phase,
                    toSetup, tasks>>
    BY <1>3, <2>1, Zenon DEF WaitAcceptLoop, Done, mainVars, transVars
  <2>3. \A x : Queued(x)' = Queued(x)
    BY <2>2, Zenon DEF Queued
  <2>5. LifeInv'
    <3>1. \A u : Unused(u)' = Unused(u)
      BY <2>2, Zenon DEF Unused, IsClient
    <3> QED
      BY <2>1, <2>2, <2>3, <3>1, Zenon DEF LifeInv, OnceQueued
  <2>6. CallInv'
    BY <2>1, <2>2, Zenon DEF CallInv, Closing
  <2>7. HeldInv'
    BY <2>1, <2>2, Zenon DEF HeldInv, Closing
  <2>8. PhaseInv'
    BY <2>1, <2>2, Zenon DEF PhaseInv, NoneHeld
  <2>9. StatusInv'
    BY <2>1, <2>2, <2>3, Zenon DEF StatusInv, Closing, Leaving, AboutToClear
  <2> QED
    BY <2>1, <2>5, <2>6, <2>7, <2>8, <2>9, Zenon DEF StepInv
<1>4. CASE DeleteProtocol
  <2> PICK t \in Transports : Ends("delete", t)
    BY <1>4, CloseMoves, Zenon
  <2>1. Now = <<"delete", t>> /\ Now' = <<"rest", None>> /\ Shape' /\ Subject = t
    BY Zenon DEF Ends
  <2>2. /\ protocols' = [protocols EXCEPT ![ent[t]] = None]
        /\ UNCHANGED <<isLeader, bound, connected, made, ent, open, flag, loop, phase,
                       toSetup, tasks>>
    BY <1>4, <2>1, Zenon DEF DeleteProtocol, Done, transVars
  <2>3. \A x : Queued(x)' = Queued(x)
    BY <2>2, Zenon DEF Queued
  <2>4. protocols[ent[t]] = t /\ t # None /\ ent[t] \in Entities /\ flag[t]
    BY <2>1, ClosingIsHeld, Zenon DEF Closing, CallInv
  <2>5. LifeInv'
    <3>1. ASSUME NEW u \in Transports, Unused(u) PROVE Unused(u)'
      <4>1. u # None
        BY DEF Transports, None
      <4> QED
        BY <2>2, <2>4, <3>1, <4>1, Zenon DEF Unused, IsClient, TypeInv, RestType
    <3> QED
      BY <2>1, <2>2, <2>3, <3>1, Zenon DEF LifeInv, OnceQueued
  <2>6. CallInv'
    BY <2>1, <2>2, <2>4, Zenon DEF CallInv, Closing
  <2>7. HeldInv'
    BY <2>1, <2>2, <2>4 DEF HeldInv, Closing, TypeInv, RestType
  <2>8. PhaseInv'
    BY <2>1, <2>2, <2>4, Zenon DEF PhaseInv, NoneHeld, TypeInv, RestType
  <2>9. StatusInv'
    <3>1. \A e : Leaving(e)' = Leaving(e)
      BY <2>2, <2>3, Zenon DEF Leaving
    <3> SUFFICES ASSUME NEW e \in Clients
                 PROVE  /\ isLeader /\ protocols'[e] # None => connected[e]
                        /\ isLeader /\ connected[e] =>
                             protocols'[e] # None \/ Leaving(e) \/ AboutToClear(e)'
                        /\ protocols'[e] # None /\ flag[protocols'[e]] =>
                             Leaving(e) \/ ~connected[e]
      BY <2>2, <3>1, Zenon DEF StatusInv
    <3>2. e \in Entities /\ (AboutToClear(e) => AboutToClear(e)')
      BY <2>1, <2>2, EntitiesAssumption, Zenon DEF AboutToClear
    <3>3. CASE e = ent[t]
      BY <2>2, <2>4, <3>2, <3>3, Zenon DEF StatusInv, TypeInv, RestType
    <3>4. CASE e # ent[t]
      <4>1. protocols'[e] = protocols[e]
        BY <2>2, <3>2, <3>4, Zenon DEF TypeInv, RestType
      <4>2. protocols[e] # None => ~Closing(protocols[e])
        BY <2>1, <3>2, <3>4, Zenon DEF HeldInv, Closing
      <4> QED
        BY <3>2, <4>1, <4>2, Zenon DEF StatusInv
    <3> QED
      BY <3>3, <3>4, Zenon
  <2> QED
    BY <2>1, <2>5, <2>6, <2>7, <2>8, <2>9, Zenon DEF StepInv
<1> QED
  BY <1>1, <1>2, <1>3, <1>4, Zenon

-----------------------------------------------------------------------------
(***************************************************************************)
(* BrokerInv is an invariant: the steps other than those of a Close, and   *)
(* what follows for the map of protocols and for IsConnected.              *)
(***************************************************************************)
\* Making a transport and announcing it preserve the invariant.
LEMMA SetupStep ==
    ASSUME BrokerInv, TypeInv', setupTcpTransport \/ AnnounceTransport
    PROVE  Shape' /\ StepInv
<1> USE DEF BrokerInv
<1>1. CASE setupTcpTransport
  <2> PICK e \in Entities : /\ Now = <<"setup", e>> /\ Subject = e /\ Shape'
                            /\ MakesNone \/ Makes(made + 1, e)
    BY <1>1, OtherMoves, Zenon
  <2>1. /\ connected' = [connected EXCEPT ![e] = FALSE]
        /\ UNCHANGED <<isLeader, bound, protocols, flag, phase, toSetup, tasks>>
    BY <1>1, Zenon DEF setupTcpTransport, transVars
  <2>2. \A x : Queued(x)' = Queued(x)
    BY <2>1, Zenon DEF Queued
  <2>3. isLeader /\ protocols[e] = None
    BY Zenon DEF CallInv
  <2>4. \A u \in Transports : ~Closing(u) /\ ~Closing(u)'
    BY DEF Closing, Makes, MakesNone
  <2>5. CallInv'
    <3>1. Now'[1] # "wait" /\ Now'[1] # "delete" /\ Now'[1] # "setup"
      BY DEF Makes, MakesNone
    <3> QED
      BY <2>1, <2>3, <2>4, <3>1 DEF CallInv
  <2>6. PhaseInv'
    BY <2>1, <2>3, Zenon DEF PhaseInv, NoneHeld
  <2>7. LifeInv' /\ HeldInv' /\ \A x : Leaving(x) => Leaving(x)'
    <3>1. CASE MakesNone
      <4>1. LifeInv'
        <5>1. \A u : Unused(u)' = Unused(u)
          BY <2>1, <3>1, Zenon DEF MakesNone, Unused, IsClient
        <5> QED
          BY <2>1, <2>2, <3>1, <5>1, Zenon DEF LifeInv, MakesNone, OnceQueued
      <4>2. HeldInv'
        BY <2>1, <2>4, <3>1, Zenon DEF HeldInv, MakesNone, Closing
      <4>3. \A x : Leaving(x) => Leaving(x)'
        BY <2>2, <3>1, Zenon DEF Leaving, MakesNone
      <4> QED
        BY <4>1, <4>2, <4>3, Zenon
    <3>2. ASSUME NEW t, t = made + 1, Makes(t, e)
          PROVE  LifeInv' /\ HeldInv' /\ \A x : Leaving(x) => Leaving(x)'
      <4>1. /\ t \in Transports /\ made' = t /\ Now' = <<"announce", t>>
            /\ t > made /\ made \in Nat
            /\ t <= made' /\ ~(t <= made)
        BY <3>2 DEF Makes, TypeInv, RestType
      <4>a. \A u \in Transports : u <= made => u # t /\ u <= made'
        BY <4>1 DEF Transports
      <4>2. \A u \in Transports :
              u <= made => /\ u # t /\ u <= made'
                           /\ ent'[u] = ent[u] /\ open'[u] = open[u] /\ loop'[u] = loop[u]
        BY <3>2, <4>1, <4>a DEF Makes, TypeInv, RestType
      <4>3. /\ ent'[t] = e /\ open'[t] /\ ~flag'[t]
            /\ loop'[t] # "reporting" /\ (e \in Clients => loop'[t] = "none")
        BY <2>1, <3>2, <4>1 DEF Makes, TypeInv, RestType, LifeInv
      <4>4. ASSUME NEW u \in Transports, Unused(u) PROVE Unused(u)'
        BY <2>1, <4>2, <4>4, Zenon DEF Unused, IsClient
      <4>5. \A x \in Entities : protocols[x] # t
        BY <4>1 DEF HeldInv, None, Transports
      <4>6. Unused(t)'
        BY <2>1, <4>1, <4>3, <4>5, Zenon DEF Unused, IsClient
      <4>7. ~Queued(<<"connect", t>>)
        BY <4>1, Zenon DEF LifeInv, Unused
      <4>8. \A u \in Transports : u > made' => loop'[u] = "none" /\ ~flag'[u]
        BY <2>1, <3>2, <4>1 DEF LifeInv, Makes, TypeInv, RestType, Transports
      <4>9. LifeInv'
        BY <2>1, <2>2, <4>1, <4>2, <4>4, <4>6, <4>7, <4>8, Zenon DEF LifeInv, OnceQueued
      <4>10. HeldInv'
        <5> SUFFICES ASSUME NEW x \in Entities, protocols[x] # None
                     PROVE  /\ ent'[protocols[x]] = x /\ protocols[x] <= made'
                            /\ open'[protocols[x]]
          BY <2>1, Zenon DEF HeldInv
        <5> QED
          BY <2>4, <4>2 DEF HeldInv, TypeInv, RestType
      <4>11. \A x : Leaving(x) => Leaving(x)'
        <5>1. \A u \in Transports :
                loop[u] = "reporting" \/ Queued(<<"disconnect", u>>) => u <= made
          BY <4>1 DEF LifeInv, Transports
        <5> QED
          BY <2>2, <4>2, <5>1, Zenon DEF Leaving
      <4> QED
        BY <4>9, <4>10, <4>11, Zenon
    <3> QED
      BY <3>1, <3>2, Zenon
  <2>8. StatusInv'
    <3> SUFFICES ASSUME NEW x \in Clients
                 PROVE  /\ isLeader /\ protocols[x] # None => connected'[x]
                        /\ isLeader /\ connected'[x] =>
                             protocols[x] # None \/ Leaving(x)' \/ AboutToClear(x)'
                        /\ protocols[x] # None /\ flag[protocols[x]] =>
                             Leaving(x)' \/ ~connected'[x]
      BY <2>1, Zenon DEF StatusInv
    <3>1. CASE x = e
      BY <2>1, <2>3, <3>1, Zenon DEF TypeInv, RestType
    <3>2. CASE x # e
      <4>1. x \in Entities /\ connected'[x] = connected[x]
        BY <2>1, <3>2, EntitiesAssumption, Zenon DEF TypeInv, RestType
      <4>2. protocols[x] # None => ~Closing(protocols[x])
        BY <2>4, <4>1, Zenon DEF TypeInv, RestType
      <4>3. AboutToClear(x) => AboutToClear(x)'
        BY <2>1, <3>2, Zenon DEF AboutToClear
      <4> QED
        BY <2>7, <4>1, <4>2, <4>3, Zenon DEF StatusInv
    <3> QED
      BY <3>1, <3>2, Zenon
  <2> QED
    BY <2>5, <2>6, <2>7, <2>8, Zenon DEF StepInv
<1>2. CASE AnnounceTransport
  <2> PICK t \in Transports : Ends("announce", t)
    BY <1>2, CloseMoves, Zenon
  <2>1. Now = <<"announce", t>> /\ Now' = <<"rest", None>> /\ Shape' /\ Subject = t
    BY Zenon DEF Ends
  <2>2. /\ tasks' = Append(tasks, <<"connect", t>>)
        /\ UNCHANGED <<isLeader, bound, connected, protocols, made, ent, open, flag, loop,
                       phase, toSetup>>
    BY <1>2, <2>1, Zenon DEF AnnounceTransport, Done, transVars, mainVars
  <2>3. <<"connect", t>> \in TaskSet /\ Unused(t) /\ ~Queued(<<"connect", t>>)
    BY <2>1, Zenon DEF LifeInv, TaskSet
  <2>4. OnceQueued' /\ \A x : Queued(x)' <=> Queued(x) \/ x = <<"connect", t>>
    BY <2>2, <2>3, QueueAppend, Zenon DEF LifeInv
  <2>5. LifeInv'
    <3>1. \A u : Unused(u)' = Unused(u)
      BY <2>2, Zenon DEF Unused, IsClient
    <3> QED
      BY <2>1, <2>2, <2>3, <2>4, <3>1, Zenon DEF LifeInv
  <2>6. CallInv'
    BY <2>1, <2>2, Zenon DEF CallInv, Closing
  <2>7. HeldInv'
    BY <2>1, <2>2, Zenon DEF HeldInv, Closing
  <2>8. PhaseInv'
    BY <2>1, <2>2, Zenon DEF PhaseInv, NoneHeld
  <2>9. StatusInv'
    <3>1. \A e : Leaving(e) => Leaving(e)'
      BY <2>2, <2>4, Zenon DEF Leaving
    <3> QED
      BY <2>1, <2>2, <3>1, Zenon DEF StatusInv, Closing, AboutToClear
  <2> QED
    BY <2>1, <2>5, <2>6, <2>7, <2>8, <2>9, Zenon DEF StepInv
<1> QED
  BY <1>1, <1>2, Zenon

\* Only the handler, the leadership and the binding change.
HandlerOnly == UNCHANGED <<connected, protocols, made, ent, open, flag, loop, tasks>>

\* What such a step leaves as it was.
LEMMA HandlerKeeps ==
    ASSUME BrokerInv, HandlerOnly, Now[1] = "rest",
           Now'[1] \notin {"announce", "wait", "delete"}
    PROVE  /\ LifeInv' /\ (\A x : Leaving(x)' = Leaving(x))
           /\ \A t \in Transports : ~Closing(t)
           /\ HeldInv'
<1>1. \A x : Queued(x)' = Queued(x)
  BY Zenon DEF HandlerOnly, Queued
<1>2. LifeInv'
  <2>1. \A u : Unused(u)' = Unused(u)
    BY Zenon DEF HandlerOnly, Unused, IsClient
  <2>2. OnceQueued' = OnceQueued
    BY Zenon DEF HandlerOnly, OnceQueued
  <2> QED
    BY <1>1, <2>1, <2>2 DEF BrokerInv, LifeInv, HandlerOnly
<1>3. \A x : Leaving(x)' = Leaving(x)
  BY <1>1, Zenon DEF Leaving, HandlerOnly
<1>4. \A t \in Transports : ~Closing(t)
  BY DEF Closing
<1>5. HeldInv'
  <2> SUFFICES ASSUME NEW e \in Entities, protocols[e] # None
               PROVE  ent[protocols[e]] = e /\ protocols[e] <= made /\ open[protocols[e]]
    BY Zenon DEF HandlerOnly, HeldInv
  <2> QED
    BY <1>4 DEF BrokerInv, HeldInv, TypeInv, RestType
<1> QED
  BY <1>2, <1>3, <1>4, <1>5, Zenon

\* The map is empty when no protocol is held.
LEMMA HeldNone == Held = {} <=> NoneHeld
BY Zenon DEF Held, NoneHeld

\* The parts of teardown and setup preserve the invariant.
LEMMA HandlerStep ==
    ASSUME BrokerInv, TypeInv', Handler
    PROVE  Shape' /\ StepInv
<1> USE DEF BrokerInv
<1>1. CASE CloseNext
  <2> PICK t \in Held : t \in Transports /\ Starts("close", t)
    BY <1>1, OtherMoves, Zenon
  <2>1. Now = <<"rest", None>> /\ Now' = <<"close", t>> /\ Shape'
    BY Zenon DEF Starts
  <2>2. /\ HandlerOnly
        /\ UNCHANGED <<isLeader, bound, phase, toSetup, connected, protocols, ent, flag>>
        /\ phase \in {"teardown", "restart"}
    BY <1>1, Zenon DEF CloseNext, In, HandlerOnly, mainVars, transVars
  <2>3. protocols[ent[t]] = t
    BY Zenon DEF Held, HeldInv
  <2>4. LifeInv' /\ HeldInv' /\ \A x : Leaving(x)' = Leaving(x)
    BY <2>1, <2>2, HandlerKeeps, Zenon
  <2>5. CallInv'
    BY <2>1, <2>2, <2>3, Zenon DEF CallInv, Closing
  <2>6. PhaseInv'
    BY <2>1, <2>2, Zenon DEF PhaseInv, NoneHeld
  <2>7. StatusInv'
    BY <2>1, <2>2, <2>4, Zenon DEF StatusInv, Closing, AboutToClear
  <2> QED
    BY <2>1, <2>4, <2>5, <2>6, <2>7, Zenon DEF StepInv
<1>2. CASE Unbind
  <2>1. /\ HandlerOnly
        /\ UNCHANGED <<isLeader, toSetup, connected, protocols, ent, flag, agenda>>
        /\ phase \in {"teardown", "restart"} /\ bound' = FALSE
        /\ phase' = IF phase = "restart" THEN "bind" ELSE "end"
    BY <1>2, Zenon DEF Unbind, In, HandlerOnly, transVars
  <2>2. Now = <<"rest", None>> /\ Now' = <<"rest", None>> /\ Shape'
    BY <1>2, <2>1, OtherMoves, Zenon
  <2>3. NoneHeld
    BY <1>2, HeldNone, Zenon DEF Unbind
  <2>4. LifeInv' /\ HeldInv' /\ \A x : Leaving(x)' = Leaving(x)
    BY <2>1, <2>2, HandlerKeeps, Zenon
  <2>5. CallInv'
    BY <2>1, <2>2, Zenon DEF CallInv, Closing
  <2>6. PhaseInv'
    BY <2>1, <2>2, <2>3, Zenon DEF PhaseInv, NoneHeld
  <2>7. StatusInv'
    BY <2>1, <2>2, <2>4, Zenon DEF StatusInv, Closing, AboutToClear
  <2> QED
    BY <2>2, <2>4, <2>5, <2>6, <2>7, Zenon DEF StepInv
<1>3. CASE Notify
  <2>1. /\ HandlerOnly
        /\ UNCHANGED <<isLeader, connected, protocols, ent, flag, agenda>>
        /\ phase = "bind" /\ phase' = "setup" /\ toSetup' = Entities /\ Entities # {}
    BY <1>3, EntitiesAssumption, Zenon DEF Notify, In, HandlerOnly, transVars
  <2>2. Now = <<"rest", None>> /\ Now' = <<"rest", None>> /\ Shape'
    BY <1>3, <2>1, OtherMoves, Zenon
  <2>4. LifeInv' /\ HeldInv' /\ \A x : Leaving(x)' = Leaving(x)
    BY <2>1, <2>2, HandlerKeeps, Zenon
  <2>5. CallInv'
    BY <2>1, <2>2, Zenon DEF CallInv, Closing
  <2>6. PhaseInv'
    BY <2>1, <2>2, Zenon DEF PhaseInv, NoneHeld
  <2>7. StatusInv'
    <3>1. \A e \in Clients : AboutToClear(e)'
      BY <2>1, EntitiesAssumption, Zenon DEF AboutToClear
    <3> QED
      BY <2>1, <2>2, <2>4, <3>1, Zenon DEF StatusInv, Closing
  <2> QED
    BY <2>2, <2>4, <2>5, <2>6, <2>7, Zenon DEF StepInv
<1>4. CASE SetupNext
  <2> PICK e \in toSetup : toSetup' = toSetup \ {e} /\ Starts("setup", e)
    BY <1>4, OtherMoves, Zenon
  <2>1. Now = <<"rest", None>> /\ Now' = <<"setup", e>> /\ Shape'
    BY Zenon DEF Starts
  <2>2. /\ HandlerOnly
        /\ UNCHANGED <<isLeader, bound, connected, protocols, ent, flag>>
        /\ phase = "setup" /\ phase' = IF toSetup' = {} THEN "end" ELSE "setup"
    BY <1>4, Zenon DEF SetupNext, In, HandlerOnly, mainVars, transVars
  <2>3. isLeader /\ NoneHeld
    BY <2>2, Zenon DEF PhaseInv
  <2>4. LifeInv' /\ HeldInv' /\ \A x : Leaving(x)' = Leaving(x)
    BY <2>1, <2>2, HandlerKeeps, Zenon
  <2>5. CallInv'
    BY <2>1, <2>2, <2>3, Zenon DEF CallInv, Closing, NoneHeld
  <2>6. PhaseInv'
    BY <2>1, <2>2, <2>3, Zenon DEF PhaseInv, NoneHeld
  <2>7. StatusInv'
    <3>1. \A x : AboutToClear(x) => AboutToClear(x)'
      BY <2>1, <2>2, Zenon DEF AboutToClear
    <3>2. \A x \in Clients : protocols[x] = None
      BY <2>3, EntitiesAssumption, Zenon DEF NoneHeld
    <3> QED
      BY <2>2, <2>4, <3>1, <3>2, Zenon DEF StatusInv
  <2> QED
    BY <2>1, <2>4, <2>5, <2>6, <2>7, Zenon DEF StepInv
<1> QED
  BY <1>1, <1>2, <1>3, <1>4, Zenon DEF Handler

\* Elections, schema updates, stopping and notifications start handlers, which
\* preserves the invariant.
LEMMA EventStep ==
    ASSUME BrokerInv, TypeInv',
           \/ OnBecameLeader \/ OnLosingLeadership \/ OnSchemaUpdated \/ Deinit
           \/ onTcpTransportIsEnabledChanged
    PROVE  Shape' /\ StepInv
<1> USE DEF BrokerInv
<1>1. HandlerOnly /\ UNCHANGED <<bound, connected, protocols, ent, flag, toSetup>>
  BY Zenon DEF OnBecameLeader, OnLosingLeadership, OnSchemaUpdated, Deinit, Begin,
         onTcpTransportIsEnabledChanged, mainVars, transVars, HandlerOnly
<1>2. Now = <<"rest", None>> /\ agenda = <<>> /\ phase = "end"
  BY OtherMoves, Zenon
  DEF OnBecameLeader, OnLosingLeadership, OnSchemaUpdated, Deinit,
      onTcpTransportIsEnabledChanged, Idle
<1>3. \A t \in Transports : ~Closing(t)
  BY <1>2, Zenon DEF Closing
<1>4. ~isLeader => NoneHeld /\ ~bound
  BY <1>2, Zenon DEF PhaseInv
<1>5. CASE OnBecameLeader \/ OnLosingLeadership \/ OnSchemaUpdated \/ Deinit
  <2>1. /\ agenda' = agenda
        /\ \/ phase' = "restart" /\ isLeader' /\ (isLeader \/ NoneHeld)
           \/ phase' = "teardown" /\ (isLeader' => isLeader)
    BY <1>4, <1>5 DEF OnBecameLeader, OnLosingLeadership, OnSchemaUpdated, Deinit, Begin,
                      mainVars, PhaseInv
  <2>2. Now' = <<"rest", None>> /\ Shape'
    BY <1>1, <1>2, <2>1, OtherMoves, Zenon
  <2>4. LifeInv' /\ HeldInv' /\ \A x : Leaving(x)' = Leaving(x)
    BY <1>1, <1>2, <2>2, HandlerKeeps, Zenon
  <2>5. CallInv'
    BY <1>1, <2>2, Zenon DEF CallInv, Closing
  <2>6. PhaseInv'
    BY <1>1, <1>2, <1>4, <2>1, <2>2, Zenon DEF PhaseInv, NoneHeld
  <2>7. StatusInv'
    <3>1. CASE phase' = "restart" /\ isLeader' /\ (isLeader \/ NoneHeld)
      <4>1. \A x : AboutToClear(x)'
        BY <3>1, Zenon DEF AboutToClear
      <4>2. \A x \in Clients : protocols[x] # None =>
               isLeader /\ x \in Entities /\ protocols[x] \in Transports
        BY <3>1, EntitiesAssumption, Zenon DEF NoneHeld, TypeInv, RestType
      <4> QED
        BY <1>1, <1>3, <2>4, <4>1, <4>2, Zenon DEF StatusInv
    <3>2. CASE phase' = "teardown" /\ (isLeader' => isLeader)
      <4>1. \A x : AboutToClear(x) => AboutToClear(x)'
        BY <1>1, <1>2, Zenon DEF AboutToClear
      <4>2. \A x \in Clients : protocols[x] # None => protocols[x] \in Transports
        BY EntitiesAssumption, Zenon DEF TypeInv, RestType
      <4> QED
        BY <1>1, <1>3, <2>4, <3>2, <4>1, <4>2, Zenon DEF StatusInv
    <3> QED
      BY <2>1, <3>1, <3>2, Zenon
  <2> QED
    BY <2>2, <2>4, <2>5, <2>6, <2>7, Zenon DEF StepInv
<1>6. CASE onTcpTransportIsEnabledChanged
  <2>1. UNCHANGED <<isLeader, phase>> /\ notifs # <<>> /\ (bound => isLeader)
    BY <1>2, <1>6, Zenon DEF onTcpTransportIsEnabledChanged, mainVars, PhaseInv
  <2> PICK e \in Entities : Head(notifs)[1] = e
    BY <2>1 DEF TypeInv
  <2>2. \/ /\ Now' = <<"close", protocols[e]>> /\ protocols[e] # None /\ Shape' /\ isLeader
        \/ Now' = <<"setup", e>> /\ protocols[e] = None /\ Shape' /\ isLeader
        \/ Now' = Now /\ Shape'
    <3>1. CASE agenda' = CloseCalls(protocols[e]) /\ protocols[e] # None /\ bound
      <4> PICK t \in Transports : t = protocols[e]
        BY <3>1, Zenon DEF TypeInv, RestType
      <4>1. CloseCalls(t)' = CloseCalls(t)
        BY <1>1, Zenon DEF CloseCalls, IsClient
      <4> QED
        BY <2>1, <3>1, <4>1, Shapes, Zenon DEF Now, Shape
    <3>2. CASE agenda' = SetupCall(e) /\ protocols[e] = None /\ bound
      BY <2>1, <3>2, Shapes, Zenon DEF Now, Shape, SetupCall
    <3>3. CASE agenda' = agenda
      BY <1>1, <3>3, OtherMoves, Zenon
    <3> QED
      BY <1>6, <3>1, <3>2, <3>3, Zenon DEF onTcpTransportIsEnabledChanged
  <2>4. LifeInv' /\ HeldInv' /\ \A x : Leaving(x)' = Leaving(x)
    BY <1>1, <1>2, <2>2, HandlerKeeps
  <2>5. CallInv'
    <3>1. protocols[e] # None => ent[protocols[e]] = e
      BY Zenon DEF HeldInv
    <3> QED
      BY <1>1, <1>2, <2>1, <2>2, <3>1 DEF CallInv, Closing
  <2>6. PhaseInv'
    BY <1>1, <1>2, <2>1, <2>2, Zenon DEF PhaseInv, NoneHeld
  <2>7. StatusInv'
    <3>1. \A x : AboutToClear(x) => AboutToClear(x)'
      BY <1>1, <1>2, <2>1, Zenon DEF AboutToClear
    <3>2. \A x \in Clients : protocols[x] # None => protocols[x] \in Transports
      BY EntitiesAssumption, Zenon DEF TypeInv, RestType
    <3> QED
      BY <1>1, <1>3, <2>1, <2>4, <3>1, <3>2, Zenon DEF StatusInv
  <2> QED
    BY <2>2, <2>4, <2>5, <2>6, <2>7, Zenon DEF StepInv
<1> QED
  BY <1>5, <1>6, Zenon

\* The connect and disconnect tasks preserve the invariant.
LEMMA TaskStep ==
    ASSUME BrokerInv, TypeInv', RunConnect \/ RunDisconnect
    PROVE  Shape' /\ StepInv
<1> USE DEF BrokerInv
<1>1. Now = <<"rest", None>> /\ agenda = <<>> /\ phase = "end"
  BY OtherMoves, Zenon DEF RunConnect, RunDisconnect, Idle
<1>2. tasks # <<>> /\ tasks' = Tail(tasks)
      /\ UNCHANGED <<isLeader, bound, made, ent, open, flag, phase, toSetup>>
  BY Zenon DEF RunConnect, RunDisconnect, handlerVars, transVars
<1>3. /\ Head(tasks) \in TaskSet /\ Queued(Head(tasks)) /\ OnceQueued'
      /\ \A y : Queued(y)' => Queued(y)
      /\ \A y : Queued(y) => Queued(y)' \/ y = Head(tasks)
      /\ \A y : Queued(y)' /\ y[1] = "connect" => y # Head(tasks)
  BY <1>2, QueueTail, Zenon DEF LifeInv
<1>4. \A t \in Transports : ~Closing(t)
  BY <1>1, Zenon DEF Closing
<1>5. ~isLeader => NoneHeld
  BY <1>1, Zenon DEF PhaseInv
<1> PICK t \in Transports : Head(tasks)[2] = t
  BY <1>3, Zenon DEF TaskSet
<1>6. CASE RunConnect
  <2>1. agenda' = agenda /\ Head(tasks) = <<"connect", t>>
    BY <1>3, <1>6 DEF RunConnect, handlerVars, TaskSet
  <2>2. Now' = <<"rest", None>> /\ Shape'
    BY <1>1, <1>2, <2>1, OtherMoves, Zenon
  <2>3. Unused(t) /\ ent[t] \in Entities /\ t # None
    <3>1. t # None
      BY DEF Transports, None
    <3> QED
      BY <1>3, <2>1, <3>1, Zenon DEF LifeInv, TypeInv, RestType
  <2>4. CASE ~isLeader
    <3>1. UNCHANGED <<connected, protocols, loop>>
      BY <1>6, <2>4, Zenon DEF RunConnect, OnConnect
    <3>2. LifeInv'
      <4>1. \A u : Unused(u)' = Unused(u)
        BY <1>2, <3>1, Zenon DEF Unused, IsClient
      <4> QED
        BY <1>2, <1>3, <2>2, <3>1, <4>1, Zenon DEF LifeInv
    <3>3. CallInv'
      BY <1>2, <2>2, <3>1, Zenon DEF CallInv, Closing
    <3>4. HeldInv' /\ PhaseInv'
      BY <1>1, <1>2, <1>5, <2>2, <2>4, <3>1, Zenon DEF HeldInv, PhaseInv, NoneHeld
    <3>5. StatusInv'
      BY <1>2, <1>5, <2>4, <3>1, EntitiesAssumption, Zenon DEF StatusInv, NoneHeld
    <3> QED
      BY <2>2, <3>2, <3>3, <3>4, <3>5, Zenon DEF StepInv
  <2>5. CASE isLeader
    <3>1. /\ connected' = [connected EXCEPT ![ent[t]] = TRUE]
          /\ protocols' = [protocols EXCEPT ![ent[t]] = t]
          /\ loop' = IF IsClient(t) THEN [loop EXCEPT ![t] = "running"] ELSE loop
      BY <1>6, <2>5, Zenon DEF RunConnect, OnConnect
    <3>2. \A u \in Transports : u # t => loop'[u] = loop[u]
      BY <3>1 DEF TypeInv, RestType
    <3>3. LifeInv'
      <4>1. ASSUME NEW u \in Transports, u # t, Unused(u) PROVE Unused(u)'
        BY <1>2, <2>3, <3>1, <3>2, <4>1, Zenon DEF Unused, IsClient, TypeInv, RestType
      <4>2. ~Queued(<<"connect", t>>)'
        BY <1>3, <2>1, Zenon
      <4>3. \A u \in Transports : u > made => u # t
        BY <2>3 DEF Unused, TypeInv, RestType, Transports
      <4> QED
        BY <1>2, <1>3, <2>2, <3>2, <4>1, <4>2, <4>3, Zenon DEF LifeInv
    <3>4. CallInv'
      BY <2>2, Zenon DEF CallInv, Closing
    <3>5. HeldInv'
      <4> SUFFICES ASSUME NEW e \in Entities, protocols'[e] # None
                   PROVE  /\ ent[protocols'[e]] = e /\ protocols'[e] <= made
                          /\ open[protocols'[e]]
        BY <1>2, Zenon DEF HeldInv
      <4>1. CASE e = ent[t]
        BY <2>3, <3>1, <4>1, Zenon DEF Unused, TypeInv, RestType
      <4>2. CASE e # ent[t]
        <5>1. protocols'[e] = protocols[e] /\ protocols[e] \in Transports
          BY <3>1, <4>2, Zenon DEF TypeInv, RestType
        <5> QED
          BY <1>4, <5>1, Zenon DEF HeldInv
      <4> QED
        BY <4>1, <4>2, Zenon
    <3>6. PhaseInv'
      BY <1>1, <1>2, <2>5, Zenon DEF PhaseInv
    <3>7. StatusInv'
      <4> SUFFICES ASSUME NEW e \in Clients
                   PROVE  /\ protocols'[e] # None => connected'[e]
                          /\ connected'[e] => protocols'[e] # None \/ Leaving(e)'
                          /\ protocols'[e] # None /\ flag[protocols'[e]] =>
                               Leaving(e)' \/ ~connected'[e]
        BY <1>2, Zenon DEF StatusInv
      <4>1. e \in Entities
        BY EntitiesAssumption, Zenon
      <4>2. CASE e = ent[t]
        BY <2>3, <3>1, <4>1, <4>2, Zenon DEF Unused, IsClient, TypeInv, RestType
      <4>3. CASE e # ent[t]
        <5>1. /\ protocols'[e] = protocols[e] /\ connected'[e] = connected[e]
              /\ protocols[e] # None => protocols[e] \in Transports
          BY <3>1, <4>1, <4>3, Zenon DEF TypeInv, RestType
        <5>2. Leaving(e) => Leaving(e)'
          <6>1. ASSUME NEW u \in Transports, Queued(<<"disconnect", u>>)
                PROVE  Queued(<<"disconnect", u>>)'
            BY <1>3, <2>1, <6>1
          <6> QED
            BY <1>2, <3>2, <4>3, <6>1, Zenon DEF Leaving
        <5>3. ~AboutToClear(e)
          BY <1>1, Zenon DEF AboutToClear, PhaseInv
        <5> QED
          BY <1>4, <2>5, <5>1, <5>2, <5>3, Zenon DEF StatusInv
      <4> QED
        BY <4>2, <4>3, Zenon
    <3> QED
      BY <2>2, <3>3, <3>4, <3>5, <3>6, <3>7, Zenon DEF StepInv
  <2> QED
    BY <2>4, <2>5, Zenon
<1>7. CASE RunDisconnect
  <2>1. UNCHANGED <<protocols, loop>> /\ Head(tasks) = <<"disconnect", t>>
    BY <1>3, <1>7 DEF RunDisconnect, transVars, TaskSet
  <2>2. ent[t] \in Entities
    BY Zenon DEF TypeInv, RestType
  <2>3. \/ /\ Now' = <<"close", protocols[ent[t]]>> /\ protocols[ent[t]] # None
           /\ Shape' /\ isLeader
        \/ Now' = <<"rest", None>> /\ Shape'
    <3>1. CASE agenda' = CloseCalls(protocols[ent[t]]) /\ protocols[ent[t]] # None /\ isLeader
      <4> PICK u \in Transports : u = protocols[ent[t]]
        BY <2>2, <3>1, Zenon DEF TypeInv, RestType
      <4>1. CloseCalls(u)' = CloseCalls(u)
        BY <1>2, Zenon DEF CloseCalls, IsClient
      <4> QED
        BY <3>1, <4>1, Shapes, Zenon DEF Now, Shape
    <3>2. CASE agenda' = <<>>
      BY <3>2, Zenon DEF Now, Shape
    <3> QED
      BY <1>1, <1>7, <3>1, <3>2, Zenon DEF RunDisconnect, OnDisconnect
  <2>4. LifeInv'
    <3>1. \A u : Unused(u)' = Unused(u)
      BY <1>2, <2>1, Zenon DEF Unused, IsClient
    <3>2. Now'[1] # "announce"
      BY <2>3
    <3> QED
      BY <1>2, <1>3, <2>1, <3>1, <3>2 DEF LifeInv
  <2>5. CallInv'
    <3>1. protocols[ent[t]] # None => ent[protocols[ent[t]]] = ent[t]
      BY <2>2, Zenon DEF HeldInv
    <3>2. \A u \in Transports : Closing(u)' => u = protocols[ent[t]] /\ protocols[ent[t]] # None
      BY <2>3 DEF Closing
    <3>3. Now'[1] \in {"close", "rest"}
      BY <2>3
    <3>4. \A u \in Transports : Closing(u)' => protocols'[ent'[u]] = u
      BY <1>2, <2>1, <3>1, <3>2, Zenon
    <3>5. \A u : Now' \notin {<<"wait", u>>, <<"delete", u>>, <<"setup", u>>}
      BY <3>3
    <3> QED
      BY <3>3, <3>4, <3>5, Zenon DEF CallInv
  <2>6. HeldInv'
    <3> SUFFICES ASSUME NEW e \in Entities, protocols[e] # None
                 PROVE  ent[protocols[e]] = e /\ protocols[e] <= made /\ open[protocols[e]]
      BY <1>2, <2>1, Zenon DEF HeldInv
    <3>1. protocols[e] \in Transports
      BY Zenon DEF TypeInv, RestType
    <3> QED
      BY <1>4, <3>1, Zenon DEF HeldInv
  <2>7. PhaseInv'
    BY <1>1, <1>2, <2>1, <2>3, Zenon DEF PhaseInv, NoneHeld
  <2>8. StatusInv'
    <3>1. CASE ~isLeader
      BY <1>2, <1>5, <2>1, <3>1, EntitiesAssumption, Zenon DEF StatusInv, NoneHeld
    <3>2. CASE isLeader
      <4>1. connected' = [connected EXCEPT ![ent[t]] = FALSE]
        BY <1>7, <3>2, Zenon DEF RunDisconnect, OnDisconnect
      <4>2. /\ Now' = <<"close", protocols[ent[t]]>> \/ protocols[ent[t]] = None
        <5>1. protocols[ent[t]] = None \/ agenda' = CloseCalls(protocols[ent[t]])
          BY <1>7, <3>2, Zenon DEF RunDisconnect, OnDisconnect
        <5> QED
          BY <5>1, Shapes, Zenon DEF Now
      <4> SUFFICES ASSUME NEW e \in Clients
                   PROVE  /\ protocols[e] # None => connected'[e] \/ Closing(protocols[e])'
                          /\ connected'[e] => protocols[e] # None \/ Leaving(e)'
                          /\ protocols[e] # None /\ flag[protocols[e]] =>
                               Leaving(e)' \/ ~connected'[e]
        BY <1>2, <2>1, Zenon DEF StatusInv
      <4>3. e \in Entities
        BY EntitiesAssumption, Zenon
      <4>4. CASE e = ent[t]
        BY <2>1, <4>1, <4>2, <4>3, <4>4, Zenon DEF Closing, TypeInv, RestType
      <4>5. CASE e # ent[t]
        <5>1. /\ connected'[e] = connected[e]
              /\ protocols[e] # None => protocols[e] \in Transports
          BY <4>1, <4>3, <4>5, Zenon DEF TypeInv, RestType
        <5>2. Leaving(e) => Leaving(e)'
          <6>1. ASSUME NEW u \in Transports, Queued(<<"disconnect", u>>), u # t
                PROVE  Queued(<<"disconnect", u>>)'
            BY <1>3, <2>1, <6>1
          <6> QED
            BY <1>2, <2>1, <4>5, <6>1, Zenon DEF Leaving
        <5>3. ~AboutToClear(e)
          BY <1>1, Zenon DEF AboutToClear, PhaseInv
        <5> QED
          BY <1>4, <3>2, <5>1, <5>2, <5>3, Zenon DEF StatusInv
      <4> QED
        BY <4>4, <4>5, Zenon
    <3> QED
      BY <3>1, <3>2, Zenon
  <2> QED
    BY <2>3, <2>4, <2>5, <2>6, <2>7, <2>8, Zenon DEF StepInv
<1> QED
  BY <1>6, <1>7, Zenon

\* The loops that read or accept preserve the invariant.
LEMMA LoopStep ==
    ASSUME BrokerInv, TypeInv', NEW t \in Transports, LoopFails(t) \/ LoopReports(t)
    PROVE  Shape' /\ StepInv
<1> USE DEF BrokerInv
<1>1. UNCHANGED <<isLeader, bound, connected, protocols, agenda, phase, toSetup, made,
                  ent, open>>
  BY Zenon DEF LoopFails, LoopReports, mainVars, handlerVars
<1>2. Now' = Now /\ Shape'
  BY <1>1, OtherMoves, Zenon
<1>3. t <= made /\ loop[t] \in {"running", "reporting"}
  <2>1. loop[t] # "none"
    BY Zenon DEF LoopFails, LoopReports
  <2>2. ~(t > made)
    BY <2>1, Zenon DEF LifeInv
  <2> QED
    BY <2>2 DEF Transports, TypeInv, RestType, LoopFails, LoopReports
<1>4. \A u \in Transports : u # t => loop'[u] = loop[u] /\ flag'[u] = flag[u]
  BY DEF LoopFails, LoopReports, TypeInv, RestType
<1>5. \A u \in Transports : flag[u] => flag'[u]
  BY Zenon DEF LoopFails, LoopReports, TypeInv, RestType
<1>6. /\ OnceQueued'
      /\ \A x : Queued(x) => Queued(x)'
      /\ \A x : Queued(x)' => Queued(x) \/ x = <<"disconnect", t>>
      /\ \A e : e = ent[t] =>
                 Leaving(e)' \/ (flag'[t] = flag[t] /\ loop[t] # "reporting")
  <2>1. CASE LoopFails(t)
    <3>1. \A x : Queued(x)' = Queued(x)
      BY <2>1, Zenon DEF LoopFails, Queued
    <3>2. OnceQueued'
      BY <2>1, Zenon DEF LoopFails, LifeInv, OnceQueued
    <3>3. loop'[t] = "reporting" \/ (flag'[t] = flag[t] /\ loop[t] # "reporting")
      BY <2>1, Zenon DEF LoopFails, TypeInv, RestType
    <3> QED
      BY <1>1, <3>1, <3>2, <3>3, Zenon DEF Leaving
  <2>2. CASE LoopReports(t)
    <3>1. tasks' = Append(tasks, <<"disconnect", t>>) /\ <<"disconnect", t>> \in TaskSet
      BY <2>2, Zenon DEF LoopReports, Report, TaskSet
    <3>2. OnceQueued' /\ \A x : Queued(x)' <=> Queued(x) \/ x = <<"disconnect", t>>
      BY <3>1, QueueAppend, Zenon DEF LifeInv
    <3> QED
      BY <1>1, <3>2, Zenon DEF Leaving
  <2> QED
    BY <2>1, <2>2, Zenon
<1>7. LifeInv'
  <2>1. ASSUME NEW u \in Transports, Unused(u) PROVE Unused(u)'
    <3>1. CASE u = t
      BY <1>1, <1>3, <2>1, <3>1, Zenon DEF Unused, IsClient
    <3>2. CASE u # t
      BY <1>1, <1>4, <2>1, <3>2, Zenon DEF Unused, IsClient
    <3> QED
      BY <3>1, <3>2, Zenon
  <2>2. \A u \in Transports : u > made => u # t
    BY <1>3 DEF Transports, TypeInv, RestType
  <2> QED
    BY <1>1, <1>2, <1>3, <1>4, <1>6, <2>1, <2>2, Zenon DEF LifeInv
<1>8. CallInv'
  BY <1>1, <1>2, <1>5, Zenon DEF CallInv, Closing
<1>9. HeldInv' /\ PhaseInv'
  BY <1>1, <1>2, Zenon DEF HeldInv, PhaseInv, NoneHeld, Closing
<1>10. StatusInv'
  <2>1. ASSUME NEW e, Leaving(e) PROVE Leaving(e)'
    <3>1. PICK u \in Transports : /\ ent[u] = e
                                  /\ Queued(<<"disconnect", u>>) \/ loop[u] = "reporting"
      BY <2>1, Zenon DEF Leaving
    <3>2. CASE u = t /\ loop[u] = "reporting"
      BY <1>6, <3>1, <3>2, Zenon
    <3>3. CASE Queued(<<"disconnect", u>>) \/ u # t
      BY <1>1, <1>4, <1>6, <3>1, <3>3, Zenon DEF Leaving
    <3> QED
      BY <3>1, <3>2, <3>3, Zenon
  <2>2. ASSUME NEW e \in Clients, protocols[e] # None, flag'[protocols[e]]
        PROVE  flag[protocols[e]] \/ Leaving(e)'
    <3>1. e \in Entities /\ protocols[e] \in Transports /\ ent[protocols[e]] = e
      BY <2>2, EntitiesAssumption, Zenon DEF HeldInv, TypeInv, RestType
    <3>2. CASE protocols[e] = t
      BY <1>6, <2>2, <3>1, <3>2, Zenon
    <3>3. CASE protocols[e] # t
      BY <1>4, <2>2, <3>1, <3>3, Zenon
    <3> QED
      BY <3>2, <3>3, Zenon
  <2> QED
    BY <1>1, <1>2, <2>1, <2>2, Zenon DEF StatusInv, Closing, AboutToClear
<1> QED
  BY <1>2, <1>7, <1>8, <1>9, <1>10, Zenon DEF StepInv

\* Steps that touch nothing the invariant speaks of.
LEMMA QuietStep ==
    ASSUME BrokerInv,
           UNCHANGED <<isLeader, bound, connected, protocols, tasks, agenda, phase, toSetup,
                       made, ent, open, flag, loop>>
    PROVE  Shape' /\ StepInv
<1> USE DEF BrokerInv
<1>1. Now' = Now /\ Shape'
  BY OtherMoves, Zenon
<1>2. \A x : Queued(x)' = Queued(x)
  BY Zenon DEF Queued
<1>3. LifeInv'
  <2>1. \A u : Unused(u)' = Unused(u)
    BY Zenon DEF Unused, IsClient
  <2>2. OnceQueued' = OnceQueued
    BY Zenon DEF OnceQueued
  <2> QED
    BY <1>1, <1>2, <2>1, <2>2, Zenon DEF LifeInv
<1>4. CallInv' /\ HeldInv' /\ PhaseInv'
  BY <1>1, Zenon DEF CallInv, HeldInv, PhaseInv, NoneHeld, Closing
<1>5. \A e : Leaving(e)' = Leaving(e)
  BY <1>2, Zenon DEF Leaving
<1>6. StatusInv'
  BY <1>1, <1>5, Zenon DEF StatusInv, Closing, AboutToClear
<1> QED
  BY <1>1, <1>3, <1>4, <1>6, Zenon DEF StepInv

\* Every step preserves the invariant.
LEMMA BrokerStep == BrokerInv /\ [Next]_vars => BrokerInv'
<1> SUFFICES ASSUME BrokerInv, [Next]_vars PROVE Shape' /\ StepInv
  BY TypeStep, Zenon DEF BrokerInv, StepInv
<1>0. TypeInv'
  BY TypeStep, Zenon
<1>1. CASE Agenda
  BY <1>0, <1>1, CloseStep, SetupStep, Zenon DEF Agenda
<1>2. CASE Handler
  BY <1>0, <1>2, HandlerStep, Zenon
<1>3. CASE RunConnect \/ RunDisconnect
  BY <1>0, <1>3, TaskStep, Zenon
<1>4. CASE \/ OnBecameLeader \/ OnLosingLeadership \/ OnSchemaUpdated \/ Deinit
           \/ onTcpTransportIsEnabledChanged
  BY <1>0, <1>4, EventStep, Zenon
<1>5. ASSUME NEW t \in Transports, LoopFails(t) \/ LoopReports(t) PROVE Shape' /\ StepInv
  BY <1>0, <1>5, LoopStep, Zenon
<1>6. ASSUME NEW e \in Entities, NEW b \in BOOLEAN, SetEnabled(e, b) PROVE Shape' /\ StepInv
  BY <1>6, QuietStep, Zenon DEF SetEnabled, mainVars, transVars, handlerVars
<1>7. ASSUME NEW t \in Transports, Drop(t) PROVE Shape' /\ StepInv
  BY <1>7, QuietStep, Zenon DEF Drop, mainVars, handlerVars
<1>8. CASE UNCHANGED vars
  BY <1>8, QuietStep, Zenon DEF vars, mainVars, transVars, handlerVars
<1> QED
  BY <1>1, <1>2, <1>3, <1>4, <1>5, <1>6, <1>7, <1>8, Zenon DEF Next, MainThread, Environment

-----------------------------------------------------------------------------
(***************************************************************************)
(* The properties.                                                         *)
(***************************************************************************)
\* BrokerInv is an invariant of the broker.
THEOREM BrokerInvariant == Spec => []BrokerInv
BY BrokerInit, BrokerStep, PTL DEF Spec

\* Between handlers, a broker that does not lead holds no protocol, whatever connect
\* tasks and elections come in which order.
THEOREM NonLeaderIsEmpty == Spec => []NonLeaderHoldsNoProtocol
<1>1. BrokerInv => NonLeaderHoldsNoProtocol
  BY HeldNone, Zenon DEF BrokerInv, PhaseInv, NonLeaderHoldsNoProtocol, Idle
<1> QED
  BY <1>1, BrokerInvariant, PTL

\* Between handlers, no protocol of protocolsByEntity has been closed by the broker.
THEOREM HeldStaysOpen == Spec => []HeldIsOpen
<1>1. BrokerInv => HeldIsOpen
  <2> SUFFICES ASSUME BrokerInv, Idle, NEW e \in Entities, protocols[e] # None
               PROVE  open[protocols[e]]
    BY Zenon DEF HeldIsOpen, Held
  <2>1. ~Closing(protocols[e])
    BY Zenon DEF Closing, Now, Idle
  <2> QED
    BY <2>1, Zenon DEF BrokerInv, HeldInv
<1> QED
  BY <1>1, BrokerInvariant, PTL

\* Between handlers of a leader, IsConnected of a client entity agrees with
\* protocolsByEntity or a disconnect task is on its way.
THEOREM StatusIsTruthful == Spec => []StatusTruthful
<1>1. BrokerInv => StatusTruthful
  <2> SUFFICES ASSUME BrokerInv, Idle, isLeader, NEW e \in Clients
               PROVE  /\ protocols[e] # None => connected[e]
                      /\ connected[e] => protocols[e] # None \/ Leaving(e)
    BY LeavingIsPending, Zenon DEF StatusTruthful, BrokerInv
  <2>1. ~Closing(protocols[e]) /\ Now = <<"rest", None>> /\ phase = "end"
    BY Zenon DEF Closing, Now, Idle
  <2>2. ~AboutToClear(e)
    BY <2>1, Zenon DEF AboutToClear, BrokerInv, PhaseInv
  <2> QED
    BY <2>1, <2>2, Zenon DEF BrokerInv, StatusInv
<1> QED
  BY <1>1, BrokerInvariant, PTL
=============================================================================
