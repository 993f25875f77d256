-------------------------- MODULE FTDIBrokerProofs --------------------------
(***************************************************************************)
(* Proofs about FTDIBroker, for any number of transports, receive loops,   *)
(* faults, tasks and events.                                               *)
(*                                                                         *)
(* The inductive invariant FTDIInv says, for every place a thread may have *)
(* reached in closeResources or connect, what the pointers of its          *)
(* transport then are (Fits), as long as no two threads have been there at *)
(* the same time.  Each step of a thread changes one thread and the        *)
(* pointers of its transport, or takes the claim away from everybody; that *)
(* such a change preserves the invariant is proved once (MoveLemma,        *)
(* ReleaseLemma), and each action only has to be one.                      *)
(***************************************************************************)
EXTENDS FTDIBroker, TLAPS

Pointers == [intf : Conns, device : Conns, io : Conns]

Ops == {"none", "new", "read", "write", "close"}

Places == Replacing \cup {"idle", "done", "wait", "set", "report", "clear", "announce",
                          "connected", "announceConnected", "cancel", "swap"}

ThreadStates ==
    [op : Ops, t : Transports, pc : Places, c : Conns, k : 0 .. 2, again : BOOLEAN]

TaskKinds == {"connect", "disconnect"}

TypeInv ==
    /\ thread \in [Threads -> ThreadStates]
    /\ ptr \in [Transports -> Pointers]
    /\ made \in Nat /\ made <= MaxTransports
    /\ loops \in Nat /\ loops <= MaxLoops
    /\ held \in Nat /\ held <= made
    /\ tasks \in Seq(TaskKinds \X Transports)
    /\ \A i \in 1 .. Len(tasks) : tasks[i][2] <= made
    /\ overlap \in BOOLEAN /\ crashed \in BOOLEAN

Calls == {"close", "delete", "setup"}

\* "close" is only ever the first thing on an agenda, and there is then a protocol.
AgendaInv ==
    /\ agenda \in Seq(Calls)
    /\ \A i \in 2 .. Len(agenda) : agenda[i] # "close"
    /\ agenda # <<>> /\ Head(agenda) = "close" => held # None

\* Threads work with transports that have been made; one not yet made has no pointers.
Known ==
    /\ \A p \in Threads : thread[p].pc # "idle" \/ p \in 1 .. loops => T(p) <= made
    /\ \A p \in Loops : p > loops => thread[p].pc = "idle"
    /\ \A t \in Transports : t > made => ptr[t].intf = "nil" /\ ptr[t].device = "nil"

\* What PointersAgree says of the pointers r of a transport.
Agree(r) == r.intf = r.device /\ r.intf \in {"nil", r.io}

\* A thread in state s, at a place in closeResources or connect, fits the pointers r
\* of its transport.
Fits(s, r) ==
    /\ s.pc \in {"test", "close", "nil"} =>
         s.c = "nil" /\ s.k \in {1, 2} /\ (s.k = 2 => r.intf = "nil")
    /\ s.pc = "close" => IF s.k = 1 THEN r.intf # "nil" ELSE r.device # "nil"
    /\ s.pc = "nil" /\ s.k = 1 => r.intf # "live"
    /\ s.pc = "open" => s.c = "nil"
    /\ s.pc \in {"open", "configure"} => r.intf = "nil" /\ r.device = "nil"
    /\ s.pc = "publish" => /\ r.intf = IF s.k = 0 THEN s.c ELSE "nil"
                           /\ r.device = IF s.k = 2 THEN "nil" ELSE s.c

\* One thread at a time replaces the connection of a transport, and fits it; the
\* pointers of a transport that nobody replaces agree.
Sound(th, pt) ==
    /\ \A p, q \in Threads :
         p # q /\ th[p].pc \in Replacing /\ th[q].pc \in Replacing => th[p].t # th[q].t
    /\ \A p \in Threads : th[p].pc \in Replacing => Fits(th[p], pt[th[p].t])
    /\ \A t \in Transports :
         (\A p \in Threads : th[p].t = t => th[p].pc \notin Replacing) => Agree(pt[t])

FTDIInv ==
    /\ TypeInv /\ AgendaInv /\ Known
    /\ crashed => overlap
    /\ ~overlap => Sound(thread, ptr)

-----------------------------------------------------------------------------
(***************************************************************************)
(* The two kinds of steps of a thread.                                     *)
(***************************************************************************)
\* Thread p comes to state s and its transport has the pointers r, where a thread
\* that is not replacing the connection leaves the pointers alone, and one that
\* begins to replace it is alone.
SoundMove(p, s, r) ==
    IF thread[p].pc \in Replacing
    THEN IF s.pc \in Replacing THEN Fits(s, r) ELSE Agree(r)
    ELSE /\ r = ptr[T(p)]
         /\ s.pc \in Replacing => /\ Fits(s, r)
                                  /\ \A q \in Threads \ {p} :
                                       T(q) = T(p) => thread[q].pc \notin Replacing

\* Such a step does not lose the claim.
KeepsClaim(p, s, r) ==
    /\ claimed' => claimed \/ (s.pc \in Replacing /\ s.c = "live")
    /\ ptr[T(p)].intf = "live" => r.intf = "live"
    /\ thread[p].pc \in Replacing /\ thread[p].c = "live" =>
         (s.pc \in Replacing /\ s.c = "live") \/ r.intf = "live"

Moves(p, s, r) ==
    /\ s \in ThreadStates /\ r \in Pointers /\ s.t = T(p)
    /\ thread' = [thread EXCEPT ![p] = s]
    /\ ptr' = [ptr EXCEPT ![T(p)] = r]
    /\ ~overlap' => SoundMove(p, s, r)
    /\ ~overlap /\ ~ConfigureFails(p) => KeepsClaim(p, s, r)

Queues(p) == tasks' = tasks \/ \E w \in TaskKinds : tasks' = Append(tasks, <<w, T(p)>>)

Records(p) ==
    /\ thread[p].pc # "idle" /\ Queues(p)
    /\ overlap' \in BOOLEAN /\ (overlap => overlap')
    /\ crashed' \in BOOLEAN /\ (crashed' => overlap')

\* The claim is lost by everybody; thread p, if any, goes on in closeResources.
Releases(p) ==
    /\ tasks' = tasks /\ overlap' = overlap /\ crashed' \in BOOLEAN /\ (crashed' => overlap)
    /\ \/ Release(thread)
       \/ /\ thread[p].pc = "close" /\ (~overlap => thread[p].k = 1)
          /\ Release([thread EXCEPT ![p].pc = "nil"])

-----------------------------------------------------------------------------
\* A change of one thread and of the pointers of its transport keeps them sound.
LEMMA SoundLemma ==
    ASSUME NEW p \in Threads, NEW s \in ThreadStates, NEW r \in Pointers,
           thread \in [Threads -> ThreadStates], ptr \in [Transports -> Pointers],
           s.t = T(p), Sound(thread, ptr), SoundMove(p, s, r)
    PROVE  Sound([thread EXCEPT ![p] = s], [ptr EXCEPT ![T(p)] = r])
<1> DEFINE th == [thread EXCEPT ![p] = s]
           pt == [ptr EXCEPT ![T(p)] = r]
<1>1. /\ T(p) \in Transports
      /\ \A q \in Threads : th[q] = IF q = p THEN s ELSE thread[q]
      /\ \A q \in Threads : th[q].t = T(q)
      /\ \A t \in Transports : pt[t] = IF t = T(p) THEN r ELSE ptr[t]
  BY Zenon DEF T, ThreadStates
<1>2. \A q \in Threads \ {p} : th[q].pc \in Replacing <=> thread[q].pc \in Replacing
  BY <1>1, Zenon
<1>3. ASSUME NEW q \in Threads, NEW q2 \in Threads, q # q2, th[q].pc \in Replacing,
             th[q2].pc \in Replacing
      PROVE  th[q].t # th[q2].t
  <2>1. T(q) # T(q2)
    <3>1. CASE thread[p].pc \in Replacing
      BY <1>1, <1>2, <1>3, <3>1, Zenon DEF Sound, T
    <3>2. CASE thread[p].pc \notin Replacing /\ (q = p \/ q2 = p)
      BY <1>1, <1>2, <1>3, <3>2 DEF SoundMove
    <3>3. CASE q # p /\ q2 # p
      BY <1>1, <1>2, <1>3, <3>3, Zenon DEF Sound, T
    <3> QED BY <3>1, <3>2, <3>3, Zenon
  <2> QED BY <2>1, <1>1, Zenon
<1>4. ASSUME NEW q \in Threads, th[q].pc \in Replacing
      PROVE  Fits(th[q], pt[th[q].t])
  <2>1. CASE q = p
    BY <1>1, <1>4, <2>1, Zenon DEF SoundMove
  <2>2. CASE q # p
    <3>1. Fits(thread[q], ptr[T(q)])
      BY <1>1, <1>2, <1>4, <2>2, Zenon DEF Sound, T
    <3>2. T(q) = T(p) => r = ptr[T(q)]
      BY <1>1, <1>2, <1>4, <2>2, Zenon DEF Sound, SoundMove, T
    <3>3. T(q) \in Transports
      BY Zenon DEF T, ThreadStates
    <3> QED BY <1>1, <2>2, <3>1, <3>2, <3>3, Zenon
  <2> QED BY <2>1, <2>2, Zenon
<1>5. ASSUME NEW t \in Transports,
             \A q \in Threads : th[q].t = t => th[q].pc \notin Replacing
      PROVE  Agree(pt[t])
  <2>1. CASE t = T(p) /\ thread[p].pc \in Replacing
    BY <1>1, <1>5, <2>1, Zenon DEF SoundMove
  <2>2. CASE t # T(p) \/ thread[p].pc \notin Replacing
    <3>1. \A q \in Threads : T(q) = t => thread[q].pc \notin Replacing
      BY <1>1, <1>2, <1>5, <2>2, Zenon
    <3>2. Agree(ptr[t])
      BY <3>1, Zenon DEF Sound, T
    <3>3. pt[t] = ptr[t]
      BY <1>1, <2>2, Zenon DEF SoundMove
    <3> QED BY <3>2, <3>3, Zenon
  <2> QED BY <2>1, <2>2, Zenon
<1> QED BY <1>3, <1>4, <1>5, Zenon DEF Sound

\* A step that changes one thread and the pointers of its transport.
LEMMA MoveLemma ==
    ASSUME FTDIInv, NEW p \in Threads, NEW s, NEW r, Moves(p, s, r), Records(p),
           UNCHANGED brokerVars
    PROVE  FTDIInv'
<1> USE FTDIBounds
<1>1. T(p) \in Transports /\ T(p) <= made
  BY Zenon DEF FTDIInv, TypeInv, Known, Records, ThreadStates, T
<1>2. /\ thread' \in [Threads -> ThreadStates]
      /\ ptr' \in [Transports -> Pointers]
  BY <1>1, Zenon DEF FTDIInv, TypeInv, Moves
<1>3. /\ tasks' \in Seq(TaskKinds \X Transports)
      /\ \A i \in 1 .. Len(tasks') : tasks'[i][2] <= made
  <2>1. CASE tasks' = tasks
    BY <2>1, Zenon DEF FTDIInv, TypeInv
  <2>2. CASE \E w \in TaskKinds : tasks' = Append(tasks, <<w, T(p)>>)
    <3>1. PICK w \in TaskKinds : tasks' = Append(tasks, <<w, T(p)>>)
      BY <2>2, Zenon
    <3> DEFINE e == <<w, T(p)>>
    <3>2. e \in TaskKinds \X Transports /\ e[2] <= made
      BY <1>1, Zenon
    <3>3. /\ tasks \in Seq(TaskKinds \X Transports)
          /\ \A i \in 1 .. Len(tasks) : tasks[i][2] <= made
      BY Zenon DEF FTDIInv, TypeInv
    <3> HIDE DEF e
    <3>4. tasks' = Append(tasks, e)
      BY <3>1, Zenon DEF e
    <3> QED BY <3>2, <3>3, <3>4
  <2> QED BY <2>1, <2>2, Zenon DEF Records, Queues
<1>4. TypeInv'
  BY <1>2, <1>3, Zenon DEF FTDIInv, TypeInv, Records, brokerVars
<1>5. AgendaInv'
  BY Zenon DEF FTDIInv, AgendaInv, brokerVars
<1>6. Known'
  <2>1. \A q \in Threads : T(q)' = T(q) /\ (q # p => thread'[q] = thread[q])
    BY Zenon DEF FTDIInv, TypeInv, Moves, T
  <2>2. \A t \in Transports : t # T(p) => ptr'[t] = ptr[t]
    BY <1>1, Zenon DEF FTDIInv, TypeInv, Moves
  <2>3. p \in Loops => p <= loops
    BY DEF FTDIInv, TypeInv, Known, Records, Loops
  <2>4. made' = made /\ loops' = loops
    BY Zenon DEF brokerVars
  <2>5. \A q \in Threads : thread'[q].pc # "idle" \/ q \in 1 .. loops => T(q)' <= made
    BY <1>1, <2>1, Zenon DEF FTDIInv, Known
  <2>6. \A q \in Loops : q > loops => thread'[q].pc = "idle"
    BY <2>1, <2>3 DEF FTDIInv, TypeInv, Known, Loops, Threads
  <2>7. ASSUME NEW t \in Transports, t > made
        PROVE  ptr'[t].intf = "nil" /\ ptr'[t].device = "nil"
    <3>1. t # T(p)
      BY <1>1, <2>7 DEF FTDIInv, TypeInv, Transports
    <3> QED
      BY <2>2, <2>7, <3>1, Zenon DEF FTDIInv, Known
  <2> QED BY <2>4, <2>5, <2>6, <2>7, Zenon DEF Known
<1>7. ~overlap' => Sound(thread, ptr)'
  <2> SUFFICES ASSUME ~overlap' PROVE Sound(thread', ptr')
    BY Zenon
  <2>1. Sound(thread, ptr) /\ SoundMove(p, s, r)
    BY Zenon DEF FTDIInv, Moves, Records
  <2>2. Sound([thread EXCEPT ![p] = s], [ptr EXCEPT ![T(p)] = r])
    BY <2>1, SoundLemma, Zenon DEF FTDIInv, TypeInv, Moves
  <2> QED BY <2>2, Zenon DEF Moves
<1> QED BY <1>4, <1>5, <1>6, <1>7, Zenon DEF FTDIInv, Records

-----------------------------------------------------------------------------
\* A connection that loses its claim loses it in every pointer at once.
LEMMA LostState ==
    ASSUME NEW s \in ThreadStates
    PROVE  /\ [s EXCEPT !.c = Lost(@)] \in ThreadStates
           /\ [s EXCEPT !.c = Lost(@)].t = s.t
           /\ [s EXCEPT !.c = Lost(@)].pc = s.pc
           /\ [s EXCEPT !.c = Lost(@)].k = s.k
           /\ [s EXCEPT !.c = Lost(@)].c = Lost(s.c)
BY Zenon DEF ThreadStates, Lost, Conns

\* The same for the pointers of a transport.
LEMMA LostPointers ==
    ASSUME NEW r \in Pointers
    PROVE  /\ [h \in DOMAIN r |-> Lost(r[h])] \in Pointers
           /\ [h \in DOMAIN r |-> Lost(r[h])].intf = Lost(r.intf)
           /\ [h \in DOMAIN r |-> Lost(r[h])].device = Lost(r.device)
           /\ [h \in DOMAIN r |-> Lost(r[h])].io = Lost(r.io)
BY Zenon DEF Pointers, Lost, Conns

\* Pointers that agree still do.
LEMMA LostAgree ==
    ASSUME NEW r \in Pointers, Agree(r)
    PROVE  Agree([h \in DOMAIN r |-> Lost(r[h])])
<1> DEFINE r2 == [h \in DOMAIN r |-> Lost(r[h])]
<1>1. r2.intf = Lost(r.intf) /\ r2.device = Lost(r.device) /\ r2.io = Lost(r.io)
  BY LostPointers, Zenon
<1> HIDE DEF r2
<1>2. Agree(r2)
  BY <1>1, Zenon DEF Agree, Lost
<1> QED BY <1>2, Zenon DEF r2

\* Everybody loses the claim, with the threads in states th.
LEMMA LostSound ==
    ASSUME NEW th \in [Threads -> ThreadStates], ptr \in [Transports -> Pointers],
           thread \in [Threads -> ThreadStates], Sound(thread, ptr), Release(th),
           \A q \in Threads : /\ th[q].t = T(q)
                              /\ th[q].pc \in Replacing <=> thread[q].pc \in Replacing,
           \A q \in Threads : thread[q].pc \in Replacing =>
              Fits([th[q] EXCEPT !.c = Lost(@)],
                   [h \in DOMAIN ptr[T(q)] |-> Lost(ptr[T(q)][h])])
    PROVE  Sound(thread', ptr')
<1>1. /\ \A q \in Threads : thread'[q] = [th[q] EXCEPT !.c = Lost(@)]
      /\ \A t \in Transports : ptr'[t] = [h \in DOMAIN ptr[t] |-> Lost(ptr[t][h])]
  BY Zenon DEF Release
<1>2. \A q \in Threads : /\ T(q) \in Transports /\ thread'[q].t = T(q)
                         /\ thread'[q].pc \in Replacing <=> thread[q].pc \in Replacing
  <2> TAKE q \in Threads
  <2>1. th[q] \in ThreadStates /\ thread[q] \in ThreadStates
    BY Zenon
  <2>2. thread'[q].t = th[q].t /\ thread'[q].pc = th[q].pc
    BY <1>1, <2>1, Zenon DEF ThreadStates
  <2> QED BY <2>1, <2>2, Zenon DEF ThreadStates, T
<1>3. \A q, q2 \in Threads :
         q # q2 /\ thread'[q].pc \in Replacing /\ thread'[q2].pc \in Replacing
         => thread'[q].t # thread'[q2].t
  BY <1>2 DEF Sound, T
<1>4. \A q \in Threads : thread'[q].pc \in Replacing => Fits(thread'[q], ptr'[thread'[q].t])
  BY <1>1, <1>2, Zenon
<1>5. ASSUME NEW t \in Transports,
             \A q \in Threads : thread'[q].t = t => thread'[q].pc \notin Replacing
      PROVE  Agree(ptr'[t])
  <2>1. Agree(ptr[t])
    BY <1>2, <1>5, Zenon DEF Sound, T
  <2>2. Agree([h \in DOMAIN ptr[t] |-> Lost(ptr[t][h])])
    <3>1. ptr[t] \in Pointers
      BY Zenon
    <3> QED BY <2>1, <3>1, LostAgree, Zenon
  <2> QED BY <1>1, <2>2, Zenon
<1> QED BY <1>3, <1>4, <1>5, Zenon DEF Sound

\* A step that takes the claim away.
LEMMA ReleaseLemma ==
    ASSUME FTDIInv, NEW p \in Threads, Releases(p), UNCHANGED brokerVars
    PROVE  FTDIInv'
<1> DEFINE th0 == [thread EXCEPT ![p].pc = "nil"]
<1>1. /\ thread \in [Threads -> ThreadStates] /\ ptr \in [Transports -> Pointers]
      /\ th0 \in [Threads -> ThreadStates]
  <2>1. thread \in [Threads -> ThreadStates] /\ ptr \in [Transports -> Pointers]
    BY Zenon DEF FTDIInv, TypeInv
  <2>2. [thread[p] EXCEPT !.pc = "nil"] \in ThreadStates
    BY <2>1 DEF ThreadStates, Places, Replacing
  <2> QED BY <2>1, <2>2, Zenon
<1>2. PICK th \in [Threads -> ThreadStates] :
        /\ Release(th)
        /\ th = thread \/ (th = th0 /\ thread[p].pc = "close" /\ (~overlap => thread[p].k = 1))
  BY <1>1, Zenon DEF Releases
<1>3. \A q \in Threads : /\ th[q].t = T(q) /\ th[q].k = thread[q].k /\ th[q].c = thread[q].c
                         /\ \/ th[q].pc = thread[q].pc
                            \/ /\ q = p /\ th[q].pc = "nil" /\ thread[q].pc = "close"
                               /\ ~overlap => thread[q].k = 1
  BY <1>1, <1>2 DEF T, ThreadStates
<1>4. /\ thread' \in [Threads -> ThreadStates] /\ ptr' \in [Transports -> Pointers]
      /\ \A q \in Threads : thread'[q].t = T(q) /\ thread'[q].pc = th[q].pc
      /\ \A t \in Transports : /\ ptr'[t].intf = Lost(ptr[t].intf)
                               /\ ptr'[t].device = Lost(ptr[t].device)
  <2>1. \A q \in Threads : [th[q] EXCEPT !.c = Lost(@)] \in ThreadStates
                           /\ [th[q] EXCEPT !.c = Lost(@)].t = th[q].t
                           /\ [th[q] EXCEPT !.c = Lost(@)].pc = th[q].pc
    BY DEF ThreadStates, Lost, Conns
  <2>2. \A t \in Transports :
          /\ [h \in DOMAIN ptr[t] |-> Lost(ptr[t][h])] \in Pointers
          /\ [h \in DOMAIN ptr[t] |-> Lost(ptr[t][h])].intf = Lost(ptr[t].intf)
          /\ [h \in DOMAIN ptr[t] |-> Lost(ptr[t][h])].device = Lost(ptr[t].device)
    <3> TAKE t \in Transports
    <3>1. ptr[t] \in Pointers
      BY <1>1, Zenon
    <3> QED BY <3>1, LostPointers, Zenon
  <2>3. /\ thread' = [q \in Threads |-> [th[q] EXCEPT !.c = Lost(@)]]
        /\ ptr' = [t \in Transports |-> [h \in DOMAIN ptr[t] |-> Lost(ptr[t][h])]]
    BY <1>2, Zenon DEF Release
  <2>4. /\ \A q \in Threads : thread'[q] = [th[q] EXCEPT !.c = Lost(@)]
        /\ \A t \in Transports : ptr'[t] = [h \in DOMAIN ptr[t] |-> Lost(ptr[t][h])]
    BY <2>3, Zenon
  <2>5. thread' \in [Threads -> ThreadStates] /\ ptr' \in [Transports -> Pointers]
    BY <2>1, <2>2, <2>3, Zenon
  <2> QED BY <1>3, <2>1, <2>2, <2>4, <2>5, Zenon
<1>5. TypeInv'
  BY <1>4, Zenon DEF FTDIInv, TypeInv, Releases, brokerVars
<1>6. AgendaInv'
  BY Zenon DEF FTDIInv, AgendaInv, brokerVars
<1>7. Known'
  <2>1. /\ made' = made /\ loops' = loops
        /\ \A q \in Threads : /\ thread'[q].t = T(q)
                              /\ thread'[q].pc = "idle" <=> thread[q].pc = "idle"
    BY <1>3, <1>4, Zenon DEF brokerVars
  <2>2. \A t \in Transports : t > made => ptr'[t].intf = "nil" /\ ptr'[t].device = "nil"
    BY <1>4, Zenon DEF FTDIInv, Known, Lost
  <2>3. \A q \in Loops : q \in Threads
    BY Zenon DEF Threads
  <2> QED BY <1>3, <1>4, <2>1, <2>2, <2>3, Zenon DEF FTDIInv, Known, T
<1>8. ASSUME ~overlap' PROVE Sound(thread', ptr')
  <2>1. ~overlap /\ Sound(thread, ptr)
    BY <1>8, Zenon DEF Releases, FTDIInv
  <2>2. \A q \in Threads : /\ th[q].t = T(q)
                           /\ th[q].pc \in Replacing <=> thread[q].pc \in Replacing
    BY <1>3, Zenon DEF Replacing
  <2>3. ASSUME NEW q \in Threads, thread[q].pc \in Replacing
        PROVE  Fits([th[q] EXCEPT !.c = Lost(@)],
                    [h \in DOMAIN ptr[T(q)] |-> Lost(ptr[T(q)][h])])
    <3> DEFINE r == ptr[T(q)]
               s2 == [th[q] EXCEPT !.c = Lost(@)]
               r2 == [h \in DOMAIN r |-> Lost(r[h])]
    <3>1. r \in Pointers /\ th[q] \in ThreadStates
      BY <1>1, Zenon DEF T, ThreadStates
    <3>2. Fits(thread[q], r)
      BY <2>1, <2>3, Zenon DEF Sound, T
    <3>3. /\ s2.pc = th[q].pc /\ s2.k = th[q].k /\ s2.c = Lost(th[q].c)
          /\ r2.intf = Lost(r.intf) /\ r2.device = Lost(r.device)
      BY <3>1, LostState, LostPointers, Zenon
    <3> HIDE DEF r, s2, r2
    <3>4. Fits(s2, r2)
      BY <1>3, <2>1, <3>2, <3>3 DEF Fits, Lost
    <3> QED BY <3>4, Zenon DEF r, s2, r2
  <2> QED BY <1>1, <1>2, <2>1, <2>2, <2>3, LostSound, Zenon
<1> QED BY <1>5, <1>6, <1>7, <1>8, Zenon DEF FTDIInv, Releases

-----------------------------------------------------------------------------
(***************************************************************************)
(* Every step of a thread is of one of the two kinds.                      *)
(***************************************************************************)
\* What is known of a thread and the pointers of its transport.
LEMMA ThreadFacts ==
    ASSUME FTDIInv, NEW p \in Threads
    PROVE  /\ thread[p] \in ThreadStates /\ T(p) = thread[p].t /\ T(p) \in Transports
           /\ ptr[T(p)] \in Pointers
           /\ [thread EXCEPT ![p] = thread[p]] = thread
           /\ [ptr EXCEPT ![T(p)] = ptr[T(p)]] = ptr
           /\ overlap \in BOOLEAN /\ crashed \in BOOLEAN /\ (crashed => overlap)
           /\ ~overlap /\ thread[p].pc \in Replacing => Fits(thread[p], ptr[T(p)])
BY Zenon DEF FTDIInv, TypeInv, Sound, T, ThreadStates

\* A thread outside closeResources and connect stays outside.
LEMMA StaysOut ==
    ASSUME FTDIInv, NEW p \in Threads, NEW s \in ThreadStates, s.t = T(p),
           thread[p].pc \notin Replacing, s.pc \notin Replacing, thread[p].pc # "idle",
           thread' = [thread EXCEPT ![p] = s], Queues(p),
           UNCHANGED <<ptr, claimed, crashed, overlap>>
    PROVE  Moves(p, s, ptr[T(p)]) /\ Records(p)
BY ThreadFacts, Zenon DEF Moves, Records, SoundMove, KeepsClaim

\* A thread enters closeResources.
LEMMA Enters ==
    ASSUME FTDIInv, NEW p \in Threads, BeginReplacing(p),
           thread[p].pc \notin Replacing, thread[p].pc # "idle",
           Queues(p), UNCHANGED <<ptr, claimed, crashed>>
    PROVE  /\ \E s \in ThreadStates, r \in Pointers : Moves(p, s, r)
           /\ Records(p)
<1> DEFINE s == Call(thread[p].op, thread[p].t, "test")
<1>1. /\ s \in ThreadStates /\ s.t = T(p) /\ s.pc = "test" /\ s.c = "nil" /\ s.k = 1
      /\ thread' = [thread EXCEPT ![p] = s]
  BY ThreadFacts DEF Call, ThreadStates, BeginReplacing, Conns, Places, Replacing
<1> HIDE DEF s
<1>2. /\ overlap' \in BOOLEAN /\ (overlap => overlap')
      /\ ~overlap' => \A q \in Threads \ {p} : T(q) = T(p) => thread[q].pc \notin Replacing
  BY ThreadFacts, Zenon DEF BeginReplacing
<1>3. Fits(s, ptr[T(p)])
  BY <1>1 DEF Fits
<1>4. SoundMove(p, s, ptr[T(p)]) \/ overlap'
  BY <1>2, <1>3, Zenon DEF SoundMove
<1>5. KeepsClaim(p, s, ptr[T(p)])
  BY Zenon DEF KeepsClaim
<1>6. Moves(p, s, ptr[T(p)])
  BY <1>1, <1>4, <1>5, ThreadFacts, Zenon DEF Moves
<1>7. Records(p)
  BY <1>2, ThreadFacts, Zenon DEF Records
<1> QED BY <1>1, <1>6, <1>7, ThreadFacts, Zenon

\* A thread inside goes on, with or without assigning a pointer.
LEMMA GoesOn ==
    ASSUME FTDIInv, NEW p \in Threads, NEW s \in ThreadStates, NEW r \in Pointers,
           s.t = T(p), thread[p].pc \in Replacing,
           thread' = [thread EXCEPT ![p] = s], ptr' = [ptr EXCEPT ![T(p)] = r],
           UNCHANGED <<tasks, overlap>>, crashed' \in BOOLEAN, crashed' => overlap,
           ~overlap => (IF s.pc \in Replacing THEN Fits(s, r) ELSE Agree(r)),
           ~overlap /\ ~ConfigureFails(p) => KeepsClaim(p, s, r)
    PROVE  Moves(p, s, r) /\ Records(p)
<1>1. thread[p].pc # "idle"
  BY Zenon DEF Replacing
<1> QED BY <1>1, ThreadFacts, Zenon DEF Moves, Records, SoundMove, Queues

\* The states that threads are given.
LEMMA CallState ==
    ASSUME NEW op \in Ops, NEW t \in Transports, NEW x \in Places
    PROVE  /\ Call(op, t, x) \in ThreadStates /\ Call(op, t, x).t = t
           /\ Call(op, t, x).pc = x /\ Call(op, t, x).c = "nil" /\ Call(op, t, x).k = 1
BY DEF Call, ThreadStates, Conns

\* A read or write that starts.
LEMMA StartIOState ==
    ASSUME NEW op \in Ops, NEW t \in Transports, NEW b \in BOOLEAN,
           ptr \in [Transports -> Pointers]
    PROVE  /\ StartIO(op, t, b) \in ThreadStates /\ StartIO(op, t, b).t = t
           /\ StartIO(op, t, b).pc = "wait"
<1>1. ptr[t].io \in Conns
  BY Zenon DEF Pointers
<1>2. Call(op, t, "wait") \in ThreadStates /\ Call(op, t, "wait").t = t
      /\ Call(op, t, "wait").pc = "wait"
  <2>1. "wait" \in Places
    BY Zenon DEF Places
  <2> QED BY <2>1, CallState
<1> QED BY <1>1, <1>2, Zenon DEF StartIO, ThreadStates

\* A thread that goes to another place keeps everything else.
LEMMA GotoState ==
    ASSUME FTDIInv, NEW p \in Threads, NEW x \in Places, Goto(p, x)
    PROVE  \E s \in ThreadStates :
             /\ thread' = [thread EXCEPT ![p] = s]
             /\ s = [thread[p] EXCEPT !.pc = x]
             /\ s.t = T(p) /\ s.pc = x /\ s.c = thread[p].c /\ s.k = thread[p].k
<1> DEFINE s == [thread[p] EXCEPT !.pc = x]
<1>1. s \in ThreadStates /\ s.t = T(p) /\ s.pc = x /\ s.c = thread[p].c /\ s.k = thread[p].k
  BY ThreadFacts, Zenon DEF ThreadStates
<1>2. thread' = [thread EXCEPT ![p] = s]
  BY Zenon DEF Goto
<1> QED BY <1>1, <1>2, Zenon

\* A thread whose call returns keeps only its transport.
LEMMA ReturnState ==
    ASSUME FTDIInv, NEW p \in Threads, Return(p)
    PROVE  \E s \in ThreadStates :
             thread' = [thread EXCEPT ![p] = s] /\ s.t = T(p) /\ s.pc = "idle"
<1>1. "none" \in Ops /\ "idle" \in Places
  BY Zenon DEF Ops, Places
<1> DEFINE s == Call("none", T(p), "idle")
<1>2. s \in ThreadStates /\ s.t = T(p) /\ s.pc = "idle"
  BY <1>1, ThreadFacts, CallState
<1>3. thread' = [thread EXCEPT ![p] = s]
  BY Zenon DEF Return
<1> QED BY <1>2, <1>3, Zenon

Kind(p) ==
    \/ (\E s \in ThreadStates, r \in Pointers : Moves(p, s, r)) /\ Records(p)
    \/ Releases(p)

\* Steps outside closeResources and connect, and into closeResources.
LEMMA OutsideKind ==
    ASSUME FTDIInv, NEW p \in Threads,
           \/ IOSucceeds(p) \/ IOFails(p) \/ SetFlag(p) \/ ReportDisconnect(p)
           \/ ClearFlag(p) \/ Announce(p) \/ Cancel(p) \/ SwapFlag(p)
    PROVE  Kind(p)
<1>1. thread[p].pc \notin Replacing /\ thread[p].pc # "idle"
  BY Zenon DEF IOSucceeds, IOFails, SetFlag, ReportDisconnect, ClearFlag, Announce, Cancel,
         SwapFlag, At, Replacing
<1>2. UNCHANGED <<ptr, claimed, crashed>>
  BY Zenon DEF IOSucceeds, IOFails, SetFlag, ReportDisconnect, ClearFlag, Announce, Cancel,
         SwapFlag, usb, object
<1>3. Queues(p)
  BY Zenon DEF IOSucceeds, IOFails, SetFlag, ReportDisconnect, ClearFlag, Announce, Cancel,
         SwapFlag, Queues, Queue, TaskKinds
<1>4. \/ BeginReplacing(p)
      \/ /\ overlap' = overlap
         /\ \/ Return(p)
            \/ \E x \in {"clear", "set", "report", "announce", "announceConnected", "swap"} :
                 Goto(p, x)
            \/ thread' = [thread EXCEPT ![p] = StartIO(thread[p].op, thread[p].t, TRUE)]
  <2>1. CASE IOSucceeds(p)
    BY <2>1, Zenon DEF IOSucceeds, AfterSuccess
  <2>2. CASE IOFails(p)
    BY <2>2, Zenon DEF IOFails
  <2>3. CASE SetFlag(p)
    BY <2>3, Zenon DEF SetFlag
  <2>4. CASE ReportDisconnect(p)
    BY <2>4, Zenon DEF ReportDisconnect
  <2>5. CASE ClearFlag(p)
    BY <2>5, Zenon DEF ClearFlag
  <2>6. CASE Announce(p)
    BY <2>6, Zenon DEF Announce
  <2>7. CASE Cancel(p)
    BY <2>7, Zenon DEF Cancel
  <2>8. CASE SwapFlag(p)
    BY <2>8, Zenon DEF SwapFlag
  <2> QED BY <2>1, <2>2, <2>3, <2>4, <2>5, <2>6, <2>7, <2>8, Zenon
<1>5. CASE BeginReplacing(p)
  BY <1>1, <1>2, <1>3, <1>5, Enters, Zenon DEF Kind
<1>6. CASE overlap' = overlap /\ \E s \in ThreadStates :
             thread' = [thread EXCEPT ![p] = s] /\ s.t = T(p) /\ s.pc \notin Replacing
  BY <1>1, <1>2, <1>3, <1>6, StaysOut, ThreadFacts, Zenon DEF Kind
<1>7. CASE overlap' = overlap /\ Return(p)
  <2>1. "idle" \notin Replacing
    BY Zenon DEF Replacing
  <2> QED BY <1>6, <1>7, <2>1, ReturnState, Zenon
<1>8. CASE /\ overlap' = overlap
           /\ \E x \in {"clear", "set", "report", "announce", "announceConnected", "swap"} :
                Goto(p, x)
  <2>1. PICK x \in {"clear", "set", "report", "announce", "announceConnected", "swap"} :
          Goto(p, x)
    BY <1>8, Zenon
  <2>2. x \in Places /\ x \notin Replacing
    BY Zenon DEF Places, Replacing
  <2> QED BY <1>6, <1>8, <2>1, <2>2, GotoState
<1>9. CASE /\ overlap' = overlap
           /\ thread' = [thread EXCEPT ![p] = StartIO(thread[p].op, thread[p].t, TRUE)]
  <2>1. thread[p].op \in Ops /\ thread[p].t \in Transports /\ "wait" \notin Replacing
    BY ThreadFacts, Zenon DEF ThreadStates, Replacing
  <2>2. ptr \in [Transports -> Pointers]
    BY Zenon DEF FTDIInv, TypeInv
  <2> DEFINE s == StartIO(thread[p].op, thread[p].t, TRUE)
  <2>3. s \in ThreadStates /\ s.t = T(p) /\ s.pc = "wait"
    BY <2>1, <2>2, StartIOState, Zenon DEF T
  <2> QED BY <1>6, <1>9, <2>1, <2>3, Zenon
<1> QED BY <1>4, <1>5, <1>7, <1>8, <1>9, Zenon

\* The two handles that closeResources and connect go through.
LEMMA HandleNames ==
    ASSUME NEW p
    PROVE  /\ thread[p].k = 1 => Handle(p) = "intf"
           /\ thread[p].k = 2 => Handle(p) = "device"
BY DEF Handle, Handles

\* closeResources has dealt with one handle and goes to the next, or ends.
LEMMA NextHandleKind ==
    ASSUME FTDIInv, NEW p \in Threads, NEW r \in Pointers, NextHandle(p),
           thread[p].pc \in {"test", "nil"}, ptr' = [ptr EXCEPT ![T(p)] = r],
           UNCHANGED <<tasks, overlap, crashed, claimed>>,
           ~overlap => r.intf = "nil" /\ ptr[T(p)].intf # "live",
           ~overlap /\ thread[p].k = 2 => r.device = "nil"
    PROVE  Kind(p)
<1>1. thread[p].pc \in Replacing
  BY Zenon DEF Replacing
<1>2. ~overlap => thread[p].c = "nil" /\ thread[p].k \in {1, 2}
  BY <1>1, ThreadFacts, Zenon DEF Fits
<1>3. ASSUME NEW s \in ThreadStates, s.t = T(p), thread' = [thread EXCEPT ![p] = s],
             ~overlap => (IF s.pc \in Replacing THEN Fits(s, r) ELSE Agree(r))
      PROVE  Kind(p)
  <2>1. ~overlap => KeepsClaim(p, s, r)
    BY <1>2, Zenon DEF KeepsClaim
  <2>2. crashed' \in BOOLEAN /\ (crashed' => overlap)
    BY ThreadFacts, Zenon
  <2>3. Moves(p, s, r) /\ Records(p)
    BY <1>1, <1>3, <2>1, <2>2, GoesOn, Zenon
  <2> QED BY <2>3, Zenon DEF Kind
<1>4. CASE thread[p].k < 2
  <2> DEFINE s == [thread[p] EXCEPT !.k = @ + 1, !.pc = "test"]
  <2>1. /\ s \in ThreadStates /\ s.t = T(p) /\ s.pc = "test" /\ s.k = thread[p].k + 1
        /\ s.c = thread[p].c
    <3>1. "test" \in Places
      BY Zenon DEF Places, Replacing
    <3>2. thread[p] \in ThreadStates /\ thread[p].t = T(p) /\ thread[p].k \in 0 .. 2
      BY ThreadFacts, Zenon DEF ThreadStates
    <3>3. thread[p].k + 1 \in 0 .. 2
      BY <1>4, <3>2
    <3> QED BY <3>1, <3>2, <3>3, Zenon DEF ThreadStates
  <2>2. thread' = [thread EXCEPT ![p] = s]
    BY <1>4, Zenon DEF NextHandle
  <2> HIDE DEF s
  <2>3. ~overlap => Fits(s, r)
    BY <1>2, <1>4, <2>1 DEF Fits
  <2> QED BY <1>3, <2>1, <2>2, <2>3, Zenon DEF Replacing
<1>5. CASE ~(thread[p].k < 2) /\ thread[p].op = "close"
  <2>1. PICK s \in ThreadStates :
          thread' = [thread EXCEPT ![p] = s] /\ s.t = T(p) /\ s.pc = "idle"
    BY <1>5, ReturnState, Zenon DEF NextHandle
  <2>2. ~overlap => Agree(r)
    BY <1>2, <1>5 DEF Agree
  <2> QED BY <1>3, <2>1, <2>2, Zenon DEF Replacing
<1>6. CASE ~(thread[p].k < 2) /\ thread[p].op # "close"
  <2>1. PICK s \in ThreadStates :
          thread' = [thread EXCEPT ![p] = s] /\ s.t = T(p) /\ s.pc = "open" /\ s.c = thread[p].c
    BY <1>6, GotoState DEF NextHandle, Places, Replacing
  <2>2. ~overlap => Fits(s, r)
    BY <1>2, <1>6, <2>1 DEF Fits
  <2> QED BY <1>3, <2>1, <2>2, Zenon DEF Replacing
<1> QED BY <1>4, <1>5, <1>6, Zenon

\* The steps of closeResources.
LEMMA CloseResourcesKind ==
    ASSUME FTDIInv, NEW p \in Threads, TestHandle(p) \/ CloseHandle(p) \/ ForgetHandle(p)
    PROVE  Kind(p)
<1> DEFINE R == ptr[T(p)]
<1>1. /\ thread[p].pc \in Replacing /\ thread[p].pc \in {"test", "close", "nil"}
      /\ overlap' = overlap /\ tasks' = tasks
  BY Zenon DEF TestHandle, CloseHandle, ForgetHandle, At, Replacing
<1>2. ~overlap => /\ thread[p].k \in {1, 2} /\ thread[p].c = "nil"
                  /\ thread[p].k = 2 => R.intf = "nil"
  BY <1>1, ThreadFacts, Zenon DEF Fits
<1>3. ~overlap => R[Handle(p)] = IF thread[p].k = 1 THEN R.intf ELSE R.device
  BY <1>2, HandleNames, Zenon
<1>4. R \in Pointers /\ ptr = [ptr EXCEPT ![T(p)] = R]
  BY ThreadFacts, Zenon
<1>5. CASE TestHandle(p)
  <2>1. UNCHANGED <<ptr, claimed, crashed>> /\ thread[p].pc = "test"
    BY <1>5, Zenon DEF TestHandle, usb, At
  <2>2. CASE R[Handle(p)] = "nil"
    <3>1. NextHandle(p)
      BY <1>5, <2>2, Zenon DEF TestHandle
    <3>2. ~overlap => R.intf = "nil" /\ (thread[p].k = 2 => R.device = "nil")
      BY <1>2, <1>3, <2>2
    <3> QED BY <1>1, <1>4, <2>1, <3>1, <3>2, NextHandleKind, Zenon
  <2>3. CASE R[Handle(p)] # "nil"
    <3>1. PICK s \in ThreadStates :
            /\ thread' = [thread EXCEPT ![p] = s] /\ s.t = T(p) /\ s.pc = "close"
            /\ s.c = thread[p].c /\ s.k = thread[p].k
      BY <1>5, <2>3, GotoState DEF TestHandle, Places, Replacing
    <3>2. ~overlap => Fits(s, R)
      BY <1>2, <1>3, <2>3, <3>1, Zenon DEF Fits
    <3>3. ~overlap => KeepsClaim(p, s, R)
      BY <1>2, <2>1, Zenon DEF KeepsClaim
    <3>4. s.pc \in Replacing
      BY <3>1, Zenon DEF Replacing
    <3>5. crashed' \in BOOLEAN /\ (crashed' => overlap) /\ ptr' = [ptr EXCEPT ![T(p)] = R]
      BY <1>4, <2>1, ThreadFacts, Zenon
    <3>6. Moves(p, s, R) /\ Records(p)
      BY <1>1, <1>4, <3>1, <3>2, <3>3, <3>4, <3>5, GoesOn, Zenon
    <3> QED BY <1>4, <3>6, Zenon DEF Kind
  <2> QED BY <2>2, <2>3, Zenon
<1>6. CASE CloseHandle(p)
  <2>1. /\ thread[p].pc = "close" /\ crashed' = (R[Handle(p)] = "nil")
    BY <1>6, Zenon DEF CloseHandle, At
  <2>2. ~overlap => R[Handle(p)] # "nil"
    BY <1>1, <1>2, <1>3, <2>1, ThreadFacts, Zenon DEF Fits
  <2>3. crashed' \in BOOLEAN /\ (crashed' => overlap)
    BY <2>1, <2>2, Zenon
  <2>4. CASE Handle(p) = "intf" /\ R.intf = "live"
    <3>1. ~overlap => thread[p].k = 1
      BY <1>2, <2>4, Zenon
    <3>2. Release([thread EXCEPT ![p].pc = "nil"])
      BY <1>6, <2>4, Zenon DEF CloseHandle
    <3> QED BY <1>1, <2>1, <2>3, <3>1, <3>2, Zenon DEF Kind, Releases
  <2>5. CASE ~(Handle(p) = "intf" /\ R.intf = "live")
    <3>1. PICK s \in ThreadStates :
            /\ thread' = [thread EXCEPT ![p] = s] /\ s.t = T(p) /\ s.pc = "nil"
            /\ s.c = thread[p].c /\ s.k = thread[p].k
      BY <1>6, <2>5, GotoState DEF CloseHandle, Places, Replacing
    <3>2. UNCHANGED <<claimed, ptr>>
      BY <1>6, <2>5, Zenon DEF CloseHandle
    <3>3. ~overlap => Fits(s, R)
      BY <1>2, <2>5, <3>1, HandleNames, Zenon DEF Fits
    <3>4. ~overlap => KeepsClaim(p, s, R)
      BY <1>2, <3>2, Zenon DEF KeepsClaim
    <3>5. s.pc \in Replacing /\ ptr' = [ptr EXCEPT ![T(p)] = R]
      BY <1>4, <3>1, <3>2, Zenon DEF Replacing
    <3>6. Moves(p, s, R) /\ Records(p)
      BY <1>1, <1>4, <2>3, <3>1, <3>3, <3>4, <3>5, GoesOn, Zenon
    <3> QED BY <1>4, <3>6, Zenon DEF Kind
  <2> QED BY <2>4, <2>5, Zenon
<1>7. CASE ForgetHandle(p)
  <2> DEFINE r == [R EXCEPT ![Handle(p)] = "nil"]
  <2>1. /\ UNCHANGED <<claimed, crashed>> /\ thread[p].pc = "nil" /\ NextHandle(p)
        /\ ptr' = [ptr EXCEPT ![T(p)] = r]
    BY <1>7, Zenon DEF ForgetHandle, usb, At
  <2>2. /\ r \in Pointers
        /\ Handle(p) = "intf" => r.intf = "nil"
        /\ Handle(p) = "device" => r.device = "nil" /\ r.intf = R.intf
    <3>1. "nil" \in Conns /\ r = [R EXCEPT ![Handle(p)] = "nil"]
      BY Zenon DEF Conns
    <3> HIDE DEF r, R
    <3> QED BY ONLY <1>4, <3>1, Zenon DEF Pointers
  <2>3. ~overlap => r.intf = "nil" /\ (thread[p].k = 2 => r.device = "nil")
    BY <1>2, <2>2, HandleNames, Zenon
  <2>4. ~overlap => R.intf # "live"
    BY <1>1, <1>2, <2>1, ThreadFacts, Zenon DEF Fits
  <2> HIDE DEF r
  <2> QED BY <1>1, <2>1, <2>2, <2>3, <2>4, NextHandleKind, Zenon
<1> QED BY <1>5, <1>6, <1>7, Zenon

\* The steps of connect.
LEMMA ConnectKind ==
    ASSUME FTDIInv, NEW p \in Threads,
           \/ OpenDevice(p) \/ OpenFails(p) \/ Configure(p) \/ ConfigureFails(p)
           \/ PublishHandle(p) \/ PublishReader(p)
    PROVE  Kind(p)
<1> DEFINE S == thread[p]
           R == ptr[T(p)]
<1>1. /\ S.pc \in Replacing /\ overlap' = overlap /\ tasks' = tasks
      /\ crashed' \in BOOLEAN /\ (crashed' => overlap)
  BY ThreadFacts DEF OpenDevice, OpenFails, Configure, ConfigureFails, PublishHandle,
                     PublishReader, At, Replacing
<1>2. /\ R \in Pointers /\ ptr = [ptr EXCEPT ![T(p)] = R] /\ S \in ThreadStates
      /\ S.t = T(p) /\ (~overlap => Fits(S, R))
  BY <1>1, ThreadFacts, Zenon
<1>3. ASSUME NEW s \in ThreadStates, NEW r \in Pointers, s.t = T(p),
             thread' = [thread EXCEPT ![p] = s], ptr' = [ptr EXCEPT ![T(p)] = r],
             ~overlap => (IF s.pc \in Replacing THEN Fits(s, r) ELSE Agree(r)),
             ~overlap /\ ~ConfigureFails(p) => KeepsClaim(p, s, r)
      PROVE  Kind(p)
  <2>1. Moves(p, s, r) /\ Records(p)
    BY <1>1, <1>3, GoesOn, Zenon
  <2> QED BY <2>1, Zenon DEF Kind
<1>4. CASE OpenDevice(p)
  <2> DEFINE s == [S EXCEPT !.c = "live", !.pc = "configure"]
  <2>1. s \in ThreadStates /\ s.t = T(p) /\ s.pc = "configure" /\ s.c = "live"
    <3>1. "configure" \in Places /\ "live" \in Conns
      BY Zenon DEF Places, Replacing, Conns
    <3> QED BY <1>2, <3>1, Zenon DEF ThreadStates
  <2>2. thread' = [thread EXCEPT ![p] = s] /\ ptr' = ptr /\ S.pc = "open"
    BY <1>4, Zenon DEF OpenDevice, At
  <2> HIDE DEF s
  <2>3. s.pc \in Replacing /\ (~overlap => Fits(s, R))
    BY <1>2, <2>1, <2>2, Zenon DEF Fits, Replacing
  <2>4. KeepsClaim(p, s, R)
    BY <2>1, <2>3, Zenon DEF KeepsClaim
  <2> QED BY <1>2, <1>3, <2>1, <2>2, <2>3, <2>4, Zenon
<1>5. CASE OpenFails(p)
  <2>1. PICK s \in ThreadStates :
          thread' = [thread EXCEPT ![p] = s] /\ s.t = T(p) /\ s.pc = "idle"
    BY <1>5, ReturnState, Zenon DEF OpenFails
  <2>2. ptr' = ptr /\ claimed' = claimed /\ S.pc = "open"
    BY <1>5, Zenon DEF OpenFails, At
  <2>3. s.pc \notin Replacing /\ (~overlap => Agree(R))
    BY <1>2, <2>1, <2>2, Zenon DEF Fits, Agree, Replacing
  <2>4. ~overlap => KeepsClaim(p, s, R)
    BY <1>2, <2>2, Zenon DEF KeepsClaim, Fits
  <2> QED BY <1>2, <1>3, <2>1, <2>2, <2>3, <2>4, Zenon
<1>6. CASE Configure(p)
  <2> DEFINE s == [S EXCEPT !.pc = "publish", !.k = 2]
  <2>1. s \in ThreadStates /\ s.t = T(p) /\ s.pc = "publish" /\ s.c = S.c /\ s.k = 2
    <3>1. "publish" \in Places /\ 2 \in 0 .. 2
      BY DEF Places, Replacing
    <3>2. S \in ThreadStates /\ S.t = T(p)
      BY <1>2, Zenon
    <3> HIDE DEF S
    <3> QED BY ONLY <3>1, <3>2, Zenon DEF ThreadStates
  <2>2. /\ thread' = [thread EXCEPT ![p] = s] /\ ptr' = ptr /\ claimed' = claimed
        /\ S.pc = "configure"
    BY <1>6, Zenon DEF Configure, At, usb
  <2> HIDE DEF s
  <2>3. s.pc \in Replacing /\ (~overlap => Fits(s, R))
    BY <1>2, <2>1, <2>2 DEF Fits, Replacing
  <2>4. KeepsClaim(p, s, R)
    BY <2>1, <2>2, <2>3, Zenon DEF KeepsClaim
  <2> QED BY <1>2, <1>3, <2>1, <2>2, <2>3, <2>4, Zenon
<1>7. CASE ConfigureFails(p)
  <2>1. PICK s \in ThreadStates :
          thread' = [thread EXCEPT ![p] = s] /\ s.t = T(p) /\ s.pc = "idle"
    BY <1>7, ReturnState, Zenon DEF ConfigureFails
  <2>2. ptr' = ptr /\ S.pc = "configure"
    BY <1>7, Zenon DEF ConfigureFails, At
  <2>3. s.pc \notin Replacing /\ (~overlap => Agree(R))
    BY <1>2, <2>1, <2>2, Zenon DEF Fits, Agree, Replacing
  <2> QED BY <1>2, <1>3, <1>7, <2>1, <2>2, <2>3, Zenon
<1>8. CASE PublishHandle(p)
  <2> DEFINE s == [S EXCEPT !.k = @ - 1]
             r == [R EXCEPT ![Handle(p)] = S.c]
  <2>0. S.pc = "publish" /\ S.k \in {1, 2} /\ S.c \in Conns
    BY <1>2, <1>8 DEF PublishHandle, At, ThreadStates
  <2>1. s \in ThreadStates /\ s.t = T(p) /\ s.pc = "publish" /\ s.c = S.c /\ s.k = S.k - 1
    BY <1>2, <2>0 DEF ThreadStates
  <2>2. /\ thread' = [thread EXCEPT ![p] = s] /\ claimed' = claimed
        /\ ptr' = [ptr EXCEPT ![T(p)] = r]
    BY <1>8, Zenon DEF PublishHandle, usb
  <2>3. /\ r \in Pointers
        /\ S.k = 1 => r.intf = S.c /\ r.device = R.device
        /\ S.k = 2 => r.device = S.c /\ r.intf = R.intf
    <3>1. r = [R EXCEPT ![Handle(p)] = S.c]
      BY Zenon
    <3>2. /\ S.k = 1 => Handle(p) = "intf"
          /\ S.k = 2 => Handle(p) = "device"
      BY HandleNames, Zenon
    <3> HIDE DEF r, R, S
    <3> QED BY ONLY <1>2, <2>0, <3>1, <3>2, Zenon DEF Pointers
  <2> HIDE DEF s, r
  <2>4. s.pc \in Replacing /\ (~overlap => Fits(s, r))
    BY <1>2, <2>0, <2>1, <2>3 DEF Fits, Replacing
  <2>5. ~overlap => KeepsClaim(p, s, r)
    BY <1>2, <2>0, <2>1, <2>2, <2>3, <2>4, Zenon DEF KeepsClaim, Fits
  <2> QED BY <1>3, <2>1, <2>2, <2>3, <2>4, <2>5, Zenon
<1>9. CASE PublishReader(p)
  <2> DEFINE r == [R EXCEPT !.io = S.c]
  <2>1. PICK s \in ThreadStates :
          thread' = [thread EXCEPT ![p] = s] /\ s.t = T(p) /\ s.pc = "connected"
    BY <1>9, GotoState DEF PublishReader, Places
  <2>2. /\ ptr' = [ptr EXCEPT ![T(p)] = r] /\ claimed' = claimed
        /\ S.pc = "publish" /\ S.k = 0
    BY <1>9, Zenon DEF PublishReader, At, usb
  <2>3. r \in Pointers /\ r.io = S.c /\ r.intf = R.intf /\ r.device = R.device
    BY <1>2, Zenon DEF Pointers, ThreadStates
  <2> HIDE DEF r
  <2>4. s.pc \notin Replacing /\ (~overlap => Agree(r))
    BY <1>2, <2>1, <2>2, <2>3 DEF Fits, Agree, Replacing
  <2>5. ~overlap => KeepsClaim(p, s, r)
    BY <1>2, <2>2, <2>3, Zenon DEF KeepsClaim, Fits
  <2> QED BY <1>3, <2>1, <2>2, <2>3, <2>4, <2>5, Zenon
<1> QED BY <1>4, <1>5, <1>6, <1>7, <1>8, <1>9, Zenon

\* Every step of a thread is a move or a release.
LEMMA ThreadStepKind ==
    ASSUME FTDIInv, NEW p \in Threads, ThreadStep(p)
    PROVE  Kind(p)
BY OutsideKind, CloseResourcesKind, ConnectKind, Zenon DEF ThreadStep

-----------------------------------------------------------------------------
(***************************************************************************)
(* The broker's steps.                                                     *)
(***************************************************************************)
\* A thread that is in no call begins one, alone if it begins in connect.
LEMMA StartSound ==
    ASSUME NEW p \in Threads, NEW s \in ThreadStates,
           thread \in [Threads -> ThreadStates], ptr \in [Transports -> Pointers],
           Sound(thread, ptr), thread[p].pc \notin Replacing,
           s.pc \in Replacing => /\ Fits(s, ptr[s.t])
                                 /\ \A q \in Threads \ {p} :
                                      thread[q].pc \in Replacing => T(q) # s.t
    PROVE  Sound([thread EXCEPT ![p] = s], ptr)
<1> DEFINE th == [thread EXCEPT ![p] = s]
<1>1. \A q \in Threads : th[q] = IF q = p THEN s ELSE thread[q]
  BY Zenon
<1> HIDE DEF th
<1>2. ASSUME NEW q \in Threads, NEW q2 \in Threads, q # q2, th[q].pc \in Replacing,
             th[q2].pc \in Replacing
      PROVE  th[q].t # th[q2].t
  BY <1>1, <1>2 DEF Sound, T
<1>3. ASSUME NEW q \in Threads, th[q].pc \in Replacing
      PROVE  Fits(th[q], ptr[th[q].t])
  BY <1>1, <1>3, Zenon DEF Sound
<1>4. ASSUME NEW t \in Transports,
             \A q \in Threads : th[q].t = t => th[q].pc \notin Replacing
      PROVE  Agree(ptr[t])
  <2>1. \A q \in Threads : thread[q].t = t => thread[q].pc \notin Replacing
    BY <1>1, <1>4, Zenon
  <2> QED BY <2>1, Zenon DEF Sound
<1>5. Sound(th, ptr)
  BY <1>2, <1>3, <1>4, Zenon DEF Sound
<1> QED BY <1>5, Zenon DEF th

\* Such a call may also be made on a transport that has just been made.
LEMMA StartLemma ==
    ASSUME FTDIInv, NEW p \in Threads, NEW s \in ThreadStates, thread[p].pc = "idle",
           thread' = [thread EXCEPT ![p] = s], UNCHANGED <<ptr, overlap, crashed>>,
           made' \in Nat, made <= made', s.t <= made',
           loops' \in Nat, loops <= loops', p \in Loops => p <= loops',
           \A q \in 1 .. loops' : q \in 1 .. loops \/ q = p,
           s.pc \in Replacing => s.pc = "open" /\ s.c = "nil" /\ s.t > made
    PROVE  /\ thread' \in [Threads -> ThreadStates] /\ Known'
           /\ ~overlap' => Sound(thread', ptr')
<1>1. /\ thread \in [Threads -> ThreadStates] /\ ptr \in [Transports -> Pointers]
      /\ made \in Nat /\ loops \in Nat /\ s.t \in Transports
  BY Zenon DEF FTDIInv, TypeInv, ThreadStates
<1>2. \A q \in Threads : thread'[q] = IF q = p THEN s ELSE thread[q]
  BY <1>1, Zenon
<1>3. Known'
  <2>1. ASSUME NEW q \in Threads, thread'[q].pc # "idle" \/ q \in 1 .. loops'
        PROVE  T(q)' <= made'
    <3>1. CASE q = p
      BY <1>2, <3>1, Zenon DEF T
    <3>2. CASE q # p
      <4>1. T(q) <= made /\ T(q)' = T(q) /\ T(q) \in Nat
        BY <1>1, <1>2, <2>1, <3>2 DEF FTDIInv, Known, T, ThreadStates, Transports
      <4> QED BY <1>1, <4>1
    <3> QED BY <3>1, <3>2, Zenon
  <2>2. ASSUME NEW q \in Loops, q > loops'
        PROVE  thread'[q].pc = "idle"
    <3>1. q > loops /\ q # p /\ q \in Threads
      BY <1>1, <2>2 DEF Loops, Threads
    <3> QED BY <1>2, <3>1, Zenon DEF FTDIInv, Known
  <2>3. ASSUME NEW t \in Transports, t > made'
        PROVE  ptr'[t].intf = "nil" /\ ptr'[t].device = "nil"
    <3>1. t > made
      BY <1>1, <2>3 DEF Transports
    <3> QED BY <3>1, Zenon DEF FTDIInv, Known
  <2> QED BY <2>1, <2>2, <2>3, Zenon DEF Known
<1>4. ASSUME ~overlap' PROVE Sound(thread', ptr')
  <2>1. Sound(thread, ptr) /\ thread[p].pc \notin Replacing
    BY <1>4, Zenon DEF FTDIInv, Replacing
  <2>2. ASSUME s.pc \in Replacing
        PROVE  /\ Fits(s, ptr[s.t])
               /\ \A q \in Threads \ {p} : thread[q].pc \in Replacing => T(q) # s.t
    <3>1. ptr[s.t].intf = "nil" /\ ptr[s.t].device = "nil"
      BY <1>1, <2>2, Zenon DEF FTDIInv, Known
    <3>2. Fits(s, ptr[s.t])
      BY <2>2, <3>1, Zenon DEF Fits
    <3>3. ASSUME NEW q \in Threads, thread[q].pc \in Replacing
          PROVE  T(q) # s.t
      <4>1. T(q) <= made /\ T(q) \in Nat
        BY <1>1, <3>3 DEF FTDIInv, Known, Replacing, T, ThreadStates, Transports
      <4> QED BY <1>1, <2>2, <4>1 DEF Transports
    <3> QED BY <3>2, <3>3, Zenon
  <2>3. Sound([thread EXCEPT ![p] = s], ptr)
    BY <1>1, <2>1, <2>2, StartSound, Zenon
  <2> QED BY <2>3, Zenon
<1> QED BY <1>1, <1>3, <1>4, Zenon

\* The tasks that wait, and those left when one is taken.
LEMMA TaskFacts ==
    ASSUME FTDIInv, tasks # <<>>
    PROVE  /\ Head(tasks)[2] \in Transports /\ Head(tasks)[2] <= made
           /\ Tail(tasks) \in Seq(TaskKinds \X Transports)
           /\ \A i \in 1 .. Len(Tail(tasks)) : Tail(tasks)[i][2] <= made
<1>1. /\ tasks \in Seq(TaskKinds \X Transports) /\ Len(tasks) \in Nat /\ Len(tasks) > 0
      /\ \A i \in 1 .. Len(tasks) : tasks[i][2] <= made
  BY DEF FTDIInv, TypeInv
<1>2. Head(tasks) = tasks[1] /\ tasks[1] \in TaskKinds \X Transports
  BY <1>1
<1>3. /\ Tail(tasks) \in Seq(TaskKinds \X Transports) /\ Len(Tail(tasks)) = Len(tasks) - 1
      /\ \A i \in 1 .. Len(tasks) - 1 : Tail(tasks)[i] = tasks[i + 1]
  BY <1>1
<1> QED BY <1>1, <1>2, <1>3

\* Steps that start no call.
LEMMA QuietLemma ==
    ASSUME FTDIInv, UNCHANGED <<thread, ptr, crashed, overlap, made, loops>>, AgendaInv',
           held' \in Nat, held' <= made,
           tasks' = tasks \/ (tasks # <<>> /\ tasks' = Tail(tasks))
    PROVE  FTDIInv'
<1>1. /\ tasks' \in Seq(TaskKinds \X Transports)
      /\ \A i \in 1 .. Len(tasks') : tasks'[i][2] <= made
  BY TaskFacts, Zenon DEF FTDIInv, TypeInv
<1>2. TypeInv'
  BY <1>1, Zenon DEF FTDIInv, TypeInv
<1>3. Known'
  BY Zenon DEF FTDIInv, Known, T
<1>4. ~overlap' => Sound(thread', ptr')
  BY Zenon DEF FTDIInv
<1> QED BY <1>2, <1>3, <1>4, Zenon DEF FTDIInv

\* An agenda whose first entry is done.
LEMMA AgendaTail ==
    ASSUME FTDIInv, agenda # <<>>, agenda' = Tail(agenda)
    PROVE  AgendaInv'
<1>1. /\ agenda \in Seq(Calls) /\ Len(agenda) \in Nat /\ Len(agenda) > 0
      /\ \A i \in 2 .. Len(agenda) : agenda[i] # "close"
  BY DEF FTDIInv, AgendaInv
<1>2. /\ agenda' \in Seq(Calls) /\ Len(agenda') = Len(agenda) - 1
      /\ \A i \in 1 .. Len(agenda) - 1 : agenda'[i] = agenda[i + 1]
  BY <1>1
<1>3. \A i \in 1 .. Len(agenda') : agenda'[i] # "close"
  BY <1>1, <1>2
<1>4. agenda' # <<>> => Head(agenda') = agenda'[1] /\ 1 \in 1 .. Len(agenda')
  BY <1>1, <1>2
<1>5. \A i \in 2 .. Len(agenda') : agenda'[i] # "close"
  BY <1>1, <1>2, <1>3
<1> QED BY <1>2, <1>3, <1>4, <1>5, Zenon DEF AgendaInv

\* The agendas that the handlers make.
LEMMA AgendaNew ==
    ASSUME FTDIInv, held' = held,
           agenda' \in {<<>>, <<"setup">>, Cleanup, Append(Cleanup, "setup")}
    PROVE  AgendaInv'
<1>1. CASE agenda' = <<>>
  BY <1>1 DEF AgendaInv
<1>2. CASE agenda' = <<"setup">>
  BY <1>2 DEF AgendaInv, Calls
<1>3. CASE agenda' = Cleanup
  <2>1. CASE held = None
    BY <1>1, <1>3, <2>1, Zenon DEF Cleanup
  <2>2. CASE held # None
    <3>1. agenda' = <<"close", "delete">>
      BY <1>3, <2>2, Zenon DEF Cleanup
    <3>2. agenda' \in Seq(Calls) /\ Len(agenda') = 2 /\ agenda'[2] = "delete"
      BY <3>1 DEF Calls
    <3>3. \A i \in 2 .. 2 : i = 2
      OBVIOUS
    <3> QED BY <2>2, <3>2, <3>3, Zenon DEF AgendaInv
  <2> QED BY <2>1, <2>2, Zenon
<1>4. CASE agenda' = Append(Cleanup, "setup")
  <2>1. "setup" \in Calls
    BY Zenon DEF Calls
  <2>2. CASE held = None
    <3> DEFINE a == <<>>
    <3>1. a \in Seq(Calls) /\ Len(a) = 0 /\ agenda' = Append(a, "setup")
      BY <1>4, <2>2 DEF Cleanup
    <3> HIDE DEF a
    <3>2. agenda' \in Seq(Calls) /\ Len(agenda') = 1 /\ agenda'[1] = "setup"
      BY <2>1, <3>1
    <3> QED BY <3>2 DEF AgendaInv
  <2>3. CASE held # None
    <3> DEFINE a == <<"close", "delete">>
    <3>1. a \in Seq(Calls) /\ agenda' = Append(a, "setup")
      BY <1>4, <2>3 DEF Cleanup, Calls
    <3>2. Len(a) = 2 /\ a[2] = "delete"
      BY Zenon
    <3> HIDE DEF a
    <3>4. /\ agenda' \in Seq(Calls)
          /\ Len(agenda') = Len(a) + 1
          /\ agenda'[Len(a) + 1] = "setup"
          /\ \A i \in 1 .. Len(a) : agenda'[i] = a[i]
      BY <2>1, <3>1
    <3>5. 2 \in 1 .. Len(a)
      BY <3>2
    <3>6. Len(agenda') = 3 /\ agenda'[3] = "setup" /\ agenda'[2] = "delete"
      BY <3>2, <3>4, <3>5
    <3>3. \A i \in 2 .. 3 : i = 2 \/ i = 3
      OBVIOUS
    <3>7. \A i \in 2 .. Len(agenda') : agenda'[i] # "close"
      BY <3>3, <3>6, Zenon
    <3>8. agenda' \in Seq(Calls)
      BY <3>4, Zenon
    <3> QED BY <2>3, <3>7, <3>8, Zenon DEF AgendaInv
  <2> QED BY <2>2, <2>3, Zenon
<1> QED BY <1>1, <1>2, <1>3, <1>4, Zenon

\* Handlers that only make an agenda, and the steps of the store.
LEMMA HandlerStep ==
    ASSUME FTDIInv,
           \/ OnBecameLeader \/ OnLosingLeadership \/ OnSchemaUpdated \/ Deinit
           \/ SetEnabled \/ onFtdiTransportIsEnabledChanged \/ RunDisconnect
    PROVE  FTDIInv'
<1>1. /\ UNCHANGED <<thread, ptr, crashed, overlap, made, loops, held>>
      /\ tasks' = tasks \/ (tasks # <<>> /\ tasks' = Tail(tasks))
  BY Zenon DEF OnBecameLeader, OnLosingLeadership, OnSchemaUpdated, Deinit, SetEnabled,
         onFtdiTransportIsEnabledChanged, RunDisconnect, ftdiVars
<1>2. agenda' = agenda \/ agenda' \in {<<>>, <<"setup">>, Cleanup, Append(Cleanup, "setup")}
  BY Zenon DEF OnBecameLeader, OnLosingLeadership, OnSchemaUpdated, Deinit, SetEnabled,
         onFtdiTransportIsEnabledChanged, RunDisconnect
<1>3. AgendaInv'
  <2>1. CASE agenda' = agenda
    BY <1>1, <2>1, Zenon DEF FTDIInv, AgendaInv
  <2> QED BY <1>1, <1>2, <2>1, AgendaNew, Zenon
<1>4. held' \in Nat /\ held' <= made
  BY <1>1, Zenon DEF FTDIInv, TypeInv
<1> QED BY <1>1, <1>3, <1>4, QuietLemma, Zenon

\* The protocol is taken out of protocolsByEntity, after it has been closed.
LEMMA DeleteStep == FTDIInv /\ DeleteProtocol => FTDIInv'
<1> SUFFICES ASSUME FTDIInv, DeleteProtocol PROVE FTDIInv'
  BY Zenon
<1>1. /\ UNCHANGED <<thread, ptr, crashed, overlap, made, loops, tasks>>
      /\ held' = None /\ agenda # <<>> /\ agenda' = Tail(agenda)
  BY Zenon DEF DeleteProtocol, Doing, ftdiVars
<1>2. AgendaInv'
  BY <1>1, AgendaTail, Zenon
<1>3. held' \in Nat /\ held' <= made
  BY <1>1 DEF FTDIInv, TypeInv, None
<1> QED BY <1>1, <1>2, <1>3, QuietLemma, Zenon

\* Calls that the main thread or a receive loop begins.
LEMMA CallStep ==
    ASSUME FTDIInv,
           \/ CloseProtocol \/ onTxMessage \/ \E p \in Loops : NextRead(p)
    PROVE  FTDIInv'
<1>1. \E p \in Threads, s \in ThreadStates :
        /\ thread[p].pc = "idle" /\ s.t <= made /\ s.pc \notin Replacing
        /\ thread' = [thread EXCEPT ![p] = s] /\ (p \in Loops => p <= loops)
  <2>0. /\ ptr \in [Transports -> Pointers] /\ Main \in Threads
        /\ "close" \in Ops /\ "write" \in Ops /\ "read" \in Ops /\ "none" \in Ops
        /\ "cancel" \in Places /\ "done" \in Places
        /\ "cancel" \notin Replacing /\ "wait" \notin Replacing /\ "done" \notin Replacing
        /\ Main \notin Loops
    BY DEF FTDIInv, TypeInv, Threads, Ops, Places, Replacing, Main, Loops
  <2>1. held # None => held \in Transports /\ held <= made
    BY FTDIBounds DEF FTDIInv, TypeInv, Transports, None
  <2>2. CASE CloseProtocol
    <3>1. thread[Main].pc = "idle" /\ agenda # <<>> /\ Head(agenda) = "close"
      BY <2>2, Zenon DEF CloseProtocol, Doing, Free, At
    <3>2. held \in Transports /\ held <= made
      BY <2>1, <3>1, Zenon DEF FTDIInv, AgendaInv
    <3> DEFINE s == Call("close", held, "cancel")
    <3>3. s \in ThreadStates /\ s.t = held /\ s.pc = "cancel"
      BY <2>0, <3>2, CallState
    <3>4. thread' = [thread EXCEPT ![Main] = s]
      BY <2>2, Zenon DEF CloseProtocol, MainCalls
    <3> HIDE DEF s
    <3> QED BY <2>0, <3>1, <3>2, <3>3, <3>4, Zenon
  <2>3. CASE onTxMessage
    <3>1. thread[Main].pc = "idle" /\ held \in Transports /\ held <= made
      BY <2>1, <2>3, Zenon DEF onTxMessage, Idle, Free, At
    <3> DEFINE s == StartIO("write", held, FALSE)
    <3>2. s \in ThreadStates /\ s.t = held /\ s.pc = "wait"
      BY <2>0, <3>1, StartIOState, Zenon
    <3>3. thread' = [thread EXCEPT ![Main] = s]
      BY <2>3, Zenon DEF onTxMessage
    <3> HIDE DEF s
    <3> QED BY <2>0, <3>1, <3>2, <3>3, Zenon
  <2>4. CASE \E p \in Loops : NextRead(p)
    <3>1. PICK p \in Loops : NextRead(p)
      BY <2>4, Zenon
    <3>2. p \in Threads /\ thread[p].pc = "idle" /\ p <= loops
      BY <3>1, Zenon DEF NextRead, At, Threads
    <3>3. T(p) \in Transports /\ T(p) <= made
      <4>1. p \in 1 .. loops
        BY <3>2 DEF FTDIInv, TypeInv, Loops
      <4> QED BY <3>2, <4>1, ThreadFacts, Zenon DEF FTDIInv, Known
    <3> DEFINE s == IF stopped THEN Call("none", T(p), "done") ELSE StartIO("read", T(p), FALSE)
    <3>4. s \in ThreadStates /\ s.t = T(p) /\ s.pc \in {"done", "wait"}
      <4>1. CASE stopped
        BY <2>0, <3>3, <4>1, CallState
      <4>2. CASE ~stopped
        BY <2>0, <3>3, <4>2, StartIOState, Zenon
      <4> QED BY <4>1, <4>2, Zenon
    <3>5. thread' = [thread EXCEPT ![p] = s]
      BY <3>1, Zenon DEF NextRead
    <3> HIDE DEF s
    <3> QED BY <2>0, <3>2, <3>3, <3>4, <3>5, Zenon
  <2> QED BY <2>2, <2>3, <2>4, Zenon
<1>2. UNCHANGED <<ptr, tasks, crashed, overlap, made, loops, held>>
  BY Zenon DEF CloseProtocol, onTxMessage, NextRead, brokerVars
<1>3. made \in Nat /\ loops \in Nat
  BY Zenon DEF FTDIInv, TypeInv
<1>4. /\ thread' \in [Threads -> ThreadStates] /\ Known'
      /\ ~overlap' => Sound(thread', ptr')
  <2>1. PICK p \in Threads, s \in ThreadStates :
          /\ thread[p].pc = "idle" /\ s.t <= made /\ s.pc \notin Replacing
          /\ thread' = [thread EXCEPT ![p] = s] /\ (p \in Loops => p <= loops)
    BY <1>1, Zenon
  <2>2. /\ made' \in Nat /\ made <= made' /\ s.t <= made'
        /\ loops' \in Nat /\ loops <= loops' /\ (p \in Loops => p <= loops')
        /\ \A q \in 1 .. loops' : q \in 1 .. loops \/ q = p
    BY <1>2, <1>3, <2>1
  <2> QED BY <1>2, <2>1, <2>2, StartLemma, Zenon
<1>5. AgendaInv'
  <2>1. CASE agenda' = agenda
    BY <1>2, <2>1, Zenon DEF FTDIInv, AgendaInv
  <2>2. CASE agenda # <<>> /\ agenda' = Tail(agenda)
    BY <2>2, AgendaTail, Zenon
  <2> QED BY <2>1, <2>2, Zenon DEF CloseProtocol, onTxMessage, NextRead, brokerVars, Doing
<1>6. TypeInv'
  BY <1>2, <1>4, Zenon DEF FTDIInv, TypeInv
<1> QED BY <1>2, <1>4, <1>5, <1>6, Zenon DEF FTDIInv

\* NewFTDITransport connects a transport that nobody has seen.
LEMMA SetupStep == FTDIInv /\ setupFtdiTransport => FTDIInv'
<1> SUFFICES ASSUME FTDIInv, setupFtdiTransport PROVE FTDIInv'
  BY Zenon
<1>1. /\ UNCHANGED <<ptr, tasks, crashed, overlap, loops, held>>
      /\ agenda # <<>> /\ agenda' = Tail(agenda) /\ thread[Main].pc = "idle"
  BY Zenon DEF setupFtdiTransport, Doing, Free, At
<1>2. AgendaInv'
  BY <1>1, AgendaTail, Zenon
<1>3. /\ made \in Nat /\ made <= MaxTransports /\ loops \in Nat
      /\ held \in Nat /\ held <= made
  BY Zenon DEF FTDIInv, TypeInv
<1>4. CASE enabled /\ made < MaxTransports
  <2> DEFINE s == Call("new", made + 1, "open")
  <2>1. /\ made' = made + 1 /\ thread' = [thread EXCEPT ![Main] = s]
    BY <1>4, Zenon DEF setupFtdiTransport, MainCalls
  <2>2. s \in ThreadStates /\ s.t = made + 1 /\ s.pc = "open" /\ s.c = "nil"
    <3>1. "new" \in Ops /\ "open" \in Places
      BY Zenon DEF Ops, Places, Replacing
    <3>2. made + 1 \in Transports
      BY <1>3, <1>4, FTDIBounds DEF Transports
    <3> QED BY <3>1, <3>2, CallState
  <2> HIDE DEF s
  <2>3. Main \in Threads /\ Main \notin Loops
    BY DEF Threads, Main, Loops
  <2>4. /\ made' \in Nat /\ made <= made' /\ made' <= MaxTransports
        /\ s.t <= made' /\ s.t > made
        /\ loops' \in Nat /\ loops <= loops'
        /\ \A q \in 1 .. loops' : q \in 1 .. loops
        /\ held' <= made'
    BY <1>1, <1>3, <1>4, <2>1, <2>2, FTDIBounds
  <2>5. /\ thread' \in [Threads -> ThreadStates] /\ Known'
        /\ ~overlap' => Sound(thread', ptr')
    BY <1>1, <2>1, <2>2, <2>3, <2>4, StartLemma, Zenon
  <2>6. \A i \in 1 .. Len(tasks) : tasks[i][2] <= made'
    <3> TAKE i \in 1 .. Len(tasks)
    <3>1. tasks[i][2] <= made /\ tasks[i] \in TaskKinds \X Transports
      BY DEF FTDIInv, TypeInv
    <3>2. tasks[i][2] \in Nat
      BY <3>1, FTDIBounds DEF Transports
    <3> QED BY <1>3, <2>1, <3>1, <3>2
  <2>7. TypeInv'
    BY <1>1, <2>4, <2>5, <2>6, Zenon DEF FTDIInv, TypeInv
  <2> QED BY <1>1, <1>2, <2>5, <2>7, Zenon DEF FTDIInv
<1>5. CASE ~(enabled /\ made < MaxTransports)
  <2>1. UNCHANGED <<made, thread>>
    BY <1>5, Zenon DEF setupFtdiTransport
  <2> QED BY <1>1, <1>2, <1>3, <2>1, QuietLemma, Zenon
<1> QED BY <1>4, <1>5, Zenon

\* The task of OnConnect starts a receive loop.
LEMMA ConnectStep == FTDIInv /\ RunConnect => FTDIInv'
<1> SUFFICES ASSUME FTDIInv, RunConnect PROVE FTDIInv'
  BY Zenon
<1>1. /\ UNCHANGED <<ptr, crashed, overlap, made, agenda>> /\ agenda = <<>>
      /\ tasks # <<>> /\ tasks' = Tail(tasks)
  BY Zenon DEF RunConnect, Idle
<1>2. AgendaInv'
  BY <1>1 DEF AgendaInv
<1>3. /\ made \in Nat /\ made <= MaxTransports /\ loops \in Nat /\ loops <= MaxLoops
      /\ held \in Nat /\ held <= made
  BY Zenon DEF FTDIInv, TypeInv
<1> DEFINE t == Head(tasks)[2]
<1>4. t \in Transports /\ t \in Nat /\ t <= made
  BY <1>1, TaskFacts, FTDIBounds DEF Transports
<1>5. CASE isLeader /\ loops < MaxLoops
  <2> DEFINE s == StartIO("read", t, FALSE)
             p == loops + 1
  <2>1. /\ loops' = p /\ held' = t /\ thread' = [thread EXCEPT ![p] = s]
    BY <1>5, Zenon DEF RunConnect
  <2>2. s \in ThreadStates /\ s.t = t /\ s.pc = "wait"
    <3>1. "read" \in Ops /\ ptr \in [Transports -> Pointers]
      BY Zenon DEF Ops, FTDIInv, TypeInv
    <3> QED BY <1>4, <3>1, StartIOState, Zenon
  <2> HIDE DEF s, t
  <2>3. /\ p \in Loops /\ p \in Threads /\ p > loops /\ p <= MaxLoops
        /\ loops' \in Nat /\ loops <= loops' /\ p <= loops'
        /\ \A q \in 1 .. loops' : q \in 1 .. loops \/ q = p
    BY <1>3, <1>5, <2>1, FTDIBounds DEF Loops, Threads
  <2>4. thread[p].pc = "idle"
    BY <2>3, Zenon DEF FTDIInv, Known
  <2>5. made' \in Nat /\ made <= made' /\ s.t <= made' /\ s.pc \notin Replacing
    BY <1>1, <1>3, <1>4, <2>2 DEF Replacing
  <2> HIDE DEF p
  <2>6. /\ thread' \in [Threads -> ThreadStates] /\ Known'
        /\ ~overlap' => Sound(thread', ptr')
    BY <1>1, <2>1, <2>2, <2>3, <2>4, <2>5, StartLemma, Zenon
  <2>7. TypeInv'
    BY <1>1, <1>3, <1>4, <2>1, <2>3, <2>6, TaskFacts, Zenon DEF FTDIInv, TypeInv
  <2> QED BY <1>1, <1>2, <2>6, <2>7, Zenon DEF FTDIInv
<1>6. CASE ~(isLeader /\ loops < MaxLoops)
  <2>1. UNCHANGED <<thread, loops>> /\ (held' = held \/ held' = t)
    BY <1>6, Zenon DEF RunConnect
  <2> HIDE DEF t
  <2> QED BY <1>1, <1>2, <1>3, <1>4, <2>1, QuietLemma, Zenon
<1> QED BY <1>5, <1>6, Zenon

-----------------------------------------------------------------------------
(***************************************************************************)
(* The theorems.                                                           *)
(***************************************************************************)
\* Nothing has been opened, and no thread is in a call.
LEMMA FTDIInvInit == Init => FTDIInv
<1> SUFFICES ASSUME Init PROVE FTDIInv
  BY Zenon
<1> DEFINE s == Call("none", 1, "idle")
           r == [intf |-> "nil", device |-> "nil", io |-> "nil"]
<1>1. s \in ThreadStates /\ s.pc = "idle"
  <2>1. "none" \in Ops /\ "idle" \in Places /\ 1 \in Transports
    BY FTDIBounds DEF Ops, Places, Transports
  <2> QED BY <2>1, CallState
<1>2. r \in Pointers /\ r.intf = "nil" /\ r.device = "nil"
  BY Zenon DEF Pointers, Conns
<1>3. /\ thread = [p \in Threads |-> s] /\ ptr = [t \in Transports |-> r]
      /\ tasks = <<>> /\ crashed = FALSE /\ overlap = FALSE
      /\ held = 0 /\ agenda = <<>> /\ made = 0 /\ loops = 0
  BY Zenon DEF Init, FTDIInit, None
<1> HIDE DEF s, r
<1>4. TypeInv
  <2>1. thread \in [Threads -> ThreadStates] /\ ptr \in [Transports -> Pointers]
    BY <1>1, <1>2, <1>3, Zenon
  <2>2. /\ tasks \in Seq(TaskKinds \X Transports)
        /\ \A i \in 1 .. Len(tasks) : tasks[i][2] <= made
    BY <1>3
  <2>3. overlap \in BOOLEAN /\ crashed \in BOOLEAN
    BY <1>3, Zenon
  <2> QED BY <1>3, <2>1, <2>2, <2>3, FTDIBounds DEF TypeInv
<1>5. AgendaInv
  BY <1>3 DEF AgendaInv
<1>6. Known
  BY <1>1, <1>2, <1>3 DEF Known, Threads
<1>7. Sound(thread, ptr)
  BY <1>1, <1>2, <1>3, Zenon DEF Sound, Agree, Replacing
<1> QED BY <1>3, <1>4, <1>5, <1>6, <1>7, Zenon DEF FTDIInv

\* One case per group of actions; every group has its lemma above.
LEMMA FTDIInvStep == FTDIInv /\ [Next]_vars => FTDIInv'
<1> SUFFICES ASSUME FTDIInv, [Next]_vars PROVE FTDIInv'
  BY Zenon
<1>1. CASE MainThread
  BY <1>1, CallStep, DeleteStep, SetupStep, HandlerStep, ConnectStep, Zenon DEF MainThread
<1>2. CASE Environment
  <2>1. CASE Unplug /\ UNCHANGED brokerVars
    <3>1. Releases(Main) /\ Main \in Threads
      BY <2>1, ThreadFacts, Zenon DEF Unplug, Releases, Threads
    <3> QED BY <2>1, <3>1, ReleaseLemma, Zenon
  <2>2. CASE Plug /\ UNCHANGED brokerVars
    <3>1. UNCHANGED <<thread, ptr, crashed, overlap, tasks, made, loops, held, agenda>>
      BY <2>2, Zenon DEF Plug, brokerVars
    <3>2. AgendaInv' /\ held' \in Nat /\ held' <= made
      BY <3>1, Zenon DEF FTDIInv, TypeInv, AgendaInv
    <3> QED BY <3>1, <3>2, QuietLemma, Zenon
  <2> QED BY <1>2, <2>1, <2>2, HandlerStep, CallStep, Zenon DEF Environment
<1>3. CASE \E p \in Loops : NextRead(p)
  BY <1>3, CallStep, Zenon
<1>4. CASE \E p \in Threads : Step(p)
  BY <1>4, ThreadStepKind, MoveLemma, ReleaseLemma, Zenon DEF Step, Kind
<1>5. CASE UNCHANGED vars
  <2>1. UNCHANGED <<thread, ptr, crashed, overlap, tasks, made, loops, held, agenda>>
    BY <1>5, Zenon DEF vars, ftdiVars, brokerVars
  <2>2. AgendaInv' /\ held' \in Nat /\ held' <= made
    BY <2>1, Zenon DEF FTDIInv, TypeInv, AgendaInv
  <2> QED BY <2>1, <2>2, QuietLemma, Zenon
<1> QED BY <1>1, <1>2, <1>3, <1>4, <1>5, Zenon DEF Next

\* Whatever the threads, the device and the configuration do, the pointers of a
\* transport fit the place that the thread replacing its connection has reached, as
\* long as no two threads replaced the connection of one transport at the same time.
THEOREM FTDIInvariant == Spec => []FTDIInv
BY FTDIInvInit, FTDIInvStep, PTL DEF Spec

\* closeResources calls no method on a nil pointer, unless two threads have been
\* replacing the connection of one transport at the same time.
THEOREM NoNilCalls == Spec => []NoNilCall
<1>1. FTDIInv => NoNilCall
  BY Zenon DEF FTDIInv, NoNilCall
<1> QED BY <1>1, FTDIInvariant, PTL

\* The interface, device and endpoints of a transport that nobody replaces belong to
\* one connection, or all handles are nil (with the same exception).
THEOREM PointersStayTogether == Spec => []PointersAgree
<1>1. FTDIInv => PointersAgree
  BY Zenon DEF FTDIInv, Sound, Agree, PointersAgree, T
<1> QED BY <1>1, FTDIInvariant, PTL

\* A step that is not one of a thread inside a call keeps the claim where it is.
LEMMA ClaimFrame ==
    ASSUME UNCHANGED <<ptr, claimed>>, ClaimOwned,
           \A q \in Threads : thread[q].pc # "idle" => thread'[q] = thread[q]
    PROVE  ClaimOwned'
<1>1. \A q \in Threads : thread[q].pc \in Replacing => thread'[q] = thread[q]
  BY Zenon DEF Replacing
<1> QED BY <1>1, Zenon DEF ClaimOwned

\* A step that is neither a failed configuration nor part of an overlap keeps an owner.
LEMMA ClaimStep ==
    ASSUME FTDIInv, Next, ClaimOwned, ~overlap, ~\E p \in Threads : ConfigureFails(p)
    PROVE  ClaimOwned'
<1>0. thread \in [Threads -> ThreadStates] /\ ptr \in [Transports -> Pointers]
  BY Zenon DEF FTDIInv, TypeInv
<1>1. CASE \E p \in Threads : Step(p)
  <2>1. PICK p \in Threads : Step(p)
    BY <1>1, Zenon
  <2>2. CASE Releases(p)
    BY <2>2, Zenon DEF Releases, Release, ClaimOwned
  <2>3. CASE \E s \in ThreadStates, r \in Pointers : Moves(p, s, r)
    <3>1. PICK s \in ThreadStates, r \in Pointers : Moves(p, s, r)
      BY <2>3, Zenon
    <3>2. KeepsClaim(p, s, r)
      BY <3>1, Zenon DEF Moves
    <3>3. /\ T(p) \in Transports
          /\ \A q \in Threads : thread'[q] = IF q = p THEN s ELSE thread[q]
          /\ \A t \in Transports : ptr'[t] = IF t = T(p) THEN r ELSE ptr[t]
      BY <1>0, <3>1, ThreadFacts, Zenon DEF Moves
    <3> SUFFICES ASSUME claimed'
                 PROVE  \/ \E t \in Transports : ptr'[t].intf = "live"
                        \/ \E q \in Threads : /\ thread'[q].pc \in Replacing
                                              /\ thread'[q].c = "live"
      BY Zenon DEF ClaimOwned
    <3>4. CASE ~claimed
      BY <3>2, <3>3, <3>4, Zenon DEF KeepsClaim
    <3>5. CASE \E t \in Transports : ptr[t].intf = "live"
      BY <3>2, <3>3, <3>5, Zenon DEF KeepsClaim
    <3>6. CASE \E q \in Threads : thread[q].pc \in Replacing /\ thread[q].c = "live"
      BY <3>2, <3>3, <3>6, Zenon DEF KeepsClaim
    <3> QED BY <3>4, <3>5, <3>6, Zenon DEF ClaimOwned
  <2> QED BY <2>1, <2>2, <2>3, ThreadStepKind, Zenon DEF Step, Kind
<1>2. CASE Unplug
  BY <1>2, Zenon DEF Unplug, Release, ClaimOwned
<1>3. CASE MainThread \/ (Environment /\ ~Unplug) \/ \E p \in Loops : NextRead(p)
  <2>1. UNCHANGED <<ptr, claimed>>
    BY <1>3, Zenon DEF MainThread, Environment, CloseProtocol, DeleteProtocol, setupFtdiTransport,
                onFtdiTransportIsEnabledChanged, RunConnect, RunDisconnect, OnBecameLeader,
                OnLosingLeadership, OnSchemaUpdated, Deinit, SetEnabled, onTxMessage, Plug,
                NextRead, ftdiVars, usb
  <2>2. \/ thread' = thread
        \/ \E p \in Threads : \E s : thread[p].pc = "idle" /\ thread' = [thread EXCEPT ![p] = s]
    <3>1. CASE CloseProtocol \/ setupFtdiTransport \/ onTxMessage
      <4>1. Main \in Threads
        BY Zenon DEF Threads
      <4> QED BY <3>1, <4>1, Zenon DEF CloseProtocol, setupFtdiTransport, onTxMessage, MainCalls,
                                Doing, Idle, Free, At
    <3>2. CASE RunConnect
      <4>1. CASE isLeader /\ loops < MaxLoops
        <5>1. /\ loops + 1 \in Loops /\ loops + 1 > loops
          BY <4>1, FTDIBounds DEF FTDIInv, TypeInv, Loops
        <5>2. thread[loops + 1].pc = "idle" /\ loops + 1 \in Threads
          BY <5>1, Zenon DEF FTDIInv, Known, Threads
        <5> QED BY <3>2, <4>1, <5>2, Zenon DEF RunConnect
      <4>2. CASE ~(isLeader /\ loops < MaxLoops)
        BY <3>2, <4>2, Zenon DEF RunConnect
      <4> QED BY <4>1, <4>2, Zenon
    <3>3. CASE \E p \in Loops : NextRead(p)
      BY <3>3, Zenon DEF NextRead, At, Threads
    <3>4. CASE \/ DeleteProtocol \/ onFtdiTransportIsEnabledChanged \/ RunDisconnect
               \/ OnBecameLeader \/ OnLosingLeadership \/ OnSchemaUpdated \/ Deinit
               \/ SetEnabled \/ Plug
      BY <3>4, Zenon DEF DeleteProtocol, onFtdiTransportIsEnabledChanged, RunDisconnect,
                  OnBecameLeader, OnLosingLeadership, OnSchemaUpdated, Deinit, SetEnabled,
                  Plug, ftdiVars
    <3> QED BY <1>3, <3>1, <3>2, <3>3, <3>4, Zenon DEF MainThread, Environment
  <2>3. \A q \in Threads : thread[q].pc # "idle" => thread'[q] = thread[q]
    BY <1>0, <2>2, Zenon
  <2> QED BY <2>1, <2>3, ClaimFrame, Zenon
<1> QED BY <1>1, <1>2, <1>3, Zenon DEF Next

\* A claim of the interface is given up for good only where connect fails to configure
\* the device, or by two threads replacing the connection at the same time.
THEOREM ClaimsAreKept == Spec => ClaimKept
<1>1. FTDIInv /\ [Next]_vars
      => [ClaimOwned /\ ~ClaimOwned' => overlap \/ \E p \in Threads : ConfigureFails(p)]_vars
  BY ClaimStep, Zenon
<1> QED BY <1>1, FTDIInvariant, PTL DEF Spec, ClaimKept
=============================================================================
