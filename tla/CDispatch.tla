------------------------------ MODULE CDispatch ------------------------------
(***************************************************************************)
(* The subscription table of the C library (src/lib/c/qdp.c) under the     *)
(* receiving side: qdp_process goes through the table by index for each    *)
(* message it reads, while the callbacks it calls, like the application    *)
(* between its calls, may subscribe and unsubscribe.                       *)
(*                                                                         *)
(* A message is its frame; entries of the table have a number of their own *)
(* so that equal subscriptions can be told apart.                          *)
(***************************************************************************)
EXTENDS CReceive, FiniteSets

CONSTANTS
    Patterns,               \* topic patterns
    Matching,               \* the pairs of pattern and frame qdp_topic_matches accepts
    QDP_MAX_SUBSCRIPTIONS,  \* 64
    MaxCalls                \* bound: calls of qdp_subscribe and qdp_unsubscribe

ASSUME TableAssumption ==
    /\ QDP_MAX_SUBSCRIPTIONS \in Nat \ {0} /\ MaxCalls \in Nat
    /\ Matching \subseteq Patterns \X Frames

VARIABLES
    subs,      \* qdp->subs, up to sub_count
    at,        \* the index of the loop over the table, from 1; 0 outside of it
    running,   \* a callback is running, that of subs[at] when it was called
    cut,       \* the pattern and index of the loop of qdp_unsubscribe; <<>> outside of it
    calls,     \* calls of qdp_subscribe and qdp_unsubscribe so far
    present,   \* history: the entries when the loop began
    called,    \* history: the entries whose callback this loop has called
    removed    \* history: entries removed in this loop at or before its index

tableVars == <<subs, at, running, cut, calls, present, called, removed>>
dispatchVars == <<vars, tableVars>>

DispatchInit ==
    /\ Init
    /\ subs = <<>> /\ at = 0 /\ running = FALSE /\ cut = <<>> /\ calls = 0
    /\ present = {} /\ called = <<>> /\ removed = 0

-----------------------------------------------------------------------------
(***************************************************************************)
(* Calls of the application, before qdp_process or in a callback.          *)
(***************************************************************************)
MayCall == (running \/ (at = 0 /\ pc = "loop")) /\ cut = <<>> /\ calls < MaxCalls

Entry(p) == [id |-> calls, topic |-> p]

\* The table after qdp_subscribe, which returns false if there is no room.
Subscribed(p) ==
    IF Len(subs) >= QDP_MAX_SUBSCRIPTIONS THEN subs ELSE Append(subs, Entry(p))

qdp_subscribe(p) ==
    /\ MayCall
    /\ subs' = Subscribed(p) /\ calls' = calls + 1
    /\ UNCHANGED <<vars, at, running, cut, present, called, removed>>

qdp_unsubscribe(p) ==
    /\ MayCall
    /\ cut' = <<p, 1>> /\ calls' = calls + 1
    /\ UNCHANGED <<vars, subs, at, running, present, called, removed>>

\* One round of its loop.  An entry with this pattern is removed and those after it
\* move up; the index is then looked at again.
Unsubscribing ==
    /\ cut # <<>>
    /\ LET p == cut[1]  i == cut[2] IN
       \/ /\ i \in DOMAIN subs /\ subs[i].topic = p
          /\ subs' = SubSeq(subs, 1, i - 1) \o SubSeq(subs, i + 1, Len(subs))
          /\ removed' = IF i <= at THEN removed + 1 ELSE removed
          /\ UNCHANGED cut
       \/ /\ i \in DOMAIN subs /\ subs[i].topic # p
          /\ cut' = <<p, i + 1>>
          /\ UNCHANGED <<subs, removed>>
       \/ /\ i > Len(subs)
          /\ cut' = <<>>
          /\ UNCHANGED <<subs, removed>>
    /\ UNCHANGED <<vars, at, running, calls, present, called>>

-----------------------------------------------------------------------------
(***************************************************************************)
(* The loop of qdp_process over the table, for the message just read.      *)
(***************************************************************************)
Ids(s) == {s[i].id : i \in DOMAIN s}

BeginLoop(f) ==
    /\ at = 0 /\ Dispatch(f)
    /\ at' = 1 /\ present' = Ids(subs) /\ called' = <<>> /\ removed' = 0
    /\ UNCHANGED <<subs, running, cut, calls>>

Current == batch[Len(batch)]

Matches(s) == <<s.topic, Current>> \in Matching

\* subs[at] is looked at, and its callback called if the topic matches.
NextEntry ==
    /\ at \in DOMAIN subs /\ ~running
    /\ IF Matches(subs[at])
       THEN running' = TRUE /\ called' = Append(called, subs[at].id) /\ UNCHANGED at
       ELSE at' = at + 1 /\ UNCHANGED <<running, called>>
    /\ UNCHANGED <<vars, subs, cut, calls, present, removed>>

\* mutant: only the first match is served
CallbackReturnsAndStops ==
    /\ running /\ cut = <<>>
    /\ running' = FALSE /\ at' = QDP_MAX_SUBSCRIPTIONS + 1
    /\ UNCHANGED <<vars, subs, cut, calls, present, called, removed>>

CallbackReturns ==
    /\ running /\ cut = <<>>
    /\ running' = FALSE /\ at' = at + 1
    /\ UNCHANGED <<vars, subs, cut, calls, present, called, removed>>

LoopOver == at > Len(subs) /\ ~running

\* qdp_message_clear, and on to the next message.
EndLoop ==
    /\ at > 0 /\ LoopOver
    /\ at' = 0 /\ present' = {} /\ called' = <<>> /\ removed' = 0
    /\ UNCHANGED <<vars, subs, running, cut, calls>>

\* The consumer's only thread: receiving, the loop when it is in a message, and the
\* calls of qdp_unsubscribe when they are made.
Process ==
    \/ at = 0 /\ cut = <<>> /\ Receiving /\ UNCHANGED tableVars
    \/ \E f \in Frames : BeginLoop(f)
    \/ NextEntry \/ CallbackReturns \/ EndLoop
    \/ Unsubscribing

DispatchNext ==
    \/ (Arrive \/ PeerCloses) /\ UNCHANGED tableVars
    \/ \E p \in Patterns : qdp_subscribe(p) \/ qdp_unsubscribe(p)
    \/ Process

DispatchSpec == DispatchInit /\ [][DispatchNext]_dispatchVars

\* The consumer calls qdp_process for ever, once a millisecond, and callbacks return.
FairDispatchSpec == DispatchSpec /\ WF_dispatchVars(Process)

-----------------------------------------------------------------------------
(***************************************************************************)
(* Properties.                                                             *)
(***************************************************************************)
\* The matching entries that were there when the loop began, still are, and were not
\* called.
PassedOver ==
    {i \in DOMAIN subs : subs[i].id \in present /\ Matches(subs[i])
                         /\ \A k \in DOMAIN called : called[k] # subs[i].id}

\* Although entries move in the table while callbacks run, no entry is called twice for
\* one message, and a message reaches every matching entry that stays in the table,
\* except that for each entry a callback removes at or before the index of the loop
\* one may be passed over.
PassesOverOnlyForRemoved ==
    /\ \A i, j \in DOMAIN called : called[i] = called[j] => i = j
    /\ at > 0 /\ LoopOver => Cardinality(PassedOver) <= removed
=============================================================================
