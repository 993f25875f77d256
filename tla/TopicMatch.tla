----------------------------- MODULE TopicMatch -----------------------------
(***************************************************************************)
(* Topic patterns, as the two libraries match them: matchTopic in          *)
(* src/lib/go/qdp.go splits pattern and topic into levels, and             *)
(* qdp_topic_matches in src/lib/c/qdp.c walks both strings by characters.  *)
(* A string is a sequence of one-character strings.  The behaviours spell  *)
(* every pattern and topic up to the bounds.                               *)
(***************************************************************************)
EXTENDS Integers, Sequences, FiniteSets

CONSTANTS
    Letters,        \* the characters of topics that are not separators
    PatternLetters, \* those that occur in patterns too
    MaxPattern,     \* bound: length of a pattern
    MaxTopic        \* bound: length of a topic

VARIABLES pattern, topic

vars == <<pattern, topic>>

Sep == "/"
Single == "+"
Multi == "#"

Init == pattern = <<>> /\ topic = <<>>

ExtendPattern ==
    /\ Len(pattern) < MaxPattern
    /\ \E ch \in PatternLetters \cup {Sep, Single, Multi} : pattern' = Append(pattern, ch)
    /\ UNCHANGED topic

ExtendTopic ==
    /\ Len(topic) < MaxTopic
    /\ \E ch \in Letters \cup {Sep} : topic' = Append(topic, ch)
    /\ UNCHANGED pattern

Next == ExtendPattern \/ ExtendTopic

Spec == Init /\ [][Next]_vars

-----------------------------------------------------------------------------
\* strings.Split(s, "/"): the levels lie between two cuts.
Cuts(s) == {0, Len(s) + 1} \cup {i \in DOMAIN s : s[i] = Sep}

CutsBefore(s, c) == Cardinality({d \in Cuts(s) : d < c})

Cut(s, k) == CHOOSE c \in Cuts(s) : CutsBefore(s, c) = k - 1

Split(s) ==
    [k \in 1 .. Cardinality(Cuts(s)) - 1 |-> SubSeq(s, Cut(s, k) + 1, Cut(s, k + 1) - 1)]

LevelMatches(level, name) == level = <<Single>> \/ level = name

\* matchTopic of the Go library.
\* mutant: the final length test is left out
matchTopicPrefix(p, t) ==
    LET pp == Split(p)  tp == Split(t)  n == Len(pp) IN
    \/ p = <<Multi>>
    \/ \E i \in 1 .. n : i <= Len(tp) /\ pp[i] = <<Multi>>
         /\ \A j \in 1 .. i - 1 : pp[j] # <<Multi>> /\ LevelMatches(pp[j], tp[j])
    \/ n <= Len(tp) /\ \A j \in 1 .. n : pp[j] # <<Multi>> /\ LevelMatches(pp[j], tp[j])

matchTopic(p, t) ==
    LET pp == Split(p)  tp == Split(t)  n == Len(pp)
        \* the loop passes level j
        Passes(j) == j <= Len(tp) /\ pp[j] # <<Multi>> /\ LevelMatches(pp[j], tp[j]) IN
    \/ p = <<Multi>>
    \/ /\ n <= Len(tp) \/ pp[n] = <<Multi>>
       /\ \/ \E i \in 1 .. n : i <= Len(tp) /\ pp[i] = <<Multi>> /\ \A j \in 1 .. i - 1 : Passes(j)
          \/ (\A j \in 1 .. n : Passes(j)) /\ Len(tp) = n

\* qdp_topic_matches of the C library.  One round of its loop, with the pointers at
\* characters at[1] of the pattern and at[2] of the topic; one past the end is the
\* terminating NUL.  Where the loop returns or ends, the pointers stay.
Round(p, t, at) ==
    LET i == at[1]  j == at[2]
        seps == {k \in j .. Len(t) : t[k] = Sep}
        next_sep == CHOOSE k \in seps : \A l \in seps : k <= l
        skip == IF i < Len(p) /\ p[i + 1] = Sep THEN 2 ELSE 1
    IN IF i > Len(p) \/ j > Len(t) THEN at
       ELSE IF p[i] = Single /\ seps # {} THEN <<i + skip, next_sep + 1>>
       ELSE IF p[i] \notin {Single, Multi} /\ p[i] = t[j] THEN <<i + 1, j + 1>>
       ELSE at

multiWildcardEarly(p, i) == i = Len(p) - 1 \* mutant: off by one

multiWildcard(p, i) == i = Len(p)

\* The result, with the pointers where the loop is left.
Returned(p, t, at) ==
    LET i == at[1]  j == at[2] IN
    IF i > Len(p) \/ j > Len(t)
    THEN (i > Len(p) /\ j > Len(t)) \/ (i = Len(p) /\ p[i] = Multi)
    ELSE \/ p[i] = Multi /\ multiWildcard(p, i)
         \/ p[i] = Single /\ i = Len(p)

\* A round that does not stay advances in the pattern: the loop is over after Len(p).
qdp_topic_matches(p, t) ==
    LET at[n \in 0 .. Len(p)] == IF n = 0 THEN <<1, 1>> ELSE Round(p, t, at[n - 1])
    IN Returned(p, t, at[Len(p)])

-----------------------------------------------------------------------------
\* A wildcard is a whole level, and "#" is the last one.
WellFormed(p) ==
    LET pp == Split(p) IN
    \A k \in DOMAIN pp : \A i \in DOMAIN pp[k] :
      /\ pp[k][i] = Single => Len(pp[k]) = 1
      /\ pp[k][i] = Multi => Len(pp[k]) = 1 /\ k = Len(pp)

\* The reference: level by level, with a final "#" for one or more further levels.
Reference(p, t) ==
    LET pp == Split(p)  tp == Split(t)
        fixed == IF pp[Len(pp)] = <<Multi>> THEN Len(pp) - 1 ELSE Len(pp) IN
    /\ IF fixed = Len(pp) THEN Len(tp) = fixed ELSE Len(tp) > fixed
    /\ \A k \in 1 .. fixed : LevelMatches(pp[k], tp[k])

\* The early length test, the loop and the final length test of the Go matcher
\* together decide exactly the reference, for every well-formed pattern.
GoMatchesReference ==
    WellFormed(pattern) => (matchTopic(pattern, topic) <=> Reference(pattern, topic))

\* A client with the C library and one with the Go library that subscribe to the same
\* well-formed pattern get the same messages, for topics without empty levels.
LibrariesAgree ==
    WellFormed(pattern) /\ (\A k \in DOMAIN Split(topic) : Split(topic)[k] # <<>>)
      => (matchTopic(pattern, topic) <=> qdp_topic_matches(pattern, topic))
=============================================================================
