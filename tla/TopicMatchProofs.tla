-------------------------- MODULE TopicMatchProofs --------------------------
(***************************************************************************)
(* Proofs about TopicMatch, for any letters and for patterns and topics of *)
(* any length: the matchers of the two libraries decide the same relation. *)
(***************************************************************************)
EXTENDS TopicMatch, FiniteSetTheorems, WellFoundedInduction, TLAPS

\* Induction over the naturals, for a set.
LEMMA Ascent ==
    ASSUME NEW S, 0 \in S, \A n \in Nat : n \in S => n + 1 \in S
    PROVE  \A n \in Nat : n \in S
<1> DEFINE T == {n \in Nat : n \notin S}
           R == OpToRel(<, Nat)
<1> SUFFICES ASSUME T # {} PROVE FALSE
    BY Zenon
<1>1. IsWellFoundedOn(R, Nat)
    BY NatLessThanWellFounded, Zenon
<1>2. PICK x \in T : \A y \in T : ~(<<y, x>> \in R)
  <2> HIDE DEF R
  <2>1. T \subseteq Nat
      BY Zenon
  <2> HIDE DEF T
  <2> QED BY <1>1, <2>1, WFMin, Zenon
<1>3. \A y \in T : ~(y < x)
    BY <1>2, Zenon DEF OpToRel
<1>4. x \in Nat /\ x # 0 /\ x - 1 \in Nat /\ x - 1 < x /\ x = (x - 1) + 1
    OBVIOUS
<1>5. x - 1 \in S
    BY <1>3, <1>4, Zenon
<1> QED BY <1>4, <1>5, Zenon

\* A loop of N rounds whose body is step: its values, round by round.
Closed(N, S, step) == \A n \in 1 .. N, x \in S : step[n][x] \in S

Rounds(N, S, base, step, f) ==
    /\ f \in [0 .. N -> S]
    /\ f[0] = base /\ \A n \in 1 .. N : f[n] = step[n][f[n - 1]]

\* Such a loop has its values, if its body stays within S.
LEMMA Iteration ==
    ASSUME NEW N \in Nat, NEW S, NEW base \in S, NEW step, Closed(N, S, step)
    PROVE  \E f : Rounds(N, S, base, step, f)
<1>0. \A n \in 1 .. N, x \in S : step[n][x] \in S
    BY Zenon DEF Closed
<1> DEFINE Done(f, m) == f[0] = base /\ \A n \in 1 .. m : f[n] = step[n][f[n - 1]]
           I == {m \in Nat : m <= N => \E f \in [0 .. m -> S] : Done(f, m)}
<1>1. 0 \in I
  <2> DEFINE f == [n \in 0 .. 0 |-> base]
  <2>1. f \in [0 .. 0 -> S] /\ Done(f, 0)
      OBVIOUS
  <2> QED BY <2>1, Zenon
<1>2. ASSUME NEW m \in Nat, m \in I PROVE m + 1 \in I
  <2> HIDE DEF Done
  <2> SUFFICES ASSUME m + 1 <= N PROVE \E g \in [0 .. m + 1 -> S] : Done(g, m + 1)
      OBVIOUS
  <2> USE DEF Done
  <2>1. PICK f \in [0 .. m -> S] : Done(f, m)
      BY <1>2
  <2> DEFINE g == [n \in 0 .. m + 1 |-> IF n = m + 1 THEN step[m + 1][f[m]] ELSE f[n]]
  <2>2. g \in [0 .. m + 1 -> S]
      BY <1>0
  <2>3. Done(g, m + 1)
    <3>1. g[0] = base
        BY <2>1
    <3>2. ASSUME NEW n \in 1 .. m + 1 PROVE g[n] = step[n][g[n - 1]]
      <4>1. n - 1 \in 0 .. m /\ g[n - 1] = f[n - 1]
          OBVIOUS
      <4>2. CASE n = m + 1
          BY <4>1, <4>2
      <4>3. CASE n # m + 1
        <5>1. n \in 1 .. m /\ g[n] = f[n]
            BY <4>3
        <5> QED BY <5>1, <4>1, <2>1, Zenon
      <4> QED BY <4>2, <4>3, Zenon
    <3> QED BY <3>1, <3>2, Zenon
  <2> QED BY <2>2, <2>3, Zenon
<1> HIDE DEF I
<1>3. N \in I
    BY <1>1, <1>2, Ascent, Zenon
<1> QED BY <1>3 DEF I, Rounds

\* The elements of a finite set of numbers, counted from the lowest.
LEMMA Ranks ==
    ASSUME NEW A \in SUBSET Int, IsFiniteSet(A)
    PROVE  LET rank(c) == Cardinality({d \in A : d < c}) IN
           /\ \A c \in A : rank(c) \in 0 .. Cardinality(A) - 1
           /\ \A c, d \in A : c < d => rank(c) < rank(d)
           /\ \A k \in 1 .. Cardinality(A) : \E c \in A : rank(c) = k - 1
<1> DEFINE below(c) == {d \in A : d < c}
           rank(c) == Cardinality(below(c))
<1>1. Cardinality(A) \in Nat
    BY FS_CardinalityType, Zenon
<1>2. ASSUME NEW c \in A
      PROVE  IsFiniteSet(below(c)) /\ rank(c) \in 0 .. Cardinality(A) - 1
  <2>1. below(c) \in SUBSET A /\ below(c) # A
      OBVIOUS
  <2> HIDE DEF below
  <2>2. IsFiniteSet(below(c)) /\ Cardinality(below(c)) <= Cardinality(A)
        /\ Cardinality(below(c)) # Cardinality(A)
      BY <2>1, FS_Subset, Zenon
  <2>3. Cardinality(below(c)) \in Nat
      BY <2>2, FS_CardinalityType, Zenon
  <2> QED BY <1>1, <2>2, <2>3
<1>3. ASSUME NEW c \in A, NEW d \in A, c < d PROVE rank(c) < rank(d)
  <2>0. c \in Int /\ d \in Int /\ ~(c < c) /\ \A e \in A : e \in Int /\ (e < c => e < d)
      BY <1>3
  <2>1. below(c) \in SUBSET below(d) /\ c \in below(d) /\ c \notin below(c)
      BY <2>0, <1>3, Zenon
  <2> HIDE DEF below
  <2>2. IsFiniteSet(below(d)) /\ rank(c) \in Nat /\ rank(d) \in Nat
      BY <1>1, <1>2
  <2>3. Cardinality(below(c)) <= Cardinality(below(d))
        /\ (Cardinality(below(d)) = Cardinality(below(c)) => below(d) = below(c))
      BY <2>1, <2>2, FS_Subset, Zenon
  <2> QED BY <2>1, <2>2, <2>3
<1>4. ASSUME NEW k \in 1 .. Cardinality(A) PROVE \E c \in A : rank(c) = k - 1
  <2> DEFINE T == 0 .. Cardinality(A) - 1
             f == [c \in A |-> rank(c)]
  <2> HIDE DEF below
  <2>0. 0 \in Int /\ Cardinality(A) - 1 \in Int /\ ~(0 > Cardinality(A) - 1)
        /\ (Cardinality(A) - 1) - 0 + 1 = Cardinality(A)
      BY <1>1
  <2>1. IsFiniteSet(T) /\ Cardinality(T) = Cardinality(A)
      BY ONLY <2>0, FS_Interval, Zenon
  <2>2. f \in [A -> T]
      BY <1>2, Zenon
  <2>3. \A c, d \in A : f[c] = f[d] => c = d
    <3> SUFFICES ASSUME NEW c \in A, NEW d \in A, f[c] = f[d], c # d PROVE FALSE
        BY Zenon
    <3>1. c < d \/ d < c
        OBVIOUS
    <3>2. rank(c) = rank(d) /\ rank(c) \in Int /\ rank(d) \in Int
        BY <1>1, <1>2
    <3> QED BY <3>1, <3>2, <1>3
  <2> HIDE DEF f
  <2>4. f \in Injection(A, T)
      BY <2>2, <2>3, Zenon DEF Injection, IsInjective
  <2> HIDE DEF T
  <2>5. f \in Surjection(A, T)
      BY <2>1, <2>4, FS_Injection, Zenon
  <2>6. k - 1 \in T
      BY <1>1 DEF T
  <2>7. \E c \in A : f[c] = k - 1
      BY <2>5, <2>6, Zenon DEF Surjection
  <2> QED BY <2>7, Zenon DEF f
<1> QED BY <1>2, <1>3, <1>4, Zenon

\* The cuts in ascending order: the first is 0, the last one past the end.
LEMMA Cutting ==
    ASSUME NEW C, NEW s \in Seq(C)
    PROVE  /\ Cuts(s) \subseteq 0 .. Len(s) + 1
           /\ Cardinality(Cuts(s)) \in Nat /\ Cardinality(Cuts(s)) >= 2
           /\ \A c, d \in Cuts(s) : c < d => CutsBefore(s, c) < CutsBefore(s, d)
           /\ \A c \in Cuts(s) : CutsBefore(s, c) \in 0 .. Cardinality(Cuts(s)) - 1
           /\ \A k \in 1 .. Cardinality(Cuts(s)) :
                Cut(s, k) \in Cuts(s) /\ CutsBefore(s, Cut(s, k)) = k - 1
<1>1. Len(s) \in Nat /\ DOMAIN s = 1 .. Len(s)
    OBVIOUS
<1>2. Cuts(s) \subseteq 0 .. Len(s) + 1 /\ {0, Len(s) + 1} \subseteq Cuts(s)
    BY <1>1 DEF Cuts
<1>3. IsFiniteSet(0 .. Len(s) + 1)
    BY <1>1, FS_Interval
<1>4. IsFiniteSet(Cuts(s)) /\ Cardinality(Cuts(s)) \in Nat /\ Cuts(s) \in SUBSET Int
  <2>1. IsFiniteSet(Cuts(s))
      BY <1>2, <1>3, FS_Subset, Zenon
  <2>2. Cuts(s) \in SUBSET Int
      BY <1>1, <1>2
  <2> QED BY <2>1, <2>2, FS_CardinalityType, Zenon
<1>5. Cardinality(Cuts(s)) >= 2
  <2>1. Cardinality({0}) = 1 /\ IsFiniteSet({0})
      BY FS_Singleton, Zenon
  <2>2. Cardinality({0} \cup {Len(s) + 1}) = 2 /\ IsFiniteSet({0} \cup {Len(s) + 1})
    <3>1. Len(s) + 1 \notin {0}
        BY <1>1
    <3>2. /\ IsFiniteSet({0} \cup {Len(s) + 1})
          /\ Cardinality({0} \cup {Len(s) + 1}) =
               IF Len(s) + 1 \in {0} THEN Cardinality({0}) ELSE Cardinality({0}) + 1
        BY ONLY <2>1, FS_AddElement, Zenon
    <3>3. Cardinality({0} \cup {Len(s) + 1}) = Cardinality({0}) + 1
        BY ONLY <3>1, <3>2, Zenon
    <3>4. PICK x, y : x = Cardinality({0}) /\ y = Cardinality({0} \cup {Len(s) + 1})
        BY Zenon
    <3>5. y = x + 1 /\ x = 1
        BY ONLY <2>1, <3>3, <3>4, Zenon
    <3>6. y = 2
        BY ONLY <3>5
    <3> QED BY ONLY <3>2, <3>4, <3>6, Zenon
  <2>3. {0} \cup {Len(s) + 1} \in SUBSET Cuts(s)
      BY <1>2, Zenon
  <2>4. Cardinality({0} \cup {Len(s) + 1}) <= Cardinality(Cuts(s))
      BY <1>4, <2>3, FS_Subset, Zenon
  <2> QED BY <1>4, <2>2, <2>4, Zenon
<1>6. /\ \A c \in Cuts(s) : CutsBefore(s, c) \in 0 .. Cardinality(Cuts(s)) - 1
      /\ \A c, d \in Cuts(s) : c < d => CutsBefore(s, c) < CutsBefore(s, d)
      /\ \A k \in 1 .. Cardinality(Cuts(s)) : \E c \in Cuts(s) : CutsBefore(s, c) = k - 1
    BY <1>4, Ranks, Zenon DEF CutsBefore
<1>7. \A k \in 1 .. Cardinality(Cuts(s)) :
        Cut(s, k) \in Cuts(s) /\ CutsBefore(s, Cut(s, k)) = k - 1
    BY <1>6, Zenon DEF Cut
<1> QED BY <1>2, <1>4, <1>5, <1>6, <1>7, Zenon

\* pp are the levels of s, each between two successive cuts.
Sliced(C, s, pp, cut) ==
    /\ Len(pp) \in Nat \ {0} /\ DOMAIN pp = 1 .. Len(pp)
    /\ cut \in [1 .. Len(pp) + 1 -> 0 .. Len(s) + 1]
    /\ cut[1] = 0 /\ cut[Len(pp) + 1] = Len(s) + 1
    /\ \A k \in 1 .. Len(pp) : cut[k] < cut[k + 1]
    /\ \A k \in 2 .. Len(pp) : s[cut[k]] = Sep
    /\ \A k \in 1 .. Len(pp) : \A l \in cut[k] + 1 .. cut[k + 1] - 1 : s[l] # Sep
    /\ \A k \in 1 .. Len(pp) :
         /\ pp[k] \in Seq(C) /\ Len(pp[k]) = cut[k + 1] - cut[k] - 1
         /\ \A o \in 1 .. Len(pp[k]) : pp[k][o] = s[cut[k] + o]

\* What SubSeq takes, and from where.
LEMMA SubSeqFacts ==
    ASSUME NEW C, NEW s \in Seq(C), NEW a \in 1 .. Len(s) + 1, NEW b \in 0 .. Len(s), a <= b + 1
    PROVE  /\ SubSeq(s, a, b) \in Seq(C) /\ Len(SubSeq(s, a, b)) = b - a + 1
           /\ \A o \in 1 .. Len(SubSeq(s, a, b)) : SubSeq(s, a, b)[o] = s[a + o - 1]
OBVIOUS

\* The places between two neighbouring cuts.
LEMMA BetweenCuts ==
    ASSUME NEW L \in Nat, NEW x \in 0 .. L + 1, NEW y \in 0 .. L + 1, x < y
    PROVE  /\ x + 1 \in 1 .. L + 1 /\ y - 1 \in 0 .. L /\ x + 1 <= (y - 1) + 1
           /\ (y - 1) - (x + 1) + 1 = y - x - 1
           /\ \A o \in Nat : (x + 1) + o - 1 = x + o
           /\ y - x - 1 # 0 => x + 1 \in 1 .. L
OBVIOUS

\* Split returns what lies between neighbouring cuts.
LEMMA SplitSlices ==
    ASSUME NEW C, NEW s \in Seq(C)
    PROVE  \E cut : Sliced(C, s, Split(s), cut)
<1> DEFINE n == Cardinality(Cuts(s))
           m == n - 1
           cut == [k \in 1 .. n |-> Cut(s, k)]
           pp == Split(s)
<1>1. Len(s) \in Nat /\ DOMAIN s = 1 .. Len(s)
    OBVIOUS
<1>2. n \in Nat /\ n >= 2 /\ m \in Nat \ {0} /\ n = m + 1
    BY Cutting
<1>3. Len(pp) = m /\ DOMAIN pp = 1 .. m
  <2>1. DOMAIN pp = 1 .. m
      BY Zenon DEF Split
  <2>2. pp = [k \in 1 .. m |-> pp[k]]
      BY Zenon DEF Split
  <2> HIDE DEF pp
  <2>3. Len(pp) = m
      BY <1>2, <2>2
  <2> QED BY <2>1, <2>3, Zenon
<1>4. \A c \in Cuts(s) : c \in 0 .. Len(s) + 1
    BY Cutting, Zenon
<1>5. \A k \in 1 .. n : cut[k] \in Cuts(s) /\ cut[k] \in 0 .. Len(s) + 1
                          /\ CutsBefore(s, cut[k]) = k - 1
    BY <1>4, Cutting, Zenon
<1>6. \A c, d \in Cuts(s) : c < d => CutsBefore(s, c) < CutsBefore(s, d)
    BY Cutting, Zenon
<1>7. \A c \in Cuts(s) : CutsBefore(s, c) \in 0 .. n - 1
    BY Cutting, Zenon
<1>8. 0 \in Cuts(s) /\ Len(s) + 1 \in Cuts(s)
    BY Zenon DEF Cuts
<1>9. \A c \in Cuts(s) : c # 0 /\ c # Len(s) + 1 => c \in 1 .. Len(s) /\ s[c] = Sep
    BY <1>1, Zenon DEF Cuts
<1>10. \A l \in 1 .. Len(s) : s[l] = Sep => l \in Cuts(s)
    BY <1>1, Zenon DEF Cuts
<1>11. ASSUME NEW k \in 1 .. m PROVE Split(s)[k] = SubSeq(s, cut[k] + 1, cut[k + 1] - 1)
  <2>1. k \in 1 .. n /\ k + 1 \in 1 .. n
      BY <1>2
  <2>2. cut[k] = Cut(s, k) /\ cut[k + 1] = Cut(s, k + 1)
      BY <2>1, Zenon
  <2>3. Split(s)[k] = SubSeq(s, Cut(s, k) + 1, Cut(s, k + 1) - 1)
      BY Zenon DEF Split
  <2> QED BY <2>2, <2>3, Zenon
<1>12. DOMAIN cut = 1 .. m + 1 /\ cut \in [1 .. m + 1 -> 0 .. Len(s) + 1]
    BY <1>2, <1>5, Zenon
<1> HIDE DEF cut, n, m
<1>13. \A k \in 1 .. m : cut[k] < cut[k + 1]
  <2> SUFFICES ASSUME NEW k \in 1 .. m, ~(cut[k] < cut[k + 1]) PROVE FALSE
      BY Zenon
  <2>1. /\ k \in 1 .. n /\ k + 1 \in 1 .. n
        /\ CutsBefore(s, cut[k]) = k - 1 /\ CutsBefore(s, cut[k + 1]) = k
        /\ cut[k] \in Cuts(s) /\ cut[k + 1] \in Cuts(s)
        /\ cut[k] \in Int /\ cut[k + 1] \in Int
      BY <1>2, <1>5
  <2>2. cut[k] = cut[k + 1] \/ cut[k + 1] < cut[k]
      BY <2>1
  <2> QED BY <2>1, <2>2, <1>6
<1>14. cut[1] = 0
  <2>1. 1 \in 1 .. n /\ cut[1] \in Cuts(s) /\ CutsBefore(s, cut[1]) = 0
        /\ cut[1] \in 0 .. Len(s) + 1
      BY <1>2, <1>5
  <2>2. ~(0 < cut[1])
      BY <2>1, <1>2, <1>6, <1>7, <1>8
  <2> QED BY <1>1, <2>1, <2>2
<1>15. cut[m + 1] = Len(s) + 1
  <2>1. m + 1 \in 1 .. n /\ cut[m + 1] \in Cuts(s) /\ CutsBefore(s, cut[m + 1]) = n - 1
        /\ cut[m + 1] \in 0 .. Len(s) + 1
      BY <1>2, <1>5
  <2>2. ~(cut[m + 1] < Len(s) + 1)
    <3>1. CutsBefore(s, Len(s) + 1) \in 0 .. n - 1
        BY <1>7, <1>8, Zenon
    <3> QED BY <2>1, <3>1, <1>2, <1>6, <1>8
  <2> QED BY <1>1, <2>1, <2>2
<1>16. \A k \in 2 .. m : s[cut[k]] = Sep
  <2> TAKE k \in 2 .. m
  <2>1. /\ k \in 1 .. n /\ cut[k] \in Cuts(s) /\ CutsBefore(s, cut[k]) = k - 1
        /\ 1 \in 1 .. n /\ CutsBefore(s, cut[1]) = 0
        /\ m + 1 \in 1 .. n /\ CutsBefore(s, cut[m + 1]) = m
      BY <1>2, <1>5
  <2>2. cut[k] # 0 /\ cut[k] # Len(s) + 1
      BY <1>2, <1>14, <1>15, <2>1
  <2> QED BY <1>9, <2>1, <2>2, Zenon
<1>17. ASSUME NEW k \in 1 .. m, NEW l \in cut[k] + 1 .. cut[k + 1] - 1 PROVE s[l] # Sep
  <2>1. /\ k \in 1 .. n /\ k + 1 \in 1 .. n
        /\ CutsBefore(s, cut[k]) = k - 1 /\ CutsBefore(s, cut[k + 1]) = k
        /\ cut[k] \in Cuts(s) /\ cut[k + 1] \in Cuts(s)
        /\ cut[k] \in 0 .. Len(s) + 1 /\ cut[k + 1] \in 0 .. Len(s) + 1
      BY <1>2, <1>5
  <2>2. l \in 1 .. Len(s) /\ cut[k] < l /\ l < cut[k + 1]
      BY <1>1, <2>1, SMTT(30)
  <2>3. SUFFICES ASSUME l \in Cuts(s) PROVE FALSE
      BY <1>10, <2>2, Zenon
  <2>4. CutsBefore(s, l) \in Int /\ k - 1 < CutsBefore(s, l) /\ CutsBefore(s, l) < k
      BY <1>6, <1>7, <2>1, <2>2, <2>3
  <2> QED BY <2>4
<1>18. ASSUME NEW k \in 1 .. m
       PROVE  /\ pp[k] \in Seq(C) /\ Len(pp[k]) = cut[k + 1] - cut[k] - 1
              /\ \A o \in 1 .. Len(pp[k]) : pp[k][o] = s[cut[k] + o]
  <2> DEFINE a == cut[k] + 1
             b == cut[k + 1] - 1
  <2>1. k \in 1 .. m + 1 /\ k + 1 \in 1 .. m + 1
      BY <1>2
  <2>2. cut[k] \in 0 .. Len(s) + 1 /\ cut[k + 1] \in 0 .. Len(s) + 1 /\ cut[k] < cut[k + 1]
      BY <1>12, <1>13, <2>1, Zenon
  <2>3. /\ a \in 1 .. Len(s) + 1 /\ b \in 0 .. Len(s) /\ a <= b + 1
        /\ b - a + 1 = cut[k + 1] - cut[k] - 1
        /\ \A o \in Nat : a + o - 1 = cut[k] + o
    <3>1. PICK x, y : x = cut[k] /\ y = cut[k + 1]
        BY Zenon
    <3>2. x \in 0 .. Len(s) + 1 /\ y \in 0 .. Len(s) + 1 /\ x < y
        BY ONLY <2>2, <3>1, Zenon
    <3>3. a = x + 1 /\ b = y - 1
        BY ONLY <3>1, Zenon
    <3> QED BY ONLY <1>1, <3>1, <3>2, <3>3, BetweenCuts, Zenon
  <2>4. pp[k] = SubSeq(s, a, b)
      BY <1>11, Zenon
  <2> HIDE DEF a, b, pp
  <2>5. /\ pp[k] \in Seq(C) /\ Len(pp[k]) = b - a + 1
        /\ \A o \in 1 .. Len(pp[k]) : pp[k][o] = s[a + o - 1]
    <3>1. a \in 1 .. Len(s) + 1 /\ b \in 0 .. Len(s) /\ a <= b + 1
        BY <2>3, Zenon
    <3>2. /\ SubSeq(s, a, b) \in Seq(C) /\ Len(SubSeq(s, a, b)) = b - a + 1
          /\ \A o \in 1 .. Len(SubSeq(s, a, b)) : SubSeq(s, a, b)[o] = s[a + o - 1]
        BY ONLY <3>1, SubSeqFacts, s \in Seq(C), Zenon
    <3> QED BY ONLY <3>2, <2>4, Zenon
  <2>6. Len(pp[k]) = cut[k + 1] - cut[k] - 1
      BY <2>3, <2>5, Zenon
  <2>7. ASSUME NEW o \in 1 .. Len(pp[k]) PROVE pp[k][o] = s[cut[k] + o]
      BY <2>3, <2>5, o \in Nat, Zenon
  <2> QED BY <2>5, <2>6, <2>7, Zenon
<1> HIDE DEF pp
<1> HIDE DEF m, cut
<1>19. Sliced(C, s, pp, cut)
    BY ONLY <1>2, <1>3, <1>12, <1>13, <1>14, <1>15, <1>16, <1>17, <1>18, SMTT(20) DEF Sliced
<1> QED BY <1>19, Zenon DEF pp

\* Sequences of the same length that agree everywhere are equal.
LEMMA SameSeq ==
    ASSUME NEW C, NEW a \in Seq(C), NEW b \in Seq(C), Len(a) = Len(b),
           \A o \in 1 .. Len(a) : a[o] = b[o]
    PROVE  a = b
OBVIOUS

\* In a well-formed pattern # is the last level.
LEMMA HashIsLast ==
    ASSUME NEW C, NEW p \in Seq(C), WellFormed(p), NEW cut, Sliced(C, p, Split(p), cut),
           NEW k \in 1 .. Len(Split(p)), Split(p)[k] = <<Multi>>
    PROVE  k = Len(Split(p))
<1> DEFINE pp == Split(p)
<1>1. k \in DOMAIN pp
    BY Zenon DEF Sliced
<1>2. 1 \in DOMAIN pp[k] /\ pp[k][1] = Multi
    OBVIOUS
<1> QED BY <1>1, <1>2, Zenon DEF WellFormed

\* The pattern # has one level.
LEMMA HashAlone ==
    ASSUME NEW C, NEW p \in Seq(C), p = <<Multi>>, NEW pp, NEW cut, Sliced(C, p, pp, cut)
    PROVE  Len(pp) = 1 /\ pp[1] = <<Multi>>
<1>1. Len(p) = 1 /\ p[1] = Multi /\ Multi \in C
    OBVIOUS
<1>2. Len(pp) = 1
  <2> SUFFICES ASSUME Len(pp) # 1 PROVE FALSE
      BY Zenon
  <2>1. 2 \in 2 .. Len(pp) /\ 1 \in 1 .. Len(pp) /\ 2 \in 1 .. Len(pp) + 1
        /\ 3 \in 1 .. Len(pp) + 1 /\ 2 \in 1 .. Len(pp)
      BY DEF Sliced
  <2>2. cut[2] \in 0 .. 2 /\ cut[3] \in 0 .. 2 /\ cut[1] = 0
    <3>1. cut \in [1 .. Len(pp) + 1 -> 0 .. Len(p) + 1] /\ cut[1] = 0
        BY Zenon DEF Sliced
    <3>2. cut[2] \in 0 .. Len(p) + 1 /\ cut[3] \in 0 .. Len(p) + 1
        BY <2>1, <3>1, Zenon
    <3> QED BY <1>1, <3>1, <3>2
  <2>3. cut[1] < cut[2] /\ cut[2] < cut[3]
    <3>1. cut[1] < cut[1 + 1] /\ cut[2] < cut[2 + 1]
        BY <2>1, Zenon DEF Sliced
    <3> QED BY <3>1
  <2>4. cut[2] = 1
      BY <2>2, <2>3
  <2>5. p[cut[2]] = Sep
    <3>1. \A q \in 2 .. Len(pp) : p[cut[q]] = Sep
        BY ONLY Sliced(C, p, pp, cut), Zenon DEF Sliced
    <3> QED BY ONLY <2>1, <3>1, Zenon
  <2> QED BY <1>1, <2>4, <2>5, Zenon DEF Multi, Sep
<1>3. cut[1] = 0 /\ cut[1 + 1] = 2
    BY <1>1, <1>2 DEF Sliced
<1>4. pp[1] \in Seq(C) /\ Len(pp[1]) = cut[1 + 1] - cut[1] - 1
      /\ \A o \in 1 .. Len(pp[1]) : pp[1][o] = p[cut[1] + o]
  <2>1. 1 \in 1 .. Len(pp)
      BY <1>2
  <2> QED BY <2>1, Zenon DEF Sliced
<1>5. Len(pp[1]) = 1 /\ pp[1][1] = Multi
    BY <1>1, <1>3, <1>4
<1>6. <<Multi>> \in Seq(C) /\ Len(<<Multi>>) = 1 /\ <<Multi>>[1] = Multi
    BY <1>1, Zenon
<1>7. \A o \in 1 .. Len(pp[1]) : pp[1][o] = <<Multi>>[o]
    BY <1>5, <1>6
<1> QED BY <1>2, <1>4, <1>5, <1>6, <1>7, SameSeq, Zenon

\* matchTopic decides the reference relation, for every well-formed pattern.
LEMMA GoIsReference ==
    ASSUME NEW C, NEW p \in Seq(C), NEW t \in Seq(C), WellFormed(p)
    PROVE  matchTopic(p, t) <=> Reference(p, t)
<1> DEFINE pp == Split(p)
           tp == Split(t)
           m == Len(pp)
           n == Len(tp)
           Passes(j) == j <= n /\ pp[j] # <<Multi>> /\ LevelMatches(pp[j], tp[j])
<1>1. PICK pc : Sliced(C, p, pp, pc)
    BY SplitSlices, Zenon
<1>2. PICK tc : Sliced(C, t, tp, tc)
    BY SplitSlices, Zenon
<1>3. m \in Nat \ {0} /\ n \in Nat \ {0}
    BY <1>1, <1>2, Zenon DEF Sliced
<1>4. \A k \in 1 .. m : pp[k] = <<Multi>> => k = m
    BY <1>1, HashIsLast, Zenon
<1>5. p = <<Multi>> => m = 1 /\ pp[m] = <<Multi>>
    BY <1>1, HashAlone, Zenon
<1>6. matchTopic(p, t) <=>
        \/ p = <<Multi>>
        \/ /\ m <= n \/ pp[m] = <<Multi>>
           /\ \/ \E i \in 1 .. m : i <= n /\ pp[i] = <<Multi>> /\ \A j \in 1 .. i - 1 : Passes(j)
              \/ (\A j \in 1 .. m : Passes(j)) /\ n = m
    BY Zenon DEF matchTopic
<1>7. Reference(p, t) <=>
        LET fixed == IF pp[m] = <<Multi>> THEN m - 1 ELSE m IN
        /\ IF fixed = m THEN n = fixed ELSE n > fixed
        /\ \A k \in 1 .. fixed : LevelMatches(pp[k], tp[k])
    BY Zenon DEF Reference
<1> HIDE DEF pp, tp, m, n
<1>8. CASE pp[m] = <<Multi>>
  <2>1. Reference(p, t) <=> n >= m /\ \A k \in 1 .. m - 1 : LevelMatches(pp[k], tp[k])
      BY <1>3, <1>7, <1>8
  <2>2. ASSUME Reference(p, t) PROVE matchTopic(p, t)
    <3>1. m \in 1 .. m /\ m <= n
        BY <1>3, <2>1, <2>2
    <3>2. \A j \in 1 .. m - 1 : Passes(j)
        BY <1>3, <1>4, <2>1, <2>2
    <3> QED BY <1>6, <1>8, <3>1, <3>2, Zenon
  <2>3. ASSUME matchTopic(p, t) PROVE Reference(p, t)
    <3>1. CASE p = <<Multi>>
        BY <1>3, <1>5, <2>1, <3>1
    <3>2. CASE p # <<Multi>>
      <4>1. ~ \A j \in 1 .. m : Passes(j)
          BY <1>3, <1>8
      <4>2. PICK i \in 1 .. m : i <= n /\ pp[i] = <<Multi>> /\ \A j \in 1 .. i - 1 : Passes(j)
          BY <1>6, <2>3, <3>2, <4>1, Zenon
      <4>3. i = m
          BY <1>4, <4>2, Zenon
      <4> QED BY <1>3, <2>1, <4>2, <4>3, Zenon
    <3> QED BY <3>1, <3>2, Zenon
  <2> QED BY <2>2, <2>3, Zenon
<1>9. CASE pp[m] # <<Multi>>
  <2>1. Reference(p, t) <=> n = m /\ \A k \in 1 .. m : LevelMatches(pp[k], tp[k])
      BY <1>3, <1>7, <1>9, Zenon
  <2>2. \A k \in 1 .. m : pp[k] # <<Multi>>
      BY <1>4, <1>9, Zenon
  <2>3. p # <<Multi>>
      BY <1>5, <1>9, Zenon
  <2>4. matchTopic(p, t) <=> (\A j \in 1 .. m : Passes(j)) /\ n = m
      BY <1>3, <1>6, <2>2, <2>3
  <2> QED BY <1>3, <2>1, <2>2, <2>4
<1> QED BY <1>8, <1>9, Zenon

\* Level k of s: where it starts and ends, what follows it, and its characters.
LevelFacts(C, s, pp, cut, k) ==
    /\ Len(pp) \in Nat /\ Len(s) \in Nat
    /\ cut[k] \in Nat /\ cut[k + 1] \in Nat
    /\ cut[k] + 1 <= cut[k + 1] /\ cut[k + 1] <= Len(s) + 1
    /\ k = Len(pp) <=> cut[k + 1] = Len(s) + 1
    /\ k # Len(pp) => k + 1 \in 1 .. Len(pp) /\ s[cut[k + 1]] = Sep
    /\ \A l \in cut[k] + 1 .. cut[k + 1] - 1 : s[l] # Sep
    /\ pp[k] \in Seq(C) /\ Len(pp[k]) = cut[k + 1] - cut[k] - 1
    /\ \A o \in 1 .. Len(pp[k]) : pp[k][o] = s[cut[k] + o]

\* What Sliced says of one level.
LEMMA LevelAt ==
    ASSUME NEW C, NEW s \in Seq(C), NEW pp, NEW cut, Sliced(C, s, pp, cut),
           NEW k \in 1 .. Len(pp)
    PROVE  LevelFacts(C, s, pp, cut, k)
<1>1. Len(pp) \in Nat /\ Len(s) \in Nat /\ k \in Nat /\ k >= 1 /\ k <= Len(pp)
    BY DEF Sliced
<1>2. cut \in [1 .. Len(pp) + 1 -> 0 .. Len(s) + 1]
    BY Zenon DEF Sliced
<1>3. k \in 1 .. Len(pp) + 1 /\ k + 1 \in 1 .. Len(pp) + 1
    BY <1>1
<1>4. cut[k] \in 0 .. Len(s) + 1 /\ cut[k + 1] \in 0 .. Len(s) + 1
    BY <1>2, <1>3, Zenon
<1>5. cut[k] < cut[k + 1]
    BY Zenon DEF Sliced
<1>6. k = Len(pp) => cut[k + 1] = Len(s) + 1
    BY Zenon DEF Sliced
<1>7. ASSUME k # Len(pp)
      PROVE  k + 1 \in 1 .. Len(pp) /\ s[cut[k + 1]] = Sep /\ cut[k + 1] # Len(s) + 1
  <2>1. k + 1 \in 1 .. Len(pp) /\ k + 1 \in 2 .. Len(pp) /\ k + 2 \in 1 .. Len(pp) + 1
        /\ (k + 1) + 1 = k + 2
      BY <1>1, <1>7
  <2>2. cut[k + 1] < cut[(k + 1) + 1] /\ s[cut[k + 1]] = Sep
      BY <2>1, Zenon DEF Sliced
  <2>3. cut[k + 2] \in 0 .. Len(s) + 1
      BY <1>2, <2>1, Zenon
  <2> QED BY <1>1, <1>4, <2>1, <2>2, <2>3
<1>8. /\ \A l \in cut[k] + 1 .. cut[k + 1] - 1 : s[l] # Sep
      /\ pp[k] \in Seq(C) /\ Len(pp[k]) = cut[k + 1] - cut[k] - 1
      /\ \A o \in 1 .. Len(pp[k]) : pp[k][o] = s[cut[k] + o]
    BY Zenon DEF Sliced
<1>9. cut[k] \in Nat /\ cut[k + 1] \in Nat /\ cut[k] + 1 <= cut[k + 1]
      /\ cut[k + 1] <= Len(s) + 1
    BY <1>1, <1>4, <1>5
<1> QED BY <1>1, <1>6, <1>7, <1>8, <1>9, Zenon DEF LevelFacts

\* A wildcard of a well-formed pattern is a level of its own.
LEMMA WildcardAlone ==
    ASSUME NEW C, NEW p \in Seq(C), WellFormed(p), NEW pc, Sliced(C, p, Split(p), pc),
           NEW k \in 1 .. Len(Split(p)), NEW i \in pc[k] + 1 .. pc[k + 1] - 1,
           p[i] \in {Single, Multi}
    PROVE  /\ i = pc[k] + 1 /\ pc[k + 1] = i + 1
           /\ Split(p)[k] = <<p[i]>>
           /\ p[i] = Multi => k = Len(Split(p))
<1> DEFINE pp == Split(p)
           o == i - pc[k]
           a == pc[k]
           b == pc[k + 1]
           len == Len(pp[k])
<1>0. /\ a \in Nat /\ b \in Nat /\ b <= Len(p) + 1 /\ Len(p) \in Nat /\ len = b - a - 1
      /\ i \in a + 1 .. b - 1
  <2>0. LevelFacts(C, p, pp, pc, k)
      BY LevelAt, Zenon
  <2> QED BY <2>0, Zenon DEF LevelFacts
<1>1. pp[k] \in Seq(C) /\ \A q \in 1 .. len : pp[k][q] = p[a + q]
  <2>0. LevelFacts(C, p, pp, pc, k)
      BY LevelAt, Zenon
  <2> QED BY <2>0, Zenon DEF LevelFacts
<1>2. k \in DOMAIN pp
    BY Zenon DEF Sliced
<1>3. o = i - a /\ DOMAIN pp[k] = 1 .. len
    BY <1>1
<1> HIDE DEF pp, o, a, b, len
<1>4. i \in Int /\ o \in 1 .. len /\ a + o = i
    BY ONLY <1>0, <1>3
<1>5. o \in DOMAIN pp[k] /\ pp[k][o] = p[i]
    BY <1>1, <1>3, <1>4, Zenon
<1>6. /\ pp[k][o] = Single => len = 1
      /\ pp[k][o] = Multi => len = 1 /\ k = Len(pp)
    BY <1>2, <1>5, Zenon DEF WellFormed, pp, len
<1>7. len = 1
    BY <1>5, <1>6, Zenon
<1>8. o = 1 /\ i = a + 1 /\ b = i + 1 /\ i \in 1 .. Len(p)
    BY ONLY <1>0, <1>4, <1>7
<1>9. pp[k] = <<p[i]>>
  <2>1. pp[k][1] = p[i] /\ p[i] \in C
      BY <1>5, <1>8
  <2>2. <<p[i]>> \in Seq(C) /\ Len(<<p[i]>>) = 1 /\ <<p[i]>>[1] = p[i]
      BY <2>1
  <2>3. Len(pp[k]) = 1 /\ \A q \in 1 .. Len(pp[k]) : pp[k][q] = <<p[i]>>[q]
      BY <1>7, <2>1, <2>2 DEF len
  <2> QED BY <1>1, <2>2, <2>3, SameSeq, Zenon
<1> QED BY <1>5, <1>6, <1>8, <1>9, Zenon DEF pp, a, b

\* A well-formed pattern and a topic without empty levels, with their cuts.
Setting(C, p, t, pc, tc) ==
    /\ p \in Seq(C) /\ t \in Seq(C) /\ WellFormed(p)
    /\ \A k \in DOMAIN Split(t) : Split(t)[k] # <<>>
    /\ Sliced(C, p, Split(p), pc) /\ Sliced(C, t, Split(t), tc)

\* The walk is at character o of level k on both sides: the levels before match, and
\* so do the characters before.
Reached(p, t, pc, tc, k, o) ==
    /\ k \in 1 .. Len(Split(p)) /\ k \in 1 .. Len(Split(t)) /\ o \in Nat \ {0}
    /\ pc[k] + o <= pc[k + 1] /\ tc[k] + o <= tc[k + 1]
    /\ \A l \in 1 .. o - 1 : p[pc[k] + l] = t[tc[k] + l] /\ p[pc[k] + l] \notin {Single, Multi}
    /\ \A q \in 1 .. k - 1 : LevelMatches(Split(p)[q], Split(t)[q])

\* The reference relation where the first k - 1 levels match.
LEMMA ReferenceCases ==
    ASSUME NEW C, NEW p, NEW t, NEW pc, NEW tc, Setting(C, p, t, pc, tc)
    PROVE  LET pp == Split(p)  tp == Split(t)  m == Len(pp)  n == Len(tp) IN
           /\ m \in Nat \ {0} /\ n \in Nat \ {0}
           /\ \A k \in 1 .. m : pp[k] = <<Multi>> => k = m
           /\ pp[m] = <<Multi>> =>
                (Reference(p, t) <=> n >= m /\ \A k \in 1 .. m - 1 : LevelMatches(pp[k], tp[k]))
           /\ pp[m] # <<Multi>> =>
                (Reference(p, t) <=> n = m /\ \A k \in 1 .. m : LevelMatches(pp[k], tp[k]))
<1> DEFINE pp == Split(p)
           tp == Split(t)
           m == Len(pp)
           n == Len(tp)
<1>1. m \in Nat \ {0} /\ n \in Nat \ {0}
    BY Zenon DEF Setting, Sliced
<1>2. \A k \in 1 .. m : pp[k] = <<Multi>> => k = m
    BY HashIsLast, Zenon DEF Setting
<1>3. Reference(p, t) <=>
        LET fixed == IF pp[m] = <<Multi>> THEN m - 1 ELSE m IN
        /\ IF fixed = m THEN n = fixed ELSE n > fixed
        /\ \A k \in 1 .. fixed : LevelMatches(pp[k], tp[k])
    BY Zenon DEF Reference
<1> HIDE DEF pp, tp, m, n
<1>4. pp[m] = <<Multi>> =>
        (Reference(p, t) <=> n >= m /\ \A k \in 1 .. m - 1 : LevelMatches(pp[k], tp[k]))
    BY <1>1, <1>3
<1>5. pp[m] # <<Multi>> =>
        (Reference(p, t) <=> n = m /\ \A k \in 1 .. m : LevelMatches(pp[k], tp[k]))
    BY <1>1, <1>3, Zenon
<1> QED BY <1>1, <1>2, <1>4, <1>5, Zenon DEF pp, tp, m, n

\* A level that differs settles the answer.
LEMMA OneLevelDiffers ==
    ASSUME NEW C, NEW p, NEW t, NEW pc, NEW tc, Setting(C, p, t, pc, tc),
           NEW k \in 1 .. Len(Split(p)),
           Split(p)[k] # <<Multi>>, ~LevelMatches(Split(p)[k], Split(t)[k])
    PROVE  ~Reference(p, t)
<1> DEFINE pp == Split(p)
           tp == Split(t)
           m == Len(pp)
           n == Len(tp)
<1>1. /\ m \in Nat \ {0}
      /\ pp[m] = <<Multi>> =>
           (Reference(p, t) <=> n >= m /\ \A q \in 1 .. m - 1 : LevelMatches(pp[q], tp[q]))
      /\ pp[m] # <<Multi>> =>
           (Reference(p, t) <=> n = m /\ \A q \in 1 .. m : LevelMatches(pp[q], tp[q]))
    BY ReferenceCases, Zenon
<1> HIDE DEF pp, tp, m, n
<1>2. k \in 1 .. m /\ pp[k] # <<Multi>> /\ ~LevelMatches(pp[k], tp[k])
    BY Zenon DEF pp, tp, m
<1>3. pp[m] = <<Multi>> => k \in 1 .. m - 1
    BY <1>1, <1>2
<1> QED BY <1>1, <1>2, <1>3, Zenon

\* The characters the walk has passed: where both levels end there, they are equal;
\* where only one does, or the next characters differ, the pattern does not match.
LEMMA LevelPassed ==
    ASSUME NEW C, NEW p, NEW t, NEW pc, NEW tc, Setting(C, p, t, pc, tc),
           NEW k, NEW o, Reached(p, t, pc, tc, k, o),
           pc[k] + o = pc[k + 1], tc[k] + o = tc[k + 1]
    PROVE  Split(p)[k] = Split(t)[k] /\ Split(p)[k] # <<Multi>>
<1> DEFINE a == pc[k]  b == pc[k + 1]  c == tc[k]  d == tc[k + 1]
           x == Split(p)[k]
           y == Split(t)[k]
<1>0. /\ p \in Seq(C) /\ Sliced(C, p, Split(p), pc) /\ k \in 1 .. Len(Split(p))
      /\ t \in Seq(C) /\ Sliced(C, t, Split(t), tc) /\ k \in 1 .. Len(Split(t))
    BY Zenon DEF Setting, Reached
<1>1. /\ a \in Nat /\ b \in Nat /\ Len(x) = b - a - 1 /\ x \in Seq(C)
      /\ \A l \in 1 .. Len(x) : x[l] = p[a + l]
  <2>0. LevelFacts(C, p, Split(p), pc, k)
      BY <1>0, LevelAt, Zenon
  <2> QED BY <2>0, Zenon DEF LevelFacts
<1>2. /\ c \in Nat /\ d \in Nat /\ Len(y) = d - c - 1 /\ y \in Seq(C)
      /\ \A l \in 1 .. Len(y) : y[l] = t[c + l]
  <2>0. LevelFacts(C, t, Split(t), tc, k)
      BY <1>0, LevelAt, Zenon
  <2> QED BY <2>0, Zenon DEF LevelFacts
<1>3. o \in Nat \ {0} /\ a + o = b /\ c + o = d
    BY Zenon DEF Reached
<1>4. \A l \in 1 .. o - 1 : p[a + l] = t[c + l] /\ p[a + l] \notin {Single, Multi}
    BY Zenon DEF Reached
<1> HIDE DEF a, b, c, d, x, y
<1>5. Len(x) = o - 1 /\ Len(y) = o - 1
    BY <1>1, <1>2, <1>3
<1>6. x = y
  <2>1. \A l \in 1 .. Len(x) : x[l] = y[l]
      BY <1>1, <1>2, <1>4, <1>5
  <2> QED BY <1>1, <1>2, <1>5, <2>1, SameSeq, Zenon
<1>7. x # <<Multi>>
  <2> SUFFICES ASSUME x = <<Multi>> PROVE FALSE
      BY Zenon
  <2>1. Len(x) = 1 /\ x[1] = Multi
      BY Zenon
  <2>2. 1 \in 1 .. Len(x) /\ 1 \in 1 .. o - 1
      BY <2>1, <1>5
  <2> QED BY <1>1, <1>4, <2>1, <2>2, Zenon
<1> QED BY <1>6, <1>7, Zenon DEF x, y

\* A level without a wildcard that is not the topic's: no match.
LEMMA LevelDiffers ==
    ASSUME NEW C, NEW p, NEW t, NEW pc, NEW tc, Setting(C, p, t, pc, tc),
           NEW k, NEW o, Reached(p, t, pc, tc, k, o),
           \/ /\ pc[k] + o < pc[k + 1] /\ p[pc[k] + o] \notin {Single, Multi}
              /\ tc[k] + o = tc[k + 1] \/ p[pc[k] + o] # t[tc[k] + o]
           \/ pc[k] + o = pc[k + 1] /\ tc[k] + o < tc[k + 1]
    PROVE  ~Reference(p, t)
<1> DEFINE a == pc[k]  b == pc[k + 1]  c == tc[k]  d == tc[k + 1]
           x == Split(p)[k]
           y == Split(t)[k]
<1>0. /\ p \in Seq(C) /\ Sliced(C, p, Split(p), pc) /\ k \in 1 .. Len(Split(p))
      /\ t \in Seq(C) /\ Sliced(C, t, Split(t), tc) /\ k \in 1 .. Len(Split(t))
    BY Zenon DEF Setting, Reached
<1>1. /\ a \in Nat /\ b \in Nat /\ Len(x) = b - a - 1 /\ x \in Seq(C)
      /\ \A l \in 1 .. Len(x) : x[l] = p[a + l]
  <2>0. LevelFacts(C, p, Split(p), pc, k)
      BY <1>0, LevelAt, Zenon
  <2> QED BY <2>0, Zenon DEF LevelFacts
<1>2. /\ c \in Nat /\ d \in Nat /\ Len(y) = d - c - 1 /\ y \in Seq(C)
      /\ \A l \in 1 .. Len(y) : y[l] = t[c + l]
  <2>0. LevelFacts(C, t, Split(t), tc, k)
      BY <1>0, LevelAt, Zenon
  <2> QED BY <2>0, Zenon DEF LevelFacts
<1>3. o \in Nat \ {0} /\ a + o <= b /\ c + o <= d
    BY Zenon DEF Reached
<1>4. \A l \in 1 .. o - 1 : p[a + l] = t[c + l] /\ p[a + l] \notin {Single, Multi}
    BY Zenon DEF Reached
<1>5. \/ a + o < b /\ p[a + o] \notin {Single, Multi} /\ (c + o = d \/ p[a + o] # t[c + o])
      \/ a + o = b /\ c + o < d
    BY Zenon
<1> HIDE DEF a, b, c, d, x, y
<1>6. x # <<Single>> /\ x # <<Multi>>
  <2> SUFFICES ASSUME NEW w \in {Single, Multi}, x = <<w>> PROVE FALSE
      BY Zenon
  <2>1. Len(x) = 1 /\ x[1] = w
      BY Zenon
  <2>2. 1 \in 1 .. Len(x) /\ p[a + 1] = w
      BY <1>1, <2>1
  <2>3. o = 1
      BY <1>3, <1>4, <2>2
  <2> QED BY <1>1, <1>3, <1>5, <2>1, <2>2, <2>3
<1>7. x # y
  <2> SUFFICES ASSUME x = y PROVE FALSE
      BY Zenon
  <2>1. Len(x) = Len(y) /\ Len(x) = b - a - 1 /\ Len(x) = d - c - 1
      BY <1>1, <1>2, Zenon
  <2>2. a + o < b /\ c + o < d /\ p[a + o] # t[c + o]
      BY <1>1, <1>2, <1>3, <1>5, <2>1
  <2>3. o \in 1 .. Len(x)
      BY <1>1, <1>3, <2>1, <2>2
  <2> QED BY <1>1, <1>2, <2>1, <2>2, <2>3, Zenon
<1>8. x # <<Multi>> /\ ~LevelMatches(x, y)
    BY <1>6, <1>7, Zenon DEF LevelMatches
<1> QED BY <1>0, <1>8, OneLevelDiffers, Zenon DEF x, y

\* Where the walk may be after some rounds: at a level reached, or past a pattern that
\* ends before the topic does.
Standing(p, t, pc, tc, at) ==
    \/ \E k, o : Reached(p, t, pc, tc, k, o) /\ at = <<pc[k] + o, tc[k] + o>>
    \/ \E j \in 1 .. Len(t) : at = <<Len(p) + 1, j>> /\ ~Reference(p, t)

\* The loop is left at one of its two ends.
LEMMA EndReached ==
    ASSUME NEW C, NEW p, NEW t, NEW pc, NEW tc, Setting(C, p, t, pc, tc),
           NEW k, NEW o, Reached(p, t, pc, tc, k, o),
           pc[k] + o > Len(p) \/ tc[k] + o > Len(t)
    PROVE  Returned(p, t, <<pc[k] + o, tc[k] + o>>) <=> Reference(p, t)
<1> DEFINE pp == Split(p)  tp == Split(t)  m == Len(pp)  n == Len(tp)
           a == pc[k]  b == pc[k + 1]  c == tc[k]  d == tc[k + 1]
           i == a + o
           j == c + o
<1> SUFFICES Returned(p, t, <<i, j>>) <=> Reference(p, t)
    BY Zenon
<1>0. /\ p \in Seq(C) /\ Sliced(C, p, pp, pc) /\ k \in 1 .. m /\ WellFormed(p)
      /\ t \in Seq(C) /\ Sliced(C, t, tp, tc) /\ k \in 1 .. n
    BY Zenon DEF Setting, Reached
<1>1. /\ a \in Nat /\ b \in Nat /\ b <= Len(p) + 1 /\ (k = m <=> b = Len(p) + 1)
      /\ Len(p) \in Nat /\ m \in Nat
  <2>0. LevelFacts(C, p, pp, pc, k)
      BY <1>0, LevelAt, Zenon
  <2> QED BY <2>0, Zenon DEF LevelFacts
<1>2. /\ c \in Nat /\ d \in Nat /\ d <= Len(t) + 1 /\ (k = n <=> d = Len(t) + 1)
      /\ Len(t) \in Nat /\ n \in Nat /\ Len(tp[k]) = d - c - 1 /\ tp[k] \in Seq(C)
  <2>0. LevelFacts(C, t, tp, tc, k)
      BY <1>0, LevelAt, Zenon
  <2> QED BY <2>0, Zenon DEF LevelFacts
<1>3. o \in Nat \ {0} /\ a + o <= b /\ c + o <= d
    BY Zenon DEF Reached
<1>4. \A q \in 1 .. k - 1 : LevelMatches(pp[q], tp[q])
    BY Zenon DEF Reached
<1>5. tp[k] # <<>>
  <2>1. k \in DOMAIN tp
      BY <1>0, Zenon DEF Sliced
  <2> QED BY <2>1, Zenon DEF Setting
<1>6. d # c + 1
    BY <1>2, <1>5
<1>7. /\ pp[m] = <<Multi>> =>
           (Reference(p, t) <=> n >= m /\ \A q \in 1 .. m - 1 : LevelMatches(pp[q], tp[q]))
      /\ pp[m] # <<Multi>> =>
           (Reference(p, t) <=> n = m /\ \A q \in 1 .. m : LevelMatches(pp[q], tp[q]))
    BY ReferenceCases, Zenon
<1>8. Returned(p, t, <<i, j>>) <=> (i > Len(p) /\ j > Len(t)) \/ (i = Len(p) /\ p[i] = Multi)
    BY Zenon DEF Returned
<1>9. i > Len(p) \/ j > Len(t)
    BY Zenon
<1>10. i = b /\ j = d => pp[k] = tp[k] /\ pp[k] # <<Multi>>
    BY LevelPassed
<1>11. i = b /\ j < d => ~Reference(p, t)
    BY LevelDiffers, Zenon
<1>12. i < b /\ p[i] \notin {Single, Multi} /\ j = d => ~Reference(p, t)
    BY LevelDiffers, Zenon
<1>13. i < b /\ p[i] \in {Single, Multi} => i = a + 1
  <2> SUFFICES ASSUME i < b, p[i] \in {Single, Multi} PROVE i = a + 1
      BY Zenon
  <2>1. i \in a + 1 .. b - 1
      BY <1>1, <1>3
  <2> QED BY <1>0, <2>1, WildcardAlone
<1> HIDE DEF pp, tp, m, n, a, b, c, d, i, j
<1>14. /\ i = a + o /\ j = c + o
    BY Zenon DEF i, j
<1>15. CASE i = b /\ j = d
  <2>1. i > Len(p) => k = m
      BY <1>1, <1>14, <1>15
  <2>2. j > Len(t) => k = n
      BY <1>2, <1>14, <1>15
  <2>3. ~(i = Len(p) /\ p[i] = Multi)
    <3>1. i <= Len(p) => k # m
        BY <1>1, <1>14, <1>15
    <3>2. k # m => p[b] = Sep
      <4>0. LevelFacts(C, p, pp, pc, k)
          BY <1>0, LevelAt, Zenon DEF b, m
      <4> QED BY <4>0, Zenon DEF LevelFacts, b, m
    <3> QED BY <1>1, <1>15, <3>1, <3>2, Zenon DEF Sep, Multi
  <2>4. LevelMatches(pp[k], tp[k])
      BY <1>10, <1>15, Zenon DEF LevelMatches
  <2>5. \A q \in 1 .. k : LevelMatches(pp[q], tp[q])
      BY <1>0, <1>4, <2>4
  <2>6. CASE i > Len(p) /\ j > Len(t)
    <3>1. k = m /\ n = m
        BY <2>1, <2>2, <2>6, Zenon
    <3> QED BY <1>7, <1>8, <1>10, <1>15, <2>5, <2>6, <3>1, Zenon
  <2>7. CASE i > Len(p) /\ ~(j > Len(t))
    <3>1. k = m /\ k # n
        BY <1>1, <1>2, <1>15, <2>1, <2>7
    <3>2. pp[m] # <<Multi>> /\ n # m
        BY <1>10, <1>15, <3>1, Zenon
    <3> QED BY <1>7, <1>8, <2>3, <2>7, <3>2, Zenon
  <2>8. CASE ~(i > Len(p)) /\ j > Len(t)
    <3>1. k = n /\ k # m /\ n < m
        BY <1>0, <1>1, <1>2, <1>15, <2>2, <2>8
    <3> QED BY <1>1, <1>2, <1>7, <1>8, <2>3, <2>8, <3>1
  <2> QED BY <1>9, <2>6, <2>7, <2>8, Zenon
<1>16. CASE i = b /\ j # d
  <2>1. j < d
      BY <1>2, <1>3, <1>14, <1>16
  <2>2. ~(j > Len(t)) /\ i > Len(p)
      BY <1>2, <1>3, <1>9, <1>14, <2>1
  <2> QED BY <1>1, <1>3, <1>8, <1>11, <1>14, <1>16, <2>1, <2>2
<1>17. CASE i # b
  <2>1. i < b /\ ~(i > Len(p)) /\ j > Len(t) /\ j = d
      BY <1>1, <1>2, <1>3, <1>9, <1>14, <1>17
  <2>2. p[i] \notin {Single, Multi}
    <3>1. o # 1
        BY <1>2, <1>3, <1>6, <1>14, <2>1, Zenon
    <3> QED BY <1>1, <1>3, <1>13, <1>14, <2>1, <3>1
  <2> QED BY <1>8, <1>12, <2>1, <2>2, Zenon
<1> QED BY <1>15, <1>16, <1>17, Zenon DEF a, c, i, j

\* strchr finds the end of the level.
LEMMA NextSeparator ==
    ASSUME NEW d \in Int, NEW S \in SUBSET Int, d \in S, \A l \in S : d <= l
    PROVE  (CHOOSE q \in S : \A l \in S : q <= l) = d
<1> DEFINE c == CHOOSE q \in S : \A l \in S : q <= l
<1>1. c \in S /\ \A l \in S : c <= l
    BY Zenon
<1> HIDE DEF c
<1>2. c <= d /\ d <= c /\ c \in Int
    BY <1>1, Zenon
<1>3. c = d
    BY <1>2
<1> QED BY <1>3, Zenon DEF c

\* A round passes over a "+" and the level it stands for.
LEMMA RoundSingle ==
    ASSUME NEW C, NEW p, NEW t, NEW pc, NEW tc, Setting(C, p, t, pc, tc),
           NEW k, NEW o, Reached(p, t, pc, tc, k, o),
           pc[k] + o <= Len(p), tc[k] + o <= Len(t), p[pc[k] + o] = Single
    PROVE  LET at == <<pc[k] + o, tc[k] + o>>
               r == Round(p, t, at) IN
           \/ r = at /\ (Returned(p, t, at) <=> Reference(p, t))
           \/ r[1] > at[1] /\ r[1] \in Nat /\ Standing(p, t, pc, tc, r)
<1> DEFINE pp == Split(p)  tp == Split(t)  m == Len(pp)  n == Len(tp)
           a == pc[k]  b == pc[k + 1]  c == tc[k]  d == tc[k + 1]
           i == a + o
           j == c + o
           r == Round(p, t, <<i, j>>)
           seps == {l \in j .. Len(t) : t[l] = Sep}
<1> SUFFICES \/ r = <<i, j>> /\ (Returned(p, t, <<i, j>>) <=> Reference(p, t))
             \/ r[1] > i /\ r[1] \in Nat /\ Standing(p, t, pc, tc, r)
    BY Zenon
<1>0. /\ p \in Seq(C) /\ Sliced(C, p, pp, pc) /\ k \in 1 .. m /\ WellFormed(p)
      /\ t \in Seq(C) /\ Sliced(C, t, tp, tc) /\ k \in 1 .. n
    BY Zenon DEF Setting, Reached
<1>1. /\ a \in Nat /\ b \in Nat /\ b <= Len(p) + 1 /\ (k = m <=> b = Len(p) + 1)
      /\ Len(p) \in Nat /\ m \in Nat /\ (k # m => k + 1 \in 1 .. m /\ p[b] = Sep)
  <2>0. LevelFacts(C, p, pp, pc, k)
      BY <1>0, LevelAt, Zenon
  <2> QED BY <2>0, Zenon DEF LevelFacts
<1>2. /\ c \in Nat /\ d \in Nat /\ d <= Len(t) + 1 /\ (k = n <=> d = Len(t) + 1)
      /\ Len(t) \in Nat /\ n \in Nat /\ (k # n => k + 1 \in 1 .. n /\ t[d] = Sep)
  <2>0. LevelFacts(C, t, tp, tc, k)
      BY <1>0, LevelAt, Zenon
  <2> QED BY <2>0, Zenon DEF LevelFacts
<1>3. \A l \in c + 1 .. d - 1 : t[l] # Sep
  <2>0. LevelFacts(C, t, tp, tc, k)
      BY <1>0, LevelAt, Zenon
  <2> QED BY <2>0, Zenon DEF LevelFacts
<1>4. o \in Nat \ {0} /\ a + o <= b /\ c + o <= d
      /\ \A q \in 1 .. k - 1 : LevelMatches(pp[q], tp[q])
    BY Zenon DEF Reached
<1>5. /\ pp[m] = <<Multi>> =>
           (Reference(p, t) <=> n >= m /\ \A q \in 1 .. m - 1 : LevelMatches(pp[q], tp[q]))
      /\ pp[m] # <<Multi>> =>
           (Reference(p, t) <=> n = m /\ \A q \in 1 .. m : LevelMatches(pp[q], tp[q]))
    BY ReferenceCases, Zenon
<1>6. i = a + o /\ j = c + o /\ i <= Len(p) /\ j <= Len(t) /\ p[i] = Single
    BY Zenon
<1>7. Returned(p, t, <<i, j>>) <=> i = Len(p)
  <2> HIDE DEF pp, tp, m, n, a, b, c, d, i, j
  <2>1. ~(i > Len(p) \/ j > Len(t))
      BY <1>1, <1>2, <1>4, <1>6, SMTT(30)
  <2>2. p[i] = Single /\ Single # Multi
      BY <1>6, Zenon DEF Single, Multi
  <2>3. Returned(p, t, <<i, j>>) <=> \/ p[i] = Multi /\ i = Len(p)
                                     \/ p[i] = Single /\ i = Len(p)
      BY ONLY <2>1, Zenon DEF Returned, multiWildcard
  <2> QED BY ONLY <2>2, <2>3, Zenon
<1>8. seps = {} => r = <<i, j>>
    BY <1>1, <1>2, <1>4, <1>6, Zenon DEF Round, Single, Multi
<1>9. ASSUME d \in seps, \A l \in seps : d <= l
      PROVE  r = <<i + (IF i < Len(p) /\ p[i + 1] = Sep THEN 2 ELSE 1), d + 1>>
  <2>1. seps \in SUBSET Int /\ d \in Int
      BY <1>2, <1>4
  <2>2. (CHOOSE q \in seps : \A l \in seps : q <= l) = d
      BY <1>9, <2>1, NextSeparator, Zenon
  <2>3. seps # {}
      BY <1>9, Zenon
  <2>4. ~(i > Len(p) \/ j > Len(t))
      BY <1>1, <1>2, <1>4, <1>6, SMTT(30)
  <2>5. r = IF i > Len(p) \/ j > Len(t) THEN <<i, j>>
            ELSE IF p[i] = Single /\ seps # {}
            THEN <<i + (IF i < Len(p) /\ p[i + 1] = Sep THEN 2 ELSE 1),
                   (CHOOSE q \in seps : \A l \in seps : q <= l) + 1>>
            ELSE IF p[i] \notin {Single, Multi} /\ p[i] = t[j] THEN <<i + 1, j + 1>>
            ELSE <<i, j>>
      BY DEF Round
  <2> HIDE DEF r, seps, i, j
  <2> QED BY ONLY <1>6, <2>2, <2>3, <2>4, <2>5, Zenon
<1> HIDE DEF r, pp, tp, m, n, a, b, c, d, i, j
<1>10. i < b
    BY <1>1, <1>4, <1>6 DEF Sep, Single
<1>11. i = a + 1 /\ b = i + 1 /\ pp[k] = <<Single>>
  <2>1. i \in a + 1 .. b - 1
      BY <1>1, <1>4, <1>6, <1>10
  <2> QED BY <1>0, <1>6, <2>1, WildcardAlone DEF a, b, pp, m
<1>12. j = c + 1 /\ o = 1
    BY <1>1, <1>2, <1>4, <1>6, <1>11
<1>13. pp[k] # <<Multi>>
    BY <1>11 DEF Single, Multi
<1>14. LevelMatches(pp[k], tp[k])
    BY <1>11, Zenon DEF LevelMatches
<1>15. \A q \in 1 .. k : LevelMatches(pp[q], tp[q])
    BY <1>0, <1>4, <1>14
<1>16. CASE k = n
  <2>1. seps = {}
      BY <1>2, <1>3, <1>12, <1>16
  <2>2. CASE k = m
    <3>1. i = Len(p)
        BY <1>1, <1>11, <2>2
    <3>2. pp[m] # <<Multi>> /\ n = m /\ \A q \in 1 .. m : LevelMatches(pp[q], tp[q])
        BY <1>13, <1>15, <1>16, <2>2, Zenon
    <3> QED BY <1>5, <1>7, <1>8, <2>1, <3>1, <3>2, Zenon
  <2>3. CASE k # m
    <3>1. i # Len(p) /\ n < m
        BY <1>0, <1>1, <1>11, <1>16, <2>3
    <3>2. ~(n >= m) /\ n # m
        BY <1>1, <1>2, <3>1
    <3>3. ~Reference(p, t)
        BY <1>5, <3>2, Zenon
    <3> QED BY <1>7, <1>8, <2>1, <3>1, <3>3, Zenon
  <2> QED BY <2>2, <2>3, Zenon
<1>17. CASE k # n
  <2>1. d \in seps /\ \A l \in seps : d <= l
      BY <1>2, <1>3, <1>4, <1>6, <1>12, <1>17
  <2>2. r = <<i + (IF i < Len(p) /\ p[i + 1] = Sep THEN 2 ELSE 1), d + 1>>
      BY <1>9, <2>1, Zenon
  <2>3. CASE k = m
    <3>1. i = Len(p) /\ r = <<i + 1, d + 1>>
        BY <1>1, <1>11, <2>2, <2>3
    <3>2. d + 1 \in 1 .. Len(t)
      <4>1. k + 1 \in 1 .. n
          BY <1>2, <1>17, Zenon
      <4>2. /\ tc[k + 1] \in Nat /\ tc[(k + 1) + 1] \in Nat /\ tc[(k + 1) + 1] <= Len(t) + 1
            /\ tp[k + 1] \in Seq(C) /\ Len(tp[k + 1]) = tc[(k + 1) + 1] - tc[k + 1] - 1
            /\ tc[k + 1] + 1 <= tc[(k + 1) + 1]
        <5>0. LevelFacts(C, t, tp, tc, k + 1)
            BY <1>0, <4>1, LevelAt, Zenon DEF n
        <5> QED BY <5>0, Zenon DEF LevelFacts, n
      <4>3. tp[k + 1] # <<>>
        <5>1. k + 1 \in DOMAIN tp
            BY <1>0, <4>1, Zenon DEF Sliced, n
        <5> QED BY <5>1, Zenon DEF Setting, tp
      <4>4. Len(tp[k + 1]) # 0
          BY <4>2, <4>3
      <4>5. PICK x, y : x = tc[k + 1] /\ y = tc[(k + 1) + 1]
          BY Zenon
      <4>6. y - x - 1 # 0 /\ x \in Nat /\ y \in Nat /\ y <= Len(t) + 1 /\ x + 1 <= y
          BY ONLY <4>2, <4>4, <4>5, Zenon
      <4>7. Len(t) \in Nat
          BY <1>2, Zenon
      <4>8. x \in 0 .. Len(t) + 1 /\ y \in 0 .. Len(t) + 1 /\ x < y
          BY ONLY <4>6, <4>7
      <4>9. x + 1 \in 1 .. Len(t)
          BY ONLY <4>6, <4>7, <4>8, BetweenCuts, Zenon
      <4> QED BY ONLY <4>5, <4>9, Zenon DEF d
    <3>3. ~Reference(p, t)
        BY <1>5, <1>13, <1>17, <2>3, Zenon
    <3> QED BY <1>1, <3>1, <3>2, <3>3 DEF Standing
  <2>4. CASE k # m
    <3>1. i < Len(p) /\ p[i + 1] = Sep /\ r = <<b + 1, d + 1>> /\ i + 2 = b + 1
        BY <1>1, <1>11, <2>2, <2>4
    <3>2. k + 1 \in 1 .. m /\ k + 1 \in 1 .. n
        BY <1>1, <1>2, <1>17, <2>4, Zenon
    <3>3. pc[k + 1] + 1 <= pc[(k + 1) + 1] /\ tc[k + 1] + 1 <= tc[(k + 1) + 1]
      <4>0. LevelFacts(C, p, pp, pc, k + 1) /\ LevelFacts(C, t, tp, tc, k + 1)
          BY <1>0, <3>2, LevelAt, Zenon DEF m, n
      <4> QED BY <4>0, Zenon DEF LevelFacts, m, n
    <3>4. \A q \in 1 .. (k + 1) - 1 : LevelMatches(pp[q], tp[q])
      <4>1. (k + 1) - 1 = k
          BY <1>0, <1>1
      <4> QED BY <1>15, <4>1, Zenon
    <3>5. Reached(p, t, pc, tc, k + 1, 1)
        BY <3>2, <3>3, <3>4 DEF Reached, pp, tp, m, n
    <3>6. r = <<pc[k + 1] + 1, tc[k + 1] + 1>>
        BY <3>1, Zenon DEF b, d
    <3>7. r[1] > i /\ r[1] \in Nat
      <4>1. r[1] = b + 1
          BY <3>1, Zenon
      <4> QED BY <1>1, <1>11, <4>1
    <3> QED BY <3>5, <3>6, <3>7, Zenon DEF Standing
  <2> QED BY <2>3, <2>4, Zenon
<1> QED BY <1>16, <1>17, Zenon

\* Any other round: the answer is final, or both pointers advance by one character.
LEMMA RoundOther ==
    ASSUME NEW C, NEW p, NEW t, NEW pc, NEW tc, Setting(C, p, t, pc, tc),
           NEW k, NEW o, Reached(p, t, pc, tc, k, o),
           pc[k] + o <= Len(p), tc[k] + o <= Len(t), p[pc[k] + o] # Single
    PROVE  LET at == <<pc[k] + o, tc[k] + o>>
               r == Round(p, t, at) IN
           \/ r = at /\ (Returned(p, t, at) <=> Reference(p, t))
           \/ r[1] > at[1] /\ r[1] \in Nat /\ Standing(p, t, pc, tc, r)
<1> DEFINE pp == Split(p)  tp == Split(t)  m == Len(pp)  n == Len(tp)
           a == pc[k]  b == pc[k + 1]  c == tc[k]  d == tc[k + 1]
           i == a + o
           j == c + o
           r == Round(p, t, <<i, j>>)
<1> SUFFICES \/ r = <<i, j>> /\ (Returned(p, t, <<i, j>>) <=> Reference(p, t))
             \/ r[1] > i /\ r[1] \in Nat /\ Standing(p, t, pc, tc, r)
    BY Zenon
<1>0. /\ p \in Seq(C) /\ Sliced(C, p, pp, pc) /\ k \in 1 .. m /\ WellFormed(p)
      /\ t \in Seq(C) /\ Sliced(C, t, tp, tc) /\ k \in 1 .. n
    BY Zenon DEF Setting, Reached
<1>1. /\ a \in Nat /\ b \in Nat /\ b <= Len(p) + 1 /\ (k = m <=> b = Len(p) + 1)
      /\ Len(p) \in Nat /\ m \in Nat /\ (k # m => k + 1 \in 1 .. m /\ p[b] = Sep)
  <2>0. LevelFacts(C, p, pp, pc, k)
      BY <1>0, LevelAt, Zenon
  <2> QED BY <2>0, Zenon DEF LevelFacts
<1>2. /\ c \in Nat /\ d \in Nat /\ d <= Len(t) + 1 /\ (k = n <=> d = Len(t) + 1)
      /\ Len(t) \in Nat /\ n \in Nat /\ (k # n => k + 1 \in 1 .. n /\ t[d] = Sep)
  <2>0. LevelFacts(C, t, tp, tc, k)
      BY <1>0, LevelAt, Zenon
  <2> QED BY <2>0, Zenon DEF LevelFacts
<1>3. (\A l \in a + 1 .. b - 1 : p[l] # Sep) /\ (\A l \in c + 1 .. d - 1 : t[l] # Sep)
  <2>1. LevelFacts(C, p, pp, pc, k) /\ LevelFacts(C, t, tp, tc, k)
      BY <1>0, LevelAt, Zenon
  <2> QED BY <2>1, Zenon DEF LevelFacts
<1>4. o \in Nat \ {0} /\ a + o <= b /\ c + o <= d
      /\ \A q \in 1 .. k - 1 : LevelMatches(pp[q], tp[q])
    BY Zenon DEF Reached
<1>5. i = a + o /\ j = c + o /\ i <= Len(p) /\ j <= Len(t) /\ p[i] # Single
    BY Zenon
<1>6. i \in Nat /\ j \in Nat /\ ~(i > Len(p) \/ j > Len(t))
  <2> HIDE DEF pp, tp, m, n, a, b, c, d, i, j
  <2>1. a \in Nat /\ c \in Nat /\ o \in Nat /\ Len(p) \in Nat /\ Len(t) \in Nat
      BY ONLY <1>1, <1>2, <1>4, Zenon
  <2>2. i = a + o /\ j = c + o /\ i <= Len(p) /\ j <= Len(t)
      BY ONLY <1>5, Zenon
  <2> QED BY ONLY <2>1, <2>2
<1>7. r = IF p[i] # Multi /\ p[i] = t[j] THEN <<i + 1, j + 1>> ELSE <<i, j>>
  <2> DEFINE seps == {l \in j .. Len(t) : t[l] = Sep}
             skipped == <<i + (IF i < Len(p) /\ p[i + 1] = Sep THEN 2 ELSE 1),
                          (CHOOSE q \in seps : \A l \in seps : q <= l) + 1>>
  <2>1. r = IF i > Len(p) \/ j > Len(t) THEN <<i, j>>
            ELSE IF p[i] = Single /\ seps # {} THEN skipped
            ELSE IF p[i] \notin {Single, Multi} /\ p[i] = t[j] THEN <<i + 1, j + 1>>
            ELSE <<i, j>>
      BY Zenon DEF Round
  <2> HIDE DEF r, seps, skipped, i, j
  <2> QED BY ONLY <1>5, <1>6, <2>1, Zenon
<1>8. Returned(p, t, <<i, j>>) <=> p[i] = Multi /\ i = Len(p)
    BY <1>5, <1>6, Zenon DEF Returned, multiWildcard
<1>9. i = b /\ j = d => pp[k] = tp[k]
    BY LevelPassed
<1>10. i = b /\ j < d => ~Reference(p, t)
    BY LevelDiffers, Zenon
<1>11. i < b /\ p[i] # Multi /\ p[i] # t[j] => ~Reference(p, t)
    BY <1>5, LevelDiffers, Zenon
<1>12. \A l \in 1 .. o - 1 : p[a + l] = t[c + l] /\ p[a + l] \notin {Single, Multi}
    BY Zenon DEF Reached
<1> HIDE DEF r, pp, tp, m, n, a, b, c, d, i, j
<1>13. i = b \/ i < b
    BY <1>1, <1>4, <1>5
<1>14. j = d \/ j < d
    BY <1>2, <1>4, <1>5
<1>15. i = b <=> p[i] = Sep
    BY <1>1, <1>3, <1>4, <1>5, <1>6, <1>13
<1>16. j = d <=> t[j] = Sep
    BY <1>2, <1>3, <1>4, <1>5, <1>6, <1>14
<1>17. CASE p[i] = Multi
  <2>1. i < b
      BY <1>13, <1>15, <1>17, Zenon DEF Sep, Multi
  <2>2. i = a + 1 /\ b = i + 1 /\ pp[k] = <<Multi>> /\ k = m
    <3>1. i \in a + 1 .. b - 1
        BY <1>1, <1>4, <1>5, <2>1
    <3> QED BY <1>0, <1>17, <3>1, WildcardAlone DEF a, b, pp, m
  <2>3. i = Len(p)
      BY <1>1, <2>2
  <2>4. pp[m] = <<Multi>> =>
          (Reference(p, t) <=> n >= m /\ \A q \in 1 .. m - 1 : LevelMatches(pp[q], tp[q]))
      BY ReferenceCases, Zenon DEF pp, tp, m, n
  <2>5. n >= m
      BY <1>0, <1>2, <2>2
  <2>6. Reference(p, t)
      BY <1>4, <2>2, <2>4, <2>5, Zenon
  <2> QED BY <1>7, <1>8, <1>17, <2>3, <2>6, Zenon
<1>18. CASE p[i] # Multi /\ p[i] # t[j]
  <2>1. ~Reference(p, t)
      BY <1>10, <1>11, <1>13, <1>14, <1>15, <1>16, <1>18, Zenon
  <2> QED BY <1>7, <1>8, <1>18, <2>1, Zenon
<1>19. CASE p[i] # Multi /\ p[i] = t[j]
  <2>1. r = <<i + 1, j + 1>> /\ r[1] > i /\ r[1] \in Nat
      BY <1>6, <1>7, <1>19
  <2>2. CASE i = b
    <3>1. j = d
        BY <1>15, <1>16, <1>19, <2>2, Zenon
    <3>2. k + 1 \in 1 .. m /\ k + 1 \in 1 .. n
        BY <1>1, <1>2, <1>5, <2>2, <3>1
    <3>3. pc[k + 1] + 1 <= pc[(k + 1) + 1] /\ tc[k + 1] + 1 <= tc[(k + 1) + 1]
      <4>0. LevelFacts(C, p, pp, pc, k + 1) /\ LevelFacts(C, t, tp, tc, k + 1)
          BY <1>0, <3>2, LevelAt, Zenon DEF m, n
      <4> QED BY <4>0, Zenon DEF LevelFacts, m, n
    <3>4. LevelMatches(pp[k], tp[k])
        BY <1>9, <2>2, <3>1, Zenon DEF LevelMatches
    <3>5. \A q \in 1 .. (k + 1) - 1 : LevelMatches(pp[q], tp[q])
        BY <1>0, <1>4, <3>4
    <3>6. Reached(p, t, pc, tc, k + 1, 1)
        BY <3>2, <3>3, <3>5 DEF Reached, pp, tp, m, n
    <3>7. r = <<pc[k + 1] + 1, tc[k + 1] + 1>>
        BY <2>1, <2>2, <3>1, Zenon DEF b, d
    <3> QED BY <2>1, <3>6, <3>7, Zenon DEF Standing
  <2>3. CASE i < b
    <3>1. j < d
        BY <1>6, <1>1, <1>14, <1>15, <1>16, <1>19, <2>3
    <3>2. o + 1 \in Nat \ {0} /\ a + (o + 1) <= b /\ c + (o + 1) <= d
          /\ a + (o + 1) = i + 1 /\ c + (o + 1) = j + 1
        BY <1>1, <1>2, <1>4, <1>5, <2>3, <3>1
    <3>3. \A l \in 1 .. (o + 1) - 1 :
            p[a + l] = t[c + l] /\ p[a + l] \notin {Single, Multi}
        BY <1>4, <1>5, <1>12, <1>19
    <3>4. Reached(p, t, pc, tc, k, o + 1)
        BY <1>0, <1>4, <3>2, <3>3, Zenon DEF Reached, pp, tp, m, n, a, b, c, d
    <3>5. r = <<pc[k] + (o + 1), tc[k] + (o + 1)>>
        BY <2>1, <3>2, Zenon DEF a, c
    <3> QED BY <2>1, <3>4, <3>5, Zenon DEF Standing
  <2> QED BY <1>13, <2>2, <2>3, Zenon
<1> QED BY <1>17, <1>18, <1>19, Zenon

\* A round is the last one, with the reference's answer, or advances in the pattern.
LEMMA RoundStands ==
    ASSUME NEW C, NEW p, NEW t, NEW pc, NEW tc, Setting(C, p, t, pc, tc),
           NEW at, Standing(p, t, pc, tc, at)
    PROVE  LET r == Round(p, t, at) IN
           \/ r = at /\ (Returned(p, t, at) <=> Reference(p, t))
           \/ at[1] <= Len(p) /\ r[1] > at[1] /\ r[1] \in Nat /\ Standing(p, t, pc, tc, r)
<1>1. p \in Seq(C) /\ t \in Seq(C) /\ Len(p) \in Nat /\ Len(t) \in Nat
    BY DEF Setting
<1>2. CASE \E j \in 1 .. Len(t) : at = <<Len(p) + 1, j>> /\ ~Reference(p, t)
  <2>1. PICK j \in 1 .. Len(t) : at = <<Len(p) + 1, j>> /\ ~Reference(p, t)
      BY <1>2, Zenon
  <2>2. at[1] = Len(p) + 1 /\ at[2] = j /\ at[1] > Len(p) /\ ~(j > Len(t)) /\ at[1] # Len(p)
      BY <1>1, <2>1
  <2>3. Round(p, t, at) = at
      BY <2>2, Zenon DEF Round
  <2>4. ~Returned(p, t, at)
      BY <2>2, Zenon DEF Returned
  <2> QED BY <2>1, <2>3, <2>4, Zenon
<1>3. ASSUME NEW k, NEW o, Reached(p, t, pc, tc, k, o), at = <<pc[k] + o, tc[k] + o>>
      PROVE  LET r == Round(p, t, at) IN
             \/ r = at /\ (Returned(p, t, at) <=> Reference(p, t))
             \/ at[1] <= Len(p) /\ r[1] > at[1] /\ r[1] \in Nat /\ Standing(p, t, pc, tc, r)
  <2>1. at[1] = pc[k] + o /\ at[2] = tc[k] + o
      BY <1>3, Zenon
  <2>2. at[1] \in Nat /\ at[2] \in Nat
    <3>1. /\ p \in Seq(C) /\ Sliced(C, p, Split(p), pc) /\ k \in 1 .. Len(Split(p))
          /\ t \in Seq(C) /\ Sliced(C, t, Split(t), tc) /\ k \in 1 .. Len(Split(t))
        BY <1>3, Zenon DEF Setting, Reached
    <3>2. pc[k] \in Nat /\ tc[k] \in Nat
      <4>0. LevelFacts(C, p, Split(p), pc, k) /\ LevelFacts(C, t, Split(t), tc, k)
          BY <3>1, LevelAt, Zenon
      <4> QED BY <4>0, Zenon DEF LevelFacts
    <3>3. o \in Nat
        BY <1>3, Zenon DEF Reached
    <3> QED BY <2>1, <3>2, <3>3
  <2>3. CASE at[1] > Len(p) \/ at[2] > Len(t)
    <3>1. Round(p, t, at) = at
        BY <2>3, Zenon DEF Round
    <3>2. Returned(p, t, at) <=> Reference(p, t)
        BY <1>3, <2>1, <2>3, EndReached, Zenon
    <3> QED BY <3>1, <3>2, Zenon
  <2>4. CASE at[1] <= Len(p) /\ at[2] <= Len(t) /\ p[at[1]] = Single
      BY <1>3, <2>1, <2>4, RoundSingle
  <2>5. CASE at[1] <= Len(p) /\ at[2] <= Len(t) /\ p[at[1]] # Single
      BY <1>3, <2>1, <2>5, RoundOther
  <2>6. \/ at[1] > Len(p) \/ at[2] > Len(t)
        \/ at[1] <= Len(p) /\ at[2] <= Len(t)
      BY <1>1, <2>2
  <2> QED BY <2>3, <2>4, <2>5, <2>6, Zenon
<1> QED BY <1>2, <1>3, Zenon DEF Standing

\* The pointers stay within the two strings, or one past their ends.
LEMMA Positions ==
    ASSUME NEW C, NEW p, NEW t, NEW pc, NEW tc, Setting(C, p, t, pc, tc),
           NEW at, Standing(p, t, pc, tc, at)
    PROVE  at \in Nat \X Nat
<1>1. p \in Seq(C) /\ t \in Seq(C) /\ Len(p) \in Nat /\ Len(t) \in Nat
    BY DEF Setting
<1>2. ASSUME NEW k, NEW o, Reached(p, t, pc, tc, k, o), at = <<pc[k] + o, tc[k] + o>>
      PROVE  at \in Nat \X Nat
  <2>1. /\ p \in Seq(C) /\ Sliced(C, p, Split(p), pc) /\ k \in 1 .. Len(Split(p))
        /\ t \in Seq(C) /\ Sliced(C, t, Split(t), tc) /\ k \in 1 .. Len(Split(t))
      BY <1>2, Zenon DEF Setting, Reached
  <2>2. pc[k] \in Nat /\ tc[k] \in Nat
    <3>0. LevelFacts(C, p, Split(p), pc, k) /\ LevelFacts(C, t, Split(t), tc, k)
        BY <2>1, LevelAt, Zenon
    <3> QED BY <3>0, Zenon DEF LevelFacts
  <2>3. o \in Nat
      BY <1>2, Zenon DEF Reached
  <2> QED BY <1>2, <2>2, <2>3
<1> QED BY <1>1, <1>2 DEF Standing

\* Both pointers begin at the start of the first level.
LEMMA StartStands ==
    ASSUME NEW C, NEW p, NEW t, NEW pc, NEW tc, Setting(C, p, t, pc, tc)
    PROVE  Standing(p, t, pc, tc, <<1, 1>>)
<1>1. /\ p \in Seq(C) /\ Sliced(C, p, Split(p), pc)
      /\ t \in Seq(C) /\ Sliced(C, t, Split(t), tc)
    BY Zenon DEF Setting
<1>2. 1 \in 1 .. Len(Split(p)) /\ 1 \in 1 .. Len(Split(t)) /\ pc[1] = 0 /\ tc[1] = 0
    BY <1>1 DEF Sliced
<1>3. pc[1] + 1 <= pc[1 + 1] /\ tc[1] + 1 <= tc[1 + 1]
  <2>0. LevelFacts(C, p, Split(p), pc, 1) /\ LevelFacts(C, t, Split(t), tc, 1)
      BY <1>1, <1>2, LevelAt, Zenon
  <2> QED BY <2>0, Zenon DEF LevelFacts
<1>4. Reached(p, t, pc, tc, 1, 1)
    BY <1>2, <1>3 DEF Reached
<1>5. <<1, 1>> = <<pc[1] + 1, tc[1] + 1>>
    BY <1>2
<1> QED BY <1>4, <1>5, Zenon DEF Standing

\* The walk of the C library gives the reference's answer.
LEMMA CIsReference ==
    ASSUME NEW C, NEW p, NEW t, NEW pc, NEW tc, Setting(C, p, t, pc, tc)
    PROVE  qdp_topic_matches(p, t) <=> Reference(p, t)
<1> DEFINE N == Len(p)
           S == {at \in Nat \X Nat : Standing(p, t, pc, tc, at)}
           step == [n \in 1 .. N |-> [x \in S |-> Round(p, t, x)]]
           at[n \in 0 .. N] == IF n = 0 THEN <<1, 1>> ELSE Round(p, t, at[n - 1])
<1>1. N \in Nat
    BY DEF Setting
<1>2. <<1, 1>> \in S
    BY StartStands, Zenon
<1>3. ASSUME NEW x \in S PROVE Round(p, t, x) \in S
    BY RoundStands, Positions, Zenon
<1>4. \A n \in 1 .. N, x \in S : step[n][x] = Round(p, t, x)
    BY <1>3, Zenon
<1> HIDE DEF S, N, step
<1>5. PICK f : Rounds(N, S, <<1, 1>>, step, f)
  <2>1. Closed(N, S, step)
      BY <1>3, <1>4, Zenon DEF Closed
  <2> QED BY <1>1, <1>2, <2>1, Iteration, Zenon
<1>6. f = [n \in 0 .. N |-> IF n = 0 THEN <<1, 1>> ELSE Round(p, t, f[n - 1])]
  <2>0. /\ f \in [0 .. N -> S]
        /\ f[0] = <<1, 1>> /\ \A n \in 1 .. N : f[n] = step[n][f[n - 1]]
      BY <1>5, Zenon DEF Rounds
  <2>1. ASSUME NEW n \in 0 .. N
        PROVE  f[n] = IF n = 0 THEN <<1, 1>> ELSE Round(p, t, f[n - 1])
    <3>1. CASE n = 0
        BY <2>0, <3>1, Zenon
    <3>2. CASE n # 0
      <4>1. n \in 1 .. N /\ n - 1 \in 0 .. N
          BY <1>1, <3>2
      <4> QED BY <1>4, <2>0, <3>2, <4>1, Zenon
    <3> QED BY <3>1, <3>2, Zenon
  <2> QED BY <2>0, <2>1, Zenon
<1>7. at = [n \in 0 .. N |-> IF n = 0 THEN <<1, 1>> ELSE Round(p, t, at[n - 1])]
    BY <1>6, Zenon
<1>8. qdp_topic_matches(p, t) = Returned(p, t, at[N])
    BY Zenon DEF qdp_topic_matches, N
<1> HIDE DEF at
<1>9. at[0] = <<1, 1>> /\ \A n \in 1 .. N : at[n] = Round(p, t, at[n - 1])
  <2>1. 0 \in 0 .. N
      BY <1>1
  <2>2. \A n \in 1 .. N : n \in 0 .. N /\ n # 0
      BY <1>1
  <2> QED BY <1>7, <2>1, <2>2, Zenon
<1> DEFINE Final(x) == Round(p, t, x) = x /\ (Returned(p, t, x) <=> Reference(p, t))
           I == {n \in Nat : n <= N => Standing(p, t, pc, tc, at[n])
                                        /\ (at[n][1] > n \/ Final(at[n]))}
<1>10. 0 \in I
    BY <1>9, StartStands
<1>11. ASSUME NEW n \in Nat, n \in I PROVE n + 1 \in I
  <2> SUFFICES ASSUME n + 1 <= N
               PROVE  /\ Standing(p, t, pc, tc, at[n + 1])
                      /\ at[n + 1][1] > n + 1 \/ Final(at[n + 1])
      OBVIOUS
  <2>1. Standing(p, t, pc, tc, at[n]) /\ (at[n][1] > n \/ Final(at[n]))
      BY <1>1, <1>11
  <2>2. n + 1 \in 1 .. N /\ (n + 1) - 1 = n
      BY <1>1
  <2>3. at[n + 1] = Round(p, t, at[n])
      BY <1>9, <2>2, Zenon
  <2>4. at[n][1] \in Nat
      BY <2>1, Positions
  <2> DEFINE x == at[n]
             r == at[n + 1]
  <2> HIDE DEF x, r
  <2>5. \/ r = x /\ (Returned(p, t, x) <=> Reference(p, t))
        \/ r[1] > x[1] /\ r[1] \in Nat /\ Standing(p, t, pc, tc, r)
      BY <2>1, <2>3, RoundStands, Zenon DEF x, r
  <2>6. r = Round(p, t, x) /\ Standing(p, t, pc, tc, x) /\ x[1] \in Nat
        /\ (x[1] > n \/ Final(x))
      BY <2>1, <2>3, <2>4, Zenon DEF x, r
  <2>7. CASE r = x /\ (Returned(p, t, x) <=> Reference(p, t))
    <3>1. Final(r) /\ Standing(p, t, pc, tc, r)
        BY <2>6, <2>7, Zenon
    <3> QED BY <3>1, Zenon DEF r
  <2>8. CASE r[1] > x[1] /\ r[1] \in Nat /\ Standing(p, t, pc, tc, r)
    <3>1. ~Final(x)
        BY <2>6, <2>8
    <3>2. r[1] > n + 1
        BY <2>6, <2>8, <3>1
    <3> QED BY <2>8, <3>2, Zenon DEF r
  <2> QED BY <2>5, <2>7, <2>8, Zenon
<1> HIDE DEF I
<1>12. N \in I
    BY <1>1, <1>10, <1>11, Ascent, Zenon
<1>13. Standing(p, t, pc, tc, at[N]) /\ (at[N][1] > N \/ Final(at[N]))
    BY <1>1, <1>12 DEF I
<1>14. at[N][1] \in Nat
    BY <1>13, Positions
<1>15. Returned(p, t, at[N]) <=> Reference(p, t)
  <2>1. at[N][1] > N => ~(at[N][1] <= Len(p))
      BY <1>1, <1>14 DEF N
  <2> QED BY <1>13, <2>1, RoundStands, Zenon
<1> QED BY <1>8, <1>15, Zenon

-----------------------------------------------------------------------------
Characters == Letters \cup PatternLetters \cup {Sep, Single, Multi}

Spelled == pattern \in Seq(Characters) /\ topic \in Seq(Characters)

\* The pattern and the topic are strings of their characters.
LEMMA SpellingKeeps == Spec => []Spelled
<1>1. Init => Spelled
    BY DEF Init, Spelled
<1>2. Spelled /\ [Next]_vars => Spelled'
  <2> SUFFICES ASSUME Spelled, [Next]_vars PROVE Spelled'
      BY Zenon
  <2>1. CASE ExtendPattern
      BY <2>1 DEF Spelled, ExtendPattern, Characters
  <2>2. CASE ExtendTopic
      BY <2>2 DEF Spelled, ExtendTopic, Characters
  <2>3. CASE UNCHANGED vars
      BY <2>3, Zenon DEF Spelled, vars
  <2> QED BY <2>1, <2>2, <2>3, Zenon DEF Next
<1> QED BY <1>1, <1>2, PTL DEF Spec

\* For patterns and topics of any length over any characters: the early length test,
\* the loop and the final length test of matchTopic decide exactly the reference.
THEOREM GoMatcherDecidesTheReference == Spec => []GoMatchesReference
<1>1. Spelled => GoMatchesReference
    BY GoIsReference, Zenon DEF Spelled, GoMatchesReference
<1> QED BY <1>1, SpellingKeeps, PTL

\* For any lengths and characters: qdp_topic_matches, which walks by characters, and
\* matchTopic, which splits into levels, give the same answer.
THEOREM LibrariesMatchAlike == Spec => []LibrariesAgree
<1>1. ASSUME Spelled, WellFormed(pattern),
             \A k \in DOMAIN Split(topic) : Split(topic)[k] # <<>>
      PROVE  matchTopic(pattern, topic) <=> qdp_topic_matches(pattern, topic)
  <2>1. pattern \in Seq(Characters) /\ topic \in Seq(Characters)
      BY <1>1, Zenon DEF Spelled
  <2>2. PICK pc : Sliced(Characters, pattern, Split(pattern), pc)
      BY <2>1, SplitSlices, Zenon
  <2>3. PICK tc : Sliced(Characters, topic, Split(topic), tc)
      BY <2>1, SplitSlices, Zenon
  <2>4. Setting(Characters, pattern, topic, pc, tc)
      BY <1>1, <2>1, <2>2, <2>3, Zenon DEF Setting
  <2>5. qdp_topic_matches(pattern, topic) <=> Reference(pattern, topic)
      BY <2>4, CIsReference, Zenon
  <2>6. matchTopic(pattern, topic) <=> Reference(pattern, topic)
      BY <1>1, <2>1, GoIsReference, Zenon
  <2> QED BY <2>5, <2>6, Zenon
<1>2. Spelled => LibrariesAgree
    BY <1>1, Zenon DEF LibrariesAgree
<1> QED BY <1>2, SpellingKeeps, PTL
=============================================================================
