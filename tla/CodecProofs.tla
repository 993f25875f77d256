---------------------------- MODULE CodecProofs -----------------------------
(***************************************************************************)
(* Proofs about Codec, for any bytes, any limits of the C library and any  *)
(* message whose frame is shorter than 65536 bytes: the checksum, what the *)
(* readers return for the frames of the writers, and bursts on the line.   *)
(***************************************************************************)
EXTENDS Codec, SequenceTheorems, WellFoundedInduction, TLAPS

\* Induction over the naturals, for a set.
LEMMA Ascent ==
    ASSUME NEW S, 0 \in S, \A n \in Nat : n \in S => n + 1 \in S
    PROVE  \A n \in Nat : n \in S
<1> DEFINE T == {n \in Nat : n \notin S}
           R == OpToRel(<, Nat)
<1> SUFFICES ASSUME T # {} PROVE FALSE
    BY Zenon
<1>1. IsWellFoundedOn(R, Nat)
    BY NatLessThanWellFounded, Zenon
<1>2. PICK x \in T : \A y \in T : ~(<<y, x>> \in R)
  <2> HIDE DEF R
  <2>1. T \subseteq Nat
      BY Zenon
  <2> HIDE DEF T
  <2> QED BY <1>1, <2>1, WFMin, Zenon
<1>3. \A y \in T : ~(y < x)
    BY <1>2, Zenon DEF OpToRel
<1>4. x \in Nat /\ x # 0 /\ x - 1 \in Nat /\ x - 1 < x /\ x = (x - 1) + 1
    OBVIOUS
<1>5. x - 1 \in S
    BY <1>3, <1>4, Zenon
<1> QED BY <1>4, <1>5

\* A loop of N rounds whose body is step: its values, round by round.
Closed(N, S, step) == \A n \in 1 .. N, x \in S : step[n][x] \in S

Rounds(N, S, base, step, f) ==
    /\ f \in [0 .. N -> S]
    /\ f[0] = base /\ \A n \in 1 .. N : f[n] = step[n][f[n - 1]]

\* Such a loop has its values, if its body stays within S.
LEMMA Iteration ==
    ASSUME NEW N \in Nat, NEW S, NEW base \in S, NEW step, Closed(N, S, step)
    PROVE  \E f : Rounds(N, S, base, step, f)
<1>0. \A n \in 1 .. N, x \in S : step[n][x] \in S
    BY Zenon DEF Closed
<1> DEFINE Done(f, m) == f[0] = base /\ \A n \in 1 .. m : f[n] = step[n][f[n - 1]]
           I == {m \in Nat : m <= N => \E f \in [0 .. m -> S] : Done(f, m)}
<1>1. 0 \in I
  <2> DEFINE f == [n \in 0 .. 0 |-> base]
  <2>1. f \in [0 .. 0 -> S] /\ Done(f, 0)
      OBVIOUS
  <2> QED BY <2>1, Zenon
<1>2. ASSUME NEW m \in Nat, m \in I PROVE m + 1 \in I
  <2> HIDE DEF Done
  <2> SUFFICES ASSUME m + 1 <= N PROVE \E g \in [0 .. m + 1 -> S] : Done(g, m + 1)
      OBVIOUS
  <2> USE DEF Done
  <2>1. PICK f \in [0 .. m -> S] : Done(f, m)
      BY <1>2
  <2> DEFINE g == [n \in 0 .. m + 1 |-> IF n = m + 1 THEN step[m + 1][f[m]] ELSE f[n]]
  <2>2. g \in [0 .. m + 1 -> S]
      BY <1>0
  <2>3. Done(g, m + 1)
    <3>1. g[0] = base
        BY <2>1
    <3>2. ASSUME NEW n \in 1 .. m + 1 PROVE g[n] = step[n][g[n - 1]]
      <4>1. n - 1 \in 0 .. m /\ g[n - 1] = f[n - 1]
          OBVIOUS
      <4>2. CASE n = m + 1
          BY <4>1, <4>2
      <4>3. CASE n # m + 1
        <5>1. n \in 1 .. m /\ g[n] = f[n]
            BY <4>3
        <5> QED BY <5>1, <4>1, <2>1, Zenon
      <4> QED BY <4>2, <4>3, Zenon
    <3> QED BY <3>1, <3>2, Zenon
  <2> QED BY <2>2, <2>3, Zenon
<1> HIDE DEF I
<1>3. N \in I
    BY <1>1, <1>2, Ascent, Zenon
<1> QED BY <1>3 DEF I, Rounds

\* The values of a loop are determined by its start and its body.
LEMMA RoundsUnique ==
    ASSUME NEW N \in Nat, NEW S, NEW base, NEW step, NEW f, NEW g,
           Rounds(N, S, base, step, f), Rounds(N, S, base, step, g)
    PROVE  f = g
<1> DEFINE I == {n \in Nat : n <= N => f[n] = g[n]}
<1>1. 0 \in I
    BY Zenon DEF Rounds
<1>2. ASSUME NEW n \in Nat, n \in I PROVE n + 1 \in I
  <2> SUFFICES ASSUME n + 1 <= N PROVE f[n + 1] = g[n + 1]
      OBVIOUS
  <2>1. n + 1 \in 1 .. N /\ (n + 1) - 1 = n /\ f[n] = g[n]
      BY <1>2
  <2>2. f[n + 1] = step[n + 1][f[(n + 1) - 1]] /\ g[n + 1] = step[n + 1][g[(n + 1) - 1]]
      BY <2>1, Zenon DEF Rounds
  <2> QED BY <2>1, <2>2, Zenon
<1> HIDE DEF I
<1>3. \A n \in Nat : n \in I
    BY <1>1, <1>2, Ascent, Zenon
<1>4. \A n \in 0 .. N : f[n] = g[n]
    BY <1>3 DEF I
<1> QED BY <1>4 DEF Rounds

-----------------------------------------------------------------------------
\* The bits of an exclusive or.
LEMMA XorMember ==
    ASSUME NEW a, NEW b, NEW x
    PROVE  x \in Xor(a, b) <=> (x \in a <=> x \notin b)
BY Zenon DEF Xor

\* The bits of a shifted word.
LEMMA ShrMember ==
    ASSUME NEW w \in SUBSET Nat, NEW k \in Nat, NEW x
    PROVE  x \in Shr(w, k) <=> x \in Nat /\ x + k \in w
<1>1. ASSUME x \in Shr(w, k) PROVE x \in Nat /\ x + k \in w
  <2>1. PICK i \in w : i >= k /\ x = i - k
      BY <1>1, Zenon DEF Shr
  <2>2. i \in Nat /\ x \in Nat /\ x + k = i
      BY <2>1
  <2> QED BY <2>1, <2>2, Zenon
<1>2. ASSUME x \in Nat, x + k \in w PROVE x \in Shr(w, k)
  <2>1. x + k >= k /\ x = (x + k) - k
      BY <1>2
  <2>2. x + k \in {j \in w : j >= k}
      BY <1>2, <2>1, Zenon
  <2> QED BY <2>1, <2>2, Zenon DEF Shr
<1> QED BY <1>1, <1>2, Zenon

\* The operations on words give words.
LEMMA WordTypes ==
    /\ polynomial \subseteq Ones /\ Ones \subseteq Nat /\ SUBSET (0 .. 7) \subseteq SUBSET Ones
    /\ \A a, b \in SUBSET Ones : Xor(a, b) \in SUBSET Ones
    /\ \A a \in SUBSET Ones, k \in Nat : Shr(a, k) \in SUBSET Ones
    /\ \A a \in SUBSET Ones : ShiftOut(a) \in SUBSET Ones
<1>1. polynomial \subseteq Ones /\ Ones \subseteq Nat /\ SUBSET (0 .. 7) \subseteq SUBSET Ones
    BY DEF polynomial, Ones
<1>2. \A a, b \in SUBSET Ones : Xor(a, b) \in SUBSET Ones
    BY Zenon DEF Xor
<1>3. ASSUME NEW a \in SUBSET Ones, NEW k \in Nat PROVE Shr(a, k) \in SUBSET Ones
  <2> SUFFICES ASSUME NEW x \in Shr(a, k) PROVE x \in Ones
      BY Zenon
  <2>1. a \in SUBSET Nat
      BY <1>1, Zenon
  <2>2. x \in Nat /\ x + k \in a
      BY <2>1, ShrMember, Zenon
  <2> QED BY <2>2 DEF Ones
<1>4. ASSUME NEW a \in SUBSET Ones PROVE ShiftOut(a) \in SUBSET Ones
    BY <1>1, <1>2, <1>3 DEF ShiftOut
<1> QED BY <1>1, <1>2, <1>3, <1>4, Zenon

\* The bits of the register after one round.
LEMMA ShiftOutMember ==
    ASSUME NEW a \in SUBSET Ones, NEW x
    PROVE  x \in ShiftOut(a) <=> x \in Nat /\ ((x + 1 \in a) # (0 \in a /\ x \in polynomial))
<1>1. a \in SUBSET Nat /\ polynomial \subseteq Nat
    BY WordTypes, Zenon
<1>2. x \in Shr(a, 1) <=> x \in Nat /\ x + 1 \in a
    BY <1>1, ShrMember, Zenon
<1>3. x \in Xor(Shr(a, 1), polynomial) <=> (x \in Shr(a, 1) <=> x \notin polynomial)
    BY XorMember
<1>4. x \in polynomial => x \in Nat
    BY <1>1, Zenon
<1>5. CASE 0 \in a
  <2>1. ShiftOut(a) = Xor(Shr(a, 1), polynomial)
      BY <1>5, Zenon DEF ShiftOut
  <2> QED BY <1>2, <1>3, <1>4, <1>5, <2>1
<1>6. CASE 0 \notin a
  <2>1. ShiftOut(a) = Shr(a, 1)
      BY <1>6, Zenon DEF ShiftOut
  <2> QED BY <1>2, <1>6, <2>1
<1> QED BY <1>5, <1>6, Zenon

\* One bit of b is shifted in: the bits still to come can be thought of as being in
\* the register already.
LEMMA FeedRound ==
    ASSUME NEW i \in Nat, NEW e \in SUBSET Ones, NEW y \in SUBSET Ones,
           NEW h \in SUBSET Ones, NEW b \in SUBSET Ones,
           i \notin h, e = Xor(y, Xor(Shr(h, i), Shr(b, i)))
    PROVE  ShiftOut(Xor(e, {0} \cap Shr(b, i)))
             = Xor(ShiftOut(y), Xor(Shr(h, i + 1), Shr(b, i + 1)))
<1> DEFINE z == Xor(e, {0} \cap Shr(b, i))
           r == Xor(ShiftOut(y), Xor(Shr(h, i + 1), Shr(b, i + 1)))
<1>1. h \in SUBSET Nat /\ b \in SUBSET Nat /\ polynomial \subseteq Nat /\ i + 1 \in Nat
    BY WordTypes
<1>2. z \in SUBSET Ones
  <2>1. {0} \cap Shr(b, i) \in SUBSET Ones
      BY WordTypes, Zenon
  <2> QED BY <2>1, WordTypes
<1>3. \A x : x \in e <=> (x \in y <=> ~(x \in Shr(h, i) <=> x \notin Shr(b, i)))
    BY XorMember
<1>4. \A x : x \in z <=> (x \in e <=> ~(x = 0 /\ x \in Shr(b, i)))
    BY XorMember
<1>5. \A x : x \in r <=> (x \in ShiftOut(y) <=> ~(x \in Shr(h, i + 1) <=> x \notin Shr(b, i + 1)))
    BY XorMember
<1>6. \A x : x \in Shr(h, i) <=> x \in Nat /\ x + i \in h
    BY <1>1, ShrMember, Zenon
<1>7. \A x : x \in Shr(b, i) <=> x \in Nat /\ x + i \in b
    BY <1>1, ShrMember, Zenon
<1>8. \A x : x \in Shr(h, i + 1) <=> x \in Nat /\ x + (i + 1) \in h
    BY <1>1, ShrMember, Zenon
<1>9. \A x : x \in Shr(b, i + 1) <=> x \in Nat /\ x + (i + 1) \in b
    BY <1>1, ShrMember, Zenon
<1>10. \A x : x \in ShiftOut(y) <=> x \in Nat /\ ((x + 1 \in y) # (0 \in y /\ x \in polynomial))
    BY ShiftOutMember, Zenon
<1>11. \A x : x \in ShiftOut(z) <=> x \in Nat /\ ((x + 1 \in z) # (0 \in z /\ x \in polynomial))
    BY <1>2, ShiftOutMember, Zenon
<1> HIDE DEF z, r
<1>12. 0 \in z <=> 0 \in y
  <2>1. 0 \notin Shr(h, i)
      BY <1>6
  <2> QED BY <1>3, <1>4, <2>1, Zenon
<1>13. ASSUME NEW x PROVE x \in ShiftOut(z) <=> x \in r
  <2>1. CASE x \notin Nat
      BY <1>5, <1>8, <1>9, <1>10, <1>11, <2>1, Zenon
  <2>2. CASE x \in Nat
    <3>1. x + 1 \in Nat /\ x + 1 # 0 /\ (x + 1) + i = x + (i + 1)
        BY <2>2
    <3>2. x + 1 \in Shr(h, i) <=> x \in Shr(h, i + 1)
        BY <1>6, <1>8, <2>2, <3>1, Zenon
    <3>3. x + 1 \in Shr(b, i) <=> x \in Shr(b, i + 1)
        BY <1>7, <1>9, <2>2, <3>1, Zenon
    <3>4. x + 1 \in z <=> x + 1 \in e
        BY <1>4, <3>1, Zenon
    <3>5. x + 1 \in z <=> (x + 1 \in y <=> ~(x \in Shr(h, i + 1) <=> x \notin Shr(b, i + 1)))
        BY <1>3, <3>2, <3>3, <3>4, Zenon
    <3>6. x \in ShiftOut(z) <=> ((x + 1 \in z) # (0 \in y /\ x \in polynomial))
        BY <1>11, <1>12, <2>2, Zenon
    <3>7. x \in ShiftOut(y) <=> ((x + 1 \in y) # (0 \in y /\ x \in polynomial))
        BY <1>10, <2>2, Zenon
    <3> HIDE <1>3, <1>4, <1>5, <1>6, <1>7, <1>8, <1>9, <1>10, <1>11
    <3>8. x \in r <=> (x \in ShiftOut(y) <=> ~(x \in Shr(h, i + 1) <=> x \notin Shr(b, i + 1)))
        BY <1>5, Zenon
    <3> QED BY <3>5, <3>6, <3>7, <3>8
  <2> QED BY <2>1, <2>2, Zenon
<1>14. ShiftOut(z) = r
    BY <1>13, Zenon
<1> QED BY <1>14, Zenon DEF z, r

\* A recursive function with such a loop as its body.
LEMMA LoopRounds ==
    ASSUME NEW N \in Nat, NEW S, NEW base \in S, NEW step, Closed(N, S, step),
           NEW g, g = [n \in 0 .. N |-> g[n]], g[0] = base,
           \A n \in 1 .. N : g[n - 1] \in S => g[n] = step[n][g[n - 1]]
    PROVE  Rounds(N, S, base, step, g)
<1> DEFINE I == {n \in Nat : n <= N => g[n] \in S}
<1>1. 0 \in I
    BY Zenon
<1>2. ASSUME NEW n \in Nat, n \in I PROVE n + 1 \in I
  <2> SUFFICES ASSUME n + 1 <= N PROVE g[n + 1] \in S
      OBVIOUS
  <2>1. n + 1 \in 1 .. N /\ (n + 1) - 1 = n /\ g[n] \in S
      BY <1>2
  <2>2. g[n + 1] = step[n + 1][g[n]]
      BY <2>1, Zenon
  <2> QED BY <2>1, <2>2, Zenon DEF Closed
<1> HIDE DEF I
<1>3. \A n \in Nat : n \in I
    BY <1>1, <1>2, Ascent, Zenon
<1>4. \A n \in 0 .. N : g[n] \in S
    BY <1>3 DEF I
<1>5. g \in [0 .. N -> S]
    BY <1>4, Zenon
<1>6. \A n \in 1 .. N : g[n] = step[n][g[n - 1]]
  <2> TAKE n \in 1 .. N
  <2>1. n - 1 \in 0 .. N
      OBVIOUS
  <2>2. g[n - 1] \in S
      BY ONLY <1>4, <2>1, Zenon
  <2>3. g[n - 1] \in S => g[n] = step[n][g[n - 1]]
      BY Zenon
  <2> QED BY ONLY <2>2, <2>3, Zenon
<1> QED BY <1>5, <1>6, Zenon DEF Rounds

Words == SUBSET Ones

Octets == SUBSET (0 .. 7)

Below(m) == SUBSET (0 .. m - 1)

\* The register, round by round, from x: without input, and with the bits of b.
Shifting(m, x, y) == y[0] = x /\ \A i \in 1 .. m : y[i] = ShiftOut(y[i - 1])

Feeding(m, c, b, e) ==
    e[0] = c /\ \A i \in 1 .. m : e[i] = ShiftOut(Xor(e[i - 1], {0} \cap Shr(b, i - 1)))

\* m bits are shifted in: the register is as if they had been in it from the start.
LEMMA FeedBits ==
    ASSUME NEW m \in 0 .. 32, NEW c \in Words, NEW b \in Below(m),
           NEW e, Feeding(m, c, b, e), NEW y, Shifting(m, Xor(c \cap (0 .. m - 1), b), y)
    PROVE  e[m] = Xor(y[m], Shr(c, m)) /\ e[m] \in Words /\ y[m] \in Words
<1> USE DEF Shifting, Feeding, Words, Below
<1> DEFINE h == c \ (0 .. m - 1)
           Ahead(i) == /\ e[i] \in SUBSET Ones /\ y[i] \in SUBSET Ones
                       /\ e[i] = Xor(y[i], Xor(Shr(h, i), Shr(b, i)))
           I == {i \in Nat : i <= m => Ahead(i)}
<1>0. m \in Nat /\ m <= 32 /\ Ones \subseteq Nat
    BY WordTypes
<1>1. h \in SUBSET Ones /\ b \in SUBSET Ones /\ h \in SUBSET Nat /\ b \in SUBSET Nat
    BY <1>0 DEF Ones
<1>2. 0 \in I
  <2>1. \A x \in Nat : x + 0 = x
      OBVIOUS
  <2>2. Shr(h, 0) = h /\ Shr(b, 0) = b
    <3>1. \A x : x \in Shr(h, 0) <=> x \in Nat /\ x + 0 \in h
        BY <1>1, ShrMember, Zenon
    <3>2. \A x : x \in Shr(b, 0) <=> x \in Nat /\ x + 0 \in b
        BY <1>1, ShrMember, Zenon
    <3> HIDE DEF h
    <3>3. \A x : x \in Shr(h, 0) <=> x \in h
        BY <1>1, <2>1, <3>1, Zenon
    <3>4. \A x : x \in Shr(b, 0) <=> x \in b
        BY <1>1, <2>1, <3>2, Zenon
    <3> QED BY <3>3, <3>4, Zenon
  <2>3. y[0] \in SUBSET Ones
      BY <1>1, WordTypes
  <2>4. c = Xor(Xor(c \cap (0 .. m - 1), b), Xor(h, b))
    <3>1. \A x : x \in Xor(Xor(c \cap (0 .. m - 1), b), Xor(h, b)) <=> x \in c
        BY Zenon DEF Xor
    <3> QED BY <3>1, Zenon
  <2> QED BY <2>2, <2>3, <2>4, Zenon
<1>3. ASSUME NEW i \in Nat, i \in I PROVE i + 1 \in I
  <2> HIDE DEF Ahead
  <2> SUFFICES ASSUME i + 1 <= m PROVE Ahead(i + 1)
      OBVIOUS
  <2>1. i + 1 \in 1 .. m /\ (i + 1) - 1 = i /\ i \in 0 .. m - 1 /\ Ahead(i)
      BY <1>0, <1>3
  <2>2. /\ e[i] \in SUBSET Ones /\ y[i] \in SUBSET Ones
        /\ e[i] = Xor(y[i], Xor(Shr(h, i), Shr(b, i)))
      BY <2>1, Zenon DEF Ahead
  <2>3. i \notin h
      BY <2>1, Zenon
  <2>4. e[i + 1] = ShiftOut(Xor(e[i], {0} \cap Shr(b, i))) /\ y[i + 1] = ShiftOut(y[i])
      BY <2>1, Zenon
  <2> HIDE DEF h
  <2>5. e[i + 1] = Xor(y[i + 1], Xor(Shr(h, i + 1), Shr(b, i + 1)))
      BY <1>1, <2>2, <2>3, <2>4, FeedRound
  <2>6. y[i + 1] \in SUBSET Ones
      BY <2>2, <2>4, WordTypes
  <2>7. i + 1 \in Nat
      OBVIOUS
  <2>8. Xor(Shr(h, i + 1), Shr(b, i + 1)) \in SUBSET Ones
      BY <1>1, <2>7, WordTypes
  <2>9. e[i + 1] \in SUBSET Ones
      BY <2>5, <2>6, <2>8, WordTypes
  <2> QED BY <2>5, <2>6, <2>9, Zenon DEF Ahead
<1> HIDE DEF I
<1>4. Ahead(m)
  <2>1. m \in I
      BY <1>0, <1>2, <1>3, Ascent, Zenon
  <2> QED BY <1>0, <2>1 DEF I
<1>5. Xor(Shr(h, m), Shr(b, m)) = Shr(c, m)
  <2>1. \A x : x \in Shr(h, m) <=> x \in Nat /\ x + m \in h
      BY <1>0, <1>1, ShrMember, Zenon
  <2>2. \A x : x \in Shr(b, m) <=> x \in Nat /\ x + m \in b
      BY <1>0, <1>1, ShrMember, Zenon
  <2>3. \A x : x \in Shr(c, m) <=> x \in Nat /\ x + m \in c
    <3>1. c \in SUBSET Nat
        BY <1>0, Zenon
    <3> QED BY <1>0, <3>1, ShrMember, Zenon
  <2>4. \A x \in Nat : x + m \notin 0 .. m - 1
      BY <1>0
  <2>5. \A x : x \in Shr(b, m) <=> FALSE
      BY <2>2, <2>4, Zenon
  <2>6. \A x : x \in Shr(h, m) <=> x \in Shr(c, m)
      BY <2>1, <2>3, <2>4, Zenon
  <2> QED BY <2>5, <2>6, Zenon DEF Xor
<1> QED BY <1>4, <1>5, Zenon

\* The register stays a word.
LEMMA ShiftsTyped ==
    ASSUME NEW m \in Nat, NEW x \in Words, NEW y, Shifting(m, x, y)
    PROVE  \A i \in 0 .. m : y[i] \in Words
<1> DEFINE I == {i \in Nat : i <= m => y[i] \in Words}
<1>1. 0 \in I
    BY Zenon DEF Shifting
<1>2. ASSUME NEW i \in Nat, i \in I PROVE i + 1 \in I
  <2> SUFFICES ASSUME i + 1 <= m PROVE y[i + 1] \in Words
      OBVIOUS
  <2>1. i + 1 \in 1 .. m /\ (i + 1) - 1 = i /\ y[i] \in Words
      BY <1>2
  <2>2. y[i + 1] = ShiftOut(y[i])
      BY <2>1, Zenon DEF Shifting
  <2> QED BY <2>1, <2>2, WordTypes DEF Words
<1> HIDE DEF I
<1>3. \A i \in Nat : i \in I
    BY <1>1, <1>2, Ascent, Zenon
<1> QED BY <1>3 DEF I

\* m rounds of the inner loop, from any word.
ShiftLoop(m, x, y) == y = [j \in 0 .. m |-> IF j = 0 THEN x ELSE ShiftOut(y[j - 1])]

\* The rounds exist, as the recursive function of the model.
LEMMA Shifts ==
    ASSUME NEW m \in Nat, NEW x \in Words
    PROVE  \E y : ShiftLoop(m, x, y) /\ Shifting(m, x, y)
<1> DEFINE step == [n \in 1 .. m |-> [w \in Words |-> ShiftOut(w)]]
<1>1. \A n \in 1 .. m, w \in Words : step[n][w] = ShiftOut(w) /\ ShiftOut(w) \in Words
    BY WordTypes, Zenon DEF Words
<1> HIDE DEF step
<1>2. Closed(m, Words, step)
    BY <1>1, Zenon DEF Closed
<1>3. PICK y : Rounds(m, Words, x, step, y)
    BY <1>2, Iteration, Zenon
<1>4. y \in [0 .. m -> Words] /\ y[0] = x /\ \A j \in 1 .. m : y[j] = step[j][y[j - 1]]
    BY <1>3, Zenon DEF Rounds
<1>5. ASSUME NEW j \in 1 .. m PROVE y[j] = ShiftOut(y[j - 1])
  <2>1. j - 1 \in 0 .. m
      OBVIOUS
  <2>2. y[j - 1] \in Words
      BY <1>4, <2>1, Zenon
  <2> QED BY <1>1, <1>4, <2>2, Zenon
<1>6. ASSUME NEW j \in 0 .. m PROVE y[j] = IF j = 0 THEN x ELSE ShiftOut(y[j - 1])
  <2>1. j # 0 => j \in 1 .. m
      OBVIOUS
  <2> QED BY <1>4, <1>5, <2>1, Zenon
<1>7. y = [j \in 0 .. m |-> IF j = 0 THEN x ELSE ShiftOut(y[j - 1])]
    BY <1>4, <1>6, Zenon
<1> QED BY <1>4, <1>5, <1>7, Zenon DEF ShiftLoop, Shifting

\* An entry of the table is eight rounds from its index.
LEMMA TableEntry ==
    ASSUME NEW x \in Octets
    PROVE  \E y : Shifting(8, x, y) /\ crc32Table[x] = y[8]
<1> DEFINE crc[j \in 0 .. 8] == IF j = 0 THEN x ELSE ShiftOut(crc[j - 1])
<1>1. x \in Words
    BY WordTypes, Zenon DEF Words, Octets
<1>2. \E y : ShiftLoop(8, x, y)
    BY <1>1, Shifts, Zenon
<1>3. crc = [j \in 0 .. 8 |-> IF j = 0 THEN x ELSE ShiftOut(crc[j - 1])]
    BY <1>2, Zenon DEF ShiftLoop
<1>4. crc32Table[x] = crc[8]
    BY Zenon DEF crc32Table, Octets
<1> HIDE DEF crc
<1>5. Shifting(8, x, crc)
    BY <1>3 DEF Shifting
<1> QED BY <1>4, <1>5, Zenon

\* NextCRC is eight bits of the division, and keeps to 32 bits.
LEMMA EightBits ==
    ASSUME NEW c \in Words, NEW b \in Octets
    PROVE  /\ NextCRC(c, b) \in Words
           /\ \A e : Feeding(8, c, b, e) => e[8] = NextCRC(c, b)
<1> DEFINE x == Xor(c \cap (0 .. 7), b)
<1>1. x \in Octets
    BY Zenon DEF Octets, Xor
<1>2. PICK y : Shifting(8, x, y) /\ crc32Table[x] = y[8]
    BY <1>1, TableEntry, Zenon
<1>3. x \in Words
    BY <1>1, WordTypes, Zenon DEF Words, Octets
<1>4. NextCRC(c, b) = Xor(Shr(c, 8), y[8])
    BY <1>2, Zenon DEF NextCRC
<1> HIDE DEF x
<1>5. y[8] \in Words
  <2>1. \A i \in 0 .. 8 : y[i] \in Words
      BY <1>2, <1>3, ShiftsTyped, Zenon
  <2> QED BY <2>1
<1>6. NextCRC(c, b) \in Words
    BY <1>4, <1>5, WordTypes DEF Words
<1>7. ASSUME NEW e, Feeding(8, c, b, e) PROVE e[8] = NextCRC(c, b)
  <2>1. PICK m : m = 8
      BY Zenon
  <2>2. m \in 0 .. 32 /\ m - 1 = 7
      BY <2>1
  <2>3. e[8] = Xor(y[8], Shr(c, 8))
    <3>1. b \in Below(m) /\ Feeding(m, c, b, e)
        BY <1>7, <2>1, <2>2, Zenon DEF Octets, Below
    <3>2. Shifting(m, Xor(c \cap (0 .. m - 1), b), y)
        BY <1>2, <2>1, <2>2, Zenon DEF x
    <3>3. e[m] = Xor(y[m], Shr(c, m))
        BY ONLY <2>2, <3>1, <3>2, FeedBits
    <3> QED BY <2>1, <3>3, Zenon
  <2>4. Xor(y[8], Shr(c, 8)) = Xor(Shr(c, 8), y[8])
      BY Zenon DEF Xor
  <2> QED BY <1>4, <2>3, <2>4, Zenon
<1> QED BY <1>6, <1>7, Zenon

\* The register of calculateCRC32 after each byte.
Register(data, f) ==
    /\ f \in [0 .. Len(data) -> Words]
    /\ f[0] = Ones /\ \A n \in 1 .. Len(data) : f[n] = NextCRC(f[n - 1], data[n])

\* calculateCRC32 is the register after the last byte, inverted.
LEMMA RegisterOf ==
    ASSUME NEW data \in Seq(Octets)
    PROVE  \E f : Register(data, f) /\ calculateCRC32(data) = Xor(f[Len(data)], Ones)
<1> DEFINE N == Len(data)
           step == [n \in 1 .. N |-> [x \in Words |-> NextCRC(x, data[n])]]
           crc[n \in 0 .. N] == IF n = 0 THEN Ones ELSE NextCRC(crc[n - 1], data[n])
<1>1. N \in Nat /\ Ones \in Words /\ \A n \in 1 .. N : data[n] \in Octets
    BY DEF Words
<1>2. \A n \in 1 .. N, x \in Words :
        step[n][x] = NextCRC(x, data[n]) /\ NextCRC(x, data[n]) \in Words
    BY <1>1, EightBits, Zenon
<1> HIDE DEF step
<1>3. Closed(N, Words, step)
    BY <1>2, Zenon DEF Closed
<1>4. PICK f : Rounds(N, Words, Ones, step, f)
    BY <1>1, <1>3, Iteration, Zenon
<1>5. f = [n \in 0 .. N |-> IF n = 0 THEN Ones ELSE NextCRC(f[n - 1], data[n])]
  <2>1. f \in [0 .. N -> Words] /\ f[0] = Ones /\ \A n \in 1 .. N : f[n] = step[n][f[n - 1]]
      BY <1>4, Zenon DEF Rounds
  <2>2. ASSUME NEW n \in 0 .. N, n # 0 PROVE f[n] = NextCRC(f[n - 1], data[n])
    <3>1. n \in 1 .. N /\ n - 1 \in 0 .. N
        BY <1>1, <2>2
    <3>2. f[n - 1] \in Words
        BY <2>1, <3>1, Zenon
    <3> QED BY <1>2, <2>1, <3>1, <3>2, Zenon
  <2> QED BY <2>1, <2>2, Zenon
<1>6. crc = [n \in 0 .. N |-> IF n = 0 THEN Ones ELSE NextCRC(crc[n - 1], data[n])]
    BY ONLY <1>5, SMTT(20)
<1>7. calculateCRC32(data) = Xor(crc[Len(data)], Ones)
    BY Zenon DEF calculateCRC32
<1> HIDE DEF crc
<1>8. crc[0] = Ones /\ \A n \in 1 .. N : crc[n] = NextCRC(crc[n - 1], data[n])
  <2>1. 0 \in 0 .. N /\ \A n \in 1 .. N : n \in 0 .. N /\ n # 0
      BY <1>1
  <2> QED BY <1>6, <2>1, Zenon
<1>9. Rounds(N, Words, Ones, step, crc)
  <2>1. crc = [n \in 0 .. N |-> crc[n]]
      BY <1>6, Zenon
  <2>2. ASSUME NEW n \in 1 .. N, crc[n - 1] \in Words PROVE crc[n] = step[n][crc[n - 1]]
    <3>1. crc[n] = NextCRC(crc[n - 1], data[n])
        BY ONLY <1>8, <2>2, Zenon
    <3> QED BY ONLY <1>2, <2>2, <3>1, Zenon
  <2> QED BY <1>1, <1>3, <1>8, <2>1, <2>2, LoopRounds, Zenon
<1>10. crc \in [0 .. N -> Words]
    BY <1>9, Zenon DEF Rounds
<1> QED BY <1>7, <1>8, <1>10, Zenon DEF Register

\* The register of the division after each bit.
BitOf(data, k) == {0} \cap {i - ((k - 1) % 8) : i \in data[1 + ((k - 1) \div 8)]}

Division(data, f) ==
    /\ f \in [0 .. 8 * Len(data) -> Words]
    /\ f[0] = Ones /\ \A k \in 1 .. 8 * Len(data) : f[k] = ShiftOut(Xor(f[k - 1], BitOf(data, k)))

\* Remainder is the register after the last bit, inverted.
LEMMA DivisionOf ==
    ASSUME NEW data \in Seq(Octets)
    PROVE  \E f : Division(data, f) /\ Remainder(data) = Xor(f[8 * Len(data)], Ones)
<1> DEFINE N == 8 * Len(data)
           step == [k \in 1 .. N |-> [x \in Words |-> ShiftOut(Xor(x, BitOf(data, k)))]]
           rest[k \in 0 .. N] == IF k = 0 THEN Ones ELSE ShiftOut(Xor(rest[k - 1], BitOf(data, k)))
<1>1. N \in Nat /\ Ones \in Words
    BY DEF Words
<1>2. \A k \in 1 .. N, x \in Words :
        step[k][x] = ShiftOut(Xor(x, BitOf(data, k))) /\ ShiftOut(Xor(x, BitOf(data, k))) \in Words
  <2> TAKE k \in 1 .. N, x \in Words
  <2>1. BitOf(data, k) \in Words
      BY DEF BitOf, Words, Ones
  <2>2. ShiftOut(Xor(x, BitOf(data, k))) \in Words
      BY <2>1, WordTypes DEF Words
  <2> QED BY <2>2, Zenon
<1>3. Remainder(data) = Xor(rest[N], Ones)
    BY Zenon DEF Remainder, BitOf
<1> HIDE DEF step, N
<1>4. Closed(N, Words, step)
    BY <1>2, Zenon DEF Closed
<1>5. PICK f : Rounds(N, Words, Ones, step, f)
    BY <1>1, <1>4, Iteration, Zenon
<1>6. f = [k \in 0 .. N |-> IF k = 0 THEN Ones ELSE ShiftOut(Xor(f[k - 1], BitOf(data, k)))]
  <2>1. f \in [0 .. N -> Words] /\ f[0] = Ones /\ \A k \in 1 .. N : f[k] = step[k][f[k - 1]]
      BY <1>5, Zenon DEF Rounds
  <2>2. ASSUME NEW k \in 0 .. N, k # 0 PROVE f[k] = ShiftOut(Xor(f[k - 1], BitOf(data, k)))
    <3>1. k \in 1 .. N /\ k - 1 \in 0 .. N
        BY <1>1, <2>2
    <3>2. f[k - 1] \in Words
        BY <2>1, <3>1, Zenon
    <3> QED BY <1>2, <2>1, <3>1, <3>2, Zenon
  <2> QED BY <2>1, <2>2, Zenon
<1>7. rest = [k \in 0 .. N |-> IF k = 0 THEN Ones ELSE ShiftOut(Xor(rest[k - 1], BitOf(data, k)))]
    BY <1>6, Zenon
<1> HIDE DEF rest
<1>8. rest[0] = Ones /\ \A k \in 1 .. N : rest[k] = ShiftOut(Xor(rest[k - 1], BitOf(data, k)))
  <2>1. 0 \in 0 .. N /\ \A k \in 1 .. N : k \in 0 .. N /\ k # 0
      BY <1>1
  <2> QED BY <1>7, <2>1, Zenon
<1>9. Rounds(N, Words, Ones, step, rest)
  <2>1. rest = [k \in 0 .. N |-> rest[k]]
      BY <1>7, Zenon
  <2>2. ASSUME NEW k \in 1 .. N, rest[k - 1] \in Words PROVE rest[k] = step[k][rest[k - 1]]
    <3>1. rest[k] = ShiftOut(Xor(rest[k - 1], BitOf(data, k)))
        BY ONLY <1>8, <2>2, Zenon
    <3> QED BY ONLY <1>2, <2>2, <3>1, Zenon
  <2> QED BY <1>1, <1>4, <1>8, <2>1, <2>2, LoopRounds, Zenon
<1>10. rest \in [0 .. N -> Words]
    BY <1>9, Zenon DEF Rounds
<1> QED BY <1>3, <1>8, <1>10, Zenon DEF Division, N

\* Bit i of byte n + 1.
LEMMA BitIs ==
    ASSUME NEW data \in Seq(Octets), NEW n \in Nat, NEW i \in 1 .. 8, n + 1 \in 1 .. Len(data)
    PROVE  BitOf(data, 8 * n + i) = {0} \cap Shr(data[n + 1], i - 1)
<1>1. ((8 * n + i) - 1) % 8 = i - 1 /\ 1 + (((8 * n + i) - 1) \div 8) = n + 1
    OBVIOUS
<1>2. PICK b : b = data[n + 1]
    BY Zenon
<1>3. b \subseteq 0 .. 7
    BY <1>2 DEF Octets
<1>4. BitOf(data, 8 * n + i) = {0} \cap {j - (i - 1) : j \in b}
    BY <1>1, <1>2, Zenon DEF BitOf
<1>5. {0} \cap {j - (i - 1) : j \in b} = {0} \cap Shr(b, i - 1)
    BY ONLY <1>3, i \in 1 .. 8 DEF Shr
<1> QED BY <1>2, <1>4, <1>5, Zenon

\* A byte taken from the table is eight bits of the division.
LEMMA TableDivides ==
    ASSUME NEW data \in Seq(Octets)
    PROVE  calculateCRC32(data) = Remainder(data)
<1>1. PICK f : Register(data, f) /\ calculateCRC32(data) = Xor(f[Len(data)], Ones)
    BY RegisterOf, Zenon
<1>2. PICK g : Division(data, g) /\ Remainder(data) = Xor(g[8 * Len(data)], Ones)
    BY DivisionOf, Zenon
<1>3. Len(data) \in Nat
    OBVIOUS
<1> DEFINE I == {n \in Nat : n <= Len(data) => g[8 * n] = f[n]}
<1>4. 0 \in I
    BY <1>1, <1>2 DEF Register, Division
<1>5. ASSUME NEW n \in Nat, n \in I PROVE n + 1 \in I
  <2> SUFFICES ASSUME n + 1 <= Len(data) PROVE g[8 * (n + 1)] = f[n + 1]
      OBVIOUS
  <2> DEFINE e == [i \in 0 .. 8 |-> g[8 * n + i]]
  <2>1. /\ n + 1 \in 1 .. Len(data) /\ n \in 0 .. Len(data) /\ (n + 1) - 1 = n
        /\ g[8 * n] = f[n] /\ 8 * n + 0 = 8 * n /\ 8 * n + 8 = 8 * (n + 1)
      BY <1>3, <1>5
  <2>2. f[n] \in Words /\ f[n + 1] = NextCRC(f[n], data[n + 1]) /\ data[n + 1] \in Octets
      BY <1>1, <2>1 DEF Register
  <2>3. ASSUME NEW i \in 1 .. 8
        PROVE  e[i] = ShiftOut(Xor(e[i - 1], {0} \cap Shr(data[n + 1], i - 1)))
    <3>1. 8 * n + i \in 1 .. 8 * Len(data) /\ (8 * n + i) - 1 = 8 * n + (i - 1) /\ i - 1 \in 0 .. 8
        BY <1>3, <2>1
    <3>2. g[8 * n + i] = ShiftOut(Xor(g[(8 * n + i) - 1], BitOf(data, 8 * n + i)))
        BY <1>2, <3>1, Zenon DEF Division
    <3>3. e[i] = g[8 * n + i] /\ e[i - 1] = g[8 * n + (i - 1)]
        BY <3>1
    <3>4. BitOf(data, 8 * n + i) = {0} \cap Shr(data[n + 1], i - 1)
        BY <2>1, BitIs, Zenon
    <3> QED BY <3>1, <3>2, <3>3, <3>4, Zenon
  <2>4. e[0] = f[n] /\ e[8] = g[8 * (n + 1)]
      BY <2>1
  <2> HIDE DEF e
  <2>5. Feeding(8, f[n], data[n + 1], e)
      BY <2>3, <2>4, Zenon DEF Feeding
  <2>6. e[8] = NextCRC(f[n], data[n + 1])
      BY <2>2, <2>5, EightBits, Zenon
  <2> QED BY <2>2, <2>4, <2>6, Zenon
<1> HIDE DEF I
<1>6. Len(data) \in I
    BY <1>3, <1>4, <1>5, Ascent, Zenon
<1>7. g[8 * Len(data)] = f[Len(data)]
    BY <1>3, <1>6 DEF I
<1> QED BY <1>1, <1>2, <1>7, Zenon

\* The bytes of a message, and their number.
Composed ==
    /\ msgTopic \in Seq(ByteValues) /\ Len(msgTopic) <= MaxText
    /\ msgPayload \in Seq(ByteValues) /\ Len(msgPayload) <= MaxData

\* Composed is an invariant.
LEMMA MessagesComposed == CodecSpec => []Composed
<1>1. CodecInit => Composed
    BY CodecAssumption DEF CodecInit, Composed
<1>2. Composed /\ [CodecNext]_codecVars => Composed'
  <2> SUFFICES ASSUME Composed, [CodecNext]_codecVars PROVE Composed'
      BY Zenon
  <2>1. CASE Compose
    <3>1. MaxText \in Nat /\ MaxData \in Nat
        BY CodecAssumption
    <3>2. \A s \in Seq(ByteValues), b \in ByteValues :
            Append(s, b) \in Seq(ByteValues) /\ Len(Append(s, b)) = Len(s) + 1 /\ Len(s) \in Nat
        OBVIOUS
    <3>3. PICK b \in ByteValues :
            \/ /\ Len(msgTopic) < MaxText /\ msgTopic' = Append(msgTopic, b)
               /\ UNCHANGED msgPayload
            \/ /\ Len(msgPayload) < MaxData /\ msgPayload' = Append(msgPayload, b)
               /\ UNCHANGED msgTopic
        BY <2>1, Zenon DEF Compose
    <3>4. CASE /\ Len(msgTopic) < MaxText /\ msgTopic' = Append(msgTopic, b)
               /\ UNCHANGED msgPayload
      <4>1. msgTopic' \in Seq(ByteValues) /\ Len(msgTopic') = Len(msgTopic) + 1 /\ Len(msgTopic) \in Nat
          BY <3>2, <3>4, Zenon DEF Composed
      <4> QED BY <3>1, <3>4, <4>1 DEF Composed
    <3>5. CASE /\ Len(msgPayload) < MaxData /\ msgPayload' = Append(msgPayload, b)
               /\ UNCHANGED msgTopic
      <4>1. /\ msgPayload' \in Seq(ByteValues)
            /\ Len(msgPayload') = Len(msgPayload) + 1 /\ Len(msgPayload) \in Nat
          BY <3>2, <3>5, Zenon DEF Composed
      <4> QED BY <3>1, <3>5, <4>1 DEF Composed
    <3> QED BY <3>3, <3>4, <3>5, Zenon
  <2>2. CASE Transmit
      BY <2>2, Zenon DEF Composed, Transmit
  <2>3. CASE Damage
      BY <2>3, Zenon DEF Composed, Damage
  <2>4. CASE UNCHANGED codecVars
      BY <2>4, Zenon DEF Composed, codecVars
  <2> QED BY <2>1, <2>2, <2>3, <2>4, Zenon DEF CodecNext
<1> QED BY <1>1, <1>2, PTL DEF CodecSpec

\* calculateCRC32, which takes a byte at a time from its table, computes the remainder of
\* the bitwise division by the polynomial, for every message of bytes.
THEOREM ChecksumIsTheRemainder == CodecSpec => []TableIsDivision
<1>1. Composed => TableIsDivision
  <2> SUFFICES ASSUME Composed
               PROVE  calculateCRC32(msgTopic \o msgPayload) = Remainder(msgTopic \o msgPayload)
      BY Zenon DEF TableIsDivision
  <2>1. msgTopic \o msgPayload \in Seq(Octets)
    <3>1. ByteValues \subseteq Octets
        BY CodecAssumption DEF Octets
    <3>2. msgTopic \in Seq(Octets) /\ msgPayload \in Seq(Octets)
        BY <3>1 DEF Composed
    <3> QED BY <3>2
  <2> QED BY <2>1, TableDivides, Zenon
<1> QED BY <1>1, MessagesComposed, PTL

-----------------------------------------------------------------------------
\* The rounds are determined by the register they start from.
LEMMA ShiftsUnique ==
    ASSUME NEW m \in Nat, NEW x, NEW y, NEW z, Shifting(m, x, y), Shifting(m, x, z)
    PROVE  y[m] = z[m]
<1> DEFINE I == {i \in Nat : i <= m => y[i] = z[i]}
<1>1. 0 \in I
    BY Zenon DEF Shifting
<1>2. ASSUME NEW i \in Nat, i \in I PROVE i + 1 \in I
  <2> SUFFICES ASSUME i + 1 <= m PROVE y[i + 1] = z[i + 1]
      OBVIOUS
  <2>1. i + 1 \in 1 .. m /\ (i + 1) - 1 = i /\ y[i] = z[i]
      BY <1>2
  <2>2. y[i + 1] = ShiftOut(y[(i + 1) - 1]) /\ z[i + 1] = ShiftOut(z[(i + 1) - 1])
      BY <2>1, Zenon DEF Shifting
  <2> QED BY <2>1, <2>2, Zenon
<1> HIDE DEF I
<1>3. m \in I
    BY <1>1, <1>2, Ascent, Zenon
<1> QED BY <1>3 DEF I

\* A round of the loop in qdp_crc32_init is one of the loop in Go.
LEMMA SameRound ==
    ASSUME NEW w
    PROVE  qdp_crc32_init(w) = ShiftOut(w)
<1>1. Xor(Shr(w, 1), {}) = Shr(w, 1)
    BY Zenon DEF Xor
<1> QED BY <1>1, Zenon DEF qdp_crc32_init, ShiftOut

\* The two libraries fill the table alike,
LEMMA SameTable ==
    ASSUME NEW x \in Octets
    PROVE  qdp_crc32_table[x] = crc32Table[x]
<1> DEFINE crc[j \in 0 .. 8] == IF j = 0 THEN x ELSE qdp_crc32_init(crc[j - 1])
<1>1. x \in Words
    BY WordTypes, Zenon DEF Words, Octets
<1>2. PICK y : ShiftLoop(8, x, y)
    BY <1>1, Shifts, Zenon
<1>3. y = [j \in 0 .. 8 |-> IF j = 0 THEN x ELSE qdp_crc32_init(y[j - 1])]
    BY <1>2, SameRound, Zenon DEF ShiftLoop
<1>4. crc = [j \in 0 .. 8 |-> IF j = 0 THEN x ELSE qdp_crc32_init(crc[j - 1])]
    BY <1>3, Zenon
<1>5. qdp_crc32_table[x] = crc[8]
    BY Zenon DEF qdp_crc32_table, Octets
<1> HIDE DEF crc
<1>6. Shifting(8, x, crc)
    BY <1>4, SameRound DEF Shifting
<1>7. PICK z : Shifting(8, x, z) /\ crc32Table[x] = z[8]
    BY TableEntry, Zenon
<1>8. crc[8] = z[8]
  <2>1. PICK m : m = 8
      BY Zenon
  <2>2. crc[m] = z[m]
      BY <1>6, <1>7, <2>1, ShiftsUnique
  <2> QED BY <2>1, <2>2, Zenon
<1> QED BY <1>5, <1>7, <1>8, Zenon

\* and take a byte alike.
LEMMA SameByte ==
    ASSUME NEW c \in Words, NEW b \in Octets
    PROVE  NextC(c, b) = NextCRC(c, b)
<1>1. Xor(c, b) \cap 0 .. 7 = Xor(c \cap 0 .. 7, b)
    BY Zenon DEF Xor, Octets
<1>2. Xor(c \cap 0 .. 7, b) \in Octets
    BY Zenon DEF Xor, Octets
<1> QED BY <1>1, <1>2, SameTable, Zenon DEF NextC, NextCRC

\* The two libraries compute the same checksum of the same bytes.
LEMMA SameChecksum ==
    ASSUME NEW data \in Seq(Octets)
    PROVE  qdp_calc_crc32(data) = calculateCRC32(data)
<1> DEFINE N == Len(data)
           step == [n \in 1 .. N |-> [x \in Words |-> NextCRC(x, data[n])]]
           crc[n \in 0 .. N] == IF n = 0 THEN Ones ELSE NextC(crc[n - 1], data[n])
<1>1. N \in Nat /\ Ones \in Words /\ \A n \in 1 .. N : data[n] \in Octets
    BY DEF Words
<1>2. \A n \in 1 .. N, x \in Words :
        step[n][x] = NextCRC(x, data[n]) /\ NextCRC(x, data[n]) \in Words
    BY <1>1, EightBits, Zenon
<1> HIDE DEF step
<1>3. Closed(N, Words, step)
    BY <1>2, Zenon DEF Closed
<1>4. PICK f : Register(data, f) /\ calculateCRC32(data) = Xor(f[Len(data)], Ones)
    BY RegisterOf, Zenon
<1>5. f \in [0 .. N -> Words] /\ f[0] = Ones /\ \A n \in 1 .. N : f[n] = NextCRC(f[n - 1], data[n])
    BY <1>4, Zenon DEF Register
<1>6. f = [n \in 0 .. N |-> IF n = 0 THEN Ones ELSE NextC(f[n - 1], data[n])]
  <2>1. ASSUME NEW n \in 0 .. N, n # 0 PROVE f[n] = NextC(f[n - 1], data[n])
    <3>1. n \in 1 .. N /\ n - 1 \in 0 .. N
        BY <1>1, <2>1
    <3>2. f[n - 1] \in Words /\ data[n] \in Octets
        BY <1>1, <1>5, <3>1, Zenon
    <3> QED BY <1>5, <3>1, <3>2, SameByte, Zenon
  <2> QED BY <1>5, <2>1, Zenon
<1>7. crc = [n \in 0 .. N |-> IF n = 0 THEN Ones ELSE NextC(crc[n - 1], data[n])]
    BY ONLY <1>6, SMTT(20)
<1>8. qdp_calc_crc32(data) = Xor(crc[Len(data)], Ones)
    BY Zenon DEF qdp_calc_crc32
<1> HIDE DEF crc
<1>9. crc[0] = Ones /\ \A n \in 1 .. N : crc[n] = NextC(crc[n - 1], data[n])
  <2>1. 0 \in 0 .. N /\ \A n \in 1 .. N : n \in 0 .. N /\ n # 0
      BY <1>1
  <2> QED BY <1>7, <2>1, Zenon
<1>10. Rounds(N, Words, Ones, step, crc)
  <2>1. crc = [n \in 0 .. N |-> crc[n]]
      BY <1>7, Zenon
  <2>2. ASSUME NEW n \in 1 .. N, crc[n - 1] \in Words PROVE crc[n] = step[n][crc[n - 1]]
    <3>1. PICK x : x = crc[n - 1]
        BY Zenon
    <3>2. x \in Words /\ data[n] \in Octets
        BY ONLY <1>1, <2>2, <3>1, Zenon
    <3>3. crc[n] = NextC(x, data[n])
        BY ONLY <1>9, <2>2, <3>1, Zenon
    <3>4. NextC(x, data[n]) = NextCRC(x, data[n])
        BY ONLY <3>2, SameByte, Zenon
    <3>5. step[n][x] = NextCRC(x, data[n])
        BY ONLY <1>2, <2>2, <3>2, Zenon
    <3> QED BY ONLY <3>1, <3>3, <3>4, <3>5, Zenon
  <2> QED BY <1>1, <1>3, <1>9, <2>1, <2>2, LoopRounds, Zenon
<1>11. Rounds(N, Words, Ones, step, f)
  <2>1. f = [n \in 0 .. N |-> f[n]]
      BY <1>5, Zenon
  <2>2. \A n \in 1 .. N : f[n - 1] \in Words => f[n] = step[n][f[n - 1]]
      BY <1>2, <1>5, Zenon
  <2> QED BY <1>1, <1>3, <1>5, <2>1, <2>2, LoopRounds, Zenon
<1>12. crc = f
    BY <1>1, <1>10, <1>11, RoundsUnique, Zenon
<1> QED BY <1>4, <1>8, <1>12, Zenon

-----------------------------------------------------------------------------
\* A word's four bytes give the word back, wherever they are in the data.
LEMMA WordFromBytes ==
    ASSUME NEW w \in Words, NEW data, NEW from \in Nat,
           \A k \in 1 .. 4 : data[from + (k - 1)] = PutUint32(w)[k]
    PROVE  Uint32(data, from) = w
<1>1. ASSUME NEW i \in Ones PROVE (i % 8) \in data[from + (i \div 8)] <=> i \in w
  <2>1. PICK q, r : q = i \div 8 /\ r = i % 8
      BY Zenon
  <2>2. q \in 0 .. 3 /\ r \in 0 .. 7 /\ i = 8 * q + r
      BY <2>1 DEF Ones
  <2>3. q + 1 \in 1 .. 4 /\ (q + 1) - 1 = q /\ r + 8 * q = i
      BY <2>2 DEF Ones
  <2>4. data[from + q] = PutUint32(w)[q + 1]
      BY <2>3, Zenon
  <2>5. PutUint32(w)[q + 1] = {j \in 0 .. 7 : j + 8 * q \in w}
      BY <2>3, Zenon DEF PutUint32
  <2>6. r \in data[from + q] <=> i \in w
      BY <2>2, <2>3, <2>4, <2>5, Zenon
  <2> QED BY <2>1, <2>6, Zenon
<1>2. \A i : i \in Uint32(data, from) <=> i \in Ones /\ (i % 8) \in data[from + (i \div 8)]
    BY Zenon DEF Uint32
<1>3. \A i : i \in Uint32(data, from) <=> i \in w
    BY <1>1, <1>2, Zenon DEF Words
<1> QED BY <1>3, Zenon

\* PutUint32 gives four bytes.
LEMMA WordBytes ==
    ASSUME NEW w
    PROVE  PutUint32(w) \in Seq(Octets) /\ Len(PutUint32(w)) = 4
<1> DEFINE b(k) == {i \in 0 .. 7 : i + 8 * (k - 1) \in w}
<1>1. PutUint32(w) = [k \in 1 .. 4 |-> b(k)]
    BY Zenon DEF PutUint32
<1>2. \A k \in 1 .. 4 : b(k) \in Octets
    BY Zenon DEF Octets
<1> HIDE DEF b
<1>3. [k \in 1 .. 4 |-> b(k)] \in Seq(Octets)
    BY <1>2
<1>4. Len([k \in 1 .. 4 |-> b(k)]) = 4
    OBVIOUS
<1> QED BY <1>1, <1>3, <1>4, Zenon

\* The value of a word's low half, from its high bit down.
Horner(w, v) ==
    /\ v \in [0 .. 16 -> Nat] /\ v[0] = 0
    /\ \A k \in 1 .. 16 : v[k] = 2 * v[k - 1] + (IF 16 - k \in w THEN 1 ELSE 0)

\* LowHalf has such values.
LEMMA LowHalfOf ==
    ASSUME NEW w
    PROVE  \E v : Horner(w, v) /\ LowHalf(w) = v[16]
<1> DEFINE step == [k \in 1 .. 16 |-> [x \in Nat |-> 2 * x + (IF 16 - k \in w THEN 1 ELSE 0)]]
           value[k \in 0 .. 16] ==
             IF k = 0 THEN 0 ELSE 2 * value[k - 1] + (IF 16 - k \in w THEN 1 ELSE 0)
<1>1. \A k \in 1 .. 16, x \in Nat :
        /\ step[k][x] = 2 * x + (IF 16 - k \in w THEN 1 ELSE 0)
        /\ 2 * x + (IF 16 - k \in w THEN 1 ELSE 0) \in Nat
  <2> TAKE k \in 1 .. 16, x \in Nat
  <2>1. PICK b : b = IF 16 - k \in w THEN 1 ELSE 0
      BY Zenon
  <2>2. 2 * x + b \in Nat
    <3>1. b \in {0, 1}
        BY ONLY <2>1, Zenon
    <3> QED BY ONLY <3>1, x \in Nat
  <2>3. step[k][x] = 2 * x + (IF 16 - k \in w THEN 1 ELSE 0)
      BY ONLY k \in 1 .. 16, x \in Nat, Zenon
  <2> QED BY ONLY <2>1, <2>2, <2>3, Zenon
<1>2. LowHalf(w) = value[16]
    BY Zenon DEF LowHalf
<1> HIDE DEF step
<1>3. Closed(16, Nat, step)
    BY <1>1, Zenon DEF Closed
<1>4. PICK f : Rounds(16, Nat, 0, step, f)
  <2>1. PICK N : N = 16
      BY Zenon
  <2>2. N \in Nat /\ Closed(N, Nat, step) /\ 0 \in Nat
      BY <1>3, <2>1, Zenon
  <2>3. \E f : Rounds(N, Nat, 0, step, f)
      BY <2>2, Iteration, Zenon
  <2> QED BY <2>1, <2>3, Zenon
<1>5. f = [k \in 0 .. 16 |->
             IF k = 0 THEN 0 ELSE 2 * f[k - 1] + (IF 16 - k \in w THEN 1 ELSE 0)]
  <2>1. f \in [0 .. 16 -> Nat] /\ f[0] = 0 /\ \A k \in 1 .. 16 : f[k] = step[k][f[k - 1]]
      BY <1>4, Zenon DEF Rounds
  <2>2. ASSUME NEW k \in 0 .. 16, k # 0
        PROVE  f[k] = 2 * f[k - 1] + (IF 16 - k \in w THEN 1 ELSE 0)
    <3>1. k \in 1 .. 16 /\ k - 1 \in 0 .. 16
        BY <2>2
    <3>2. f[k - 1] \in Nat
        BY <2>1, <3>1, Zenon
    <3>3. f[k] = step[k][f[k - 1]]
        BY <2>1, <3>1, Zenon
    <3>4. step[k][f[k - 1]] = 2 * f[k - 1] + (IF 16 - k \in w THEN 1 ELSE 0)
        BY <1>1, <3>1, <3>2, Zenon
    <3> QED BY <3>3, <3>4, Zenon
  <2> QED BY <2>1, <2>2, Zenon
<1>6. value = [k \in 0 .. 16 |->
                 IF k = 0 THEN 0 ELSE 2 * value[k - 1] + (IF 16 - k \in w THEN 1 ELSE 0)]
    BY <1>5, Zenon
<1> HIDE DEF value
<1>7. value[0] = 0 /\ \A k \in 1 .. 16 : value[k] = 2 * value[k - 1] + (IF 16 - k \in w THEN 1 ELSE 0)
  <2>1. 0 \in 0 .. 16 /\ \A k \in 1 .. 16 : k \in 0 .. 16 /\ k # 0
      OBVIOUS
  <2> QED BY <1>6, <2>1, Zenon
<1>8. Rounds(16, Nat, 0, step, value)
  <2>1. value = [k \in 0 .. 16 |-> value[k]]
      BY <1>6, Zenon
  <2>2. \A k \in 1 .. 16 : value[k - 1] \in Nat => value[k] = step[k][value[k - 1]]
      BY <1>1, <1>7, Zenon
  <2>3. PICK N : N = 16
      BY Zenon
  <2>4. /\ N \in Nat /\ Closed(N, Nat, step) /\ 0 \in Nat /\ value = [k \in 0 .. N |-> value[k]]
        /\ \A k \in 1 .. N : value[k - 1] \in Nat => value[k] = step[k][value[k - 1]]
      BY <1>3, <2>1, <2>2, <2>3, Zenon
  <2>5. Rounds(N, Nat, 0, step, value)
      BY <1>7, <2>4, LoopRounds, Zenon
  <2> QED BY <2>3, <2>5, Zenon
<1>9. value \in [0 .. 16 -> Nat]
    BY <1>8, Zenon DEF Rounds
<1> QED BY <1>2, <1>7, <1>9, Zenon DEF Horner

\* The halvings from which the bits of a number are taken.
Halving(n, r) ==
    r \in [0 .. 31 -> Nat] /\ r[0] = n /\ \A i \in 1 .. 31 : r[i] = r[i - 1] \div 2

\* Word takes the bits from such halvings.
LEMMA WordOf ==
    ASSUME NEW n \in Nat
    PROVE  \E r : Halving(n, r) /\ Word(n) = {i \in 0 .. 31 : r[i] % 2 = 1}
<1> DEFINE step == [i \in 1 .. 31 |-> [x \in Nat |-> x \div 2]]
           rest[i \in 0 .. 31] == IF i = 0 THEN n ELSE rest[i - 1] \div 2
<1>1. \A i \in 1 .. 31, x \in Nat : step[i][x] = x \div 2 /\ x \div 2 \in Nat
    OBVIOUS
<1>2. Word(n) = {i \in 0 .. 31 : rest[i] % 2 = 1}
    BY Zenon DEF Word
<1> HIDE DEF step
<1>3. PICK N : N = 31
    BY Zenon
<1>4. Closed(N, Nat, step) /\ N \in Nat
    BY <1>1, <1>3, Zenon DEF Closed
<1>5. PICK f : Rounds(N, Nat, n, step, f)
    BY <1>4, Iteration, Zenon
<1>6. f = [i \in 0 .. 31 |-> IF i = 0 THEN n ELSE f[i - 1] \div 2]
  <2>1. f \in [0 .. 31 -> Nat] /\ f[0] = n /\ \A i \in 1 .. 31 : f[i] = step[i][f[i - 1]]
      BY <1>3, <1>5, Zenon DEF Rounds
  <2>2. ASSUME NEW i \in 0 .. 31, i # 0 PROVE f[i] = f[i - 1] \div 2
    <3>1. i \in 1 .. 31 /\ i - 1 \in 0 .. 31
        BY <2>2
    <3>2. f[i - 1] \in Nat
        BY <2>1, <3>1, Zenon
    <3> QED BY <1>1, <2>1, <3>1, <3>2, Zenon
  <2> QED BY <2>1, <2>2, Zenon
<1>7. rest = [i \in 0 .. 31 |-> IF i = 0 THEN n ELSE rest[i - 1] \div 2]
    BY <1>6, Zenon
<1> HIDE DEF rest
<1>8. rest[0] = n /\ \A i \in 1 .. 31 : rest[i] = rest[i - 1] \div 2
  <2>1. 0 \in 0 .. 31 /\ \A i \in 1 .. 31 : i \in 0 .. 31 /\ i # 0
      OBVIOUS
  <2> QED BY <1>7, <2>1, Zenon
<1>9. Rounds(N, Nat, n, step, rest)
  <2>1. /\ rest = [i \in 0 .. N |-> rest[i]]
        /\ \A i \in 1 .. N : rest[i - 1] \in Nat => rest[i] = step[i][rest[i - 1]]
      BY <1>1, <1>3, <1>7, <1>8, Zenon
  <2> QED BY <1>4, <1>8, <2>1, LoopRounds, Zenon
<1>10. rest \in [0 .. 31 -> Nat]
    BY <1>3, <1>9, Zenon DEF Rounds
<1> QED BY <1>2, <1>8, <1>10, Zenon DEF Halving

\* The numbers that a half holds.
HalfRange == {n \in Nat : n < 65536}

\* In the form in which the halvings use it.
LEMMA HalfNumbers == \A n \in HalfRange : n \in Nat /\ n < 16 * 4096
BY SMT DEF HalfRange

\* Nothing is left after sixteen halvings.
LEMMA SixteenHalvings ==
    ASSUME NEW n \in HalfRange, NEW r, Halving(n, r)
    PROVE  \A i \in 16 .. 31 : r[i] = 0
<1>1. \A i \in 0 .. 30 : r[i] \in Nat /\ r[i + 1] \in Nat /\ r[i + 1] = r[i] \div 2
  <2> TAKE i \in 0 .. 30
  <2>1. i + 1 \in 1 .. 31 /\ (i + 1) - 1 = i /\ i \in 0 .. 31 /\ i + 1 \in 0 .. 31
      OBVIOUS
  <2> QED BY <2>1, Zenon DEF Halving
<1>2. \A i \in 0 .. 27 : /\ i + 1 \in 0 .. 30 /\ i + 2 \in 0 .. 30 /\ i + 3 \in 0 .. 30 /\ i \in 0 .. 30
                         /\ (i + 1) + 1 = i + 2 /\ (i + 2) + 1 = i + 3 /\ (i + 3) + 1 = i + 4
    OBVIOUS
<1>3. ASSUME NEW i \in 0 .. 27, NEW q \in Nat, r[i] < 16 * q PROVE r[i + 4] < q
  <2>1. /\ r[i + 1] = r[i] \div 2 /\ r[i + 2] = r[i + 1] \div 2
        /\ r[i + 3] = r[i + 2] \div 2 /\ r[i + 4] = r[i + 3] \div 2
        /\ r[i] \in Nat /\ r[i + 1] \in Nat /\ r[i + 2] \in Nat /\ r[i + 3] \in Nat
      BY <1>1, <1>2, Zenon
  <2>2. PICK a, b, c, d, e : a = r[i] /\ b = r[i + 1] /\ c = r[i + 2] /\ d = r[i + 3] /\ e = r[i + 4]
      BY Zenon
  <2>3. a < 16 * q /\ a \in Nat /\ b = a \div 2 /\ c = b \div 2 /\ d = c \div 2 /\ e = d \div 2
      BY <1>3, <2>1, <2>2, Zenon
  <2>4. b < 8 * q /\ b \in Nat
      BY ONLY <2>3, q \in Nat
  <2>5. c < 4 * q /\ c \in Nat
      BY ONLY <2>3, <2>4, q \in Nat
  <2>6. d < 2 * q /\ d \in Nat
      BY ONLY <2>3, <2>5, q \in Nat
  <2>7. e < q
      BY ONLY <2>3, <2>6, q \in Nat
  <2> QED BY <2>2, <2>7, Zenon
<1>4. r[0] < 16 * 4096
  <2>1. r[0] = n
      BY Zenon DEF Halving
  <2> QED BY <2>1, HalfNumbers, SMT
<1>5. r[0 + 4] < 4096
    BY <1>3, <1>4, SMT
<1>6. r[4 + 4] < 256
    BY <1>3, <1>5, SMT
<1>7. r[8 + 4] < 16
    BY <1>3, <1>6, SMT
<1>8. r[12 + 4] < 1
    BY <1>3, <1>7, SMT
<1>9. r[16] = 0
    BY <1>1, <1>8
<1> DEFINE I == {i \in Nat : i <= 15 => r[16 + i] = 0}
<1>10. 0 \in I
    BY <1>9
<1>11. ASSUME NEW i \in Nat, i \in I PROVE i + 1 \in I
  <2> SUFFICES ASSUME i + 1 <= 15 PROVE r[16 + (i + 1)] = 0
      OBVIOUS
  <2>1. 16 + i \in 0 .. 30 /\ (16 + i) + 1 = 16 + (i + 1) /\ r[16 + i] = 0
      BY <1>11
  <2> QED BY <1>1, <2>1, SMTT(30)
<1> HIDE DEF I
<1>12. \A i \in Nat : i \in I
    BY <1>10, <1>11, Ascent, Zenon
<1>13. ASSUME NEW i \in 16 .. 31 PROVE r[i] = 0
  <2>1. i - 16 \in Nat /\ i - 16 <= 15 /\ 16 + (i - 16) = i
      OBVIOUS
  <2> QED BY <1>12, <2>1 DEF I
<1> QED BY <1>13, Zenon

\* A half without bits is zero.
LEMMA NoBits == LowHalf({}) = 0
<1>1. PICK v : Horner({}, v) /\ LowHalf({}) = v[16]
    BY LowHalfOf, Zenon
<1> DEFINE I == {k \in Nat : k <= 16 => v[k] = 0}
<1>2. 0 \in I
    BY <1>1, Zenon DEF Horner
<1>3. ASSUME NEW k \in Nat, k \in I PROVE k + 1 \in I
  <2> SUFFICES ASSUME k + 1 <= 16 PROVE v[k + 1] = 0
      OBVIOUS
  <2>1. k + 1 \in 1 .. 16 /\ (k + 1) - 1 = k /\ v[k] = 0
      BY <1>3
  <2>2. v[k + 1] = 2 * v[k] + 0
      BY <1>1, <2>1, Zenon DEF Horner
  <2> QED BY <2>1, <2>2
<1> HIDE DEF I
<1>4. \A k \in Nat : k \in I
    BY <1>2, <1>3, Ascent, Zenon
<1>5. v[16] = 0
    BY <1>4 DEF I
<1> QED BY <1>1, <1>5, Zenon

\* A number below 2^16 is read back from the halves of its word.
LEMMA HalvesOfWord ==
    ASSUME NEW n \in HalfRange
    PROVE  Word(n) \in Words /\ LowHalf(Word(n)) = n /\ HighHalf(Word(n)) = 0
<1>1. PICK r : Halving(n, r) /\ Word(n) = {i \in 0 .. 31 : r[i] % 2 = 1}
    BY HalfNumbers, WordOf
<1>2. \A i \in 16 .. 31 : r[i] = 0
    BY <1>1, SixteenHalvings, Zenon
<1>3. PICK v : Horner(Word(n), v) /\ LowHalf(Word(n)) = v[16]
    BY LowHalfOf, Zenon
<1>4. r \in [0 .. 31 -> Nat] /\ r[0] = n /\ \A i \in 1 .. 31 : r[i] = r[i - 1] \div 2
    BY <1>1, Zenon DEF Halving
<1> DEFINE I == {k \in Nat : k <= 16 => v[k] = r[16 - k]}
<1>5. 0 \in I
  <2>1. 16 - 0 = 16 /\ r[16] = 0
      BY <1>2
  <2> QED BY <1>3, <2>1, Zenon DEF Horner
<1>6. ASSUME NEW k \in Nat, k \in I PROVE k + 1 \in I
  <2> SUFFICES ASSUME k + 1 <= 16 PROVE v[k + 1] = r[16 - (k + 1)]
      OBVIOUS
  <2>1. /\ k + 1 \in 1 .. 16 /\ (k + 1) - 1 = k /\ v[k] = r[16 - k]
        /\ 16 - (k + 1) \in 0 .. 31 /\ 16 - k \in 1 .. 31 /\ (16 - k) - 1 = 16 - (k + 1)
      BY <1>6
  <2>2. v[k + 1] = 2 * v[k] + (IF 16 - (k + 1) \in Word(n) THEN 1 ELSE 0)
      BY <1>3, <2>1, Zenon DEF Horner
  <2>3. PICK x : x = r[16 - (k + 1)]
      BY Zenon
  <2>4. x \in Nat /\ v[k] = x \div 2
      BY <1>4, <2>1, <2>3, Zenon
  <2>5. 16 - (k + 1) \in Word(n) <=> x % 2 = 1
      BY <1>1, <2>1, <2>3, Zenon
  <2>6. v[k + 1] = 2 * (x \div 2) + (IF x % 2 = 1 THEN 1 ELSE 0)
      BY <2>2, <2>4, <2>5, Zenon
  <2>7. v[k + 1] = x
      BY ONLY <2>4, <2>6
  <2> QED BY <2>3, <2>7, Zenon
<1> HIDE DEF I
<1>7. \A k \in Nat : k \in I
    BY <1>5, <1>6, Ascent, Zenon
<1>8. LowHalf(Word(n)) = n
  <2>1. 16 \in I /\ 16 - 16 = 0
      BY <1>7
  <2>2. v[16] = r[0]
      BY <2>1 DEF I
  <2> QED BY <1>3, <1>4, <2>2, Zenon
<1>9. Word(n) \in Words
    BY <1>1, Zenon DEF Words, Ones
<1>10. Shr(Word(n), 16) = {}
  <2>1. Word(n) \in SUBSET Nat
      BY <1>9, WordTypes, Zenon DEF Words
  <2>2. \A x : x \in Shr(Word(n), 16) <=> x \in Nat /\ x + 16 \in Word(n)
      BY <2>1, ShrMember, Zenon
  <2>3. ASSUME NEW x \in Nat PROVE x + 16 \notin Word(n)
    <3>1. x + 16 \in 0 .. 31 => r[x + 16] = 0
        BY <1>2
    <3> QED BY <1>1, <3>1
  <2> QED BY <2>2, <2>3, Zenon
<1>11. HighHalf(Word(n)) = 0
    BY <1>10, NoBits, Zenon DEF HighHalf
<1> QED BY <1>8, <1>9, <1>11, Zenon

-----------------------------------------------------------------------------
\* CodecAssumption, in the form in which the proofs use it.
LEMMA Bounds ==
    /\ MaxText \in Nat /\ MaxData \in Nat
    /\ QDP_MAX_TOPIC_LENGTH \in Nat /\ QDP_MAX_PAYLOAD_SIZE \in Nat
    /\ ByteValues \subseteq Octets /\ DamagedBytes \subseteq ByteValues
    /\ \A a, b \in Nat : a <= MaxText /\ b <= MaxData =>
         a \in HalfRange /\ b \in HalfRange /\ 12 + a + b \in HalfRange
BY CodecAssumption, SMT DEF HalfRange, Octets

\* A checksum is a word.
LEMMA ChecksumWord ==
    ASSUME NEW data \in Seq(Octets)
    PROVE  calculateCRC32(data) \in Words
<1>1. PICK f : Register(data, f) /\ calculateCRC32(data) = Xor(f[Len(data)], Ones)
    BY RegisterOf, Zenon
<1>2. Len(data) \in 0 .. Len(data)
    OBVIOUS
<1>3. f[Len(data)] \in Words
    BY <1>1, <1>2, Zenon DEF Register
<1> QED BY <1>1, <1>3, WordTypes DEF Words

\* What the frame of a message is made of.
Body(t, p) == PutUint32(Word(Len(t))) \o PutUint32(Word(Len(p))) \o t \o p

FrameOf(t, p) == Body(t, p) \o PutUint32(calculateCRC32(Body(t, p)))

\* a followed by b.
Joined(a, b, c) ==
    /\ c \in Seq(Octets) /\ Len(c) = Len(a) + Len(b)
    /\ \A i \in 1 .. Len(a) : c[i] = a[i]
    /\ \A i \in 1 .. Len(b) : c[Len(a) + i] = b[i]

\* Concatenation, part by part.
LEMMA Joins ==
    ASSUME NEW a \in Seq(Octets), NEW b \in Seq(Octets)
    PROVE  Joined(a, b, a \o b)
<1>1. /\ a \o b \in Seq(Octets) /\ Len(a \o b) = Len(a) + Len(b)
      /\ \A i \in 1 .. Len(a) + Len(b) :
           (a \o b)[i] = IF i <= Len(a) THEN a[i] ELSE b[i - Len(a)]
    BY ConcatProperties, Zenon
<1>2. Len(a) \in Nat /\ Len(b) \in Nat
    OBVIOUS
<1>3. ASSUME NEW i \in 1 .. Len(a) PROVE (a \o b)[i] = a[i]
    BY <1>1, <1>2
<1>4. ASSUME NEW i \in 1 .. Len(b) PROVE (a \o b)[Len(a) + i] = b[i]
  <2>1. /\ Len(a) + i \in 1 .. Len(a) + Len(b) /\ ~(Len(a) + i <= Len(a))
        /\ (Len(a) + i) - Len(a) = i
      BY <1>2
  <2>2. (a \o b)[Len(a) + i] = IF Len(a) + i <= Len(a) THEN a[Len(a) + i] ELSE b[(Len(a) + i) - Len(a)]
      BY ONLY <1>1, <2>1, Zenon
  <2> QED BY <2>1, <2>2, Zenon
<1> QED BY <1>1, <1>3, <1>4, Zenon DEF Joined

\* The places of a frame's parts: d is the frame of t and p, and y its body.
Placed(t, p, n, m, y, d) ==
    /\ y \in Seq(Octets) /\ d \in Seq(Octets) /\ Len(y) = 8 + n + m /\ Len(d) = 12 + n + m
    /\ \A k \in 1 .. 4 : d[k] = PutUint32(Word(n))[k]
    /\ \A k \in 1 .. 4 : d[4 + k] = PutUint32(Word(m))[k]
    /\ \A k \in 1 .. n : d[8 + k] = t[k]
    /\ \A k \in 1 .. m : d[8 + n + k] = p[k]
    /\ \A k \in 1 .. Len(y) : d[k] = y[k]
    /\ \A k \in 1 .. 4 : d[8 + n + m + k] = PutUint32(calculateCRC32(y))[k]

\* FrameOf puts the parts there.
LEMMA FrameParts ==
    ASSUME NEW t \in Seq(Octets), NEW p \in Seq(Octets)
    PROVE  Placed(t, p, Len(t), Len(p), Body(t, p), FrameOf(t, p))
<1> DEFINE a == PutUint32(Word(Len(t)))
           b == PutUint32(Word(Len(p)))
           c == PutUint32(calculateCRC32(Body(t, p)))
<1>1. a \in Seq(Octets) /\ Len(a) = 4 /\ b \in Seq(Octets) /\ Len(b) = 4
      /\ c \in Seq(Octets) /\ Len(c) = 4
    BY WordBytes, Zenon
<1>2. Body(t, p) = ((a \o b) \o t) \o p /\ FrameOf(t, p) = Body(t, p) \o c
    BY Zenon DEF Body, FrameOf
<1> HIDE DEF a, b, c
<1>3. PICK ab, abt, y, z : ab = a \o b /\ abt = ab \o t /\ y = abt \o p /\ z = y \o c
    BY Zenon
<1>4. y = Body(t, p) /\ z = FrameOf(t, p)
    BY <1>2, <1>3, Zenon
<1>5. Joined(a, b, ab)
    BY <1>1, <1>3, Joins, Zenon
<1>6. Joined(ab, t, abt)
  <2>1. ab \in Seq(Octets)
      BY <1>5, Zenon DEF Joined
  <2> QED BY <1>3, <2>1, Joins, Zenon
<1>7. Joined(abt, p, y)
  <2>1. abt \in Seq(Octets)
      BY <1>6, Zenon DEF Joined
  <2> QED BY <1>3, <2>1, Joins, Zenon
<1>8. Joined(y, c, z)
  <2>1. y \in Seq(Octets)
      BY <1>7, Zenon DEF Joined
  <2> QED BY <1>1, <1>3, <2>1, Joins, Zenon
<1>9. Len(t) \in Nat /\ Len(p) \in Nat
    OBVIOUS
<1>10. /\ Len(ab) = 8 /\ Len(abt) = 8 + Len(t) /\ Len(y) = 8 + Len(t) + Len(p)
       /\ Len(z) = 12 + Len(t) + Len(p) /\ y \in Seq(Octets) /\ z \in Seq(Octets)
    BY <1>1, <1>5, <1>6, <1>7, <1>8, <1>9 DEF Joined
<1>11. \A k \in 1 .. Len(y) : z[k] = y[k]
    BY <1>8, Zenon DEF Joined
<1>12. \A k \in 1 .. 4 : z[8 + Len(t) + Len(p) + k] = c[k]
    BY <1>1, <1>8, <1>10, Zenon DEF Joined
<1>13. ASSUME NEW k \in 1 .. Len(p) PROVE z[8 + Len(t) + k] = p[k]
  <2>1. 8 + Len(t) + k \in 1 .. Len(y)
      BY <1>9, <1>10
  <2>2. y[8 + Len(t) + k] = p[k]
      BY <1>7, <1>10, Zenon DEF Joined
  <2> QED BY <1>11, <2>1, <2>2, Zenon
<1>14. ASSUME NEW k \in 1 .. Len(abt) PROVE z[k] = abt[k]
  <2>1. k \in 1 .. Len(y)
      BY <1>9, <1>10
  <2>2. y[k] = abt[k]
      BY <1>7, Zenon DEF Joined
  <2> QED BY <1>11, <2>1, <2>2, Zenon
<1>15. ASSUME NEW k \in 1 .. Len(t) PROVE z[8 + k] = t[k]
  <2>1. 8 + k \in 1 .. Len(abt)
      BY <1>9, <1>10
  <2>2. abt[8 + k] = t[k]
      BY <1>6, <1>10, Zenon DEF Joined
  <2> QED BY <1>14, <2>1, <2>2, Zenon
<1>16. ASSUME NEW k \in 1 .. 8 PROVE z[k] = ab[k]
  <2>1. k \in 1 .. Len(abt) /\ k \in 1 .. Len(ab)
      BY <1>9, <1>10
  <2>2. abt[k] = ab[k]
      BY <1>6, <2>1, Zenon DEF Joined
  <2> QED BY <1>14, <2>1, <2>2, Zenon
<1>17. ASSUME NEW k \in 1 .. 4 PROVE z[k] = a[k] /\ z[4 + k] = b[k]
  <2>1. k \in 1 .. 8 /\ 4 + k \in 1 .. 8 /\ k \in 1 .. Len(a) /\ k \in 1 .. Len(b)
      BY <1>1
  <2>2. ab[k] = a[k] /\ ab[4 + k] = b[k]
      BY <1>1, <1>5, <2>1, Zenon DEF Joined
  <2> QED BY <1>16, <2>1, <2>2, Zenon
<1> HIDE <1>5, <1>6, <1>7, <1>8
<1>18. /\ y \in Seq(Octets) /\ z \in Seq(Octets)
       /\ Len(y) = 8 + Len(t) + Len(p) /\ Len(z) = 12 + Len(t) + Len(p)
       /\ \A k \in 1 .. 4 : z[k] = a[k]
       /\ \A k \in 1 .. 4 : z[4 + k] = b[k]
       /\ \A k \in 1 .. Len(t) : z[8 + k] = t[k]
       /\ \A k \in 1 .. Len(p) : z[8 + Len(t) + k] = p[k]
       /\ \A k \in 1 .. Len(y) : z[k] = y[k]
       /\ \A k \in 1 .. 4 : z[8 + Len(t) + Len(p) + k] = c[k]
    BY <1>10, <1>11, <1>12, <1>13, <1>15, <1>17, Zenon
<1> QED BY <1>4, <1>18, Zenon DEF Placed, a, b, c

\* Part of a sequence that agrees with s at every place is s.
LEMMA PartIs ==
    ASSUME NEW d \in Seq(Octets), NEW s \in Seq(Octets), NEW from \in Nat,
           from + Len(s) <= Len(d), \A k \in 1 .. Len(s) : d[from + k] = s[k]
    PROVE  SubSeq(d, from + 1, from + Len(s)) = s
<1> DEFINE u == SubSeq(d, from + 1, from + Len(s))
<1>1. Len(s) \in Nat /\ Len(d) \in Nat
    OBVIOUS
<1>2. /\ u \in Seq(Octets) /\ Len(u) = Len(s)
      /\ \A k \in 1 .. Len(s) : u[k] = d[from + k]
    BY <1>1
<1> HIDE DEF u
<1>3. u = s
    BY <1>2, SeqEqual, Zenon
<1> QED BY <1>3, Zenon DEF u

\* The fields of a frame, as both readers take them from it.
Fields(t, p, n, m, d) ==
    /\ Len(d) = 12 + n + m /\ Uint32(d, 1) = Word(n) /\ Uint32(d, 5) = Word(m)
    /\ SubSeq(d, 9, 8 + n) = t /\ SubSeq(d, 9 + n, 8 + n + m) = p
    /\ SubSeq(d, 1, 8 + n + m) \in Seq(Octets)
    /\ Uint32(d, 9 + n + m) = calculateCRC32(SubSeq(d, 1, 8 + n + m))

\* The readers find every field of a frame that either library wrote.
LEMMA FrameFields ==
    ASSUME NEW t \in Seq(Octets), NEW p \in Seq(Octets), Len(t) \in HalfRange, Len(p) \in HalfRange
    PROVE  Fields(t, p, Len(t), Len(p), FrameOf(t, p))
<1>1. PICK y, d : y = Body(t, p) /\ d = FrameOf(t, p)
    BY Zenon
<1>2. PICK n, m : n = Len(t) /\ m = Len(p)
    BY Zenon
<1>0. Placed(t, p, n, m, y, d)
    BY <1>1, <1>2, FrameParts, Zenon
<1>3. /\ y \in Seq(Octets) /\ d \in Seq(Octets) /\ Len(y) = 8 + n + m /\ Len(d) = 12 + n + m
      /\ \A k \in 1 .. 4 : d[k] = PutUint32(Word(n))[k]
      /\ \A k \in 1 .. 4 : d[4 + k] = PutUint32(Word(m))[k]
      /\ \A k \in 1 .. n : d[8 + k] = t[k]
      /\ \A k \in 1 .. m : d[8 + n + k] = p[k]
      /\ \A k \in 1 .. Len(y) : d[k] = y[k]
      /\ \A k \in 1 .. 4 : d[8 + n + m + k] = PutUint32(calculateCRC32(y))[k]
    BY <1>0, Zenon DEF Placed
<1>4. n \in Nat /\ m \in Nat /\ n = Len(t) /\ m = Len(p)
    BY <1>2
<1>5. Word(n) \in Words /\ Word(m) \in Words
    BY <1>2, HalvesOfWord, Zenon
<1>6. calculateCRC32(y) \in Words
    BY <1>3, ChecksumWord, Zenon
<1>7. Uint32(d, 1) = Word(n)
  <2>1. \A k \in 1 .. 4 : 1 + (k - 1) = k
      OBVIOUS
  <2>2. \A k \in 1 .. 4 : d[1 + (k - 1)] = PutUint32(Word(n))[k]
    <3>1. \A k \in 1 .. 4 : d[k] = PutUint32(Word(n))[k]
        BY ONLY <1>3, Zenon
    <3> QED BY ONLY <2>1, <3>1, Zenon
  <2>3. PICK q : q = 1
      BY Zenon
  <2>4. q \in Nat /\ \A k \in 1 .. 4 : d[q + (k - 1)] = PutUint32(Word(n))[k]
      BY <2>2, <2>3, Zenon
  <2> QED BY <1>5, <2>3, <2>4, WordFromBytes, Zenon
<1>8. Uint32(d, 5) = Word(m)
  <2>1. \A k \in 1 .. 4 : 5 + (k - 1) = 4 + k
      OBVIOUS
  <2>2. \A k \in 1 .. 4 : d[5 + (k - 1)] = PutUint32(Word(m))[k]
    <3>1. \A k \in 1 .. 4 : d[4 + k] = PutUint32(Word(m))[k]
        BY ONLY <1>3, Zenon
    <3> QED BY ONLY <2>1, <3>1, Zenon
  <2>3. PICK q : q = 5
      BY Zenon
  <2>4. q \in Nat /\ \A k \in 1 .. 4 : d[q + (k - 1)] = PutUint32(Word(m))[k]
      BY <2>2, <2>3, Zenon
  <2> QED BY <1>5, <2>3, <2>4, WordFromBytes, Zenon
<1>9. Uint32(d, 9 + n + m) = calculateCRC32(y)
  <2>1. PICK q : q = 9 + n + m
      BY Zenon
  <2>2. q \in Nat /\ \A k \in 1 .. 4 : q + (k - 1) = 8 + n + m + k
      BY <1>4, <2>1
  <2>3. \A k \in 1 .. 4 : d[q + (k - 1)] = PutUint32(calculateCRC32(y))[k]
      BY <1>3, <2>2, Zenon
  <2> QED BY <1>6, <2>1, <2>2, <2>3, WordFromBytes
<1>10. SubSeq(d, 9, 8 + n) = t
  <2>1. PICK q : q = 8
      BY Zenon
  <2>2. q \in Nat /\ q + Len(t) <= Len(d) /\ \A k \in 1 .. Len(t) : d[q + k] = t[k]
      BY <1>3, <1>4, <2>1
  <2>3. SubSeq(d, q + 1, q + Len(t)) = t
      BY <1>3, <2>2, PartIs, Zenon
  <2> QED BY <1>4, <2>1, <2>3
<1>11. SubSeq(d, 9 + n, 8 + n + m) = p
  <2>1. PICK q : q = 8 + n
      BY Zenon
  <2>2. q \in Nat /\ q + Len(p) <= Len(d) /\ \A k \in 1 .. Len(p) : d[q + k] = p[k]
      BY <1>3, <1>4, <2>1
  <2>3. SubSeq(d, q + 1, q + Len(p)) = p
      BY <1>3, <2>2, PartIs, Zenon
  <2>4. q + 1 = 9 + n /\ q + Len(p) = 8 + n + m
      BY <1>4, <2>1
  <2> QED BY <2>3, <2>4, Zenon
<1>12. SubSeq(d, 1, 8 + n + m) = y
  <2>1. PICK q : q = 0
      BY Zenon
  <2>2. q \in Nat /\ q + Len(y) <= Len(d) /\ \A k \in 1 .. Len(y) : q + k = k
      BY <1>3, <1>4, <2>1
  <2>3. \A k \in 1 .. Len(y) : d[q + k] = y[k]
      BY <1>3, <2>2, Zenon
  <2>4. SubSeq(d, q + 1, q + Len(y)) = y
      BY <1>3, <2>2, <2>3, PartIs, Zenon
  <2>5. q + 1 = 1 /\ q + Len(y) = 8 + n + m
      BY <1>3, <1>4, <2>1
  <2> QED BY <2>4, <2>5, Zenon
<1>13. Fields(t, p, n, m, d)
    BY <1>3, <1>7, <1>8, <1>9, <1>10, <1>11, <1>12, Zenon DEF Fields
<1> QED BY <1>1, <1>2, <1>13, Zenon

\* Go's Decode of a frame.
LEMMA GoReadsFrame ==
    ASSUME NEW t \in Seq(Octets), NEW p \in Seq(Octets), Len(t) \in HalfRange, Len(p) \in HalfRange,
           12 + Len(t) + Len(p) \in HalfRange
    PROVE  Decode(FrameOf(t, p)) = Ok(<<t, p>>)
<1>1. PICK d, n, m : d = FrameOf(t, p) /\ n = Len(t) /\ m = Len(p)
    BY Zenon
<1>2. /\ Len(d) = 12 + n + m /\ Uint32(d, 1) = Word(n) /\ Uint32(d, 5) = Word(m)
      /\ SubSeq(d, 9, 8 + n) = t /\ SubSeq(d, 9 + n, 8 + n + m) = p
      /\ Uint32(d, 9 + n + m) = calculateCRC32(SubSeq(d, 1, 8 + n + m))
  <2>1. Fields(t, p, n, m, d)
      BY <1>1, FrameFields, Zenon
  <2> QED BY <2>1, Zenon DEF Fields
<1>3. LowHalf(Word(n)) = n /\ HighHalf(Word(n)) = 0 /\ LowHalf(Word(m)) = m /\ HighHalf(Word(m)) = 0
    BY <1>1, HalvesOfWord, Zenon
<1>4. n \in Nat /\ m \in Nat
    BY <1>1
<1>5. TotalLenIs(Word(n), Word(m), 12 + n + m)
  <2>1. 12 + n + m \in HalfRange
      BY <1>1, Zenon
  <2>2. 12 + n + m \in Nat /\ 12 + n + m < 65536
      BY ONLY <2>1, SMT DEF HalfRange
  <2>3. (12 + n + m) % 65536 = 12 + n + m /\ (12 + n + m) \div 65536 = 0 /\ (0 + 0 + 0) % 65536 = 0
      BY ONLY <2>2, SMT
  <2> QED BY ONLY <1>3, <2>3, SMT DEF TotalLenIs
<1>6. /\ ~(12 + n + m < 12) /\ (12 + n + m) - 3 = 9 + n + m /\ (12 + n + m) - 4 = 8 + n + m
      /\ (8 + n) + 1 = 9 + n
    BY <1>4
<1>7. Decode(d) = Ok(<<t, p>>)
    BY ONLY <1>2, <1>3, <1>5, <1>6, Zenon DEF Decode
<1> QED BY <1>1, <1>7, Zenon

\* The C library's qdp_message_read of a frame.
LEMMA CReadsFrame ==
    ASSUME NEW t \in Seq(Octets), NEW p \in Seq(Octets), Len(t) \in HalfRange, Len(p) \in HalfRange
    PROVE  qdp_message_read(FrameOf(t, p)) =
             IF Len(t) <= QDP_MAX_TOPIC_LENGTH /\ Len(p) <= QDP_MAX_PAYLOAD_SIZE
             THEN Ok(<<t, p>>) ELSE Failed
<1>1. PICK d, n, m : d = FrameOf(t, p) /\ n = Len(t) /\ m = Len(p)
    BY Zenon
<1>2. /\ Len(d) = 12 + n + m /\ Uint32(d, 1) = Word(n) /\ Uint32(d, 5) = Word(m)
      /\ SubSeq(d, 9, 8 + n) = t /\ SubSeq(d, 9 + n, 8 + n + m) = p
      /\ SubSeq(d, 1, 8 + n + m) \in Seq(Octets)
      /\ Uint32(d, 9 + n + m) = calculateCRC32(SubSeq(d, 1, 8 + n + m))
  <2>1. Fields(t, p, n, m, d)
      BY <1>1, FrameFields, Zenon
  <2> QED BY <2>1, Zenon DEF Fields
<1>3. LowHalf(Word(n)) = n /\ HighHalf(Word(n)) = 0 /\ LowHalf(Word(m)) = m /\ HighHalf(Word(m)) = 0
    BY <1>1, HalvesOfWord, Zenon
<1>4. n \in Nat /\ m \in Nat
    BY <1>1
<1>5. Uint32(d, 9 + n + m) = qdp_calc_crc32(SubSeq(d, 1, 8 + n + m))
    BY <1>2, SameChecksum, Zenon
<1>6. /\ ~(12 + n + m < 8) /\ ~(12 + n + m < ((8 + n) + m) + 4)
      /\ (8 + n) + 1 = 9 + n /\ ((8 + n) + m) + 1 = 9 + n + m
    BY <1>4
<1>7. /\ AtMost(Word(n), QDP_MAX_TOPIC_LENGTH) <=> n <= QDP_MAX_TOPIC_LENGTH
      /\ AtMost(Word(m), QDP_MAX_PAYLOAD_SIZE) <=> m <= QDP_MAX_PAYLOAD_SIZE
    BY <1>3, Zenon DEF AtMost
<1>8. qdp_message_read(d) =
        IF n <= QDP_MAX_TOPIC_LENGTH /\ m <= QDP_MAX_PAYLOAD_SIZE THEN Ok(<<t, p>>) ELSE Failed
    BY ONLY <1>2, <1>3, <1>5, <1>6, <1>7, Zenon DEF qdp_message_read
<1> QED BY <1>1, <1>8, Zenon

\* Until the line damages it, what was received is the frame of the message.
Sent == received # <<>> /\ ~damaged => received = FrameOf(msgTopic, msgPayload)

\* Encode and qdp_publish_bytes write the same frame.
LEMMA SendersAgree ==
    ASSUME NEW t \in Seq(Octets), NEW p \in Seq(Octets),
           NEW frame \in {Encode(t, p), CFrame(t, p)}, frame[1] = "ok"
    PROVE  frame[2] = FrameOf(t, p)
<1>1. PICK y : y = Body(t, p)
    BY Zenon
<1>2. y \in Seq(Octets)
  <2>1. Placed(t, p, Len(t), Len(p), y, FrameOf(t, p))
      BY <1>1, FrameParts, Zenon
  <2> QED BY <2>1, Zenon DEF Placed
<1>3. qdp_calc_crc32(y) = calculateCRC32(y)
    BY <1>2, SameChecksum, Zenon
<1>4. CASE frame = Encode(t, p)
  <2>1. Encode(t, p) = IF t = <<>> THEN ErrInvalidMessage ELSE Ok(FrameOf(t, p))
      BY Zenon DEF Encode, FrameOf, Body
  <2> QED BY <1>4, <2>1 DEF ErrInvalidMessage, Ok
<1>5. CASE frame = CFrame(t, p)
  <2>1. qdp_message_write(t, p) = FrameOf(t, p)
      BY <1>1, <1>3, Zenon DEF qdp_message_write, FrameOf, Body
  <2>2. CFrame(t, p) \in {Failed, Ok(FrameOf(t, p))}
      BY <2>1, Zenon DEF CFrame, qdp_publish_bytes
  <2> QED BY <1>5, <2>2 DEF Failed, Ok
<1> QED BY <1>4, <1>5, Zenon

\* Sent is an invariant.
LEMMA FramesSent == CodecSpec => []Sent
<1>1. CodecInit => Sent
    BY Zenon DEF CodecInit, Sent
<1>2. Composed /\ Sent /\ [CodecNext]_codecVars => Sent'
  <2> SUFFICES ASSUME Composed, Sent, [CodecNext]_codecVars PROVE Sent'
      BY Zenon
  <2>1. CASE Compose
      BY <2>1, Zenon DEF Sent, Compose
  <2>2. CASE Transmit
    <3>1. msgTopic \in Seq(Octets) /\ msgPayload \in Seq(Octets)
        BY Bounds DEF Composed
    <3>2. PICK frame \in {Encode(msgTopic, msgPayload), CFrame(msgTopic, msgPayload)} :
            frame[1] = "ok" /\ received' = frame[2]
        BY <2>2, Zenon DEF Transmit
    <3>3. received' = FrameOf(msgTopic, msgPayload)
        BY <3>1, <3>2, SendersAgree, Zenon
    <3>4. msgTopic' = msgTopic /\ msgPayload' = msgPayload
        BY <2>2, Zenon DEF Transmit
    <3>5. received' = FrameOf(msgTopic', msgPayload')
        BY <3>3, <3>4, Zenon
    <3> QED BY <3>5, Zenon DEF Sent
  <2>3. CASE Damage
      BY <2>3, Zenon DEF Sent, Damage
  <2>4. CASE UNCHANGED codecVars
      BY <2>4, Zenon DEF Sent, codecVars
  <2> QED BY <2>1, <2>2, <2>3, <2>4, Zenon DEF CodecNext
<1> QED BY <1>1, <1>2, MessagesComposed, PTL DEF CodecSpec

\* Whichever library wrote a frame, Go's Decode returns the topic and the payload, and so
\* does qdp_message_read unless one of them is above the C library's limits: for every
\* message whose frame is shorter than 65536 bytes.
THEOREM EveryFrameIsReadBack == CodecSpec => []FramesRoundTrip
<1>1. Composed /\ Sent => FramesRoundTrip
  <2> SUFFICES ASSUME Composed, Sent, received # <<>>, ~damaged
               PROVE  /\ Decode(received) = Ok(<<msgTopic, msgPayload>>)
                      /\ qdp_message_read(received) =
                           IF /\ Len(msgTopic) <= QDP_MAX_TOPIC_LENGTH
                              /\ Len(msgPayload) <= QDP_MAX_PAYLOAD_SIZE
                           THEN Ok(<<msgTopic, msgPayload>>) ELSE Failed
      BY Zenon DEF FramesRoundTrip
  <2>1. PICK t, p : t = msgTopic /\ p = msgPayload
      BY Zenon
  <2>2. t \in Seq(Octets) /\ p \in Seq(Octets) /\ received = FrameOf(t, p)
      BY <2>1, Bounds DEF Composed, Sent
  <2>3. Len(t) \in HalfRange /\ Len(p) \in HalfRange /\ 12 + Len(t) + Len(p) \in HalfRange
    <3>1. Len(t) \in Nat /\ Len(p) \in Nat /\ Len(t) <= MaxText /\ Len(p) <= MaxData
        BY <2>1, <2>2 DEF Composed
    <3> QED BY <3>1, Bounds, Zenon
  <2>4. Decode(received) = Ok(<<t, p>>)
      BY <2>2, <2>3, GoReadsFrame, Zenon
  <2>5. qdp_message_read(received) =
          IF Len(t) <= QDP_MAX_TOPIC_LENGTH /\ Len(p) <= QDP_MAX_PAYLOAD_SIZE
          THEN Ok(<<t, p>>) ELSE Failed
      BY <2>2, <2>3, CReadsFrame, Zenon
  <2> QED BY <2>1, <2>4, <2>5, Zenon
<1> QED BY <1>1, MessagesComposed, FramesSent, PTL

-----------------------------------------------------------------------------
\* A round loses nothing: the polynomial has its highest bit.
LEMMA ShiftOutInjective ==
    ASSUME NEW a \in Words, NEW b \in Words, ShiftOut(a) = ShiftOut(b)
    PROVE  a = b
<1>1. \A x : x \in ShiftOut(a) <=> x \in Nat /\ ((x + 1 \in a) # (0 \in a /\ x \in polynomial))
    BY ShiftOutMember, Zenon DEF Words
<1>2. \A x : x \in ShiftOut(b) <=> x \in Nat /\ ((x + 1 \in b) # (0 \in b /\ x \in polynomial))
    BY ShiftOutMember, Zenon DEF Words
<1>3. 31 \in Nat /\ 31 + 1 \notin a /\ 31 + 1 \notin b /\ 31 \in polynomial
  <2>1. 31 \in polynomial /\ 31 \in Nat
      BY Zenon DEF polynomial
  <2>2. 31 + 1 \notin Ones
      BY DEF Ones
  <2> QED BY <2>1, <2>2, Zenon DEF Words
<1>4. 31 \in ShiftOut(a) <=> 0 \in a
    BY <1>1, <1>3
<1>5. 31 \in ShiftOut(b) <=> 0 \in b
    BY <1>2, <1>3
<1>6. 0 \in a <=> 0 \in b
    BY <1>4, <1>5, Zenon
<1>7. ASSUME NEW x \in Nat PROVE x + 1 \in a <=> x + 1 \in b
  <2>1. (x \in ShiftOut(a)) <=> ((x + 1 \in a) # (0 \in a /\ x \in polynomial))
      BY <1>1, Zenon
  <2>2. (x \in ShiftOut(b)) <=> ((x + 1 \in b) # (0 \in b /\ x \in polynomial))
      BY <1>2, Zenon
  <2>3. (x \in ShiftOut(a)) <=> (x \in ShiftOut(b))
      BY Zenon
  <2> QED BY ONLY <1>6, <2>1, <2>2, <2>3
<1>8. ASSUME NEW x \in Ones PROVE x \in a <=> x \in b
  <2>1. x # 0 => x - 1 \in Nat /\ (x - 1) + 1 = x
      BY DEF Ones
  <2> QED BY <1>6, <1>7, <2>1, Zenon
<1> QED BY <1>8, Zenon DEF Words

\* Nor do several rounds.
LEMMA ShiftsInjective ==
    ASSUME NEW m \in Nat, NEW a \in Words, NEW b \in Words, NEW y, NEW z,
           Shifting(m, a, y), Shifting(m, b, z), y[m] = z[m]
    PROVE  a = b
<1>1. (\A i \in 0 .. m : y[i] \in Words) /\ (\A i \in 0 .. m : z[i] \in Words)
    BY ShiftsTyped, Zenon
<1> DEFINE I == {i \in Nat : i <= m => y[m - i] = z[m - i]}
<1>2. 0 \in I
    OBVIOUS
<1>3. ASSUME NEW i \in Nat, i \in I PROVE i + 1 \in I
  <2> SUFFICES ASSUME i + 1 <= m PROVE y[m - (i + 1)] = z[m - (i + 1)]
      OBVIOUS
  <2>1. PICK k : k = m - i
      BY Zenon
  <2>2. k \in 1 .. m /\ k - 1 \in 0 .. m /\ y[k] = z[k] /\ m - (i + 1) = k - 1
      BY <1>3, <2>1
  <2>3. y[k] = ShiftOut(y[k - 1]) /\ z[k] = ShiftOut(z[k - 1])
      BY <2>2, Zenon DEF Shifting
  <2>4. y[k - 1] \in Words /\ z[k - 1] \in Words
      BY <1>1, <2>2, Zenon
  <2> QED BY <2>2, <2>3, <2>4, ShiftOutInjective, Zenon
<1> HIDE DEF I
<1>4. m \in I
    BY <1>2, <1>3, Ascent, Zenon
<1>5. y[m - m] = z[m - m] /\ m - m = 0
    BY <1>4 DEF I
<1> QED BY <1>5, Zenon DEF Shifting

\* The places of the bits of data that are 1, in the order in which the line carries them.
BitSet(data) == {k \in 0 .. 8 * Len(data) - 1 : (k % 8) \in data[1 + (k \div 8)]}

\* 32 of those bits, from place s.
Window(data, s) == {i \in Ones : s + i \in BitSet(data)}

\* The bits that the division takes are those of BitSet.
LEMMA BitTaken ==
    ASSUME NEW data \in Seq(Octets), NEW k \in 1 .. 8 * Len(data)
    PROVE  BitOf(data, k) = IF k - 1 \in BitSet(data) THEN {0} ELSE {}
<1>1. PICK q, r : q = (k - 1) \div 8 /\ r = (k - 1) % 8
    BY Zenon
<1>2. Len(data) \in Nat
    OBVIOUS
<1>3. r \in 0 .. 7 /\ q \in Nat /\ k - 1 \in 0 .. 8 * Len(data) - 1 /\ 1 + q \in 1 .. Len(data)
    BY <1>1, <1>2
<1>4. k - 1 \in BitSet(data) <=> r \in data[1 + q]
    BY <1>1, <1>3, Zenon DEF BitSet
<1>5. BitOf(data, k) = {0} \cap {i - r : i \in data[1 + q]}
    BY <1>1, Zenon DEF BitOf
<1>6. PICK b : b = data[1 + q]
    BY Zenon
<1>7. b \subseteq 0 .. 7
    BY <1>3, <1>6 DEF Octets
<1>8. {0} \cap {i - r : i \in b} = IF r \in b THEN {0} ELSE {}
    BY ONLY <1>3, <1>7
<1> QED BY <1>4, <1>5, <1>6, <1>8, Zenon

\* 32 bits are as if they had been in the register from the start.
LEMMA WindowFed ==
    ASSUME NEW data \in Seq(Octets), NEW f, Division(data, f), NEW s \in Nat,
           s + 32 <= 8 * Len(data)
    PROVE  /\ f[s] \in Words /\ Window(data, s) \in Words
           /\ \A y : Shifting(32, Xor(f[s], Window(data, s)), y) => f[s + 32] = y[32]
<1> DEFINE e == [i \in 0 .. 32 |-> f[s + i]]
           b == Window(data, s)
<1>1. Len(data) \in Nat /\ s \in 0 .. 8 * Len(data)
    OBVIOUS
<1>2. f[s] \in Words /\ b \in Words
    BY <1>1, Zenon DEF Division, Window, Words
<1>3. ASSUME NEW i \in 1 .. 32 PROVE e[i] = ShiftOut(Xor(e[i - 1], {0} \cap Shr(b, i - 1)))
  <2>1. /\ s + i \in 1 .. 8 * Len(data) /\ (s + i) - 1 = s + (i - 1) /\ i - 1 \in 0 .. 32
        /\ i - 1 \in Ones /\ 0 + (i - 1) = i - 1 /\ i - 1 \in Nat
      BY <1>1 DEF Ones
  <2>2. f[s + i] = ShiftOut(Xor(f[(s + i) - 1], BitOf(data, s + i)))
      BY <1>1, <2>1, Zenon DEF Division
  <2>3. e[i] = f[s + i] /\ e[i - 1] = f[s + (i - 1)]
      BY <2>1
  <2>4. BitOf(data, s + i) = IF (s + i) - 1 \in BitSet(data) THEN {0} ELSE {}
      BY <2>1, BitTaken, Zenon
  <2>5. i - 1 \in b <=> (s + i) - 1 \in BitSet(data)
      BY <2>1, Zenon DEF Window
  <2>6. 0 \in Shr(b, i - 1) <=> i - 1 \in b
    <3>1. b \in SUBSET Nat
        BY <1>2, WordTypes, Zenon DEF Words
    <3> HIDE DEF b
    <3>2. 0 \in Shr(b, i - 1) <=> 0 \in Nat /\ 0 + (i - 1) \in b
        BY <2>1, <3>1, ShrMember, Zenon
    <3> QED BY <2>1, <3>2, Zenon
  <2>7. {0} \cap Shr(b, i - 1) = BitOf(data, s + i)
      BY <2>4, <2>5, <2>6, Zenon
  <2> QED BY <2>1, <2>2, <2>3, <2>7, Zenon
<1>4. e[0] = f[s] /\ e[32] = f[s + 32]
    BY <1>1
<1> HIDE DEF e, b
<1>5. PICK c : c = f[s]
    BY Zenon
<1>6. Feeding(32, c, b, e)
    BY <1>3, <1>4, <1>5, Zenon DEF Feeding
<1>7. ASSUME NEW y, Shifting(32, Xor(f[s], b), y) PROVE f[s + 32] = y[32]
  <2>1. PICK m : m = 32
      BY Zenon
  <2>2. m \in 0 .. 32 /\ c \in Words /\ b \in Below(m) /\ Feeding(m, c, b, e)
      BY <1>2, <1>5, <1>6, <2>1 DEF Below, Words, Ones
  <2>3. c \cap (0 .. m - 1) = c
    <3>1. 0 .. m - 1 = Ones
        BY <2>1 DEF Ones
    <3>2. c \subseteq Ones
        BY <2>2, Zenon DEF Words
    <3> QED BY <3>1, <3>2, Zenon
  <2>4. Shifting(m, Xor(c \cap (0 .. m - 1), b), y)
      BY <1>5, <1>7, <2>1, <2>3, Zenon
  <2>5. e[m] = Xor(y[m], Shr(c, m)) /\ y[m] \in Words
      BY <2>2, <2>4, FeedBits, Zenon
  <2>6. Shr(c, m) = {}
    <3>1. c \in SUBSET Nat /\ m \in Nat
        BY <2>1, <2>2, WordTypes, Zenon DEF Words
    <3>2. \A x : x \in Shr(c, m) <=> x \in Nat /\ x + m \in c
        BY <3>1, ShrMember, Zenon
    <3>3. \A x \in Nat : x + m \notin c
        BY <2>1, <2>2 DEF Words, Ones
    <3> QED BY <3>2, <3>3, Zenon
  <2>7. e[m] = y[m]
    <3>1. \A w : Xor(w, {}) = w
        BY Zenon DEF Xor
    <3> QED BY <2>5, <2>6, <3>1, Zenon
  <2> QED BY <1>4, <2>1, <2>7, Zenon
<1> QED BY <1>2, <1>7, Zenon DEF b

\* Two divisions go alike over bits that are the same: forwards from the start,
LEMMA AlikeBefore ==
    ASSUME NEW d \in Seq(Octets), NEW e \in Seq(Octets), NEW f, NEW g, Division(d, f), Division(e, g),
           NEW s \in Nat, s <= 8 * Len(d), s <= 8 * Len(e),
           \A k \in 0 .. s - 1 : k \in BitSet(d) <=> k \in BitSet(e)
    PROVE  f[s] = g[s]
<1> DEFINE I == {k \in Nat : k <= s => f[k] = g[k]}
<1>1. 0 \in I
    BY Zenon DEF Division
<1>2. ASSUME NEW k \in Nat, k \in I PROVE k + 1 \in I
  <2> SUFFICES ASSUME k + 1 <= s PROVE f[k + 1] = g[k + 1]
      OBVIOUS
  <2>1. /\ k + 1 \in 1 .. 8 * Len(d) /\ k + 1 \in 1 .. 8 * Len(e) /\ (k + 1) - 1 = k
        /\ k \in 0 .. s - 1 /\ f[k] = g[k]
      BY <1>2
  <2>2. f[k + 1] = ShiftOut(Xor(f[k], BitOf(d, k + 1))) /\ g[k + 1] = ShiftOut(Xor(g[k], BitOf(e, k + 1)))
      BY <2>1, Zenon DEF Division
  <2>3. /\ BitOf(d, k + 1) = IF (k + 1) - 1 \in BitSet(d) THEN {0} ELSE {}
        /\ BitOf(e, k + 1) = IF (k + 1) - 1 \in BitSet(e) THEN {0} ELSE {}
      BY <2>1, BitTaken, Zenon
  <2>4. BitOf(d, k + 1) = BitOf(e, k + 1)
      BY <2>1, <2>3, Zenon
  <2> QED BY <2>1, <2>2, <2>4, Zenon
<1> HIDE DEF I
<1>3. s \in I
    BY <1>1, <1>2, Ascent, Zenon
<1> QED BY <1>3 DEF I

\* and backwards from the end.
LEMMA AlikeAfter ==
    ASSUME NEW d \in Seq(Octets), NEW e \in Seq(Octets), Len(d) = Len(e),
           NEW f, NEW g, Division(d, f), Division(e, g), f[8 * Len(d)] = g[8 * Len(d)],
           NEW s \in Nat, s <= 8 * Len(d),
           \A k \in s .. 8 * Len(d) - 1 : k \in BitSet(d) <=> k \in BitSet(e)
    PROVE  f[s] = g[s]
<1> DEFINE N == 8 * Len(d)
           I == {j \in Nat : j <= N - s => f[N - j] = g[N - j]}
<1>0. N \in Nat /\ N = 8 * Len(e)
    OBVIOUS
<1>1. 0 \in I
    OBVIOUS
<1>2. ASSUME NEW j \in Nat, j \in I PROVE j + 1 \in I
  <2> SUFFICES ASSUME j + 1 <= N - s PROVE f[N - (j + 1)] = g[N - (j + 1)]
      OBVIOUS
  <2>1. PICK k : k = N - (j + 1)
      BY Zenon
  <2>2. k + 1 = N - j /\ j <= N - s
      BY <1>0, <2>1
  <2>3. k + 1 \in 1 .. N /\ (k + 1) - 1 = k /\ k \in s .. N - 1 /\ k \in 0 .. N /\ f[k + 1] = g[k + 1]
      BY <1>0, <1>2, <2>1, <2>2
  <2>4. f[k + 1] = ShiftOut(Xor(f[k], BitOf(d, k + 1))) /\ g[k + 1] = ShiftOut(Xor(g[k], BitOf(e, k + 1)))
      BY <1>0, <2>3, Zenon DEF Division
  <2>5. /\ BitOf(d, k + 1) = IF (k + 1) - 1 \in BitSet(d) THEN {0} ELSE {}
        /\ BitOf(e, k + 1) = IF (k + 1) - 1 \in BitSet(e) THEN {0} ELSE {}
      BY <1>0, <2>3, BitTaken, Zenon
  <2>6. PICK b : b = BitOf(d, k + 1) /\ b = BitOf(e, k + 1)
      BY <2>3, <2>5, Zenon
  <2>7. b \in Words /\ f[k] \in Words /\ g[k] \in Words
    <3>1. {0} \in Words /\ {} \in Words
        BY DEF Words, Ones
    <3>2. b \in Words
        BY <2>5, <2>6, <3>1, Zenon
    <3> QED BY <1>0, <2>3, <3>2, Zenon DEF Division
  <2>8. Xor(f[k], b) \in Words /\ Xor(g[k], b) \in Words
      BY <2>7, WordTypes, Zenon DEF Words
  <2>9. Xor(f[k], b) = Xor(g[k], b)
      BY <2>3, <2>4, <2>6, <2>8, ShiftOutInjective, Zenon
  <2>10. f[k] = g[k]
    <3>1. \A x : x \in f[k] <=> (x \in Xor(f[k], b) <=> x \notin b)
        BY Zenon DEF Xor
    <3>2. \A x : x \in g[k] <=> (x \in Xor(g[k], b) <=> x \notin b)
        BY Zenon DEF Xor
    <3>3. \A x : x \in f[k] <=> x \in g[k]
        BY <2>9, <3>1, <3>2, Zenon
    <3> QED BY <3>3, Zenon
  <2> QED BY <2>1, <2>10, Zenon
<1> HIDE DEF I
<1>3. N - s \in I
  <2>1. N - s \in Nat
      BY <1>0
  <2> QED BY <1>1, <1>2, <2>1, Ascent, Zenon
<1>4. N - (N - s) = s /\ N - s <= N - s /\ N - s \in Nat
    BY <1>0
<1>5. f[N - (N - s)] = g[N - (N - s)]
    BY <1>3, <1>4, Zenon DEF I
<1> QED BY <1>4, <1>5, Zenon

\* The last four bytes are the checksum of the others.
Sealed(d) == Uint32(d, Len(d) - 3) = calculateCRC32(SubSeq(d, 1, Len(d) - 4))

\* The register that remains after data and its checksum does not depend on the data.
LEMMA Residue ==
    ASSUME NEW d \in Seq(Octets), Len(d) >= 4, Sealed(d), NEW f, Division(d, f),
           NEW y, Shifting(32, Ones, y)
    PROVE  f[8 * Len(d)] = y[32]
<1>1. PICK n : n = Len(d) - 4
    BY Zenon
<1>2. n \in Nat /\ Len(d) = n + 4 /\ Len(d) - 3 = n + 1 /\ 8 * n \in Nat /\ 8 * n + 32 = 8 * Len(d)
    BY <1>1
<1>3. PICK h : h = SubSeq(d, 1, n)
    BY Zenon
<1>4. h \in Seq(Octets) /\ Len(h) = n /\ \A k \in 1 .. n : h[k] = d[k]
    BY <1>2, <1>3
<1>5. PICK g : Division(h, g) /\ Remainder(h) = Xor(g[8 * Len(h)], Ones)
    BY <1>4, DivisionOf, Zenon
<1>6. f[8 * n] = g[8 * n]
  <2>1. PICK s : s = 8 * n
      BY Zenon
  <2>2. s \in Nat /\ s <= 8 * Len(d) /\ s <= 8 * Len(h)
      BY <1>2, <1>4, <2>1
  <2>3. ASSUME NEW k \in 0 .. s - 1 PROVE k \in BitSet(d) <=> k \in BitSet(h)
    <3>1. PICK q, r : q = k \div 8 /\ r = k % 8
        BY Zenon
    <3>2. 1 + q \in 1 .. n /\ k \in 0 .. 8 * Len(d) - 1 /\ k \in 0 .. 8 * Len(h) - 1
        BY <1>2, <1>4, <2>1, <3>1
    <3>3. h[1 + q] = d[1 + q]
        BY <1>4, <3>2, Zenon
    <3>4. (k \in BitSet(d) <=> r \in d[1 + q]) /\ (k \in BitSet(h) <=> r \in h[1 + q])
        BY <3>1, <3>2, Zenon DEF BitSet
    <3> QED BY <3>3, <3>4, Zenon
  <2>4. f[s] = g[s]
      BY <1>4, <1>5, <2>2, <2>3, AlikeBefore
  <2> QED BY <2>1, <2>4, Zenon
<1>7. PICK c : c = f[8 * n]
    BY Zenon
<1>8. Uint32(d, n + 1) = Xor(c, Ones)
    BY <1>1, <1>2, <1>3, <1>4, <1>5, <1>6, <1>7, TableDivides, Zenon DEF Sealed
<1>9. Window(d, 8 * n) = Uint32(d, n + 1)
  <2>1. ASSUME NEW i \in Ones
        PROVE  8 * n + i \in BitSet(d) <=> (i % 8) \in d[(n + 1) + (i \div 8)]
    <3>1. PICK q, r : q = i \div 8 /\ r = i % 8
        BY Zenon
    <3>2. PICK k : k = 8 * n + i
        BY Zenon
    <3>3. /\ k \in 0 .. 8 * Len(d) - 1 /\ k % 8 = r /\ 1 + (k \div 8) = (n + 1) + q
        BY <1>2, <3>1, <3>2 DEF Ones
    <3> QED BY <3>1, <3>2, <3>3, Zenon DEF BitSet
  <2> QED BY <2>1, Zenon DEF Window, Uint32
<1>10. /\ f[8 * n] \in Words
       /\ \A z : Shifting(32, Xor(f[8 * n], Window(d, 8 * n)), z) => f[8 * n + 32] = z[32]
  <2>1. PICK s : s = 8 * n
      BY Zenon
  <2>2. s \in Nat /\ s + 32 <= 8 * Len(d)
      BY <1>2, <2>1
  <2>3. f[s] \in Words /\ \A z : Shifting(32, Xor(f[s], Window(d, s)), z) => f[s + 32] = z[32]
      BY <2>2, WindowFed
  <2> QED BY <2>1, <2>3, Zenon
<1>11. Xor(c, Xor(c, Ones)) = Ones
  <2>1. c \subseteq Ones
      BY <1>7, <1>10, Zenon DEF Words
  <2>2. \A x : x \in Xor(c, Xor(c, Ones)) <=> x \in Ones
      BY <2>1, Zenon DEF Xor
  <2> QED BY <2>2, Zenon
<1>12. Xor(f[8 * n], Window(d, 8 * n)) = Ones
    BY <1>7, <1>8, <1>9, <1>11, Zenon
<1>13. f[8 * n + 32] = y[32]
    BY <1>10, <1>12, Zenon
<1> QED BY <1>2, <1>13, Zenon

\* Data that differ within 32 bits do not both end in their checksum.
LEMMA BurstBreaksSeal ==
    ASSUME NEW d \in Seq(Octets), NEW e \in Seq(Octets), Len(d) = Len(e), Len(d) >= 4,
           Sealed(d), Sealed(e), NEW from \in Nat,
           \A k \in 0 .. 8 * Len(d) - 1 :
             (k \in BitSet(d) <=> k \in BitSet(e)) \/ k \in from .. from + 31
    PROVE  \A k \in 0 .. 8 * Len(d) - 1 : k \in BitSet(d) <=> k \in BitSet(e)
<1>1. PICK N : N = 8 * Len(d)
    BY Zenon
<1>2. N \in Nat /\ N >= 32 /\ N = 8 * Len(e) /\ Len(e) >= 4
    BY <1>1
<1>3. PICK s \in Nat : s + 32 <= N /\ \A k \in 0 .. N - 1 : k \in from .. from + 31 => k \in s .. s + 31
  <2>1. CASE from + 32 <= N
      BY <2>1, Zenon
  <2>2. CASE ~(from + 32 <= N)
    <3>1. N - 32 \in Nat /\ (N - 32) + 32 <= N
        BY <1>2
    <3>2. \A k \in 0 .. N - 1 : k \in from .. from + 31 => k \in N - 32 .. (N - 32) + 31
        BY <1>2, <2>2
    <3> QED BY <3>1, <3>2, Zenon
  <2> QED BY <2>1, <2>2, Zenon
<1>4. PICK f : Division(d, f)
    BY DivisionOf, Zenon
<1>5. PICK g : Division(e, g)
    BY DivisionOf, Zenon
<1>6. \E y : Shifting(32, Ones, y)
  <2>1. PICK m : m = 32
      BY Zenon
  <2>2. \E y : Shifting(m, Ones, y)
    <3>1. m \in Nat /\ Ones \in Words
        BY <2>1, Zenon DEF Words
    <3> QED BY <3>1, Shifts, Zenon
  <2> QED BY <2>1, <2>2, Zenon
<1>7. f[N] = g[N]
  <2>1. PICK y : Shifting(32, Ones, y)
      BY <1>6, Zenon
  <2>2. f[8 * Len(d)] = y[32]
      BY <1>4, <2>1, Residue
  <2>3. g[8 * Len(e)] = y[32]
      BY <1>2, <1>5, <2>1, Residue
  <2> QED BY <1>1, <1>2, <2>2, <2>3, Zenon
<1>8. f[s] = g[s]
  <2>1. ASSUME NEW k \in 0 .. s - 1 PROVE k \in BitSet(d) <=> k \in BitSet(e)
    <3>1. k \in 0 .. N - 1 /\ k \notin s .. s + 31
        BY <1>2, <1>3
    <3> QED BY <1>1, <1>3, <3>1, Zenon
  <2>2. s <= 8 * Len(d) /\ s <= 8 * Len(e)
      BY <1>1, <1>2, <1>3
  <2> QED BY <1>4, <1>5, <2>1, <2>2, AlikeBefore
<1>9. f[s + 32] = g[s + 32]
  <2>1. PICK u : u = s + 32
      BY Zenon
  <2>2. u \in Nat /\ u <= 8 * Len(d) /\ f[8 * Len(d)] = g[8 * Len(d)]
      BY <1>1, <1>3, <1>7, <2>1
  <2>3. ASSUME NEW k \in u .. 8 * Len(d) - 1 PROVE k \in BitSet(d) <=> k \in BitSet(e)
    <3>1. k \in 0 .. N - 1 /\ k \notin s .. s + 31
        BY <1>1, <1>2, <2>1, <2>2
    <3> QED BY <1>1, <1>3, <3>1, Zenon
  <2>4. f[u] = g[u]
      BY <1>4, <1>5, <2>2, <2>3, AlikeAfter
  <2> QED BY <2>1, <2>4, Zenon
<1>10. /\ f[s] \in Words /\ Window(d, s) \in Words /\ Window(e, s) \in Words
       /\ \A y : Shifting(32, Xor(f[s], Window(d, s)), y) => f[s + 32] = y[32]
       /\ \A y : Shifting(32, Xor(g[s], Window(e, s)), y) => g[s + 32] = y[32]
  <2>1. s + 32 <= 8 * Len(d) /\ s + 32 <= 8 * Len(e)
      BY <1>1, <1>2, <1>3, Zenon
  <2>2. /\ f[s] \in Words /\ Window(d, s) \in Words
        /\ \A y : Shifting(32, Xor(f[s], Window(d, s)), y) => f[s + 32] = y[32]
      BY <1>4, <2>1, WindowFed
  <2>3. /\ Window(e, s) \in Words
        /\ \A y : Shifting(32, Xor(g[s], Window(e, s)), y) => g[s + 32] = y[32]
      BY <1>5, <2>1, WindowFed
  <2> QED BY <2>2, <2>3, Zenon
<1>11. Window(d, s) = Window(e, s)
  <2>1. PICK m, a, b : m = 32 /\ a = Xor(f[s], Window(d, s)) /\ b = Xor(f[s], Window(e, s))
      BY Zenon
  <2>2. m \in Nat /\ a \in Words /\ b \in Words
      BY <1>10, <2>1, WordTypes DEF Words
  <2>3. PICK y : Shifting(m, a, y)
      BY <2>2, Shifts, Zenon
  <2>4. PICK z : Shifting(m, b, z)
      BY <2>2, Shifts, Zenon
  <2>5. y[m] = z[m]
      BY <1>8, <1>9, <1>10, <2>1, <2>3, <2>4, Zenon
  <2>6. a = b
      BY <2>2, <2>3, <2>4, <2>5, ShiftsInjective, Zenon
  <2>7. Xor(f[s], Window(d, s)) = Xor(f[s], Window(e, s))
      BY <2>1, <2>6, Zenon
  <2>8. \A x : x \in Window(d, s) <=> (x \in Xor(f[s], Window(d, s)) <=> x \notin f[s])
      BY Zenon DEF Xor
  <2>9. \A x : x \in Window(e, s) <=> (x \in Xor(f[s], Window(e, s)) <=> x \notin f[s])
      BY Zenon DEF Xor
  <2>10. \A x : x \in Window(d, s) <=> x \in Window(e, s)
      BY <2>7, <2>8, <2>9, Zenon
  <2> QED BY <2>10, Zenon
<1>12. ASSUME NEW k \in 0 .. N - 1 PROVE k \in BitSet(d) <=> k \in BitSet(e)
  <2>1. CASE k \in s .. s + 31
    <3>1. PICK i : i = k - s
        BY Zenon
    <3>2. i \in Ones /\ s + i = k
        BY <2>1, <3>1 DEF Ones
    <3>3. (i \in Window(d, s) <=> k \in BitSet(d)) /\ (i \in Window(e, s) <=> k \in BitSet(e))
        BY <3>2, Zenon DEF Window
    <3> QED BY <1>11, <3>3, Zenon
  <2>2. CASE k \notin s .. s + 31
      BY <1>1, <1>3, <2>2, Zenon
  <2> QED BY <2>1, <2>2, Zenon
<1> QED BY <1>1, <1>12, Zenon

\* The places that Inverted changes.
LEMMA InvertedBits ==
    ASSUME NEW d \in Seq(Octets), NEW bits
    PROVE  /\ Inverted(d, bits) \in Seq(Octets) /\ Len(Inverted(d, bits)) = Len(d)
           /\ \A k \in 0 .. 8 * Len(d) - 1 :
                (k \in BitSet(Inverted(d, bits)) <=> k \in BitSet(d)) <=> k \notin bits
           /\ \A q \in 1 .. Len(d) : (\A i \in 0 .. 7 : 8 * (q - 1) + i \notin bits) =>
                Inverted(d, bits)[q] = d[q]
<1> DEFINE b(q) == Xor(d[q], {i \in 0 .. 7 : 8 * (q - 1) + i \in bits})
<1>1. PICK n : n = Len(d)
    BY Zenon
<1>2. n \in Nat /\ DOMAIN d = 1 .. n /\ \A q \in 1 .. n : d[q] \in Octets
    BY <1>1
<1>3. Inverted(d, bits) = [q \in 1 .. n |-> b(q)]
    BY <1>2, Zenon DEF Inverted
<1>4. \A q \in 1 .. n : b(q) \in Octets
    BY <1>2, Zenon DEF Octets, Xor
<1>5. ASSUME NEW q \in 1 .. n, NEW i \in 0 .. 7
      PROVE  (i \in b(q) <=> i \in d[q]) <=> 8 * (q - 1) + i \notin bits
    BY Zenon DEF Xor
<1>6. ASSUME NEW q \in 1 .. n, \A i \in 0 .. 7 : 8 * (q - 1) + i \notin bits PROVE b(q) = d[q]
  <2>1. {i \in 0 .. 7 : 8 * (q - 1) + i \in bits} = {}
      BY <1>6, Zenon
  <2> QED BY <2>1, Zenon DEF Xor
<1> HIDE DEF b
<1>7. PICK e : e = [q \in 1 .. n |-> b(q)]
    BY Zenon
<1>8. e \in Seq(Octets) /\ Len(e) = n /\ \A q \in 1 .. n : e[q] = b(q)
  <2>1. [q \in 1 .. n |-> b(q)] \in Seq(Octets)
      BY <1>2, <1>4
  <2>2. Len([q \in 1 .. n |-> b(q)]) = n
      BY <1>2
  <2> QED BY <1>7, <2>1, <2>2, Zenon
<1>9. ASSUME NEW k \in 0 .. 8 * n - 1 PROVE (k \in BitSet(e) <=> k \in BitSet(d)) <=> k \notin bits
  <2>1. PICK q, i : q = 1 + (k \div 8) /\ i = k % 8
      BY Zenon
  <2>2. q \in 1 .. n /\ i \in 0 .. 7 /\ k = 8 * (q - 1) + i
      BY <1>2, <2>1
  <2>3. (k \in BitSet(e) <=> i \in e[q]) /\ (k \in BitSet(d) <=> i \in d[q])
      BY <1>1, <1>8, <2>1, Zenon DEF BitSet
  <2>4. (i \in b(q) <=> i \in d[q]) <=> k \notin bits
      BY <1>5, <2>2, Zenon
  <2>5. e[q] = b(q)
      BY <1>8, <2>2, Zenon
  <2> QED BY <2>3, <2>4, <2>5, Zenon
<1> QED BY <1>1, <1>3, <1>6, <1>7, <1>8, <1>9, Zenon

\* A frame ends in the checksum of the rest.
LEMMA FrameSealed ==
    ASSUME NEW t \in Seq(Octets), NEW p \in Seq(Octets)
    PROVE  /\ FrameOf(t, p) \in Seq(Octets) /\ Len(FrameOf(t, p)) = 12 + Len(t) + Len(p)
           /\ Sealed(FrameOf(t, p))
<1>1. PICK n, m, y, d : n = Len(t) /\ m = Len(p) /\ y = Body(t, p) /\ d = FrameOf(t, p)
    BY Zenon
<1>2. Placed(t, p, n, m, y, d)
    BY <1>1, FrameParts, Zenon
<1>3. /\ y \in Seq(Octets) /\ d \in Seq(Octets) /\ Len(y) = 8 + n + m /\ Len(d) = 12 + n + m
      /\ \A k \in 1 .. Len(y) : d[k] = y[k]
      /\ \A k \in 1 .. 4 : d[8 + n + m + k] = PutUint32(calculateCRC32(y))[k]
    BY <1>2, Zenon DEF Placed
<1>4. n \in Nat /\ m \in Nat
    BY <1>1
<1>5. PICK q : q = 9 + n + m
    BY Zenon
<1>6. q \in Nat /\ Len(d) - 3 = q /\ Len(d) - 4 = Len(y) /\ \A k \in 1 .. 4 : q + (k - 1) = 8 + n + m + k
    BY <1>3, <1>4, <1>5
<1>7. \A k \in 1 .. 4 : d[q + (k - 1)] = PutUint32(calculateCRC32(y))[k]
    BY <1>3, <1>6, Zenon
<1>8. Uint32(d, q) = calculateCRC32(y)
  <2>1. calculateCRC32(y) \in Words
      BY <1>3, ChecksumWord, Zenon
  <2> QED BY <1>6, <1>7, <2>1, WordFromBytes
<1>9. SubSeq(d, 1, Len(y)) = y
  <2>1. PICK z : z = 0
      BY Zenon
  <2>2. z \in Nat /\ z + Len(y) <= Len(d) /\ \A k \in 1 .. Len(y) : z + k = k
      BY <1>3, <1>4, <2>1
  <2>3. \A k \in 1 .. Len(y) : d[z + k] = y[k]
      BY <1>3, <2>2, Zenon
  <2>4. SubSeq(d, z + 1, z + Len(y)) = y
      BY <1>3, <2>2, <2>3, PartIs, Zenon
  <2>5. z + 1 = 1 /\ z + Len(y) = Len(y)
      BY <1>3, <1>4, <2>1
  <2> QED BY <2>4, <2>5, Zenon
<1>10. Sealed(d)
    BY <1>6, <1>8, <1>9, Zenon DEF Sealed
<1> QED BY <1>1, <1>3, <1>10, Zenon

\* The line inverts two bits among 32 neighbouring ones, or all from one to the other.
Burst(first, data) ==
    \E last \in first .. first + 31 :
      data' = Inverted(data, {first, last}) \/ data' = Inverted(data, first .. last)

\* After a burst it does not.
LEMMA BurstUnseals ==
    ASSUME NEW t \in Seq(Octets), NEW p \in Seq(Octets), NEW d, d = FrameOf(t, p),
           NEW first \in 0 .. 8 * Len(d) - 1, NEW bits \in SUBSET (first .. first + 31), first \in bits
    PROVE  ~Sealed(Inverted(d, bits))
<1>1. PICK e : e = Inverted(d, bits)
    BY Zenon
<1>2. d \in Seq(Octets) /\ Len(d) = 12 + Len(t) + Len(p) /\ Sealed(d)
    BY FrameSealed, Zenon
<1>3. /\ e \in Seq(Octets) /\ Len(e) = Len(d)
      /\ \A k \in 0 .. 8 * Len(d) - 1 : (k \in BitSet(e) <=> k \in BitSet(d)) <=> k \notin bits
    BY <1>1, <1>2, InvertedBits, Zenon
<1>4. Len(d) >= 4 /\ first \in Nat
    BY <1>2
<1> SUFFICES ASSUME Sealed(e) PROVE FALSE
    BY <1>1, Zenon
<1>5. \A k \in 0 .. 8 * Len(d) - 1 : (k \in BitSet(d) <=> k \in BitSet(e)) \/ k \in first .. first + 31
    BY <1>3, Zenon
<1>6. \A k \in 0 .. 8 * Len(d) - 1 : k \in BitSet(d) <=> k \in BitSet(e)
    BY <1>2, <1>3, <1>4, <1>5, BurstBreaksSeal, Zenon
<1> QED BY <1>3, <1>6, Zenon

\* Decode checks the last four bytes of whatever it gets.
LEMMA GoRefusesUnsealed ==
    ASSUME NEW e, ~Sealed(e)
    PROVE  Decode(e) \in {ErrInvalidMessage, ErrCRCMismatch}
<1>1. Uint32(e, Len(e) - 3) # calculateCRC32(SubSeq(e, 1, Len(e) - 4))
    BY Zenon DEF Sealed
<1>2. CASE Len(e) < 12
    BY <1>2, Zenon DEF Decode
<1>3. CASE ~(Len(e) < 12) /\ ~TotalLenIs(Uint32(e, 1), Uint32(e, 5), Len(e))
    BY <1>3, Zenon DEF Decode
<1>4. CASE ~(Len(e) < 12) /\ TotalLenIs(Uint32(e, 1), Uint32(e, 5), Len(e))
    BY <1>1, <1>4, Zenon DEF Decode
<1> QED BY <1>2, <1>3, <1>4, Zenon

\* The C library reads the lengths first: when they are not damaged, it looks for the
\* checksum where Go does.
LengthsIntact(t, p, e) == \A q \in 1 .. 8 : e[q] = FrameOf(t, p)[q]

\* qdp_message_read refuses such data too.
LEMMA CRefusesUnsealed ==
    ASSUME NEW t \in Seq(Octets), NEW p \in Seq(Octets), Len(t) \in HalfRange, Len(p) \in HalfRange,
           NEW e \in Seq(Octets), Len(e) = 12 + Len(t) + Len(p), ~Sealed(e),
           LengthsIntact(t, p, e)
    PROVE  qdp_message_read(e) = Failed
<1>1. PICK n, m, d : n = Len(t) /\ m = Len(p) /\ d = FrameOf(t, p)
    BY Zenon
<1>2. n \in Nat /\ m \in Nat /\ Len(e) = 12 + n + m
    BY <1>1
<1>3. Placed(t, p, n, m, Body(t, p), d)
    BY <1>1, FrameParts, Zenon
<1>4. /\ \A k \in 1 .. 4 : d[k] = PutUint32(Word(n))[k]
      /\ \A k \in 1 .. 4 : d[4 + k] = PutUint32(Word(m))[k]
    BY <1>3, Zenon DEF Placed
<1>5. /\ Word(n) \in Words /\ LowHalf(Word(n)) = n /\ Word(m) \in Words /\ LowHalf(Word(m)) = m
    BY <1>1, HalvesOfWord, Zenon
<1>6. Uint32(e, 1) = Word(n)
  <2>1. PICK q : q = 1
      BY Zenon
  <2>2. q \in Nat /\ \A k \in 1 .. 4 : q + (k - 1) = k /\ k \in 1 .. 8
      BY <2>1
  <2>3. \A k \in 1 .. 4 : e[q + (k - 1)] = PutUint32(Word(n))[k]
      BY <1>1, <1>4, <2>2, Zenon DEF LengthsIntact
  <2>4. q \in Nat /\ Word(n) \in Words
      BY ONLY <1>5, <2>2, Zenon
  <2>5. Uint32(e, q) = Word(n)
      BY ONLY <2>3, <2>4, WordFromBytes, Zenon
  <2> QED BY ONLY <2>1, <2>5, Zenon
<1>7. Uint32(e, 5) = Word(m)
  <2>1. PICK q : q = 5
      BY Zenon
  <2>2. q \in Nat /\ \A k \in 1 .. 4 : q + (k - 1) = 4 + k /\ 4 + k \in 1 .. 8
      BY <2>1
  <2>3. \A k \in 1 .. 4 : e[q + (k - 1)] = PutUint32(Word(m))[k]
      BY <1>1, <1>4, <2>2 DEF LengthsIntact
  <2>4. q \in Nat /\ Word(m) \in Words
      BY ONLY <1>5, <2>2, Zenon
  <2>5. Uint32(e, q) = Word(m)
      BY ONLY <2>3, <2>4, WordFromBytes, Zenon
  <2> QED BY ONLY <2>1, <2>5, Zenon
<1>8. PICK crcAt : crcAt = (8 + n) + m
    BY Zenon
<1>9. crcAt \in Nat /\ Len(e) - 3 = crcAt + 1 /\ Len(e) - 4 = crcAt /\ crcAt <= Len(e)
    BY ONLY <1>2, <1>8
<1>10. SubSeq(e, 1, crcAt) \in Seq(Octets)
    BY <1>9
<1>11. Uint32(e, crcAt + 1) # qdp_calc_crc32(SubSeq(e, 1, crcAt))
    BY <1>9, <1>10, SameChecksum, Zenon DEF Sealed
<1> QED BY ONLY <1>5, <1>6, <1>7, <1>8, <1>11, Zenon DEF qdp_message_read

\* A burst of at most 32 bits, anywhere in a frame of any message, makes Decode return an
\* error; when it starts after the two lengths, qdp_message_read refuses the frame too.
THEOREM BurstsAreRefused ==
    CodecSpec =>
      [][\A first \in 0 .. 8 * Len(received) - 1 : Damage /\ Burst(first, received) =>
           /\ Decode(received') \in {ErrInvalidMessage, ErrCRCMismatch}
           /\ first >= 64 => qdp_message_read(received') = Failed]_codecVars
<1> DEFINE Refused ==
             \A first \in 0 .. 8 * Len(received) - 1 : Damage /\ Burst(first, received) =>
               /\ Decode(received') \in {ErrInvalidMessage, ErrCRCMismatch}
               /\ first >= 64 => qdp_message_read(received') = Failed
<1>1. Composed /\ Sent => Refused
  <2> SUFFICES ASSUME Composed, Sent, Damage, NEW first \in 0 .. 8 * Len(received) - 1,
                      Burst(first, received)
               PROVE  /\ Decode(received') \in {ErrInvalidMessage, ErrCRCMismatch}
                      /\ first >= 64 => qdp_message_read(received') = Failed
      BY Zenon
  <2>1. PICK t, p, d, e : t = msgTopic /\ p = msgPayload /\ d = received /\ e = received'
      BY Zenon
  <2>2. t \in Seq(Octets) /\ p \in Seq(Octets) /\ d = FrameOf(t, p) /\ first \in 0 .. 8 * Len(d) - 1
      BY <2>1, Bounds DEF Composed, Sent, Damage
  <2>3. PICK bits \in SUBSET (first .. first + 31) : first \in bits /\ e = Inverted(d, bits)
    <3>1. PICK last \in first .. first + 31 :
            received' = Inverted(received, {first, last}) \/ received' = Inverted(received, first .. last)
        BY Zenon DEF Burst
    <3>2. /\ {first, last} \in SUBSET (first .. first + 31) /\ first \in {first, last}
          /\ first .. last \in SUBSET (first .. first + 31) /\ first \in first .. last
        BY <2>2
    <3> QED BY <2>1, <3>1, <3>2, Zenon
  <2>4. ~Sealed(e)
      BY <2>2, <2>3, BurstUnseals, Zenon
  <2>5. Decode(e) \in {ErrInvalidMessage, ErrCRCMismatch}
      BY <2>4, GoRefusesUnsealed, Zenon
  <2>6. ASSUME first >= 64 PROVE qdp_message_read(e) = Failed
    <3>1. d \in Seq(Octets) /\ Len(d) = 12 + Len(t) + Len(p)
        BY <2>2, FrameSealed, Zenon
    <3>2. /\ e \in Seq(Octets) /\ Len(e) = Len(d)
          /\ \A q \in 1 .. Len(d) : (\A i \in 0 .. 7 : 8 * (q - 1) + i \notin bits) => e[q] = d[q]
        BY <2>3, <3>1, InvertedBits, Zenon
    <3>3. ASSUME NEW q \in 1 .. 8 PROVE e[q] = d[q]
      <4>1. q \in 1 .. Len(d)
          BY <2>2, <3>1
      <4>2. \A i \in 0 .. 7 : 8 * (q - 1) + i \notin bits
          BY <2>2, <2>3, <2>6
      <4> QED BY <3>2, <4>1, <4>2, Zenon
    <3>4. Len(t) \in HalfRange /\ Len(p) \in HalfRange
      <4>1. Len(t) \in Nat /\ Len(p) \in Nat /\ Len(t) <= MaxText /\ Len(p) <= MaxData
          BY <2>1, <2>2 DEF Composed
      <4> QED BY <4>1, Bounds, Zenon
    <3>5. LengthsIntact(t, p, e)
        BY <2>2, <3>3, Zenon DEF LengthsIntact
    <3> QED BY <2>2, <2>4, <3>1, <3>2, <3>4, <3>5, CRefusesUnsealed, Zenon
  <2> QED BY <2>1, <2>5, <2>6, Zenon
<1>2. CodecSpec => [][Refused]_codecVars
  <2> HIDE DEF Refused
  <2> QED BY <1>1, MessagesComposed, FramesSent, PTL
<1> QED BY <1>2, Zenon
=============================================================================
