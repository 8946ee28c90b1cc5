---------------------------- MODULE StreamProofs ----------------------------
(***************************************************************************)
(* Proofs about Stream and the text/event-stream format, for every body,   *)
(* every way to cut it, and every limit; and about Watchdog, the body that *)
(* a stream is read from.                                                  *)
(***************************************************************************)
EXTENDS Stream, Watchdog, SequenceTheorems, FiniteSetTheorems, WellFoundedInduction, TLAPS

-----------------------------------------------------------------------------
(* Induction over a set of numbers.                                        *)

Less == {ss \in Nat \X Nat : ss[1] < ss[2]}

\* A set of numbers that is not empty has a least element.
LEMMA LeastElement ==
  ASSUME NEW T \in SUBSET Nat, T # {}
  PROVE  \E n \in T : \A m \in T : n <= m
  <1>1. OpToRel(<, Nat) = Less
    BY Zenon DEF OpToRel, Less
  <1>2. IsWellFoundedOn(Less, Nat)
    BY <1>1, NatLessThanWellFounded, Zenon
  <1>3. PICK n \in T : \A m \in T : ~(<<m, n>> \in Less)
    BY <1>2, WFMin
  <1>4. \A m \in T : n <= m
    <2> TAKE m \in T
    <2>1. ~(<<m, n>> \in Less) /\ m \in Nat /\ n \in Nat
      BY <1>3
    <2>2. <<m, n>>[1] = m /\ <<m, n>>[2] = n /\ <<m, n>> \in Nat \X Nat
      BY <2>1
    <2>3. ~(m < n)
      BY <2>1, <2>2 DEF Less
    <2> QED BY <2>1, <2>3
  <1> QED BY <1>4

\* Induction from 0.
LEMMA SetInduction ==
  ASSUME NEW T \in SUBSET Nat, 0 \in T, \A n \in T : n + 1 \in T
  PROVE  \A n \in Nat : n \in T
  <1> SUFFICES ASSUME Nat \ T # {} PROVE FALSE
    OBVIOUS
  <1>1. PICK n \in Nat \ T : \A m \in Nat \ T : n <= m
    BY LeastElement
  <1>2. n # 0 /\ n - 1 \in Nat /\ ~(n <= n - 1)
    BY <1>1
  <1>3. n - 1 \in T
    BY <1>1, <1>2
  <1>4. (n - 1) + 1 = n
    BY <1>2
  <1> QED BY <1>1, <1>3, <1>4

-----------------------------------------------------------------------------
(* InOrder.                                                                *)

\* What InOrder's function has at i, from its value before i.
UpTo(S, g, i) ==
    IF i = 0 THEN <<>> ELSE IF i \in S THEN Append(g[i - 1], i) ELSE g[i - 1]

IsUpTo(S, f, n) == f = [i \in 0..n |-> UpTo(S, f, i)]

\* The recursion defines a function.
LEMMA UpToExists ==
  ASSUME NEW S, NEW n \in Nat
  PROVE  \E f : f = [i \in 0..n |-> UpTo(S, f, i)]
  <1> DEFINE T == {m \in Nat : \E g : g = [i \in 0..m |-> UpTo(S, g, i)]}
  <1>1. 0 \in T
    <2> DEFINE g == [i \in 0..0 |-> <<>>]
    <2>1. g = [i \in 0..0 |-> UpTo(S, g, i)]
      BY DEF UpTo
    <2> QED BY <2>1
  <1>2. ASSUME NEW m \in T PROVE m + 1 \in T
    <2>1. m \in Nat
      OBVIOUS
    <2>2. PICK g : g = [i \in 0..m |-> UpTo(S, g, i)]
      OBVIOUS
    <2> DEFINE h == [i \in 0..(m + 1) |-> IF i = m + 1 THEN UpTo(S, g, m + 1) ELSE g[i]]
    <2>3. \A i \in 0..(m + 1) : h[i] = UpTo(S, h, i)
      <3> TAKE i \in 0..(m + 1)
      <3>1. CASE i = 0
        BY <2>1, <2>2, <3>1 DEF UpTo
      <3>2. CASE i \in 1..m
        <4>1. i \in 0..m /\ i - 1 \in 0..(m + 1) /\ i - 1 # m + 1 /\ i # m + 1 /\ i # 0
          BY <2>1, <3>2
        <4>2. h[i] = g[i] /\ h[i - 1] = g[i - 1]
          BY <4>1
        <4>3. g[i] = UpTo(S, g, i)
          BY <2>2, <4>1
        <4> QED BY <4>1, <4>2, <4>3 DEF UpTo
      <3>3. CASE i = m + 1
        <4>1. i # 0 /\ i - 1 = m /\ m \in 0..(m + 1) /\ m # m + 1
          BY <2>1, <3>3
        <4>2. h[i] = UpTo(S, g, m + 1) /\ h[m] = g[m]
          BY <3>3, <4>1
        <4> QED BY <3>3, <4>1, <4>2 DEF UpTo
      <3> QED BY <2>1, <3>1, <3>2, <3>3
    <2>4. h = [i \in 0..(m + 1) |-> UpTo(S, h, i)]
      BY <2>3
    <2>5. m + 1 \in Nat
      BY <2>1
    <2> HIDE DEF h
    <2> QED BY <2>4, <2>5
  <1>3. n \in T
    <2> HIDE DEF T
    <2>1. T \in SUBSET Nat
      BY DEF T
    <2> QED BY <1>1, <1>2, <2>1, SetInduction
  <1> QED BY <1>3

\* InOrder is the last value of such a function.
LEMMA InOrderFunction ==
  ASSUME NEW S, NEW n \in Nat
  PROVE  \E f : IsUpTo(S, f, n) /\ InOrder(S, n) = f[n]
  <1> DEFINE f == CHOOSE g : g = [i \in 0..n |-> UpTo(S, g, i)]
  <1>1. f = [i \in 0..n |-> UpTo(S, f, i)]
    BY UpToExists
  <1>2. InOrder(S, n) = f[n]
    BY DEF InOrder, UpTo
  <1> HIDE DEF f
  <1> QED BY <1>1, <1>2 DEF IsUpTo

\* Functions of two sets that agree up to a bound have the same values there.
LEMMA UpToSame ==
  ASSUME NEW S, NEW T, NEW n \in Nat, NEW a \in Nat, NEW b \in Nat, n <= a, n <= b,
         \A i \in 1..n : i \in S <=> i \in T,
         NEW f, IsUpTo(S, f, a), NEW g, IsUpTo(T, g, b)
  PROVE  f[n] = g[n]
  <1> DEFINE P == {m \in Nat : m <= n => f[m] = g[m]}
  <1>1. 0 \in P
    <2>1. 0 \in 0..a /\ 0 \in 0..b
      OBVIOUS
    <2>2. f[0] = UpTo(S, f, 0) /\ g[0] = UpTo(T, g, 0)
      BY <2>1 DEF IsUpTo
    <2>3. f[0] = g[0]
      BY <2>2 DEF UpTo
    <2> QED BY <2>3
  <1>2. ASSUME NEW m \in P PROVE m + 1 \in P
    <2>1. m \in Nat /\ (m <= n => f[m] = g[m])
      OBVIOUS
    <2>2. SUFFICES ASSUME m + 1 <= n PROVE f[m + 1] = g[m + 1]
      BY <2>1
    <2>3. m + 1 \in 0..a /\ m + 1 \in 0..b /\ m + 1 \in 1..n /\ m + 1 # 0 /\ (m + 1) - 1 = m /\ m <= n
      BY <2>1, <2>2
    <2>4. f[m + 1] = UpTo(S, f, m + 1) /\ g[m + 1] = UpTo(T, g, m + 1)
      BY <2>3 DEF IsUpTo
    <2>5. f[m] = g[m] /\ (m + 1 \in S <=> m + 1 \in T)
      BY <2>1, <2>3
    <2> QED BY <2>3, <2>4, <2>5 DEF UpTo
  <1>3. n \in P
    <2> HIDE DEF P
    <2>1. P \in SUBSET Nat
      BY DEF P
    <2> QED BY <1>1, <1>2, <2>1, SetInduction
  <1> QED BY <1>3

\* Only the members up to n count.
LEMMA InOrderSame ==
  ASSUME NEW S, NEW T, NEW n \in Nat, \A i \in 1..n : i \in S <=> i \in T
  PROVE  InOrder(S, n) = InOrder(T, n)
  <1>1. PICK f : IsUpTo(S, f, n) /\ InOrder(S, n) = f[n]
    BY InOrderFunction
  <1>2. PICK g : IsUpTo(T, g, n) /\ InOrder(T, n) = g[n]
    BY InOrderFunction
  <1>3. f[n] = g[n]
    BY <1>1, <1>2, UpToSame
  <1> QED BY <1>1, <1>2, <1>3

\* InOrder, one position at a time.
LEMMA InOrderZero ==
  ASSUME NEW S
  PROVE  InOrder(S, 0) = <<>>
  <1>1. PICK f : IsUpTo(S, f, 0) /\ InOrder(S, 0) = f[0]
    BY InOrderFunction
  <1>2. f[0] = UpTo(S, f, 0)
    BY <1>1 DEF IsUpTo
  <1> QED BY <1>1, <1>2 DEF UpTo

\* InOrder, one position at a time.
LEMMA InOrderNext ==
  ASSUME NEW S, NEW n \in Nat
  PROVE  InOrder(S, n + 1) =
           IF n + 1 \in S THEN Append(InOrder(S, n), n + 1) ELSE InOrder(S, n)
  <1>0. n + 1 \in Nat /\ n <= n + 1 /\ n + 1 \in 0..(n + 1) /\ n + 1 # 0 /\ (n + 1) - 1 = n
    OBVIOUS
  <1>1. PICK f : IsUpTo(S, f, n) /\ InOrder(S, n) = f[n]
    BY InOrderFunction
  <1>2. PICK g : IsUpTo(S, g, (n + 1)) /\ InOrder(S, n + 1) = g[n + 1]
    BY <1>0, InOrderFunction
  <1>3. f[n] = g[n]
    BY <1>0, <1>1, <1>2, UpToSame
  <1>4. g[n + 1] = UpTo(S, g, n + 1)
    BY <1>0, <1>2 DEF IsUpTo
  <1> QED BY <1>0, <1>1, <1>2, <1>3, <1>4 DEF UpTo

\* A sequence that has the members of S up to n, in order.
Ordered(q, S, n) ==
    /\ q \in Seq(Nat)
    /\ \A k \in 1..Len(q) : q[k] \in S /\ q[k] \in 1..n
    /\ \A j, k \in 1..Len(q) : j < k => q[j] < q[k]
    /\ \A x \in S : x \in 1..n => \E k \in 1..Len(q) : q[k] = x

\* InOrder gives such a sequence.
LEMMA InOrderOrdered ==
  ASSUME NEW S, NEW n \in Nat
  PROVE  Ordered(InOrder(S, n), S, n)
  <1> DEFINE P == {m \in Nat : Ordered(InOrder(S, m), S, m)}
  <1>1. 0 \in P
    <2>1. Ordered(<<>>, S, 0)
      BY DEF Ordered
    <2> QED BY <2>1, InOrderZero
  <1>2. ASSUME NEW m \in P PROVE m + 1 \in P
    <2>1. m \in Nat /\ Ordered(InOrder(S, m), S, m)
      OBVIOUS
    <2> DEFINE q == InOrder(S, m)
               r == InOrder(S, m + 1)
    <2>2. r = IF m + 1 \in S THEN Append(q, m + 1) ELSE q
      BY <2>1, InOrderNext
    <2>3. Ordered(q, S, m)
      BY <2>1
    <2> HIDE DEF q, r
    <2>4. \A x : x \in 1..(m + 1) <=> x \in 1..m \/ x = m + 1
      BY <2>1
    <2>5. CASE m + 1 \notin S
      BY <2>1, <2>2, <2>3, <2>4, <2>5 DEF Ordered, q, r
    <2>6. CASE m + 1 \in S
      <3>1. r = Append(q, m + 1) /\ q \in Seq(Nat) /\ m + 1 \in Nat
        BY <2>1, <2>2, <2>3, <2>6 DEF Ordered
      <3>2. r \in Seq(Nat) /\ Len(r) = Len(q) + 1 /\ r[Len(q) + 1] = m + 1
            /\ \A k \in 1..Len(q) : r[k] = q[k]
        BY <3>1
      <3>3. Len(q) \in Nat /\ \A k \in 1..Len(r) : k \in 1..Len(q) \/ k = Len(q) + 1
        BY <3>1, <3>2
      <3>4. \A k \in 1..Len(r) : r[k] \in S /\ r[k] \in 1..(m + 1)
        BY <2>3, <2>4, <2>6, <3>2, <3>3 DEF Ordered
      <3>5. ASSUME NEW j \in 1..Len(r), NEW k \in 1..Len(r), j < k PROVE r[j] < r[k]
        <4>1. j \in 1..Len(q)
          BY <3>2, <3>3, <3>5
        <4>2. q[j] \in 1..m /\ r[j] = q[j]
          BY <2>3, <3>2, <4>1 DEF Ordered
        <4>3. CASE k \in 1..Len(q)
          BY <2>3, <3>2, <3>5, <4>1, <4>3 DEF Ordered
        <4>4. CASE k = Len(q) + 1
          BY <2>1, <3>2, <4>2, <4>4
        <4> QED BY <3>3, <4>3, <4>4
      <3>6. ASSUME NEW x \in S, x \in 1..(m + 1) PROVE \E k \in 1..Len(r) : r[k] = x
        <4>1. CASE x = m + 1
          BY <3>2, <3>3, <4>1
        <4>2. CASE x \in 1..m
          <5>1. PICK k \in 1..Len(q) : q[k] = x
            BY <2>3, <4>2 DEF Ordered
          <5>2. k \in 1..Len(r) /\ r[k] = x
            BY <3>2, <3>3, <5>1
          <5> QED BY <5>2
        <4> QED BY <2>4, <3>6, <4>1, <4>2
      <3>7. Ordered(r, S, m + 1)
        BY <3>2, <3>4, <3>5, <3>6 DEF Ordered
      <3> QED BY <2>1, <3>7 DEF r
    <2> QED BY <2>5, <2>6
  <1>3. n \in P
    <2> HIDE DEF P
    <2>1. P \in SUBSET Nat
      BY DEF P
    <2> QED BY <1>1, <1>2, <2>1, SetInduction
  <1> QED BY <1>3

-----------------------------------------------------------------------------
(* Picked and Pieces, one element at a time.                               *)

\* What is picked of a sequence is a sequence.
LEMMA PickedSeq ==
  ASSUME NEW X, NEW s \in Seq(X), NEW S
  PROVE  Picked(s, S) \in Seq(X)
  <1> DEFINE q == InOrder(S, Len(s))
  <1>1. Ordered(q, S, Len(s))
    BY InOrderOrdered
  <1> HIDE DEF q
  <1>2. Len(q) \in Nat /\ \A k \in 1..Len(q) : q[k] \in 1..Len(s)
    BY <1>1 DEF Ordered
  <1>3. \A k \in 1..Len(q) : s[q[k]] \in X
    BY <1>2
  <1>4. [k \in 1..Len(q) |-> s[q[k]]] \in Seq(X)
    BY <1>2, <1>3, IsASeq
  <1> QED BY <1>4 DEF Picked, q

\* Nothing is picked of the empty sequence.
LEMMA PickedEmpty ==
  ASSUME NEW S
  PROVE  Picked(<<>>, S) = <<>>
  <1>1. Len(<<>>) = 0
    OBVIOUS
  <1>2. InOrder(S, Len(<<>>)) = <<>>
    BY <1>1, InOrderZero
  <1> QED BY <1>2 DEF Picked

\* What is picked of a longer sequence.
LEMMA PickedNext ==
  ASSUME NEW X, NEW s \in Seq(X), NEW x \in X, NEW S, NEW T,
         \A i \in 1..Len(s) : i \in S <=> i \in T
  PROVE  Picked(Append(s, x), T) =
           IF Len(s) + 1 \in T THEN Append(Picked(s, S), x) ELSE Picked(s, S)
  <1> DEFINE n == Len(s)
             t == Append(s, x)
             q == InOrder(S, n)
             r == InOrder(T, n + 1)
             p == [k \in 1..Len(q) |-> s[q[k]]]
             v == [k \in 1..Len(r) |-> t[r[k]]]
  <1>1. n \in Nat /\ Len(t) = n + 1 /\ t[n + 1] = x /\ \A i \in 1..n : t[i] = s[i]
    OBVIOUS
  <1>2. InOrder(T, n) = q
    BY <1>1, InOrderSame
  <1>3. r = IF n + 1 \in T THEN Append(q, n + 1) ELSE q
    BY <1>1, <1>2, InOrderNext
  <1>4. Ordered(q, S, n)
    BY <1>1, InOrderOrdered
  <1>5. Picked(s, S) = p /\ Picked(t, T) = v
    BY <1>1 DEF Picked
  <1> HIDE DEF q, r
  <1>6. q \in Seq(Nat) /\ Len(q) \in Nat /\ \A k \in 1..Len(q) : q[k] \in 1..n
    BY <1>4 DEF Ordered
  <1>7. \A k \in 1..Len(q) : t[q[k]] = s[q[k]] /\ s[q[k]] \in X
    BY <1>1, <1>6
  <1>8. CASE n + 1 \notin T
    <2>1. r = q
      BY <1>3, <1>8
    <2>2. v = p
      BY <1>7, <2>1
    <2> QED BY <1>5, <1>8, <2>2
  <1>9. CASE n + 1 \in T
    <2>1. r = Append(q, n + 1)
      BY <1>3, <1>9
    <2>2. Len(r) = Len(q) + 1 /\ r[Len(q) + 1] = n + 1 /\ \A k \in 1..Len(q) : r[k] = q[k]
      BY <1>1, <1>6, <2>1
    <2>3. \A k \in 1..Len(r) : v[k] \in X
      BY <1>1, <1>6, <1>7, <2>2, SMTT(30)
    <2>4. v \in Seq(X) /\ Len(v) = Len(q) + 1
      BY <1>6, <2>2, <2>3
    <2>5. p \in Seq(X) /\ Len(p) = Len(q)
      BY <1>6, <1>7
    <2>6. v[Len(q) + 1] = x /\ \A k \in 1..Len(q) : v[k] = p[k]
      BY <1>1, <1>6, <1>7, <2>2
    <2> HIDE DEF v, p
    <2>7. v = Append(p, x)
      <3>1. Append(p, x) \in Seq(X) /\ Len(Append(p, x)) = Len(q) + 1
            /\ Append(p, x)[Len(q) + 1] = x /\ \A k \in 1..Len(q) : Append(p, x)[k] = p[k]
        BY <2>5
      <3>2. \A k \in 1..Len(v) : v[k] = Append(p, x)[k]
        BY <1>6, <2>4, <2>6, <3>1
      <3> QED BY <2>4, <3>1, <3>2, SeqEqual
    <2> QED BY <1>5, <1>9, <2>7
  <1> QED BY <1>8, <1>9

\* Where the next piece starts.
After(ends) == IF ends = <<>> THEN 0 ELSE Last(ends)

\* Positions within a sequence, in order.
Within(ends, n) ==
    /\ ends \in Seq(Nat)
    /\ \A k \in 1..Len(ends) : ends[k] \in 1..n
    /\ \A j, k \in 1..Len(ends) : j < k => ends[j] < ends[k]

\* The end of the last piece is a position.
LEMMA AfterWithin ==
  ASSUME NEW n \in Nat, NEW ends, Within(ends, n)
  PROVE  After(ends) \in 0..n /\ \A k \in 1..Len(ends) : ends[k] <= After(ends)
  <1>1. ends \in Seq(Nat) /\ Len(ends) \in Nat
    BY DEF Within
  <1>2. CASE ends = <<>>
    BY <1>2 DEF After
  <1>3. CASE ends # <<>>
    <2>1. Len(ends) \in 1..Len(ends) /\ After(ends) = ends[Len(ends)]
      BY <1>1, <1>3 DEF After, Last
    <2>2. \A k \in 1..Len(ends) : k = Len(ends) \/ k < Len(ends)
      BY <1>1
    <2>3. \A k \in 1..Len(ends) : ends[k] <= ends[Len(ends)]
      BY <1>1, <2>1, <2>2 DEF Within
    <2> QED BY <2>1, <2>3 DEF Within
  <1> QED BY <1>2, <1>3

\* A piece of a sequence.
LEMMA PieceSeq ==
  ASSUME NEW X, NEW s \in Seq(X), NEW a \in Nat, NEW b \in 0..Len(s)
  PROVE  SubSeq(s, a + 1, b) \in Seq(X)
  <1>1. \A i \in (a + 1)..b : s[i] \in X
    OBVIOUS
  <1>2. a + 1 \in Int /\ b \in Int
    OBVIOUS
  <1> QED BY <1>1, <1>2, SubSeqProperties

\* The pieces are sequences.
LEMMA PiecesSeq ==
  ASSUME NEW X, NEW s \in Seq(X), NEW ends, Within(ends, Len(s))
  PROVE  Pieces(s, ends) \in Seq(Seq(X))
  <1>1. ends \in Seq(Nat) /\ Len(ends) \in Nat /\ \A k \in 1..Len(ends) : ends[k] \in 1..Len(s)
    BY DEF Within
  <1>2. ASSUME NEW k \in 1..Len(ends)
        PROVE  SubSeq(s, IF k = 1 THEN 1 ELSE ends[k - 1] + 1, ends[k]) \in Seq(X)
    <2>1. ends[k] \in 0..Len(s)
      BY <1>1
    <2>2. CASE k = 1
      <3>1. SubSeq(s, 0 + 1, ends[k]) \in Seq(X)
        BY <2>1, PieceSeq
      <3> QED BY <2>2, <3>1
    <2>3. CASE k # 1
      <3>1. k - 1 \in 1..Len(ends)
        BY <1>1, <2>3
      <3>2. ends[k - 1] \in Nat
        BY <1>1, <3>1
      <3> QED BY <2>1, <2>3, <3>2, PieceSeq
    <2> QED BY <2>2, <2>3
  <1> QED BY <1>1, <1>2, IsASeq DEF Pieces

\* One more end is one more piece.
LEMMA PiecesNext ==
  ASSUME NEW X, NEW s \in Seq(X), NEW ends, Within(ends, Len(s)),
         NEW e, Within(Append(ends, e), Len(s))
  PROVE  Pieces(s, Append(ends, e)) = Append(Pieces(s, ends), SubSeq(s, After(ends) + 1, e))
  <1> DEFINE both == Append(ends, e)
             p == Pieces(s, ends)
             r == Pieces(s, both)
             piece == SubSeq(s, After(ends) + 1, e)
             N == Len(ends)
  <1>0. ends \in Seq(Nat) /\ N \in Nat /\ both \in Seq(Nat)
    BY DEF Within
  <1>1. Len(both) = N + 1 /\ both[N + 1] = e /\ \A k \in 1..N : both[k] = ends[k]
    BY <1>0
  <1>2. e \in 1..Len(s) /\ After(ends) \in Nat
    BY <1>0, <1>1, AfterWithin DEF Within
  <1>3. p \in Seq(Seq(X)) /\ r \in Seq(Seq(X)) /\ piece \in Seq(X)
    BY <1>2, PiecesSeq, PieceSeq
  <1>4. Len(p) = N /\ Len(r) = N + 1
    BY <1>0, <1>1 DEF Pieces
  <1>5. \A k \in 1..N : r[k] = p[k]
    <2> TAKE k \in 1..N
    <2>1. k \in 1..(N + 1) /\ both[k] = ends[k]
      BY <1>0, <1>1
    <2>2. k # 1 => both[k - 1] = ends[k - 1]
      BY <1>0, <1>1
    <2>3. r[k] = SubSeq(s, IF k = 1 THEN 1 ELSE both[k - 1] + 1, both[k])
      BY <1>1, <2>1 DEF Pieces
    <2>4. p[k] = SubSeq(s, IF k = 1 THEN 1 ELSE ends[k - 1] + 1, ends[k])
      BY DEF Pieces
    <2> QED BY <2>1, <2>2, <2>3, <2>4
  <1>6. r[N + 1] = piece
    <2>1. N + 1 \in 1..(N + 1)
      BY <1>0
    <2>2. r[N + 1] = SubSeq(s, IF N + 1 = 1 THEN 1 ELSE both[(N + 1) - 1] + 1, both[N + 1])
      BY <1>1, <2>1 DEF Pieces
    <2>3. CASE N = 0
      <3>1. ends = <<>> /\ After(ends) + 1 = 1
        BY <1>0, <2>3 DEF After
      <3>2. N + 1 = 1
        BY <2>3
      <3>3. r[N + 1] = SubSeq(s, 1, e)
        BY <1>1, <2>2, <3>2
      <3> QED BY <3>1, <3>3
    <2>4. CASE N # 0
      <3>1. ends # <<>> /\ N + 1 # 1 /\ (N + 1) - 1 = N /\ N \in 1..N
        BY <1>0, <2>4
      <3>2. After(ends) = ends[N] /\ both[N] = ends[N]
        BY <1>1, <3>1 DEF After, Last
      <3> QED BY <1>1, <2>2, <3>1, <3>2
    <2> QED BY <2>3, <2>4
  <1> HIDE DEF p, r, piece, N
  <1>7. Append(p, piece) \in Seq(Seq(X)) /\ Len(Append(p, piece)) = N + 1
        /\ Append(p, piece)[N + 1] = piece /\ \A k \in 1..N : Append(p, piece)[k] = p[k]
    BY <1>3, <1>4
  <1>8. \A k \in 1..Len(r) : r[k] = Append(p, piece)[k]
    <2> TAKE k \in 1..Len(r)
    <2>1. k \in 1..N \/ k = N + 1
      BY <1>0, <1>4
    <2> QED BY <1>5, <1>6, <1>7, <2>1
  <1>9. r = Append(p, piece)
    BY <1>3, <1>4, <1>7, <1>8, SeqEqual
  <1> QED BY <1>9 DEF p, r, piece

\* A piece of the beginning.
LEMMA PieceOfAppend ==
  ASSUME NEW X, NEW s \in Seq(X), NEW x \in X, NEW a \in Nat, NEW b \in 0..Len(s)
  PROVE  SubSeq(Append(s, x), a + 1, b) = SubSeq(s, a + 1, b)
  <1> DEFINE t == Append(s, x)
             u == SubSeq(t, a + 1, b)
             v == SubSeq(s, a + 1, b)
  <1>1. t \in Seq(X) /\ Len(t) = Len(s) + 1 /\ \A i \in 1..Len(s) : t[i] = s[i]
    OBVIOUS
  <1>2. b \in 0..Len(t) /\ (a + 1 \in 1..(b + 1) \/ a + 1 > b + 1)
    BY <1>1
  <1>3. u \in Seq(X) /\ v \in Seq(X)
    BY <1>1, PieceSeq
  <1>4. Len(u) = (IF a + 1 <= b THEN b - a ELSE 0) /\ Len(v) = (IF a + 1 <= b THEN b - a ELSE 0)
    BY <1>1, SubSeqProperties
  <1>5. \A k \in 1..Len(u) : u[k] = v[k]
    <2> TAKE k \in 1..Len(u)
    <2>1. a + 1 <= b /\ a + k \in 1..b /\ k \in 1..(b - a)
      BY <1>4
    <2>2. u[k] = t[a + k] /\ v[k] = s[a + k]
      BY <1>1, <2>1
    <2> QED BY <1>1, <2>1, <2>2
  <1> HIDE DEF u, v
  <1>6. u = v
    BY <1>3, <1>4, <1>5, SeqEqual
  <1> QED BY <1>6 DEF u, v

\* The pieces of the beginning do not depend on what follows.
LEMMA PiecesOfAppend ==
  ASSUME NEW X, NEW s \in Seq(X), NEW x \in X, NEW ends, Within(ends, Len(s))
  PROVE  Pieces(Append(s, x), ends) = Pieces(s, ends)
  <1>1. ends \in Seq(Nat) /\ Len(ends) \in Nat /\ \A k \in 1..Len(ends) : ends[k] \in 1..Len(s)
    BY DEF Within
  <1>2. ASSUME NEW k \in 1..Len(ends)
        PROVE  SubSeq(Append(s, x), IF k = 1 THEN 1 ELSE ends[k - 1] + 1, ends[k])
                 = SubSeq(s, IF k = 1 THEN 1 ELSE ends[k - 1] + 1, ends[k])
    <2>1. ends[k] \in 0..Len(s)
      BY <1>1
    <2>2. CASE k = 1
      <3> DEFINE z == 0
      <3>1. z \in Nat /\ z + 1 = 1
        OBVIOUS
      <3> HIDE DEF z
      <3>2. SubSeq(Append(s, x), z + 1, ends[k]) = SubSeq(s, z + 1, ends[k])
        BY <2>1, <3>1, PieceOfAppend
      <3> QED BY <2>2, <3>1, <3>2
    <2>3. CASE k # 1
      <3>1. k - 1 \in 1..Len(ends)
        BY <1>1, <2>3
      <3>2. ends[k - 1] \in Nat
        BY <1>1, <3>1
      <3> QED BY <2>1, <2>3, <3>2, PieceOfAppend
    <2> QED BY <2>2, <2>3
  <1> QED BY <1>2 DEF Pieces

-----------------------------------------------------------------------------
(* Blocks, values and events, one line at a time.                          *)

Txt == Seq(Symbols)

\* InOrder gives positions in order.
LEMMA InOrderWithin ==
  ASSUME NEW S, NEW n \in Nat
  PROVE  Within(InOrder(S, n), n)
  BY InOrderOrdered DEF Ordered, Within

\* A piece up to the end grows with the sequence.
LEMMA PieceGrows ==
  ASSUME NEW X, NEW s \in Seq(X), NEW x \in X, NEW a \in 0..Len(s)
  PROVE  SubSeq(Append(s, x), a + 1, Len(s) + 1) = Append(SubSeq(s, a + 1, Len(s)), x)
  <1> DEFINE n == Len(s)
             t == Append(s, x)
             u == SubSeq(t, a + 1, n + 1)
             v == SubSeq(s, a + 1, n)
  <1>1. n \in Nat /\ t \in Seq(X) /\ Len(t) = n + 1 /\ t[n + 1] = x /\ \A i \in 1..n : t[i] = s[i]
    OBVIOUS
  <1>2. u \in Seq(X) /\ v \in Seq(X)
    BY <1>1, PieceSeq
  <1>3. Len(u) = n + 1 - a /\ Len(v) = n - a
    BY <1>1, SubSeqProperties
  <1>4. \A k \in 1..Len(u) : u[k] = t[a + k]
    BY <1>1, <1>3, SubSeqProperties
  <1>5. \A k \in 1..Len(v) : v[k] = s[a + k]
    BY <1>1, <1>3, SubSeqProperties
  <1> HIDE DEF u, v
  <1>6. Append(v, x) \in Seq(X) /\ Len(Append(v, x)) = n + 1 - a
        /\ Append(v, x)[n - a + 1] = x /\ \A k \in 1..(n - a) : Append(v, x)[k] = v[k]
    BY <1>1, <1>2, <1>3
  <1>7. \A k \in 1..Len(u) : u[k] = Append(v, x)[k]
    <2> TAKE k \in 1..Len(u)
    <2>1. CASE k \in 1..(n - a)
      <3>1. u[k] = t[a + k] /\ v[k] = s[a + k] /\ a + k \in 1..n
        BY <1>1, <1>3, <1>4, <1>5, <2>1
      <3> QED BY <1>1, <1>6, <2>1, <3>1
    <2>2. CASE k = n - a + 1
      <3>1. u[k] = t[n + 1]
        BY <1>1, <1>4, <2>2
      <3> QED BY <1>1, <1>6, <2>2, <3>1
    <2> QED BY <1>1, <1>3, <2>1, <2>2
  <1>8. u = Append(v, x)
    BY <1>2, <1>3, <1>6, <1>7, SeqEqual
  <1> QED BY <1>8 DEF u, v

BlankEnds(lines) == InOrder({i \in 1..Len(lines) : lines[i] = <<>>}, Len(lines))

\* The lines since the last blank one.
Open(lines) == SubSeq(lines, After(BlankEnds(lines)) + 1, Len(lines))

\* The blank lines are positions.
LEMMA BlankEndsWithin ==
  ASSUME NEW p \in Seq(Txt)
  PROVE  /\ Within(BlankEnds(p), Len(p))
         /\ After(BlankEnds(p)) \in 0..Len(p)
         /\ Open(p) \in Seq(Txt)
  <1>1. Len(p) \in Nat
    OBVIOUS
  <1>2. Within(BlankEnds(p), Len(p))
    BY <1>1, InOrderWithin DEF BlankEnds
  <1>3. After(BlankEnds(p)) \in 0..Len(p)
    BY <1>1, <1>2, AfterWithin
  <1>4. Open(p) \in Seq(Txt)
    BY <1>1, <1>3, PieceSeq DEF Open
  <1> QED BY <1>2, <1>3, <1>4

\* A line more is one more blank line, or none.
LEMMA BlankEndsNext ==
  ASSUME NEW p \in Seq(Txt), NEW l \in Txt
  PROVE  BlankEnds(Append(p, l)) =
           IF l = <<>> THEN Append(BlankEnds(p), Len(p) + 1) ELSE BlankEnds(p)
  <1> DEFINE t == Append(p, l)
             n == Len(p)
             S == {i \in 1..Len(p) : p[i] = <<>>}
             T == {i \in 1..Len(t) : t[i] = <<>>}
  <1>1. n \in Nat /\ Len(t) = n + 1 /\ t[n + 1] = l /\ \A i \in 1..n : t[i] = p[i]
    OBVIOUS
  <1>2. \A i \in 1..n : i \in T <=> i \in S
    BY <1>1
  <1>3. n + 1 \in T <=> l = <<>>
    BY <1>1
  <1>4. BlankEnds(t) = InOrder(T, n + 1) /\ BlankEnds(p) = InOrder(S, n)
    BY <1>1 DEF BlankEnds
  <1> HIDE DEF S, T
  <1>5. InOrder(T, n) = InOrder(S, n)
    BY <1>1, <1>2, InOrderSame
  <1>6. InOrder(T, n + 1) = IF n + 1 \in T THEN Append(InOrder(T, n), n + 1) ELSE InOrder(T, n)
    BY <1>1, InOrderNext
  <1> QED BY <1>3, <1>4, <1>5, <1>6

\* A blank line ends a block.
LEMMA BlocksNext ==
  ASSUME NEW p \in Seq(Txt), NEW l \in Txt
  PROVE  /\ l = <<>> => /\ Blocks(Append(p, l)) = Append(Blocks(p), Append(Open(p), l))
                        /\ Open(Append(p, l)) = <<>>
         /\ l # <<>> => /\ Blocks(Append(p, l)) = Blocks(p)
                        /\ Open(Append(p, l)) = Append(Open(p), l)
  <1> DEFINE t == Append(p, l)
             n == Len(p)
             b == BlankEnds(p)
             c == BlankEnds(t)
  <1>1. n \in Nat /\ t \in Seq(Txt) /\ Len(t) = n + 1
    OBVIOUS
  <1>2. Blocks(p) = Pieces(p, b) /\ Blocks(t) = Pieces(t, c)
    BY DEF Blocks, BlankEnds
  <1>3. Within(b, n) /\ After(b) \in 0..n /\ Within(c, n + 1)
    BY <1>1, BlankEndsWithin
  <1>4. c = IF l = <<>> THEN Append(b, n + 1) ELSE b
    BY BlankEndsNext
  <1>5. Open(p) = SubSeq(p, After(b) + 1, n) /\ Open(t) = SubSeq(t, After(c) + 1, n + 1)
    BY <1>1 DEF Open
  <1>6. Pieces(t, b) = Pieces(p, b)
    BY <1>3, PiecesOfAppend
  <1>7. SubSeq(t, After(b) + 1, n + 1) = Append(SubSeq(p, After(b) + 1, n), l)
    BY <1>3, PieceGrows
  <1>8. Within(b, n + 1)
    BY <1>1, <1>3 DEF Within
  <1> HIDE DEF b, c
  <1>9. CASE l = <<>>
    <2>1. c = Append(b, n + 1)
      BY <1>4, <1>9
    <2>2. Pieces(t, c) = Append(Pieces(t, b), SubSeq(t, After(b) + 1, n + 1))
      BY <1>1, <1>3, <1>8, <2>1, PiecesNext
    <2>3. After(c) = n + 1
      <3>1. b \in Seq(Nat) /\ n + 1 \in Nat
        BY <1>1, <1>3 DEF Within
      <3>2. c # <<>> /\ c[Len(c)] = n + 1
        BY <2>1, <3>1
      <3> QED BY <3>2 DEF After, Last
    <2>4. SubSeq(t, (n + 1) + 1, n + 1) = <<>>
      BY <1>1
    <2> QED BY <1>2, <1>5, <1>6, <1>7, <1>9, <2>2, <2>3, <2>4
  <1>10. CASE l # <<>>
    <2>1. c = b
      BY <1>4, <1>10
    <2> QED BY <1>2, <1>5, <1>6, <1>7, <1>10, <2>1
  <1> QED BY <1>9, <1>10

\* The values of a field, one line at a time.
LEMMA ValuesNext ==
  ASSUME NEW p \in Seq(Txt), NEW l \in Txt, NEW name
  PROVE  /\ Values(name, p) \in Seq(Txt)
         /\ Values(name, Append(p, l)) =
              IF Field(name, l) THEN Append(Values(name, p), Tail(l)) ELSE Values(name, p)
  <1> DEFINE t == Append(p, l)
             S == {i \in 1..Len(p) : Field(name, p[i])}
             T == {i \in 1..Len(t) : Field(name, t[i])}
             a == Picked(p, S)
             b == Picked(t, T)
  <1>1. Len(p) \in Nat /\ Len(t) = Len(p) + 1 /\ t[Len(p) + 1] = l /\ \A i \in 1..Len(p) : t[i] = p[i]
    OBVIOUS
  <1>2. \A i \in 1..Len(p) : i \in S <=> i \in T
    BY <1>1
  <1>3. Len(p) + 1 \in T <=> Field(name, l)
    BY <1>1
  <1>4. Values(name, p) = [k \in 1..Len(a) |-> Tail(a[k])]
        /\ Values(name, t) = [k \in 1..Len(b) |-> Tail(b[k])]
    BY DEF Values
  <1>5. \A i \in S : Field(name, p[i])
    OBVIOUS
  <1> HIDE DEF S, T
  <1>6. b = IF Len(p) + 1 \in T THEN Append(a, l) ELSE a
    BY <1>2, PickedNext
  <1>7. a \in Seq(Txt)
    BY PickedSeq
  <1>8. \A k \in 1..Len(a) : a[k] # <<>>
    <2> DEFINE q == InOrder(S, Len(p))
    <2>1. Ordered(q, S, Len(p))
      BY <1>1, InOrderOrdered
    <2>2. a = [k \in 1..Len(q) |-> p[q[k]]]
      BY DEF Picked
    <2> HIDE DEF q
    <2>3. Len(q) \in Nat /\ Len(a) = Len(q) /\ \A k \in 1..Len(q) : q[k] \in S
      BY <2>1, <2>2 DEF Ordered
    <2>4. \A k \in 1..Len(q) : Field(name, p[q[k]])
      BY <1>5, <2>3
    <2> QED BY <2>2, <2>3, <2>4 DEF Field
  <1> HIDE DEF a, b
  <1>9. Len(a) \in Nat /\ \A k \in 1..Len(a) : Tail(a[k]) \in Txt
    <2>1. Len(a) \in Nat
      BY <1>7
    <2>2. ASSUME NEW k \in 1..Len(a) PROVE Tail(a[k]) \in Txt
      <3>1. a[k] \in Seq(Symbols) /\ a[k] # <<>>
        BY <1>7, <1>8 DEF Txt
      <3> QED BY <3>1, HeadTailProperties DEF Txt
    <2> QED BY <2>1, <2>2
  <1>10. Values(name, p) \in Seq(Txt) /\ Len(Values(name, p)) = Len(a)
         /\ \A k \in 1..Len(a) : Values(name, p)[k] = Tail(a[k])
    BY <1>4, <1>9
  <1>11. CASE ~Field(name, l)
    BY <1>3, <1>4, <1>6, <1>10, <1>11
  <1>12. CASE Field(name, l)
    <2> DEFINE v == Values(name, p)
               u == Values(name, t)
    <2>1. b = Append(a, l)
      BY <1>3, <1>6, <1>12
    <2>2. Len(b) = Len(a) + 1 /\ b[Len(a) + 1] = l /\ \A k \in 1..Len(a) : b[k] = a[k]
      BY <1>7, <2>1
    <2>3. Tail(l) \in Txt
      BY <1>12, HeadTailProperties DEF Field, Txt
    <2>4. u = [k \in 1..(Len(a) + 1) |-> Tail(b[k])]
      BY <1>4, <2>2
    <2>5. \A k \in 1..(Len(a) + 1) : Tail(b[k]) \in Txt
      BY <1>9, <2>2, <2>3
    <2>6. u \in Seq(Txt) /\ Len(u) = Len(a) + 1
      BY <1>9, <2>4, <2>5
    <2>7. u[Len(a) + 1] = Tail(l) /\ \A k \in 1..Len(a) : u[k] = v[k]
      BY <1>9, <1>10, <2>2, <2>4
    <2>8. v \in Seq(Txt) /\ Len(v) = Len(a)
      BY <1>10
    <2> HIDE DEF u, v
    <2>9. Append(v, Tail(l)) \in Seq(Txt) /\ Len(Append(v, Tail(l))) = Len(a) + 1
          /\ Append(v, Tail(l))[Len(a) + 1] = Tail(l)
          /\ \A k \in 1..Len(a) : Append(v, Tail(l))[k] = v[k]
      BY <2>3, <2>8
    <2>10. \A k \in 1..Len(u) : u[k] = Append(v, Tail(l))[k]
      BY <1>9, <2>6, <2>7, <2>9
    <2>11. u = Append(v, Tail(l))
      BY <2>6, <2>9, <2>10, SeqEqual
    <2> QED BY <1>10, <1>12, <2>11 DEF u, v
  <1> QED BY <1>11, <1>12

\* Of no lines there are no values.
LEMMA ValuesEmpty ==
  ASSUME NEW name
  PROVE  Values(name, <<>>) = <<>>
  BY PickedEmpty DEF Values

\* Events as records.
Evs == [event : Txt, data : Seq(Txt)]

\* What a block says is an event or nothing.
LEMMA EventOfType ==
  ASSUME NEW p \in Seq(Txt)
  PROVE  EventOf(p) \in Evs
  <1>1. Values("event", p) \in Seq(Txt) /\ Values("data", p) \in Seq(Txt)
    <2>1. <<>> \in Txt
      BY DEF Txt
    <2> QED BY <2>1, ValuesNext
  <1>2. LastOf(Values("event", p)) \in Txt
    <2> DEFINE v == Values("event", p)
    <2>1. v \in Seq(Txt)
      BY <1>1
    <2> HIDE DEF v
    <2>2. CASE v = <<>>
      BY <2>2 DEF LastOf, Txt, v
    <2>3. CASE v # <<>>
      <3>1. Len(v) \in 1..Len(v)
        BY <2>1, <2>3
      <3>2. v[Len(v)] \in Txt
        BY <2>1, <3>1
      <3> QED BY <2>3, <3>2 DEF LastOf, Last, v
    <2> QED BY <2>2, <2>3
  <1> QED BY <1>1, <1>2 DEF EventOf, Evs

\* The events of one more block.
LEMMA EventsOfNext ==
  ASSUME NEW bs \in Seq(Seq(Txt)), NEW b \in Seq(Txt)
  PROVE  /\ EventsOf(bs) \in Seq(Evs)
         /\ EventsOf(Append(bs, b)) =
              IF IsEvent(EventOf(b)) THEN Append(EventsOf(bs), EventOf(b)) ELSE EventsOf(bs)
  <1> DEFINE t == Append(bs, b)
             n == Len(bs)
             e == [k \in 1..Len(bs) |-> EventOf(bs[k])]
             f == [k \in 1..Len(t) |-> EventOf(t[k])]
             S == {k \in 1..Len(e) : IsEvent(e[k])}
             T == {k \in 1..Len(f) : IsEvent(f[k])}
  <1>1. n \in Nat /\ Len(t) = n + 1 /\ t[n + 1] = b /\ \A i \in 1..n : t[i] = bs[i]
    OBVIOUS
  <1>2. \A k \in 1..n : EventOf(bs[k]) \in Evs
    BY EventOfType
  <1>3. EventOf(b) \in Evs
    BY EventOfType
  <1>4. e \in Seq(Evs) /\ Len(e) = n /\ \A k \in 1..n : e[k] = EventOf(bs[k])
    BY <1>1, <1>2
  <1>5. \A k \in 1..(n + 1) : EventOf(t[k]) \in Evs
    BY <1>1, <1>2, <1>3
  <1>6. f \in Seq(Evs) /\ Len(f) = n + 1 /\ f[n + 1] = EventOf(b) /\ \A k \in 1..n : f[k] = e[k]
    BY <1>1, <1>4, <1>5
  <1>7. EventsOf(bs) = Picked(e, S) /\ EventsOf(t) = Picked(f, T)
    BY DEF EventsOf
  <1> HIDE DEF e, f
  <1>8. f = Append(e, EventOf(b))
    <2>1. Append(e, EventOf(b)) \in Seq(Evs) /\ Len(Append(e, EventOf(b))) = n + 1
          /\ Append(e, EventOf(b))[n + 1] = EventOf(b)
          /\ \A k \in 1..n : Append(e, EventOf(b))[k] = e[k]
      BY <1>3, <1>4
    <2>2. \A k \in 1..Len(f) : f[k] = Append(e, EventOf(b))[k]
      BY <1>1, <1>6, <2>1
    <2> QED BY <1>6, <2>1, <2>2, SeqEqual
  <1>9. \A k \in 1..Len(e) : k \in S <=> k \in T
    BY <1>1, <1>4, <1>6
  <1>10. Len(e) + 1 \in T <=> IsEvent(EventOf(b))
    BY <1>1, <1>4, <1>6
  <1> HIDE DEF S, T
  <1>11. Picked(f, T) = IF Len(e) + 1 \in T THEN Append(Picked(e, S), EventOf(b)) ELSE Picked(e, S)
    BY <1>3, <1>4, <1>8, <1>9, PickedNext
  <1>12. Picked(e, S) \in Seq(Evs)
    BY <1>4, PickedSeq
  <1> QED BY <1>7, <1>10, <1>11, <1>12

-----------------------------------------------------------------------------
(* What has been read of a body after some of its lines: the events that   *)
(* are complete, and the event that is being gathered.                     *)

Complete(lines) == EventsOf(Blocks(lines))
Gathered(lines) == EventOf(Open(lines))

\* The blocks are sequences of lines.
LEMMA BlocksSeq ==
  ASSUME NEW p \in Seq(Txt)
  PROVE  Blocks(p) \in Seq(Seq(Txt))
  BY BlankEndsWithin, PiecesSeq DEF Blocks, BlankEnds

\* A body that has not begun.
LEMMA ReadNothing ==
  /\ Complete(<<>>) = <<>>
  /\ Gathered(<<>>) = [event |-> <<>>, data |-> <<>>]
  <1>1. Len(<<>>) = 0
    OBVIOUS
  <1>2. BlankEnds(<<>>) = <<>>
    BY <1>1, InOrderZero DEF BlankEnds
  <1>3. Blocks(<<>>) = <<>>
    BY <1>2 DEF Blocks, BlankEnds, Pieces
  <1>4. Open(<<>>) = <<>>
    BY <1>1 DEF Open
  <1>5. EventsOf(<<>>) = <<>>
    <2> DEFINE e == [k \in 1..Len(<<>>) |-> EventOf(<<>>[k])]
    <2>1. e = <<>>
      BY <1>1
    <2> HIDE DEF e
    <2>2. EventsOf(<<>>) = Picked(e, {k \in 1..Len(e) : IsEvent(e[k])})
      BY DEF EventsOf, e
    <2> QED BY <2>1, <2>2, PickedEmpty
  <1>6. EventOf(<<>>) = [event |-> <<>>, data |-> <<>>]
    BY ValuesEmpty DEF EventOf, LastOf
  <1> QED BY <1>3, <1>4, <1>5, <1>6 DEF Complete, Gathered

\* The types.
LEMMA ReadTypes ==
  ASSUME NEW p \in Seq(Txt)
  PROVE  Complete(p) \in Seq(Evs) /\ Gathered(p) \in Evs
  <1>1. <<>> \in Seq(Txt) /\ Blocks(p) \in Seq(Seq(Txt)) /\ Open(p) \in Seq(Txt)
    BY BlocksSeq, BlankEndsWithin
  <1> QED BY <1>1, EventsOfNext, EventOfType DEF Complete, Gathered

\* A blank line completes the event that was gathered.
LEMMA ReadBlank ==
  ASSUME NEW p \in Seq(Txt)
  PROVE  /\ Complete(Append(p, <<>>)) =
              IF IsEvent(Gathered(p)) THEN Append(Complete(p), Gathered(p)) ELSE Complete(p)
         /\ Gathered(Append(p, <<>>)) = [event |-> <<>>, data |-> <<>>]
  <1> DEFINE l == <<>>
  <1>1. l \in Txt /\ l = <<>>
    BY DEF Txt
  <1>2. Open(p) \in Seq(Txt) /\ Blocks(p) \in Seq(Seq(Txt))
    BY BlankEndsWithin, BlocksSeq
  <1> HIDE DEF l
  <1>3. Blocks(Append(p, l)) = Append(Blocks(p), Append(Open(p), l)) /\ Open(Append(p, l)) = <<>>
    BY <1>1, BlocksNext
  <1>4. ~Field("event", l) /\ ~Field("data", l)
    BY <1>1 DEF Field
  <1>5. Values("event", Append(Open(p), l)) = Values("event", Open(p))
        /\ Values("data", Append(Open(p), l)) = Values("data", Open(p))
    BY <1>1, <1>2, <1>4, ValuesNext
  <1>6. EventOf(Append(Open(p), l)) = EventOf(Open(p))
    BY <1>5 DEF EventOf
  <1>7. Append(Open(p), l) \in Seq(Txt)
    BY <1>1, <1>2
  <1>8. EventsOf(Append(Blocks(p), Append(Open(p), l))) =
          IF IsEvent(EventOf(Open(p))) THEN Append(EventsOf(Blocks(p)), EventOf(Open(p)))
          ELSE EventsOf(Blocks(p))
    BY <1>2, <1>6, <1>7, EventsOfNext
  <1>9. EventOf(<<>>) = [event |-> <<>>, data |-> <<>>]
    BY ValuesEmpty DEF EventOf, LastOf
  <1> QED BY <1>1, <1>3, <1>8, <1>9 DEF Complete, Gathered

\* Any other line adds to the event that is gathered.
LEMMA ReadField ==
  ASSUME NEW p \in Seq(Txt), NEW l \in Txt, l # <<>>
  PROVE  /\ Complete(Append(p, l)) = Complete(p)
         /\ Gathered(Append(p, l)).event = IF Field("event", l) THEN Tail(l) ELSE Gathered(p).event
         /\ Gathered(Append(p, l)).data =
              IF Field("data", l) THEN Append(Gathered(p).data, Tail(l)) ELSE Gathered(p).data
  <1>1. Blocks(Append(p, l)) = Blocks(p) /\ Open(Append(p, l)) = Append(Open(p), l)
    BY BlocksNext
  <1>2. Open(p) \in Seq(Txt)
    BY BlankEndsWithin
  <1> DEFINE u == Values("event", Open(p))
             v == Values("event", Append(Open(p), l))
             x == Values("data", Open(p))
             y == Values("data", Append(Open(p), l))
  <1>3. u \in Seq(Txt) /\ v = IF Field("event", l) THEN Append(u, Tail(l)) ELSE u
    BY <1>2, ValuesNext
  <1>4. y = IF Field("data", l) THEN Append(x, Tail(l)) ELSE x
    BY <1>2, ValuesNext
  <1>5. Gathered(p).event = LastOf(u) /\ Gathered(Append(p, l)).event = LastOf(v)
    BY <1>1 DEF Gathered, EventOf
  <1>6. Gathered(p).data = x /\ Gathered(Append(p, l)).data = y
    BY <1>1 DEF Gathered, EventOf
  <1> HIDE DEF u, v, x, y
  <1>7. Field("event", l) => LastOf(v) = Tail(l)
    <2> SUFFICES ASSUME Field("event", l) PROVE LastOf(v) = Tail(l)
      OBVIOUS
    <2>1. v = Append(u, Tail(l)) /\ u \in Seq(Txt)
      BY <1>3
    <2>2. Tail(l) \in Txt
      BY HeadTailProperties DEF Txt
    <2>3. v # <<>> /\ v[Len(v)] = Tail(l)
      BY <2>1, <2>2, AppendProperties
    <2> QED BY <2>3 DEF LastOf, Last
  <1> QED BY <1>1, <1>3, <1>4, <1>5, <1>6, <1>7 DEF Complete

\* The first k elements.
First(s, k) == SubSeq(s, 1, k)

\* The beginning of a sequence, one element at a time.
LEMMA FirstNext ==
  ASSUME NEW X, NEW s \in Seq(X), NEW k \in 0..(Len(s) - 1)
  PROVE  /\ First(s, k) \in Seq(X)
         /\ First(s, k + 1) = Append(First(s, k), s[k + 1])
         /\ s[k + 1] \in X
  <1> DEFINE u == SubSeq(s, 1, k)
             v == SubSeq(s, 1, k + 1)
  <1>1. k \in Nat /\ k + 1 \in 1..Len(s) /\ s[k + 1] \in X
    OBVIOUS
  <1>2. u \in Seq(X) /\ Len(u) = k /\ \A i \in 1..k : u[i] = s[i]
    BY <1>1
  <1>3. v \in Seq(X) /\ Len(v) = k + 1 /\ \A i \in 1..(k + 1) : v[i] = s[i]
    BY <1>1
  <1> HIDE DEF u, v
  <1>4. Append(u, s[k + 1]) \in Seq(X) /\ Len(Append(u, s[k + 1])) = k + 1
        /\ Append(u, s[k + 1])[k + 1] = s[k + 1] /\ \A i \in 1..k : Append(u, s[k + 1])[i] = u[i]
    BY <1>1, <1>2
  <1>5. \A i \in 1..Len(v) : v[i] = Append(u, s[k + 1])[i]
    BY <1>1, <1>2, <1>3, <1>4
  <1>6. v = Append(u, s[k + 1])
    BY <1>3, <1>4, <1>5, SeqEqual
  <1> QED BY <1>1, <1>2, <1>6 DEF First, u, v

\* Beginnings that are nothing or everything.
LEMMA FirstEnds ==
  ASSUME NEW X, NEW s \in Seq(X)
  PROVE  First(s, 0) = <<>> /\ First(s, Len(s)) = s
  <1>1. SubSeq(s, 1, 0) = <<>>
    OBVIOUS
  <1>2. SubSeq(s, 1, Len(s)) = s
    OBVIOUS
  <1> QED BY <1>1, <1>2 DEF First

\* IsPrefix, element by element.
LEMMA PrefixDef ==
  ASSUME NEW X, NEW s \in Seq(X), NEW t \in Seq(X)
  PROVE  IsPrefix(s, t) <=> Len(s) <= Len(t) /\ \A i \in 1..Len(s) : s[i] = t[i]
  <1>1. SubSeq(s, 1, Len(s)) = s
    OBVIOUS
  <1>2. ASSUME Len(s) <= Len(t)
        PROVE  /\ SubSeq(t, 1, Len(s)) \in Seq(X) /\ Len(SubSeq(t, 1, Len(s))) = Len(s)
               /\ \A i \in 1..Len(s) : SubSeq(t, 1, Len(s))[i] = t[i]
    BY <1>2
  <1>3. ASSUME Len(s) <= Len(t), \A i \in 1..Len(s) : s[i] = t[i]
        PROVE  s = SubSeq(t, 1, Len(s))
    <2> DEFINE u == SubSeq(t, 1, Len(s))
    <2>1. u \in Seq(X) /\ Len(u) = Len(s) /\ \A i \in 1..Len(s) : u[i] = t[i]
      BY <1>2, <1>3
    <2> HIDE DEF u
    <2>2. s = u
      BY <1>3, <2>1, SeqEqual
    <2> QED BY <2>2 DEF u
  <1> QED BY <1>1, <1>2, <1>3 DEF IsPrefix

\* Appending keeps a prefix.
LEMMA PrefixAppend ==
  ASSUME NEW X, NEW s \in Seq(X), NEW t \in Seq(X), NEW x \in X, IsPrefix(s, t)
  PROVE  IsPrefix(s, Append(t, x))
  <1>1. Append(t, x) \in Seq(X) /\ Len(Append(t, x)) = Len(t) + 1
        /\ \A i \in 1..Len(t) : Append(t, x)[i] = t[i]
    OBVIOUS
  <1>2. Len(s) <= Len(t) /\ \A i \in 1..Len(s) : s[i] = t[i]
    BY PrefixDef
  <1>3. Len(s) \in Nat /\ Len(t) \in Nat
    OBVIOUS
  <1>4. Len(s) <= Len(Append(t, x)) /\ \A i \in 1..Len(s) : s[i] = Append(t, x)[i]
    BY <1>1, <1>2, <1>3
  <1> QED BY <1>1, <1>4, PrefixDef

\* The events that are complete stay so as lines are added.
LEMMA CompletePrefix ==
  ASSUME NEW ls \in Seq(Txt), NEW k \in 0..Len(ls)
  PROVE  IsPrefix(Complete(First(ls, k)), Complete(ls))
  <1> DEFINE n == Len(ls)
             C(i) == Complete(First(ls, i))
             P == {m \in Nat : k + m <= n => IsPrefix(C(k), C(k + m))}
  <1>0. n \in Nat /\ k \in Nat /\ k <= n
    OBVIOUS
  <1>1. \A i \in 0..n : First(ls, i) \in Seq(Txt)
    BY <1>0 DEF First
  <1>2. \A i \in 0..n : C(i) \in Seq(Evs)
    BY <1>1, ReadTypes
  <1>3. 0 \in P
    <2>1. IsPrefix(C(k), C(k))
      BY <1>0, <1>2, PrefixDef
    <2>2. k + 0 = k
      BY <1>0
    <2> QED BY <2>1, <2>2
  <1>4. ASSUME NEW m \in P PROVE m + 1 \in P
    <2>0. m \in Nat /\ (k + m <= n => IsPrefix(C(k), C(k + m)))
      OBVIOUS
    <2> SUFFICES ASSUME k + (m + 1) <= n PROVE IsPrefix(C(k), C(k + (m + 1)))
      BY <2>0
    <2> DEFINE j == k + m
               p == First(ls, j)
               l == ls[j + 1]
    <2>1. j \in 0..(n - 1) /\ j \in 0..n /\ k + (m + 1) = j + 1 /\ k + m <= n
      BY <1>0, <2>0
    <2>2. p \in Seq(Txt) /\ First(ls, j + 1) = Append(p, l) /\ l \in Txt
      BY <2>1, FirstNext
    <2>3. IsPrefix(C(k), Complete(p)) /\ Complete(p) \in Seq(Evs) /\ C(k) \in Seq(Evs)
          /\ Gathered(p) \in Evs
      BY <1>0, <1>2, <2>0, <2>1, <2>2, ReadTypes
    <2> HIDE DEF p, l
    <2>4. IsPrefix(C(k), Complete(Append(p, l)))
      <3> HIDE DEF C
      <3>1. CASE l = <<>>
        <4>1. CASE IsEvent(Gathered(p))
          <5>1. Complete(Append(p, l)) = Append(Complete(p), Gathered(p))
            BY <2>2, <3>1, <4>1, ReadBlank
          <5> QED BY <2>3, <5>1, PrefixAppend
        <4>2. CASE ~IsEvent(Gathered(p))
          BY <2>2, <2>3, <3>1, <4>2, ReadBlank
        <4> QED BY <4>1, <4>2
      <3>2. CASE l # <<>>
        BY <2>2, <2>3, <3>2, ReadField
      <3> QED BY <3>1, <3>2
    <2> QED BY <2>1, <2>2, <2>4
  <1>5. n - k \in P
    <2> HIDE DEF P
    <2>1. P \in SUBSET Nat /\ n - k \in Nat
      BY <1>0 DEF P
    <2> QED BY <1>3, <1>4, <2>1, SetInduction
  <1>6. k + (n - k) = n
    BY <1>0
  <1>7. IsPrefix(C(k), C(n))
    BY <1>0, <1>5, <1>6
  <1> QED BY <1>7, FirstEnds

\* The events of a body are those complete after its last line, and the event
\* that is gathered then.
LEMMA EventsAreRead ==
  ASSUME NEW w, Lines(w) \in Seq(Txt)
  PROVE  /\ Events(w) = IF IsEvent(Gathered(Lines(w)))
                          THEN Append(Complete(Lines(w)), Gathered(Lines(w)))
                          ELSE Complete(Lines(w))
         /\ Events(w) \in Seq(Evs)
         /\ \A k \in 0..Len(Lines(w)) : IsPrefix(Complete(First(Lines(w), k)), Events(w))
  <1> DEFINE ls == Lines(w)
  <1>1. Events(w) = Complete(Append(ls, <<>>))
    BY DEF Events, Complete
  <1>2. Events(w) = IF IsEvent(Gathered(ls)) THEN Append(Complete(ls), Gathered(ls)) ELSE Complete(ls)
    BY <1>1, ReadBlank
  <1>3. Complete(ls) \in Seq(Evs) /\ Gathered(ls) \in Evs
    BY ReadTypes
  <1>4. ASSUME NEW k \in 0..Len(ls) PROVE IsPrefix(Complete(First(ls, k)), Events(w))
    <2>1. IsPrefix(Complete(First(ls, k)), Complete(ls))
      BY CompletePrefix
    <2>2. First(ls, k) \in Seq(Txt)
      BY DEF First
    <2>3. Complete(First(ls, k)) \in Seq(Evs)
      BY <2>2, ReadTypes
    <2> QED BY <1>2, <1>3, <2>1, <2>3, PrefixAppend
  <1> QED BY <1>2, <1>3, <1>4

-----------------------------------------------------------------------------
(* The lines of a body, and what the scanner makes of a part of it.        *)

\* A text is a sequence of symbols.
LEMMA TxtLen ==
  ASSUME NEW w \in Txt
  PROVE  w \in Seq(Symbols) /\ Len(w) \in Nat
  BY DEF Txt

\* The first break of a text.
LEMMA FirstBreakDef ==
  ASSUME NEW s \in Txt
  PROVE  /\ FirstBreak(s) \in 0..Len(s)
         /\ FirstBreak(s) = 0 <=> \A i \in 1..Len(s) : ~IsBreak(s[i])
         /\ FirstBreak(s) # 0 => /\ IsBreak(s[FirstBreak(s)])
                                 /\ \A i \in 1..(FirstBreak(s) - 1) : ~IsBreak(s[i])
  <1> DEFINE I == {i \in 1..Len(s) : IsBreak(s[i])}
  <1>1. FirstBreak(s) = IF I # {} THEN Min(I) ELSE 0
    BY DEF FirstBreak, SelectInSeq
  <1>2. Len(s) \in Nat
    BY DEF Txt
  <1>3. CASE I = {}
    BY <1>1, <1>2, <1>3
  <1>4. CASE I # {}
    <2>0. I \in SUBSET Nat
      BY <1>2
    <2>1. \E x \in I : \A y \in I : x <= y
      <3> HIDE DEF I
      <3> QED BY <1>4, <2>0, LeastElement
    <2>2. Min(I) \in I /\ \A y \in I : Min(I) <= y
      BY <2>1 DEF Min
    <2>3. FirstBreak(s) = Min(I)
      BY <1>1, <1>4
    <2> DEFINE f == FirstBreak(s)
    <2>4. f \in 1..Len(s) /\ IsBreak(s[f]) /\ \A y \in I : f <= y
      BY <2>2, <2>3
    <2> HIDE DEF f
    <2>5. \A i \in 1..(f - 1) : ~IsBreak(s[i])
      <3> SUFFICES ASSUME NEW i \in 1..(f - 1), IsBreak(s[i]) PROVE FALSE
        OBVIOUS
      <3>1. i \in I
        BY <1>2, <2>4
      <3> QED BY <1>2, <2>4, <3>1
    <2>6. f # 0 /\ ~(\A i \in 1..Len(s) : ~IsBreak(s[i])) /\ f \in 0..Len(s)
      BY <1>2, <2>4
    <2> QED BY <2>4, <2>5, <2>6 DEF f
  <1> QED BY <1>3, <1>4

\* The end of the body's k-th line.
LineEnds(w) == InOrder(Breaks(w) \cup {Len(w)}, Len(w))
EndOf(w, k) == IF k = 0 THEN 0 ELSE LineEnds(w)[k]
NumLines(w) == Len(LineEnds(w))

\* The ends of the lines, in order.
LEMMA LineEndsDef ==
  ASSUME NEW w \in Txt
  PROVE  /\ Ordered(LineEnds(w), Breaks(w) \cup {Len(w)}, Len(w))
         /\ NumLines(w) \in Nat
         /\ \A k \in 0..NumLines(w) : EndOf(w, k) \in 0..Len(w)
         /\ \A j, k \in 0..NumLines(w) : j < k => EndOf(w, j) < EndOf(w, k)
         /\ \A k \in 1..NumLines(w) : EndOf(w, k) \in Breaks(w) \cup {Len(w)}
         /\ \A x \in (Breaks(w) \cup {Len(w)}) : x \in 1..Len(w) =>
               \E k \in 1..NumLines(w) : EndOf(w, k) = x
  <1> DEFINE q == LineEnds(w)
             S == Breaks(w) \cup {Len(w)}
             n == Len(w)
  <1>1. n \in Nat
    BY DEF Txt
  <1>2. Ordered(q, S, n)
    BY <1>1, InOrderOrdered DEF LineEnds
  <1> HIDE DEF q, S
  <1>3. q \in Seq(Nat) /\ Len(q) \in Nat /\ NumLines(w) = Len(q)
    BY <1>2 DEF Ordered, NumLines, q
  <1>4. \A k \in 1..Len(q) : EndOf(w, k) = q[k] /\ q[k] \in 1..n /\ q[k] \in S /\ k # 0
    BY <1>2, <1>3 DEF Ordered, EndOf, q
  <1>5. EndOf(w, 0) = 0
    BY DEF EndOf
  <1>6. \A k \in 0..Len(q) : k = 0 \/ k \in 1..Len(q)
    BY <1>3
  <1>7. \A k \in 0..Len(q) : EndOf(w, k) \in 0..n
    BY <1>1, <1>4, <1>5, <1>6
  <1>8. ASSUME NEW j \in 0..Len(q), NEW k \in 0..Len(q), j < k PROVE EndOf(w, j) < EndOf(w, k)
    <2>1. k \in 1..Len(q)
      BY <1>3, <1>8
    <2>2. CASE j = 0
      BY <1>1, <1>4, <1>5, <2>1, <2>2
    <2>3. CASE j \in 1..Len(q)
      BY <1>2, <1>4, <1>8, <2>1, <2>3 DEF Ordered
    <2> QED BY <1>6, <2>2, <2>3
  <1>9. \A x \in S : x \in 1..n => \E k \in 1..Len(q) : EndOf(w, k) = x
    BY <1>2, <1>4 DEF Ordered
  <1> QED BY <1>2, <1>3, <1>4, <1>7, <1>8, <1>9 DEF S, q

\* Every symbol belongs to a line.
LEMMA LastEnd ==
  ASSUME NEW w \in Txt, NEW k \in 0..NumLines(w)
  PROVE  k = NumLines(w) <=> EndOf(w, k) = Len(w)
  <1> DEFINE N == NumLines(w)
             n == Len(w)
  <1>1. N \in Nat /\ n \in Nat
    BY LineEndsDef, TxtLen
  <1>a. N \in 0..N /\ k \in 0..N
    BY <1>1
  <1>b. \A j \in 0..N : EndOf(w, j) \in 0..n
    BY LineEndsDef
  <1>c. \A i, j \in 0..N : i < j => EndOf(w, i) < EndOf(w, j)
    BY LineEndsDef
  <1>d. \A x \in Breaks(w) \cup {n} : x \in 1..n => \E j \in 1..N : EndOf(w, j) = x
    BY LineEndsDef
  <1> HIDE DEF N, n
  <1>2. EndOf(w, N) = n
    <2>1. CASE n = 0
      BY <1>a, <1>b, <2>1
    <2>2. CASE n # 0
      <3>1. n \in 1..n /\ n \in Breaks(w) \cup {n}
        BY <1>1, <2>2
      <3>2. PICK j \in 1..N : EndOf(w, j) = n
        BY <1>d, <3>1
      <3>3. j \in 0..N /\ N \in 0..N /\ EndOf(w, N) \in 0..n
        BY <1>1, <1>b, <3>2
      <3>4. CASE j = N
        BY <3>2, <3>4
      <3>5. CASE j # N
        <4>1. j < N
          BY <1>1, <3>2, <3>5
        <4>2. EndOf(w, j) < EndOf(w, N)
          BY <1>c, <3>3, <4>1
        <4> QED BY <1>1, <3>2, <3>3, <4>2
      <3> QED BY <3>4, <3>5
    <2> QED BY <2>1, <2>2
  <1>3. k < N => EndOf(w, k) < EndOf(w, N)
    BY <1>a, <1>c
  <1>4. EndOf(w, k) \in 0..n /\ k \in 0..N
    BY <1>a, <1>b
  <1> QED BY <1>1, <1>2, <1>3, <1>4 DEF N, n

\* The lines, by their ends.
LEMMA RawLine ==
  ASSUME NEW w \in Txt
  PROVE  /\ Len(RawLines(w)) = NumLines(w)
         /\ RawLines(w) \in Seq(Txt)
         /\ \A k \in 0..(NumLines(w) - 1) :
               RawLines(w)[k + 1] = SubSeq(w, EndOf(w, k) + 1, EndOf(w, k + 1))
  <1> DEFINE q == LineEnds(w)
  <1>1. RawLines(w) = Pieces(w, q)
    BY DEF RawLines, LineEnds
  <1>2. Within(q, Len(w)) /\ w \in Seq(Symbols) /\ Len(w) \in Nat
    BY LineEndsDef DEF Ordered, Within, Txt
  <1>3. Len(q) \in Nat /\ NumLines(w) = Len(q)
    BY <1>2 DEF Within, NumLines
  <1>4. RawLines(w) \in Seq(Txt)
    BY <1>1, <1>2, PiecesSeq DEF Txt
  <1>5. Len(RawLines(w)) = Len(q)
    BY <1>1, <1>3 DEF Pieces
  <1>6. ASSUME NEW k \in 0..(Len(q) - 1)
        PROVE  RawLines(w)[k + 1] = SubSeq(w, EndOf(w, k) + 1, EndOf(w, k + 1))
    <2>1. k + 1 \in 1..Len(q) /\ k + 1 # 0 /\ (k + 1) - 1 = k /\ (k + 1 = 1 <=> k = 0)
      BY <1>3
    <2>2. RawLines(w)[k + 1]
            = SubSeq(w, IF k + 1 = 1 THEN 1 ELSE q[(k + 1) - 1] + 1, q[k + 1])
      BY <1>1, <2>1 DEF Pieces
    <2>3. EndOf(w, k + 1) = q[k + 1]
      BY <2>1 DEF EndOf
    <2>4. (IF k + 1 = 1 THEN 1 ELSE q[(k + 1) - 1] + 1) = EndOf(w, k) + 1
      <3>1. CASE k = 0
        BY <2>1, <3>1 DEF EndOf
      <3>2. CASE k # 0
        BY <2>1, <3>2 DEF EndOf
      <3> QED BY <3>1, <3>2
    <2> HIDE DEF q
    <2> QED BY <2>2, <2>3, <2>4
  <1> QED BY <1>3, <1>4, <1>5, <1>6

\* No line ends within a line.
LEMMA NoEndBetween ==
  ASSUME NEW w \in Txt, NEW k \in 0..(NumLines(w) - 1), NEW x \in Breaks(w) \cup {Len(w)},
         x > EndOf(w, k)
  PROVE  EndOf(w, k + 1) <= x
  <1> DEFINE N == NumLines(w)
             n == Len(w)
  <1>0. N \in Nat /\ n \in Nat
    BY LineEndsDef, TxtLen
  <1>1. N \in Nat /\ n \in Nat /\ k \in 0..N /\ k + 1 \in 0..N
    BY <1>0
  <1>2. EndOf(w, k) \in 0..n /\ EndOf(w, k + 1) \in 0..n
    BY <1>1, LineEndsDef
  <1>3. x \in 1..n
    BY <1>1, <1>2 DEF Breaks
  <1>4. PICK j \in 1..N : EndOf(w, j) = x
    BY <1>3, LineEndsDef
  <1>5. j \in 0..N /\ j \in Nat
    BY <1>1
  <1>6. CASE j <= k
    <2>1. j = k \/ j < k
      BY <1>1, <1>5, <1>6
    <2>2. j = k \/ EndOf(w, j) < EndOf(w, k)
      BY <1>1, <1>5, <2>1, LineEndsDef
    <2> QED BY <1>2, <1>3, <1>4, <2>2
  <1>7. CASE j = k + 1
    BY <1>2, <1>4, <1>7
  <1>8. CASE j > k + 1
    <2>1. EndOf(w, k + 1) < EndOf(w, j)
      BY <1>1, <1>5, <1>8, LineEndsDef
    <2> QED BY <1>2, <1>3, <1>4, <2>1
  <1>9. j <= k \/ j = k + 1 \/ j > k + 1
    BY <1>1, <1>5
  <1> QED BY <1>6, <1>7, <1>8, <1>9

\* A part of a text.
LEMMA Part ==
  ASSUME NEW w \in Txt, NEW a \in Nat, NEW b \in 0..Len(w), a <= b
  PROVE  /\ SubSeq(w, a + 1, b) \in Txt
         /\ Len(SubSeq(w, a + 1, b)) = b - a
         /\ \A i \in 1..(b - a) : SubSeq(w, a + 1, b)[i] = w[a + i]
  <1>1. w \in Seq(Symbols) /\ Len(w) \in Nat /\ a + 1 \in Int /\ b \in Int
    BY DEF Txt
  <1>2. \A i \in (a + 1)..b : w[i] \in Symbols
    BY <1>1
  <1>3. SubSeq(w, a + 1, b) \in Seq(Symbols)
    BY <1>1, <1>2, SubSeqProperties
  <1>4. Len(SubSeq(w, a + 1, b)) = IF a + 1 <= b THEN b - (a + 1) + 1 ELSE 0
    BY <1>1, <1>2, SubSeqProperties
  <1>5. \A i \in 1..(b - (a + 1) + 1) : SubSeq(w, a + 1, b)[i] = w[(a + 1) + i - 1]
    BY <1>1, <1>2, SubSeqProperties
  <1>6. b - (a + 1) + 1 = b - a /\ \A i \in 1..(b - a) : (a + 1) + i - 1 = a + i
    BY <1>1
  <1> HIDE DEF Txt
  <1>7. \A i \in 1..(b - a) : SubSeq(w, a + 1, b)[i] = w[a + i]
    BY <1>5, <1>6
  <1>8. Len(SubSeq(w, a + 1, b)) = b - a
    BY <1>1, <1>4
  <1> QED BY <1>3, <1>7, <1>8 DEF Txt

\* A part of a part.
LEMMA PartOfPart ==
  ASSUME NEW w \in Txt, NEW a \in Nat, NEW b \in 0..Len(w), a <= b,
         NEW x \in Nat, NEW y \in 0..(b - a), x <= y
  PROVE  SubSeq(SubSeq(w, a + 1, b), x + 1, y) = SubSeq(w, (a + x) + 1, a + y)
  <1> DEFINE p == SubSeq(w, a + 1, b)
             u == SubSeq(p, x + 1, y)
             v == SubSeq(w, (a + x) + 1, a + y)
  <1>0. Len(w) \in Nat /\ b \in Nat /\ y \in Nat
    BY DEF Txt
  <1>1. p \in Txt /\ Len(p) = b - a /\ \A i \in 1..(b - a) : p[i] = w[a + i]
    BY Part
  <1> HIDE DEF p
  <1>2. u \in Txt /\ Len(u) = y - x /\ \A i \in 1..(y - x) : u[i] = p[x + i]
    BY <1>1, Part
  <1>3. a + x \in Nat /\ a + y \in 0..Len(w) /\ a + x <= a + y /\ (a + y) - (a + x) = y - x
    BY <1>0
  <1>4. v \in Txt /\ Len(v) = y - x /\ \A i \in 1..(y - x) : v[i] = w[(a + x) + i]
    BY <1>3, Part, ZenonT(60)
  <1>5. \A i \in 1..Len(u) : u[i] = v[i]
    <2> TAKE i \in 1..Len(u)
    <2>1. i \in 1..(y - x) /\ x + i \in 1..(b - a) /\ a + (x + i) = (a + x) + i
      BY <1>0, <1>2
    <2> QED BY <1>1, <1>2, <1>4, <2>1
  <1> HIDE DEF u, v
  <1>6. u = v
    BY <1>2, <1>4, <1>5, SeqEqual DEF Txt
  <1> QED BY <1>6 DEF p, u, v

\* The line that starts after EndOf(w, k), by its first break.
LEMMA NextLine ==
  ASSUME NEW w \in Txt, NEW k \in 0..(NumLines(w) - 1),
         NEW i \in (EndOf(w, k) + 1)..Len(w), IsBreak(w[i]),
         \A j \in (EndOf(w, k) + 1)..(i - 1) : ~IsBreak(w[j])
  PROVE  /\ EndOf(w, k + 1) = IF w[i] = "cr" /\ i < Len(w) /\ w[i + 1] = "lf" THEN i + 1 ELSE i
         /\ Text(RawLines(w)[k + 1]) = SubSeq(w, EndOf(w, k) + 1, i - 1)
  <1> DEFINE n == Len(w)
             c == EndOf(w, k)
             e == EndOf(w, k + 1)
             pair == w[i] = "cr" /\ i < Len(w) /\ w[i + 1] = "lf"
             x == IF pair THEN i + 1 ELSE i
  <1>0. NumLines(w) \in Nat /\ n \in Nat
    BY LineEndsDef, TxtLen
  <1>1. NumLines(w) \in Nat /\ n \in Nat /\ k \in 0..NumLines(w) /\ k + 1 \in 0..NumLines(w)
        /\ k + 1 \in 1..NumLines(w) /\ k < k + 1
    BY <1>0
  <1>2. c \in 0..n /\ e \in 0..n /\ c < e /\ e \in Breaks(w) \cup {n}
    BY <1>1, LineEndsDef
  <1> HIDE DEF n, c, e
  <1>3. i \in (c + 1)..n /\ i \in Nat
    BY <1>1, <1>2 DEF n, c
  <1>4. x \in Breaks(w) /\ x > c /\ x \in Nat
    <2>1. CASE pair
      <3>1. i + 1 \in 1..Len(w) /\ w[i + 1] = "lf"
        BY <1>1, <1>2, <1>3, <2>1 DEF n
      <3>2. i + 1 > c /\ i + 1 \in Nat
        BY <1>1, <1>2, <1>3
      <3> QED BY <2>1, <3>1, <3>2 DEF Breaks
    <2>2. CASE ~pair
      <3>1. i \in 1..Len(w) /\ i > c
        BY <1>1, <1>2, <1>3 DEF n
      <3>2. w[i] = "lf" \/ (w[i] = "cr" /\ (i = Len(w) \/ w[i + 1] # "lf"))
        BY <2>2, <3>1 DEF IsBreak
      <3> QED BY <1>3, <2>2, <3>1, <3>2 DEF Breaks
    <2> QED BY <2>1, <2>2
  <1>5. e <= x
    BY <1>4, NoEndBetween DEF c, e
  <1>6. x <= e
    <2> SUFFICES ASSUME e < x PROVE FALSE
      BY <1>2, <1>4
    <2>1. e \in 1..n /\ e # n
      BY <1>1, <1>2, <1>4 DEF Breaks, n
    <2>2. e \in Breaks(w)
      BY <1>2, <2>1
    <2>3. w[e] = "lf" \/ (w[e] = "cr" /\ (e = Len(w) \/ w[e + 1] # "lf"))
      BY <2>2 DEF Breaks
    <2>4. CASE e < i
      <3>1. e \in (c + 1)..(i - 1)
        BY <1>1, <1>2, <1>3, <2>4
      <3>2. ~IsBreak(w[e])
        BY <3>1 DEF c
      <3> QED BY <2>3, <3>2 DEF IsBreak
    <2>5. CASE e = i
      <3>1. pair
        BY <1>3, <2>5
      <3> QED BY <2>3, <2>5, <3>1, <2>1 DEF n
    <2>6. e < i \/ e = i
      BY <1>2, <1>3
    <2> QED BY <2>4, <2>5, <2>6
  <1>7. e = x
    BY <1>2, <1>4, <1>5, <1>6
  <1>8. i <= e
    BY <1>3, <1>7
  <1> DEFINE r == SubSeq(w, c + 1, e)
             f == i - c
  <1>9. RawLines(w)[k + 1] = r
    BY RawLine DEF c, e
  <1>10. r \in Txt /\ Len(r) = e - c /\ \A j \in 1..(e - c) : r[j] = w[c + j]
    BY <1>1, <1>2, Part DEF n
  <1>11. FirstBreak(r) = f
    <2> HIDE DEF r
    <2>1. f \in 1..(e - c) /\ c + f = i
      BY <1>1, <1>2, <1>3, <1>8
    <2>2. IsBreak(r[f])
      BY <1>10, <2>1
    <2>3. \A j \in 1..(f - 1) : ~IsBreak(r[j])
      <3> TAKE j \in 1..(f - 1)
      <3>1. c + j \in (c + 1)..(i - 1) /\ j \in 1..(e - c)
        BY <1>1, <1>2, <1>3, <2>1
      <3> QED BY <1>10, <3>1 DEF c
    <2> DEFINE g == FirstBreak(r)
    <2>4. /\ g \in 0..Len(r)
          /\ g = 0 <=> \A j \in 1..Len(r) : ~IsBreak(r[j])
          /\ g # 0 => IsBreak(r[g]) /\ \A j \in 1..(g - 1) : ~IsBreak(r[j])
      BY <1>10, FirstBreakDef
    <2> HIDE DEF g, f
    <2>5. g # 0
      BY <1>10, <2>1, <2>2, <2>4
    <2>6. g \in Nat /\ f \in Nat /\ g \in 1..Len(r)
      BY <1>2, <1>10, <2>1, <2>4, <2>5
    <2>7. ~(g < f)
      BY <2>3, <2>4, <2>5, <2>6
    <2>8. ~(f < g)
      <3> SUFFICES ASSUME f < g PROVE FALSE
        OBVIOUS
      <3>1. f \in 1..(g - 1)
        BY <2>1, <2>6
      <3> QED BY <2>2, <2>4, <2>5, <3>1
    <2>9. g = f
      BY <2>6, <2>7, <2>8
    <2> QED BY <2>9 DEF g, f
  <1>12. f # 0
    BY <1>2, <1>3
  <1>13. Text(r) = SubSeq(r, 1, f - 1)
    BY <1>11, <1>12 DEF Text
  <1>14. SubSeq(r, 1, f - 1) = SubSeq(w, c + 1, i - 1)
    <2> DEFINE z == 0
               y == f - 1
    <2>1. z \in Nat /\ y \in 0..(e - c) /\ z <= y /\ c + y = i - 1 /\ c + z = c /\ z + 1 = 1
      BY <1>1, <1>2, <1>3, <1>8
    <2>2. c \in Nat /\ e \in 0..Len(w) /\ c <= e
      BY <1>1, <1>2 DEF n
    <2> HIDE DEF z, y
    <2>3. SubSeq(SubSeq(w, c + 1, e), z + 1, y) = SubSeq(w, (c + z) + 1, c + y)
      BY <2>1, <2>2, PartOfPart
    <2> QED BY <2>1, <2>3 DEF y
  <1> QED BY <1>7, <1>9, <1>13, <1>14 DEF c, e

\* The line that starts after EndOf(w, k), when no break follows.
LEMMA RestOfBody ==
  ASSUME NEW w \in Txt, NEW k \in 0..(NumLines(w) - 1),
         \A j \in (EndOf(w, k) + 1)..Len(w) : ~IsBreak(w[j])
  PROVE  /\ EndOf(w, k + 1) = Len(w)
         /\ Text(RawLines(w)[k + 1]) = SubSeq(w, EndOf(w, k) + 1, Len(w))
  <1> DEFINE n == Len(w)
             c == EndOf(w, k)
             e == EndOf(w, k + 1)
  <1>0. NumLines(w) \in Nat /\ n \in Nat
    BY LineEndsDef, TxtLen
  <1>1. NumLines(w) \in Nat /\ n \in Nat /\ k \in 0..NumLines(w) /\ k + 1 \in 0..NumLines(w)
        /\ k + 1 \in 1..NumLines(w) /\ k < k + 1
    BY <1>0
  <1>2. c \in 0..n /\ e \in 0..n /\ c < e /\ e \in Breaks(w) \cup {n}
    BY <1>1, LineEndsDef
  <1>3. e = n
    <2> SUFFICES ASSUME e \in Breaks(w) PROVE FALSE
      BY <1>2
    <2>1. IsBreak(w[e]) /\ e \in 1..n
      BY DEF Breaks, IsBreak
    <2>2. e \in (c + 1)..n
      BY <1>1, <1>2, <2>1
    <2> QED BY <2>1, <2>2
  <1> DEFINE r == SubSeq(w, c + 1, n)
  <1>4. RawLines(w)[k + 1] = r
    BY <1>3, RawLine
  <1> HIDE DEF c, e
  <1>5. r \in Txt /\ Len(r) = n - c /\ \A j \in 1..(n - c) : r[j] = w[c + j]
    BY <1>1, <1>2, Part
  <1>6. \A j \in 1..Len(r) : ~IsBreak(r[j])
    <2> TAKE j \in 1..Len(r)
    <2>1. c + j \in (c + 1)..n /\ j \in 1..(n - c)
      BY <1>1, <1>2, <1>5
    <2> QED BY <1>5, <2>1 DEF c
  <1>7. FirstBreak(r) = 0
    BY <1>5, <1>6, FirstBreakDef
  <1>8. Text(r) = r
    BY <1>7 DEF Text
  <1> QED BY <1>3, <1>4, <1>8 DEF c, e

-----------------------------------------------------------------------------
(* Split, on the part of a body that the scanner holds.                    *)

\* The part of the body between the k-th line and position p.
Held(w, k, p) == SubSeq(w, EndOf(w, k) + 1, p)

\* What the scanner holds.
LEMMA HeldDef ==
  ASSUME NEW w \in Txt, NEW k \in 0..NumLines(w), NEW p \in EndOf(w, k)..Len(w)
  PROVE  /\ EndOf(w, k) \in Nat /\ p \in 0..Len(w)
         /\ Held(w, k, p) \in Txt
         /\ Len(Held(w, k, p)) = p - EndOf(w, k)
         /\ \A i \in 1..(p - EndOf(w, k)) : Held(w, k, p)[i] = w[EndOf(w, k) + i]
  <1>1. EndOf(w, k) \in 0..Len(w) /\ Len(w) \in Nat
    BY LineEndsDef, TxtLen
  <1>2. EndOf(w, k) \in Nat /\ p \in 0..Len(w) /\ EndOf(w, k) <= p
    BY <1>1
  <1> QED BY <1>2, Part DEF Held

\* Split's result has the right types.
LEMMA SplitType ==
  ASSUME NEW b \in Txt, NEW eof \in BOOLEAN
  PROVE  /\ Split(b, eof).advance \in 0..Len(b)
         /\ Split(b, eof).token \in Txt
  <1> DEFINE f == FirstBreak(b)
  <1>1. f \in 0..Len(b) /\ Len(b) \in Nat
    BY FirstBreakDef, TxtLen
  <1>2. <<>> \in Txt
    BY DEF Txt
  <1>3. ASSUME f # 0 PROVE SubSeq(b, 1, f - 1) \in Txt
    <2> DEFINE z == 0
    <2>1. z \in Nat /\ f - 1 \in 0..Len(b) /\ z <= f - 1 /\ z + 1 = 1
      BY <1>1, <1>3
    <2> HIDE DEF z
    <2>2. SubSeq(b, z + 1, f - 1) \in Txt
      BY <2>1, Part
    <2> QED BY <2>1, <2>2
  <1> HIDE DEF f
  <1>4. Split(b, eof) =
          IF f = 0 THEN IF eof THEN [advance |-> Len(b), token |-> b] ELSE NoToken
          ELSE IF b[f] = "cr" /\ f = Len(b) /\ ~eof THEN NoToken
          ELSE IF b[f] = "cr" /\ f < Len(b) /\ b[f + 1] = "lf"
            THEN [advance |-> f + 1, token |-> SubSeq(b, 1, f - 1)]
            ELSE [advance |-> f, token |-> SubSeq(b, 1, f - 1)]
    BY DEF Split, f
  <1>5. CASE f = 0
    BY <1>1, <1>2, <1>4, <1>5 DEF NoToken
  <1>6. CASE f # 0
    BY <1>1, <1>2, <1>3, <1>4, <1>6 DEF NoToken
  <1> QED BY <1>5, <1>6

\* Without a token the buffer holds no line: no break, or a "cr" at its end of
\* which it is not known whether a "lf" follows.
LEMMA SplitNothing ==
  ASSUME NEW b \in Txt, NEW eof \in BOOLEAN, Split(b, eof).advance = 0
  PROVE  /\ eof => b = <<>>
         /\ \A i \in 1..Len(b) : IsBreak(b[i]) => i = Len(b) /\ b[i] = "cr"
  <1> DEFINE f == FirstBreak(b)
  <1>1. f \in 0..Len(b) /\ Len(b) \in Nat
    BY FirstBreakDef, TxtLen
  <1>2. f = 0 <=> \A i \in 1..Len(b) : ~IsBreak(b[i])
    BY FirstBreakDef
  <1>3. f # 0 => IsBreak(b[f]) /\ \A i \in 1..(f - 1) : ~IsBreak(b[i])
    BY FirstBreakDef
  <1> HIDE DEF f
  <1>4. Split(b, eof) =
          IF f = 0 THEN IF eof THEN [advance |-> Len(b), token |-> b] ELSE NoToken
          ELSE IF b[f] = "cr" /\ f = Len(b) /\ ~eof THEN NoToken
          ELSE IF b[f] = "cr" /\ f < Len(b) /\ b[f + 1] = "lf"
            THEN [advance |-> f + 1, token |-> SubSeq(b, 1, f - 1)]
            ELSE [advance |-> f, token |-> SubSeq(b, 1, f - 1)]
    BY DEF Split, f
  <1>5. CASE f = 0
    <2>1. eof => Len(b) = 0
      BY <1>4, <1>5
    <2>2. Len(b) = 0 => b = <<>>
      BY DEF Txt
    <2> QED BY <1>2, <1>5, <2>1, <2>2
  <1>6. CASE f # 0
    <2>1. f + 1 # 0
      BY <1>1
    <2>2. b[f] = "cr" /\ f = Len(b) /\ ~eof
      BY <1>4, <1>6, <2>1
    <2>3. \A i \in 1..Len(b) : i \in 1..(f - 1) \/ i = f
      BY <1>1, <2>2
    <2> QED BY <1>3, <1>6, <2>2, <2>3
  <1> QED BY <1>5, <1>6

\* The token is the body's next line, and the rest of the buffer starts where
\* that line ends.
Whole(w, k, t) ==
    /\ EndOf(w, k) + t.advance = EndOf(w, k + 1)
    /\ t.token = Text(RawLines(w)[k + 1])

\* The token is the line or the beginning of it, and all of what was read, when
\* the reading failed within the line.
Torn(w, k, t, p) ==
    /\ p < Len(w) /\ EndOf(w, k) + t.advance = p /\ p < EndOf(w, k + 1)
    /\ \/ t.token = Text(RawLines(w)[k + 1])
       \/ t.token # <<>> /\ IsPrefix(t.token, Text(RawLines(w)[k + 1]))

\* A token is the next line, or what a failed Read has left of it.
LEMMA SplitLine ==
  ASSUME NEW w \in Txt, NEW k \in 0..NumLines(w), NEW p \in EndOf(w, k)..Len(w),
         NEW eof \in BOOLEAN, Split(Held(w, k, p), eof).advance > 0
  PROVE  /\ k < NumLines(w)
         /\ \/ Whole(w, k, Split(Held(w, k, p), eof))
            \/ eof /\ Torn(w, k, Split(Held(w, k, p), eof), p)
  <1> DEFINE b == Held(w, k, p)
             c == EndOf(w, k)
             n == Len(w)
             N == NumLines(w)
             f == FirstBreak(b)
             t == Split(b, eof)
             x == Text(RawLines(w)[k + 1])
  <1>0. N \in Nat /\ n \in Nat
    BY LineEndsDef, TxtLen
  <1>1. N \in Nat /\ n \in Nat /\ k \in Nat
    BY <1>0
  <1>2. c \in Nat /\ p \in 0..n /\ b \in Txt /\ Len(b) = p - c
        /\ \A i \in 1..(p - c) : b[i] = w[c + i]
    BY HeldDef
  <1>3. f \in 0..Len(b) /\ (f = 0 <=> \A i \in 1..Len(b) : ~IsBreak(b[i]))
        /\ (f # 0 => IsBreak(b[f]) /\ \A i \in 1..(f - 1) : ~IsBreak(b[i]))
    BY <1>2, FirstBreakDef
  <1>4. t.advance \in 0..Len(b) /\ t.advance > 0
    BY <1>2, SplitType
  <1>5. c < p /\ p <= n
    BY <1>1, <1>2, <1>4
  <1>6. k < N
    <2>1. c # n
      BY <1>1, <1>2, <1>5
    <2>2. k # N
      BY <2>1, LastEnd
    <2> QED BY <1>1, <2>2
  <1>7. k \in 0..(N - 1)
    BY <1>1, <1>6
  <1>8. t =
          IF f = 0 THEN IF eof THEN [advance |-> Len(b), token |-> b] ELSE NoToken
          ELSE IF b[f] = "cr" /\ f = Len(b) /\ ~eof THEN NoToken
          ELSE IF b[f] = "cr" /\ f < Len(b) /\ b[f + 1] = "lf"
            THEN [advance |-> f + 1, token |-> SubSeq(b, 1, f - 1)]
            ELSE [advance |-> f, token |-> SubSeq(b, 1, f - 1)]
    BY DEF Split
  <1>b. b = SubSeq(w, c + 1, p)
    BY DEF Held
  <1> HIDE DEF b, f, t
  <1>9. CASE f # 0
    <2> DEFINE i == c + f
    <2>1. i \in (c + 1)..n /\ f \in 1..(p - c) /\ w[i] = b[f] /\ i <= p
      BY <1>1, <1>2, <1>3, <1>9
    <2>2. IsBreak(w[i])
      BY <1>3, <1>9, <2>1
    <2>3. \A j \in (c + 1)..(i - 1) : ~IsBreak(w[j])
      <3> TAKE j \in (c + 1)..(i - 1)
      <3>1. j - c \in 1..(f - 1) /\ j - c \in 1..(p - c) /\ c + (j - c) = j
        BY <1>1, <1>2, <2>1, SMTT(30)
      <3>2. ~IsBreak(b[j - c]) /\ b[j - c] = w[c + (j - c)]
        BY <1>2, <1>3, <1>9, <3>1
      <3> QED BY <3>1, <3>2
    <2> HIDE DEF c, n, N
    <2>4. EndOf(w, k + 1) = (IF w[i] = "cr" /\ i < n /\ w[i + 1] = "lf" THEN i + 1 ELSE i)
          /\ x = SubSeq(w, c + 1, i - 1)
      <3> HIDE DEF i
      <3> QED BY <1>7, <2>1, <2>2, <2>3, NextLine DEF c, n, N
    <2>5. SubSeq(b, 1, f - 1) = SubSeq(w, c + 1, i - 1)
      <3> DEFINE z == 0
                 y == f - 1
      <3>1. z \in Nat /\ y \in 0..(p - c) /\ z <= y /\ c + y = i - 1 /\ c + z = c /\ z + 1 = 1
        BY <1>1, <1>2, <2>1
      <3>2. c \in Nat /\ p \in 0..Len(w) /\ c <= p
        BY <1>1, <1>2, <1>5 DEF n
      <3> HIDE DEF z, y, i
      <3>3. SubSeq(SubSeq(w, c + 1, p), z + 1, y) = SubSeq(w, (c + z) + 1, c + y)
        BY <3>1, <3>2, PartOfPart
      <3> QED BY <1>b, <3>1, <3>3 DEF y
    <2> HIDE DEF i, x
    <2>6. i = c + f
      BY DEF i
    <2>7. t.token = x
      <3>1. t # NoToken
        BY <1>4 DEF NoToken
      <3>2. t.token = SubSeq(b, 1, f - 1)
        BY <1>8, <1>9, <3>1
      <3> QED BY <2>4, <2>5, <3>2
    <2>8. CASE b[f] = "cr" /\ f < Len(b) /\ b[f + 1] = "lf"
      <3>1. f + 1 \in 1..(p - c) /\ c + (f + 1) = i + 1 /\ i < n
        BY <1>1, <1>2, <1>5, <2>1, <2>6, <2>8
      <3>2. w[i + 1] = "lf"
        BY <1>2, <2>8, <3>1
      <3>3. EndOf(w, k + 1) = i + 1
        BY <2>1, <2>4, <2>8, <3>1, <3>2
      <3>4. t.advance = f + 1
        BY <1>4, <1>8, <1>9, <2>8 DEF NoToken
      <3> QED BY <1>6, <2>7, <3>1, <3>3, <3>4 DEF Whole, c, N, x, t, b
    <2>9. CASE ~(b[f] = "cr" /\ f < Len(b) /\ b[f + 1] = "lf")
      <3>1. t.advance = f
        BY <1>4, <1>8, <1>9, <2>9 DEF NoToken
      <3>2. CASE w[i] = "cr" /\ i < n /\ w[i + 1] = "lf"
        <4>1. f = Len(b)
          <5> SUFFICES ASSUME f < Len(b) PROVE FALSE
            BY <1>2, <1>3
          <5>1. f + 1 \in 1..(p - c) /\ c + (f + 1) = i + 1
            BY <1>2, <2>1, <2>6
          <5> QED BY <1>2, <2>1, <2>9, <3>2, <5>1
        <4>2. eof
          BY <1>4, <1>8, <1>9, <2>1, <3>2, <4>1 DEF NoToken
        <4>3. i = p /\ EndOf(w, k + 1) = p + 1 /\ p < p + 1
          BY <1>2, <1>5, <2>4, <2>6, <3>2, <4>1
        <4> QED BY <1>6, <2>6, <2>7, <3>1, <3>2, <4>2, <4>3 DEF Torn, c, N, n, x, t, b
      <3>3. CASE ~(w[i] = "cr" /\ i < n /\ w[i + 1] = "lf")
        BY <1>6, <2>4, <2>6, <2>7, <3>1, <3>3 DEF Whole, c, N, x, t, b
      <3> QED BY <3>2, <3>3
    <2> QED BY <2>8, <2>9
  <1>10. CASE f = 0
    <2>1. eof /\ t = [advance |-> Len(b), token |-> b]
      BY <1>4, <1>8, <1>10 DEF NoToken
    <2>2. t.advance = p - c /\ t.token = b /\ c + (p - c) = p
      BY <1>1, <1>2, <2>1
    <2>3. \A j \in (c + 1)..p : ~IsBreak(w[j])
      <3> TAKE j \in (c + 1)..p
      <3>1. j - c \in 1..(p - c) /\ c + (j - c) = j
        BY <1>1, <1>2
      <3>2. ~IsBreak(b[j - c]) /\ b[j - c] = w[c + (j - c)]
        BY <1>2, <1>3, <1>10, <3>1
      <3> QED BY <3>1, <3>2
    <2> HIDE DEF c, n, N
    <2>4. CASE p = n
      <3>1. EndOf(w, k + 1) = n /\ x = SubSeq(w, c + 1, n)
        BY <1>7, <2>3, <2>4, RestOfBody DEF c, n, N
      <3> QED BY <1>6, <1>b, <2>2, <2>4, <3>1 DEF Whole, c, N, x, t, b
    <2>5. CASE p # n
      <3>1. p < n
        BY <1>1, <1>2, <1>5, <2>5
      <3>2. b # <<>>
        BY <1>2, <1>5
      <3>3. p < EndOf(w, k + 1) /\ IsPrefix(b, x)
        <4>1. CASE \A j \in (c + 1)..n : ~IsBreak(w[j])
          <5>1. EndOf(w, k + 1) = n /\ x = SubSeq(w, c + 1, n)
            BY <1>7, <4>1, RestOfBody DEF c, n, N
          <5>2. x \in Txt /\ Len(x) = n - c /\ \A j \in 1..(n - c) : x[j] = w[c + j]
            BY <1>1, <1>2, <1>5, <3>1, <5>1, Part DEF n
          <5>3. Len(b) <= Len(x) /\ \A j \in 1..Len(b) : b[j] = x[j]
            BY <1>1, <1>2, <1>5, <5>2
          <5>4. IsPrefix(b, x)
            <6> HIDE DEF x
            <6> QED BY <1>2, <5>2, <5>3, PrefixDef DEF Txt
          <5> QED BY <3>1, <5>1, <5>4
        <4>2. CASE ~(\A j \in (c + 1)..n : ~IsBreak(w[j]))
          <5> DEFINE J == {j \in (c + 1)..n : IsBreak(w[j])}
          <5>1. J # {} /\ J \in SUBSET Nat
            BY <1>1, <1>2, <4>2
          <5>2. PICK i \in J : \A j \in J : i <= j
            <6> HIDE DEF J
            <6> QED BY <5>1, LeastElement
          <5>3. i \in (c + 1)..n /\ IsBreak(w[i]) /\ i \in Nat
            BY <5>1, <5>2
          <5>4. \A j \in (c + 1)..(i - 1) : ~IsBreak(w[j])
            <6> SUFFICES ASSUME NEW j \in (c + 1)..(i - 1), IsBreak(w[j]) PROVE FALSE
              OBVIOUS
            <6>1. j \in (c + 1)..n /\ ~(i <= j)
              BY <1>1, <1>2, <5>3
            <6> QED BY <5>2, <6>1
          <5>5. EndOf(w, k + 1) = (IF w[i] = "cr" /\ i < n /\ w[i + 1] = "lf" THEN i + 1 ELSE i)
                /\ x = SubSeq(w, c + 1, i - 1)
            BY <1>7, <5>3, <5>4, NextLine DEF c, n, N
          <5>6. p < i
            <6> SUFFICES ASSUME i <= p PROVE FALSE
              BY <1>2, <5>3
            <6>1. i \in (c + 1)..p
              BY <1>2, <5>3
            <6> QED BY <2>3, <5>3, <6>1
          <5>7. i - 1 \in 0..Len(w) /\ c <= i - 1
            BY <1>1, <1>2, <5>3 DEF n
          <5>8. x \in Txt /\ Len(x) = (i - 1) - c /\ \A j \in 1..((i - 1) - c) : x[j] = w[c + j]
            BY <1>2, <5>5, <5>7, Part
          <5>9. Len(b) <= Len(x) /\ \A j \in 1..Len(b) : b[j] = x[j]
            BY <1>1, <1>2, <1>5, <5>3, <5>6, <5>8
          <5>10. IsPrefix(b, x)
            <6> HIDE DEF x
            <6> QED BY <1>2, <5>8, <5>9, PrefixDef DEF Txt
          <5>11. p < EndOf(w, k + 1)
            BY <1>2, <5>3, <5>5, <5>6
          <5> QED BY <5>10, <5>11
        <4> QED BY <4>1, <4>2
      <3> QED BY <1>6, <2>1, <2>2, <3>1, <3>2, <3>3 DEF Torn, c, n, N, x, t, b
    <2> QED BY <2>4, <2>5
  <1> QED BY <1>9, <1>10

-----------------------------------------------------------------------------
(* The lines of the body without their breaks.                             *)

\* The text of a line.
LEMMA TextType ==
  ASSUME NEW r \in Txt
  PROVE  Text(r) \in Txt /\ Unmarked(r) \in Txt
  <1>1. Text(r) \in Txt
    <2> DEFINE f == FirstBreak(r)
               z == 0
    <2>1. f \in 0..Len(r) /\ Len(r) \in Nat
      BY FirstBreakDef, TxtLen
    <2> HIDE DEF f
    <2>2. CASE f = 0
      BY <2>2 DEF Text, f
    <2>3. CASE f # 0
      <3>1. z \in Nat /\ f - 1 \in 0..Len(r) /\ z <= f - 1 /\ z + 1 = 1
        BY <2>1, <2>3
      <3> HIDE DEF z
      <3>2. SubSeq(r, z + 1, f - 1) \in Txt
        BY <3>1, Part
      <3> QED BY <2>3, <3>1, <3>2 DEF Text, f
    <2> QED BY <2>2, <2>3
  <1>2. Unmarked(r) \in Txt
    <2>1. CASE Field("bom", r)
      <3>1. Tail(r) \in Txt
        BY <2>1, HeadTailProperties DEF Field, Txt
      <3> QED BY <2>1, <3>1 DEF Unmarked
    <2>2. CASE ~Field("bom", r)
      BY <2>2 DEF Unmarked
    <2> QED BY <2>1, <2>2
  <1> QED BY <1>1, <1>2

\* The lines are texts.
LEMMA LinesDef ==
  ASSUME NEW w \in Txt
  PROVE  /\ Lines(w) \in Seq(Txt)
         /\ Len(Lines(w)) = NumLines(w)
         /\ \A k \in 0..(NumLines(w) - 1) :
               Lines(w)[k + 1] = IF k = 0 THEN Unmarked(Text(RawLines(w)[k + 1]))
                                 ELSE Text(RawLines(w)[k + 1])
  <1> DEFINE raw == RawLines(w)
             N == NumLines(w)
             l(k) == IF k = 1 THEN Unmarked(Text(raw[k])) ELSE Text(raw[k])
  <1>1. raw \in Seq(Txt) /\ Len(raw) = N /\ N \in Nat
    BY RawLine, LineEndsDef
  <1> HIDE DEF raw, N
  <1>2. Lines(w) = [k \in 1..N |-> l(k)]
    BY <1>1 DEF Lines, raw
  <1>3. \A k \in 1..N : l(k) \in Txt
    BY <1>1, TextType
  <1> HIDE DEF l
  <1>4. Lines(w) \in Seq(Txt) /\ Len(Lines(w)) = N
    BY <1>1, <1>2, <1>3
  <1>5. ASSUME NEW k \in 0..(N - 1)
        PROVE  Lines(w)[k + 1] = IF k = 0 THEN Unmarked(Text(raw[k + 1])) ELSE Text(raw[k + 1])
    <2>1. k + 1 \in 1..N /\ (k + 1 = 1 <=> k = 0)
      BY <1>1
    <2>2. Lines(w)[k + 1] = l(k + 1)
      BY <1>2, <2>1
    <2> QED BY <2>1, <2>2 DEF l
  <1> QED BY <1>4, <1>5 DEF raw, N

\* What is held after a line was taken.
LEMMA HeldAfter ==
  ASSUME NEW w \in Txt, NEW k \in 0..NumLines(w), NEW p \in EndOf(w, k)..Len(w),
         NEW a \in 0..(p - EndOf(w, k))
  PROVE  SubSeq(Held(w, k, p), a + 1, Len(Held(w, k, p))) = SubSeq(w, (EndOf(w, k) + a) + 1, p)
  <1> DEFINE c == EndOf(w, k)
             y == p - c
  <1>1. c \in Nat /\ p \in 0..Len(w) /\ Len(Held(w, k, p)) = y /\ Len(w) \in Nat
    BY HeldDef, TxtLen
  <1>2. c <= p /\ y \in 0..(p - c) /\ a \in Nat /\ a <= y /\ c + y = p
    BY <1>1
  <1> HIDE DEF c, y
  <1>3. SubSeq(SubSeq(w, c + 1, p), a + 1, y) = SubSeq(w, (c + a) + 1, c + y)
    BY <1>1, <1>2, PartOfPart
  <1>4. Held(w, k, p) = SubSeq(w, c + 1, p)
    BY DEF Held, c
  <1> QED BY <1>1, <1>2, <1>3, <1>4 DEF c

\* What is held after more was read.
LEMMA HeldMore ==
  ASSUME NEW w \in Txt, NEW k \in 0..NumLines(w), NEW p \in EndOf(w, k)..Len(w),
         NEW n \in Nat, p + n <= Len(w)
  PROVE  Held(w, k, p) \o SubSeq(w, p + 1, p + n) = Held(w, k, p + n)
  <1> DEFINE c == EndOf(w, k)
             u == Held(w, k, p)
             v == SubSeq(w, p + 1, p + n)
             r == Held(w, k, p + n)
  <1>0. c \in Nat /\ p \in 0..Len(w) /\ Len(w) \in Nat
    BY HeldDef, TxtLen
  <1>1. p \in Nat /\ p + n \in c..Len(w) /\ p + n \in 0..Len(w) /\ p <= p + n /\ c <= p
    BY <1>0
  <1>2. u \in Txt /\ Len(u) = p - c /\ \A i \in 1..(p - c) : u[i] = w[c + i]
    BY HeldDef
  <1>3. v \in Txt /\ Len(v) = (p + n) - p /\ \A i \in 1..((p + n) - p) : v[i] = w[p + i]
    BY <1>1, Part
  <1>4. r \in Txt /\ Len(r) = (p + n) - c /\ \A i \in 1..((p + n) - c) : r[i] = w[c + i]
    BY <1>1, HeldDef
  <1> HIDE DEF u, v, r, c
  <1>5. u \o v \in Txt /\ Len(u \o v) = Len(u) + Len(v)
        /\ \A i \in 1..(Len(u) + Len(v)) : (u \o v)[i] = IF i <= Len(u) THEN u[i] ELSE v[i - Len(u)]
    BY <1>2, <1>3, ConcatProperties DEF Txt
  <1>6. Len(u) + Len(v) = (p + n) - c
    BY <1>0, <1>1, <1>2, <1>3
  <1>7. \A i \in 1..Len(u \o v) : (u \o v)[i] = r[i]
    <2> TAKE i \in 1..Len(u \o v)
    <2>1. i \in 1..((p + n) - c) /\ i \in Nat
      BY <1>0, <1>1, <1>5, <1>6
    <2>2. CASE i <= p - c
      <3>1. i \in 1..(p - c)
        BY <1>0, <1>1, <2>1, <2>2
      <3> QED BY <1>2, <1>4, <1>5, <1>6, <2>1, <2>2, <3>1
    <2>3. CASE ~(i <= p - c)
      <3>1. i - (p - c) \in 1..((p + n) - p) /\ p + (i - (p - c)) = c + i
        BY <1>0, <1>1, <2>1, <2>3
      <3>2. (u \o v)[i] = v[i - (p - c)]
        BY <1>2, <1>5, <1>6, <2>1, <2>3
      <3> QED BY <1>3, <1>4, <2>1, <3>1, <3>2
    <2> QED BY <2>2, <2>3
  <1>8. u \o v = r
    BY <1>4, <1>5, <1>6, <1>7, SeqEqual DEF Txt
  <1> QED BY <1>8 DEF u, v, r

-----------------------------------------------------------------------------
(* The inductive invariant: the reader's state, by the lines that it has   *)
(* taken from the body.                                                    *)

ReaderTypes ==
    /\ [kind |-> kind, wire |-> wire, asked |-> asked] \in Streams
    /\ status \in {"open", "ended", "failed"} /\ end \in {"none", "eof", "error"}
    /\ pos \in 0..Len(wire) /\ buf \in Txt /\ first \in BOOLEAN
    /\ event \in Txt /\ data \in Seq(Txt) /\ size \in Nat
    /\ delivered \in Seq(Evs)

\* The reader has taken k whole lines.
AtLine(k) ==
    /\ EndOf(wire, k) <= pos /\ buf = Held(wire, k, pos)
    /\ first <=> k = 0
    /\ Pending = Gathered(First(Lines(wire), k))
    /\ delivered = Complete(First(Lines(wire), k))

\* The reader has taken k whole lines and what a failed Read left of the next.
AfterTear(k) ==
    /\ end = "error" /\ buf = <<>>
    /\ delivered = Complete(First(Lines(wire), k))

Tracks ==
    /\ end = "eof" => pos = Len(wire)
    /\ status = "open" => \E k \in 0..NumLines(wire) : AtLine(k) \/ AfterTear(k)
    /\ status = "failed" => IsPrefix(delivered, Events(wire))
    /\ status = "ended" => delivered = Events(wire)

RInv == ReaderTypes /\ Tracks

\* The body is a text.
LEMMA WireType ==
  ASSUME ReaderTypes
  PROVE  wire \in Txt /\ kind \in Kinds /\ asked \in BOOLEAN
  <1>1. [kind |-> kind, wire |-> wire, asked |-> asked]
          \in [kind : Kinds, wire : Seq(Symbols), asked : BOOLEAN]
    BY StreamAssumption DEF ReaderTypes
  <1> QED BY <1>1 DEF Txt

\* Lines taken so far.
LEMMA TakenType ==
  ASSUME NEW w \in Txt, NEW k \in 0..NumLines(w)
  PROVE  /\ First(Lines(w), k) \in Seq(Txt)
         /\ Complete(First(Lines(w), k)) \in Seq(Evs)
         /\ Gathered(First(Lines(w), k)) \in Evs
         /\ IsPrefix(Complete(First(Lines(w), k)), Events(w))
         /\ Events(w) \in Seq(Evs)
  <1>1. Lines(w) \in Seq(Txt) /\ Len(Lines(w)) = NumLines(w)
    BY LinesDef
  <1>2. First(Lines(w), k) \in Seq(Txt)
    <2> DEFINE ls == Lines(w)
    <2>1. ls \in Seq(Txt) /\ k \in 0..Len(ls)
      BY <1>1
    <2> HIDE DEF ls
    <2>2. SubSeq(ls, 1, k) \in Seq(Txt)
      BY <2>1
    <2> QED BY <2>2 DEF First, ls
  <1>3. k \in 0..Len(Lines(w))
    BY <1>1
  <1> QED BY <1>1, <1>2, <1>3, ReadTypes, EventsAreRead

\* The initial state.
LEMMA RInvInit == Init => RInv
  <1> SUFFICES ASSUME Init PROVE RInv
    OBVIOUS
  <1>1. PICK s \in Streams : kind = s.kind /\ wire = s.wire /\ asked = s.asked
    BY DEF Init
  <1>2. s \in [kind : Kinds, wire : Seq(Symbols), asked : BOOLEAN]
    BY StreamAssumption
  <1>3. s = [kind |-> kind, wire |-> wire, asked |-> asked]
    BY <1>1, <1>2
  <1>4. wire \in Txt
    BY <1>1, <1>2 DEF Txt
  <1>5. Len(wire) \in Nat
    BY <1>4, TxtLen
  <1>6. <<>> \in Txt /\ <<>> \in Seq(Txt) /\ <<>> \in Seq(Evs)
    BY DEF Txt
  <1>7. TRUE \in BOOLEAN
    BY Zenon
  <1>8. ReaderTypes
    BY <1>1, <1>3, <1>5, <1>6, <1>7 DEF Init, ReaderTypes
  <1>9. 0 \in 0..NumLines(wire)
    <2>1. NumLines(wire) \in Nat
      BY <1>4, LineEndsDef
    <2> QED BY <2>1
  <1>10. EndOf(wire, 0) = 0
    BY DEF EndOf
  <1>11. Held(wire, 0, 0) = <<>>
    BY <1>10 DEF Held
  <1>12. First(Lines(wire), 0) = <<>>
    BY <1>4, LinesDef, FirstEnds
  <1>13. AtLine(0)
    BY <1>10, <1>11, <1>12, ReadNothing DEF Init, AtLine, Pending
  <1> QED BY <1>8, <1>9, <1>13 DEF RInv, Tracks, Init

-----------------------------------------------------------------------------
(* Every step keeps the invariant.                                         *)

\* What writing does to the stream.
LEMMA WritesEffect ==
  ASSUME NEW cs, NEW err, NEW after, Writes(cs, err, after)
  PROVE  /\ status' = "failed" \/ status' = after
         /\ why' = why \/ why' \in {"write", "event"}
  <1>1. PICK n \in 0..Len(cs) :
          IF n < Len(cs) /\ cs[n + 1].type # "done" THEN Fails("write")
          ELSE IF err THEN Fails("event")
          ELSE status' = after /\ UNCHANGED why
    BY DEF Writes
  <1>2. \/ Fails("write") \/ Fails("event") \/ (status' = after /\ UNCHANGED why)
    BY <1>1
  <1> QED BY <1>2 DEF Fails

\* What handing over an event does to the reader.
LEMMA DeliverEffect ==
  ASSUME NEW ev, Deliver(ev)
  PROVE  /\ delivered' = Append(delivered, ev) /\ st' = Handle(ev).st
         /\ status' = "failed" \/ status' = "open"
         /\ why' = why \/ why' \in {"write", "event"}
  <1>1. delivered' = Append(delivered, ev) /\ st' = Handle(ev).st
        /\ Writes(Handle(ev).chunks, Handle(ev).err, "open")
    BY DEF Deliver
  <1> QED BY <1>1, WritesEffect

\* What the end does to the reader.
LEMMA EndEffect ==
  ASSUME EndOnEOF
  PROVE  /\ delivered' = IF Fires THEN Append(delivered, Pending) ELSE delivered
         /\ status' = "failed" \/ status' = "ended"
         /\ why' = why \/ why' \in {"write", "event"}
  <1>1. /\ delivered' = IF Fires THEN Append(delivered, Pending) ELSE delivered
        /\ \E all, err : Writes(all, err, "ended")
    BY DEF EndOnEOF
  <1> QED BY <1>1, WritesEffect

\* The event that is being gathered has the type of an event.
LEMMA PendingType ==
  ASSUME ReaderTypes
  PROVE  Pending \in Evs
  BY DEF ReaderTypes, Pending, Evs

\* The scanner's token has the right types.
LEMMA TokenType ==
  ASSUME ReaderTypes
  PROVE  /\ Token.advance \in 0..Len(buf) /\ Token.token \in Txt /\ Line \in Txt
         /\ Len(buf) \in Nat /\ (end # "none") \in BOOLEAN
  <1>1. (end # "none") \in BOOLEAN /\ buf \in Txt
    BY DEF ReaderTypes
  <1>2. Token.advance \in 0..Len(buf) /\ Token.token \in Txt
    BY <1>1, SplitType DEF Token
  <1>3. Line \in Txt
    BY <1>2, TextType DEF Line
  <1> QED BY <1>1, <1>2, <1>3, TxtLen

\* A line that is cut off the buffer leaves a text.
LEMMA AdvanceType ==
  ASSUME ReaderTypes, Advance
  PROVE  buf' \in Txt
  <1>1. Token.advance \in 0..Len(buf) /\ Len(buf) \in Nat /\ buf \in Txt
    BY TokenType DEF ReaderTypes
  <1>2. Token.advance \in Nat /\ Len(buf) \in 0..Len(buf) /\ Token.advance <= Len(buf)
    BY <1>1
  <1>3. SubSeq(buf, Token.advance + 1, Len(buf)) \in Txt
    BY <1>1, <1>2, Part
  <1> QED BY <1>3 DEF Advance

\* The types are kept.
LEMMA TypeOKNext ==
  ASSUME ReaderTypes, [Next]_vars
  PROVE  ReaderTypes'
  <1>0. wire \in Txt /\ Len(wire) \in Nat /\ Len(buf) \in Nat
    BY WireType, TxtLen DEF ReaderTypes
  <1>e. <<>> \in Txt /\ <<>> \in Seq(Txt)
    BY DEF Txt
  <1>1. ASSUME NEW n \in 0..MaxLine, NEW says \in {"none", "eof", "error"}, Read(n, says) PROVE ReaderTypes'
    <2>1. pos \in 0..Len(wire) /\ pos + n <= Len(wire) /\ n \in Nat
      BY <1>1, StreamAssumption DEF Read, ReaderTypes
    <2>2. pos \in Nat /\ pos + n \in 0..Len(wire) /\ pos <= pos + n
      BY <1>0, <2>1
    <2>3. SubSeq(wire, pos + 1, pos + n) \in Txt
      BY <1>0, <2>2, Part
    <2>4. buf \o SubSeq(wire, pos + 1, pos + n) \in Txt
      BY <2>3, ConcatProperties DEF ReaderTypes, Txt
    <2> QED BY <1>1, <2>2, <2>4 DEF Read, ReaderTypes, relay
  <1>4. CASE LineTooLong
    BY <1>4 DEF LineTooLong, Fails, ReaderTypes, reader
  <1>5. CASE ScanBlank
    <2>1. buf' \in Txt /\ first' \in BOOLEAN
      <3>1. FALSE \in BOOLEAN
        BY Zenon
      <3> QED BY <1>5, <3>1, AdvanceType DEF ScanBlank, Advance
    <2>2. delivered' \in Seq(Evs) /\ status' \in {"open", "ended", "failed"}
      <3>1. CASE Fires
        <4>1. Deliver(Pending)
          BY <1>5, <3>1 DEF ScanBlank
        <4>2. delivered' = Append(delivered, Pending) /\ (status' = "failed" \/ status' = "open")
          BY <4>1, DeliverEffect
        <4> QED BY <4>2, PendingType DEF ReaderTypes
      <3>2. CASE ~Fires
        BY <1>5, <3>2 DEF ScanBlank, ReaderTypes
      <3> QED BY <3>1, <3>2
    <2> QED BY <1>5, <1>e, <2>1, <2>2 DEF ScanBlank, ReaderTypes
  <1>6. CASE ScanField
    <2>1. buf' \in Txt /\ first' \in BOOLEAN
      <3>1. FALSE \in BOOLEAN
        BY Zenon
      <3> QED BY <1>6, <3>1, AdvanceType DEF ScanField, Advance
    <2>2. Line \in Txt /\ Line # <<>>
      BY <1>6, TokenType DEF ScanField
    <2>3. Tail(Line) \in Txt /\ Len(Tail(Line)) \in Nat
      <3>1. Tail(Line) \in Txt
        BY <2>2, HeadTailProperties DEF Txt
      <3> QED BY <3>1, TxtLen
    <2>4. event' \in Txt /\ data' \in Seq(Txt)
      BY <1>6, <2>3 DEF ScanField, ReaderTypes
    <2>5. size' \in Nat
      BY <1>6, <2>3, StreamAssumption DEF ScanField, ReaderTypes
    <2>6. status' \in {"open", "ended", "failed"}
      BY <1>6 DEF ScanField, Fails, ReaderTypes
    <2> QED BY <1>6, <2>1, <2>4, <2>5, <2>6 DEF ScanField, ReaderTypes
  <1>7. CASE EndOnError
    BY <1>7 DEF EndOnError, Fails, ReaderTypes, reader
  <1>8. CASE EndOnEOF
    <2>1. delivered' \in Seq(Evs) /\ status' \in {"open", "ended", "failed"}
      <3>1. delivered' = (IF Fires THEN Append(delivered, Pending) ELSE delivered)
            /\ (status' = "failed" \/ status' = "ended")
        BY <1>8, EndEffect
      <3> QED BY <3>1, PendingType DEF ReaderTypes
    <2> QED BY <1>8, <1>e, <2>1 DEF EndOnEOF, ReaderTypes
  <1>9. CASE UNCHANGED vars
    BY <1>9 DEF ReaderTypes, vars, reader, relay
  <1> QED BY <1>1, <1>4, <1>5, <1>6, <1>7, <1>8, <1>9 DEF Next

\* A reader that still reads has taken whole lines.
LEMMA ReadingAtLine ==
  ASSUME RInv, status = "open", buf # <<>> \/ end # "error"
  PROVE  \E k \in 0..NumLines(wire) : AtLine(k)
  BY DEF RInv, Tracks, AfterTear

\* What has been handed over is part of the body's events.
LEMMA DeliveredPrefix ==
  ASSUME RInv
  PROVE  IsPrefix(delivered, Events(wire))
  <1>1. wire \in Txt
    BY WireType DEF RInv
  <1>2. CASE status = "open"
    <2>1. PICK k \in 0..NumLines(wire) : delivered = Complete(First(Lines(wire), k))
      BY <1>2 DEF RInv, Tracks, AtLine, AfterTear
    <2> QED BY <1>1, <2>1, TakenType
  <1>3. CASE status = "failed"
    BY <1>3 DEF RInv, Tracks
  <1>4. CASE status = "ended"
    <2>1. delivered = Events(wire) /\ delivered \in Seq(Evs)
      BY <1>4 DEF RInv, Tracks, ReaderTypes
    <2>2. Len(delivered) <= Len(delivered) /\ \A i \in 1..Len(delivered) : delivered[i] = delivered[i]
      BY <2>1
    <2> QED BY <2>1, <2>2, PrefixDef
  <1> QED BY <1>2, <1>3, <1>4 DEF RInv, ReaderTypes

\* A reader at a line that takes a token, takes the next line or tears it.
LEMMA TakesLine ==
  ASSUME RInv, Advance
  PROVE  \E k \in 0..(NumLines(wire) - 1) :
            /\ AtLine(k)
            /\ \/ Whole(wire, k, Token) /\ buf' = Held(wire, k + 1, pos) /\ EndOf(wire, k + 1) <= pos
               \/ end # "none" /\ Torn(wire, k, Token, pos) /\ buf' = <<>>
  <1>1. wire \in Txt /\ ReaderTypes /\ status = "open" /\ Token.advance > 0
    BY WireType DEF RInv, Advance
  <1>2. Token.advance \in 0..Len(buf) /\ Len(buf) \in Nat /\ (end # "none") \in BOOLEAN
    BY <1>1, TokenType
  <1>3. buf # <<>>
    <2> SUFFICES ASSUME buf = <<>> PROVE FALSE
      OBVIOUS
    <2>1. Len(buf) = 0
      OBVIOUS
    <2> QED BY <1>1, <1>2, <2>1
  <1>4. PICK k \in 0..NumLines(wire) : AtLine(k)
    BY <1>1, <1>3, ReadingAtLine
  <1> DEFINE c == EndOf(wire, k)
             a == Token.advance
  <1>5. c \in 0..Len(wire) /\ pos \in 0..Len(wire) /\ Len(wire) \in Nat /\ NumLines(wire) \in Nat
    BY <1>1, LineEndsDef, TxtLen DEF ReaderTypes
  <1>6. pos \in c..Len(wire) /\ buf = Held(wire, k, pos)
    BY <1>4, <1>5 DEF AtLine
  <1>7. Len(buf) = pos - c
    BY <1>1, <1>6, HeldDef
  <1>8. Token = Split(Held(wire, k, pos), end # "none")
    BY <1>6 DEF Token
  <1>9. k < NumLines(wire)
        /\ (Whole(wire, k, Token) \/ (end # "none" /\ Torn(wire, k, Token, pos)))
    BY <1>1, <1>2, <1>6, <1>8, SplitLine
  <1>10. k \in 0..(NumLines(wire) - 1)
    BY <1>5, <1>9
  <1>11. a \in 0..(pos - c)
    BY <1>2, <1>7
  <1>12. buf' = SubSeq(wire, (c + a) + 1, pos)
    <2>1. buf' = SubSeq(buf, a + 1, Len(buf))
      BY DEF Advance
    <2> HIDE DEF a
    <2>2. SubSeq(Held(wire, k, pos), a + 1, Len(Held(wire, k, pos))) = SubSeq(wire, (c + a) + 1, pos)
      BY <1>1, <1>6, <1>11, HeldAfter
    <2> QED BY <1>6, <2>1, <2>2
  <1>13. CASE Whole(wire, k, Token)
    <2>1. c + a = EndOf(wire, k + 1)
      BY <1>13 DEF Whole
    <2>2. EndOf(wire, k + 1) <= pos
      BY <1>5, <1>11, <2>1
    <2>3. buf' = Held(wire, k + 1, pos)
      BY <1>12, <2>1 DEF Held
    <2> QED BY <1>4, <1>10, <1>13, <2>2, <2>3
  <1>14. CASE end # "none" /\ Torn(wire, k, Token, pos)
    <2>1. c + a = pos
      BY <1>14 DEF Torn
    <2>2. buf' = SubSeq(wire, pos + 1, pos)
      BY <1>12, <2>1
    <2>3. SubSeq(wire, pos + 1, pos) = <<>>
      BY <1>5
    <2> QED BY <1>4, <1>10, <1>14, <2>2, <2>3
  <1> QED BY <1>9, <1>13, <1>14

\* The line that is handled is the body's, when the token is.
LEMMA LineIsNext ==
  ASSUME wire \in Txt, NEW k \in 0..(NumLines(wire) - 1), AtLine(k),
         Token.token = Text(RawLines(wire)[k + 1])
  PROVE  Line = Lines(wire)[k + 1]
  BY LinesDef DEF AtLine, Line

\* One more line taken.
LEMMA TakenNext ==
  ASSUME NEW w \in Txt, NEW k \in 0..(NumLines(w) - 1)
  PROVE  /\ First(Lines(w), k) \in Seq(Txt) /\ Lines(w)[k + 1] \in Txt
         /\ First(Lines(w), k + 1) = Append(First(Lines(w), k), Lines(w)[k + 1])
         /\ k \in 0..NumLines(w) /\ k + 1 \in 0..NumLines(w)
  <1>1. Lines(w) \in Seq(Txt) /\ Len(Lines(w)) = NumLines(w) /\ NumLines(w) \in Nat
    BY LinesDef, LineEndsDef
  <1>2. k \in 0..(Len(Lines(w)) - 1)
    BY <1>1
  <1>3. k \in 0..NumLines(w) /\ k + 1 \in 0..NumLines(w)
    BY <1>1
  <1> QED BY <1>1, <1>2, <1>3, FirstNext

\* A blank line keeps track of the body.
LEMMA BlankTracks ==
  ASSUME RInv, ReaderTypes', ScanBlank
  PROVE  Tracks'
  <1>1. wire \in Txt /\ ReaderTypes /\ status = "open"
    BY WireType DEF RInv, ScanBlank, Advance
  <1>2. wire' = wire /\ pos' = pos /\ end' = end /\ first' = FALSE /\ Line = <<>>
        /\ event' = <<>> /\ data' = <<>>
    BY DEF ScanBlank, Advance
  <1>3. Advance
    BY DEF ScanBlank
  <1>4. /\ delivered' = IF Fires THEN Append(delivered, Pending) ELSE delivered
        /\ status' = "open" \/ status' = "failed"
    <2>1. CASE Fires
      <3>1. Deliver(Pending)
        BY <2>1 DEF ScanBlank
      <3> QED BY <1>1, <2>1, <3>1, DeliverEffect
    <2>2. CASE ~Fires
      BY <1>1, <2>2 DEF ScanBlank
    <2> QED BY <2>1, <2>2
  <1>5. PICK k \in 0..(NumLines(wire) - 1) :
          /\ AtLine(k)
          /\ \/ Whole(wire, k, Token) /\ buf' = Held(wire, k + 1, pos) /\ EndOf(wire, k + 1) <= pos
             \/ end # "none" /\ Torn(wire, k, Token, pos) /\ buf' = <<>>
    BY <1>3, TakesLine
  <1> DEFINE p == First(Lines(wire), k)
             l == Lines(wire)[k + 1]
             q == First(Lines(wire), k + 1)
  <1>6. p \in Seq(Txt) /\ l \in Txt /\ q = Append(p, l)
        /\ k \in 0..NumLines(wire) /\ k + 1 \in 0..NumLines(wire)
    BY <1>1, TakenNext
  <1>7. Pending = Gathered(p) /\ delivered = Complete(p)
    BY <1>5 DEF AtLine
  <1>8. end = "eof" => pos = Len(wire)
    BY DEF RInv, Tracks
  <1>9. ASSUME NEW j \in 0..NumLines(wire), delivered' = Complete(First(Lines(wire), j)),
               status' = "open" => AtLine(j)' \/ AfterTear(j)'
        PROVE  Tracks'
    <2>1. IsPrefix(delivered', Events(wire))
      BY <1>1, <1>9, TakenType
    <2>2. (status' = "open") => \E i \in 0..NumLines(wire') : AtLine(i)' \/ AfterTear(i)'
      BY <1>2, <1>9
    <2> QED BY <1>2, <1>4, <1>8, <2>1, <2>2 DEF Tracks
  <1>10. ASSUME Token.token = Text(RawLines(wire)[k + 1])
         PROVE  delivered' = Complete(q) /\ Pending' = Gathered(q)
    <2>1. l = <<>>
      BY <1>1, <1>2, <1>5, <1>10, LineIsNext
    <2>2. Complete(Append(p, <<>>)) =
            IF IsEvent(Gathered(p)) THEN Append(Complete(p), Gathered(p)) ELSE Complete(p)
      BY <1>6, ReadBlank
    <2>3. Gathered(Append(p, <<>>)) = [event |-> <<>>, data |-> <<>>]
      BY <1>6, ReadBlank
    <2>4. q = Append(p, <<>>)
      BY <1>6, <2>1
    <2> HIDE DEF p, l, q
    <2>5. delivered' = Complete(q)
      BY <1>4, <1>7, <2>2, <2>4 DEF Fires
    <2>6. Pending' = [event |-> <<>>, data |-> <<>>]
      BY <1>2 DEF Pending
    <2> QED BY <2>3, <2>4, <2>5, <2>6
  <1>11. CASE Whole(wire, k, Token) /\ buf' = Held(wire, k + 1, pos) /\ EndOf(wire, k + 1) <= pos
    <2>1. delivered' = Complete(q) /\ Pending' = Gathered(q)
      BY <1>10, <1>11 DEF Whole
    <2>2. k + 1 # 0
      OBVIOUS
    <2>3. AtLine(k + 1)'
      BY <1>2, <1>11, <2>1, <2>2 DEF AtLine
    <2> QED BY <1>6, <1>9, <2>1, <2>3
  <1>12. CASE end # "none" /\ Torn(wire, k, Token, pos) /\ buf' = <<>>
    <2>1. end = "error"
      BY <1>1, <1>8, <1>12 DEF Torn, ReaderTypes
    <2>2. CASE Token.token = Text(RawLines(wire)[k + 1])
      <3>1. delivered' = Complete(q)
        BY <1>10, <2>2
      <3>2. AfterTear(k + 1)'
        BY <1>2, <1>12, <2>1, <3>1 DEF AfterTear
      <3> QED BY <1>6, <1>9, <3>1, <3>2
    <2>3. CASE Token.token # Text(RawLines(wire)[k + 1])
      <3>1. Token.token # <<>>
        BY <1>12, <2>3 DEF Torn
      <3>2. first
        BY <1>2, <3>1 DEF Line
      <3>3. k = 0
        BY <1>5, <3>2 DEF AtLine
      <3>4. p = <<>>
        BY <1>1, <3>3, LinesDef, FirstEnds
      <3>5. ~Fires
        BY <1>7, <3>4, ReadNothing DEF Fires, IsEvent
      <3>6. delivered' = Complete(p)
        BY <1>4, <1>7, <3>5
      <3>7. AfterTear(k)'
        BY <1>2, <1>12, <2>1, <3>6 DEF AfterTear
      <3> QED BY <1>6, <1>9, <3>6, <3>7
    <2> QED BY <2>2, <2>3
  <1> QED BY <1>5, <1>11, <1>12

\* A line with a field keeps track of the body.
LEMMA FieldTracks ==
  ASSUME RInv, ReaderTypes', ScanField
  PROVE  Tracks'
  <1>1. wire \in Txt /\ ReaderTypes /\ status = "open"
    BY WireType DEF RInv, ScanField, Advance
  <1>2. wire' = wire /\ pos' = pos /\ end' = end /\ first' = FALSE /\ Line # <<>>
        /\ delivered' = delivered
        /\ event' = (IF Field("event", Line) THEN Tail(Line) ELSE event)
        /\ data' = (IF Field("data", Line) THEN Append(data, Tail(Line)) ELSE data)
    BY DEF ScanField, Advance
  <1>3. Advance
    BY DEF ScanField
  <1>4. status' = "open" \/ status' = "failed"
    BY <1>1 DEF ScanField, Fails
  <1>5. PICK k \in 0..(NumLines(wire) - 1) :
          /\ AtLine(k)
          /\ \/ Whole(wire, k, Token) /\ buf' = Held(wire, k + 1, pos) /\ EndOf(wire, k + 1) <= pos
             \/ end # "none" /\ Torn(wire, k, Token, pos) /\ buf' = <<>>
    BY <1>3, TakesLine
  <1> DEFINE p == First(Lines(wire), k)
             l == Lines(wire)[k + 1]
             q == First(Lines(wire), k + 1)
  <1>6. p \in Seq(Txt) /\ l \in Txt /\ q = Append(p, l)
        /\ k \in 0..NumLines(wire) /\ k + 1 \in 0..NumLines(wire)
    BY <1>1, TakenNext
  <1>7. Pending = Gathered(p) /\ delivered = Complete(p)
    BY <1>5 DEF AtLine
  <1>8. end = "eof" => pos = Len(wire)
    BY DEF RInv, Tracks
  <1>9. IsPrefix(delivered', Events(wire))
    BY <1>2, DeliveredPrefix
  <1>10. CASE Whole(wire, k, Token) /\ buf' = Held(wire, k + 1, pos) /\ EndOf(wire, k + 1) <= pos
    <2>1. Line = l
      BY <1>1, <1>5, <1>10, LineIsNext DEF Whole
    <2>2. /\ Complete(Append(p, l)) = Complete(p)
          /\ Gathered(Append(p, l)).event = (IF Field("event", l) THEN Tail(l) ELSE Gathered(p).event)
          /\ Gathered(Append(p, l)).data =
               (IF Field("data", l) THEN Append(Gathered(p).data, Tail(l)) ELSE Gathered(p).data)
      BY <1>2, <1>6, <2>1, ReadField
    <2>3. Gathered(q) \in Evs
      BY <1>1, <1>6, TakenType
    <2> HIDE DEF p, l, q
    <2>4. event = Gathered(p).event /\ data = Gathered(p).data
      BY <1>7 DEF Pending
    <2>5. Gathered(q).event = event' /\ Gathered(q).data = data'
      BY <1>2, <1>6, <2>1, <2>2, <2>4
    <2>6. Pending' = Gathered(q)
      BY <2>3, <2>5 DEF Evs, Pending
    <2>7. delivered' = Complete(q)
      BY <1>2, <1>6, <1>7, <2>2
    <2>8. k + 1 # 0
      OBVIOUS
    <2>9. AtLine(k + 1)'
      BY <1>2, <1>10, <2>6, <2>7, <2>8 DEF AtLine, q
    <2> QED BY <1>2, <1>4, <1>6, <1>8, <1>9, <2>9 DEF Tracks
  <1>11. CASE end # "none" /\ Torn(wire, k, Token, pos) /\ buf' = <<>>
    <2>1. end = "error"
      BY <1>1, <1>8, <1>11 DEF Torn, ReaderTypes
    <2>2. AfterTear(k)'
      BY <1>2, <1>7, <1>11, <2>1 DEF AfterTear
    <2> QED BY <1>2, <1>4, <1>6, <1>8, <1>9, <2>2 DEF Tracks
  <1> QED BY <1>5, <1>10, <1>11

\* At a clean end everything has been read.
LEMMA EndTracks ==
  ASSUME RInv, EndOnEOF
  PROVE  delivered' = Events(wire)
  <1>1. wire \in Txt /\ ReaderTypes /\ status = "open" /\ end = "eof" /\ Token.advance = 0
    BY WireType DEF RInv, EndOnEOF, Drained
  <1>2. PICK k \in 0..NumLines(wire) : AtLine(k)
    BY <1>1, ReadingAtLine
  <1>3. pos = Len(wire)
    BY <1>1 DEF RInv, Tracks
  <1>4. buf \in Txt /\ TRUE \in BOOLEAN /\ Token = Split(buf, TRUE)
    <2>1. TRUE \in BOOLEAN
      BY Zenon
    <2>2. (end # "none") = TRUE
      BY <1>1
    <2> QED BY <1>1, <2>1, <2>2 DEF ReaderTypes, Token
  <1>5. buf = <<>>
    BY <1>1, <1>4, SplitNothing
  <1>6. EndOf(wire, k) \in 0..Len(wire) /\ Len(wire) \in Nat
    BY <1>1, LineEndsDef, TxtLen
  <1>7. pos \in EndOf(wire, k)..Len(wire) /\ buf = Held(wire, k, pos)
    BY <1>2, <1>3, <1>6 DEF AtLine
  <1>8. Len(buf) = pos - EndOf(wire, k)
    BY <1>1, <1>7, HeldDef
  <1>9. Len(buf) = 0
    BY <1>5
  <1>10. EndOf(wire, k) = Len(wire)
    BY <1>3, <1>6, <1>8, <1>9
  <1>11. k = NumLines(wire)
    BY <1>1, <1>10, LastEnd
  <1>12. First(Lines(wire), k) = Lines(wire) /\ Lines(wire) \in Seq(Txt)
    BY <1>1, <1>11, LinesDef, FirstEnds
  <1>13. Pending = Gathered(Lines(wire)) /\ delivered = Complete(Lines(wire))
    BY <1>2, <1>12 DEF AtLine
  <1>14. Events(wire) = IF IsEvent(Gathered(Lines(wire)))
                          THEN Append(Complete(Lines(wire)), Gathered(Lines(wire)))
                          ELSE Complete(Lines(wire))
    BY <1>12, EventsAreRead
  <1>15. delivered' = IF Fires THEN Append(delivered, Pending) ELSE delivered
    BY EndEffect
  <1> QED BY <1>13, <1>14, <1>15 DEF Fires

\* Every step keeps the invariant.
LEMMA RInvNext ==
  ASSUME RInv, [Next]_vars
  PROVE  RInv'
  <1>0. ReaderTypes /\ ReaderTypes'
    BY TypeOKNext DEF RInv
  <1> SUFFICES Tracks'
    BY <1>0 DEF RInv
  <1>1. wire \in Txt /\ Len(wire) \in Nat
    BY <1>0, WireType, TxtLen
  <1>2. ASSUME status = "open", end = "none"
        PROVE  \E k \in 0..NumLines(wire) : AtLine(k)
    BY <1>2, ReadingAtLine
  <1>3. ASSUME NEW n \in 0..MaxLine, NEW says \in {"none", "eof", "error"}, Read(n, says) PROVE Tracks'
    <2>1. status = "open" /\ end = "none" /\ pos + n <= Len(wire) /\ n \in Nat
          /\ (says = "eof" => pos + n = Len(wire))
      BY <1>3, StreamAssumption DEF Read, NeedsMore
    <2>2. PICK k \in 0..NumLines(wire) : AtLine(k)
      BY <1>2, <2>1
    <2>3. EndOf(wire, k) \in 0..Len(wire) /\ pos \in 0..Len(wire)
      BY <1>0, <1>1, LineEndsDef DEF ReaderTypes
    <2>4. pos \in EndOf(wire, k)..Len(wire)
      BY <1>1, <2>2, <2>3 DEF AtLine
    <2>5. buf' = Held(wire, k, pos + n)
      <3>1. buf' = Held(wire, k, pos) \o SubSeq(wire, pos + 1, pos + n)
        BY <1>3, <2>2 DEF Read, AtLine
      <3> QED BY <1>1, <2>1, <2>4, <3>1, HeldMore
    <2>6. EndOf(wire, k) <= pos + n
      BY <1>1, <2>1, <2>3, <2>4
    <2>7. pos' = pos + n /\ wire' = wire /\ first' = first /\ event' = event /\ data' = data
          /\ delivered' = delivered /\ status' = status /\ end' = says
      BY <1>3 DEF Read
    <2>8. AtLine(k)'
      BY <2>2, <2>5, <2>6, <2>7 DEF AtLine, Pending
    <2> QED BY <2>1, <2>7, <2>8 DEF Tracks
  <1>6. CASE LineTooLong
    <2>1. status' = "failed" /\ delivered' = delivered /\ wire' = wire /\ end' = end /\ pos' = pos
      BY <1>6 DEF LineTooLong, Fails, reader
    <2> QED BY <2>1, DeliveredPrefix DEF RInv, Tracks
  <1>7. CASE ScanBlank
    BY <1>0, <1>7, BlankTracks
  <1>8. CASE ScanField
    BY <1>0, <1>8, FieldTracks
  <1>9. CASE EndOnError
    <2>1. status' = "failed" /\ delivered' = delivered /\ wire' = wire /\ end' = end /\ pos' = pos
      BY <1>9 DEF EndOnError, Fails, reader
    <2> QED BY <2>1, DeliveredPrefix DEF RInv, Tracks
  <1>10. CASE EndOnEOF
    <2>1. delivered' = Events(wire) /\ delivered' \in Seq(Evs)
      BY <1>0, <1>10, EndTracks, SMTT(40) DEF ReaderTypes
    <2>2. wire' = wire /\ end' = end /\ pos' = pos /\ (status' = "failed" \/ status' = "ended")
      BY <1>10, EndEffect DEF EndOnEOF
    <2>3. IsPrefix(delivered', delivered')
      <3> DEFINE d == delivered'
      <3>1. d \in Seq(Evs)
        BY <2>1
      <3> HIDE DEF d
      <3>2. IsPrefix(d, d)
        BY <3>1, PrefixDef
      <3> QED BY <3>2 DEF d
    <2> QED BY <2>1, <2>2, <2>3 DEF RInv, Tracks
  <1>11. CASE UNCHANGED vars
    BY <1>11 DEF RInv, Tracks, AtLine, AfterTear, Pending, vars, reader, relay
  <1> QED BY <1>3, <1>6, <1>7, <1>8, <1>9, <1>10, <1>11 DEF Next

-----------------------------------------------------------------------------
(* Stream implements EventStream.                                          *)

\* The instance's copies of the operators of EventText are the operators.
LEMMA SameEvents == \A w : ES!Events(w) = Events(w)
  <1>1. \A S, n : ES!InOrder(S, n) = InOrder(S, n)
    BY DEF ES!InOrder, InOrder
  <1>2. \A s, S : ES!Picked(s, S) = Picked(s, S)
    BY <1>1 DEF ES!Picked, Picked
  <1>3. \A s, e : ES!Pieces(s, e) = Pieces(s, e)
    BY DEF ES!Pieces, Pieces
  <1>4. \A n, l : ES!Field(n, l) = Field(n, l)
    BY DEF ES!Field, Field
  <1>5. \A s : ES!FirstBreak(s) = FirstBreak(s)
    BY DEF ES!FirstBreak, FirstBreak, ES!SelectInSeq, SelectInSeq, ES!IsBreak, IsBreak,
           ES!Min, Min
  <1>6. \A s : ES!Text(s) = Text(s)
    BY <1>5 DEF ES!Text, Text
  <1>7. \A w : ES!RawLines(w) = RawLines(w)
    BY <1>1, <1>3 DEF ES!RawLines, RawLines, ES!Breaks, Breaks
  <1>8. \A s : ES!Unmarked(s) = Unmarked(s)
    BY <1>4 DEF ES!Unmarked, Unmarked
  <1>9. \A w : ES!Lines(w) = Lines(w)
    BY <1>6, <1>7, <1>8 DEF ES!Lines, Lines
  <1>10. \A ls : ES!Blocks(ls) = Blocks(ls)
    BY <1>1, <1>3 DEF ES!Blocks, Blocks
  <1>11. \A n, ls : ES!Values(n, ls) = Values(n, ls)
    BY <1>2, <1>4 DEF ES!Values, Values
  <1>12. \A b : ES!EventOf(b) = EventOf(b)
    BY <1>11 DEF ES!EventOf, EventOf, ES!LastOf, LastOf, ES!Last, Last
  <1>13. \A bs : ES!EventsOf(bs) = EventsOf(bs)
    BY <1>2, <1>12 DEF ES!EventsOf, EventsOf, ES!IsEvent, IsEvent
  <1> QED BY <1>9, <1>10, <1>13 DEF ES!Events, Events

\* The same for IsPrefix.
LEMMA SameIsPrefix == \A s, t : ES!IsPrefix(s, t) <=> IsPrefix(s, t)
  BY DEF ES!IsPrefix, IsPrefix

\* The reader's state satisfies the invariant in every behaviour: it has taken
\* whole lines of the body, and has handed over and gathered what these say
\* (sse.go:139-221).
THEOREM ReaderTracks == Spec => []RInv
  <1>1. RInv /\ [Next]_vars => RInv'
    BY RInvNext
  <1> QED BY <1>1, RInvInit, PTL DEF Spec

\* Handing over an event is a step of the abstract reader.
LEMMA DeliverRefines ==
  ASSUME RInv, RInv', status = "open", status' \in {"open", "failed"}, wire' = wire,
         NEW ev \in Evs, delivered' = Append(delivered, ev)
  PROVE  ES!Deliver
  <1>1. Len(delivered') = Len(delivered) + 1
    BY DEF RInv, ReaderTypes
  <1>2. IsPrefix(delivered', Events(wire'))
    <2>1. IsPrefix(delivered, Events(wire))'
      <3>1. (status' = "open") =>
              \E k \in 0..NumLines(wire) : delivered' = Complete(First(Lines(wire), k))
        BY DEF RInv, Tracks, AtLine, AfterTear
      <3>2. wire \in Txt
        BY WireType DEF RInv
      <3>3. (status' = "open") => IsPrefix(delivered', Events(wire))
        BY <3>1, <3>2, TakenType
      <3>4. (status' = "failed") => IsPrefix(delivered', Events(wire))
        BY DEF RInv, Tracks
      <3> QED BY <3>3, <3>4
    <2> QED BY <2>1
  <1> QED BY <1>1, <1>2, SameEvents, SameIsPrefix DEF ES!Deliver

\* Reading in pieces implements reading at once, for every body, wherever it is
\* cut or breaks off: the events of the whole body are handed over in order and
\* unchanged, and a clean end hands over all of them (sse.go:94-114, 139-221).
THEOREM PiecesReadLikeWhole == Spec => ReadsLikeWhole
  <1>1. Init => ES!Init
    BY DEF Init, ES!Init
  <1>2. ASSUME RInv, RInv', [Next]_vars PROVE [ES!Next]_<<wire, delivered, status>>
    <2>1. ASSUME NEW n \in 0..MaxLine, NEW says \in {"none", "eof", "error"}, Read(n, says)
          PROVE  UNCHANGED <<wire, delivered, status>>
      BY <2>1 DEF Read
    <2>3. CASE LineTooLong
      <3>1. ES!Fail
        BY <2>3 DEF LineTooLong, NeedsMore, Fails, ES!Fail
      <3> QED BY <3>1 DEF ES!Next
    <2>4. CASE ScanBlank
      <3>1. status = "open" /\ wire' = wire
        BY <2>4 DEF ScanBlank, Advance
      <3>2. CASE Fires
        <4>1. delivered' = Append(delivered, Pending) /\ status' \in {"open", "failed"}
          BY <2>4, <3>1, <3>2, DeliverEffect DEF ScanBlank
        <4>2. Pending \in Evs
          BY <1>2, PendingType DEF RInv
        <4>3. ES!Deliver
          BY <1>2, <3>1, <4>1, <4>2, DeliverRefines
        <4> QED BY <4>3 DEF ES!Next
      <3>3. CASE ~Fires
        BY <2>4, <3>1, <3>3 DEF ScanBlank
      <3> QED BY <3>2, <3>3
    <2>5. CASE ScanField
      <3>1. status = "open" /\ UNCHANGED <<wire, delivered>>
            /\ (status' = "failed" \/ status' = status)
        BY <2>5 DEF ScanField, Advance, Fails
      <3> QED BY <3>1 DEF ES!Next, ES!Fail
    <2>6. CASE EndOnError
      <3>1. ES!Fail
        BY <2>6 DEF EndOnError, Drained, Fails, ES!Fail
      <3> QED BY <3>1 DEF ES!Next
    <2>7. CASE EndOnEOF
      <3>1. status = "open" /\ wire' = wire
        BY <2>7 DEF EndOnEOF, Drained
      <3>2. delivered' = (IF Fires THEN Append(delivered, Pending) ELSE delivered)
            /\ (status' = "failed" \/ status' = "ended")
        BY <2>7, EndEffect
      <3>3. Pending \in Evs /\ delivered \in Seq(Evs)
        BY <1>2, PendingType DEF RInv, ReaderTypes
      <3>4. CASE status' = "ended"
        <4>1. Len(delivered') - Len(delivered) \in {0, 1}
          BY <3>2, <3>3
        <4>2. IsPrefix(delivered, delivered')
          <5>1. IsPrefix(delivered, delivered)
            BY <3>3, PrefixDef
          <5>2. IsPrefix(delivered, Append(delivered, Pending))
            BY <3>3, <5>1, PrefixAppend
          <5> QED BY <3>2, <5>1, <5>2
        <4>3. delivered' = Events(wire)
          BY <1>2, <2>7, EndTracks
        <4>4. ES!End
          BY <3>1, <3>4, <4>1, <4>2, <4>3, SameEvents, SameIsPrefix DEF ES!End
        <4> QED BY <4>4 DEF ES!Next
      <3>5. CASE status' = "failed"
        <4>1. CASE Fires
          <5>1. ES!Deliver
            BY <1>2, <3>1, <3>2, <3>3, <3>5, <4>1, DeliverRefines
          <5> QED BY <5>1 DEF ES!Next
        <4>2. CASE ~Fires
          BY <3>1, <3>2, <3>5, <4>2 DEF ES!Next, ES!Fail
        <4> QED BY <4>1, <4>2
      <3> QED BY <3>2, <3>4, <3>5
    <2>8. CASE UNCHANGED vars
      BY <2>8 DEF vars
    <2> QED BY <1>2, <2>1, <2>3, <2>4, <2>5, <2>6, <2>7, <2>8 DEF Next
  <1>3. RInv /\ RInv' /\ [Next]_vars => [ES!Next]_<<wire, delivered, status>>
    BY <1>2
  <1> QED BY <1>1, <1>3, ReaderTracks, PTL DEF Spec, ReadsLikeWhole, ES!Spec

-----------------------------------------------------------------------------
(* The adapters: what an event does to their state and which chunks it     *)
(* yields.                                                                 *)

Types == {"raw", "done", "usage", "role", "text", "tool", "args", "finish", "finish_calls", "error"}
Chunks == [type : Types, index : Nat, from : Nat, data : Seq(Txt)]
Ords == UNION {[D -> Nat] : D \in SUBSET Nat}
States == [u : Usages, ordinals : Ords, next : Nat, started : BOOLEAN, called : BOOLEAN]

\* What an event decodes to.
LEMMA DecodedType ==
  ASSUME NEW ev \in Evs, Decodes(ev)
  PROVE  Decoded(ev) \in Payloads /\ (Decoded(ev).done => ~Decoded(ev).usage)
  BY StreamAssumption DEF Decodes, Decoded

\* A sequence of one element.
LEMMA Singleton ==
  ASSUME NEW S, NEW x \in S
  PROVE  <<x>> \in Seq(S) /\ Len(<<x>>) = 1 /\ <<x>>[1] = x
  OBVIOUS

\* An event has a name when its field is one symbol.
LEMMA NamedDef ==
  ASSUME NEW ev \in Evs, NEW name
  PROVE  Named(ev, name) <=> Len(ev.event) = 1 /\ ev.event[1] = name /\ Decodes(ev)
  <1>1. ev.event \in Seq(Symbols)
    BY DEF Evs, Txt
  <1>2. ev.event = <<name>> <=> Len(ev.event) = 1 /\ ev.event[1] = name
    <2>1. ASSUME Len(ev.event) = 1, ev.event[1] = name PROVE ev.event = <<name>>
      <3>1. <<name>> \in Seq(Symbols) /\ Len(<<name>>) = 1 /\ <<name>>[1] = name
        <4>1. name \in Symbols
          BY <1>1, <2>1
        <4> QED BY <4>1, Singleton
      <3>2. \A i \in 1..Len(ev.event) : ev.event[i] = <<name>>[i]
        BY <2>1, <3>1
      <3> QED BY <1>1, <2>1, <3>1, <3>2, SeqEqual
    <2> QED BY <2>1
  <1> QED BY <1>2 DEF Named

\* A function with one more value.
LEMMA WithOrdinalType ==
  ASSUME st \in States, NEW i \in Nat
  PROVE  /\ WithOrdinal(i) \in Ords /\ DOMAIN WithOrdinal(i) = DOMAIN st.ordinals \cup {i}
         /\ DOMAIN st.ordinals \subseteq Nat
         /\ \A k \in DOMAIN st.ordinals : st.ordinals[k] \in Nat
         /\ WithOrdinal(i)[i] = st.next
         /\ \A k \in DOMAIN st.ordinals : k # i => WithOrdinal(i)[k] = st.ordinals[k]
  <1>1. st.ordinals \in Ords /\ st.next \in Nat
    BY DEF States
  <1>2. PICK D \in SUBSET Nat : st.ordinals \in [D -> Nat]
    BY <1>1 DEF Ords
  <1>3. DOMAIN st.ordinals = D /\ \A k \in D : st.ordinals[k] \in Nat
    BY <1>2
  <1>4. WithOrdinal(i) \in [D \cup {i} -> Nat]
    BY <1>1, <1>3 DEF WithOrdinal
  <1>5. D \cup {i} \in SUBSET Nat
    OBVIOUS
  <1>6. WithOrdinal(i) \in Ords
    BY <1>4, <1>5 DEF Ords
  <1> QED BY <1>3, <1>6 DEF WithOrdinal

\* An OpenAI-type upstream's event.
LEMMA OpenAIEffect ==
  ASSUME st \in States, NEW ev \in Evs
  PROVE  /\ ForwardOpenAI(ev).st =
              IF Decodes(ev) /\ Decoded(ev).usage THEN [st EXCEPT !.u = Decoded(ev).u] ELSE st
         /\ ForwardOpenAI(ev).err = FALSE
         /\ \/ ForwardOpenAI(ev).chunks = <<>> /\ ~IsShown(ev)
            \/ /\ IsShown(ev)
               /\ \E t \in {"raw", "done"} : /\ ForwardOpenAI(ev).chunks = <<Raw(t, ev.data)>>
                                             /\ t = "done" => IsDone(ev)
  <1>1. CASE IsDone(ev)
    <2>1. ~Decoded(ev).usage
      BY <1>1, DecodedType DEF IsDone
    <2> QED BY <1>1, <2>1 DEF ForwardOpenAI, Result, IsShown, IsDone
  <1>2. CASE ~IsDone(ev)
    <2> DEFINE state == IF Decodes(ev) /\ Decoded(ev).usage THEN [st EXCEPT !.u = Decoded(ev).u] ELSE st
    <2>1. ForwardOpenAI(ev) =
            Result(state, IF UsageOnly(ev) /\ ~asked THEN <<>> ELSE <<Raw("raw", ev.data)>>, FALSE)
      BY <1>2 DEF ForwardOpenAI
    <2>2. UsageOnly(ev) /\ ~asked <=> ~IsShown(ev)
      BY <1>2 DEF UsageOnly, IsShown, IsDone
    <2> HIDE DEF state
    <2>3. ForwardOpenAI(ev).st = state /\ ForwardOpenAI(ev).err = FALSE
          /\ ForwardOpenAI(ev).chunks = IF UsageOnly(ev) /\ ~asked THEN <<>> ELSE <<Raw("raw", ev.data)>>
      BY <2>1 DEF Result
    <2> QED BY <2>2, <2>3 DEF state
  <1> QED BY <1>1, <1>2

\* What TranslateAnthropic does, by the name of the event.
AnthropicCases(ev, r) ==
    \/ /\ ~Named(ev, "message_start") /\ ~Named(ev, "message_delta") /\ ~OnTool(ev, "block_start")
       /\ ~OnTool(ev, "block_delta") /\ r.st = st
       /\ \/ r.chunks = <<>>
          \/ \E i \in Nat : r.chunks = <<Chunk("text", 0, i)>>
          \/ r.chunks = <<Chunk("error", 0, 0)>> /\ r.err
    \/ /\ Named(ev, "message_start") /\ r.st = [st EXCEPT !.u.prompt = Decoded(ev).prompt]
       /\ r.chunks = <<Chunk("role", 0, 0)>> /\ r.err = FALSE
    \/ /\ Named(ev, "message_delta") /\ r.st = [st EXCEPT !.u.completion = Decoded(ev).completion]
       /\ r.chunks = <<Chunk("finish", 0, 0)>> /\ r.err = FALSE
    \/ /\ OnTool(ev, "block_start")
       /\ r.st = [st EXCEPT !.ordinals = WithOrdinal(Decoded(ev).index), !.next = @ + 1]
       /\ r.chunks = <<Chunk("tool", st.next, Decoded(ev).index)>> /\ r.err = FALSE
    \/ /\ OnTool(ev, "block_delta") /\ r.st = st
       /\ r.chunks = <<Chunk("args", Ordinal(Decoded(ev).index), Decoded(ev).index)>> /\ r.err = FALSE

\* An Anthropic event.
LEMMA AnthropicEffect ==
  ASSUME st \in States, NEW ev \in Evs
  PROVE  /\ AnthropicCases(ev, TranslateAnthropic(ev))
         /\ TranslateAnthropic(ev).err \in BOOLEAN
  <1> DEFINE name == IF Len(ev.event) = 1 THEN ev.event[1] ELSE "none"
             p == Decoded(ev)
             r == TranslateAnthropic(ev)
             names == {"message_start", "block_start", "block_delta", "message_delta", "error"}
  <1>0. TRUE \in BOOLEAN /\ FALSE \in BOOLEAN
    BY Zenon
  <1>1. \A x \in names : Named(ev, x) <=> name = x /\ Decodes(ev)
    <2> SUFFICES ASSUME NEW x \in names PROVE Named(ev, x) <=> name = x /\ Decodes(ev)
      OBVIOUS
    <2>1. x # "none"
      BY SMT
    <2>2. Named(ev, x) <=> Len(ev.event) = 1 /\ ev.event[1] = x /\ Decodes(ev)
      BY NamedDef
    <2> QED BY <2>1, <2>2 DEF name
  <1>2. Decodes(ev) => p.block \in {"none", "text", "tool"} /\ p.index \in Nat
    BY DecodedType DEF Payloads
  <1>3. r = IF name \notin names THEN Result(st, <<>>, FALSE)
            ELSE IF ~Decodes(ev) THEN Result(st, <<>>, TRUE)
            ELSE CASE name = "message_start" ->
                    Result([st EXCEPT !.u.prompt = p.prompt], <<Chunk("role", 0, 0)>>, FALSE)
               [] name = "block_start" /\ p.block = "tool" ->
                    Result([st EXCEPT !.ordinals = WithOrdinal(p.index), !.next = @ + 1],
                           <<Chunk("tool", st.next, p.index)>>, FALSE)
               [] name = "block_delta" /\ p.block = "text" ->
                    Result(st, <<Chunk("text", 0, p.index)>>, FALSE)
               [] name = "block_delta" /\ p.block = "tool" ->
                    Result(st, <<Chunk("args", Ordinal(p.index), p.index)>>, FALSE)
               [] name = "message_delta" ->
                    Result([st EXCEPT !.u.completion = p.completion], <<Chunk("finish", 0, 0)>>, FALSE)
               [] name = "error" -> Result(st, <<Chunk("error", 0, 0)>>, TRUE)
               [] OTHER -> Result(st, <<>>, FALSE)
    BY DEF TranslateAnthropic
  <1> HIDE DEF name, p, r
  <1>4. \A x : (OnTool(ev, x) <=> Named(ev, x) /\ p.block = "tool")
    BY DEF OnTool, p
  <1>5. CASE name \notin names
    <2>1. r = Result(st, <<>>, FALSE)
      BY <1>3, <1>5
    <2>2. r.st = st /\ r.chunks = <<>> /\ r.err = FALSE
      BY <2>1 DEF Result
    <2> QED BY <1>0, <1>1, <1>4, <1>5, <2>2 DEF AnthropicCases, r
  <1>6. CASE name \in names /\ ~Decodes(ev)
    <2>1. r = Result(st, <<>>, TRUE)
      BY <1>3, <1>6
    <2>2. r.st = st /\ r.chunks = <<>> /\ r.err = TRUE
      BY <2>1 DEF Result
    <2> QED BY <1>0, <1>1, <1>4, <1>6, <2>2 DEF AnthropicCases, r
  <1>7. CASE name = "message_start" /\ Decodes(ev)
    <2>1. r = Result([st EXCEPT !.u.prompt = p.prompt], <<Chunk("role", 0, 0)>>, FALSE)
      BY <1>3, <1>7
    <2>2. r.st = [st EXCEPT !.u.prompt = p.prompt] /\ r.chunks = <<Chunk("role", 0, 0)>> /\ r.err = FALSE
      BY <2>1 DEF Result
    <2> QED BY <1>0, <1>1, <1>7, <2>2 DEF AnthropicCases, p, r
  <1>8. CASE name = "message_delta" /\ Decodes(ev)
    <2>1. r = Result([st EXCEPT !.u.completion = p.completion], <<Chunk("finish", 0, 0)>>, FALSE)
      BY <1>3, <1>8
    <2>2. r.st = [st EXCEPT !.u.completion = p.completion]
          /\ r.chunks = <<Chunk("finish", 0, 0)>> /\ r.err = FALSE
      BY <2>1 DEF Result
    <2> QED BY <1>0, <1>1, <1>8, <2>2 DEF AnthropicCases, p, r
  <1>9. CASE name = "error" /\ Decodes(ev)
    <2>1. r = Result(st, <<Chunk("error", 0, 0)>>, TRUE)
      BY <1>3, <1>9
    <2>2. r.st = st /\ r.chunks = <<Chunk("error", 0, 0)>> /\ r.err = TRUE
      BY <2>1 DEF Result
    <2> QED BY <1>0, <1>1, <1>4, <1>9, <2>2 DEF AnthropicCases, r
  <1>10. CASE name = "block_start" /\ Decodes(ev)
    <2>1. CASE p.block = "tool"
      <3>1. r = Result([st EXCEPT !.ordinals = WithOrdinal(p.index), !.next = @ + 1],
                       <<Chunk("tool", st.next, p.index)>>, FALSE)
        BY <1>3, <1>10, <2>1
      <3>2. r.st = [st EXCEPT !.ordinals = WithOrdinal(p.index), !.next = @ + 1]
            /\ r.chunks = <<Chunk("tool", st.next, p.index)>> /\ r.err = FALSE
        BY <3>1 DEF Result
      <3> QED BY <1>0, <1>1, <1>4, <1>10, <2>1, <3>2 DEF AnthropicCases, p, r
    <2>2. CASE p.block # "tool"
      <3>1. r = Result(st, <<>>, FALSE)
        BY <1>3, <1>10, <2>2
      <3>2. r.st = st /\ r.chunks = <<>> /\ r.err = FALSE
        BY <3>1 DEF Result
      <3> QED BY <1>0, <1>1, <1>4, <1>10, <2>2, <3>2 DEF AnthropicCases, r
    <2> QED BY <2>1, <2>2
  <1>11. CASE name = "block_delta" /\ Decodes(ev)
    <2>1. CASE p.block = "tool"
      <3>1. r = Result(st, <<Chunk("args", Ordinal(p.index), p.index)>>, FALSE)
        BY <1>3, <1>11, <2>1
      <3>2. r.st = st /\ r.chunks = <<Chunk("args", Ordinal(p.index), p.index)>> /\ r.err = FALSE
        BY <3>1 DEF Result
      <3> QED BY <1>0, <1>1, <1>4, <1>11, <2>1, <3>2 DEF AnthropicCases, p, r
    <2>2. CASE p.block = "text"
      <3>1. r = Result(st, <<Chunk("text", 0, p.index)>>, FALSE)
        BY <1>3, <1>11, <2>2
      <3>2. r.st = st /\ r.chunks = <<Chunk("text", 0, p.index)>> /\ r.err = FALSE
        BY <3>1 DEF Result
      <3>3. p.index \in Nat
        BY <1>2, <1>11
      <3> QED BY <1>0, <1>1, <1>4, <1>11, <2>2, <3>2, <3>3 DEF AnthropicCases, r
    <2>3. CASE p.block = "none"
      <3>1. r = Result(st, <<>>, FALSE)
        BY <1>3, <1>11, <2>3
      <3>2. r.st = st /\ r.chunks = <<>> /\ r.err = FALSE
        BY <3>1 DEF Result
      <3> QED BY <1>0, <1>1, <1>4, <1>11, <2>3, <3>2 DEF AnthropicCases, r
    <2> QED BY <1>2, <1>11, <2>1, <2>2, <2>3
  <1> QED BY <1>5, <1>6, <1>7, <1>8, <1>9, <1>10, <1>11

\* The calls among the first parts of a response are counted.
LEMMA CallsAmongDef ==
  ASSUME NEW ps \in Seq({"text", "call"})
  PROVE  /\ \A n \in 0..Len(ps) : CallsAmong(ps, n) \in Nat
         /\ \A m, n \in 0..Len(ps) : m <= n => CallsAmong(ps, m) <= CallsAmong(ps, n)
         /\ \A n \in 1..Len(ps) : ps[n] = "call" => CallsAmong(ps, n) = CallsAmong(ps, n - 1) + 1
  <1> DEFINE C(n) == {j \in 1..n : ps[j] = "call"}
  <1>0. Len(ps) \in Nat /\ \A n : CallsAmong(ps, n) = Cardinality(C(n))
    BY DEF CallsAmong
  <1>1. \A n \in 0..Len(ps) : IsFiniteSet(C(n)) /\ Cardinality(C(n)) \in Nat
    <2> TAKE n \in 0..Len(ps)
    <2>1. n \in Int /\ 1 \in Int /\ C(n) \subseteq 1..n
      BY <1>0
    <2> HIDE DEF C
    <2>2. IsFiniteSet(1..n)
      BY <2>1, FS_Interval
    <2>3. IsFiniteSet(C(n))
      BY <2>1, <2>2, FS_Subset
    <2> QED BY <2>3, FS_CardinalityType
  <1>2. ASSUME NEW m \in 0..Len(ps), NEW n \in 0..Len(ps), m <= n
        PROVE  Cardinality(C(m)) <= Cardinality(C(n))
    <2>1. C(m) \subseteq C(n)
      BY <1>2, <1>0
    <2> HIDE DEF C
    <2> QED BY <1>1, <2>1, FS_Subset
  <1>3. ASSUME NEW n \in 1..Len(ps), ps[n] = "call"
        PROVE  Cardinality(C(n)) = Cardinality(C(n - 1)) + 1
    <2>1. n - 1 \in 0..Len(ps) /\ n \notin C(n - 1) /\ C(n) = C(n - 1) \cup {n}
      BY <1>3, <1>0
    <2> HIDE DEF C
    <2>2. IsFiniteSet(C(n - 1))
      BY <1>1, <2>1
    <2> QED BY <2>1, <2>2, FS_AddElement
  <1> HIDE DEF C
  <1> QED BY <1>0, <1>1, <1>2, <1>3

\* Chunks without tool calls.
NoTools(C) == \A i \in 1..Len(C) : C[i].type # "tool"

\* The tool calls among chunks are numbered from lo to less than hi, each once.
Tools(C, lo, hi) ==
    /\ \A i \in 1..Len(C) : C[i].type = "tool" => C[i].index >= lo /\ C[i].index < hi
    /\ \A i, j \in 1..Len(C) : C[i].type = "tool" /\ C[j].type = "tool" =>
          (C[i].index = C[j].index <=> i = j)

\* Chunks that the adapters write for events.
Plain(C) == \A i \in 1..Len(C) : C[i].type \notin {"done", "usage"}

\* The elements of a concatenation.
LEMMA ConcatElements ==
  ASSUME NEW X, NEW C \in Seq(X), NEW D \in Seq(X)
  PROVE  /\ C \o D \in Seq(X) /\ Len(C) \in Nat /\ Len(D) \in Nat
         /\ Len(C \o D) = Len(C) + Len(D)
         /\ \A i \in 1..Len(C) : i \in 1..Len(C \o D) /\ (C \o D)[i] = C[i] /\ C[i] \in X
         /\ \A i \in 1..Len(D) : i + Len(C) \in 1..Len(C \o D) /\ (C \o D)[i + Len(C)] = D[i]
         /\ \A i \in 1..Len(C \o D) : i \in 1..Len(C) \/ \E j \in 1..Len(D) : i = j + Len(C)
  <1>1. C \o D \in Seq(X) /\ Len(C \o D) = Len(C) + Len(D) /\ Len(C) \in Nat /\ Len(D) \in Nat
    OBVIOUS
  <1>2. \A i \in 1..Len(C) : i \in 1..Len(C \o D) /\ (C \o D)[i] = C[i] /\ C[i] \in X
    BY <1>1
  <1>3. \A i \in 1..Len(D) : i + Len(C) \in 1..Len(C \o D) /\ (C \o D)[i + Len(C)] = D[i]
    <2> TAKE i \in 1..Len(D)
    <2>1. i + Len(C) \in 1..(Len(C) + Len(D)) /\ (i + Len(C)) - Len(C) = i /\ ~(i + Len(C) <= Len(C))
      BY <1>1
    <2> QED BY <1>1, <2>1
  <1>4. ASSUME NEW i \in 1..Len(C \o D), i \notin 1..Len(C)
        PROVE  \E j \in 1..Len(D) : i = j + Len(C)
    <2>1. i - Len(C) \in 1..Len(D) /\ i = (i - Len(C)) + Len(C)
      BY <1>1, <1>4
    <2> QED BY <2>1
  <1> QED BY <1>1, <1>2, <1>3, <1>4

\* The first elements of a sequence.
LEMMA FirstElements ==
  ASSUME NEW X, NEW C \in Seq(X), NEW n \in 0..Len(C)
  PROVE  /\ SubSeq(C, 1, n) \in Seq(X) /\ Len(SubSeq(C, 1, n)) = n
         /\ \A i \in 1..n : SubSeq(C, 1, n)[i] = C[i] /\ i \in 1..Len(C)
         /\ n = Len(C) => SubSeq(C, 1, n) = C
  OBVIOUS

\* Tool calls numbered one after another.
LEMMA ToolsConcat ==
  ASSUME NEW C \in Seq(Chunks), NEW D \in Seq(Chunks), NEW lo \in Nat, NEW mid \in Nat, NEW hi \in Nat,
         lo <= mid, mid <= hi, Tools(C, lo, mid), Tools(D, mid, hi)
  PROVE  Tools(C \o D, lo, hi)
  <1> DEFINE E == C \o D
             c == Len(C)
  <1>1. /\ E \in Seq(Chunks) /\ Len(E) = c + Len(D) /\ c \in Nat /\ Len(D) \in Nat
        /\ \A i \in 1..c : i \in 1..Len(E) /\ E[i] = C[i] /\ C[i] \in Chunks
        /\ \A i \in 1..Len(D) : i + c \in 1..Len(E) /\ E[i + c] = D[i]
        /\ \A i \in 1..Len(E) : i \in 1..c \/ \E j \in 1..Len(D) : i = j + c
    BY ConcatElements
  <1>2. (\A i \in 1..c : C[i].index \in Nat) /\ (\A i \in 1..Len(D) : D[i].index \in Nat)
    <2>1. (\A i \in 1..Len(C) : C[i] \in Chunks) /\ (\A i \in 1..Len(D) : D[i] \in Chunks)
      OBVIOUS
    <2>2. \A x \in Chunks : x.index \in Nat
      BY DEF Chunks
    <2> QED BY <2>1, <2>2
  <1> HIDE DEF E, c
  <1>t. /\ \A i \in 1..c : C[i].type = "tool" => C[i].index >= lo /\ C[i].index < mid
        /\ \A i \in 1..Len(D) : D[i].type = "tool" => D[i].index >= mid /\ D[i].index < hi
    BY DEF Tools, c
  <1>3. ASSUME NEW i \in 1..Len(E), E[i].type = "tool"
        PROVE  /\ E[i].index \in Nat /\ E[i].index >= lo /\ E[i].index < hi
               /\ i \in 1..c <=> E[i].index < mid
    <2>1. CASE i \in 1..c
      <3>1. E[i] = C[i] /\ C[i].index \in Nat
        BY <1>1, <1>2, <2>1
      <3>2. C[i].index >= lo /\ C[i].index < mid
        BY <1>3, <1>t, <2>1, <3>1
      <3>3. E[i].index \in Nat /\ E[i].index >= lo /\ E[i].index < mid
        BY <3>1, <3>2
      <3> QED BY <2>1, <3>3
    <2>2. CASE i \notin 1..c
      <3>1. PICK j \in 1..Len(D) : i = j + c
        BY <1>1, <2>2
      <3>2. E[i] = D[j] /\ D[j].index \in Nat
        BY <1>1, <1>2, <3>1
      <3>3. D[j].index >= mid /\ D[j].index < hi
        BY <1>3, <1>t, <3>2
      <3>4. E[i].index \in Nat /\ E[i].index >= mid /\ E[i].index < hi
        BY <3>2, <3>3
      <3> QED BY <2>2, <3>4
    <2> QED BY <2>1, <2>2
  <1>4. ASSUME NEW i \in 1..Len(E), NEW k \in 1..Len(E), E[i].type = "tool", E[k].type = "tool",
               E[i].index = E[k].index
        PROVE  i = k
    <2>1. i \in 1..c <=> k \in 1..c
      BY <1>3, <1>4
    <2>2. CASE i \in 1..c
      <3>1. k \in 1..c
        BY <2>1, <2>2
      <3>2. E[i] = C[i] /\ E[k] = C[k]
        BY <1>1, <2>2, <3>1
      <3> QED BY <1>4, <2>2, <3>1, <3>2 DEF Tools, c
    <2>3. CASE i \notin 1..c
      <3>1. PICK j \in 1..Len(D) : i = j + c
        BY <1>1, <2>3
      <3>2. PICK l \in 1..Len(D) : k = l + c
        BY <1>1, <2>1, <2>3
      <3>3. D[j].type = "tool" /\ D[l].type = "tool" /\ D[j].index = D[l].index
        BY <1>1, <1>4, <3>1, <3>2
      <3>4. j = l
        BY <3>3 DEF Tools
      <3> QED BY <3>1, <3>2, <3>4
    <2> QED BY <2>2, <2>3
  <1>5. Tools(E, lo, hi)
    BY <1>3, <1>4 DEF Tools
  <1> QED BY <1>5 DEF E

\* Chunks without tool calls use no number.
LEMMA ToolsNone ==
  ASSUME NEW C \in Seq(Chunks), NoTools(C), NEW lo \in Nat, NEW hi \in Nat
  PROVE  Tools(C, lo, hi)
  BY DEF NoTools, Tools

\* The first chunks use no other numbers.
LEMMA ToolsFirst ==
  ASSUME NEW C \in Seq(Chunks), NEW lo \in Nat, NEW hi \in Nat, Tools(C, lo, hi), NEW n \in 0..Len(C)
  PROVE  Tools(SubSeq(C, 1, n), lo, hi)
  <1> DEFINE D == SubSeq(C, 1, n)
  <1>1. Len(D) = n /\ \A i \in 1..n : D[i] = C[i] /\ i \in 1..Len(C)
    BY FirstElements
  <1> HIDE DEF D
  <1>2. Tools(D, lo, hi)
    BY <1>1 DEF Tools
  <1> QED BY <1>2 DEF D
\* A chunk is one.
LEMMA ChunkType ==
  ASSUME NEW t \in Types, NEW i \in Nat, NEW f \in Nat
  PROVE  /\ Chunk(t, i, f) \in Chunks /\ Chunk(t, i, f).type = t
         /\ Chunk(t, i, f).index = i /\ Chunk(t, i, f).from = f
  <1>1. <<>> \in Seq(Txt)
    OBVIOUS
  <1> QED BY <1>1 DEF Chunk, Chunks

\* A chunk with data is one.
LEMMA RawType ==
  ASSUME NEW t \in Types, NEW d \in Seq(Txt)
  PROVE  Raw(t, d) \in Chunks /\ Raw(t, d).type = t /\ Raw(t, d).data = d
  BY DEF Raw, Chunks

\* Chunks that no adapter's state depends on.
Lone == {"role", "text", "finish", "finish_calls"}

\* What TranslateGemini does.
GeminiCase(ev, r) ==
    /\ r.err = FALSE /\ r.chunks \in Seq(Chunks)
    /\ \A i \in 1..Len(r.chunks) : r.chunks[i].type \in Lone \cup {"tool"}
    /\ r.st \in States
    /\ r.st.u = IF Decoded(ev).usage THEN Decoded(ev).u ELSE st.u
    /\ r.st.next >= st.next /\ Tools(r.chunks, st.next, r.st.next)

\* A Gemini event.
LEMMA GeminiEffect ==
  ASSUME st \in States, NEW ev \in Evs, Decodes(ev)
  PROVE  GeminiCase(ev, TranslateGemini(ev))
  <1> DEFINE p == Decoded(ev)
             n == Len(p.parts)
             calls == CallsAmong(p.parts, n)
             called == st.called \/ calls > 0
             role == IF st.started THEN <<>> ELSE <<Chunk("role", 0, 0)>>
             part(k) == IF p.parts[k] = "call"
                          THEN LET i == st.next + CallsAmong(p.parts, k - 1) IN Chunk("tool", i, i)
                          ELSE Chunk("text", 0, 0)
             parts == [k \in 1..n |-> part(k)]
             finish == IF p.finish = "none" THEN <<>> ELSE <<Chunk(FinishReason(called, p.finish), 0, 0)>>
             state == [st EXCEPT !.u = IF p.usage THEN p.u ELSE @, !.started = TRUE,
                                 !.called = called, !.next = @ + calls]
             r == TranslateGemini(ev)
  <1>1. r = Result(state, role \o parts \o finish, FALSE)
    BY DEF TranslateGemini
  <1>2. p \in Payloads
    BY DecodedType
  <1>3. p.parts \in Seq({"text", "call"}) /\ p.u \in Usages /\ n \in Nat
    BY <1>2 DEF Payloads
  <1>4. st.next \in Nat /\ st.u \in Usages /\ st.called \in BOOLEAN /\ st.started \in BOOLEAN
    BY DEF States
  <1> HIDE DEF p
  <1>5. calls \in Nat /\ n \in 0..n /\ \A k \in 1..n : k - 1 \in 0..n /\ CallsAmong(p.parts, k - 1) \in Nat
    <2>1. n \in 0..n /\ \A k \in 1..n : k - 1 \in 0..n
      BY <1>3
    <2> QED BY <1>3, <2>1, CallsAmongDef
  <1>b. TRUE \in BOOLEAN
    BY Zenon
  <1>c. called \in BOOLEAN
    OBVIOUS
  <1>6. /\ state \in States /\ state.u = (IF p.usage THEN p.u ELSE st.u)
        /\ state.next = st.next + calls
    <2> DEFINE u == IF p.usage THEN p.u ELSE st.u
               x == st.next + calls
    <2>1. u \in Usages /\ x \in Nat
      BY <1>3, <1>4, <1>5
    <2>2. state = [st EXCEPT !.u = u, !.started = TRUE, !.called = called, !.next = x]
      OBVIOUS
    <2> HIDE DEF called, calls, u, x, state
    <2>3. state = [u |-> u, ordinals |-> st.ordinals, next |-> x, started |-> TRUE, called |-> called]
      BY <2>2 DEF States
    <2>4. st.ordinals \in Ords
      BY DEF States
    <2>5. state \in States /\ state.u = u /\ state.next = x
      BY <1>b, <1>c, <2>1, <2>3, <2>4 DEF States
    <2> QED BY <2>5 DEF u, x
  <1>7. "role" \in Types /\ "tool" \in Types /\ "text" \in Types /\ "finish" \in Types
        /\ "finish_calls" \in Types
    BY DEF Types
  <1>8. /\ role \in Seq(Chunks) /\ \A i \in 1..Len(role) : role[i].type \in Lone
    <2>1. Chunk("role", 0, 0) \in Chunks /\ Chunk("role", 0, 0).type = "role"
      BY <1>7, ChunkType
    <2>2. "role" \in Lone
      BY DEF Lone
    <2> QED BY <2>1, <2>2
  <1>9. /\ finish \in Seq(Chunks) /\ \A i \in 1..Len(finish) : finish[i].type \in Lone
    <2> DEFINE t == FinishReason(called, p.finish)
    <2>1. t \in Types /\ t \in Lone
      BY <1>7 DEF FinishReason, Lone
    <2> HIDE DEF t
    <2>2. Chunk(t, 0, 0) \in Chunks /\ Chunk(t, 0, 0).type = t
      BY <2>1, ChunkType
    <2>3. finish = IF p.finish = "none" THEN <<>> ELSE <<Chunk(t, 0, 0)>>
      BY DEF t
    <2> QED BY <2>1, <2>2, <2>3
  <1>10. \A k \in 1..n : part(k) \in Chunks /\ part(k).type \in {"tool", "text"}
           /\ (part(k).type = "tool" => p.parts[k] = "call"
                 /\ part(k).index = st.next + CallsAmong(p.parts, k - 1))
    <2> TAKE k \in 1..n
    <2> DEFINE i == st.next + CallsAmong(p.parts, k - 1)
    <2>1. i \in Nat
      BY <1>4, <1>5
    <2> HIDE DEF i
    <2>2. CASE p.parts[k] = "call"
      <3>1. part(k) = Chunk("tool", i, i)
        BY <2>2 DEF i
      <3> QED BY <1>7, <2>1, <2>2, <3>1, ChunkType DEF i
    <2>3. CASE p.parts[k] # "call"
      <3>1. part(k) = Chunk("text", 0, 0)
        BY <2>3
      <3>2. Chunk("text", 0, 0) \in Chunks /\ Chunk("text", 0, 0).type = "text"
        BY <1>7, ChunkType
      <3> QED BY <3>1, <3>2
    <2> QED BY <2>2, <2>3
  <1> HIDE DEF part
  <1>11. parts \in Seq(Chunks) /\ Len(parts) = n /\ \A k \in 1..n : parts[k] = part(k)
    BY <1>3, <1>10
  <1> HIDE DEF n, calls, called, role, parts, finish, state
  <1>12. Tools(parts, st.next, state.next)
    <2>1. \A k \in 1..n : p.parts[k] = "call" =>
            CallsAmong(p.parts, k) = CallsAmong(p.parts, k - 1) + 1 /\ CallsAmong(p.parts, k) <= calls
            /\ CallsAmong(p.parts, k) \in Nat
      <3> TAKE k \in 1..n
      <3>1. k \in 0..n /\ k \in 1..Len(p.parts) /\ k <= n /\ n = Len(p.parts)
        BY <1>3 DEF n
      <3> QED BY <1>3, <1>5, <3>1, CallsAmongDef DEF calls
    <2>2. \A k \in 1..n : parts[k].type = "tool" => parts[k].index >= st.next /\ parts[k].index < state.next
      <3> TAKE k \in 1..n
      <3> HAVE parts[k].type = "tool"
      <3>1. p.parts[k] = "call" /\ parts[k].index = st.next + CallsAmong(p.parts, k - 1)
        BY <1>10, <1>11
      <3>2. CallsAmong(p.parts, k - 1) \in Nat /\ CallsAmong(p.parts, k - 1) < calls
        BY <1>5, <2>1, <3>1
      <3> QED BY <1>4, <1>5, <1>6, <3>1, <3>2
    <2>3. ASSUME NEW j \in 1..n, NEW k \in 1..n, j < k, parts[j].type = "tool", parts[k].type = "tool"
          PROVE  parts[j].index # parts[k].index
      <3>1. p.parts[j] = "call" /\ parts[j].index = st.next + CallsAmong(p.parts, j - 1)
            /\ p.parts[k] = "call" /\ parts[k].index = st.next + CallsAmong(p.parts, k - 1)
        BY <1>10, <1>11, <2>3
      <3>2. CallsAmong(p.parts, j) = CallsAmong(p.parts, j - 1) + 1
            /\ CallsAmong(p.parts, j - 1) \in Nat /\ CallsAmong(p.parts, k - 1) \in Nat
        BY <1>5, <2>1, <3>1
      <3>3. j \in 0..n /\ k - 1 \in 0..n /\ j <= k - 1 /\ n = Len(p.parts)
        BY <1>3, <2>3 DEF n
      <3>4. CallsAmong(p.parts, j) <= CallsAmong(p.parts, k - 1)
        BY <1>3, <3>3, CallsAmongDef
      <3> QED BY <1>4, <3>1, <3>2, <3>4
    <2>4. ASSUME NEW j \in 1..n, NEW k \in 1..n, parts[j].type = "tool", parts[k].type = "tool",
                 parts[j].index = parts[k].index
          PROVE  j = k
      <3>1. ~(j < k) /\ ~(k < j)
        BY <2>3, <2>4
      <3> QED BY <1>3, <3>1
    <2> QED BY <1>11, <2>2, <2>4 DEF Tools
  <1>13. st.next <= state.next /\ state.next \in Nat
    BY <1>4, <1>5, <1>6
  <1>14. NoTools(role) /\ NoTools(finish)
    <2>1. "tool" \notin Lone
      BY DEF Lone
    <2> QED BY <1>8, <1>9, <2>1 DEF NoTools
  <1>15. role \o parts \in Seq(Chunks) /\ (role \o parts) \o finish \in Seq(Chunks)
    BY <1>8, <1>9, <1>11
  <1>16. Tools((role \o parts) \o finish, st.next, state.next)
    <2>1. Tools(role, st.next, st.next) /\ Tools(finish, state.next, state.next)
      BY <1>4, <1>8, <1>9, <1>13, <1>14, ToolsNone
    <2>2. Tools(role \o parts, st.next, state.next)
      BY <1>4, <1>8, <1>11, <1>12, <1>13, <2>1, ToolsConcat
    <2> DEFINE rp == role \o parts
               x == state.next
    <2>3. rp \in Seq(Chunks) /\ x \in Nat /\ st.next <= x /\ x <= x
          /\ Tools(rp, st.next, x) /\ Tools(finish, x, x)
      BY <1>13, <1>15, <2>1, <2>2
    <2> HIDE DEF rp, x
    <2>4. Tools(rp \o finish, st.next, x)
      BY <1>4, <1>9, <2>3, ToolsConcat
    <2> QED BY <2>4 DEF rp, x
  <1>17. \A i \in 1..Len((role \o parts) \o finish) : ((role \o parts) \o finish)[i].type \in Lone \cup {"tool"}
    <2> DEFINE rp == role \o parts
               OK(C) == \A i \in 1..Len(C) : C[i].type \in Lone \cup {"tool"}
    <2>1. ASSUME NEW C \in Seq(Chunks), NEW D \in Seq(Chunks), OK(C), OK(D) PROVE OK(C \o D)
      <3> DEFINE G == C \o D
      <3>0. OK(C) /\ OK(D)
        BY <2>1
      <3>1. \A i \in 1..Len(G) : i \in 1..Len(C) \/ \E j \in 1..Len(D) : i = j + Len(C)
        BY ConcatElements
      <3>2. \A i \in 1..Len(C) : G[i] = C[i]
        BY ConcatElements
      <3>3. \A j \in 1..Len(D) : G[j + Len(C)] = D[j]
        BY ConcatElements
      <3> HIDE DEF G
      <3>4. OK(G)
        BY <3>0, <3>1, <3>2, <3>3
      <3> QED BY <3>4 DEF G
    <2>2. OK(role) /\ OK(finish)
      BY <1>8, <1>9
    <2>3. OK(parts)
      <3>1. "text" \in Lone
        BY DEF Lone
      <3> QED BY <1>10, <1>11, <3>1
    <2> HIDE DEF OK
    <2>4. OK(rp)
      BY <1>8, <1>11, <2>1, <2>2, <2>3
    <2>5. OK(rp \o finish)
      BY <1>9, <1>15, <2>1, <2>2, <2>4
    <2> QED BY <2>5 DEF OK
  <1> DEFINE cs == (role \o parts) \o finish
  <1> HIDE DEF cs, r
  <1>18. r.st = state /\ r.chunks = cs /\ r.err = FALSE
    BY <1>1 DEF Result, cs
  <1>19. GeminiCase(ev, r)
    BY <1>6, <1>13, <1>15, <1>16, <1>17, <1>18 DEF GeminiCase, cs, p
  <1> QED BY <1>19 DEF r
WithUsage(x) == [st EXCEPT !.u = x]
WithPrompt(x) == [st EXCEPT !.u.prompt = x]
WithCompletion(x) == [st EXCEPT !.u.completion = x]
WithTool(x) == [st EXCEPT !.ordinals = x, !.next = @ + 1]

\* What the adapters change of their state.
LEMMA StateWith ==
  ASSUME st \in States
  PROVE  /\ \A x \in Usages : /\ WithUsage(x) \in States /\ WithUsage(x).u = x
                              /\ WithUsage(x).next = st.next /\ WithUsage(x).ordinals = st.ordinals
         /\ \A x \in Nat : /\ WithPrompt(x) \in States
                           /\ WithPrompt(x).u.prompt = x /\ WithPrompt(x).u.completion = st.u.completion
                           /\ WithPrompt(x).next = st.next /\ WithPrompt(x).ordinals = st.ordinals
         /\ \A x \in Nat : /\ WithCompletion(x) \in States
                           /\ WithCompletion(x).u.completion = x
                           /\ WithCompletion(x).u.prompt = st.u.prompt
                           /\ WithCompletion(x).next = st.next /\ WithCompletion(x).ordinals = st.ordinals
         /\ \A x \in Ords : /\ WithTool(x) \in States /\ WithTool(x).u = st.u
                            /\ WithTool(x).next = st.next + 1 /\ WithTool(x).ordinals = x
  <1>1. \A x \in Usages : /\ WithUsage(x) \in States /\ WithUsage(x).u = x
                          /\ WithUsage(x).next = st.next /\ WithUsage(x).ordinals = st.ordinals
    BY DEF States, WithUsage
  <1>2. \A x \in Nat : /\ WithPrompt(x) \in States
                       /\ WithPrompt(x).u.prompt = x /\ WithPrompt(x).u.completion = st.u.completion
                       /\ WithPrompt(x).next = st.next /\ WithPrompt(x).ordinals = st.ordinals
    BY DEF States, Usages, WithPrompt
  <1>3. \A x \in Nat : /\ WithCompletion(x) \in States
                       /\ WithCompletion(x).u.completion = x
                       /\ WithCompletion(x).u.prompt = st.u.prompt
                       /\ WithCompletion(x).next = st.next /\ WithCompletion(x).ordinals = st.ordinals
    BY DEF States, Usages, WithCompletion
  <1>4. ASSUME NEW x \in Ords
        PROVE  /\ WithTool(x) \in States /\ WithTool(x).u = st.u
               /\ WithTool(x).next = st.next + 1 /\ WithTool(x).ordinals = x
    <2> DEFINE n == st.next + 1
    <2>1. n \in Nat
      BY DEF States
    <2>2. WithTool(x) = [st EXCEPT !.ordinals = x, !.next = n]
      BY DEF WithTool
    <2> HIDE DEF n
    <2>3. WithTool(x) = [u |-> st.u, ordinals |-> x, next |-> n, started |-> st.started, called |-> st.called]
      BY <2>2 DEF States
    <2>4. st.u \in Usages /\ st.started \in BOOLEAN /\ st.called \in BOOLEAN
      BY DEF States
    <2>5. WithTool(x) \in States /\ WithTool(x).u = st.u /\ WithTool(x).next = n /\ WithTool(x).ordinals = x
      BY <2>1, <2>3, <2>4 DEF States
    <2> QED BY <2>5 DEF n
  <1> QED BY <1>1, <1>2, <1>3, <1>4

\* One chunk and the number it uses.
LEMMA OneChunk ==
  ASSUME NEW c \in Chunks, NEW lo \in Nat, NEW hi \in Nat,
         c.type = "tool" => c.index = lo /\ hi = lo + 1
  PROVE  /\ <<c>> \in Seq(Chunks) /\ Len(<<c>>) = 1 /\ <<c>>[1] = c
         /\ Tools(<<c>>, lo, hi)
  <1> DEFINE C == <<c>>
  <1>1. C \in Seq(Chunks) /\ Len(C) = 1 /\ C[1] = c
    BY Singleton
  <1>2. c.index \in Nat
    BY DEF Chunks
  <1> HIDE DEF C
  <1>3. \A i \in 1..Len(C) : i = 1
    BY <1>1
  <1>4. Tools(C, lo, hi)
    BY <1>1, <1>2, <1>3 DEF Tools
  <1> QED BY <1>1, <1>4 DEF C

\* What an event does to an adapter, whatever its type.
Handles(r) ==
    /\ r.st \in States /\ r.chunks \in Seq(Chunks) /\ r.err \in BOOLEAN
    /\ r.st.next >= st.next /\ Tools(r.chunks, st.next, r.st.next)
    /\ kind # "openai" => \A i \in 1..Len(r.chunks) :
          r.chunks[i].type \notin {"done", "usage"} /\ (r.chunks[i].type = "error" => r.err)
    /\ kind # "anthropic" => \A i \in 1..Len(r.chunks) : r.chunks[i].type # "args"

\* An event that one chunk answers.
LEMMA HandlesOne ==
  ASSUME NEW r, NEW c \in Chunks, st \in States, r.st \in States, r.err \in BOOLEAN, r.chunks = <<c>>,
         IF c.type = "tool" THEN c.index = st.next /\ r.st.next = st.next + 1 ELSE r.st.next = st.next,
         kind # "openai" => c.type \notin {"done", "usage"} /\ (c.type = "error" => r.err),
         kind # "anthropic" => c.type # "args"
  PROVE  Handles(r)
  <1>1. st.next \in Nat /\ r.st.next \in Nat
    BY DEF States
  <1>2. c.type = "tool" => c.index = st.next /\ r.st.next = st.next + 1
    OBVIOUS
  <1>3. <<c>> \in Seq(Chunks) /\ Len(<<c>>) = 1 /\ <<c>>[1] = c /\ Tools(<<c>>, st.next, r.st.next)
    BY <1>1, <1>2, OneChunk
  <1>4. r.chunks \in Seq(Chunks) /\ Len(r.chunks) = 1 /\ r.chunks[1] = c
        /\ Tools(r.chunks, st.next, r.st.next)
    BY <1>3
  <1>5. \A i \in 1..Len(r.chunks) : r.chunks[i] = c
    BY <1>4
  <1>6. r.st.next >= st.next
    BY <1>1
  <1> QED BY <1>4, <1>5, <1>6 DEF Handles

\* An event that nothing answers.
LEMMA HandlesNone ==
  ASSUME NEW r, st \in States, r.st \in States, r.err \in BOOLEAN, r.chunks = <<>>, r.st.next = st.next
  PROVE  Handles(r)
  <1>1. st.next \in Nat
    BY DEF States
  <1>2. r.chunks \in Seq(Chunks) /\ Len(r.chunks) = 0
    OBVIOUS
  <1>3. Tools(r.chunks, st.next, r.st.next)
    BY <1>2 DEF Tools
  <1> QED BY <1>1, <1>2, <1>3 DEF Handles

\* What an event does to an adapter.
LEMMA HandleEffect ==
  ASSUME st \in States, kind \in Kinds, NEW ev \in Evs
  PROVE  Handles(Handle(ev))
  <1> DEFINE p == Decoded(ev)
             r == Handle(ev)
  <1>0. FALSE \in BOOLEAN /\ TRUE \in BOOLEAN
    BY Zenon
  <1>1. ev.data \in Seq(Txt)
    BY DEF Evs
  <1>2. Decodes(ev) => p.u \in Usages /\ p.prompt \in Nat /\ p.completion \in Nat /\ p.index \in Nat
    BY DecodedType DEF Payloads
  <1> HIDE DEF p
  <1>3. CASE kind = "openai"
    <2>1. r = ForwardOpenAI(ev)
      BY <1>3 DEF Handle
    <2> HIDE DEF r
    <2>2. /\ r.st = IF Decodes(ev) /\ p.usage THEN [st EXCEPT !.u = p.u] ELSE st
          /\ r.err = FALSE
          /\ r.chunks = <<>> \/ \E t \in {"raw", "done"} : r.chunks = <<Raw(t, ev.data)>>
      BY <2>1, OpenAIEffect DEF p
    <2>3. r.st \in States /\ r.st.next = st.next
      <3>1. r.st = IF Decodes(ev) /\ p.usage THEN WithUsage(p.u) ELSE st
        BY <2>2 DEF WithUsage
      <3> QED BY <1>2, <3>1, StateWith
    <2>4. CASE r.chunks = <<>>
      <3>1. Handles(r)
        BY <1>0, <2>2, <2>3, <2>4, HandlesNone
      <3> QED BY <3>1 DEF r
    <2>5. CASE r.chunks # <<>>
      <3>1. PICK t \in {"raw", "done"} : r.chunks = <<Raw(t, ev.data)>>
        BY <2>2, <2>5
      <3>2. t \in Types /\ t # "tool" /\ t # "args"
        BY DEF Types
      <3>3. Raw(t, ev.data) \in Chunks /\ Raw(t, ev.data).type # "tool" /\ Raw(t, ev.data).type # "args"
        BY <1>1, <3>2, RawType
      <3>4. Handles(r)
        BY <1>0, <1>3, <2>2, <2>3, <3>1, <3>3, HandlesOne
      <3> QED BY <3>4 DEF r
    <2> QED BY <2>4, <2>5
  <1>4. CASE kind = "anthropic"
    <2>1. r = TranslateAnthropic(ev)
      BY <1>4 DEF Handle
    <2> HIDE DEF r
    <2>2. AnthropicCases(ev, r) /\ r.err \in BOOLEAN
      BY <2>1, AnthropicEffect
    <2>t. "role" \in Types /\ "tool" \in Types /\ "text" \in Types /\ "finish" \in Types
          /\ "args" \in Types /\ "error" \in Types
      BY DEF Types
    <2>3. CASE r.st = st /\ r.chunks = <<>>
      <3>1. Handles(r)
        BY <2>2, <2>3, HandlesNone
      <3> QED BY <3>1 DEF r
    <2>4. ASSUME NEW i \in Nat, r.st = st, r.chunks = <<Chunk("text", 0, i)>> PROVE Handles(Handle(ev))
      <3>1. Chunk("text", 0, i) \in Chunks /\ Chunk("text", 0, i).type = "text"
        BY <2>t, ChunkType
      <3>2. Handles(r)
        BY <2>2, <2>4, <3>1, HandlesOne
      <3> QED BY <3>2 DEF r
    <2>5. CASE r.st = st /\ r.chunks = <<Chunk("error", 0, 0)>> /\ r.err
      <3>1. Chunk("error", 0, 0) \in Chunks /\ Chunk("error", 0, 0).type = "error"
        BY <2>t, ChunkType
      <3>2. Handles(r)
        BY <2>2, <2>5, <3>1, HandlesOne
      <3> QED BY <3>2 DEF r
    <2>6. CASE Named(ev, "message_start") /\ r.st = [st EXCEPT !.u.prompt = p.prompt]
               /\ r.chunks = <<Chunk("role", 0, 0)>>
      <3>1. Chunk("role", 0, 0) \in Chunks /\ Chunk("role", 0, 0).type = "role"
        BY <2>t, ChunkType
      <3>2. r.st \in States /\ r.st.next = st.next
        <4>1. r.st = WithPrompt(p.prompt) /\ p.prompt \in Nat
          BY <1>2, <2>6 DEF Named, WithPrompt
        <4> QED BY <4>1, StateWith
      <3>3. Handles(r)
        BY <2>2, <2>6, <3>1, <3>2, HandlesOne
      <3> QED BY <3>3 DEF r
    <2>7. CASE Named(ev, "message_delta") /\ r.st = [st EXCEPT !.u.completion = p.completion]
               /\ r.chunks = <<Chunk("finish", 0, 0)>>
      <3>1. Chunk("finish", 0, 0) \in Chunks /\ Chunk("finish", 0, 0).type = "finish"
        BY <2>t, ChunkType
      <3>2. r.st \in States /\ r.st.next = st.next
        <4>1. r.st = WithCompletion(p.completion) /\ p.completion \in Nat
          BY <1>2, <2>7 DEF Named, WithCompletion
        <4> QED BY <4>1, StateWith
      <3>3. Handles(r)
        BY <2>2, <2>7, <3>1, <3>2, HandlesOne
      <3> QED BY <3>3 DEF r
    <2>8. CASE OnTool(ev, "block_start") /\ r.chunks = <<Chunk("tool", st.next, p.index)>>
               /\ r.st = [st EXCEPT !.ordinals = WithOrdinal(p.index), !.next = @ + 1]
      <3>1. p.index \in Nat /\ st.next \in Nat
        BY <1>2, <2>8 DEF OnTool, Named, States
      <3>2. Chunk("tool", st.next, p.index) \in Chunks /\ Chunk("tool", st.next, p.index).type = "tool"
            /\ Chunk("tool", st.next, p.index).index = st.next
        BY <2>t, <3>1, ChunkType
      <3>3. WithOrdinal(p.index) \in Ords
        BY <3>1, WithOrdinalType
      <3>4. r.st \in States /\ r.st.next = st.next + 1
        <4>1. r.st = WithTool(WithOrdinal(p.index))
          BY <2>8 DEF WithTool
        <4> QED BY <3>3, <4>1, StateWith
      <3>5. Handles(r)
        BY <2>2, <2>8, <3>2, <3>4, HandlesOne
      <3> QED BY <3>5 DEF r
    <2>9. CASE OnTool(ev, "block_delta") /\ r.st = st
               /\ r.chunks = <<Chunk("args", Ordinal(p.index), p.index)>>
      <3>1. p.index \in Nat
        BY <1>2, <2>9 DEF OnTool, Named
      <3>2. Ordinal(p.index) \in Nat
        BY <3>1, WithOrdinalType DEF Ordinal
      <3>3. Chunk("args", Ordinal(p.index), p.index) \in Chunks
            /\ Chunk("args", Ordinal(p.index), p.index).type = "args"
        BY <2>t, <3>1, <3>2, ChunkType
      <3>4. Handles(r)
        BY <1>4, <2>2, <2>9, <3>3, HandlesOne
      <3> QED BY <3>4 DEF r
    <2> QED BY <2>2, <2>3, <2>4, <2>5, <2>6, <2>7, <2>8, <2>9 DEF AnthropicCases, p
  <1>5. CASE kind = "gemini"
    <2>1. r = TranslateGemini(ev)
      BY <1>5 DEF Handle
    <2> HIDE DEF r
    <2>2. CASE Decodes(ev)
      <3>1. GeminiCase(ev, r)
        BY <2>1, <2>2, GeminiEffect
      <3>2. \A t \in Lone \cup {"tool"} : t \notin {"done", "usage"} /\ t # "error" /\ t # "args"
        BY DEF Lone
      <3>3. Handles(r)
        BY <1>0, <3>1, <3>2 DEF GeminiCase, Handles
      <3> QED BY <3>3 DEF r
    <2>3. CASE ~Decodes(ev)
      <3>1. r = Result(st, <<>>, TRUE)
        BY <2>1, <2>3 DEF TranslateGemini
      <3>2. r.st = st /\ r.chunks = <<>> /\ r.err = TRUE
        BY <3>1 DEF Result
      <3>3. Handles(r)
        BY <1>0, <3>2, HandlesNone
      <3> QED BY <3>3 DEF r
    <2> QED BY <2>2, <2>3
  <1> QED BY <1>3, <1>4, <1>5 DEF Kinds

-----------------------------------------------------------------------------
(* What a step does to the adapter and to the client's stream.             *)

RelayOK == st \in States /\ out \in Seq(Chunks)

\* Nothing is handed over or written.
Silent ==
    /\ UNCHANGED <<delivered, st, out>>
    /\ (status' = status /\ why' = why) \/ (status = "open" /\ status' = "failed" /\ why' # "write")

\* What handing over the pending event, or nothing, yields.
Handed(r) ==
    \/ Fires /\ delivered' = Append(delivered, Pending) /\ r = Handle(Pending)
    \/ delivered' = delivered /\ r = Result(st, <<>>, FALSE)

\* The one chunk of the result is a [DONE], whose write may fail unnoticed.
Lost(r) == kind = "openai" /\ \E c : r.chunks = <<c>> /\ c.type = "done"

\* The result is written: all of it, but maybe a [DONE], while the stream stays
\* open, some of it and of the usage chunk when it fails, and the closing chunks
\* too when it ends.
Answers(r) ==
    /\ status = "open" /\ Handed(r) /\ st' = r.st
    /\ \/ /\ status' = "open" /\ why' = why /\ r.err = FALSE
          /\ out' = out \o r.chunks \/ (Lost(r) /\ out' = out)
       \/ /\ status' = "failed" /\ (r.err = FALSE => why' = "write")
          /\ \E T \in {<<>>, UsageChunk} : \E n \in 0..Len(r.chunks \o T) :
                out' = out \o SubSeq(r.chunks \o T, 1, n)
       \/ /\ status' = "ended" /\ why' = why /\ EndOnEOF /\ r.err = FALSE
          /\ \/ Lost(r) /\ out' = out
             \/ out' = out \o (r.chunks \o UsageChunk)
             \/ out' = (out \o (r.chunks \o UsageChunk)) \o DoneChunk

\* The result that is handed over has the right types.
LEMMA HandedType ==
  ASSUME RInv, RelayOK, NEW r, Handed(r)
  PROVE  Handles(r)
  <1>1. kind \in Kinds /\ Pending \in Evs
    BY WireType, PendingType DEF RInv
  <1>2. CASE r = Handle(Pending)
    BY <1>1, <1>2, HandleEffect DEF RelayOK
  <1>3. CASE r = Result(st, <<>>, FALSE)
    <2>1. FALSE \in BOOLEAN
      BY Zenon
    <2>2. r.st = st /\ r.chunks = <<>> /\ r.err = FALSE
      BY <1>3 DEF Result
    <2> QED BY <2>1, <2>2, HandlesNone DEF RelayOK
  <1> QED BY <1>2, <1>3 DEF Handed

\* A sequence of some chunks is one of chunks.
LEMMA SeqSubset ==
  ASSUME NEW S, NEW T, S \subseteq T, NEW s \in Seq(S)
  PROVE  s \in Seq(T)
  OBVIOUS

\* The closing chunks are chunks.
LEMMA ClosingType ==
  /\ UsageChunk \in Seq({c \in Chunks : c.type = "usage"})
  /\ DoneChunk \in Seq({c \in Chunks : c.type = "done"})
  /\ UsageChunk = (IF kind # "openai" /\ asked THEN <<Raw("usage", <<>>)>> ELSE <<>>)
  <1>1. "usage" \in Types /\ "done" \in Types /\ <<>> \in Seq(Txt)
    BY DEF Types
  <1>2. Raw("usage", <<>>) \in Chunks /\ Raw("usage", <<>>).type = "usage"
        /\ Raw("done", <<>>) \in Chunks /\ Raw("done", <<>>).type = "done"
    BY <1>1, RawType
  <1> DEFINE U == {c \in Chunks : c.type = "usage"}
             D == {c \in Chunks : c.type = "done"}
  <1>3. Raw("usage", <<>>) \in U /\ Raw("done", <<>>) \in D
    BY <1>2
  <1> HIDE DEF U, D
  <1>4. <<Raw("usage", <<>>)>> \in Seq(U) /\ <<Raw("done", <<>>)>> \in Seq(D)
        /\ <<>> \in Seq(U) /\ <<>> \in Seq(D)
    BY <1>3, Singleton
  <1>5. UsageChunk \in Seq(U) /\ DoneChunk \in Seq(D)
    BY <1>4 DEF UsageChunk, DoneChunk
  <1> QED BY <1>5 DEF UsageChunk, U, D

\* The first of two sequences in one.
LEMMA FirstOfConcat ==
  ASSUME NEW X, NEW C \in Seq(X), NEW D \in Seq(X), NEW n \in 0..Len(C)
  PROVE  SubSeq(C \o D, 1, n) = SubSeq(C, 1, n)
  <1> DEFINE e == C \o D
             u == SubSeq(e, 1, n)
             v == SubSeq(C, 1, n)
  <1>1. e \in Seq(X) /\ Len(e) = Len(C) + Len(D) /\ Len(C) \in Nat /\ Len(D) \in Nat
        /\ \A i \in 1..Len(C) : e[i] = C[i]
    BY ConcatElements
  <1> HIDE DEF e
  <1>2. n \in 0..Len(e)
    BY <1>1
  <1>3. u \in Seq(X) /\ Len(u) = n /\ \A i \in 1..n : u[i] = e[i]
    BY <1>1, <1>2, FirstElements
  <1>4. v \in Seq(X) /\ Len(v) = n /\ \A i \in 1..n : v[i] = C[i] /\ i \in 1..Len(C)
    BY FirstElements
  <1> HIDE DEF u, v
  <1>5. \A i \in 1..Len(u) : u[i] = v[i]
    BY <1>1, <1>3, <1>4
  <1>6. u = v
    BY <1>3, <1>4, <1>5, SeqEqual
  <1> QED BY <1>6 DEF u, v, e

Single(r) == r.err = FALSE /\ (r.chunks = <<>> \/ \E c \in Chunks : r.chunks = <<c>>)

\* An event of an OpenAI-type upstream yields at most one chunk.
LEMMA SingleChunk ==
  ASSUME RInv, RelayOK, NEW r, Handed(r), kind = "openai"
  PROVE  Single(r)
  <1>1. Pending \in Evs /\ st \in States /\ Pending.data \in Seq(Txt)
    BY PendingType DEF RInv, RelayOK, Evs
  <1>2. CASE r = Handle(Pending)
    <2>1. r = ForwardOpenAI(Pending)
      BY <1>2 DEF Handle
    <2>2. r.err = FALSE /\ (r.chunks = <<>> \/ \E t \in {"raw", "done"} : r.chunks = <<Raw(t, Pending.data)>>)
      BY <1>1, <2>1, OpenAIEffect
    <2>3. \A t \in {"raw", "done"} : Raw(t, Pending.data) \in Chunks
      <3>1. "raw" \in Types /\ "done" \in Types
        BY DEF Types
      <3> QED BY <1>1, <3>1, RawType
    <2> QED BY <2>2, <2>3 DEF Single
  <1>3. CASE r = Result(st, <<>>, FALSE)
    BY <1>3 DEF Result, Single
  <1>4. r = Handle(Pending) \/ r = Result(st, <<>>, FALSE)
    BY DEF Handed
  <1> QED BY <1>2, <1>3, <1>4, Zenon

\* Only a [DONE] of an OpenAI-type upstream is among the chunks for an event.
LEMMA StopsAtDone ==
  ASSUME RInv, RelayOK, NEW r, Handed(r), NEW n \in 0..(Len(r.chunks) - 1), r.chunks[n + 1].type = "done"
  PROVE  Lost(r) /\ n = 0
  <1> DEFINE cs == r.chunks
  <1>1. Handles(r)
    BY HandedType
  <1>2. cs \in Seq(Chunks) /\ Len(cs) \in Nat
    BY <1>1 DEF Handles
  <1>3. n + 1 \in 1..Len(cs)
    <2> HIDE DEF cs
    <2>1. n \in 0..(Len(cs) - 1)
      BY DEF cs
    <2> QED BY <1>2, <2>1
  <1>4. kind = "openai"
    BY <1>1, <1>3 DEF Handles
  <1>5. cs = <<>> \/ \E c \in Chunks : cs = <<c>>
    <2>1. r.chunks = <<>> \/ \E c \in Chunks : r.chunks = <<c>>
      BY <1>4, SingleChunk DEF Single
    <2> QED BY <2>1, Zenon
  <1> HIDE DEF cs
  <1>6. cs # <<>>
    <2>1. Len(cs) # 0
      BY <1>2, <1>3
    <2> QED BY <2>1
  <1>7. PICK c \in Chunks : cs = <<c>>
    BY <1>5, <1>6
  <1>8. Len(cs) = 1 /\ cs[1] = c
    BY <1>7, Singleton
  <1>9. n = 0 /\ cs[n + 1] = c
    <2>1. n \in Nat
      BY <1>2, <1>3 DEF cs
    <2>2. n = 0
      BY <1>3, <1>8, <2>1
    <2>3. n + 1 = 1
      BY <2>2
    <2> QED BY <1>8, <2>2, <2>3
  <1>10. c.type = "done"
    BY <1>9 DEF cs
  <1> QED BY <1>4, <1>7, <1>9, <1>10 DEF Lost, cs

\* Handing over an event while reading.
LEMMA DeliverAnswers ==
  ASSUME RInv, RelayOK, status = "open", Fires, Deliver(Pending)
  PROVE  Answers(Handle(Pending))
  <1> DEFINE r == Handle(Pending)
             cs == r.chunks
  <1>0. delivered' = Append(delivered, Pending) /\ st' = r.st /\ Writes(cs, r.err, "open")
    BY DEF Deliver
  <1>1. PICK n \in 0..Len(cs) :
          /\ out' = out \o SubSeq(cs, 1, n)
          /\ IF n < Len(cs) /\ cs[n + 1].type # "done" THEN Fails("write")
             ELSE IF r.err THEN Fails("event")
             ELSE status' = "open" /\ UNCHANGED why
    BY <1>0 DEF Writes
  <1>2. Handed(r)
    BY <1>0 DEF Handed
  <1>3. cs \in Seq(Chunks) /\ r.err \in BOOLEAN
    BY <1>2, HandedType DEF Handles
  <1> HIDE DEF r, cs
  <1>4. cs \o <<>> = cs /\ Len(cs) \in Nat
    BY <1>3
  <1>5. CASE status' = "failed"
    <2>1. \E T \in {<<>>, UsageChunk} : \E m \in 0..Len(cs \o T) : out' = out \o SubSeq(cs \o T, 1, m)
      BY <1>1, <1>4
    <2>2. \E T \in {<<>>, UsageChunk} : \E m \in 0..Len(r.chunks \o T) :
             out' = out \o SubSeq(r.chunks \o T, 1, m)
      BY <2>1 DEF cs
    <2>3. r.err = FALSE => why' = "write"
      BY <1>1, <1>5 DEF Fails
    <2>4. Answers(r)
      BY <1>0, <1>2, <1>5, <2>2, <2>3 DEF Answers
    <2> QED BY <2>4 DEF r
  <1>6. CASE status' # "failed"
    <2>1. ~(n < Len(cs) /\ cs[n + 1].type # "done") /\ ~r.err /\ status' = "open" /\ why' = why
      BY <1>1, <1>6 DEF Fails
    <2>2. r.err = FALSE
      BY <1>3, <2>1
    <2>3. CASE n = Len(cs)
      <3>1. SubSeq(cs, 1, n) = cs
        BY <1>3, <2>3, FirstElements
      <3>2. out' = out \o r.chunks
        BY <1>1, <3>1 DEF cs
      <3>3. Answers(r)
        BY <1>0, <1>2, <2>1, <2>2, <3>2 DEF Answers
      <3> QED BY <3>3 DEF r
    <2>4. CASE n # Len(cs)
      <3>1. n \in 0..(Len(cs) - 1) /\ n < Len(cs)
        BY <1>4, <2>4
      <3>2. Lost(r) /\ n = 0
        BY <1>2, <2>1, <3>1, StopsAtDone DEF cs
      <3>3. SubSeq(cs, 1, n) = <<>> /\ out \o <<>> = out
        BY <1>3, <3>2, ConcatEmptySeq DEF RelayOK
      <3>4. out' = out
        BY <1>1, <3>3
      <3>5. Answers(r)
        BY <1>0, <1>2, <2>1, <2>2, <3>2, <3>4 DEF Answers
      <3> QED BY <3>5 DEF r
    <2> QED BY <2>3, <2>4
  <1> QED BY <1>5, <1>6

\* The clean end.
LEMMA EndAnswers ==
  ASSUME RInv, RelayOK, EndOnEOF
  PROVE  Answers(IF Fires THEN Handle(Pending) ELSE Result(st, <<>>, FALSE))
  <1> DEFINE r == IF Fires THEN Handle(Pending) ELSE Result(st, <<>>, FALSE)
             cs == r.chunks
             U == UsageChunk
             E == DoneChunk
             m == cs \o U
             all == IF r.err THEN cs ELSE m \o E
  <1>0. /\ delivered' = (IF Fires THEN Append(delivered, Pending) ELSE delivered) /\ st' = r.st
        /\ Writes(all, r.err, "ended")
        /\ status = "open"
    BY DEF EndOnEOF, Drained
  <1>2. Handed(r)
    BY <1>0 DEF Handed
  <1>3. cs \in Seq(Chunks) /\ r.err \in BOOLEAN
    BY <1>2, HandedType DEF Handles
  <1> HIDE DEF r
  <1>1. PICK n \in 0..Len(all) :
          /\ out' = out \o SubSeq(all, 1, n)
          /\ IF n < Len(all) /\ all[n + 1].type # "done" THEN Fails("write")
             ELSE IF r.err THEN Fails("event")
             ELSE status' = "ended" /\ UNCHANGED why
    BY <1>0 DEF Writes
  <1>4. U \in Seq(Chunks) /\ E \in Seq(Chunks) /\ out \in Seq(Chunks)
    <2> DEFINE A == {c \in Chunks : c.type = "usage"}
               B == {c \in Chunks : c.type = "done"}
    <2>1. U \in Seq(A) /\ A \subseteq Chunks /\ E \in Seq(B) /\ B \subseteq Chunks
      BY ClosingType
    <2> HIDE DEF A, B, U, E
    <2> QED BY <2>1, SeqSubset DEF RelayOK
  <1> HIDE DEF cs
  <1>e. cs \o <<>> = cs /\ Len(cs) \in Nat /\ out \o <<>> = out
    BY <1>3, <1>4, ConcatEmptySeq
  <1>5. ASSUME status' = "failed", r.err = FALSE => why' = "write",
               NEW T \in {<<>>, U}, NEW k \in 0..Len(cs \o T), out' = out \o SubSeq(cs \o T, 1, k)
        PROVE  Answers(r)
    <2>1. \E S \in {<<>>, U} : \E k_1 \in 0..Len(cs \o S) : out' = out \o SubSeq(cs \o S, 1, k_1)
      BY <1>5
    <2> QED BY <1>0, <1>2, <1>5, <2>1 DEF Answers, cs
  <1>6. ASSUME status' = "ended", why' = why, r.err = FALSE,
               (Lost(r) /\ out' = out) \/ out' = out \o m \/ out' = (out \o m) \o E
        PROVE  Answers(r)
    BY <1>0, <1>2, <1>6 DEF Answers, cs
  <1>7. CASE r.err
    <2>1. all = cs
      BY <1>7
    <2>2. status' = "failed" /\ out' = out \o SubSeq(cs, 1, n) /\ n \in 0..Len(cs)
      BY <1>1, <1>7, <2>1 DEF Fails
    <2>3. n \in 0..Len(cs \o <<>>) /\ out' = out \o SubSeq(cs \o <<>>, 1, n)
      BY <1>e, <2>2
    <2>4. Answers(r)
      BY <1>5, <1>7, <2>2, <2>3
    <2> QED BY <2>4 DEF r
  <1>8. CASE ~r.err /\ kind = "openai"
    <2>1. r.err = FALSE /\ U = <<>> /\ E = <<>>
      BY <1>3, <1>8 DEF UsageChunk, DoneChunk
    <2>2. all = cs /\ m = cs
      BY <1>8, <1>e, <2>1
    <2>3. CASE n < Len(cs) /\ cs[n + 1].type # "done"
      <3>1. Fails("write") /\ out' = out \o SubSeq(cs, 1, n) /\ n \in 0..Len(cs)
        BY <1>1, <2>2, <2>3
      <3>2. n \in 0..Len(cs \o <<>>) /\ out' = out \o SubSeq(cs \o <<>>, 1, n)
        BY <1>e, <3>1
      <3>3. Answers(r)
        BY <1>5, <3>1, <3>2 DEF Fails
      <3> QED BY <3>3 DEF r
    <2>4. CASE n = Len(cs)
      <3>1. SubSeq(cs, 1, n) = cs
        BY <1>3, <1>e, <2>4, FirstElements
      <3>2. ~(n < Len(cs))
        BY <1>e, <2>4
      <3>3. out' = out \o m /\ status' = "ended" /\ why' = why
        BY <1>1, <1>8, <2>2, <3>1, <3>2
      <3>4. Answers(r)
        BY <1>6, <2>1, <3>3
      <3> QED BY <3>4 DEF r
    <2>5. CASE n < Len(cs) /\ cs[n + 1].type = "done"
      <3>1. status' = "ended" /\ why' = why /\ out' = out \o SubSeq(cs, 1, n) /\ n \in 0..Len(cs)
        BY <1>1, <1>8, <2>2, <2>5
      <3>2. n \in 0..(Len(cs) - 1)
        BY <1>e, <2>5, <3>1
      <3>3. Lost(r) /\ n = 0
        BY <1>2, <2>5, <3>2, StopsAtDone DEF cs
      <3>4. SubSeq(cs, 1, n) = <<>>
        BY <1>3, <3>3
      <3>5. out' = out
        BY <1>e, <3>1, <3>4
      <3>6. Answers(r)
        BY <1>6, <2>1, <3>1, <3>3, <3>5
      <3> QED BY <3>6 DEF r
    <2>6. n \in 0..Len(cs)
      BY <1>1, <2>2
    <2>7. n < Len(cs) \/ n = Len(cs)
      BY <1>e, <2>6
    <2> QED BY <2>3, <2>4, <2>5, <2>7
  <1>9. CASE ~r.err /\ kind # "openai"
    <2> DEFINE y == Raw("done", <<>>)
    <2>1. r.err = FALSE /\ E = <<y>> /\ all = m \o E
      BY <1>3, <1>9 DEF DoneChunk
    <2>2. y \in Chunks /\ y.type = "done"
      <3>1. "done" \in Types /\ <<>> \in Seq(Txt)
        BY DEF Types
      <3> QED BY <3>1, RawType
    <2>3. m \in Seq(Chunks) /\ \A i \in 1..Len(m) : m[i].type # "done"
      <3> DEFINE S == {c \in Chunks : c.type # "done"}
      <3>1. cs \in Seq(S)
        <4>1. \A i \in 1..Len(cs) : cs[i].type # "done"
          BY <1>2, <1>9, HandedType DEF Handles, cs
        <4>2. \A i \in 1..Len(cs) : cs[i] \in S
          BY <1>3, <4>1
        <4> HIDE DEF S
        <4> QED BY <1>3, <4>2
      <3>2. U \in Seq(S)
        <4> DEFINE A == {c \in Chunks : c.type = "usage"}
        <4>1. U \in Seq(A) /\ A \subseteq S
          BY ClosingType
        <4> HIDE DEF A, S, U
        <4> QED BY <4>1, SeqSubset
      <3> HIDE DEF S, U
      <3>3. m \in Seq(S)
        BY <3>1, <3>2, ConcatElements
      <3> HIDE DEF m
      <3>4. S \subseteq Chunks /\ \A c \in S : c.type # "done"
        BY DEF S
      <3> QED BY <3>3, <3>4
    <2> HIDE DEF all, m, U, E, y
    <2>4. Len(m) \in Nat /\ Len(all) = Len(m) + 1 /\ (\A i \in 1..Len(m) : all[i] = m[i]) /\ all[1 + Len(m)] = y
          /\ all \in Seq(Chunks)
      <3>1. <<y>> \in Seq(Chunks) /\ Len(<<y>>) = 1 /\ <<y>>[1] = y
        BY <2>2, Singleton
      <3>2. all = m \o <<y>>
        BY <2>1
      <3> QED BY <2>3, <3>1, <3>2, ConcatElements
    <2>5. CASE n \in 0..(Len(m) - 1)
      <3>1. n + 1 \in 1..Len(m) /\ n < Len(all) /\ n \in 0..Len(m)
        BY <2>4, <2>5
      <3>2. Fails("write")
        BY <1>1, <2>3, <2>4, <3>1
      <3>3. SubSeq(all, 1, n) = SubSeq(m, 1, n)
        BY <1>4, <2>1, <2>3, <3>1, FirstOfConcat
      <3>4. out' = out \o SubSeq(m, 1, n)
        BY <1>1, <3>3
      <3>5. Answers(r)
        BY <1>5, <3>1, <3>2, <3>4 DEF Fails, m
      <3> QED BY <3>5 DEF r
    <2>6. CASE n = Len(m)
      <3>1. n + 1 = 1 + Len(m) /\ n \in 0..Len(m)
        BY <2>4, <2>6
      <3>2. all[n + 1].type = "done"
        BY <2>2, <2>4, <3>1
      <3>3. SubSeq(all, 1, n) = SubSeq(m, 1, n)
        BY <1>4, <2>1, <2>3, <3>1, FirstOfConcat
      <3>4. SubSeq(m, 1, n) = m
        BY <2>3, <2>6, <3>1, FirstElements
      <3>5. status' = "ended" /\ why' = why /\ out' = out \o m
        BY <1>1, <1>9, <3>2, <3>3, <3>4
      <3>6. Answers(r)
        BY <1>6, <2>1, <3>5
      <3> QED BY <3>6 DEF r
    <2>7. CASE n = Len(m) + 1
      <3>1. ~(n < Len(all)) /\ n = Len(all) /\ n \in 0..Len(all)
        BY <2>4, <2>7
      <3>2. SubSeq(all, 1, n) = all
        BY <2>4, <3>1, FirstElements
      <3>3. out \o (m \o E) = (out \o m) \o E
        <4> DEFINE s == out
        <4>1. s \in Seq(Chunks) /\ m \in Seq(Chunks) /\ E \in Seq(Chunks)
          BY <1>4, <2>3
        <4> HIDE DEF s
        <4>2. (s \o m) \o E = s \o (m \o E)
          BY <4>1, ConcatAssociative
        <4> QED BY <4>2 DEF s
      <3>4. status' = "ended" /\ why' = why /\ out' = (out \o m) \o E
        BY <1>1, <1>9, <2>1, <3>1, <3>2, <3>3
      <3>5. Answers(r)
        BY <1>6, <2>1, <3>4
      <3> QED BY <3>5 DEF r
    <2>8. n \in 0..(Len(m) + 1)
      BY <1>1, <2>4
    <2>9. n \in 0..(Len(m) - 1) \/ n = Len(m) \/ n = Len(m) + 1
      BY <2>4, <2>8
    <2> QED BY <2>5, <2>6, <2>7, <2>9
  <1> QED BY <1>7, <1>8, <1>9

\* What a step does.
LEMMA RelayStep ==
  ASSUME RInv, RelayOK, [Next]_vars
  PROVE  UNCHANGED <<wire, kind, asked>> /\ (Silent \/ \E r : Answers(r))
  <1>1. ASSUME NEW n \in 0..MaxLine, NEW says \in {"none", "eof", "error"}, Read(n, says)
        PROVE  UNCHANGED <<wire, kind, asked>> /\ Silent
    BY <1>1 DEF Read, Silent, relay
  <1>3. CASE LineTooLong
    BY <1>3 DEF LineTooLong, NeedsMore, Fails, Silent
  <1>4. CASE ScanBlank
    <2>1. CASE Fires
      <3>1. status = "open" /\ Deliver(Pending) /\ UNCHANGED <<wire, kind, asked>>
        BY <1>4, <2>1 DEF ScanBlank, Advance
      <3> QED BY <2>1, <3>1, DeliverAnswers
    <2>2. CASE ~Fires
      BY <1>4, <2>2 DEF ScanBlank, Silent, relay
    <2> QED BY <2>1, <2>2
  <1>5. CASE ScanField
    BY <1>5 DEF ScanField, Advance, Fails, Silent
  <1>6. CASE EndOnError
    BY <1>6 DEF EndOnError, Drained, Fails, Silent
  <1>7. CASE EndOnEOF
    <2>1. UNCHANGED <<wire, kind, asked>>
      BY <1>7 DEF EndOnEOF
    <2> QED BY <1>7, <2>1, EndAnswers
  <1>8. CASE UNCHANGED vars
    BY <1>8 DEF vars, relay, Silent
  <1> QED BY <1>1, <1>3, <1>4, <1>5, <1>6, <1>7, <1>8 DEF Next

\* What is written follows what was: chunks of the result, maybe not all of
\* them, and the closing ones.
LEMMA AnswerGrows ==
  ASSUME RInv, RelayOK, NEW r, Answers(r),
         NEW S \in SUBSET Chunks, r.chunks \in Seq(S),
         UsageChunk \in Seq(S), status' = "ended" => DoneChunk \in Seq(S)
  PROVE  \E D \in Seq(S) : out' = out \o D
  <1> DEFINE cs == r.chunks
             U == UsageChunk
             E == DoneChunk
  <1>1. CASE status' = "open" /\ out' = out \o cs
    BY <1>1
  <1>4. CASE out' = out
    <2>1. out \o <<>> = out /\ <<>> \in Seq(S)
      BY ConcatEmptySeq DEF RelayOK
    <2> QED BY <1>4, <2>1
  <1>5. CASE status' = "ended" /\ out' = out \o (cs \o U)
    <2>1. cs \in Seq(S) /\ U \in Seq(S)
      OBVIOUS
    <2> HIDE DEF cs, U
    <2>2. cs \o U \in Seq(S)
      BY <2>1, ConcatElements
    <2> QED BY <1>5, <2>2
  <1>2. ASSUME NEW T \in {<<>>, U}, NEW n \in 0..Len(cs \o T), out' = out \o SubSeq(cs \o T, 1, n)
        PROVE  \E D \in Seq(S) : out' = out \o D
    <2> DEFINE m == cs \o T
    <2>1. <<>> \in Seq(S)
      OBVIOUS
    <2>2. cs \in Seq(S) /\ T \in Seq(S)
      BY <2>1
    <2> HIDE DEF cs, U
    <2>3. m \in Seq(S)
      BY <2>2, ConcatElements
    <2> HIDE DEF m
    <2>4. n \in 0..Len(m)
      BY DEF m
    <2>5. SubSeq(m, 1, n) \in Seq(S)
      BY <2>3, <2>4, FirstElements
    <2> QED BY <1>2, <2>5 DEF m
  <1>3. CASE status' = "ended" /\ out' = (out \o (cs \o U)) \o E
    <2>1. cs \in Seq(S) /\ U \in Seq(S) /\ E \in Seq(S)
      BY <1>3
    <2>2. out \in Seq(Chunks)
      BY DEF RelayOK
    <2> HIDE DEF cs, U, E
    <2>3. cs \o U \in Seq(S) /\ (cs \o U) \o E \in Seq(S)
      BY <2>1, ConcatElements
    <2>4. cs \o U \in Seq(Chunks) /\ E \in Seq(Chunks)
      BY <2>1, <2>3, SeqSubset
    <2>5. (out \o (cs \o U)) \o E = out \o ((cs \o U) \o E)
      <3> DEFINE s == out
                 t == cs \o U
      <3>1. s \in Seq(Chunks) /\ t \in Seq(Chunks) /\ E \in Seq(Chunks)
        BY <2>2, <2>4
      <3> HIDE DEF s, t
      <3>2. (s \o t) \o E = s \o (t \o E)
        BY <3>1, ConcatAssociative
      <3> QED BY <3>2 DEF s, t
    <2> QED BY <1>3, <2>3, <2>5
  <1> QED BY <1>1, <1>2, <1>3, <1>4, <1>5 DEF Answers

\* The adapter's state and the chunks keep their types.
LEMMA RelayOKNext ==
  ASSUME RInv, RelayOK, [Next]_vars
  PROVE  RelayOK'
  <1>1. CASE Silent
    BY <1>1 DEF Silent, RelayOK
  <1>2. ASSUME NEW r, Answers(r) PROVE RelayOK'
    <2>1. Handles(r) /\ st' = r.st
      BY <1>2, HandedType DEF Answers
    <2>2. UsageChunk \in Seq(Chunks) /\ DoneChunk \in Seq(Chunks)
      <3> DEFINE U == {c \in Chunks : c.type = "usage"}
                 E == {c \in Chunks : c.type = "done"}
      <3>1. UsageChunk \in Seq(U) /\ U \subseteq Chunks /\ DoneChunk \in Seq(E) /\ E \subseteq Chunks
        BY ClosingType
      <3> HIDE DEF U, E
      <3> QED BY <3>1, SeqSubset
    <2>3. PICK D \in Seq(Chunks) : out' = out \o D
      BY <1>2, <2>1, <2>2, AnswerGrows DEF Handles
    <2>4. out' \in Seq(Chunks)
      BY <2>3, ConcatElements DEF RelayOK
    <2> QED BY <2>1, <2>4 DEF RelayOK, Handles
  <1> QED BY <1>1, <1>2, RelayStep

\* The adapter's first state.
LEMMA RelayOKInit ==
  ASSUME Init
  PROVE  RelayOK
  <1>1. FALSE \in BOOLEAN
    BY Zenon
  <1>2. <<>> \in Ords
    <2> DEFINE f == <<>>
    <2>1. f \in [{} -> Nat] /\ {} \in SUBSET Nat
      OBVIOUS
    <2> QED BY <2>1 DEF Ords
  <1>3. NoUsage \in Usages
    BY DEF NoUsage, Usages
  <1>4. NewState \in States
    BY <1>1, <1>2, <1>3 DEF NewState, States
  <1> QED BY <1>4 DEF Init, RelayOK

-----------------------------------------------------------------------------
(* A translated stream is closed only when it is complete.                 *)

Fine == {c \in Chunks : c.type \notin {"done", "usage", "error"}}
NotDone == {c \in Chunks : c.type # "done"}

DoneInv ==
    /\ kind # "openai" /\ status = "open" => out \in Seq(Fine)
    /\ kind # "openai" /\ status # "ended" => out \in Seq(NotDone)
    /\ DoneMeansWhole

\* The chunks for an event are of these kinds.
LEMMA AnswerFine ==
  ASSUME RInv, RelayOK, NEW r, Handed(r), kind # "openai"
  PROVE  r.chunks \in Seq(NotDone) /\ (r.err = FALSE => r.chunks \in Seq(Fine))
  <1>1. Handles(r)
    BY HandedType
  <1>2. r.chunks \in Seq(Chunks)
    BY <1>1 DEF Handles
  <1>3. \A i \in 1..Len(r.chunks) : r.chunks[i].type \notin {"done", "usage"}
                                    /\ (r.chunks[i].type = "error" => r.err)
    BY <1>1 DEF Handles
  <1> DEFINE cs == r.chunks
  <1>4. \A i \in 1..Len(cs) : cs[i] \in NotDone /\ (r.err = FALSE => cs[i] \in Fine)
    <2> TAKE i \in 1..Len(cs)
    <2>1. cs[i] \in Chunks
      BY <1>2
    <2> QED BY <1>3, <2>1 DEF NotDone, Fine
  <1>5. cs \in Seq(Chunks)
    BY <1>2
  <1> HIDE DEF cs
  <1>6. ASSUME NEW S, \A i \in 1..Len(cs) : cs[i] \in S PROVE cs \in Seq(S)
    BY <1>5, <1>6
  <1> QED BY <1>4, <1>6 DEF cs

\* The closing of a stream that is complete.
LEMMA ClosedWhole ==
  ASSUME RInv, RelayOK, NEW r, kind # "openai", out \in Seq(Fine), r.chunks \in Seq(Fine),
         EndOnEOF, out' = (out \o (r.chunks \o UsageChunk)) \o DoneChunk,
         UNCHANGED <<wire, kind, asked>>
  PROVE  DoneMeansWhole'
  <1> DEFINE O == out \o r.chunks
             x == Raw("usage", <<>>)
             y == Raw("done", <<>>)
             o == Len(O)
             w == out'
  <1>1. O \in Seq(Fine)
    BY ConcatElements
  <1>2. UsageChunk = (IF asked THEN <<x>> ELSE <<>>) /\ DoneChunk = <<y>>
    BY DEF UsageChunk, DoneChunk
  <1>3. x \in Chunks /\ x.type = "usage" /\ y \in Chunks /\ y.type = "done"
    <2>1. "usage" \in Types /\ "done" \in Types /\ <<>> \in Seq(Txt)
      BY DEF Types
    <2> QED BY <2>1, RawType
  <1> HIDE DEF x, y
  <1>4. out \in Seq(Chunks) /\ r.chunks \in Seq(Chunks) /\ O \in Seq(Chunks)
        /\ UsageChunk \in Seq(Chunks)
    <2>1. Fine \subseteq Chunks
      BY DEF Fine
    <2> HIDE DEF O
    <2>2. <<x>> \in Seq(Chunks) /\ <<>> \in Seq(Chunks)
      BY <1>3, Singleton
    <2> QED BY <1>1, <1>2, <2>1, <2>2, SeqSubset
  <1>5. w = (O \o UsageChunk) \o <<y>>
    <2>1. out \o (r.chunks \o UsageChunk) = (out \o r.chunks) \o UsageChunk
      <3> DEFINE s == out
                 t == r.chunks
                 u == UsageChunk
      <3>1. s \in Seq(Chunks) /\ t \in Seq(Chunks) /\ u \in Seq(Chunks)
        BY <1>4
      <3> HIDE DEF s, t, u
      <3>2. (s \o t) \o u = s \o (t \o u)
        BY <3>1, ConcatAssociative
      <3> QED BY <3>2 DEF s, t, u
    <2> QED BY <1>2, <2>1
  <1>6. \A i \in 1..o : O[i].type \notin {"done", "usage", "error"}
    <2> HIDE DEF O
    <2>1. \A i \in 1..Len(O) : O[i] \in Fine
      BY <1>1
    <2> QED BY <2>1 DEF Fine
  <1>7. delivered' = Events(wire)
    BY EndTracks
  <1>8. kind' = kind /\ wire' = wire /\ asked' = asked
    OBVIOUS
  <1>9. asked \in BOOLEAN
    BY WireType DEF RInv
  <1> HIDE DEF O, o, w
  <1>10. o \in Nat
    BY <1>4 DEF o
  <1>11. ASSUME NEW l \in Nat, Len(w) = l, l >= 1, w[l] = y,
                \A i \in 1..(l - 1) : w[i].type \notin {"done", "error"},
                asked <=> (l > 1 /\ w[l - 1].type = "usage")
         PROVE  DoneMeansWhole'
    <2>1. \A i \in 1..Len(w) : w[i].type = "done" => i = l
      BY <1>11
    <2>2. \A j \in 1..Len(w) : w[j].type # "error"
      <3> TAKE j \in 1..Len(w)
      <3>1. j = l \/ j \in 1..(l - 1)
        BY <1>11
      <3> QED BY <1>3, <1>11, <3>1
    <2>3. \A i \in 1..Len(w) : w[i].type = "done" =>
            /\ i = Len(w) /\ delivered' = Events(wire)
            /\ \A j \in 1..i : w[j].type # "error"
            /\ asked <=> (i > 1 /\ w[i - 1].type = "usage")
      BY <1>7, <1>11, <2>1, <2>2
    <2>4. ASSUME NEW i \in 1..Len(w), w[i].type = "done"
          PROVE  /\ i = Len(w) /\ delivered' = Events(wire')
                 /\ \A j \in 1..i : w[j].type # "error"
                 /\ asked' <=> (i > 1 /\ w[i - 1].type = "usage")
      BY <1>8, <2>3, <2>4
    <2>5. \A i \in 1..Len(out') : out'[i].type = "done" =>
            /\ i = Len(out') /\ delivered' = Events(wire')
            /\ \A j \in 1..i : out'[j].type # "error"
            /\ asked' <=> (i > 1 /\ out'[i - 1].type = "usage")
      BY <2>4, Zenon DEF w
    <2> QED BY <2>5, Zenon DEF DoneMeansWhole
  <1>12. CASE asked
    <2>1. w = (O \o <<x>>) \o <<y>>
      BY <1>2, <1>5, <1>12
    <2> DEFINE P == O \o <<x>>
    <2>2. P \in Seq(Chunks) /\ Len(P) = o + 1 /\ P[o + 1] = x /\ \A i \in 1..o : P[i] = O[i]
      <3>1. <<x>> \in Seq(Chunks) /\ Len(<<x>>) = 1 /\ <<x>>[1] = x
        BY <1>3, Singleton
      <3>2. P \in Seq(Chunks) /\ Len(P) = Len(O) + 1 /\ (\A i \in 1..Len(O) : P[i] = O[i])
            /\ P[1 + Len(O)] = x
        BY <1>4, <3>1, ConcatElements
      <3> QED BY <1>10, <3>2 DEF o
    <2> HIDE DEF P
    <2>3. Len(w) = (o + 1) + 1 /\ w[(o + 1) + 1] = y /\ \A i \in 1..(o + 1) : w[i] = P[i]
      <3>1. <<y>> \in Seq(Chunks) /\ Len(<<y>>) = 1 /\ <<y>>[1] = y
        BY <1>3, Singleton
      <3>2. w = P \o <<y>>
        BY <2>1 DEF P
      <3>3. Len(w) = Len(P) + 1 /\ (\A i \in 1..Len(P) : w[i] = P[i]) /\ w[1 + Len(P)] = y
        BY <2>2, <3>1, <3>2, ConcatElements
      <3> QED BY <1>10, <2>2, <3>3
    <2> DEFINE l == (o + 1) + 1
    <2>4. l \in Nat /\ l >= 1 /\ l > 1 /\ l - 1 = o + 1 /\ o + 1 \in 1..(o + 1)
      BY <1>10
    <2>5. w[l - 1].type = "usage"
      BY <1>3, <2>2, <2>3, <2>4
    <2>6. \A i \in 1..(l - 1) : w[i].type \notin {"done", "error"}
      <3> TAKE i \in 1..(l - 1)
      <3>1. i \in 1..(o + 1) /\ (i = o + 1 \/ i \in 1..o)
        BY <1>10
      <3> QED BY <1>3, <1>6, <2>2, <2>3, <3>1
    <2> HIDE DEF l
    <2>7. Len(w) = l /\ w[l] = y
      BY <2>3 DEF l
    <2> QED BY <1>11, <1>12, <2>4, <2>5, <2>6, <2>7
  <1>13. CASE ~asked
    <2>1. w = (O \o <<>>) \o <<y>> /\ O \o <<>> = O
      BY <1>2, <1>4, <1>5, <1>13
    <2>2. Len(w) = o + 1 /\ w[o + 1] = y /\ \A i \in 1..o : w[i] = O[i]
      <3>1. <<y>> \in Seq(Chunks) /\ Len(<<y>>) = 1 /\ <<y>>[1] = y
        BY <1>3, Singleton
      <3>2. w = O \o <<y>>
        BY <2>1
      <3>3. Len(w) = Len(O) + 1 /\ (\A i \in 1..Len(O) : w[i] = O[i]) /\ w[1 + Len(O)] = y
        BY <1>4, <3>1, <3>2, ConcatElements
      <3> QED BY <1>10, <3>3 DEF o
    <2> DEFINE l == o + 1
    <2>3. l \in Nat /\ l >= 1 /\ l - 1 = o /\ (l > 1 => o \in 1..o)
      BY <1>10
    <2>4. \A i \in 1..(l - 1) : w[i].type \notin {"done", "error"}
      BY <1>6, <2>2, <2>3
    <2>5. ~(l > 1 /\ w[l - 1].type = "usage")
      BY <1>6, <2>2, <2>3
    <2> HIDE DEF l
    <2>6. Len(w) = l /\ w[l] = y
      BY <2>2 DEF l
    <2> QED BY <1>11, <1>13, <2>3, <2>4, <2>5, <2>6
  <1> QED BY <1>9, <1>12, <1>13

\* Every step keeps DoneInv.
LEMMA DoneInvNext ==
  ASSUME RInv, RelayOK, DoneInv, [Next]_vars
  PROVE  DoneInv'
  <1>0. UNCHANGED <<wire, kind, asked>>
    BY RelayStep
  <1>1. CASE kind = "openai"
    BY <1>0, <1>1 DEF DoneInv, DoneMeansWhole
  <1>2. CASE kind # "openai" /\ Silent
    <2>1. (status' = "open" => status = "open") /\ (status' # "ended" => status # "ended")
      BY <1>2 DEF Silent
    <2> QED BY <1>0, <1>2, <2>1 DEF DoneInv, DoneMeansWhole, Silent
  <1>3. ASSUME NEW r, Answers(r), kind # "openai" PROVE DoneInv'
    <2>1. Handed(r) /\ status = "open" /\ out \in Seq(Fine) /\ out \in Seq(NotDone)
      BY <1>3 DEF Answers, DoneInv
    <2>2. r.chunks \in Seq(NotDone) /\ (r.err = FALSE => r.chunks \in Seq(Fine))
      BY <1>3, <2>1, AnswerFine
    <2>3. Fine \in SUBSET Chunks /\ NotDone \in SUBSET Chunks
      BY DEF Fine, NotDone
    <2>4. ASSUME out' \in Seq(NotDone) PROVE DoneMeansWhole'
      <3> DEFINE w == out'
      <3>1. \A i \in 1..Len(w) : w[i] \in NotDone
        BY <2>4
      <3>2. \A i \in 1..Len(w) : w[i].type # "done"
        BY <3>1 DEF NotDone
      <3> QED BY <3>2 DEF DoneMeansWhole
    <2>8. UsageChunk \in Seq(NotDone)
      <3> DEFINE U == {c \in Chunks : c.type = "usage"}
      <3>1. U \subseteq NotDone /\ UsageChunk \in Seq(U)
        BY ClosingType DEF NotDone
      <3> HIDE DEF U
      <3> QED BY <3>1, SeqSubset
    <2>5. CASE status' = "open"
      <3>1. r.err = FALSE /\ out' = out \o r.chunks
        BY <1>3, <2>5 DEF Answers, Lost
      <3>2. out' \in Seq(Fine) /\ out' \in Seq(NotDone)
        BY <2>1, <2>2, <3>1, ConcatElements
      <3> QED BY <2>4, <2>5, <3>2 DEF DoneInv
    <2>6. CASE status' = "failed"
      <3>2. PICK D \in Seq(NotDone) : out' = out \o D
        BY <1>3, <2>2, <2>3, <2>6, <2>8, AnswerGrows
      <3>3. out' \in Seq(NotDone)
        BY <2>1, <3>2, ConcatElements
      <3> QED BY <2>4, <2>6, <3>3 DEF DoneInv
    <2>7. CASE status' = "ended"
      <3>1. /\ EndOnEOF /\ r.err = FALSE
            /\ \/ out' = out \o (r.chunks \o UsageChunk)
               \/ out' = (out \o (r.chunks \o UsageChunk)) \o DoneChunk
        BY <1>3, <2>7 DEF Answers, Lost
      <3>2. CASE out' = (out \o (r.chunks \o UsageChunk)) \o DoneChunk
        <4>1. DoneMeansWhole'
          BY <1>0, <1>3, <2>1, <2>2, <3>1, <3>2, ClosedWhole
        <4> QED BY <2>7, <4>1 DEF DoneInv
      <3>3. CASE out' = out \o (r.chunks \o UsageChunk)
        <4>1. UsageChunk \in Seq(NotDone)
          BY <2>8
        <4>2. r.chunks \o UsageChunk \in Seq(NotDone)
          BY <2>2, <4>1, ConcatElements
        <4>3. out' \in Seq(NotDone)
          BY <2>1, <3>3, <4>2, ConcatElements
        <4> QED BY <2>4, <2>7, <4>3 DEF DoneInv
      <3> QED BY <3>1, <3>2, <3>3
    <2> QED BY <1>3, <2>5, <2>6, <2>7 DEF Answers
  <1> QED BY <1>1, <1>2, <1>3, RelayStep

\* A translated stream is closed with [DONE] only when the upstream's ended and
\* every event was translated without an error, with the usage before it just
\* when the client asked for it (provider_anthropic.go:205-228,
\* provider_gemini.go:215-238).
THEOREM DoneIsWhole == Spec => []DoneMeansWhole
  <1>1. Init => RInv /\ RelayOK /\ DoneInv
    <2> SUFFICES ASSUME Init PROVE RInv /\ RelayOK /\ DoneInv
      OBVIOUS
    <2>1. out = <<>> /\ Len(out) = 0 /\ out \in Seq(Fine) /\ out \in Seq(NotDone)
      BY DEF Init
    <2>2. DoneInv
      BY <2>1 DEF DoneInv, DoneMeansWhole
    <2> QED BY <2>2, RInvInit, RelayOKInit
  <1>2. (RInv /\ RelayOK /\ DoneInv) /\ [Next]_vars => (RInv /\ RelayOK /\ DoneInv)'
    BY RInvNext, RelayOKNext, DoneInvNext
  <1>3. (RInv /\ RelayOK /\ DoneInv) => DoneMeansWhole
    BY DEF DoneInv
  <1> QED BY <1>1, <1>2, <1>3, PTL DEF Spec

-----------------------------------------------------------------------------
(* The usage that is billed.                                               *)

\* The positions of the events in Q.
At(d, Q) == {k \in 1..Len(d) : d[k] \in Q}

\* The greatest element of a set with a bound.
LEMMA GreatestElement ==
  ASSUME NEW n \in Nat, NEW S \in SUBSET (1..n), S # {}
  PROVE  Max(S) \in S /\ \A y \in S : y <= Max(S)
  <1> DEFINE T == {x \in 0..n : n - x \in S}
  <1>1. PICK s \in S : TRUE
    OBVIOUS
  <1>2. n - s \in T /\ T \in SUBSET Nat
    <2>1. n - s \in 0..n /\ n - (n - s) = s
      OBVIOUS
    <2> QED BY <2>1
  <1>3. PICK t \in T : \A x \in T : t <= x
    BY <1>2, LeastElement
  <1>4. n - t \in S /\ \A y \in S : n - t >= y
    <2>1. n - t \in S /\ t \in 0..n
      BY <1>3
    <2>2. ASSUME NEW y \in S PROVE n - t >= y
      <3>1. n - y \in 0..n /\ n - (n - y) = y
        OBVIOUS
      <3>2. n - y \in T
        BY <3>1
      <3>3. t <= n - y
        BY <1>3, <3>2
      <3> QED BY <2>1, <3>1, <3>3
    <2> QED BY <2>1, <2>2
  <1> HIDE DEF T
  <1>5. \E x \in S : \A y \in S : x >= y
    BY <1>4
  <1>6. Max(S) \in S /\ \A y \in S : Max(S) >= y
    BY <1>5 DEF Max
  <1> QED BY <1>6

\* The last event in Q, when one more event is handed over.
LEMMA LastAmong ==
  ASSUME NEW d \in Seq(Evs), NEW ev \in Evs, NEW Q
  PROVE  LET e == Append(d, ev)
         IN  IF ev \in Q
               THEN At(e, Q) # {} /\ e[Max(At(e, Q))] = ev
               ELSE At(e, Q) = At(d, Q) /\ (At(d, Q) # {} => e[Max(At(d, Q))] = d[Max(At(d, Q))])
  <1> DEFINE e == Append(d, ev)
             n == Len(d)
  <1>1. Len(e) = n + 1 /\ e[n + 1] = ev /\ n \in Nat /\ \A i \in 1..n : e[i] = d[i]
    OBVIOUS
  <1> HIDE DEF e, n
  <1>2. At(e, Q) \in SUBSET (1..(n + 1)) /\ At(d, Q) \in SUBSET (1..n)
    BY <1>1 DEF At, n
  <1>3. CASE ev \in Q
    <2>1. n + 1 \in At(e, Q)
      BY <1>1, <1>3 DEF At
    <2>2. Max(At(e, Q)) \in At(e, Q) /\ n + 1 <= Max(At(e, Q))
      <3>1. n + 1 \in Nat
        BY <1>1
      <3> QED BY <1>2, <2>1, <3>1, GreatestElement
    <2>3. Max(At(e, Q)) = n + 1
      BY <1>1, <1>2, <2>2
    <2> QED BY <1>1, <1>3, <2>1, <2>3 DEF e
  <1>4. CASE ev \notin Q
    <2>1. At(e, Q) = At(d, Q)
      <3>1. \A k \in 1..(n + 1) : k \in 1..n \/ k = n + 1
        BY <1>1
      <3>2. \A k \in 1..n : k \in 1..(n + 1)
        BY <1>1
      <3> QED BY <1>1, <1>4, <3>1, <3>2 DEF At, n
    <2>2. ASSUME At(d, Q) # {} PROVE e[Max(At(d, Q))] = d[Max(At(d, Q))]
      <3>1. Max(At(d, Q)) \in At(d, Q)
        BY <1>1, <1>2, <2>2, GreatestElement
      <3> QED BY <1>1, <1>2, <3>1
    <2> QED BY <1>4, <2>1, <2>2 DEF e
  <1> QED BY <1>3, <1>4

\* The events that report usage.
Reporting == {ev \in Evs : Decodes(ev) /\ Decoded(ev).usage}
Having(name) == {ev \in Evs : Named(ev, name)}

\* What the last report among d says.
Total(d) == IF At(d, Reporting) = {} THEN NoUsage ELSE Decoded(d[Max(At(d, Reporting))]).u
Prompt(d) == IF At(d, Having("message_start")) = {} THEN 0
             ELSE Decoded(d[Max(At(d, Having("message_start")))]).prompt
Completion(d) == IF At(d, Having("message_delta")) = {} THEN 0
                 ELSE Decoded(d[Max(At(d, Having("message_delta")))]).completion

Billed(s, d) ==
    IF kind = "anthropic" THEN s.u.prompt = Prompt(d) /\ s.u.completion = Completion(d)
    ELSE s.u = Total(d)

\* BilledIsReported in these terms.
LEMMA BilledDef ==
  ASSUME delivered \in Seq(Evs)
  PROVE  BilledIsReported <=> Billed(st, delivered)
  <1>1. \A k \in 1..Len(delivered) : delivered[k] \in Evs
    OBVIOUS
  <1>2. Reports = At(delivered, Reporting)
    BY <1>1 DEF Reports, At, Reporting
  <1>3. ReportsIn("message_start") = At(delivered, Having("message_start"))
        /\ ReportsIn("message_delta") = At(delivered, Having("message_delta"))
    BY <1>1 DEF ReportsIn, At, Having
  <1> QED BY <1>2, <1>3 DEF BilledIsReported, Billed, Total, Prompt, Completion, LastReport

\* One more event.
LEMMA BilledNext ==
  ASSUME delivered \in Seq(Evs), st \in States, kind \in Kinds, NEW ev \in Evs, Billed(st, delivered)
  PROVE  Billed(Handle(ev).st, Append(delivered, ev))
  <1> DEFINE e == Append(delivered, ev)
             p == Decoded(ev)
             s == Handle(ev).st
  <1>1. \A Q : IF ev \in Q
                 THEN At(e, Q) # {} /\ e[Max(At(e, Q))] = ev
                 ELSE /\ At(e, Q) = At(delivered, Q)
                      /\ At(delivered, Q) # {} => e[Max(At(delivered, Q))] = delivered[Max(At(delivered, Q))]
    BY LastAmong
  <1>2. Decodes(ev) => p \in Payloads
    BY DecodedType
  <1>3. Decodes(ev) => p.u \in Usages /\ p.prompt \in Nat /\ p.completion \in Nat /\ p.index \in Nat
    BY <1>2 DEF Payloads
  <1> HIDE DEF e, p, s
  <1>4. Total(e) = IF Decodes(ev) /\ p.usage THEN p.u ELSE Total(delivered)
    <2>1. ev \in Reporting <=> Decodes(ev) /\ p.usage
      BY DEF Reporting, p
    <2> QED BY <1>1, <2>1 DEF Total, p
  <1>5. Prompt(e) = IF Named(ev, "message_start") THEN p.prompt ELSE Prompt(delivered)
    <2>1. ev \in Having("message_start") <=> Named(ev, "message_start")
      BY DEF Having
    <2> QED BY <1>1, <2>1 DEF Prompt, p
  <1>6. Completion(e) = IF Named(ev, "message_delta") THEN p.completion ELSE Completion(delivered)
    <2>1. ev \in Having("message_delta") <=> Named(ev, "message_delta")
      BY DEF Having
    <2> QED BY <1>1, <2>1 DEF Completion, p
  <1>7. CASE kind = "openai"
    <2>1. s = IF Decodes(ev) /\ p.usage THEN WithUsage(p.u) ELSE st
      BY <1>7, OpenAIEffect DEF Handle, s, p, WithUsage
    <2>2. s.u = IF Decodes(ev) /\ p.usage THEN p.u ELSE st.u
      BY <1>3, <2>1, StateWith
    <2>3. st.u = Total(delivered)
      BY <1>7 DEF Billed
    <2>4. s.u = Total(e)
      BY <1>4, <2>2, <2>3
    <2> QED BY <1>7, <2>4 DEF Billed, s, e
  <1>8. CASE kind = "gemini"
    <2>1. s.u = IF Decodes(ev) /\ p.usage THEN p.u ELSE st.u
      <3>1. Handle(ev) = TranslateGemini(ev)
        BY <1>8 DEF Handle
      <3>2. CASE Decodes(ev)
        <4>1. GeminiCase(ev, Handle(ev))
          BY <3>1, <3>2, GeminiEffect
        <4> QED BY <3>2, <4>1 DEF GeminiCase, s, p
      <3>3. CASE ~Decodes(ev)
        <4>1. Handle(ev) = Result(st, <<>>, TRUE)
          BY <3>1, <3>3 DEF TranslateGemini
        <4>2. s = st
          BY <4>1 DEF Result, s
        <4> QED BY <3>3, <4>2
      <3> QED BY <3>2, <3>3
    <2>2. st.u = Total(delivered)
      BY <1>8 DEF Billed
    <2>3. s.u = Total(e)
      BY <1>4, <2>1, <2>2
    <2> QED BY <1>8, <2>3 DEF Billed, s, e
  <1>9. CASE kind = "anthropic"
    <2>1. AnthropicCases(ev, Handle(ev))
      BY <1>9, AnthropicEffect DEF Handle
    <2>2. st.u.prompt = Prompt(delivered) /\ st.u.completion = Completion(delivered)
      BY <1>9 DEF Billed
    <2>3. ~(Named(ev, "message_start") /\ Named(ev, "message_delta"))
      BY NamedDef
    <2>4. \A name \in {"block_start", "block_delta"} :
             OnTool(ev, name) => ~Named(ev, "message_start") /\ ~Named(ev, "message_delta")
      <3> TAKE name \in {"block_start", "block_delta"}
      <3> HAVE OnTool(ev, name)
      <3>1. ev.event[1] = name
        BY NamedDef DEF OnTool
      <3> QED BY <3>1, NamedDef
    <2>5. s.u.prompt = Prompt(e) /\ s.u.completion = Completion(e)
      <3>1. CASE s = st /\ ~Named(ev, "message_start") /\ ~Named(ev, "message_delta")
        BY <1>5, <1>6, <2>2, <3>1
      <3>2. CASE Named(ev, "message_start") /\ s = WithPrompt(p.prompt)
        <4>1. s.u.prompt = p.prompt /\ s.u.completion = st.u.completion
          BY <1>3, <3>2, StateWith DEF Named
        <4> QED BY <1>5, <1>6, <2>2, <2>3, <3>2, <4>1
      <3>3. CASE Named(ev, "message_delta") /\ s = WithCompletion(p.completion)
        <4>1. s.u.completion = p.completion /\ s.u.prompt = st.u.prompt
          BY <1>3, <3>3, StateWith DEF Named
        <4> QED BY <1>5, <1>6, <2>2, <2>3, <3>3, <4>1
      <3>4. CASE OnTool(ev, "block_start") /\ s = WithTool(WithOrdinal(p.index))
        <4>1. WithOrdinal(p.index) \in Ords
          BY <1>3, <3>4, WithOrdinalType DEF OnTool, Named
        <4>2. s.u = st.u
          BY <3>4, <4>1, StateWith
        <4> QED BY <1>5, <1>6, <2>2, <2>4, <3>4, <4>2
      <3>5. CASE OnTool(ev, "block_delta") /\ s = st
        BY <1>5, <1>6, <2>2, <2>4, <3>5
      <3> QED BY <2>1, <3>1, <3>2, <3>3, <3>4, <3>5
           DEF AnthropicCases, s, p, WithPrompt, WithCompletion, WithTool
    <2> QED BY <1>9, <2>5 DEF Billed, s, e
  <1> QED BY <1>7, <1>8, <1>9 DEF Kinds

\* The usage that is billed is the upstream's last report among the events it
\* has sent, though the client did not ask for it, hung up before it was written,
\* or the stream broke off later (provider_openai.go:259-278,
\* translate_anthropic.go:966, 1024, translate_gemini.go:792-794).
THEOREM BillsTheLastReport == Spec => []BilledIsReported
  <1>1. Init => RInv /\ RelayOK /\ BilledIsReported
    <2> SUFFICES ASSUME Init PROVE RInv /\ RelayOK /\ BilledIsReported
      OBVIOUS
    <2>1. delivered = <<>> /\ delivered \in Seq(Evs) /\ Len(delivered) = 0 /\ st.u = NoUsage
      BY DEF Init, NewState
    <2>2. \A Q : At(delivered, Q) = {}
      BY <2>1 DEF At
    <2>3. Billed(st, delivered)
      BY <2>1, <2>2 DEF Billed, Total, Prompt, Completion, NoUsage
    <2> QED BY <2>1, <2>3, BilledDef, RInvInit, RelayOKInit
  <1>2. ASSUME RInv, RelayOK, BilledIsReported, [Next]_vars PROVE BilledIsReported'
    <2>0. delivered \in Seq(Evs) /\ kind \in Kinds /\ Pending \in Evs /\ st \in States
      BY <1>2, WireType, PendingType DEF RInv, ReaderTypes, RelayOK
    <2>1. RInv' /\ kind' = kind
      BY <1>2, RInvNext, RelayStep
    <2>2. BilledIsReported' <=> Billed(st', delivered')
      <3>1. (delivered \in Seq(Evs))'
        BY <2>1 DEF RInv, ReaderTypes
      <3>2. (BilledIsReported <=> Billed(st, delivered))'
        BY <3>1, BilledDef, PTL
      <3> QED BY <2>1, <3>2 DEF Billed
    <2>3. Billed(st, delivered)
      BY <1>2, <2>0, BilledDef
    <2>4. CASE Silent
      BY <2>2, <2>3, <2>4 DEF Silent
    <2>5. ASSUME NEW r, Answers(r) PROVE BilledIsReported'
      <3>1. CASE delivered' = Append(delivered, Pending) /\ r = Handle(Pending)
        <4>1. st' = Handle(Pending).st
          BY <2>5, <3>1 DEF Answers
        <4>2. Billed(Handle(Pending).st, Append(delivered, Pending))
          BY <2>0, <2>3, BilledNext
        <4> QED BY <2>2, <3>1, <4>1, <4>2
      <3>2. CASE delivered' = delivered /\ r = Result(st, <<>>, FALSE)
        <4>1. st' = st
          BY <2>5, <3>2 DEF Answers, Result
        <4> QED BY <2>2, <2>3, <3>2, <4>1
      <3> QED BY <2>5, <3>1, <3>2 DEF Answers, Handed
    <2> QED BY <1>2, <2>4, <2>5, RelayStep
  <1>3. (RInv /\ RelayOK /\ BilledIsReported) /\ [Next]_vars => (RInv /\ RelayOK /\ BilledIsReported)'
    BY <1>2, RInvNext, RelayOKNext
  <1> QED BY <1>1, <1>3, PTL DEF Spec

-----------------------------------------------------------------------------
(* The fragments of a tool call.                                           *)

\* The call of content block i was announced among C, under index x.
Announced(C, x, i) == \E j \in 1..Len(C) : C[j].type = "tool" /\ C[j].index = x /\ C[j].from = i

\* Fragments of the input belong to a call that was announced before them.
ArgsFollow(C) ==
    \A i \in 1..Len(C) : C[i].type = "args" =>
        \E j \in 1..(i - 1) : C[j].type = "tool" /\ C[j].index = C[i].index /\ C[j].from = C[i].from

\* Chunks that may follow C: fragments only of announced calls.
Backed(C) == {c \in Chunks : c.type = "args" => Announced(C, c.index, c.from)}

\* The blocks that have a number have announced their calls under it, and every
\* block that the upstream has announced has one.
Numbered ==
    /\ \A i \in DOMAIN st.ordinals : Announced(out, st.ordinals[i], i)
    /\ \A k \in 1..Len(delivered) : OnTool(delivered[k], "block_start") =>
          Decoded(delivered[k]).index \in DOMAIN st.ordinals

FragInv ==
    /\ Tools(out, 0, st.next) /\ ArgsFollow(out)
    /\ kind = "anthropic" /\ status = "open" => Numbered

\* A call stays announced.
LEMMA AnnouncedGrows ==
  ASSUME NEW C \in Seq(Chunks), NEW D \in Seq(Chunks), NEW x, NEW i, Announced(C, x, i)
  PROVE  Announced(C \o D, x, i)
  <1> DEFINE E == C \o D
  <1>1. \A j \in 1..Len(C) : j \in 1..Len(E) /\ E[j] = C[j]
    BY ConcatElements
  <1> HIDE DEF E
  <1>2. Announced(E, x, i)
    BY <1>1 DEF Announced
  <1> QED BY <1>2 DEF E

\* Fragments that follow.
LEMMA ArgsConcat ==
  ASSUME NEW C \in Seq(Chunks), ArgsFollow(C), NEW D \in Seq(Backed(C))
  PROVE  ArgsFollow(C \o D)
  <1> DEFINE E == C \o D
             c == Len(C)
  <1>0. D \in Seq(Chunks)
    <2>1. Backed(C) \subseteq Chunks
      BY DEF Backed
    <2> QED BY <2>1, SeqSubset
  <1>1. /\ c \in Nat /\ Len(D) \in Nat
        /\ \A i \in 1..c : i \in 1..Len(E) /\ E[i] = C[i]
        /\ \A i \in 1..Len(D) : i + c \in 1..Len(E) /\ E[i + c] = D[i]
        /\ \A i \in 1..Len(E) : i \in 1..c \/ \E j \in 1..Len(D) : i = j + c
    <2>1. c \in Nat /\ Len(D) \in Nat /\ \A i \in 1..c : i \in 1..Len(E) /\ E[i] = C[i]
      BY <1>0, ConcatElements
    <2>2. \A i \in 1..Len(D) : i + c \in 1..Len(E) /\ E[i + c] = D[i]
      BY <1>0, ConcatElements
    <2>3. \A i \in 1..Len(E) : i \in 1..c \/ \E j \in 1..Len(D) : i = j + c
      BY <1>0, ConcatElements
    <2> HIDE DEF E, c
    <2> QED BY <2>1, <2>2, <2>3, Zenon
  <1>2. \A i \in 1..Len(D) : D[i].type = "args" => Announced(C, D[i].index, D[i].from)
    <2>1. \A i \in 1..Len(D) : D[i] \in Backed(C)
      OBVIOUS
    <2> QED BY <2>1 DEF Backed
  <1> HIDE DEF E
  <1>3. ASSUME NEW i \in 1..Len(E), E[i].type = "args"
        PROVE  \E j \in 1..(i - 1) : E[j].type = "tool" /\ E[j].index = E[i].index /\ E[j].from = E[i].from
    <2>1. CASE i \in 1..c
      <3>1. E[i] = C[i]
        BY <1>1, <2>1
      <3>2. PICK j \in 1..(i - 1) : C[j].type = "tool" /\ C[j].index = C[i].index /\ C[j].from = C[i].from
        BY <1>3, <2>1, <3>1 DEF ArgsFollow
      <3>3. j \in 1..c
        BY <1>1, <2>1
      <3>4. E[j] = C[j]
        BY <1>1, <3>3
      <3> QED BY <3>1, <3>2, <3>4
    <2>2. CASE i \notin 1..c
      <3>1. PICK k \in 1..Len(D) : i = k + c
        BY <1>1, <2>2
      <3>2. E[i] = D[k]
        BY <1>1, <3>1
      <3>3. PICK j \in 1..Len(C) : C[j].type = "tool" /\ C[j].index = D[k].index /\ C[j].from = D[k].from
        BY <1>2, <1>3, <3>2 DEF Announced
      <3>4. j \in 1..(i - 1) /\ E[j] = C[j]
        BY <1>1, <3>1, <3>3
      <3> QED BY <3>2, <3>3, <3>4
    <2> QED BY <2>1, <2>2
  <1>4. ArgsFollow(E)
    BY <1>3 DEF ArgsFollow
  <1> QED BY <1>4 DEF E

\* A delta of a tool block finds the number under which its call was announced.
LEMMA DeltaIsNumbered ==
  ASSUME RInv, RelayOK, Numbered, kind = "anthropic", OnTool(Pending, "block_delta"),
         RInv', wire' = wire, delivered' = Append(delivered, Pending)
  PROVE  Decoded(Pending).index \in DOMAIN st.ordinals
  <1> DEFINE e == Events(wire)
             n == Len(delivered)
  <1>1. wire \in Txt /\ [kind |-> kind, wire |-> wire, asked |-> asked] \in Streams
        /\ delivered \in Seq(Evs) /\ Pending \in Evs
    BY WireType, PendingType DEF RInv, ReaderTypes
  <1>2. e \in Seq(Evs) /\ n \in Nat
    <2>1. NumLines(wire) \in Nat
      BY <1>1, LineEndsDef
    <2>2. 0 \in 0..NumLines(wire)
      BY <2>1
    <2> QED BY <1>1, <2>2, TakenType
  <1>3. IsPrefix(Append(delivered, Pending), e)
    <2>1. IsPrefix(delivered, Events(wire))'
      BY DeliveredPrefix, PTL
    <2> QED BY <2>1
  <1>4. /\ Append(delivered, Pending) \in Seq(Evs) /\ Len(Append(delivered, Pending)) = n + 1
        /\ Append(delivered, Pending)[n + 1] = Pending
        /\ \A i \in 1..n : Append(delivered, Pending)[i] = delivered[i]
    BY <1>1
  <1> HIDE DEF e, n
  <1>5. n + 1 <= Len(e) /\ \A i \in 1..(n + 1) : Append(delivered, Pending)[i] = e[i]
    <2> DEFINE d == Append(delivered, Pending)
    <2>1. d \in Seq(Evs) /\ e \in Seq(Evs) /\ IsPrefix(d, e) /\ Len(d) = n + 1
      BY <1>2, <1>3, <1>4
    <2> HIDE DEF d
    <2>2. Len(d) <= Len(e) /\ \A i \in 1..Len(d) : d[i] = e[i]
      BY <2>1, PrefixDef
    <2> QED BY <2>1, <2>2 DEF d
  <1>6. n + 1 \in 1..Len(e) /\ e[n + 1] = Pending /\ \A i \in 1..n : e[i] = delivered[i]
    <2>1. Len(e) \in Nat /\ n + 1 \in 1..(n + 1) /\ \A i \in 1..n : i \in 1..(n + 1)
      BY <1>2
    <2> QED BY <1>2, <1>4, <1>5, <2>1
  <1>7. \A k \in 1..Len(e) : OnTool(e[k], "block_delta") =>
           \E j \in 1..(k - 1) : OnTool(e[j], "block_start") /\ Decoded(e[j]).index = Decoded(e[k]).index
    <2> DEFINE s == [kind |-> kind, wire |-> wire, asked |-> asked]
    <2>1. s \in Streams /\ s.kind = "anthropic" /\ s.wire = wire
      BY <1>1
    <2> HIDE DEF s
    <2> QED BY <2>1, ToolsAnnounced DEF e
  <1>8. PICK j \in 1..((n + 1) - 1) : OnTool(e[j], "block_start") /\ Decoded(e[j]).index = Decoded(Pending).index
    BY <1>6, <1>7
  <1>9. j \in 1..n
    BY <1>2
  <1>10. e[j] = delivered[j]
    BY <1>6, <1>9
  <1> QED BY <1>8, <1>9, <1>10 DEF Numbered, n

\* The chunks of an event refer to announced calls.
LEMMA AnswerBacked ==
  ASSUME RInv, RInv', RelayOK, FragInv, NEW r, Answers(r), UNCHANGED <<wire, kind, asked>>
  PROVE  r.chunks \in Seq(Backed(out))
  <1>1. Handles(r) /\ Handed(r) /\ status = "open"
    BY HandedType DEF Answers
  <1> DEFINE cs == r.chunks
  <1>2. cs \in Seq(Chunks)
    BY <1>1 DEF Handles
  <1> SUFFICES ASSUME NEW k \in 1..Len(cs), cs[k].type = "args"
               PROVE  Announced(out, cs[k].index, cs[k].from)
    <2>1. \A k \in 1..Len(cs) : cs[k] \in Backed(out)
      <3> TAKE k \in 1..Len(cs)
      <3>1. cs[k] \in Chunks
        BY <1>2
      <3> QED BY <3>1 DEF Backed
    <2>2. cs \in Seq(Chunks)
      BY <1>2
    <2> HIDE DEF cs
    <2>3. cs \in Seq(Backed(out))
      BY <2>1, <2>2
    <2> QED BY <2>3 DEF cs
  <1>3. kind = "anthropic"
    BY <1>1 DEF Handles
  <1>4. delivered' = Append(delivered, Pending) /\ r = Handle(Pending)
    <2> SUFFICES ASSUME r = Result(st, <<>>, FALSE) PROVE FALSE
      BY <1>1 DEF Handed
    <2>1. cs = <<>>
      BY DEF Result
    <2>2. Len(cs) = 0
      BY <2>1
    <2> HIDE DEF cs
    <2> QED BY <2>2
  <1>5. Pending \in Evs /\ st \in States
    BY PendingType DEF RInv, RelayOK
  <1>6. AnthropicCases(Pending, r)
    BY <1>3, <1>4, <1>5, AnthropicEffect DEF Handle
  <1> DEFINE i == Decoded(Pending).index
             c == Chunk("args", Ordinal(i), i)
  <1>7. OnTool(Pending, "block_delta") /\ cs = <<c>>
    <2>1. ASSUME NEW t, NEW a, NEW b, cs = <<Chunk(t, a, b)>> PROVE t = "args"
      <3> DEFINE d == Chunk(t, a, b)
      <3>1. d.type = t
        BY DEF Chunk
      <3> HIDE DEF d
      <3>2. cs = <<d>>
        BY <2>1 DEF d
      <3>3. Len(cs) = 1 /\ cs[1] = d
        BY <3>2
      <3>4. k = 1
        BY <3>3
      <3> QED BY <3>1, <3>3, <3>4
    <2>2. cs # <<>>
      OBVIOUS
    <2> HIDE DEF cs
    <2>3. AnthropicCases(Pending, r) /\ r.chunks = cs
      BY <1>6 DEF cs
    <2>4. "text" # "args" /\ "error" # "args" /\ "role" # "args" /\ "finish" # "args" /\ "tool" # "args"
      OBVIOUS
    <2> QED BY <2>1, <2>2, <2>3, <2>4 DEF AnthropicCases
  <1>8. i \in DOMAIN st.ordinals
    BY <1>1, <1>3, <1>4, <1>7, DeltaIsNumbered DEF FragInv
  <1>9. i \in Nat
    BY <1>5, <1>7, DecodedType DEF OnTool, Named, Payloads
  <1>10. Ordinal(i) = st.ordinals[i] /\ Ordinal(i) \in Nat
    BY <1>5, <1>8, <1>9, WithOrdinalType DEF Ordinal
  <1>11. c.index = st.ordinals[i] /\ c.from = i
    BY <1>10 DEF Chunk
  <1>12. Announced(out, st.ordinals[i], i)
    BY <1>1, <1>3, <1>8 DEF FragInv, Numbered
  <1> HIDE DEF c
  <1>13. cs[k] = c
    <2>1. Len(cs) = 1 /\ cs[1] = c
      BY <1>7
    <2>2. k = 1
      BY <2>1
    <2> QED BY <2>1, <2>2
  <1> HIDE DEF i, cs
  <1> QED BY <1>11, <1>12, <1>13

\* The numbers after an event.
LEMMA NumberedNext ==
  ASSUME RInv, RelayOK, Numbered, kind = "anthropic", NEW r, Answers(r), status' = "open"
  PROVE  Numbered'
  <1>0. delivered \in Seq(Evs) /\ Pending \in Evs /\ st \in States /\ out \in Seq(Chunks)
    BY PendingType DEF RInv, ReaderTypes, RelayOK
  <1>1. Handed(r) /\ st' = r.st /\ out' = out \o r.chunks
    BY DEF Answers, Lost
  <1>2. Handles(r) /\ r.chunks \in Seq(Chunks)
    BY <1>1, HandedType DEF Handles
  <1>3. \A x, i : Announced(out, x, i) => Announced(out', x, i)
    <2> DEFINE cs == r.chunks
    <2>1. cs \in Seq(Chunks) /\ out' = out \o cs
      BY <1>1, <1>2
    <2> HIDE DEF cs
    <2> QED BY <1>0, <2>1, AnnouncedGrows
  <1>4. ASSUME st'.ordinals = st.ordinals,
               \/ delivered' = delivered
               \/ delivered' = Append(delivered, Pending) /\ ~OnTool(Pending, "block_start")
        PROVE  Numbered'
    <2>1. \A i \in DOMAIN st'.ordinals : Announced(out', st'.ordinals[i], i)
      BY <1>3, <1>4 DEF Numbered
    <2>2. \A k \in 1..Len(delivered') : OnTool(delivered'[k], "block_start") =>
             Decoded(delivered'[k]).index \in DOMAIN st'.ordinals
      <3>1. CASE delivered' = delivered
        BY <1>4, <3>1 DEF Numbered
      <3>2. CASE delivered' = Append(delivered, Pending) /\ ~OnTool(Pending, "block_start")
        <4> DEFINE e == delivered'
        <4>1. Len(e) = Len(delivered) + 1 /\ e[Len(delivered) + 1] = Pending /\ Len(delivered) \in Nat
              /\ \A j \in 1..Len(delivered) : e[j] = delivered[j]
          BY <1>0, <3>2
        <4> HIDE DEF e
        <4>2. \A k \in 1..Len(e) : OnTool(e[k], "block_start") => Decoded(e[k]).index \in DOMAIN st.ordinals
          <5> TAKE k \in 1..Len(e)
          <5>1. k \in 1..Len(delivered) \/ k = Len(delivered) + 1
            BY <4>1
          <5> QED BY <3>2, <4>1, <5>1 DEF Numbered
        <4> QED BY <1>4, <4>2 DEF e
      <3> QED BY <1>4, <3>1, <3>2
    <2> QED BY <2>1, <2>2 DEF Numbered, OnTool, Named, Decoded, Decodes
  <1>5. CASE delivered' = delivered /\ r = Result(st, <<>>, FALSE)
    <2>1. st' = st
      BY <1>1, <1>5 DEF Result
    <2> QED BY <1>4, <1>5, <2>1
  <1>6. CASE delivered' = Append(delivered, Pending) /\ r = Handle(Pending)
    <2> DEFINE p == Decoded(Pending)
    <2>1. AnthropicCases(Pending, r)
      BY <1>0, <1>6, AnthropicEffect DEF Handle
    <2>2. Decodes(Pending) => p.prompt \in Nat /\ p.completion \in Nat /\ p.index \in Nat
      BY <1>0, DecodedType DEF Payloads
    <2>3. \A name \in {"message_start", "message_delta", "block_delta"} :
            Named(Pending, name) => ~OnTool(Pending, "block_start")
      <3> TAKE name \in {"message_start", "message_delta", "block_delta"}
      <3> HAVE Named(Pending, name)
      <3>1. Pending.event[1] = name
        BY <1>0, NamedDef
      <3> QED BY <1>0, <3>1, NamedDef DEF OnTool
    <2> HIDE DEF p
    <2>4. CASE r.st = st /\ ~OnTool(Pending, "block_start")
      BY <1>1, <1>4, <1>6, <2>4
    <2>5. CASE Named(Pending, "message_start") /\ r.st = WithPrompt(p.prompt)
      <3>1. st'.ordinals = st.ordinals
        BY <1>0, <1>1, <2>2, <2>5, StateWith DEF Named
      <3> QED BY <1>4, <1>6, <2>3, <2>5, <3>1
    <2>6. CASE Named(Pending, "message_delta") /\ r.st = WithCompletion(p.completion)
      <3>1. st'.ordinals = st.ordinals
        BY <1>0, <1>1, <2>2, <2>6, StateWith DEF Named
      <3> QED BY <1>4, <1>6, <2>3, <2>6, <3>1
    <2>7. CASE OnTool(Pending, "block_start") /\ r.st = WithTool(WithOrdinal(p.index))
               /\ r.chunks = <<Chunk("tool", st.next, p.index)>>
      <3> DEFINE i == p.index
                 f == WithOrdinal(i)
                 c == Chunk("tool", st.next, i)
      <3>1. i \in Nat
        BY <2>2, <2>7 DEF OnTool, Named
      <3>2. /\ f \in Ords /\ DOMAIN f = DOMAIN st.ordinals \cup {i} /\ f[i] = st.next
            /\ \A k \in DOMAIN st.ordinals : k # i => f[k] = st.ordinals[k]
        BY <1>0, <3>1, WithOrdinalType
      <3> HIDE DEF i, f
      <3>3. st'.ordinals = f
        BY <1>0, <1>1, <2>7, <3>2, StateWith DEF i, f
      <3>4. Announced(out', st.next, i)
        <4>1. c.type = "tool" /\ c.index = st.next /\ c.from = i
          BY DEF Chunk
        <4>2. out' = out \o <<c>>
          BY <1>1, <2>7 DEF i
        <4>3. <<c>> \in Seq(Chunks) /\ Len(<<c>>) = 1 /\ <<c>>[1] = c
          <5>1. r.chunks = <<c>>
            BY <2>7 DEF i
          <5> HIDE DEF c
          <5> QED BY <1>2, <5>1
        <4> HIDE DEF c
        <4>4. 1 + Len(out) \in 1..Len(out \o <<c>>) /\ (out \o <<c>>)[1 + Len(out)] = c
          BY <1>0, <4>3, ConcatElements
        <4> QED BY <4>1, <4>2, <4>4 DEF Announced
      <3>5. \A k \in DOMAIN st'.ordinals : Announced(out', st'.ordinals[k], k)
        <4> TAKE k \in DOMAIN st'.ordinals
        <4>1. CASE k = i
          BY <3>2, <3>3, <3>4, <4>1
        <4>2. CASE k # i
          <5>1. k \in DOMAIN st.ordinals /\ f[k] = st.ordinals[k]
            BY <3>2, <3>3, <4>2
          <5> QED BY <1>3, <3>3, <5>1 DEF Numbered
        <4> QED BY <4>1, <4>2
      <3>6. \A k \in 1..Len(delivered') : OnTool(delivered'[k], "block_start") =>
               Decoded(delivered'[k]).index \in DOMAIN st'.ordinals
        <4> DEFINE e == delivered'
        <4>1. Len(e) = Len(delivered) + 1 /\ e[Len(delivered) + 1] = Pending /\ Len(delivered) \in Nat
              /\ \A j \in 1..Len(delivered) : e[j] = delivered[j]
          BY <1>0, <1>6
        <4> HIDE DEF e
        <4>2. \A k \in 1..Len(e) : OnTool(e[k], "block_start") => Decoded(e[k]).index \in DOMAIN f
          <5> TAKE k \in 1..Len(e)
          <5>1. k \in 1..Len(delivered) \/ k = Len(delivered) + 1
            BY <4>1
          <5> QED BY <3>2, <4>1, <5>1 DEF Numbered, i, p
        <4> QED BY <3>3, <4>2 DEF e
      <3> QED BY <3>5, <3>6 DEF Numbered, OnTool, Named, Decoded, Decodes
    <2>8. CASE OnTool(Pending, "block_delta") /\ r.st = st
      <3>1. ~OnTool(Pending, "block_start")
        BY <2>3, <2>8 DEF OnTool
      <3> QED BY <2>4, <2>8, <3>1
    <2> QED BY <2>1, <2>4, <2>5, <2>6, <2>7, <2>8
         DEF AnthropicCases, p, WithPrompt, WithCompletion, WithTool
  <1> QED BY <1>1, <1>5, <1>6 DEF Handed

\* Every step keeps FragInv.
LEMMA FragInvNext ==
  ASSUME RInv, RelayOK, FragInv, [Next]_vars
  PROVE  FragInv'
  <1>0. UNCHANGED <<wire, kind, asked>> /\ RInv' /\ RelayOK'
    BY RelayStep, RInvNext, RelayOKNext
  <1>1. CASE Silent
    <2>1. status' = "open" => status = "open"
      BY <1>1 DEF Silent
    <2>2. out' = out /\ st' = st /\ delivered' = delivered /\ kind' = kind
      BY <1>0, <1>1 DEF Silent
    <2>3. Numbered => Numbered'
      BY <2>2 DEF Numbered, OnTool, Named, Decoded, Decodes
    <2> QED BY <2>1, <2>2, <2>3 DEF FragInv
  <1>2. ASSUME NEW r, Answers(r) PROVE FragInv'
    <2>1. Handles(r) /\ Handed(r) /\ status = "open" /\ st' = r.st
      BY <1>2, HandedType DEF Answers
    <2>2. st.next \in Nat /\ st'.next \in Nat /\ st.next <= st'.next /\ out \in Seq(Chunks)
      BY <1>0, <2>1 DEF RelayOK, States, Handles
    <2> DEFINE cs == r.chunks
               U == UsageChunk
               E == DoneChunk
               lo == st.next
               hi == st'.next
    <2>3. /\ U \in Seq({c \in Chunks : c.type = "usage"}) /\ E \in Seq({c \in Chunks : c.type = "done"})
      BY ClosingType
    <2>u. U \in Seq(Chunks) /\ E \in Seq(Chunks) /\ NoTools(U) /\ NoTools(E)
          /\ U \in Seq(Backed(out)) /\ E \in Seq(Backed(out))
      <3> DEFINE V == {c \in Chunks : c.type = "usage"}
                 F == {c \in Chunks : c.type = "done"}
      <3>1. V \subseteq Chunks /\ F \subseteq Chunks /\ V \subseteq Backed(out) /\ F \subseteq Backed(out)
        BY DEF Backed
      <3>2. (\A c \in V : c.type # "tool") /\ (\A c \in F : c.type # "tool")
        OBVIOUS
      <3> HIDE DEF V, F, U, E
      <3>3. U \in Seq(V) /\ E \in Seq(F)
        BY <2>3 DEF V, F
      <3>4. (\A i \in 1..Len(U) : U[i] \in V) /\ (\A i \in 1..Len(E) : E[i] \in F)
        BY <3>3
      <3> QED BY <3>1, <3>2, <3>3, <3>4, SeqSubset DEF NoTools
    <2>4. cs \in Seq(Chunks) /\ Tools(cs, lo, hi)
      BY <2>1 DEF Handles
    <2>5. cs \in Seq(Backed(out))
      BY <1>0, <1>2, AnswerBacked
    <2>6. \E D \in Seq(Backed(out)) : out' = out \o D
      <3>1. Backed(out) \in SUBSET Chunks
        BY DEF Backed
      <3> QED BY <1>2, <2>5, <2>u, <3>1, AnswerGrows
    <2>7. ArgsFollow(out')
      BY <2>2, <2>6, ArgsConcat DEF FragInv
    <2>8. kind' = "anthropic" /\ status' = "open" => Numbered'
      BY <1>0, <1>2, <2>1, NumberedNext DEF FragInv
    <2>z. 0 \in Nat /\ 0 <= lo /\ lo <= hi /\ lo \in Nat /\ hi \in Nat /\ hi <= hi
      BY <2>2
    <2>o. out \in Seq(Chunks) /\ Tools(out, 0, lo)
      BY <2>2 DEF FragInv
    <2> HIDE DEF cs, U, E, lo, hi
    <2>e. <<>> \in Seq(Chunks) /\ NoTools(<<>>)
      BY DEF NoTools
    <2>9. ASSUME NEW D \in Seq(Chunks), Tools(D, lo, hi) PROVE Tools(out \o D, 0, hi)
      BY <2>9, <2>z, <2>o, ToolsConcat
    <2>10. ASSUME NEW T \in {<<>>, U}
           PROVE  cs \o T \in Seq(Chunks) /\ Tools(cs \o T, lo, hi)
      <3>1. T \in Seq(Chunks) /\ NoTools(T)
        BY <2>u, <2>e
      <3>2. Tools(T, hi, hi)
        BY <2>z, <3>1, ToolsNone
      <3>3. cs \o T \in Seq(Chunks)
        BY <2>4, <3>1, ConcatElements
      <3>4. Tools(cs \o T, lo, hi)
        BY <2>4, <2>z, <3>1, <3>2, ToolsConcat
      <3> QED BY <3>3, <3>4
    <2>11. Tools(out', 0, hi)
      <3>1. CASE status' = "open" /\ out' = out \o cs
        BY <2>4, <2>9, <3>1
      <3>2. ASSUME NEW T \in {<<>>, U}, NEW n \in 0..Len(cs \o T), out' = out \o SubSeq(cs \o T, 1, n)
            PROVE  Tools(out', 0, hi)
        <4> DEFINE m == cs \o T
        <4>1. m \in Seq(Chunks) /\ Tools(m, lo, hi) /\ n \in 0..Len(m) /\ out' = out \o SubSeq(m, 1, n)
          BY <2>10, <3>2
        <4> HIDE DEF m
        <4>2. SubSeq(m, 1, n) \in Seq(Chunks) /\ Tools(SubSeq(m, 1, n), lo, hi)
          BY <2>z, <4>1, FirstElements, ToolsFirst
        <4> QED BY <2>9, <4>1, <4>2
      <3>3. CASE out' = (out \o (cs \o U)) \o E
        <4> DEFINE m == cs \o U
                   w == out \o m
        <4>1. m \in Seq(Chunks) /\ Tools(m, lo, hi)
          BY <2>10
        <4> HIDE DEF m
        <4>2. Tools(w, 0, hi) /\ w \in Seq(Chunks)
          BY <2>9, <2>o, <4>1, ConcatElements
        <4>3. out' = w \o E
          BY <3>3 DEF m
        <4>4. Tools(E, hi, hi)
          BY <2>u, <2>z, ToolsNone
        <4>z. 0 <= hi
          BY <2>z
        <4> HIDE DEF w
        <4>5. Tools(w \o E, 0, hi)
          BY <2>u, <2>z, <4>2, <4>4, <4>z, ToolsConcat
        <4> QED BY <4>3, <4>5
      <3>4. CASE out' = out
        <4> DEFINE m == cs \o <<>>
        <4>1. m \in Seq(Chunks) /\ Len(m) \in Nat
          BY <2>4, <2>e, ConcatElements
        <4> HIDE DEF m
        <4>2. SubSeq(m, 1, 0) = <<>> /\ 0 \in 0..Len(m) /\ out \o <<>> = out
          BY <2>o, <4>1, ConcatEmptySeq
        <4>3. out' = out \o SubSeq(m, 1, 0)
          BY <3>4, <4>2
        <4> QED BY <3>2, <4>2, <4>3 DEF m
      <3>5. CASE out' = out \o (cs \o U)
        BY <2>9, <2>10, <3>5
      <3> QED BY <1>2, <3>1, <3>2, <3>3, <3>4, <3>5 DEF Answers, cs, U, E
    <2> QED BY <2>7, <2>8, <2>11 DEF FragInv, hi
  <1> QED BY <1>1, <1>2, RelayStep

\* The client can put tool calls together: an index stands for one call, whose
\* announcement comes before the fragments of its input, also when blocks of
\* text and of tools interleave (translate_anthropic.go:969-1014,
\* translate_gemini.go:815-841).
THEOREM FragmentsBelongTogether == Spec => []FragmentsTogether
  <1>1. Init => RInv /\ RelayOK /\ FragInv
    <2> SUFFICES ASSUME Init PROVE RInv /\ RelayOK /\ FragInv
      OBVIOUS
    <2>1. Len(out) = 0 /\ Len(delivered) = 0 /\ DOMAIN st.ordinals = {}
      BY DEF Init, NewState
    <2>2. FragInv
      BY <2>1 DEF FragInv, Tools, ArgsFollow, Numbered
    <2> QED BY <2>2, RInvInit, RelayOKInit
  <1>2. (RInv /\ RelayOK /\ FragInv) /\ [Next]_vars => (RInv /\ RelayOK /\ FragInv)'
    BY RInvNext, RelayOKNext, FragInvNext
  <1>3. (RInv /\ RelayOK /\ FragInv) => FragmentsTogether
    BY DEF FragInv, Tools, ArgsFollow, FragmentsTogether
  <1> QED BY <1>1, <1>2, <1>3, PTL DEF Spec

-----------------------------------------------------------------------------
(* Flattening, one sequence at a time.                                     *)

\* What FlattenSeq's function has at i, from its value before i.
Joined(s, g, i) == IF i = 1 THEN s[i] ELSE g[i - 1] \o s[i]

IsJoined(s, f, n) == f = [i \in 1..n |-> Joined(s, f, i)]

\* The recursion defines a function.
LEMMA JoinedExists ==
  ASSUME NEW s, NEW n \in Nat
  PROVE  \E f : f = [i \in 1..n |-> Joined(s, f, i)]
  <1> DEFINE T == {m \in Nat : \E g : g = [i \in 1..m |-> Joined(s, g, i)]}
  <1>1. 0 \in T
    <2> DEFINE g == [i \in 1..0 |-> <<>>]
    <2>1. g = [i \in 1..0 |-> Joined(s, g, i)]
      OBVIOUS
    <2> QED BY <2>1
  <1>2. ASSUME NEW m \in T PROVE m + 1 \in T
    <2>1. m \in Nat
      OBVIOUS
    <2>2. PICK g : g = [i \in 1..m |-> Joined(s, g, i)]
      OBVIOUS
    <2> DEFINE h == [i \in 1..(m + 1) |-> IF i = m + 1 THEN Joined(s, g, m + 1) ELSE g[i]]
    <2>3. \A i \in 1..(m + 1) : h[i] = Joined(s, h, i)
      <3> TAKE i \in 1..(m + 1)
      <3>1. CASE i \in 1..m
        <4>1. i # m + 1 /\ (i # 1 => i - 1 \in 1..m /\ i - 1 \in 1..(m + 1) /\ i - 1 # m + 1)
          BY <2>1, <3>1
        <4>2. h[i] = g[i] /\ (i # 1 => h[i - 1] = g[i - 1])
          BY <4>1
        <4>3. g[i] = Joined(s, g, i)
          BY <2>2, <3>1
        <4> QED BY <4>2, <4>3 DEF Joined
      <3>2. CASE i = m + 1
        <4>1. i # 1 => i - 1 = m /\ m \in 1..(m + 1) /\ m # m + 1
          BY <2>1, <3>2
        <4>2. h[i] = Joined(s, g, m + 1) /\ (i # 1 => h[m] = g[m])
          BY <3>2, <4>1
        <4> QED BY <3>2, <4>1, <4>2 DEF Joined
      <3> QED BY <2>1, <3>1, <3>2
    <2>4. h = [i \in 1..(m + 1) |-> Joined(s, h, i)]
      BY <2>3
    <2>5. m + 1 \in Nat
      BY <2>1
    <2> HIDE DEF h
    <2> QED BY <2>4, <2>5
  <1>3. n \in T
    <2> HIDE DEF T
    <2>1. T \in SUBSET Nat
      BY DEF T
    <2> QED BY <1>1, <1>2, <2>1, SetInduction
  <1> QED BY <1>3

\* FlattenSeq is the last value of such a function.
LEMMA FlattenFunction ==
  ASSUME NEW s, Len(s) \in Nat, Len(s) # 0
  PROVE  \E f : IsJoined(s, f, Len(s)) /\ FlattenSeq(s) = f[Len(s)]
  <1> DEFINE f == CHOOSE g : g = [i \in 1..Len(s) |-> Joined(s, g, i)]
  <1>1. f = [i \in 1..Len(s) |-> Joined(s, f, i)]
    BY JoinedExists
  <1>2. FlattenSeq(s) = f[Len(s)]
    BY DEF FlattenSeq, Joined
  <1> HIDE DEF f
  <1> QED BY <1>1, <1>2 DEF IsJoined

Agree(s, t, n) == \A i \in 1..n : s[i] = t[i]

\* Two such functions have the same values where their sequences agree.
LEMMA JoinedSame ==
  ASSUME NEW s, NEW t, NEW n \in Nat, NEW a \in Nat, NEW b \in Nat, n <= a, n <= b, n # 0,
         Agree(s, t, n),
         NEW f, IsJoined(s, f, a), NEW g, IsJoined(t, g, b)
  PROVE  f[n] = g[n]
  <1> DEFINE P == {m \in Nat : m + 1 <= n => f[m + 1] = g[m + 1]}
  <1>1. 0 \in P
    <2> DEFINE o == 0 + 1
    <2>1. o \in 1..a /\ o \in 1..b /\ o = 1 /\ o \in 1..n
      OBVIOUS
    <2> HIDE DEF o
    <2>2. f[o] = Joined(s, f, o) /\ g[o] = Joined(t, g, o)
      BY <2>1 DEF IsJoined
    <2>3. f[o] = g[o]
      BY <2>1, <2>2 DEF Joined, Agree
    <2> QED BY <2>3 DEF o
  <1>2. ASSUME NEW m \in P PROVE m + 1 \in P
    <2>1. m \in Nat /\ (m + 1 <= n => f[m + 1] = g[m + 1])
      OBVIOUS
    <2> DEFINE x == (m + 1) + 1
    <2>2. SUFFICES ASSUME x <= n PROVE f[x] = g[x]
      BY <2>1
    <2>3. x \in 1..a /\ x \in 1..b /\ x \in 1..n /\ x # 1 /\ x - 1 = m + 1 /\ m + 1 <= n
      BY <2>1, <2>2
    <2> HIDE DEF x
    <2>4. f[x] = Joined(s, f, x) /\ g[x] = Joined(t, g, x)
      BY <2>3 DEF IsJoined
    <2>5. f[m + 1] = g[m + 1] /\ s[x] = t[x]
      BY <2>1, <2>3 DEF Agree
    <2> QED BY <2>3, <2>4, <2>5 DEF Joined
  <1>3. n - 1 \in P
    <2>1. n - 1 \in Nat
      OBVIOUS
    <2> HIDE DEF P
    <2>2. P \in SUBSET Nat
      BY DEF P
    <2> QED BY <1>1, <1>2, <2>1, <2>2, SetInduction
  <1>4. (n - 1) + 1 = n
    OBVIOUS
  <1> QED BY <1>3, <1>4

\* Flattening, one sequence at a time.
LEMMA FlattenNext ==
  ASSUME NEW X, NEW s \in Seq(Seq(X)), NEW x \in Seq(X)
  PROVE  /\ FlattenSeq(<<>>) = <<>>
         /\ FlattenSeq(Append(s, x)) = IF s = <<>> THEN x ELSE FlattenSeq(s) \o x
  <1>1. FlattenSeq(<<>>) = <<>>
    BY DEF FlattenSeq
  <1> DEFINE t == Append(s, x)
             n == Len(s)
  <1>2. Len(t) = n + 1 /\ n \in Nat /\ t[n + 1] = x /\ (\A i \in 1..n : s[i] = t[i]) /\ (n = 0 <=> s = <<>>)
    OBVIOUS
  <1> HIDE DEF t, n
  <1>3. Len(t) \in Nat /\ Len(t) # 0 /\ n + 1 \in Nat /\ n + 1 \in 1..(n + 1) /\ (n + 1) - 1 = n
        /\ (n + 1 = 1 <=> n = 0) /\ n <= n + 1 /\ n <= n
    BY <1>2
  <1>4. PICK g : IsJoined(t, g, n + 1) /\ FlattenSeq(t) = g[n + 1]
    BY <1>2, <1>3, FlattenFunction
  <1>5. g[n + 1] = Joined(t, g, n + 1)
    BY <1>3, <1>4 DEF IsJoined
  <1>6. CASE n = 0
    BY <1>1, <1>2, <1>3, <1>4, <1>5, <1>6 DEF Joined, t
  <1>7. CASE n # 0
    <2>1. PICK f : IsJoined(s, f, n) /\ FlattenSeq(s) = f[n]
      BY <1>2, <1>7, FlattenFunction DEF n
    <2>2. f[n] = g[n]
      <3> DEFINE b == n + 1
      <3>1. b \in Nat /\ n \in Nat /\ n <= b /\ n <= n /\ n # 0 /\ IsJoined(t, g, b)
            /\ Agree(s, t, n)
        BY <1>2, <1>3, <1>4, <1>7 DEF Agree
      <3> HIDE DEF b
      <3> QED BY <2>1, <3>1, JoinedSame
    <2>3. FlattenSeq(t) = g[n] \o x
      BY <1>2, <1>3, <1>4, <1>5, <1>7 DEF Joined
    <2> QED BY <1>1, <1>2, <1>7, <2>1, <2>2, <2>3 DEF t
  <1> QED BY <1>6, <1>7

\* Flattening gives a sequence.
LEMMA FlattenSeqType ==
  ASSUME NEW X, NEW s \in Seq(Seq(X))
  PROVE  FlattenSeq(s) \in Seq(X)
  <1> DEFINE P == {m \in Nat : m <= Len(s) => FlattenSeq(First(s, m)) \in Seq(X)}
             Y == Seq(X)
  <1>0. Len(s) \in Nat /\ s \in Seq(Y)
    OBVIOUS
  <1>1. 0 \in P
    <2>1. First(s, 0) = <<>>
      BY FirstEnds
    <2>2. FlattenSeq(<<>>) = <<>>
      BY DEF FlattenSeq
    <2>3. <<>> \in Seq(X)
      OBVIOUS
    <2> QED BY <2>1, <2>2, <2>3
  <1>2. ASSUME NEW m \in P PROVE m + 1 \in P
    <2>1. m \in Nat /\ (m <= Len(s) => FlattenSeq(First(s, m)) \in Seq(X))
      OBVIOUS
    <2>2. SUFFICES ASSUME m + 1 <= Len(s) PROVE FlattenSeq(First(s, m + 1)) \in Seq(X)
      BY <2>1
    <2>3. m \in 0..(Len(s) - 1) /\ m <= Len(s)
      BY <1>0, <2>1, <2>2
    <2> DEFINE u == First(s, m)
               y == s[m + 1]
    <2> HIDE DEF Y
    <2>4. u \in Seq(Y) /\ First(s, m + 1) = Append(u, y) /\ y \in Y
      BY <1>0, <2>3, FirstNext
    <2> HIDE DEF u, y
    <2>5. FlattenSeq(Append(u, y)) = IF u = <<>> THEN y ELSE FlattenSeq(u) \o y
      BY <2>4, FlattenNext DEF Y
    <2>6. FlattenSeq(u) \in Seq(X) /\ y \in Seq(X)
      BY <2>1, <2>3, <2>4 DEF u, Y
    <2>7. FlattenSeq(u) \o y \in Seq(X)
      BY <2>6, ConcatElements
    <2> QED BY <2>4, <2>5, <2>6, <2>7
  <1>3. Len(s) \in P
    <2> HIDE DEF P
    <2>1. P \in SUBSET Nat
      BY DEF P
    <2> QED BY <1>0, <1>1, <1>2, <2>1, SetInduction
  <1>4. First(s, Len(s)) = s
    BY FirstEnds
  <1> QED BY <1>0, <1>3, <1>4

\* What the data of an event weighs against the limit.
Weight(d) == Len(FlattenSeq(d)) + Len(d) * Overhead

\* The weight of data, one line at a time.
LEMMA WeightNext ==
  /\ Weight(<<>>) = 0
  /\ \A d \in Seq(Txt) : Weight(d) \in Nat
  /\ \A d \in Seq(Txt), l \in Txt : Weight(Append(d, l)) = Weight(d) + Len(l) + Overhead
  <1>0. Overhead \in Nat
    BY StreamAssumption
  <1>1. FlattenSeq(<<>>) = <<>>
    BY DEF FlattenSeq
  <1>2. Weight(<<>>) = 0
    <2>1. Len(<<>>) = 0
      OBVIOUS
    <2> QED BY <1>0, <1>1, <2>1 DEF Weight
  <1>3. ASSUME NEW d \in Seq(Txt) PROVE Len(FlattenSeq(d)) \in Nat /\ FlattenSeq(d) \in Txt
    <2>1. FlattenSeq(d) \in Seq(Symbols)
      BY FlattenSeqType DEF Txt
    <2> QED BY <2>1 DEF Txt
  <1>4. ASSUME NEW d \in Seq(Txt) PROVE Weight(d) \in Nat
    <2>1. Len(d) \in Nat
      OBVIOUS
    <2> QED BY <1>0, <1>3, <2>1 DEF Weight
  <1>5. ASSUME NEW d \in Seq(Txt), NEW l \in Txt
        PROVE  Weight(Append(d, l)) = Weight(d) + Len(l) + Overhead
    <2> DEFINE e == Append(d, l)
               n == Len(d)
    <2>1. Len(e) = n + 1 /\ n \in Nat /\ Len(l) \in Nat
      BY TxtLen
    <2>2. FlattenSeq(e) = IF d = <<>> THEN l ELSE FlattenSeq(d) \o l
      BY FlattenNext DEF Txt
    <2>3. Len(FlattenSeq(e)) = Len(FlattenSeq(d)) + Len(l)
      <3>1. CASE d = <<>>
        <4>1. Len(FlattenSeq(d)) = 0
          BY <1>1, <3>1
        <4> QED BY <2>1, <2>2, <3>1, <4>1
      <3>2. CASE d # <<>>
        <4> DEFINE u == FlattenSeq(d)
        <4>1. u \in Txt
          BY <1>3
        <4> HIDE DEF u
        <4>2. Len(u \o l) = Len(u) + Len(l)
          BY <4>1, ConcatElements DEF Txt
        <4> QED BY <2>2, <3>2, <4>2 DEF u
      <3> QED BY <3>1, <3>2
    <2> HIDE DEF e, n
    <2>4. (n + 1) * Overhead = n * Overhead + Overhead
      BY <1>0, <2>1
    <2>5. n * Overhead \in Nat
      BY <1>0, <2>1
    <2>6. Weight(e) = (Len(FlattenSeq(d)) + Len(l)) + (n * Overhead + Overhead)
      BY <2>1, <2>3, <2>4 DEF Weight
    <2>7. Weight(d) = Len(FlattenSeq(d)) + n * Overhead
      BY DEF Weight, n
    <2>8. Weight(e) = Weight(d) + Len(l) + Overhead
      <3> DEFINE a == Len(FlattenSeq(d))
                 b == n * Overhead
      <3>1. a \in Nat /\ b \in Nat
        BY <1>3, <2>5
      <3> HIDE DEF a, b
      <3>2. Weight(e) = (a + Len(l)) + (b + Overhead) /\ Weight(d) = a + b
        BY <2>6, <2>7 DEF a, b
      <3> QED BY <1>0, <2>1, <3>1, <3>2
    <2> QED BY <2>8 DEF e
  <1> QED BY <1>2, <1>4, <1>5

-----------------------------------------------------------------------------
(* The limit of an event.                                                  *)

\* Data beyond the limit make an event.
LEMMA HeavyIsEvent ==
  ASSUME NEW ev \in Evs, Weight(ev.data) > MaxEvent
  PROVE  IsEvent(ev)
  <1>0. MaxEvent \in Nat /\ Overhead \in Nat /\ Overhead <= MaxEvent
    BY StreamAssumption
  <1>1. <<>> \in Txt /\ <<>> \in Seq(Txt) /\ Len(<<>>) = 0
    BY DEF Txt
  <1>2. Append(<<>>, <<>>) = << <<>> >>
    OBVIOUS
  <1>3. Weight(<<>>) = 0 /\ Weight(<< <<>> >>) = Overhead
    <2>1. Weight(Append(<<>>, <<>>)) = Weight(<<>>) + Len(<<>>) + Overhead
      BY <1>1, WeightNext
    <2>2. Weight(<<>>) = 0
      BY WeightNext
    <2>3. Weight(Append(<<>>, <<>>)) = 0 + 0 + Overhead
      BY <1>1, <2>1, <2>2
    <2>4. 0 + 0 + Overhead = Overhead
      BY <1>0
    <2> QED BY <1>2, <2>2, <2>3, <2>4
  <1>4. ev.data # <<>>
    <2> SUFFICES ASSUME ev.data = <<>> PROVE FALSE
      OBVIOUS
    <2>1. Weight(ev.data) = 0
      BY <1>3
    <2> QED BY <1>0, <2>1
  <1>5. ev.data # << <<>> >>
    <2> SUFFICES ASSUME ev.data = << <<>> >> PROVE FALSE
      OBVIOUS
    <2>1. Weight(ev.data) = Overhead
      BY <1>3
    <2> QED BY <1>0, <2>1
  <1> QED BY <1>4, <1>5 DEF IsEvent

\* Some lines say an event, complete or not, that is beyond the limit.
Beyond(evs) == \E i \in 1..Len(evs) : Weight(evs[i].data) > MaxEvent
Heavy(p) == Weight(Gathered(p).data) > MaxEvent \/ Beyond(Complete(p))

\* An event that is beyond the limit stays among more events.
LEMMA BeyondGrows ==
  ASSUME NEW es \in Seq(Evs), NEW ev \in Evs
  PROVE  Beyond(Append(es, ev)) <=> Beyond(es) \/ Weight(ev.data) > MaxEvent
  <1> DEFINE t == Append(es, ev)
             n == Len(es)
  <1>1. Len(t) = n + 1 /\ n \in Nat /\ t[n + 1] = ev /\ \A i \in 1..n : t[i] = es[i]
    OBVIOUS
  <1> HIDE DEF t
  <1>2. (\A i \in 1..Len(t) : i \in 1..n \/ i = n + 1) /\ n + 1 \in 1..Len(t)
        /\ \A i \in 1..n : i \in 1..Len(t)
    BY <1>1
  <1>3. Beyond(t) <=> Beyond(es) \/ Weight(ev.data) > MaxEvent
    BY <1>1, <1>2 DEF Beyond
  <1> QED BY <1>3 DEF t

\* Another line keeps it.
LEMMA HeavyNext ==
  ASSUME NEW p \in Seq(Txt), NEW l \in Txt, Heavy(p)
  PROVE  Heavy(Append(p, l))
  <1>0. MaxEvent \in Nat /\ Overhead \in Nat
    BY StreamAssumption
  <1>1. Complete(p) \in Seq(Evs) /\ Gathered(p) \in Evs
    BY ReadTypes
  <1>2. Gathered(p).data \in Seq(Txt)
    BY <1>1 DEF Evs
  <1>3. CASE l = <<>>
    <2>1. Complete(Append(p, <<>>)) =
            IF IsEvent(Gathered(p)) THEN Append(Complete(p), Gathered(p)) ELSE Complete(p)
      BY ReadBlank
    <2>2. CASE Weight(Gathered(p).data) > MaxEvent
      <3>1. IsEvent(Gathered(p))
        BY <1>1, <2>2, HeavyIsEvent
      <3>2. Beyond(Append(Complete(p), Gathered(p)))
        BY <1>1, <2>2, BeyondGrows
      <3> QED BY <1>3, <2>1, <3>1, <3>2 DEF Heavy
    <2>3. CASE Beyond(Complete(p))
      <3>1. Beyond(Append(Complete(p), Gathered(p)))
        BY <1>1, <2>3, BeyondGrows
      <3> QED BY <1>3, <2>1, <2>3, <3>1 DEF Heavy
    <2> QED BY <2>2, <2>3 DEF Heavy
  <1>4. CASE l # <<>>
    <2>1. Complete(Append(p, l)) = Complete(p)
          /\ Gathered(Append(p, l)).data =
               (IF Field("data", l) THEN Append(Gathered(p).data, Tail(l)) ELSE Gathered(p).data)
      BY <1>4, ReadField
    <2>2. Tail(l) \in Txt
      BY <1>4, HeadTailProperties DEF Txt
    <2>3. Len(Tail(l)) \in Nat /\ Weight(Gathered(p).data) \in Nat
          /\ Weight(Append(Gathered(p).data, Tail(l))) = Weight(Gathered(p).data) + Len(Tail(l)) + Overhead
      BY <1>2, <2>2, TxtLen, WeightNext
    <2>4. Weight(Append(Gathered(p).data, Tail(l))) >= Weight(Gathered(p).data)
      BY <1>0, <2>3
    <2>5. Weight(Append(Gathered(p).data, Tail(l))) \in Nat
      BY <1>0, <2>3
    <2>6. Weight(Gathered(p).data) > MaxEvent => Weight(Append(Gathered(p).data, Tail(l))) > MaxEvent
      BY <1>0, <2>3, <2>4, <2>5
    <2> QED BY <2>1, <2>6 DEF Heavy
  <1> QED BY <1>3, <1>4

\* What the body's first lines say is beyond the limit in the body's events.
LEMMA HeavyBody ==
  ASSUME NEW w \in Txt, NEW k \in 0..NumLines(w), Heavy(First(Lines(w), k))
  PROVE  Beyond(Events(w))
  <1> DEFINE ls == Lines(w)
             N == NumLines(w)
             T == {m \in Nat : k + m <= N => Heavy(First(ls, k + m))}
  <1>0. ls \in Seq(Txt) /\ Len(ls) = N /\ N \in Nat /\ k \in Nat
    BY LinesDef, LineEndsDef
  <1>1. 0 \in T
    <2>1. k + 0 = k
      BY <1>0
    <2> QED BY <2>1
  <1>2. ASSUME NEW m \in T PROVE m + 1 \in T
    <2>1. m \in Nat /\ (k + m <= N => Heavy(First(ls, k + m)))
      OBVIOUS
    <2> DEFINE j == k + m
    <2>2. k + (m + 1) = j + 1 /\ j \in Nat /\ (j + 1 <= N => j <= N /\ j \in 0..(N - 1))
      BY <1>0, <2>1
    <2>3. SUFFICES ASSUME j + 1 <= N PROVE Heavy(First(ls, j + 1))
      BY <2>1, <2>2
    <2>4. Heavy(First(ls, j)) /\ j \in 0..(Len(ls) - 1)
      BY <1>0, <2>1, <2>2, <2>3
    <2> HIDE DEF j, ls
    <2>5. First(ls, j) \in Seq(Txt) /\ First(ls, j + 1) = Append(First(ls, j), ls[j + 1]) /\ ls[j + 1] \in Txt
      BY <1>0, <2>4, FirstNext
    <2> QED BY <2>4, <2>5, HeavyNext
  <1>3. N - k \in T
    <2>1. N - k \in Nat
      BY <1>0
    <2> HIDE DEF T
    <2>2. T \in SUBSET Nat
      BY DEF T
    <2> QED BY <1>1, <1>2, <2>1, <2>2, SetInduction
  <1>4. Heavy(ls)
    <2>1. k + (N - k) = N /\ N <= N
      BY <1>0
    <2>2. First(ls, Len(ls)) = ls
      BY <1>0, FirstEnds
    <2>3. Heavy(First(ls, k + (N - k)))
      BY <1>3, <2>1
    <2> QED BY <1>0, <2>1, <2>2, <2>3
  <1>5. Complete(ls) \in Seq(Evs) /\ Gathered(ls) \in Evs
    BY <1>0, ReadTypes
  <1>6. Events(w) = IF IsEvent(Gathered(ls)) THEN Append(Complete(ls), Gathered(ls)) ELSE Complete(ls)
    BY <1>0, EventsAreRead
  <1> HIDE DEF ls
  <1>7. CASE Weight(Gathered(ls).data) > MaxEvent
    <2>1. IsEvent(Gathered(ls))
      BY <1>5, <1>7, HeavyIsEvent
    <2> QED BY <1>5, <1>6, <1>7, <2>1, BeyondGrows
  <1>8. CASE Beyond(Complete(ls))
    BY <1>5, <1>6, <1>8, BeyondGrows
  <1> QED BY <1>4, <1>7, <1>8 DEF Heavy

\* The body's events are within the limit just when none is beyond it.
LEMMA EventsFitDef ==
  ASSUME wire \in Txt
  PROVE  EventsFit <=> ~Beyond(Events(wire))
  <1> DEFINE e == Events(wire)
  <1>0. MaxEvent \in Nat
    BY StreamAssumption
  <1>1. e \in Seq(Evs)
    <2>1. NumLines(wire) \in Nat
      BY LineEndsDef
    <2>2. 0 \in 0..NumLines(wire)
      BY <2>1
    <2> QED BY <2>2, TakenType
  <1>2. EventsFit <=> \A ev \in ToSet(e) : Weight(ev.data) <= MaxEvent
    BY DEF EventsFit, Weight
  <1> HIDE DEF e
  <1>3. ToSet(e) = {e[i] : i \in 1..Len(e)}
    BY <1>1 DEF ToSet
  <1>4. \A i \in 1..Len(e) : Weight(e[i].data) \in Nat
    <2> TAKE i \in 1..Len(e)
    <2>1. e[i] \in Evs
      BY <1>1
    <2>2. e[i].data \in Seq(Txt)
      BY <2>1 DEF Evs
    <2> QED BY <2>2, WeightNext
  <1>5. \A i \in 1..Len(e) : Weight(e[i].data) <= MaxEvent <=> ~(Weight(e[i].data) > MaxEvent)
    BY <1>0, <1>4
  <1>6. EventsFit <=> \A i \in 1..Len(e) : Weight(e[i].data) <= MaxEvent
    BY <1>2, <1>3
  <1> QED BY <1>5, <1>6 DEF Beyond, e

\* A field's value, and a longer line's.
LEMMA FieldOfPrefix ==
  ASSUME NEW l \in Txt, NEW m \in Txt, l # <<>>, IsPrefix(l, m), NEW name
  PROVE  /\ m # <<>> /\ (Field(name, l) <=> Field(name, m))
         /\ Tail(l) \in Txt /\ Tail(m) \in Txt /\ IsPrefix(Tail(l), Tail(m)) /\ Len(Tail(l)) <= Len(Tail(m))
  <1>1. l \in Seq(Symbols) /\ m \in Seq(Symbols) /\ Len(l) \in Nat /\ Len(m) \in Nat
    BY TxtLen
  <1>2. Len(l) <= Len(m) /\ \A i \in 1..Len(l) : l[i] = m[i]
    BY <1>1, PrefixDef
  <1>3. Len(l) # 0
    BY <1>1
  <1>4. m # <<>>
    <2> SUFFICES ASSUME m = <<>> PROVE FALSE
      OBVIOUS
    <2>1. Len(m) = 0
      OBVIOUS
    <2> QED BY <1>1, <1>2, <1>3, <2>1
  <1>5. 1 \in 1..Len(l)
    BY <1>1, <1>3
  <1>6. Head(l) = l[1] /\ Head(m) = m[1] /\ l[1] = m[1]
    BY <1>1, <1>2, <1>5
  <1>7. /\ Tail(l) \in Seq(Symbols) /\ Len(Tail(l)) = Len(l) - 1
        /\ \A i \in 1..(Len(l) - 1) : Tail(l)[i] = l[i + 1]
    BY <1>1, HeadTailProperties
  <1>8. /\ Tail(m) \in Seq(Symbols) /\ Len(Tail(m)) = Len(m) - 1
        /\ \A i \in 1..(Len(m) - 1) : Tail(m)[i] = m[i + 1]
    BY <1>1, <1>4, HeadTailProperties
  <1>9. Len(Tail(l)) <= Len(Tail(m)) /\ \A i \in 1..Len(Tail(l)) : Tail(l)[i] = Tail(m)[i]
    <2>1. Len(l) - 1 <= Len(m) - 1
      BY <1>1, <1>2
    <2>2. ASSUME NEW i \in 1..(Len(l) - 1) PROVE l[i + 1] = m[i + 1] /\ i \in 1..(Len(m) - 1)
      <3>1. i + 1 \in 1..Len(l) /\ i \in 1..(Len(m) - 1)
        BY <1>1, <1>2
      <3> QED BY <1>2, <3>1
    <2> QED BY <1>7, <1>8, <2>1, <2>2
  <1>10. IsPrefix(Tail(l), Tail(m))
    <2> DEFINE a == Tail(l)
               b == Tail(m)
    <2>1. a \in Seq(Symbols) /\ b \in Seq(Symbols) /\ Len(a) <= Len(b) /\ \A i \in 1..Len(a) : a[i] = b[i]
      BY <1>7, <1>8, <1>9
    <2> HIDE DEF a, b
    <2>2. IsPrefix(a, b)
      BY <2>1, PrefixDef
    <2> QED BY <2>2 DEF a, b
  <1> QED BY <1>4, <1>6, <1>7, <1>8, <1>9, <1>10 DEF Field, Txt

SizeInv ==
    /\ status = "open" => size = Weight(data) /\ size <= MaxEvent
    /\ ~Beyond(delivered)
    /\ status = "ended" => EventsFit
    /\ why = "size" => ~EventsFit

\* The line that is scanned is the body's next line, or the beginning of it.
LEMMA ScannedPrefix ==
  ASSUME RInv, Advance, Line # <<>>
  PROVE  \E k \in 0..(NumLines(wire) - 1) : AtLine(k) /\ IsPrefix(Line, Lines(wire)[k + 1])
  <1>1. wire \in Txt /\ ReaderTypes
    BY WireType DEF RInv
  <1>2. PICK k \in 0..(NumLines(wire) - 1) :
          /\ AtLine(k)
          /\ \/ Whole(wire, k, Token)
             \/ Torn(wire, k, Token, pos)
    BY TakesLine
  <1>3. First(Lines(wire), k) \in Seq(Txt) /\ Lines(wire)[k + 1] \in Txt /\ k \in 0..NumLines(wire)
    BY <1>1, TakenNext
  <1>4. Token.token \in Txt /\ Line \in Txt
    BY <1>1, TokenType
  <1> DEFINE x == Text(RawLines(wire)[k + 1])
             l == Lines(wire)[k + 1]
  <1>5. CASE Token.token = x
    <2>1. Line = l
      BY <1>1, <1>2, <1>5, LineIsNext
    <2>2. \A y \in Txt : IsPrefix(y, y)
      <3> TAKE y \in Txt
      <3>1. y \in Seq(Symbols) /\ Len(y) \in Nat
        BY TxtLen
      <3> QED BY <3>1, PrefixDef
    <2> QED BY <1>2, <1>4, <2>1, <2>2
  <1>6. CASE Token.token # <<>> /\ IsPrefix(Token.token, x)
    <2>1. x \in Txt
      <3>1. RawLines(wire) \in Seq(Txt) /\ Len(RawLines(wire)) = NumLines(wire) /\ NumLines(wire) \in Nat
        BY <1>1, RawLine, LineEndsDef
      <3>2. k + 1 \in 1..Len(RawLines(wire))
        BY <3>1
      <3>3. RawLines(wire)[k + 1] \in Txt
        BY <3>1, <3>2
      <3> QED BY <3>3, TextType
    <2>2. l = IF k = 0 THEN Unmarked(x) ELSE x
      BY <1>1, LinesDef
    <2>3. Line = IF k = 0 THEN Unmarked(Token.token) ELSE Token.token
      BY <1>2 DEF AtLine, Line
    <2> HIDE DEF x, l
    <2>4. /\ Field("bom", Token.token) <=> Field("bom", x)
          /\ IsPrefix(Tail(Token.token), Tail(x))
      BY <1>4, <1>6, <2>1, FieldOfPrefix
    <2>5. IsPrefix(Line, l)
      BY <1>6, <2>2, <2>3, <2>4 DEF Unmarked
    <2> QED BY <1>2, <2>5 DEF l
  <1> QED BY <1>2, <1>5, <1>6 DEF Whole, Torn, x

\* Data that outgrow the limit belong to an event of the body that does.
LEMMA SizeExceeded ==
  ASSUME RInv, SizeInv, ScanField, size' > MaxEvent
  PROVE  ~EventsFit
  <1>0. MaxEvent \in Nat /\ Overhead \in Nat
    BY StreamAssumption
  <1>1. wire \in Txt /\ ReaderTypes /\ status = "open" /\ Line # <<>> /\ Advance
    BY WireType DEF RInv, ScanField, Advance
  <1>2. size = Weight(data) /\ size <= MaxEvent /\ size \in Nat /\ data \in Seq(Txt)
    BY <1>1 DEF SizeInv, ReaderTypes
  <1>3. Field("data", Line) /\ size' = size + Len(Tail(Line)) + Overhead
    <2>1. size' = IF Field("data", Line) THEN size + Len(Tail(Line)) + Overhead ELSE size
      BY DEF ScanField
    <2>2. size' # size
      BY <1>0, <1>2
    <2> QED BY <2>1, <2>2
  <1>4. PICK k \in 0..(NumLines(wire) - 1) : AtLine(k) /\ IsPrefix(Line, Lines(wire)[k + 1])
    BY <1>1, ScannedPrefix
  <1> DEFINE p == First(Lines(wire), k)
             l == Lines(wire)[k + 1]
             q == First(Lines(wire), k + 1)
  <1>5. p \in Seq(Txt) /\ l \in Txt /\ q = Append(p, l) /\ k + 1 \in 0..NumLines(wire)
    BY <1>1, TakenNext
  <1>6. Gathered(p).data = data
    BY <1>4 DEF AtLine, Pending
  <1>7. Line \in Txt
    BY <1>1, TokenType
  <1> HIDE DEF p, l, q
  <1>8. l # <<>> /\ Field("data", l) /\ Tail(l) \in Txt /\ Tail(Line) \in Txt /\ Len(Tail(Line)) <= Len(Tail(l))
    BY <1>1, <1>3, <1>4, <1>5, <1>7, FieldOfPrefix DEF l
  <1>9. Gathered(q).data = Append(data, Tail(l))
    BY <1>5, <1>6, <1>8, ReadField
  <1>10. Weight(Append(data, Tail(l))) = size + Len(Tail(l)) + Overhead
    BY <1>2, <1>8, WeightNext
  <1>11. Len(Tail(l)) \in Nat /\ Len(Tail(Line)) \in Nat
    BY <1>8, TxtLen
  <1>12. Weight(Gathered(q).data) > MaxEvent
    <2>1. size + Len(Tail(l)) + Overhead > MaxEvent
      BY <1>0, <1>2, <1>3, <1>8, <1>11, SMTT(30)
    <2> QED BY <1>9, <1>10, <2>1
  <1>13. Beyond(Events(wire))
    BY <1>1, <1>5, <1>12, HeavyBody DEF Heavy, q
  <1> QED BY <1>1, <1>13, EventsFitDef

\* Handing over an event that was gathered within the limit.
LEMMA HandedFits ==
  ASSUME RInv, SizeInv, status = "open", ~Beyond(delivered)
  PROVE  ~Beyond(Append(delivered, Pending))
  <1>1. delivered \in Seq(Evs) /\ Pending \in Evs /\ data \in Seq(Txt) /\ size \in Nat /\ MaxEvent \in Nat
    BY PendingType, StreamAssumption DEF RInv, ReaderTypes
  <1>2. ~(Weight(Pending.data) > MaxEvent)
    <2>1. Pending.data = data
      BY DEF Pending
    <2>2. size = Weight(data) /\ size <= MaxEvent
      BY DEF SizeInv
    <2> QED BY <1>1, <2>1, <2>2
  <1> QED BY <1>1, <1>2, BeyondGrows

\* Why a step fails.
LEMMA WhySize ==
  ASSUME [Next]_vars, why' = "size", ~ScanField
  PROVE  why = "size"
  <1>1. ASSUME NEW n \in 0..MaxLine, NEW says \in {"none", "eof", "error"}, Read(n, says) PROVE why' = why
    BY <1>1 DEF Read, relay
  <1>3. CASE LineTooLong
    BY <1>3 DEF LineTooLong, Fails
  <1>4. CASE ScanBlank
    <2>1. CASE Fires
      <3>1. Deliver(Pending)
        BY <1>4, <2>1 DEF ScanBlank
      <3> QED BY <3>1, DeliverEffect
    <2>2. CASE ~Fires
      BY <1>4, <2>2 DEF ScanBlank, relay
    <2> QED BY <2>1, <2>2
  <1>5. CASE EndOnError
    BY <1>5 DEF EndOnError, Fails
  <1>6. CASE EndOnEOF
    BY <1>6, EndEffect
  <1>7. CASE UNCHANGED vars
    BY <1>7 DEF vars, relay
  <1> QED BY <1>1, <1>3, <1>4, <1>5, <1>6, <1>7 DEF Next

\* Every step keeps SizeInv.
LEMMA SizeInvNext ==
  ASSUME RInv, SizeInv, [Next]_vars
  PROVE  SizeInv'
  <1>0. wire \in Txt /\ MaxEvent \in Nat /\ Overhead \in Nat /\ ReaderTypes /\ RInv'
    BY WireType, RInvNext, StreamAssumption DEF RInv
  <1>w. ASSUME wire' = wire PROVE EventsFit' <=> EventsFit
    BY <1>w DEF EventsFit
  <1>z. Weight(<<>>) = 0 /\ 0 <= MaxEvent
    BY <1>0, WeightNext
  <1>1. ASSUME UNCHANGED <<wire, delivered, data, size>>, status' = status \/ status' = "failed", why' # "size" \/ why' = why
        PROVE  SizeInv'
    BY <1>1, <1>w DEF SizeInv
  <1>2. ASSUME NEW n \in 0..MaxLine, NEW says \in {"none", "eof", "error"}, Read(n, says) PROVE SizeInv'
    <2>1. UNCHANGED <<wire, delivered, data, size, status, why>>
      BY <1>2 DEF Read, relay
    <2> QED BY <1>1, <2>1
  <1>4. CASE LineTooLong \/ EndOnError
    <2>1. UNCHANGED <<wire, delivered, data, size>> /\ status' = "failed" /\ why' # "size"
      BY <1>4 DEF LineTooLong, EndOnError, Fails, reader
    <2> QED BY <1>1, <2>1
  <1>5. CASE ScanBlank
    <2>1. status = "open" /\ wire' = wire /\ data' = <<>> /\ size' = 0
      BY <1>5 DEF ScanBlank, Advance
    <2>2. ~ScanField
      BY <1>5 DEF ScanBlank, ScanField
    <2>3. why' = "size" => ~EventsFit
      BY <2>2, WhySize DEF SizeInv
    <2>4. ~Beyond(delivered')
      <3>1. CASE Fires
        <4>1. delivered' = Append(delivered, Pending)
          BY <1>5, <3>1, DeliverEffect DEF ScanBlank
        <4>2. ~Beyond(Append(delivered, Pending))
          BY <2>1, HandedFits DEF SizeInv
        <4> QED BY <4>1, <4>2
      <3>2. CASE ~Fires
        BY <1>5, <3>2 DEF ScanBlank, SizeInv
      <3> QED BY <3>1, <3>2
    <2>5. status' # "ended"
      <3>1. CASE Fires
        <4>1. status' = "failed" \/ status' = "open"
          BY <1>5, <3>1, DeliverEffect DEF ScanBlank
        <4> QED BY <2>1, <4>1
      <3>2. CASE ~Fires
        BY <1>5, <2>1, <3>2 DEF ScanBlank
      <3> QED BY <3>1, <3>2
    <2>6. size' = Weight(data') /\ size' <= MaxEvent
      BY <1>z, <2>1
    <2> QED BY <1>w, <2>1, <2>3, <2>4, <2>5, <2>6 DEF SizeInv
  <1>6. CASE ScanField
    <2>1. status = "open" /\ UNCHANGED <<wire, delivered>> /\ Line # <<>> /\ Line \in Txt
      BY <1>0, <1>6, TokenType DEF ScanField, Advance
    <2>2. data \in Seq(Txt) /\ size = Weight(data) /\ size <= MaxEvent /\ size \in Nat
      BY <1>0, <2>1 DEF SizeInv, ReaderTypes
    <2>3. Tail(Line) \in Txt
      BY <2>1, HeadTailProperties DEF Txt
    <2>4. Weight(Append(data, Tail(Line))) = size + Len(Tail(Line)) + Overhead /\ Len(Tail(Line)) \in Nat
      BY <2>2, <2>3, WeightNext, TxtLen
    <2>5. size' = Weight(data') /\ size' \in Nat
      BY <1>0, <1>6, <2>2, <2>4 DEF ScanField
    <2>6. CASE size' > MaxEvent
      <3>1. status' = "failed"
        BY <1>6, <2>6 DEF ScanField, Fails
      <3>2. ~EventsFit
        BY <1>6, <2>6, SizeExceeded
      <3> QED BY <1>w, <2>1, <3>1, <3>2 DEF SizeInv
    <2>7. CASE ~(size' > MaxEvent)
      <3>1. UNCHANGED <<status, why>>
        BY <1>6, <2>7 DEF ScanField
      <3>2. size' <= MaxEvent
        BY <1>0, <2>5, <2>7
      <3> QED BY <1>w, <2>1, <2>5, <3>1, <3>2 DEF SizeInv
    <2> QED BY <2>6, <2>7
  <1>7. CASE EndOnEOF
    <2>1. status = "open" /\ wire' = wire
      BY <1>7 DEF EndOnEOF, Drained
    <2>2. delivered' = (IF Fires THEN Append(delivered, Pending) ELSE delivered)
          /\ (status' = "failed" \/ status' = "ended")
      BY <1>7, EndEffect
    <2>3. ~Beyond(delivered')
      <3>1. ~Beyond(delivered) /\ ~Beyond(Append(delivered, Pending))
        BY <2>1, HandedFits DEF SizeInv
      <3> QED BY <2>2, <3>1
    <2>4. delivered' = Events(wire)
      BY <1>7, EndTracks
    <2>5. EventsFit
      BY <1>0, <2>3, <2>4, EventsFitDef
    <2>6. why' # "size" \/ why' = why
      BY <1>7, EndEffect
    <2> QED BY <1>w, <2>1, <2>2, <2>3, <2>5, <2>6 DEF SizeInv
  <1>8. CASE UNCHANGED vars
    <2>1. UNCHANGED <<wire, delivered, data, size, status, why>>
      BY <1>8 DEF vars, reader, relay
    <2> QED BY <1>1, <2>1
  <1> QED BY <1>2, <1>4, <1>5, <1>6, <1>7, <1>8 DEF Next

\* What the buffer must hold to take the line after the k-th end, and after the
\* last line.
Fits(w, k, room) ==
    (EndOf(w, k + 1) - EndOf(w, k))
        + (IF w[EndOf(w, k + 1)] = "lf" THEN 0 ELSE IF k + 1 = NumLines(w) THEN room ELSE 1) <= MaxLine

\* LinesFit, by the ends of the lines.
LEMMA LinesFitDef ==
  ASSUME wire \in Txt, NEW room
  PROVE  LinesFit(room) <=> \A k \in 0..(NumLines(wire) - 1) : Fits(wire, k, room)
  <1> DEFINE raw == RawLines(wire)
             N == NumLines(wire)
             Short(i) == Len(raw[i]) + (IF Last(raw[i]) = "lf" THEN 0
                                        ELSE IF i = N THEN room ELSE 1) <= MaxLine
  <1>1. N \in Nat /\ Len(raw) = N /\ raw \in Seq(Txt)
    BY LineEndsDef, RawLine
  <1>2. \A k \in 0..(N - 1) : Short(k + 1) <=> Fits(wire, k, room)
    <2> TAKE k \in 0..(N - 1)
    <2> DEFINE c == EndOf(wire, k)
               e == EndOf(wire, k + 1)
               r == raw[k + 1]
    <2>1. k \in 0..N /\ k + 1 \in 0..N /\ k < k + 1
      BY <1>1
    <2>2. c \in 0..Len(wire) /\ e \in 0..Len(wire) /\ c < e /\ Len(wire) \in Nat
      BY <2>1, LineEndsDef, TxtLen
    <2>3. r = SubSeq(wire, c + 1, e)
      BY RawLine
    <2> HIDE DEF c, e
    <2>4. c \in Nat /\ c <= e /\ e - c \in Nat /\ e - c \in 1..(e - c) /\ c + (e - c) = e
      BY <2>2
    <2>a. /\ Len(SubSeq(wire, c + 1, e)) = e - c
          /\ \A i \in 1..(e - c) : SubSeq(wire, c + 1, e)[i] = wire[c + i]
      BY <2>2, <2>4, Part
    <2>5. Len(r) = e - c /\ \A i \in 1..(e - c) : r[i] = wire[c + i]
      <3> HIDE DEF r
      <3> QED BY <2>3, <2>a
    <2>6. Last(r) = wire[e]
      <3>1. r[e - c] = wire[c + (e - c)]
        BY <2>4, <2>5
      <3> QED BY <2>4, <2>5, <3>1 DEF Last
    <2> QED BY <2>5, <2>6 DEF Fits, c, e
  <1>3. LinesFit(room) <=> \A i \in 1..N : Short(i)
    BY <1>1 DEF LinesFit
  <1>4. (\A i \in 1..N : Short(i)) <=> (\A k \in 0..(N - 1) : Short(k + 1))
    <2> HIDE DEF raw, Short, N
    <2>1. ASSUME \A i \in 1..N : Short(i), NEW k \in 0..(N - 1) PROVE Short(k + 1)
      <3>1. k + 1 \in 1..N
        BY <1>1
      <3> QED BY <2>1, <3>1
    <2>2. ASSUME \A k \in 0..(N - 1) : Short(k + 1), NEW i \in 1..N PROVE Short(i)
      <3>1. i - 1 \in 0..(N - 1) /\ (i - 1) + 1 = i
        BY <1>1
      <3>2. Short((i - 1) + 1)
        BY <2>2, <3>1
      <3> QED BY <3>1, <3>2
    <2> QED BY <2>1, <2>2
  <1> HIDE DEF raw, Short
  <1>5. LinesFit(room) <=> \A k \in 0..(N - 1) : Short(k + 1)
    BY <1>3, <1>4
  <1> QED BY <1>2, <1>5

\* A buffer that is one line as long as more may follow, ends with "lf".
LEMMA SplitAll ==
  ASSUME NEW b \in Txt, NEW eof \in BOOLEAN, ~eof, Split(b, eof).advance = Len(b), Len(b) > 0
  PROVE  b[Len(b)] = "lf"
  <1> DEFINE f == FirstBreak(b)
             t == Split(b, eof)
  <1>1. f \in 0..Len(b) /\ Len(b) \in Nat /\ (f # 0 => IsBreak(b[f]))
    BY FirstBreakDef, TxtLen
  <1>2. t =
          IF f = 0 THEN IF eof THEN [advance |-> Len(b), token |-> b] ELSE NoToken
          ELSE IF b[f] = "cr" /\ f = Len(b) /\ ~eof THEN NoToken
          ELSE IF b[f] = "cr" /\ f < Len(b) /\ b[f + 1] = "lf"
            THEN [advance |-> f + 1, token |-> SubSeq(b, 1, f - 1)]
            ELSE [advance |-> f, token |-> SubSeq(b, 1, f - 1)]
    BY DEF Split
  <1> HIDE DEF f, t
  <1>3. t.advance = Len(b)
    BY DEF t
  <1>4. f # 0 /\ ~(b[f] = "cr" /\ f = Len(b))
    BY <1>1, <1>2, <1>3 DEF NoToken
  <1>5. CASE b[f] = "cr" /\ f < Len(b) /\ b[f + 1] = "lf"
    BY <1>2, <1>3, <1>4, <1>5
  <1>6. CASE ~(b[f] = "cr" /\ f < Len(b) /\ b[f + 1] = "lf")
    <2>1. f = Len(b)
      BY <1>2, <1>3, <1>4, <1>6
    <2> QED BY <1>1, <1>4, <2>1 DEF IsBreak
  <1> QED BY <1>5, <1>6

BufInv == Len(buf) <= MaxLine

LineInv ==
    /\ BufInv
    /\ status = "open" /\ end # "error" =>
          \A j \in 0..(NumLines(wire) - 1) :
              EndOf(wire, j + 1) <= pos - Len(buf) => Fits(wire, j, 0)
    /\ status = "ended" => LinesFit(0)
    /\ why = "line" => ~LinesFit(1)

\* A line that is taken whole fits: what follows its "cr" was in the buffer too,
\* or it is the body's last.
LEMMA TakenFits ==
  ASSUME RInv, BufInv, end # "error", Advance,
         NEW k \in 0..(NumLines(wire) - 1), AtLine(k), Whole(wire, k, Token)
  PROVE  Fits(wire, k, 0)
  <1> DEFINE c == EndOf(wire, k)
             e == EndOf(wire, k + 1)
             a == Token.advance
             l == Len(buf)
  <1>0. NumLines(wire) \in Nat /\ wire \in Txt /\ ReaderTypes /\ MaxLine \in Nat
    BY WireType, LineEndsDef, StreamAssumption DEF RInv
  <1>1. k \in 0..NumLines(wire) /\ k + 1 \in 0..NumLines(wire)
    BY <1>0
  <1>2. c \in 0..Len(wire) /\ e \in 0..Len(wire) /\ pos \in 0..Len(wire) /\ Len(wire) \in Nat
    BY <1>0, <1>1, LineEndsDef, TxtLen DEF ReaderTypes
  <1>3. pos \in c..Len(wire) /\ buf = Held(wire, k, pos) /\ buf \in Txt
    BY <1>0, <1>2 DEF AtLine, ReaderTypes
  <1>4. l = pos - c /\ \A i \in 1..(pos - c) : buf[i] = wire[c + i]
    BY <1>0, <1>1, <1>3, HeldDef
  <1>5. a \in 0..l /\ l \in Nat /\ a > 0 /\ c + a = e /\ (end # "none") \in BOOLEAN
    BY <1>0, TokenType DEF Advance, Whole
  <1>6. l <= MaxLine
    BY DEF BufInv
  <1>7. CASE a < l
    <2> HIDE DEF c, e, a, l
    <2>1. (e - c) + 1 <= MaxLine /\ (e - c) + 0 <= MaxLine
      BY <1>0, <1>2, <1>5, <1>6, <1>7
    <2> QED BY <2>1 DEF Fits, c, e
  <1>8. CASE a = l /\ end = "none"
    <2>1. Token = Split(buf, end # "none") /\ ~(end # "none")
      BY <1>8 DEF Token
    <2>2. buf[l] = "lf"
      BY <1>3, <1>5, <1>8, <2>1, SplitAll
    <2> HIDE DEF c, e, a, l
    <2>3. l \in 1..(pos - c) /\ c + l = e
      BY <1>2, <1>4, <1>5, <1>8
    <2>4. wire[e] = "lf"
      BY <1>4, <2>2, <2>3
    <2>5. (e - c) + 0 <= MaxLine
      BY <1>0, <1>2, <1>5, <1>6, <2>3
    <2> QED BY <2>4, <2>5 DEF Fits, c, e
  <1>9. CASE a = l /\ end # "none"
    <2>1. end = "eof"
      BY <1>0, <1>9 DEF ReaderTypes
    <2>2. pos = Len(wire)
      BY <2>1 DEF RInv, Tracks, Advance
    <2> HIDE DEF c, a, l
    <2>3. e = Len(wire)
      BY <1>2, <1>4, <1>5, <1>9, <2>2
    <2>4. k + 1 = NumLines(wire)
      BY <1>0, <1>1, <2>3, LastEnd
    <2> HIDE DEF e
    <2>5. (e - c) + 0 <= MaxLine
      BY <1>0, <1>2, <1>5, <1>6, <1>9
    <2> QED BY <2>4, <2>5 DEF Fits, c, e
  <1> QED BY <1>5, <1>7, <1>8, <1>9

\* A full buffer without a line holds the beginning of one that does not fit.
LEMMA TooLongDoesNotFit ==
  ASSUME RInv, LineTooLong
  PROVE  ~LinesFit(1)
  <1>0. wire \in Txt /\ ReaderTypes /\ MaxLine \in Nat /\ MaxLine # 0 /\ NumLines(wire) \in Nat
    BY WireType, LineEndsDef, StreamAssumption DEF RInv
  <1>1. status = "open" /\ Token.advance = 0 /\ end = "none" /\ Len(buf) >= MaxLine /\ buf \in Txt
    BY <1>0 DEF LineTooLong, NeedsMore, ReaderTypes
  <1>2. PICK k \in 0..NumLines(wire) : AtLine(k)
    BY <1>1, ReadingAtLine
  <1> DEFINE c == EndOf(wire, k)
             e == EndOf(wire, k + 1)
             l == Len(buf)
  <1>3. c \in 0..Len(wire) /\ pos \in 0..Len(wire) /\ Len(wire) \in Nat /\ l \in Nat
    BY <1>0, <1>1, LineEndsDef, TxtLen DEF ReaderTypes
  <1>4. pos \in c..Len(wire) /\ buf = Held(wire, k, pos)
    BY <1>2, <1>3 DEF AtLine
  <1>5. l = pos - c /\ \A i \in 1..(pos - c) : buf[i] = wire[c + i]
    BY <1>0, <1>4, HeldDef
  <1>6. k # NumLines(wire)
    <2>1. c # Len(wire)
      BY <1>0, <1>1, <1>3, <1>4, <1>5
    <2> QED BY <1>0, <2>1, LastEnd
  <1>7. k \in 0..(NumLines(wire) - 1) /\ k + 1 \in 0..NumLines(wire) /\ k + 1 \in 1..NumLines(wire) /\ k < k + 1
    BY <1>0, <1>6
  <1>8. e \in 0..Len(wire) /\ c < e /\ e \in Breaks(wire) \cup {Len(wire)}
    BY <1>0, <1>7, LineEndsDef
  <1>9. \A i \in 1..l : IsBreak(buf[i]) => i = l /\ buf[i] = "cr"
    <2>1. Token = Split(buf, end # "none") /\ (end # "none") \in BOOLEAN
      BY <1>0, TokenType DEF Token
    <2> QED BY <1>1, <2>1, SplitNothing
  <1> HIDE DEF c, e, l
  <1>10. l >= MaxLine
    BY <1>1 DEF l
  <1>11. e >= pos
    <2> SUFFICES ASSUME e < pos PROVE FALSE
      BY <1>3, <1>8
    <2>1. e # Len(wire)
      BY <1>3, <1>8
    <2>2. IsBreak(wire[e])
      BY <1>8, <2>1 DEF Breaks, IsBreak
    <2>3. e - c \in 1..(pos - c) /\ c + (e - c) = e /\ e - c # l
      BY <1>3, <1>5, <1>8
    <2>4. IsBreak(buf[e - c])
      <3>1. buf[e - c] = wire[c + (e - c)]
        BY <1>5, <2>3
      <3> QED BY <2>2, <2>3, <3>1
    <2> QED BY <1>5, <1>9, <2>3, <2>4
  <1>12. e = pos => wire[e] # "lf"
    <2> SUFFICES ASSUME e = pos, wire[e] = "lf" PROVE FALSE
      OBVIOUS
    <2>1. l \in 1..(pos - c) /\ c + l = e
      BY <1>3, <1>5, <1>8
    <2>2. buf[l] = "lf"
      <3>1. buf[l] = wire[c + l]
        BY <1>5, <2>1
      <3> QED BY <2>1, <3>1
    <2> QED BY <1>5, <1>9, <2>1, <2>2 DEF IsBreak
  <1>13. ~Fits(wire, k, 1)
    <2>1. CASE e = pos
      <3>1. ~((e - c) + 1 <= MaxLine)
        BY <1>0, <1>3, <1>5, <1>8, <1>10, <2>1
      <3> QED BY <1>12, <2>1, <3>1 DEF Fits, c, e
    <2>2. CASE e > pos
      <3>1. ~((e - c) + 1 <= MaxLine) /\ ~((e - c) + 0 <= MaxLine)
        BY <1>0, <1>3, <1>5, <1>8, <1>10, <2>2
      <3> QED BY <3>1 DEF Fits, c, e
    <2> QED BY <1>3, <1>8, <1>11, <2>1, <2>2
  <1> QED BY <1>0, <1>7, <1>13, LinesFitDef

\* A scanned line keeps the buffer's part of LineInv.
LEMMA AdvanceFits ==
  ASSUME RInv, LineInv, Advance
  PROVE  /\ Len(buf') <= MaxLine
         /\ end # "error" =>
               \A j \in 0..(NumLines(wire) - 1) :
                   EndOf(wire, j + 1) <= pos - Len(buf') => Fits(wire, j, 0)
  <1>0. wire \in Txt /\ ReaderTypes /\ MaxLine \in Nat /\ NumLines(wire) \in Nat /\ BufInv /\ status = "open"
    BY WireType, LineEndsDef, StreamAssumption DEF RInv, LineInv, Advance
  <1> DEFINE a == Token.advance
             l == Len(buf)
             m == Len(buf')
  <1>1. a \in 0..l /\ l \in Nat /\ a > 0 /\ buf \in Txt
    BY <1>0, TokenType DEF Advance, ReaderTypes
  <1>2. m = l - a
    <2>1. buf' = SubSeq(buf, a + 1, l)
      BY DEF Advance
    <2> HIDE DEF a
    <2>2. a \in Nat /\ Len(buf) \in 0..Len(buf) /\ a <= Len(buf)
      BY <1>1
    <2>3. Len(SubSeq(buf, a + 1, Len(buf))) = Len(buf) - a
      BY <1>1, <2>2, Part
    <2> QED BY <2>1, <2>3
  <1> HIDE DEF m
  <1>3. m <= MaxLine
    BY <1>0, <1>1, <1>2 DEF BufInv
  <1>4. ASSUME end # "error", NEW j \in 0..(NumLines(wire) - 1), EndOf(wire, j + 1) <= pos - m
        PROVE  Fits(wire, j, 0)
    <2>1. PICK k \in 0..(NumLines(wire) - 1) :
            /\ AtLine(k)
            /\ Whole(wire, k, Token) \/ (end # "none" /\ Torn(wire, k, Token, pos))
      BY TakesLine
    <2> DEFINE c == EndOf(wire, k)
               e == EndOf(wire, k + 1)
    <2>2. Whole(wire, k, Token)
      <3>1. end # "none" => pos = Len(wire)
        BY <1>0, <1>4 DEF RInv, Tracks, ReaderTypes
      <3>2. pos \in Nat /\ Len(wire) \in Nat
        BY <1>0, TxtLen DEF ReaderTypes
      <3> QED BY <2>1, <3>1, <3>2 DEF Torn
    <2>3. k \in 0..NumLines(wire) /\ k + 1 \in 0..NumLines(wire) /\ j \in 0..NumLines(wire) /\ j + 1 \in 0..NumLines(wire)
      BY <1>0
    <2>4. c \in 0..Len(wire) /\ e \in 0..Len(wire) /\ pos \in 0..Len(wire) /\ Len(wire) \in Nat
          /\ EndOf(wire, j + 1) \in 0..Len(wire)
      BY <1>0, <2>3, LineEndsDef, TxtLen DEF ReaderTypes
    <2>5. pos \in c..Len(wire) /\ buf = Held(wire, k, pos)
      BY <2>1, <2>4 DEF AtLine
    <2>6. l = pos - c
      BY <1>0, <2>3, <2>5, HeldDef
    <2>7. c + a = e
      BY <2>2 DEF Whole
    <2>8. CASE j = k
      BY <1>0, <1>4, <2>1, <2>2, <2>8, TakenFits
    <2>9. CASE j < k
      <3>1. j + 1 = k \/ j + 1 < k
        BY <2>3, <2>9
      <3>2. j + 1 = k \/ EndOf(wire, j + 1) < c
        BY <1>0, <2>3, <3>1, LineEndsDef
      <3>3. EndOf(wire, j + 1) <= pos - l
        <4> HIDE DEF l
        <4>1. EndOf(wire, j + 1) <= c
          BY <2>4, <3>2
        <4>2. pos - l = c
          BY <2>4, <2>6
        <4> QED BY <4>1, <4>2
      <3> QED BY <1>0, <1>4, <3>3 DEF LineInv
    <2>10. CASE j > k
      <3>1. k + 1 < j + 1
        BY <2>3, <2>10
      <3>2. e < EndOf(wire, j + 1)
        BY <1>0, <2>3, <3>1, LineEndsDef
      <3> HIDE DEF c, e, a, l
      <3>3. pos - m = e
        BY <1>1, <1>2, <2>4, <2>6, <2>7
      <3> QED BY <1>4, <2>4, <3>2, <3>3
    <2> QED BY <2>3, <2>8, <2>9, <2>10
  <1> QED BY <1>3, <1>4 DEF m

\* Only LineTooLong blames the limit of a line.
LEMMA WhyLine ==
  ASSUME [Next]_vars, why' = "line", ~LineTooLong
  PROVE  why = "line"
  <1>1. ASSUME NEW n \in 0..MaxLine, NEW says \in {"none", "eof", "error"}, Read(n, says) PROVE why' = why
    BY <1>1 DEF Read, relay
  <1>3. CASE ScanField
    BY <1>3 DEF ScanField, Fails
  <1>4. CASE ScanBlank
    <2>1. CASE Fires
      <3>1. Deliver(Pending)
        BY <1>4, <2>1 DEF ScanBlank
      <3> QED BY <3>1, DeliverEffect
    <2>2. CASE ~Fires
      BY <1>4, <2>2 DEF ScanBlank, relay
    <2> QED BY <2>1, <2>2
  <1>5. CASE EndOnError
    BY <1>5 DEF EndOnError, Fails
  <1>6. CASE EndOnEOF
    BY <1>6, EndEffect
  <1>7. CASE UNCHANGED vars
    BY <1>7 DEF vars, relay
  <1> QED BY <1>1, <1>3, <1>4, <1>5, <1>6, <1>7 DEF Next

\* Every step keeps LineInv.
LEMMA LineInvNext ==
  ASSUME RInv, LineInv, [Next]_vars
  PROVE  LineInv'
  <1>0. wire \in Txt /\ ReaderTypes /\ MaxLine \in Nat /\ NumLines(wire) \in Nat
    BY WireType, LineEndsDef, StreamAssumption DEF RInv
  <1>b. BufInv /\ buf \in Txt /\ Len(buf) \in Nat
    BY <1>0, TxtLen DEF LineInv, ReaderTypes
  <1>w. ASSUME wire' = wire PROVE (LinesFit(0)' <=> LinesFit(0)) /\ (LinesFit(1)' <=> LinesFit(1))
    BY <1>w DEF LinesFit
  <1>y. ASSUME NEW j, wire' = wire PROVE Fits(wire, j, 0)' <=> Fits(wire, j, 0)
    BY <1>y DEF Fits
  <1>1. ASSUME UNCHANGED <<wire, pos, buf, end>>, status' = status \/ status' = "failed",
               why' = "line" => ~LinesFit(1)
        PROVE  LineInv'
    <2>1. BufInv'
      BY <1>1, <1>b DEF BufInv
    <2>2. ASSUME status' = "open", end' # "error"
          PROVE  (\A j \in 0..(NumLines(wire) - 1) : EndOf(wire, j + 1) <= pos - Len(buf) => Fits(wire, j, 0))'
      <3>1. status = "open" /\ end # "error"
        BY <1>1, <2>2
      <3>2. \A j \in 0..(NumLines(wire) - 1) : EndOf(wire, j + 1) <= pos - Len(buf) => Fits(wire, j, 0)
        BY <3>1 DEF LineInv
      <3> QED BY <1>1, <3>2 DEF Fits
    <2>3. status' = "ended" => LinesFit(0)
      BY <1>1 DEF LineInv
    <2> QED BY <1>1, <1>w, <2>1, <2>2, <2>3 DEF LineInv
  <1>2. ASSUME NEW n \in 0..MaxLine, NEW says \in {"none", "eof", "error"}, Read(n, says) PROVE LineInv'
    <2>1. UNCHANGED <<wire, status, why>> /\ end = "none" /\ status = "open"
      BY <1>2 DEF Read, NeedsMore, relay
    <2>2. Len(buf') = Len(buf) + n /\ pos' = pos + n /\ n \in Nat /\ Len(buf) + n <= MaxLine
      <3>1. n \in Nat /\ pos \in 0..Len(wire) /\ Len(wire) \in Nat /\ pos + n <= Len(wire) /\ Len(buf) + n <= MaxLine
        BY <1>0, <1>2, TxtLen DEF Read, ReaderTypes
      <3>2. pos \in Nat /\ pos + n \in 0..Len(wire) /\ pos <= pos + n /\ (pos + n) - pos = n
        BY <3>1
      <3>3. SubSeq(wire, pos + 1, pos + n) \in Txt /\ Len(SubSeq(wire, pos + 1, pos + n)) = n
        BY <1>0, <3>2, Part
      <3>4. buf' = buf \o SubSeq(wire, pos + 1, pos + n) /\ pos' = pos + n
        BY <1>2 DEF Read
      <3>5. Len(buf \o SubSeq(wire, pos + 1, pos + n)) = Len(buf) + Len(SubSeq(wire, pos + 1, pos + n))
        BY <1>b, <3>3, ConcatProperties DEF Txt
      <3> QED BY <3>1, <3>3, <3>4, <3>5
    <2>3. pos' - Len(buf') = pos - Len(buf)
      BY <1>0, <1>b, <2>2 DEF ReaderTypes
    <2>4. BufInv'
      BY <2>1, <2>2 DEF BufInv
    <2>5. \A j \in 0..(NumLines(wire) - 1) : EndOf(wire, j + 1) <= pos' - Len(buf') => Fits(wire, j, 0)
      BY <2>1, <2>3 DEF LineInv
    <2>6. (\A j \in 0..(NumLines(wire) - 1) : EndOf(wire, j + 1) <= pos - Len(buf) => Fits(wire, j, 0))'
      BY <2>1, <2>5 DEF Fits
    <2> QED BY <1>w, <2>1, <2>4, <2>6 DEF LineInv
  <1>4. CASE LineTooLong
    <2>1. UNCHANGED <<wire, pos, buf, end>> /\ status' = "failed"
      BY <1>4 DEF LineTooLong, Fails, reader
    <2>2. ~LinesFit(1)
      BY <1>4, TooLongDoesNotFit
    <2> QED BY <1>1, <1>b, <2>1, <2>2 DEF BufInv
  <1>5. ASSUME Advance, UNCHANGED <<wire, pos, end>>, status' = status \/ status' = "failed", ~LineTooLong
        PROVE  LineInv'
    <2>1. /\ Len(buf') <= MaxLine
          /\ end # "error" =>
               \A j \in 0..(NumLines(wire) - 1) : EndOf(wire, j + 1) <= pos - Len(buf') => Fits(wire, j, 0)
      BY <1>5, AdvanceFits
    <2>2. BufInv'
      BY <1>5, <2>1 DEF BufInv
    <2>3. end' # "error" =>
            (\A j \in 0..(NumLines(wire) - 1) : EndOf(wire, j + 1) <= pos - Len(buf) => Fits(wire, j, 0))'
      BY <1>5, <2>1 DEF Fits
    <2>4. status' # "ended"
      BY <1>5 DEF Advance
    <2>5. why' = "line" => ~LinesFit(1)
      BY <1>5, WhyLine DEF LineInv
    <2> QED BY <1>5, <1>w, <2>2, <2>3, <2>4, <2>5 DEF LineInv
  <1>6. CASE ScanBlank
    <2>1. Advance /\ UNCHANGED <<wire, pos, end>>
      BY <1>6 DEF ScanBlank
    <2>2. status' = status \/ status' = "failed"
      <3>1. CASE Fires
        <4>1. Deliver(Pending) /\ status = "open"
          BY <1>6, <3>1 DEF ScanBlank, Advance
        <4> QED BY <4>1, DeliverEffect
      <3>2. CASE ~Fires
        BY <1>6, <3>2 DEF ScanBlank
      <3> QED BY <3>1, <3>2
    <2>3. ~LineTooLong
      BY <1>0, <2>1, TokenType DEF Advance, LineTooLong, NeedsMore
    <2> QED BY <1>5, <2>1, <2>2, <2>3
  <1>7. CASE ScanField
    <2>1. Advance /\ UNCHANGED <<wire, pos, end>>
      BY <1>7 DEF ScanField
    <2>2. status' = status \/ status' = "failed"
      BY <1>7 DEF ScanField, Fails
    <2>3. ~LineTooLong
      BY <1>0, <2>1, TokenType DEF Advance, LineTooLong, NeedsMore
    <2> QED BY <1>5, <2>1, <2>2, <2>3
  <1>8. CASE EndOnError
    <2>1. UNCHANGED <<wire, pos, buf, end>> /\ status' = "failed" /\ why' # "line"
      BY <1>8 DEF EndOnError, Fails, reader
    <2> QED BY <1>1, <1>b, <2>1 DEF BufInv
  <1>9. CASE EndOnEOF
    <2>1. UNCHANGED <<wire, pos, buf, end>> /\ status = "open" /\ end = "eof" /\ Token.advance = 0
      BY <1>9 DEF EndOnEOF, Drained
    <2>2. status' = "failed" \/ status' = "ended"
      BY <1>9, EndEffect
    <2>3. why' = "line" => ~LinesFit(1)
      <3>1. ~LineTooLong
        BY <2>1 DEF LineTooLong, NeedsMore
      <3> QED BY <3>1, WhyLine DEF LineInv
    <2>4. LinesFit(0)
      <3>1. pos = Len(wire) /\ Len(wire) \in Nat
        BY <1>0, <2>1, TxtLen DEF RInv, Tracks
      <3>2. buf = <<>>
        <4>1. Token = Split(buf, end # "none") /\ (end # "none") \in BOOLEAN
          BY <1>0, TokenType DEF Token
        <4> QED BY <1>b, <2>1, <4>1, SplitNothing
      <3>3. Len(buf) = 0
        BY <3>2
      <3>4. ASSUME NEW j \in 0..(NumLines(wire) - 1) PROVE Fits(wire, j, 0)
        <4>1. j + 1 \in 0..NumLines(wire)
          BY <1>0
        <4>2. EndOf(wire, j + 1) \in 0..Len(wire)
          BY <1>0, <4>1, LineEndsDef
        <4>3. EndOf(wire, j + 1) <= pos - Len(buf)
          BY <3>1, <3>3, <4>2
        <4> QED BY <2>1, <4>3 DEF LineInv
      <3> QED BY <1>0, <3>4, LinesFitDef
    <2>5. BufInv'
      BY <1>b, <2>1 DEF BufInv
    <2> QED BY <1>w, <2>1, <2>2, <2>3, <2>4, <2>5 DEF LineInv
  <1>10. CASE UNCHANGED vars
    <2>1. UNCHANGED <<wire, pos, buf, end, status, why>>
      BY <1>10 DEF vars, reader, relay
    <2>2. why' = "line" => ~LinesFit(1)
      BY <2>1 DEF LineInv
    <2> QED BY <1>1, <1>b, <2>1, <2>2 DEF BufInv
  <1> QED BY <1>2, <1>4, <1>6, <1>7, <1>8, <1>9, <1>10 DEF Next

\* The limits of a line and of an event depend on the body alone, for every
\* body, every way Read cuts it and every value of the limits: a body that is
\* taken to its end keeps them, and one that is refused for them does not, where
\* a last line that fills the buffer counts as both (sse.go:16-52, 202-211).
THEOREM LimitsDependOnTheBody == Spec => []LimitsAreExact
  <1>1. Init => SizeInv /\ LineInv
    <2> SUFFICES ASSUME Init PROVE SizeInv /\ LineInv
      OBVIOUS
    <2>0. wire \in Txt /\ NumLines(wire) \in Nat /\ MaxLine \in Nat /\ MaxLine # 0 /\ MaxEvent \in Nat
      BY RInvInit, WireType, LineEndsDef, StreamAssumption DEF RInv
    <2>1. status = "open" /\ why = "none" /\ delivered = <<>> /\ data = <<>> /\ size = 0
          /\ pos = 0 /\ buf = <<>> /\ end = "none"
      BY DEF Init
    <2>2. Weight(<<>>) = 0
      BY WeightNext
    <2>3. ~Beyond(<<>>)
      BY DEF Beyond
    <2>4. SizeInv
      BY <2>0, <2>1, <2>2, <2>3 DEF SizeInv
    <2>5. Len(buf) = 0
      BY <2>1
    <2>6. ASSUME NEW j \in 0..(NumLines(wire) - 1) PROVE ~(EndOf(wire, j + 1) <= pos - Len(buf))
      <3>1. j + 1 \in 0..NumLines(wire) /\ 0 \in 0..NumLines(wire) /\ 0 < j + 1
        BY <2>0
      <3>2. EndOf(wire, 0) < EndOf(wire, j + 1) /\ EndOf(wire, j + 1) \in 0..Len(wire)
        BY <2>0, <3>1, LineEndsDef
      <3>3. EndOf(wire, 0) = 0
        BY DEF EndOf
      <3>4. Len(wire) \in Nat
        BY <2>0, TxtLen
      <3> QED BY <2>1, <2>5, <3>2, <3>3, <3>4
    <2>7. LineInv
      BY <2>0, <2>1, <2>5, <2>6 DEF LineInv, BufInv
    <2> QED BY <2>4, <2>7
  <1>2. RInv /\ SizeInv /\ LineInv /\ [Next]_vars => SizeInv' /\ LineInv'
    BY SizeInvNext, LineInvNext
  <1>3. SizeInv /\ LineInv => LimitsAreExact
    BY DEF SizeInv, LineInv, LimitsAreExact
  <1> QED BY <1>1, <1>2, <1>3, ReaderTracks, PTL DEF Spec

-----------------------------------------------------------------------------
(* A body, one line at a time: what a client reads of what was written.    *)

\* A text without breaks, and a text that is empty or ends a line.
Clean == {t \in Txt : \A i \in 1..Len(t) : ~IsBreak(t[i])}
Closed(w) == w \in Txt /\ (w = <<>> \/ w[Len(w)] = "lf")

\* A line and its break are put after a body.
Put(w, t) == w \o (t \o <<"lf">>)

\* Positions that are not members add nothing.
LEMMA InOrderSkip ==
  ASSUME NEW S, NEW n \in Nat, NEW d \in Nat, \A i \in (n + 1)..(n + d) : i \notin S
  PROVE  InOrder(S, n + d) = InOrder(S, n)
  <1> DEFINE P == {e \in Nat : e <= d => InOrder(S, n + e) = InOrder(S, n)}
  <1>1. 0 \in P
    <2>1. n + 0 = n
      OBVIOUS
    <2> QED BY <2>1
  <1>2. ASSUME NEW e \in P PROVE e + 1 \in P
    <2>1. e \in Nat /\ (e <= d => InOrder(S, n + e) = InOrder(S, n))
      OBVIOUS
    <2>2. SUFFICES ASSUME e + 1 <= d PROVE InOrder(S, n + (e + 1)) = InOrder(S, n)
      BY <2>1
    <2> DEFINE x == n + e
    <2>3. x \in Nat /\ x + 1 = n + (e + 1) /\ x + 1 \in (n + 1)..(n + d) /\ e <= d
      BY <2>1, <2>2
    <2> HIDE DEF x
    <2>4. x + 1 \notin S
      BY <2>3
    <2>5. InOrder(S, x + 1) = InOrder(S, x)
      BY <2>3, <2>4, InOrderNext
    <2>6. InOrder(S, x) = InOrder(S, n)
      BY <2>1, <2>3 DEF x
    <2> QED BY <2>3, <2>5, <2>6
  <1>3. d \in P
    <2> HIDE DEF P
    <2>1. P \in SUBSET Nat
      BY DEF P
    <2> QED BY <1>1, <1>2, <2>1, SetInduction
  <1>4. d <= d
    OBVIOUS
  <1> QED BY <1>3, <1>4

\* Appending is a concatenation.
LEMMA ConcatOne ==
  ASSUME NEW X, NEW s \in Seq(X), NEW x \in X
  PROVE  s \o <<x>> = Append(s, x)
  <1> DEFINE e == <<x>>
             u == s \o e
             v == Append(s, x)
             n == Len(s)
  <1>1. e \in Seq(X)
    BY Singleton
  <1>2. Len(e) = 1 /\ e[1] = x
    BY Singleton
  <1> HIDE DEF e
  <1>3. u \in Seq(X) /\ n \in Nat /\ Len(u) = n + Len(e) /\ Len(e) \in Nat
    BY <1>1, ConcatElements
  <1>4. \A i \in 1..n : u[i] = s[i]
    BY <1>1, ConcatElements
  <1>5. \A i \in 1..Len(e) : u[i + n] = e[i]
    BY <1>1, ConcatElements
  <1>6. v \in Seq(X) /\ Len(v) = n + 1 /\ v[n + 1] = x /\ \A i \in 1..n : v[i] = s[i]
    OBVIOUS
  <1> HIDE DEF u, v, n
  <1>7. u[n + 1] = x
    <2>1. 1 \in 1..Len(e) /\ 1 + n = n + 1
      BY <1>2, <1>3
    <2>2. u[1 + n] = e[1]
      BY <1>5, <2>1
    <2> QED BY <1>2, <2>1, <2>2
  <1>8. Len(u) = Len(v) /\ \A i \in 1..Len(u) : i \in 1..n \/ i = n + 1
    BY <1>2, <1>3, <1>6
  <1>9. \A i \in 1..Len(u) : u[i] = v[i]
    BY <1>4, <1>6, <1>7, <1>8
  <1>10. u = v
    BY <1>3, <1>6, <1>8, <1>9, SeqEqual
  <1> QED BY <1>10 DEF u, v, e

\* The symbols of the body with the line.
LEMMA PutDef ==
  ASSUME NEW w \in Txt, NEW t \in Txt
  PROVE  /\ Put(w, t) \in Txt /\ Len(Put(w, t)) = (Len(w) + Len(t)) + 1
         /\ \A i \in 1..Len(w) : Put(w, t)[i] = w[i]
         /\ \A i \in 1..Len(t) : Put(w, t)[Len(w) + i] = t[i]
         /\ Put(w, t)[(Len(w) + Len(t)) + 1] = "lf"
         /\ Closed(Put(w, t))
  <1> DEFINE l == "lf"
             u == t \o <<l>>
             v == w \o u
             n == Len(w)
             k == Len(t)
  <1>1. l \in Symbols
    BY StreamAssumption
  <1>2. n \in Nat /\ k \in Nat /\ w \in Seq(Symbols) /\ t \in Seq(Symbols)
    BY TxtLen
  <1>3. <<l>> \in Seq(Symbols) /\ Len(<<l>>) = 1 /\ <<l>>[1] = l
    BY <1>1, Singleton
  <1> HIDE DEF l
  <1>4. u \in Seq(Symbols) /\ Len(u) = k + 1 /\ u[k + 1] = l /\ \A i \in 1..k : u[i] = t[i]
    <2>1. u = Append(t, l)
      BY <1>1, <1>2, ConcatOne
    <2> HIDE DEF u
    <2> QED BY <1>1, <1>2, <2>1
  <1> HIDE DEF u
  <1>5. v \in Seq(Symbols) /\ Len(v) = n + (k + 1) /\ (\A i \in 1..n : v[i] = w[i])
        /\ \A i \in 1..(k + 1) : v[n + i] = u[i]
    BY <1>2, <1>4
  <1> HIDE DEF v
  <1>6. n + (k + 1) = (n + k) + 1 /\ (k + 1) \in 1..(k + 1) /\ \A i \in 1..k : i \in 1..(k + 1)
    BY <1>2
  <1>7. (\A i \in 1..k : v[n + i] = t[i]) /\ v[(n + k) + 1] = l
    <2>1. v[n + (k + 1)] = l
      BY <1>4, <1>5, <1>6
    <2> QED BY <1>4, <1>5, <1>6, <2>1
  <1>8. Put(w, t) = v
    BY DEF Put, v, u, l
  <1>9. v \in Txt /\ v[Len(v)] = l
    BY <1>5, <1>6, <1>7 DEF Txt
  <1> HIDE DEF n, k
  <1> QED BY <1>5, <1>6, <1>7, <1>8, <1>9 DEF n, k, l, Closed

\* The line ends where the body does.
LEMMA LineEndsPut ==
  ASSUME NEW w, Closed(w), NEW t \in Clean
  PROVE  LineEnds(Put(w, t)) = Append(LineEnds(w), Len(Put(w, t)))
  <1> DEFINE v == Put(w, t)
             n == Len(w)
             d == Len(t)
             m == Len(v)
             S == Breaks(w) \cup {n}
             T == Breaks(v) \cup {m}
  <1>0. w \in Txt /\ t \in Txt /\ (w = <<>> \/ w[n] = "lf") /\ \A i \in 1..d : ~IsBreak(t[i])
    BY DEF Closed, Clean
  <1>1. n \in Nat /\ d \in Nat
    BY <1>0, TxtLen
  <1>2. v \in Txt /\ m = (n + d) + 1 /\ (\A i \in 1..n : v[i] = w[i]) /\ (\A i \in 1..d : v[n + i] = t[i])
        /\ v[m] = "lf"
    <2>1. v \in Txt /\ m = (n + d) + 1 /\ v[(n + d) + 1] = "lf"
      BY <1>0, PutDef
    <2>2. (\A i \in 1..n : v[i] = w[i]) /\ (\A i \in 1..d : v[n + i] = t[i])
      BY <1>0, PutDef
    <2> HIDE DEF v, m, n, d
    <2> QED BY <2>1, <2>2
  <1> HIDE DEF v, m
  <1>3. m \in T /\ n + d \in Nat
    BY <1>1
  <1>4. \A i \in (n + 1)..(n + d) : i \notin T
    <2> TAKE i \in (n + 1)..(n + d)
    <2>1. i - n \in 1..d /\ n + (i - n) = i /\ i # m
      BY <1>1, <1>2
    <2>2. ~IsBreak(v[i])
      <3>1. v[n + (i - n)] = t[i - n]
        BY <1>2, <2>1
      <3> QED BY <1>0, <2>1, <3>1
    <2> QED BY <2>1, <2>2 DEF Breaks, IsBreak
  <1>5. \A i \in 1..n : i \in S <=> i \in T
    <2> TAKE i \in 1..n
    <2>1. i # m /\ i \in 1..m /\ v[i] = w[i]
      BY <1>1, <1>2
    <2>2. CASE i = n
      <3>1. w # <<>>
        <4> SUFFICES ASSUME w = <<>> PROVE FALSE
          OBVIOUS
        <4>1. n = 0
          OBVIOUS
        <4> QED BY <4>1
      <3>2. v[i] = "lf"
        BY <1>0, <2>1, <2>2, <3>1
      <3>3. i \in T
        BY <2>1, <3>2 DEF Breaks, m
      <3> QED BY <2>2, <3>3
    <2>3. CASE i # n
      <3>1. i + 1 \in 1..n
        BY <1>1, <2>3
      <3>2. v[i + 1] = w[i + 1]
        BY <1>2, <3>1
      <3>3. i \in Breaks(w) <=> w[i] = "lf" \/ (w[i] = "cr" /\ w[i + 1] # "lf")
        BY <2>3 DEF Breaks
      <3>4. i \in Breaks(v) <=> v[i] = "lf" \/ (v[i] = "cr" /\ v[i + 1] # "lf")
        BY <2>1 DEF Breaks, m
      <3> QED BY <2>1, <2>3, <3>2, <3>3, <3>4
    <2> QED BY <2>2, <2>3
  <1> HIDE DEF S, T, n, d
  <1>6. InOrder(T, n) = InOrder(S, n)
    BY <1>1, <1>5, InOrderSame
  <1>7. InOrder(T, n + d) = InOrder(T, n)
    BY <1>1, <1>4, InOrderSkip
  <1>8. InOrder(T, m) = Append(InOrder(T, n + d), m)
    <2> DEFINE x == n + d
    <2>1. x \in Nat /\ m = x + 1 /\ x + 1 \in T
      BY <1>2, <1>3
    <2> HIDE DEF x
    <2>2. InOrder(T, x + 1) = Append(InOrder(T, x), x + 1)
      BY <2>1, InOrderNext
    <2> QED BY <2>1, <2>2 DEF x
  <1>9. LineEnds(w) = InOrder(S, n) /\ LineEnds(v) = InOrder(T, m)
    BY DEF LineEnds, S, T, n, m
  <1> QED BY <1>6, <1>7, <1>8, <1>9 DEF v, m

\* A body with one more line has one more line.
LEMMA LinesPut ==
  ASSUME NEW w, Closed(w), NEW t \in Clean, ~Field("bom", t)
  PROVE  /\ Lines(w) \in Seq(Txt)
         /\ Lines(Put(w, t)) = Append(Lines(w), t)
  <1> DEFINE v == Put(w, t)
             n == Len(w)
             d == Len(t)
             m == Len(v)
             N == NumLines(w)
  <1>0. w \in Txt /\ t \in Txt /\ \A i \in 1..d : ~IsBreak(t[i])
    BY DEF Closed, Clean
  <1>1. n \in Nat /\ d \in Nat /\ N \in Nat
    BY <1>0, TxtLen, LineEndsDef
  <1>2. v \in Txt /\ m = (n + d) + 1 /\ (\A i \in 1..n : v[i] = w[i]) /\ (\A i \in 1..d : v[n + i] = t[i])
        /\ v[m] = "lf"
    <2>1. v \in Txt /\ m = (n + d) + 1 /\ v[(n + d) + 1] = "lf"
      BY <1>0, PutDef
    <2>2. (\A i \in 1..n : v[i] = w[i]) /\ (\A i \in 1..d : v[n + i] = t[i])
      BY <1>0, PutDef
    <2> HIDE DEF v, m, n, d
    <2> QED BY <2>1, <2>2
  <1>3. LineEnds(v) = Append(LineEnds(w), m) /\ LineEnds(w) \in Seq(Nat) /\ N = Len(LineEnds(w))
    BY <1>0, LineEndsPut, LineEndsDef DEF Ordered, NumLines
  <1> HIDE DEF v, m, n, d, N
  <1>4. m \in Nat
    BY <1>1, <1>2
  <1>5. NumLines(v) = N + 1 /\ EndOf(v, N + 1) = m /\ \A k \in 0..N : EndOf(v, k) = EndOf(w, k)
    <2> DEFINE q == LineEnds(w)
               r == LineEnds(v)
    <2>1. r = Append(q, m) /\ q \in Seq(Nat) /\ N = Len(q)
      BY <1>3
    <2> HIDE DEF q, r
    <2>2. Len(r) = N + 1 /\ r[N + 1] = m /\ \A k \in 1..N : r[k] = q[k]
      BY <1>4, <2>1
    <2>3. N + 1 # 0 /\ \A k \in 0..N : k = 0 \/ k \in 1..N
      BY <1>1
    <2> QED BY <2>2, <2>3 DEF NumLines, EndOf, q, r
  <1>6. EndOf(w, N) = n
    <2>1. N \in 0..NumLines(w) /\ N = NumLines(w)
      BY <1>1 DEF N
    <2> QED BY <1>0, <2>1, LastEnd DEF n
  <1>7. ASSUME NEW k \in 0..(N - 1) PROVE RawLines(v)[k + 1] = RawLines(w)[k + 1]
    <2> DEFINE a == EndOf(w, k)
               b == EndOf(w, k + 1)
               x == SubSeq(v, a + 1, b)
               y == SubSeq(w, a + 1, b)
    <2>1. k \in 0..N /\ k + 1 \in 0..N /\ k < k + 1 /\ k \in 0..(NumLines(v) - 1) /\ k \in 0..(NumLines(w) - 1)
      BY <1>1, <1>5 DEF N
    <2>2. a \in 0..n /\ b \in 0..n /\ a < b
      BY <1>0, <2>1, LineEndsDef DEF N, n
    <2>3. RawLines(v)[k + 1] = x
      <3>1. RawLines(v)[k + 1] = SubSeq(v, EndOf(v, k) + 1, EndOf(v, k + 1))
        BY <1>2, <2>1, RawLine
      <3> QED BY <1>5, <2>1, <3>1
    <2>4. RawLines(w)[k + 1] = y
      BY <1>0, <2>1, RawLine
    <2> HIDE DEF a, b
    <2>5. a \in Nat /\ a <= b /\ b \in 0..Len(v) /\ b \in 0..Len(w)
      BY <1>1, <1>2, <2>2 DEF m, n
    <2>6. x \in Txt /\ Len(x) = b - a /\ \A i \in 1..(b - a) : x[i] = v[a + i]
      BY <1>2, <2>5, Part
    <2>7. y \in Txt /\ Len(y) = b - a /\ \A i \in 1..(b - a) : y[i] = w[a + i]
      BY <1>0, <2>5, Part
    <2> HIDE DEF x, y
    <2>8. \A i \in 1..Len(x) : x[i] = y[i]
      <3> TAKE i \in 1..Len(x)
      <3>1. i \in 1..(b - a) /\ a + i \in 1..n
        BY <1>1, <2>2, <2>5, <2>6
      <3> QED BY <1>2, <2>6, <2>7, <3>1
    <2>9. x = y
      BY <2>6, <2>7, <2>8, SeqEqual DEF Txt
    <2> QED BY <2>3, <2>4, <2>9
  <1>8. Text(RawLines(v)[N + 1]) = t
    <2>1. N \in 0..(NumLines(v) - 1) /\ EndOf(v, N) = n
      BY <1>1, <1>5, <1>6
    <2>2. m \in (n + 1)..Len(v) /\ IsBreak(v[m])
      BY <1>1, <1>2 DEF m, IsBreak
    <2>3. \A j \in (n + 1)..(m - 1) : ~IsBreak(v[j])
      <3> TAKE j \in (n + 1)..(m - 1)
      <3>1. j - n \in 1..d /\ n + (j - n) = j
        BY <1>1, <1>2
      <3>2. v[n + (j - n)] = t[j - n]
        BY <1>2, <3>1
      <3> QED BY <1>0, <3>1, <3>2 DEF d
    <2> DEFINE y == SubSeq(v, n + 1, m - 1)
    <2>4. Text(RawLines(v)[N + 1]) = y
      <3>1. Text(RawLines(v)[N + 1]) = SubSeq(v, EndOf(v, N) + 1, m - 1)
        BY <1>2, <2>1, <2>2, <2>3, NextLine
      <3> QED BY <2>1, <3>1
    <2>5. m - 1 \in 0..Len(v) /\ n <= m - 1 /\ (m - 1) - n = d
      BY <1>1, <1>2 DEF m
    <2> DEFINE b == m - 1
    <2>6. b \in 0..Len(v) /\ n <= b /\ b - n = d
      BY <2>5
    <2> HIDE DEF b
    <2>7. SubSeq(v, n + 1, b) \in Txt /\ Len(SubSeq(v, n + 1, b)) = b - n
          /\ \A i \in 1..(b - n) : SubSeq(v, n + 1, b)[i] = v[n + i]
      BY <1>1, <1>2, <2>6, Part
    <2>8. y \in Txt /\ Len(y) = d /\ \A i \in 1..d : y[i] = v[n + i]
      BY <2>6, <2>7 DEF b
    <2> HIDE DEF y
    <2>9. y = t
      <3>1. \A i \in 1..Len(y) : y[i] = t[i]
        BY <1>2, <2>8
      <3> QED BY <1>0, <2>8, <3>1, SeqEqual DEF Txt, d
    <2> QED BY <2>4, <2>9
  <1> DEFINE p == Lines(w)
             q == Lines(v)
             r == Append(p, t)
  <1>9. p \in Seq(Txt) /\ Len(p) = N /\ q \in Seq(Txt) /\ Len(q) = N + 1
    BY <1>0, <1>2, <1>5, LinesDef DEF N
  <1>10. \A k \in 0..(N - 1) : q[k + 1] = p[k + 1]
    <2> TAKE k \in 0..(N - 1)
    <2>1. k \in 0..(NumLines(v) - 1) /\ k \in 0..(NumLines(w) - 1)
      BY <1>1, <1>5 DEF N
    <2>2. p[k + 1] = IF k = 0 THEN Unmarked(Text(RawLines(w)[k + 1])) ELSE Text(RawLines(w)[k + 1])
      BY <1>0, <2>1, LinesDef
    <2>3. q[k + 1] = IF k = 0 THEN Unmarked(Text(RawLines(v)[k + 1])) ELSE Text(RawLines(v)[k + 1])
      BY <1>2, <2>1, LinesDef
    <2> QED BY <1>7, <2>2, <2>3
  <1>11. q[N + 1] = t
    <2>1. N \in 0..(NumLines(v) - 1)
      BY <1>1, <1>5
    <2>2. q[N + 1] = IF N = 0 THEN Unmarked(Text(RawLines(v)[N + 1])) ELSE Text(RawLines(v)[N + 1])
      BY <1>2, <2>1, LinesDef
    <2>3. Unmarked(t) = t
      BY DEF Unmarked
    <2> QED BY <1>8, <2>2, <2>3
  <1> HIDE DEF p, q
  <1>12. r \in Seq(Txt) /\ Len(r) = N + 1 /\ r[N + 1] = t /\ \A i \in 1..N : r[i] = p[i]
    BY <1>0, <1>9
  <1>13. \A i \in 1..Len(q) : q[i] = r[i]
    <2> TAKE i \in 1..Len(q)
    <2>1. CASE i = N + 1
      BY <1>11, <1>12, <2>1
    <2>2. CASE i # N + 1
      <3>1. i - 1 \in 0..(N - 1) /\ (i - 1) + 1 = i /\ i \in 1..N
        BY <1>1, <1>9, <2>2
      <3>2. q[(i - 1) + 1] = p[(i - 1) + 1]
        BY <1>10, <3>1
      <3> QED BY <1>12, <3>1, <3>2
    <2> QED BY <2>1, <2>2
  <1> HIDE DEF r
  <1>14. q = r
    BY <1>9, <1>12, <1>13, SeqEqual
  <1> QED BY <1>9, <1>14 DEF p, q, r, v

\* A data line, and the lines of some data with their breaks.
DataLine(l) == <<"data">> \o l
Fields(d) == [k \in 1..Len(d) |-> <<"data">> \o d[k] \o <<"lf">>]

\* After the body w the events C are complete and the data g gathered.
Reads(w, C, g) ==
    /\ Closed(w) /\ Lines(w) \in Seq(Txt)
    /\ Complete(Lines(w)) = C /\ Gathered(Lines(w)).data = g

\* A data line is a field with the line as its value.
LEMMA DataLineDef ==
  ASSUME NEW l \in Clean
  PROVE  /\ DataLine(l) \in Clean /\ DataLine(l) # <<>>
         /\ Field("data", DataLine(l)) /\ ~Field("bom", DataLine(l))
         /\ Tail(DataLine(l)) = l
  <1> DEFINE a == "data"
             s == <<a>>
             x == s \o l
  <1>0. l \in Seq(Symbols) /\ Len(l) \in Nat /\ \A i \in 1..Len(l) : ~IsBreak(l[i])
    BY DEF Clean, Txt
  <1>1. a \in Symbols /\ ~IsBreak(a) /\ a # "bom"
    BY StreamAssumption DEF IsBreak
  <1> HIDE DEF a
  <1>2. s \in Seq(Symbols)
    BY <1>1, Singleton
  <1>3. Len(s) = 1 /\ s[1] = a
    BY <1>1, Singleton
  <1> HIDE DEF s
  <1>4. x \in Seq(Symbols) /\ Len(x) = Len(s) + Len(l)
    BY <1>0, <1>2, ConcatElements
  <1>5. (\A i \in 1..Len(s) : x[i] = s[i]) /\ \A i \in 1..Len(l) : x[i + Len(s)] = l[i]
    BY <1>0, <1>2, ConcatElements
  <1> HIDE DEF x
  <1>6. Len(x) = Len(l) + 1 /\ x[1] = a /\ \A i \in 1..Len(l) : x[i + 1] = l[i]
    <2>1. 1 \in 1..Len(s)
      BY <1>3
    <2>2. x[1] = s[1]
      BY <1>5, <2>1
    <2>3. Len(x) = Len(l) + 1
      BY <1>0, <1>3, <1>4
    <2>4. \A i \in 1..Len(l) : x[i + 1] = l[i]
      BY <1>3, <1>5
    <2> QED BY <1>3, <2>2, <2>3, <2>4
  <1>7. x # <<>>
    BY <1>0, <1>6
  <1>8. Head(x) = a
    BY <1>4, <1>6, <1>7
  <1>9. \A i \in 1..Len(x) : ~IsBreak(x[i])
    <2> TAKE i \in 1..Len(x)
    <2>1. CASE i = 1
      BY <1>1, <1>6, <2>1
    <2>2. CASE i # 1
      <3>1. i - 1 \in 1..Len(l) /\ (i - 1) + 1 = i
        BY <1>0, <1>6, <2>2
      <3>2. x[(i - 1) + 1] = l[i - 1]
        BY <1>6, <3>1
      <3> QED BY <1>0, <3>1, <3>2
    <2> QED BY <2>1, <2>2
  <1>10. Tail(x) = l
    <2> DEFINE t == Tail(x)
    <2>1. t \in Seq(Symbols) /\ Len(t) = Len(l) /\ \A i \in 1..Len(l) : t[i] = x[i + 1]
      BY <1>0, <1>4, <1>6, <1>7, HeadTailProperties
    <2> HIDE DEF t
    <2>2. \A i \in 1..Len(t) : t[i] = l[i]
      BY <1>6, <2>1
    <2>3. t = l
      BY <1>0, <2>1, <2>2, SeqEqual
    <2> QED BY <2>3 DEF t
  <1>11. DataLine(l) = x
    BY DEF DataLine, x, s, a
  <1>12. x \in Clean
    BY <1>4, <1>9 DEF Clean, Txt
  <1>13. Field(a, x) /\ ~Field("bom", x)
    BY <1>1, <1>7, <1>8 DEF Field
  <1> QED BY <1>7, <1>10, <1>11, <1>12, <1>13 DEF a

\* A data line adds its value to what is gathered.
LEMMA PutField ==
  ASSUME NEW w, NEW C, NEW g, Reads(w, C, g), NEW l \in Clean
  PROVE  Reads(Put(w, DataLine(l)), C, Append(g, l))
  <1> DEFINE x == DataLine(l)
             p == Lines(w)
  <1>1. x \in Clean /\ x # <<>> /\ Field("data", x) /\ ~Field("bom", x) /\ Tail(x) = l /\ x \in Txt
    BY DataLineDef DEF Clean
  <1>2. Closed(w) /\ w \in Txt /\ p \in Seq(Txt) /\ Complete(p) = C /\ Gathered(p).data = g
    BY DEF Reads, Closed
  <1> HIDE DEF x
  <1>3. Closed(Put(w, x))
    BY <1>1, <1>2, PutDef
  <1>4. Lines(Put(w, x)) = Append(p, x)
    BY <1>1, <1>2, LinesPut
  <1> HIDE DEF p
  <1>5. Append(p, x) \in Seq(Txt)
    BY <1>1, <1>2
  <1>6. Complete(Append(p, x)) = C /\ Gathered(Append(p, x)).data = Append(g, l)
    BY <1>1, <1>2, ReadField
  <1> QED BY <1>3, <1>4, <1>5, <1>6 DEF Reads, x

\* A blank line completes an event with the data that were gathered.
LEMMA PutBlank ==
  ASSUME NEW w, NEW C, NEW g, Reads(w, C, g), g # <<>>, g # <<<<>>>>
  PROVE  \E ev \in Evs : ev.data = g /\ Reads(Put(w, <<>>), Append(C, ev), <<>>)
  <1> DEFINE x == <<>>
             p == Lines(w)
             ev == Gathered(p)
  <1>1. x \in Clean /\ ~Field("bom", x) /\ x \in Txt /\ x = <<>>
    BY DEF Clean, Txt, Field
  <1>2. Closed(w) /\ w \in Txt /\ p \in Seq(Txt) /\ Complete(p) = C /\ ev.data = g
    BY DEF Reads, Closed
  <1> HIDE DEF x
  <1>3. Closed(Put(w, x))
    BY <1>1, <1>2, PutDef
  <1>4. Lines(Put(w, x)) = Append(p, x)
    BY <1>1, <1>2, LinesPut
  <1> HIDE DEF p
  <1>5. Append(p, x) \in Seq(Txt) /\ ev \in Evs
    BY <1>1, <1>2, ReadTypes
  <1>6. IsEvent(ev)
    BY <1>2 DEF IsEvent
  <1>7. Complete(Append(p, <<>>)) = Append(C, ev) /\ Gathered(Append(p, <<>>)).data = <<>>
    BY <1>2, <1>6, ReadBlank
  <1> HIDE DEF ev
  <1>8. Reads(Put(w, x), Append(C, ev), <<>>)
    BY <1>1, <1>3, <1>4, <1>5, <1>7 DEF Reads
  <1>9. Reads(Put(w, <<>>), Append(C, ev), <<>>)
    BY <1>1, <1>8
  <1> QED BY <1>2, <1>5, <1>9

\* Flattening, one sequence at a time.
LEMMA FlattenAppend ==
  ASSUME NEW X, NEW s \in Seq(Seq(X)), NEW x \in Seq(X)
  PROVE  FlattenSeq(Append(s, x)) = FlattenSeq(s) \o x
  <1>1. FlattenSeq(Append(s, x)) = (IF s = <<>> THEN x ELSE FlattenSeq(s) \o x) /\ FlattenSeq(<<>>) = <<>>
    BY FlattenNext
  <1>2. CASE s = <<>>
    <2>1. <<>> \o x = x
      OBVIOUS
    <2> QED BY <1>1, <1>2, <2>1
  <1>3. CASE s # <<>>
    BY <1>1, <1>3
  <1> QED BY <1>2, <1>3

\* The lines of some data, one at a time.
LEMMA FieldsNext ==
  ASSUME NEW d \in Seq(Clean), NEW l \in Clean
  PROVE  /\ Fields(<<>>) = <<>>
         /\ Fields(d) \in Seq(Txt)
         /\ DataLine(l) \o <<"lf">> \in Txt
         /\ Fields(Append(d, l)) = Append(Fields(d), DataLine(l) \o <<"lf">>)
  <1> DEFINE G(x) == DataLine(x) \o <<"lf">>
             n == Len(d)
             e == Append(d, l)
  <1>1. ASSUME NEW x \in Clean PROVE G(x) \in Txt
    <2> DEFINE y == DataLine(x)
               z == "lf"
    <2>1. y \in Seq(Symbols) /\ z \in Symbols
      BY DataLineDef, StreamAssumption DEF Clean, Txt
    <2> HIDE DEF y, z
    <2>2. y \o <<z>> = Append(y, z) /\ Append(y, z) \in Seq(Symbols)
      BY <2>1, ConcatOne
    <2>3. y \o <<z>> \in Txt
      BY <2>2 DEF Txt
    <2> QED BY <2>3 DEF y, z
  <1>2. \A s : Fields(s) = [k \in 1..Len(s) |-> G(s[k])]
    BY DEF Fields, DataLine
  <1> HIDE DEF G
  <1>3. n \in Nat /\ Len(e) = n + 1 /\ e[n + 1] = l /\ (\A i \in 1..n : e[i] = d[i]) /\ \A i \in 1..n : d[i] \in Clean
    OBVIOUS
  <1> HIDE DEF e, n
  <1>4. Fields(d) = [k \in 1..n |-> G(d[k])] /\ Fields(e) = [k \in 1..(n + 1) |-> G(e[k])]
    BY <1>2, <1>3 DEF n
  <1>5. Fields(<<>>) = <<>>
    BY <1>2
  <1> DEFINE u == Fields(d)
             v == Fields(e)
             r == Append(u, G(l))
  <1>6. u \in Seq(Txt) /\ Len(u) = n /\ \A i \in 1..n : u[i] = G(d[i])
    BY <1>1, <1>3, <1>4
  <1>7. v \in Seq(Txt) /\ Len(v) = n + 1 /\ \A i \in 1..(n + 1) : v[i] = G(e[i])
    <2>1. \A i \in 1..(n + 1) : G(e[i]) \in Txt
      BY <1>1, <1>3
    <2> QED BY <1>3, <1>4, <2>1
  <1>8. G(l) \in Txt
    BY <1>1
  <1> HIDE DEF u, v
  <1>9. r \in Seq(Txt) /\ Len(r) = n + 1 /\ r[n + 1] = G(l) /\ \A i \in 1..n : r[i] = u[i]
    BY <1>3, <1>6, <1>8
  <1> HIDE DEF r
  <1>10. \A i \in 1..Len(v) : v[i] = r[i]
    <2> TAKE i \in 1..Len(v)
    <2>0. i \in 1..(n + 1)
      BY <1>7
    <2>1. CASE i = n + 1
      BY <1>3, <1>7, <1>9, <2>0, <2>1
    <2>2. CASE i \in 1..n
      BY <1>3, <1>6, <1>7, <1>9, <2>0, <2>2
    <2> QED BY <1>3, <2>0, <2>1, <2>2
  <1>11. v = r
    BY <1>7, <1>9, <1>10, SeqEqual
  <1> QED BY <1>5, <1>6, <1>8, <1>11 DEF u, v, r, e, G

\* Data that are an event's.
Datas == {d \in Seq(Clean) : d # <<>> /\ d # <<<<>>>>}

\* Concatenations of texts.
LEMMA TxtConcat ==
  ASSUME NEW u \in Txt, NEW v \in Txt
  PROVE  u \o v \in Txt /\ u \o <<>> = u /\ <<>> \o u = u
  <1>1. u \in Seq(Symbols) /\ v \in Seq(Symbols)
    BY DEF Txt
  <1>3. u \o v \in Seq(Symbols)
    BY <1>1, ConcatElements
  <1>4. u \o <<>> = u /\ <<>> \o u = u
    BY <1>1, ConcatEmptySeq
  <1> QED BY <1>3, <1>4 DEF Txt

\* The data lines that are written are read as they were.
LEMMA FieldsRead ==
  ASSUME NEW w, NEW C, Reads(w, C, <<>>), NEW d \in Seq(Clean)
  PROVE  /\ FlattenSeq(Fields(d)) \in Txt
         /\ Reads(w \o FlattenSeq(Fields(d)), C, d)
  <1> DEFINE F(j) == FlattenSeq(Fields(First(d, j)))
             P == {j \in Nat : j <= Len(d) => F(j) \in Txt /\ Reads(w \o F(j), C, First(d, j))}
  <1>0. w \in Txt /\ Len(d) \in Nat /\ <<>> \in Txt
    BY DEF Reads, Closed, Txt
  <1>1. 0 \in P
    <2>1. First(d, 0) = <<>>
      BY FirstEnds
    <2>2. Fields(<<>>) = <<>>
      <3>1. Len(<<>>) = 0
        OBVIOUS
      <3> QED BY <3>1 DEF Fields
    <2>3. FlattenSeq(<<>>) = <<>>
      BY DEF FlattenSeq
    <2>4. F(0) = <<>>
      BY <2>1, <2>2, <2>3
    <2>5. w \o <<>> = w
      BY <1>0, TxtConcat
    <2> HIDE DEF F
    <2>6. F(0) \in Txt /\ Reads(w \o F(0), C, First(d, 0))
      BY <1>0, <2>1, <2>4, <2>5
    <2> QED BY <2>6
  <1>2. ASSUME NEW j \in P PROVE j + 1 \in P
    <2>1. j \in Nat /\ (j <= Len(d) => F(j) \in Txt /\ Reads(w \o F(j), C, First(d, j)))
      OBVIOUS
    <2>2. SUFFICES ASSUME j + 1 <= Len(d)
                   PROVE  F(j + 1) \in Txt /\ Reads(w \o F(j + 1), C, First(d, j + 1))
      BY <2>1
    <2>3. j \in 0..(Len(d) - 1) /\ j <= Len(d)
      BY <1>0, <2>1, <2>2
    <2> DEFINE e == First(d, j)
               l == d[j + 1]
               x == DataLine(l) \o <<"lf">>
    <2>4. e \in Seq(Clean) /\ First(d, j + 1) = Append(e, l) /\ l \in Clean
      BY <2>3, FirstNext
    <2> HIDE DEF e, l
    <2>5. Fields(e) \in Seq(Txt) /\ x \in Txt /\ Fields(Append(e, l)) = Append(Fields(e), x)
      BY <2>4, FieldsNext
    <2>6. F(j) \in Txt /\ Reads(w \o F(j), C, e) /\ F(j) = FlattenSeq(Fields(e))
      BY <2>1, <2>3 DEF e
    <2>p. (w \o F(j)) \o x = Put(w \o F(j), DataLine(l))
      BY DEF Put
    <2> HIDE DEF x
    <2>7. F(j + 1) = F(j) \o x
      <3>1. F(j + 1) = FlattenSeq(Append(Fields(e), x))
        BY <2>4, <2>5
      <3>2. FlattenSeq(Append(Fields(e), x)) = FlattenSeq(Fields(e)) \o x
        BY <2>5, FlattenAppend DEF Txt
      <3> QED BY <2>6, <3>1, <3>2
    <2> HIDE DEF F
    <2>8. F(j) \o x \in Txt /\ w \o (F(j) \o x) = (w \o F(j)) \o x
      <3> DEFINE y == F(j)
      <3>1. y \in Txt /\ x \in Txt /\ w \in Txt
        BY <1>0, <2>5, <2>6
      <3> HIDE DEF y
      <3>2. y \o x \in Txt
        BY <3>1, TxtConcat
      <3>3. (w \o y) \o x = w \o (y \o x)
        BY <3>1, ConcatAssociative DEF Txt
      <3> QED BY <3>2, <3>3 DEF y
    <2>9. Reads(Put(w \o F(j), DataLine(l)), C, Append(e, l))
      BY <2>4, <2>6, PutField
    <2> QED BY <2>4, <2>7, <2>8, <2>9, <2>p
  <1>3. Len(d) \in P
    <2> HIDE DEF P
    <2>1. P \in SUBSET Nat
      BY DEF P
    <2> QED BY <1>0, <1>1, <1>2, <2>1, SetInduction
  <1>4. First(d, Len(d)) = d
    BY FirstEnds
  <1>5. Len(d) <= Len(d)
    BY <1>0
  <1> QED BY <1>3, <1>4, <1>5

\* An event that is written is read as it was.
LEMMA WrittenRead ==
  ASSUME NEW w, NEW C, Reads(w, C, <<>>), NEW d \in Datas
  PROVE  /\ Written(d) \in Txt
         /\ \E ev \in Evs : ev.data = d /\ Reads(w \o Written(d), Append(C, ev), <<>>)
  <1> DEFINE f == FlattenSeq(Fields(d))
             l == <<"lf">>
  <1>0. w \in Txt /\ d \in Seq(Clean) /\ d # <<>> /\ d # <<<<>>>> /\ <<>> \in Txt
    BY DEF Reads, Closed, Datas, Txt
  <1>1. f \in Txt /\ Reads(w \o f, C, d)
    BY <1>0, FieldsRead
  <1>2. l \in Txt
    <2> DEFINE a == "lf"
    <2>1. a \in Symbols
      BY StreamAssumption
    <2> HIDE DEF a
    <2>2. <<a>> \in Seq(Symbols)
      BY <2>1, Singleton
    <2> QED BY <2>2 DEF Txt, a
  <1>3. Written(d) = f \o l
    BY DEF Written, Fields
  <1>4. Put(w \o f, <<>>) = (w \o f) \o (<<>> \o l)
    BY DEF Put
  <1> HIDE DEF f, l
  <1>5. Put(w \o f, <<>>) = w \o (f \o l) /\ f \o l \in Txt
    <2>1. <<>> \o l = l
      BY <1>2, TxtConcat
    <2>2. (w \o f) \o l = w \o (f \o l)
      BY <1>0, <1>1, <1>2, ConcatAssociative DEF Txt
    <2>3. f \o l \in Txt
      BY <1>1, <1>2, TxtConcat
    <2> QED BY <1>4, <2>1, <2>2, <2>3
  <1>6. \E ev \in Evs : ev.data = d /\ Reads(Put(w \o f, <<>>), Append(C, ev), <<>>)
    BY <1>0, <1>1, PutBlank
  <1> QED BY <1>3, <1>5, <1>6

\* What is written for a sequence of data.
Answer(D) == FlattenSeq([k \in 1..Len(D) |-> Written(D[k])])

\* Of an empty body nothing is read.
LEMMA NothingRead == Reads(<<>>, <<>>, <<>>)
  <1>1. <<>> \in Txt /\ Len(<<>>) = 0
    BY DEF Txt
  <1> DEFINE w == <<>>
  <1>2. w \in Txt /\ Len(w) = 0
    BY <1>1
  <1> HIDE DEF w
  <1>3. NumLines(w) = 0
    <2>1. LineEnds(w) = <<>>
      BY <1>2, InOrderZero DEF LineEnds
    <2> QED BY <1>1, <2>1 DEF NumLines
  <1>4. Lines(w) \in Seq(Txt) /\ Len(Lines(w)) = 0
    BY <1>2, <1>3, LinesDef
  <1>5. Lines(w) = <<>>
    BY <1>4
  <1>6. Closed(w)
    BY <1>2 DEF Closed, w
  <1>7. Reads(w, <<>>, <<>>)
    BY <1>4, <1>5, <1>6, ReadNothing DEF Reads
  <1> QED BY <1>7 DEF w

\* The data of events.
LEMMA DataOfNext ==
  ASSUME NEW C \in Seq(Evs), NEW ev \in Evs
  PROVE  /\ DataOf(C) \in Seq(Seq(Txt)) /\ Len(DataOf(C)) = Len(C)
         /\ DataOf(Append(C, ev)) = Append(DataOf(C), ev.data)
         /\ DataOf(<<>>) = <<>>
  <1> DEFINE n == Len(C)
             e == Append(C, ev)
             u == DataOf(C)
             v == DataOf(e)
             r == Append(u, ev.data)
             Y == Seq(Txt)
  <1>1. n \in Nat /\ Len(e) = n + 1 /\ e[n + 1] = ev /\ (\A i \in 1..n : e[i] = C[i]) /\ \A i \in 1..n : C[i] \in Evs
    OBVIOUS
  <1>2. \A x \in Evs : x.data \in Y
    BY DEF Evs
  <1> HIDE DEF e, n, Y
  <1>3. u = [k \in 1..n |-> C[k].data] /\ v = [k \in 1..(n + 1) |-> e[k].data]
    BY <1>1 DEF DataOf, n
  <1>4. DataOf(<<>>) = <<>>
    <2>1. Len(<<>>) = 0
      OBVIOUS
    <2> QED BY <2>1 DEF DataOf
  <1> HIDE DEF u, v
  <1>5. u \in Seq(Y) /\ Len(u) = n /\ \A i \in 1..n : u[i] = C[i].data
    BY <1>1, <1>2, <1>3
  <1>6. v \in Seq(Y) /\ Len(v) = n + 1 /\ \A i \in 1..(n + 1) : v[i] = e[i].data
    <2>1. \A i \in 1..(n + 1) : e[i].data \in Y
      BY <1>1, <1>2
    <2> QED BY <1>1, <1>3, <2>1
  <1>7. r \in Seq(Y) /\ Len(r) = n + 1 /\ r[n + 1] = ev.data /\ \A i \in 1..n : r[i] = u[i]
    BY <1>1, <1>2, <1>5
  <1> HIDE DEF r
  <1>8. \A i \in 1..Len(v) : v[i] = r[i]
    <2> TAKE i \in 1..Len(v)
    <2>0. i \in 1..(n + 1)
      BY <1>6
    <2>1. CASE i = n + 1
      BY <1>1, <1>6, <1>7, <2>0, <2>1
    <2>2. CASE i \in 1..n
      BY <1>1, <1>5, <1>6, <1>7, <2>0, <2>2, SMTT(30)
    <2> QED BY <1>1, <2>0, <2>1, <2>2
  <1>9. v = r
    BY <1>6, <1>7, <1>8, SeqEqual
  <1> QED BY <1>4, <1>5, <1>9 DEF u, v, r, e, n, Y

\* What is written, one event at a time.
LEMMA AnswerNext ==
  ASSUME NEW D, NEW x, D \in Seq(Datas), x \in Datas
  PROVE  /\ Answer(D) \in Txt
         /\ Answer(Append(D, x)) = Answer(D) \o Written(x)
         /\ Answer(<<>>) = <<>>
  <1> DEFINE n == Len(D)
             e == Append(D, x)
             u == [k \in 1..n |-> Written(D[k])]
             v == [k \in 1..(n + 1) |-> Written(e[k])]
             r == Append(u, Written(x))
  <1>0. \A y \in Datas : Written(y) \in Txt
    BY NothingRead, WrittenRead
  <1>1. n \in Nat /\ Len(e) = n + 1 /\ e[n + 1] = x /\ (\A i \in 1..n : e[i] = D[i]) /\ \A i \in 1..n : D[i] \in Datas
    OBVIOUS
  <1>2. Answer(D) = FlattenSeq(u) /\ Answer(e) = FlattenSeq(v)
    BY <1>1 DEF Answer
  <1>3. Answer(<<>>) = <<>>
    <2> DEFINE z == [k \in 1..Len(<<>>) |-> Written(<<>>[k])]
    <2>1. z = <<>>
      <3>1. Len(<<>>) = 0
        OBVIOUS
      <3> QED BY <3>1
    <2> HIDE DEF z
    <2>2. FlattenSeq(<<>>) = <<>>
      BY DEF FlattenSeq
    <2>3. Answer(<<>>) = FlattenSeq(z)
      BY DEF Answer, z
    <2> QED BY <2>1, <2>2, <2>3
  <1> HIDE DEF e, n
  <1>5. u \in Seq(Txt) /\ Len(u) = n /\ \A i \in 1..n : u[i] = Written(D[i])
    BY <1>0, <1>1
  <1>6. v \in Seq(Txt) /\ Len(v) = n + 1 /\ \A i \in 1..(n + 1) : v[i] = Written(e[i])
    <2>1. \A i \in 1..(n + 1) : e[i] \in Datas
      BY <1>1
    <2>2. \A i \in 1..(n + 1) : Written(e[i]) \in Txt
      BY <1>0, <2>1
    <2> QED BY <1>1, <2>2
  <1>w. Written(x) \in Txt
    BY <1>0
  <1> HIDE DEF u, v
  <1>7. r \in Seq(Txt) /\ Len(r) = n + 1 /\ r[n + 1] = Written(x) /\ \A i \in 1..n : r[i] = u[i]
    BY <1>1, <1>5, <1>w
  <1> HIDE DEF r
  <1>8. \A i \in 1..Len(v) : v[i] = r[i]
    <2> TAKE i \in 1..Len(v)
    <2>0. i \in 1..(n + 1)
      BY <1>6
    <2>1. CASE i = n + 1
      BY <1>1, <1>6, <1>7, <2>0, <2>1
    <2>2. CASE i \in 1..n
      BY <1>1, <1>5, <1>6, <1>7, <2>0, <2>2, SMTT(30)
    <2> QED BY <1>1, <2>0, <2>1, <2>2
  <1>9. v = r
    BY <1>6, <1>7, <1>8, SeqEqual
  <1>10. FlattenSeq(Append(u, Written(x))) = FlattenSeq(u) \o Written(x)
    BY <1>5, <1>w, FlattenAppend DEF Txt
  <1>11. FlattenSeq(u) \in Txt
    BY <1>5, FlattenSeqType DEF Txt
  <1> QED BY <1>2, <1>3, <1>9, <1>10, <1>11 DEF r, e

\* A client reads the data that were written.
LEMMA AnswerRead ==
  ASSUME NEW D \in Seq(Datas)
  PROVE  DataOf(Events(Answer(D))) = D /\ Events(Answer(D)) \in Seq(Evs)
  <1> DEFINE Q(j) == \E C \in Seq(Evs) : Reads(Answer(First(D, j)), C, <<>>) /\ DataOf(C) = First(D, j)
             P == {j \in Nat : j <= Len(D) => Q(j)}
  <1>0. Len(D) \in Nat
    OBVIOUS
  <1>1. 0 \in P
    <2>1. First(D, 0) = <<>>
      BY FirstEnds
    <2>2. Answer(<<>>) = <<>>
      <3> DEFINE z == [k \in 1..Len(<<>>) |-> Written(<<>>[k])]
      <3>1. z = <<>>
        <4>1. Len(<<>>) = 0
          OBVIOUS
        <4> QED BY <4>1
      <3> HIDE DEF z
      <3>2. FlattenSeq(<<>>) = <<>>
        BY DEF FlattenSeq
      <3>3. Answer(<<>>) = FlattenSeq(z)
        BY DEF Answer, z
      <3> QED BY <3>1, <3>2, <3>3
    <2>3. <<>> \in Seq(Evs) /\ DataOf(<<>>) = <<>>
      <3>1. Len(<<>>) = 0
        OBVIOUS
      <3> QED BY <3>1 DEF DataOf
    <2>4. Q(0)
      BY <2>1, <2>2, <2>3, NothingRead
    <2> HIDE DEF Q
    <2> QED BY <2>4
  <1>2. ASSUME NEW j \in P PROVE j + 1 \in P
    <2>1. j \in Nat /\ (j <= Len(D) => Q(j))
      OBVIOUS
    <2>2. SUFFICES ASSUME j + 1 <= Len(D) PROVE Q(j + 1)
      BY <2>1
    <2>3. j \in 0..(Len(D) - 1) /\ j <= Len(D)
      BY <1>0, <2>1, <2>2
    <2> DEFINE e == First(D, j)
               x == D[j + 1]
    <2>4. e \in Seq(Datas) /\ First(D, j + 1) = Append(e, x) /\ x \in Datas
      BY <2>3, FirstNext
    <2>5. PICK C \in Seq(Evs) : Reads(Answer(e), C, <<>>) /\ DataOf(C) = e
      BY <2>1, <2>3
    <2> HIDE DEF e, x
    <2>6. PICK ev \in Evs : ev.data = x /\ Reads(Answer(e) \o Written(x), Append(C, ev), <<>>)
      BY <2>4, <2>5, WrittenRead
    <2>7. Answer(Append(e, x)) = Answer(e) \o Written(x)
      BY <2>4, AnswerNext
    <2>8. DataOf(Append(C, ev)) = Append(e, x)
      BY <2>5, <2>6, DataOfNext
    <2>9. Append(C, ev) \in Seq(Evs)
      BY <2>6
    <2>10. Reads(Answer(Append(e, x)), Append(C, ev), <<>>)
      BY <2>6, <2>7
    <2> QED BY <2>4, <2>8, <2>9, <2>10
  <1>3. Len(D) \in P
    <2> HIDE DEF P
    <2>1. P \in SUBSET Nat
      BY DEF P
    <2> QED BY <1>0, <1>1, <1>2, <2>1, SetInduction
  <1>4. First(D, Len(D)) = D /\ Len(D) <= Len(D)
    BY <1>0, FirstEnds
  <1>5. PICK C \in Seq(Evs) : Reads(Answer(D), C, <<>>) /\ DataOf(C) = D
    BY <1>3, <1>4
  <1>6. Lines(Answer(D)) \in Seq(Txt) /\ Complete(Lines(Answer(D))) = C /\ ~IsEvent(Gathered(Lines(Answer(D))))
    BY <1>5 DEF Reads, IsEvent
  <1>7. Events(Answer(D)) = C
    BY <1>6, EventsAreRead
  <1> QED BY <1>5, <1>7

-----------------------------------------------------------------------------
(* What a client of an OpenAI-type upstream reads.                         *)

\* The rest of a line without breaks has none.
LEMMA TailClean ==
  ASSUME NEW l \in Clean, l # <<>>
  PROVE  Tail(l) \in Clean
  <1> DEFINE t == Tail(l)
  <1>1. l \in Seq(Symbols) /\ Len(l) \in Nat /\ \A i \in 1..Len(l) : ~IsBreak(l[i])
    BY DEF Clean, Txt
  <1>2. t \in Seq(Symbols) /\ Len(t) = Len(l) - 1 /\ \A i \in 1..Len(t) : t[i] = l[i + 1]
    BY <1>1, HeadTailProperties
  <1> HIDE DEF t
  <1>3. \A i \in 1..Len(t) : ~IsBreak(t[i])
    <2> TAKE i \in 1..Len(t)
    <2>1. i + 1 \in 1..Len(l)
      BY <1>1, <1>2
    <2> QED BY <1>1, <1>2, <2>1
  <1>4. t \in Clean
    BY <1>2, <1>3 DEF Clean, Txt
  <1> QED BY <1>4 DEF t

\* A line that is scanned has no breaks.
LEMMA LineClean ==
  ASSUME ReaderTypes
  PROVE  Line \in Clean
  <1> DEFINE b == buf
             eof == end # "none"
             f == FirstBreak(b)
             t == Split(b, eof)
             z == 0
  <1>1. b \in Txt /\ Len(b) \in Nat
    BY TxtLen DEF ReaderTypes
  <1>2. f \in 0..Len(b) /\ (f = 0 <=> \A i \in 1..Len(b) : ~IsBreak(b[i]))
    BY <1>1, FirstBreakDef
  <1>3. f # 0 => \A i \in 1..(f - 1) : ~IsBreak(b[i])
    BY <1>1, FirstBreakDef
  <1>4. t =
          IF f = 0 THEN IF eof THEN [advance |-> Len(b), token |-> b] ELSE NoToken
          ELSE IF b[f] = "cr" /\ f = Len(b) /\ ~eof THEN NoToken
          ELSE IF b[f] = "cr" /\ f < Len(b) /\ b[f + 1] = "lf"
            THEN [advance |-> f + 1, token |-> SubSeq(b, 1, f - 1)]
            ELSE [advance |-> f, token |-> SubSeq(b, 1, f - 1)]
    BY DEF Split
  <1>5. <<>> \in Clean
    BY DEF Clean, Txt
  <1> HIDE DEF b, eof, f, t, z
  <1>6. CASE f = 0
    <2>1. b \in Clean
      BY <1>1, <1>2, <1>6 DEF Clean
    <2>2. t.token = b \/ t.token = <<>>
      BY <1>4, <1>6 DEF NoToken
    <2>3. t.token \in Clean
      BY <1>5, <2>1, <2>2
    <2>4. Token.token \in Clean
      BY <2>3 DEF Token, t, b, eof
    <2> QED BY <2>4, TailClean DEF Line, Unmarked, Field
  <1>7. CASE f # 0
    <2> DEFINE y == f - 1
               s == SubSeq(b, z + 1, y)
    <2>1. z \in Nat /\ y \in 0..Len(b) /\ z <= y /\ z + 1 = 1 /\ y - z = y /\ \A i \in 1..y : z + i = i
      BY <1>1, <1>2, <1>7 DEF z
    <2>2. \A i \in 1..y : ~IsBreak(b[i])
      BY <1>3, <1>7
    <2> HIDE DEF y
    <2>3. s \in Txt /\ Len(s) = y - z /\ \A i \in 1..(y - z) : s[i] = b[z + i]
      BY <1>1, <2>1, Part
    <2>4. s \in Clean
      <3> HIDE DEF s
      <3>1. Len(s) = y /\ \A i \in 1..y : s[i] = b[i]
        BY <2>1, <2>3
      <3> QED BY <2>2, <2>3, <3>1 DEF Clean
    <2>5. s = SubSeq(b, 1, f - 1)
      BY <2>1 DEF y
    <2> HIDE DEF s
    <2>6. t.token = s \/ t.token = <<>>
      BY <1>4, <1>7, <2>5 DEF NoToken
    <2>7. t.token \in Clean
      BY <1>5, <2>4, <2>6
    <2>8. Token.token \in Clean
      BY <2>7 DEF Token, t, b, eof
    <2> QED BY <2>8, TailClean DEF Line, Unmarked, Field
  <1> QED BY <1>6, <1>7

\* The data of the event that is being gathered stay without breaks.
LEMMA DataCleanNext ==
  ASSUME RInv, data \in Seq(Clean), [Next]_vars
  PROVE  data' \in Seq(Clean)
  <1>0. ReaderTypes /\ <<>> \in Seq(Clean)
    BY DEF RInv
  <1>1. ASSUME NEW n \in 0..MaxLine, NEW says \in {"none", "eof", "error"}, Read(n, says)
        PROVE  data' = data
    BY <1>1 DEF Read
  <1>2. CASE LineTooLong \/ EndOnError
    <2>1. data' = data
      BY <1>2 DEF LineTooLong, EndOnError, reader
    <2> QED BY <2>1
  <1>3. CASE ScanBlank \/ EndOnEOF
    <2>1. data' = <<>>
      BY <1>3 DEF ScanBlank, EndOnEOF
    <2> QED BY <1>0, <2>1
  <1>4. CASE ScanField
    <2>1. Line # <<>> /\ data' = IF Field("data", Line) THEN Append(data, Tail(Line)) ELSE data
      BY <1>4 DEF ScanField
    <2>2. Tail(Line) \in Clean
      BY <1>0, <2>1, LineClean, TailClean
    <2>3. Append(data, Tail(Line)) \in Seq(Clean)
      BY <2>2
    <2> QED BY <2>1, <2>3
  <1>5. CASE UNCHANGED vars
    <2>1. data' = data
      BY <1>5 DEF vars, reader
    <2> QED BY <2>1
  <1> QED BY <1>1, <1>2, <1>3, <1>4, <1>5 DEF Next

\* Chunks with the data of an event.
Carriers == {c \in Chunks : c.data \in Datas}

\* The events s without those that are not in kept, each of which is a [DONE] or
\* the last one, whose write failed the stream.
Kept(s, kept, x) ==
    \A k \in (1..Len(s)) \ kept : IsDone(s[k]) \/ (x = "write" /\ k = Len(s))

\* The chunks o are for the events s, but for some that were not written.
SentOK(o, s, x) ==
    /\ o \in Seq(Carriers)
    /\ \E kept \in SUBSET (1..Len(s)) : DataOf(o) = DataOf(Picked(s, kept)) /\ Kept(s, kept, x)

\* A stream of an OpenAI-type upstream.
SentInv ==
    /\ data \in Seq(Clean)
    /\ status = "open" => why # "write"
    /\ kind = "openai" => SentOK(out, Shown, why)

\* What the client should see.
LEMMA ShownType ==
  ASSUME delivered \in Seq(Evs)
  PROVE  Shown \in Seq(Evs)
  <1> DEFINE S == {k \in 1..Len(delivered) : IsShown(delivered[k])}
  <1> HIDE DEF S
  <1>1. Picked(delivered, S) \in Seq(Evs)
    BY PickedSeq
  <1> QED BY <1>1 DEF Shown, S

\* An event the client should see, and those among some events.
Seen(a, ev) == a \/ ~Decodes(ev) \/ Decoded(ev).done \/ ~Decoded(ev).usage \/ Decoded(ev).choices
SeenIn(a, d) == Picked(d, {k \in 1..Len(d) : Seen(a, d[k])})

\* The two sides of a step.
LEMMA ShownIsSeen ==
  Shown = SeenIn(asked, delivered) /\ Shown' = SeenIn(asked', delivered')
  <1>1. Shown = SeenIn(asked, delivered)
    BY DEF Shown, IsShown, SeenIn, Seen
  <1>2. Shown' = SeenIn(asked', delivered')
    BY Zenon DEF Shown, IsShown, SeenIn, Seen, Picked, Decodes, Decoded
  <1> QED BY <1>1, <1>2

\* What the client should see once another event was handed over.
LEMMA ShownNext ==
  ASSUME delivered \in Seq(Evs), NEW ev \in Evs, delivered' = Append(delivered, ev), asked' = asked
  PROVE  Shown' = IF IsShown(ev) THEN Append(Shown, ev) ELSE Shown
  <1> DEFINE d == delivered
             e == Append(d, ev)
             S == {k \in 1..Len(d) : Seen(asked, d[k])}
             T == {k \in 1..Len(e) : Seen(asked, e[k])}
  <1>1. Len(d) \in Nat /\ Len(e) = Len(d) + 1 /\ e[Len(d) + 1] = ev /\ \A i \in 1..Len(d) : e[i] = d[i]
    OBVIOUS
  <1>2. IsShown(ev) <=> Seen(asked, ev)
    BY DEF IsShown, Seen
  <1>3. Shown = Picked(d, S) /\ Shown' = Picked(e, T)
    BY ShownIsSeen DEF SeenIn
  <1>4. (\A i \in 1..Len(d) : i \in S <=> i \in T) /\ (Len(d) + 1 \in T <=> IsShown(ev))
    <2> HIDE DEF d, e
    <2> QED BY <1>1, <1>2
  <1> HIDE DEF S, T
  <1>5. Picked(Append(d, ev), T) = IF Len(d) + 1 \in T THEN Append(Picked(d, S), ev) ELSE Picked(d, S)
    BY <1>4, PickedNext
  <1> QED BY <1>3, <1>4, <1>5

\* Chunks as data, one at a time.
LEMMA SentNext ==
  ASSUME NEW o1 \in Seq(Carriers), NEW c \in Carriers
  PROVE  /\ DataOf(o1) \in Seq(Datas)
         /\ Append(o1, c) \in Seq(Carriers)
         /\ DataOf(Append(o1, c)) = Append(DataOf(o1), c.data)
  <1> DEFINE n == Len(o1)
             e == Append(o1, c)
             u == [k \in 1..n |-> o1[k].data]
             v == [k \in 1..Len(e) |-> e[k].data]
             r == Append(u, c.data)
  <1>1. n \in Nat /\ Len(e) = n + 1 /\ e[n + 1] = c /\ (\A i \in 1..n : e[i] = o1[i]) /\ (\A i \in 1..n : o1[i] \in Carriers)
        /\ e \in Seq(Carriers)
    OBVIOUS
  <1>2. \A x \in Carriers : x.data \in Datas
    BY DEF Carriers
  <1>3. u \in Seq(Datas) /\ Len(u) = n /\ \A i \in 1..n : u[i] = o1[i].data
    <2> HIDE DEF n
    <2> QED BY <1>1, <1>2
  <1>4. v \in Seq(Datas) /\ Len(v) = n + 1 /\ \A i \in 1..(n + 1) : v[i] = e[i].data
    <2> HIDE DEF n, e
    <2>1. \A i \in 1..(n + 1) : e[i].data \in Datas
      BY <1>1, <1>2
    <2> QED BY <1>1, <2>1
  <1> HIDE DEF u, v, e, n
  <1>5. r \in Seq(Datas) /\ Len(r) = n + 1 /\ r[n + 1] = c.data /\ \A i \in 1..n : r[i] = u[i]
    BY <1>1, <1>2, <1>3
  <1> HIDE DEF r
  <1>6. \A i \in 1..Len(v) : v[i] = r[i]
    <2> TAKE i \in 1..Len(v)
    <2>0. i \in 1..(n + 1)
      BY <1>4
    <2>1. CASE i = n + 1
      BY <1>1, <1>4, <1>5, <2>0, <2>1
    <2>2. CASE i \in 1..n
      <3>1. v[i] = e[i].data
        BY <1>4, <2>0
      <3>2. e[i] = o1[i]
        BY <1>1, <2>2
      <3>3. u[i] = o1[i].data
        BY <1>3, <2>2
      <3>4. r[i] = u[i]
        BY <1>5, <2>2
      <3> QED BY <3>1, <3>2, <3>3, <3>4
    <2> QED BY <1>1, <2>0, <2>1, <2>2
  <1>7. v = r
    BY <1>4, <1>5, <1>6, SeqEqual
  <1> QED BY <1>1, <1>3, <1>7 DEF DataOf, u, v, r, e, n

\* The chunk that answers an event of an OpenAI-type upstream, and the event.
ShowsPending(r) ==
    /\ \E c \in Carriers : r.chunks = <<c>> /\ c.data = data /\ (c.type = "done" => IsDone(Pending))
    /\ Pending \in Evs /\ Pending.data = data /\ Shown' = Append(Shown, Pending)

\* The chunks that answer an event of an OpenAI-type upstream.
LEMMA OpenAIHanded ==
  ASSUME RInv, RelayOK, data \in Seq(Clean), kind = "openai", NEW r, Handed(r), asked' = asked
  PROVE  (r.chunks = <<>> /\ Shown' = Shown) \/ ShowsPending(r)
  <1>1. Pending \in Evs /\ st \in States /\ delivered \in Seq(Evs) /\ Pending.data = data
    BY PendingType DEF RInv, ReaderTypes, RelayOK, Pending
  <1>2. CASE delivered' = delivered /\ r = Result(st, <<>>, FALSE)
    <2>1. Shown' = Shown
      BY <1>2, ShownIsSeen
    <2> QED BY <1>2, <2>1 DEF Result
  <1>3. CASE Fires /\ delivered' = Append(delivered, Pending) /\ r = Handle(Pending)
    <2> DEFINE ev == Pending
    <2> HIDE DEF ev
    <2>0. ev \in Evs /\ ev.data = data
      BY <1>1 DEF ev
    <2>1. r = ForwardOpenAI(ev)
      BY <1>3 DEF Handle, ev
    <2>2. Shown' = IF IsShown(ev) THEN Append(Shown, ev) ELSE Shown
      <3>1. delivered' = Append(delivered, ev)
        BY <1>3 DEF ev
      <3> QED BY <1>1, <2>0, <3>1, ShownNext
    <2>3. \/ r.chunks = <<>> /\ ~IsShown(ev)
          \/ /\ IsShown(ev)
             /\ \E t \in {"raw", "done"} : r.chunks = <<Raw(t, ev.data)>> /\ (t = "done" => IsDone(ev))
      BY <1>1, <2>0, <2>1, OpenAIEffect
    <2>4. CASE ~IsShown(ev)
      BY <2>2, <2>3, <2>4
    <2>5. CASE IsShown(ev)
      <3>1. PICK t \in {"raw", "done"} : r.chunks = <<Raw(t, ev.data)>> /\ (t = "done" => IsDone(ev))
        BY <2>3, <2>5
      <3>2. t \in Types /\ data \in Seq(Txt)
        BY DEF Types, RInv, ReaderTypes
      <3> DEFINE c == Raw(t, data)
      <3>3. c \in Chunks /\ c.data = data /\ c.type = t
        BY <3>2, RawType
      <3>4. data \in Datas
        BY <1>3, <1>1 DEF Fires, IsEvent, Datas
      <3>5. r.chunks = <<c>>
        BY <2>0, <3>1
      <3> HIDE DEF c
      <3>6. c \in Carriers
        BY <3>3, <3>4 DEF Carriers
      <3>7. Shown' = Append(Shown, Pending)
        BY <2>2, <2>5 DEF ev
      <3>8. c.type = "done" => IsDone(Pending)
        BY <3>1, <3>3 DEF ev
      <3> QED BY <1>1, <3>3, <3>5, <3>6, <3>7, <3>8 DEF ShowsPending
    <2> QED BY <2>4, <2>5
  <1> QED BY <1>2, <1>3 DEF Handed

\* What is written of at most one chunk: all of it, or nothing, and then the
\* stream failed or the chunk was a [DONE].
LEMMA OpenAIWrites ==
  ASSUME RelayOK, kind = "openai", NEW r, Answers(r), Single(r)
  PROVE  \/ out' = out \o r.chunks
         \/ out' = out /\ (why' = "write" \/ Lost(r))
  <1> DEFINE cs == r.chunks
  <1>1. UsageChunk = <<>> /\ DoneChunk = <<>>
    BY DEF UsageChunk, DoneChunk
  <1>2. out \in Seq(Chunks)
    BY DEF RelayOK
  <1>3. cs \in Seq(Chunks) /\ Len(cs) \in {0, 1}
    <2>1. CASE cs = <<>>
      BY <2>1
    <2>2. CASE \E c \in Chunks : cs = <<c>>
      BY <2>2, Singleton
    <2> QED BY <2>1, <2>2 DEF Single
  <1>4. \/ out' = out \o cs
        \/ out' = out /\ Lost(r)
        \/ why' = "write" /\ \E n \in 0..Len(cs \o <<>>) : out' = out \o SubSeq(cs \o <<>>, 1, n)
        \/ out' = out \o (cs \o <<>>)
        \/ out' = (out \o (cs \o <<>>)) \o <<>>
    BY <1>1 DEF Answers, Single
  <1> HIDE DEF cs
  <1>5. cs \o <<>> = cs /\ out \o <<>> = out
    BY <1>2, <1>3, ConcatEmptySeq
  <1>6. CASE why' = "write" /\ \E n \in 0..Len(cs \o <<>>) : out' = out \o SubSeq(cs \o <<>>, 1, n)
    <2>1. PICK n \in 0..Len(cs) : out' = out \o SubSeq(cs, 1, n)
      BY <1>5, <1>6
    <2>2. n = 0 \/ n = Len(cs)
      <3> DEFINE m == Len(cs)
      <3>1. m \in {0, 1} /\ n \in 0..m
        BY <1>3
      <3> HIDE DEF m
      <3>2. n = 0 \/ n = m
        BY <3>1
      <3> QED BY <3>2 DEF m
    <2>3. CASE n = 0
      <3>1. SubSeq(cs, 1, n) = <<>>
        BY <1>3, <2>3
      <3> QED BY <1>5, <1>6, <2>1, <3>1
    <2>4. CASE n = Len(cs)
      <3>1. SubSeq(cs, 1, n) = cs
        BY <1>3, <2>4, FirstElements
      <3> QED BY <2>1, <3>1 DEF cs
    <2> QED BY <2>2, <2>3, <2>4
  <1>7. CASE out' = out \o cs \/ out' = out \o (cs \o <<>>)
    BY <1>5, <1>7 DEF cs
  <1>8. CASE out' = (out \o (cs \o <<>>)) \o <<>>
    <2>1. out \o cs \in Seq(Chunks)
      BY <1>2, <1>3, ConcatElements
    <2>2. (out \o cs) \o <<>> = out \o cs
      BY <2>1, ConcatEmptySeq
    <2> QED BY <1>5, <1>8, <2>2 DEF cs
  <1>9. CASE out' = out /\ Lost(r)
    BY <1>9
  <1> QED BY <1>4, <1>6, <1>7, <1>8, <1>9

\* While no write failed the stream, only [DONE]s are missing.
LEMMA SentAny ==
  ASSUME NEW o, NEW s, NEW x, NEW y, SentOK(o, s, y), y # "write"
  PROVE  SentOK(o, s, x)
  BY DEF SentOK, Kept

\* One event more, whose chunk is written or not.
LEMMA SentGrows ==
  ASSUME NEW o, NEW s \in Seq(Evs), NEW c \in Carriers, NEW ev \in Evs,
         c.data = ev.data, NEW x, NEW y, SentOK(o, s, y), y # "write"
  PROVE  /\ SentOK(Append(o, c), Append(s, ev), x)
         /\ x = "write" \/ IsDone(ev) => SentOK(o, Append(s, ev), x)
  <1> DEFINE n == Len(s)
             e == Append(s, ev)
  <1>1. o \in Seq(Carriers)
    BY DEF SentOK
  <1>2. PICK kept \in SUBSET (1..n) : DataOf(o) = DataOf(Picked(s, kept)) /\ Kept(s, kept, y)
    BY DEF SentOK
  <1>3. n \in Nat /\ Len(e) = n + 1 /\ e[n + 1] = ev /\ \A i \in 1..n : e[i] = s[i]
    OBVIOUS
  <1>4. \A k \in (1..n) \ kept : IsDone(s[k])
    BY <1>2 DEF Kept
  <1> DEFINE p == Picked(s, kept)
             more == kept \cup {n + 1}
  <1>5. p \in Seq(Evs)
    BY PickedSeq
  <1>6. n + 1 \notin kept /\ n + 1 \in more /\ (\A i \in 1..n : i \in kept <=> i \in more)
        /\ kept \in SUBSET (1..(n + 1)) /\ more \in SUBSET (1..(n + 1))
    <2> HIDE DEF n
    <2> QED BY <1>3
  <1>7. Picked(e, more) = Append(p, ev)
    <2> HIDE DEF more
    <2>1. \A i \in 1..Len(s) : i \in kept <=> i \in more
      BY <1>6
    <2>2. Picked(e, more) = IF Len(s) + 1 \in more THEN Append(p, ev) ELSE p
      BY <2>1, PickedNext
    <2> QED BY <1>6, <2>2
  <1>8. Picked(e, kept) = p
    <2>1. \A i \in 1..Len(s) : i \in kept <=> i \in kept
      OBVIOUS
    <2>2. Picked(e, kept) = IF Len(s) + 1 \in kept THEN Append(p, ev) ELSE p
      BY <2>1, PickedNext
    <2> QED BY <1>6, <2>2
  <1> HIDE DEF p, more, e, n
  <1>9. Append(o, c) \in Seq(Carriers) /\ DataOf(Append(o, c)) = Append(DataOf(o), c.data)
    BY <1>1, SentNext
  <1>10. DataOf(Append(p, ev)) = Append(DataOf(p), ev.data)
    BY <1>5, DataOfNext
  <1>11. SentOK(Append(o, c), e, x)
    <2>1. DataOf(Append(o, c)) = DataOf(Picked(e, more))
      BY <1>2, <1>7, <1>9, <1>10 DEF p
    <2>2. \A k \in (1..Len(e)) \ more : IsDone(e[k])
      <3> TAKE k \in (1..Len(e)) \ more
      <3>1. k \in 1..n /\ k \notin kept
        BY <1>3, <1>6 DEF more
      <3> QED BY <1>3, <1>4, <3>1
    <2>3. Kept(e, more, x)
      BY <2>2 DEF Kept
    <2> QED BY <1>3, <1>6, <1>9, <2>1, <2>3 DEF SentOK
  <1>12. ASSUME x = "write" \/ IsDone(ev) PROVE SentOK(o, e, x)
    <2>1. DataOf(o) = DataOf(Picked(e, kept))
      BY <1>2, <1>8 DEF p
    <2>2. \A k \in (1..Len(e)) \ kept : IsDone(e[k]) \/ (x = "write" /\ k = Len(e))
      <3> TAKE k \in (1..Len(e)) \ kept
      <3>1. k \in 1..n \/ k = n + 1
        BY <1>3
      <3>2. CASE k \in 1..n
        BY <1>3, <1>4, <3>2
      <3>3. CASE k = n + 1
        <4>1. e[k] = ev /\ k = Len(e)
          BY <1>3, <3>3
        <4> QED BY <1>12, <4>1
      <3> QED BY <3>1, <3>2, <3>3
    <2>3. Kept(e, kept, x)
      BY <2>2 DEF Kept
    <2> QED BY <1>1, <1>3, <1>6, <2>1, <2>3 DEF SentOK
  <1> QED BY <1>11, <1>12 DEF e

\* A chunk after the others.
LEMMA OneMore ==
  ASSUME NEW o \in Seq(Carriers), NEW c \in Carriers
  PROVE  o \o <<c>> = Append(o, c)
  OBVIOUS

\* A stream that answers an event stays in line with the events.
LEMMA SentAnswers ==
  ASSUME RInv, RelayOK, data \in Seq(Clean), kind = "openai", SentOK(out, Shown, why), why # "write",
         NEW r, Answers(r), asked' = asked
  PROVE  SentOK(out', Shown', why')
  <1>1. Handed(r) /\ Shown \in Seq(Evs) /\ out \in Seq(Carriers)
    BY ShownType DEF Answers, SentOK, RInv, ReaderTypes
  <1>2. Single(r)
    BY <1>1, SingleChunk
  <1>3. out' = out \o r.chunks \/ (out' = out /\ (why' = "write" \/ Lost(r)))
    BY <1>2, OpenAIWrites
  <1>4. CASE r.chunks = <<>> /\ Shown' = Shown
    <2>1. out \o <<>> = out
      BY <1>1, ConcatEmptySeq
    <2>2. out' = out
      BY <1>3, <1>4, <2>1
    <2>3. SentOK(out, Shown, why')
      BY SentAny
    <2> QED BY <1>4, <2>2, <2>3
  <1>5. CASE ShowsPending(r)
    <2>1. PICK c \in Carriers : r.chunks = <<c>> /\ c.data = data /\ (c.type = "done" => IsDone(Pending))
      BY <1>5 DEF ShowsPending
    <2> DEFINE ev == Pending
               x == why'
               s == Shown
               o == out
               y == why
    <2>2. ev \in Evs /\ c.data = ev.data /\ Shown' = Append(s, ev)
      BY <1>5, <2>1 DEF ShowsPending
    <2>3. s \in Seq(Evs) /\ SentOK(o, s, y) /\ y # "write"
      BY <1>1
    <2>4. Lost(r) => IsDone(ev)
      <3>1. \A d : r.chunks = <<d>> => d = c
        BY <2>1
      <3> QED BY <2>1, <3>1 DEF Lost
    <2>5. out' = Append(o, c) \/ (out' = o /\ (x = "write" \/ IsDone(ev)))
      <3>1. out \o <<c>> = Append(out, c)
        BY <1>1, OneMore
      <3> QED BY <1>3, <2>1, <2>4, <3>1
    <2> HIDE DEF ev, x, s, o, y
    <2>6. SentOK(Append(o, c), Append(s, ev), x) /\ (x = "write" \/ IsDone(ev) => SentOK(o, Append(s, ev), x))
      BY <2>2, <2>3, SentGrows
    <2> QED BY <2>2, <2>5, <2>6 DEF x
  <1> QED BY <1>1, <1>4, <1>5, OpenAIHanded

\* Every step keeps the chunks in line with the events.
LEMMA SentInvNext ==
  ASSUME RInv, RelayOK, SentInv, [Next]_vars
  PROVE  SentInv'
  <1>1. UNCHANGED <<wire, kind, asked>> /\ (Silent \/ \E r : Answers(r))
    BY RelayStep
  <1>2. data' \in Seq(Clean)
    BY DataCleanNext DEF SentInv
  <1>3. status' = "open" => why' # "write"
    BY <1>1 DEF SentInv, Silent, Answers
  <1>4. ASSUME kind = "openai" PROVE SentOK(out', Shown', why')
    <2>1. SentOK(out, Shown, why) /\ data \in Seq(Clean) /\ (status = "open" => why # "write")
      BY <1>4 DEF SentInv
    <2>2. CASE Silent
      <3>1. out' = out /\ Shown' = Shown /\ (why' = why \/ status = "open")
        BY <1>1, <2>2, ShownIsSeen DEF Silent
      <3> DEFINE x == why'
      <3>2. x = why \/ why # "write"
        BY <2>1, <3>1
      <3> HIDE DEF x
      <3>3. SentOK(out, Shown, x)
        BY <2>1, <3>2, SentAny
      <3> QED BY <3>1, <3>3 DEF x
    <2>3. ASSUME NEW r, Answers(r) PROVE SentOK(out', Shown', why')
      <3>1. status = "open"
        BY <2>3 DEF Answers
      <3> QED BY <1>1, <1>4, <2>1, <2>3, <3>1, SentAnswers
    <2> QED BY <1>1, <2>2, <2>3
  <1> QED BY <1>1, <1>2, <1>3, <1>4, Zenon DEF SentInv, SentOK, Kept, DataOf, Picked, InOrder, IsDone, Decodes, Decoded

\* The stream starts with nothing written and nothing to see.
LEMMA SentInvInit ==
  ASSUME Init
  PROVE  SentInv
  <1>1. data = <<>> /\ out = <<>> /\ delivered = <<>> /\ why = "none"
    BY DEF Init
  <1>2. data \in Seq(Clean) /\ out \in Seq(Carriers)
    BY <1>1
  <1>3. Shown = <<>>
    <2> DEFINE S == {k \in 1..Len(delivered) : IsShown(delivered[k])}
    <2>1. Shown = Picked(<<>>, S)
      BY <1>1 DEF Shown
    <2> HIDE DEF S
    <2> QED BY <2>1, PickedEmpty
  <1>4. Picked(<<>>, {}) = <<>> /\ Len(<<>>) = 0 /\ {} \in SUBSET (1..Len(<<>>))
    BY PickedEmpty
  <1>5. Kept(<<>>, {}, why)
    BY <1>4 DEF Kept
  <1>6. SentOK(<<>>, <<>>, why)
    BY <1>1, <1>2, <1>4, <1>5 DEF SentOK
  <1> QED BY <1>1, <1>2, <1>3, <1>6 DEF SentInv

\* What the client reads is what was sent.
LEMMA SentIsRead ==
  ASSUME RInv, SentInv
  PROVE  ClientReadsSame
  <1> SUFFICES ASSUME kind = "openai" PROVE ClientReadsSame
    BY DEF ClientReadsSame
  <1>1. SentOK(out, Shown, why)
    BY DEF SentInv
  <1> DEFINE n == Len(out)
             D == DataOf(out)
             R == Events(Bytes)
  <1>2. n \in Nat /\ (\A i \in 1..n : out[i] \in Carriers) /\ \A y \in Carriers : y.data \in Datas
    BY <1>1 DEF SentOK, Carriers
  <1>3. D \in Seq(Datas) /\ Len(D) = n /\ \A i \in 1..n : D[i] = out[i].data
    <2>1. D = [k \in 1..n |-> out[k].data]
      BY DEF DataOf
    <2> HIDE DEF D, n
    <2> QED BY <1>2, <2>1
  <1>4. Bytes = Answer(D)
    <2>1. [k \in 1..Len(D) |-> Written(D[k])] = [k \in 1..Len(out) |-> Written(out[k].data)]
      <3> HIDE DEF D
      <3> QED BY <1>3
    <2> QED BY <2>1 DEF Bytes, Answer
  <1> HIDE DEF D
  <1>5. DataOf(R) = D
    BY <1>3, <1>4, AnswerRead
  <1>6. PICK kept \in SUBSET (1..Len(Shown)) : D = DataOf(Picked(Shown, kept)) /\ Kept(Shown, kept, why)
    BY <1>1 DEF SentOK, D
  <1> QED BY <1>5, <1>6 DEF ClientReadsSame, Kept

\* A client of an OpenAI-type upstream reads the data the upstream sent, event
\* by event and line by line, but for the event whose write failed the stream and
\* for [DONE]s: writing the data and reading them again changes nothing
\* (sse.go:273-359).
THEOREM ClientsReadTheSame == Spec => []ClientReadsSame
  <1>1. Init => RInv /\ RelayOK /\ SentInv
    BY RInvInit, RelayOKInit, SentInvInit
  <1>2. (RInv /\ RelayOK /\ SentInv) /\ [Next]_vars => (RInv /\ RelayOK /\ SentInv)'
    BY RInvNext, RelayOKNext, SentInvNext
  <1>3. (RInv /\ RelayOK /\ SentInv) => ClientReadsSame
    BY SentIsRead
  <1> QED BY <1>1, <1>2, <1>3, PTL DEF Spec

-----------------------------------------------------------------------------
(* The body that the stream is read from: proofs about Watchdog, for every *)
(* timeout and any number of chunks and of expiries.                       *)

-----------------------------------------------------------------------------
(* The inductive invariant of the watchdog.                                *)

\* The expiries whose goroutine has ended.
Expired == {i \in 1..MaxFires : fires[i] = "over"}

\* onTimeout is called at most once per goroutine.
RecordedOnce == recorded <= Cardinality(Expired)

\* Who canceled the context, while it can still matter to a Read: the watchdog,
\* which has said so before it did, or the client.
CancelExplained ==
    /\ timedOut => \E i \in 1..MaxFires : fires[i] \in {"cancel", "record", "over"}
    /\ \A i \in 1..MaxFires : fires[i] \in {"cancel", "record"} => timedOut
    /\ canceled => timedOut \/ gone \/ pc = "closed"

\* What Read is about to return, and has returned, has a reason.
ResultExplained ==
    /\ pc = "reset" => got \in {"data", "empty"}
    /\ pc \in {"finish", "stop"} => got = "eof"
    /\ pc = "fail" /\ got = "canceled" => timedOut \/ gone
    /\ answer = "canceled" => gone
    /\ answer = "timeout" => timedOut

\* The timer has been running for no longer than the silence, but for a Read
\* that has its bytes and has not re-armed it.
TimerFollowsSilence ==
    timer # Off /\ ~(pc = "reset" /\ got = "data") => timer + silence >= Timeout

\* A closed body has no timer, and its context is canceled.
ClosedIsReleased == pc = "closed" => timer = Off /\ canceled

WatchInv ==
    /\ WatchTypeOK /\ RecordedOnce
    /\ CancelExplained /\ ResultExplained
    /\ TimerFollowsSilence /\ ClosedIsReleased

-----------------------------------------------------------------------------
(* The invariant holds in every reachable state.                           *)

\* Sets of expiries are finite, so that they can be counted.
LEMMA ExpiriesFinite ==
  ASSUME NEW S \in SUBSET (1..MaxFires)
  PROVE  IsFiniteSet(S) /\ Cardinality(S) \in 0..MaxFires
  <1>1. IsFiniteSet(1..MaxFires) /\ Cardinality(1..MaxFires) = MaxFires
    BY FS_Interval, WatchdogAssumption
  <1>2. IsFiniteSet(S) /\ Cardinality(S) <= MaxFires
    BY <1>1, FS_Subset
  <1>3. Cardinality(S) \in Nat
    BY <1>2, FS_CardinalityType
  <1> QED BY <1>2, <1>3, WatchdogAssumption

\* A step that takes no goroutine out of the ended ones and calls no callback
\* keeps RecordedOnce.
LEMMA KeepsRecordedOnce ==
  ASSUME WatchInv, UNCHANGED recorded, Expired \subseteq Expired'
  PROVE  RecordedOnce'
  <1>1. Expired' \in SUBSET (1..MaxFires)
    BY DEF Expired
  <1>2. IsFiniteSet(Expired') /\ Cardinality(Expired') \in Nat
    BY <1>1, ExpiriesFinite DEF WatchInv
  <1>3. Cardinality(Expired) <= Cardinality(Expired')
    BY <1>2, FS_Subset
  <1>4. Cardinality(Expired) \in Nat /\ recorded \in Nat
    BY ExpiriesFinite DEF Expired, WatchInv, WatchTypeOK
  <1> QED BY <1>2, <1>3, <1>4 DEF WatchInv, RecordedOnce

\* The initial state satisfies the invariant.
LEMMA WatchInvInit == WatchInit => WatchInv
  <1> SUFFICES ASSUME WatchInit PROVE WatchInv
    OBVIOUS
  <1>1. Cardinality(Expired) \in Nat
    BY ExpiriesFinite DEF Expired
  <1>2. RecordedOnce
    BY <1>1 DEF WatchInit, RecordedOnce
  <1>3. WatchTypeOK
    <2>1. timer \in Off..Timeout /\ silence \in 0..Timeout /\ chunks \in 0..MaxChunks
      BY WatchdogAssumption DEF WatchInit, Off
    <2>2. recorded \in 0..MaxFires
      BY WatchdogAssumption DEF WatchInit
    <2>3. {done, timedOut, canceled, gone} \subseteq BOOLEAN
      BY Zenon DEF WatchInit
    <2> QED BY <2>1, <2>2, <2>3 DEF WatchInit, WatchTypeOK, Results
  <1>4. CancelExplained /\ ResultExplained /\ TimerFollowsSilence /\ ClosedIsReleased
    BY WatchdogAssumption DEF WatchInit, CancelExplained, ResultExplained, TimerFollowsSilence, ClosedIsReleased
  <1> QED BY <1>2, <1>3, <1>4 DEF WatchInv

\* Every step keeps the invariant.
LEMMA WatchInvNext == WatchInv /\ [WatchNext]_watchVars => WatchInv'
  <1> SUFFICES ASSUME WatchInv, [WatchNext]_watchVars PROVE WatchInv'
    OBVIOUS
  <1>c. Timeout \in Nat \ {0} /\ MaxChunks \in Nat /\ MaxFires \in Nat \ {0}
    BY WatchdogAssumption
  <1> USE <1>c
  <1> DEFINE Rest == WatchTypeOK /\ CancelExplained /\ ResultExplained
                     /\ TimerFollowsSilence /\ ClosedIsReleased
  <1>0. ASSUME Rest', RecordedOnce' PROVE WatchInv'
    BY <1>0, WatchdogAssumption DEF WatchInv
  <1> USE DEF readVars, Off, Results
  <1>1. CASE Tick
    <2>1. Rest'
      BY <1>1
      DEF Tick, WatchInv, WatchTypeOK, CancelExplained, ResultExplained, TimerFollowsSilence,
          ClosedIsReleased
    <2>2. RecordedOnce'
      BY <1>1, KeepsRecordedOnce DEF Tick, Expired
    <2> QED BY <2>1, <2>2, <1>0
  <1>2. CASE ClientLeaves
    <2>1. Rest'
      BY <1>2
      DEF ClientLeaves, WatchInv, WatchTypeOK, CancelExplained, ResultExplained, TimerFollowsSilence,
          ClosedIsReleased
    <2>2. RecordedOnce'
      BY <1>2, KeepsRecordedOnce DEF ClientLeaves, Expired
    <2> QED BY <2>1, <2>2, <1>0
  <1>3. CASE BeginRead
    <2>1. Rest'
      BY <1>3
      DEF BeginRead, WatchInv, WatchTypeOK, CancelExplained, ResultExplained, TimerFollowsSilence,
          ClosedIsReleased
    <2>2. RecordedOnce'
      BY <1>3, KeepsRecordedOnce DEF BeginRead, Expired
    <2> QED BY <2>1, <2>2, <1>0
  <1>4. CASE Finish
    <2>1. Rest'
      BY <1>4
      DEF Finish, WatchInv, WatchTypeOK, CancelExplained, ResultExplained, TimerFollowsSilence,
          ClosedIsReleased
    <2>2. RecordedOnce'
      BY <1>4, KeepsRecordedOnce DEF Finish, Expired
    <2> QED BY <2>1, <2>2, <1>0
  <1>5. CASE StopTimer
    <2>1. Rest'
      BY <1>5
      DEF StopTimer, WatchInv, WatchTypeOK, CancelExplained, ResultExplained, TimerFollowsSilence,
          ClosedIsReleased
    <2>2. RecordedOnce'
      BY <1>5, KeepsRecordedOnce DEF StopTimer, Expired
    <2> QED BY <2>1, <2>2, <1>0
  <1>6. CASE Fail
    <2>1. Rest'
      BY <1>6
      DEF Fail, WatchInv, WatchTypeOK, CancelExplained, ResultExplained, TimerFollowsSilence,
          ClosedIsReleased
    <2>2. RecordedOnce'
      BY <1>6, KeepsRecordedOnce DEF Fail, Expired
    <2> QED BY <2>1, <2>2, <1>0
  <1>7. CASE Reset
    <2>1. Rest'
      BY <1>7
      DEF Reset, Rearms, WatchInv, WatchTypeOK, CancelExplained, ResultExplained, TimerFollowsSilence,
          ClosedIsReleased
    <2>2. RecordedOnce'
      BY <1>7, KeepsRecordedOnce DEF Reset, Expired
    <2> QED BY <2>1, <2>2, <1>0
  <1>8. CASE Close
    <2>1. Rest'
      BY <1>8
      DEF Close, WatchInv, WatchTypeOK, CancelExplained, ResultExplained, TimerFollowsSilence,
          ClosedIsReleased
    <2>2. RecordedOnce'
      BY <1>8, KeepsRecordedOnce DEF Close, Expired
    <2> QED BY <2>1, <2>2, <1>0
  <1>9. ASSUME NEW res \in Results, Return(res) PROVE WatchInv'
    <2>1. Rest'
      BY <1>9
      DEF Return, WatchInv, WatchTypeOK, CancelExplained, ResultExplained, TimerFollowsSilence,
          ClosedIsReleased
    <2>2. RecordedOnce'
      BY <1>9, KeepsRecordedOnce DEF Return, Expired
    <2> QED BY <2>1, <2>2, <1>0
  <1>10. ASSUME NEW i \in 1..MaxFires, Expire(i) PROVE WatchInv'
    <2>1. Rest'
      BY <1>10
      DEF Expire, WatchInv, WatchTypeOK, CancelExplained, ResultExplained, TimerFollowsSilence,
          ClosedIsReleased
    <2>2. RecordedOnce'
      BY <1>10, KeepsRecordedOnce DEF Expire, Expired, WatchInv, WatchTypeOK
    <2> QED BY <2>1, <2>2, <1>0
  <1>11. ASSUME NEW i \in 1..MaxFires, Check(i) PROVE WatchInv'
    <2>1. Rest'
      BY <1>11
      DEF Check, WatchInv, WatchTypeOK, CancelExplained, ResultExplained, TimerFollowsSilence,
          ClosedIsReleased
    <2>2. RecordedOnce'
      BY <1>11, KeepsRecordedOnce DEF Check, Expired, WatchInv, WatchTypeOK
    <2> QED BY <2>1, <2>2, <1>0
  <1>12. ASSUME NEW i \in 1..MaxFires, Mark(i) PROVE WatchInv'
    <2>1. Rest'
      BY <1>12
      DEF Mark, WatchInv, WatchTypeOK, CancelExplained, ResultExplained, TimerFollowsSilence,
          ClosedIsReleased
    <2>2. RecordedOnce'
      BY <1>12, KeepsRecordedOnce DEF Mark, Expired, WatchInv, WatchTypeOK
    <2> QED BY <2>1, <2>2, <1>0
  <1>13. ASSUME NEW i \in 1..MaxFires, Cancel(i) PROVE WatchInv'
    <2>1. Rest'
      BY <1>13
      DEF Cancel, WatchInv, WatchTypeOK, CancelExplained, ResultExplained, TimerFollowsSilence,
          ClosedIsReleased
    <2>2. RecordedOnce'
      BY <1>13, KeepsRecordedOnce DEF Cancel, Expired, WatchInv, WatchTypeOK
    <2> QED BY <2>1, <2>2, <1>0
  <1>14. ASSUME NEW i \in 1..MaxFires, Record(i) PROVE WatchInv'
    <2>1. Expired' = Expired \cup {i} /\ i \notin Expired
      BY <1>14 DEF Record, Expired, WatchInv, WatchTypeOK
    <2>2. IsFiniteSet(Expired) /\ Cardinality(Expired) \in Nat
      BY ExpiriesFinite DEF Expired
    <2>3. Cardinality(Expired') = Cardinality(Expired) + 1
      BY <2>1, <2>2, FS_AddElement
    <2>4. Cardinality(Expired') \in 0..MaxFires
      BY ExpiriesFinite DEF Expired
    <2>5. RecordedOnce' /\ recorded' \in 0..MaxFires
      BY <1>14, <2>2, <2>3, <2>4 DEF Record, WatchInv, WatchTypeOK, RecordedOnce
    <2>6. Rest'
      BY <1>14, <2>5
      DEF Record, WatchInv, WatchTypeOK, CancelExplained, ResultExplained, TimerFollowsSilence,
          ClosedIsReleased
    <2> QED BY <2>5, <2>6, <1>0
  <1>15. CASE UNCHANGED watchVars
    <2>1. Rest'
      BY <1>15
      DEF watchVars, WatchInv, WatchTypeOK, CancelExplained, ResultExplained, TimerFollowsSilence,
          ClosedIsReleased
    <2>2. RecordedOnce'
      BY <1>15, KeepsRecordedOnce DEF watchVars, Expired
    <2> QED BY <2>1, <2>2, <1>0
  <1> QED
    BY <1>1, <1>2, <1>3, <1>4, <1>5, <1>6, <1>7, <1>8, <1>9,
       <1>10, <1>11, <1>12, <1>13, <1>14, <1>15
    DEF WatchNext, Fire, Caller, watchVars

\* The invariant is an invariant: the base of the theorems below.
LEMMA WatchInvariance == WatchSpec => []WatchInv
  BY WatchInvInit, WatchInvNext, PTL DEF WatchSpec, watchVars

-----------------------------------------------------------------------------
(* What a caller of the watchdog relies on.                                *)

\* The types, and that onTimeout is called no more often than the timer expires.
THEOREM WatchTypeCorrect == WatchSpec => []WatchTypeOK
  <1>1. WatchInv => WatchTypeOK
    BY DEF WatchInv
  <1> QED BY <1>1, WatchInvariance, PTL

\* Read reports a cancellation as the client's only if the client left, and as a
\* timeout only if a fire goroutine got to its cancel, whatever the interleaving
\* of fire, Read and the client.
THEOREM BlameCorrect == WatchSpec => []BlameIsRight
  <1>1. WatchInv => BlameIsRight
    BY DEF WatchInv, CancelExplained, ResultExplained, BlameIsRight
  <1> QED BY <1>1, WatchInvariance, PTL

\* The timer expires only after a whole Timeout without a byte, outside the window
\* between a Read's bytes and its Reset.
THEOREM SilenceCorrect == WatchSpec => []OnlySilenceFires
  <1>1. WatchInv => OnlySilenceFires
    BY WatchdogAssumption DEF WatchInv, WatchTypeOK, TimerFollowsSilence, OnlySilenceFires, Off
  <1> QED BY <1>1, WatchInvariance, PTL

\* The safety half of AlwaysCloses: after Close nothing is left armed.
THEOREM CloseReleases == WatchSpec => []ClosedIsReleased
  <1>1. WatchInv => ClosedIsReleased
    BY DEF WatchInv
  <1> QED BY <1>1, WatchInvariance, PTL
=============================================================================
