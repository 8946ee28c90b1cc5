--------------------------- MODULE FailoverProofs ---------------------------
(***************************************************************************)
(* Proofs about Failover, for any number of requests and providers, any    *)
(* prices and limits.                                                      *)
(***************************************************************************)
EXTENDS Failover, SequenceTheorems, FiniteSetTheorems, WellFoundedInduction, TLAPS

-----------------------------------------------------------------------------
(* Induction.  The induction theorems of the library have an operator as a *)
(* parameter; that every set of numbers has a least element has not, and   *)
(* gives induction over a set of numbers.                                  *)

Less == {ss \in Nat \X Nat : ss[1] < ss[2]}

\* A set of numbers that is not empty has a least element.
LEMMA LeastElement ==
  ASSUME NEW T \in SUBSET Nat, T # {}
  PROVE  \E n \in T : \A m \in T : n <= m
  <1>1. OpToRel(<, Nat) = Less
    BY Zenon DEF OpToRel, Less
  <1>2. IsWellFoundedOn(Less, Nat)
    BY <1>1, NatLessThanWellFounded, Zenon
  <1>3. PICK n \in T : \A m \in T : ~(<<m, n>> \in Less)
    BY <1>2, WFMin
  <1>4. \A m \in T : n <= m
    <2> TAKE m \in T
    <2>1. ~(<<m, n>> \in Less) /\ m \in Nat /\ n \in Nat
      BY <1>3
    <2>2. <<m, n>>[1] = m /\ <<m, n>>[2] = n /\ <<m, n>> \in Nat \X Nat
      BY <2>1
    <2>3. ~(m < n)
      BY <2>1, <2>2 DEF Less
    <2> QED BY <2>1, <2>3
  <1> QED BY <1>4

\* Induction from 0.
LEMMA SetInduction ==
  ASSUME NEW T \in SUBSET Nat, 0 \in T, \A n \in T : n + 1 \in T
  PROVE  \A n \in Nat : n \in T
  <1> SUFFICES ASSUME Nat \ T # {} PROVE FALSE
    OBVIOUS
  <1>1. PICK n \in Nat \ T : \A m \in Nat \ T : n <= m
    BY LeastElement
  <1>2. n # 0 /\ n - 1 \in Nat /\ ~(n <= n - 1)
    BY <1>1
  <1>3. n - 1 \in T
    BY <1>1, <1>2
  <1>4. (n - 1) + 1 = n
    BY <1>2
  <1> QED BY <1>1, <1>3, <1>4

-----------------------------------------------------------------------------
(* Filter.                                                                 *)

Distinct(q) == \A i, j \in 1..Len(q) : q[i] = q[j] => i = j

\* What Filter's function has at i, from its value before i.
Prefix(s, keep, g, i) ==
    IF i = 0 THEN << >> ELSE IF s[i] \in keep THEN Append(g[i - 1], s[i]) ELSE g[i - 1]

\* The recursion defines a function.
LEMMA FilterFunction ==
  ASSUME NEW S, NEW s \in Seq(S), NEW keep
  PROVE  \E f : /\ f = [i \in 0..Len(s) |-> Prefix(s, keep, f, i)]
                /\ Filter(s, keep) = f[Len(s)]
  <1> DEFINE T == {m \in Nat : \E g : g = [i \in 0..m |-> Prefix(s, keep, g, i)]}
  <1>0. Len(s) \in Nat
    OBVIOUS
  <1>1. 0 \in T
    <2> DEFINE g == [i \in 0..0 |-> << >>]
    <2>1. g = [i \in 0..0 |-> Prefix(s, keep, g, i)]
      BY DEF Prefix
    <2> QED BY <2>1
  <1>2. ASSUME NEW m \in T PROVE m + 1 \in T
    <2>1. m \in Nat
      OBVIOUS
    <2>2. PICK g : g = [i \in 0..m |-> Prefix(s, keep, g, i)]
      OBVIOUS
    <2> DEFINE h == [i \in 0..(m + 1) |-> IF i = m + 1 THEN Prefix(s, keep, g, m + 1) ELSE g[i]]
    <2>3. \A i \in 0..(m + 1) : h[i] = Prefix(s, keep, h, i)
      <3> TAKE i \in 0..(m + 1)
      <3>1. CASE i = 0
        BY <2>1, <2>2, <3>1 DEF Prefix
      <3>2. CASE i \in 1..m
        <4>1. i \in 0..m /\ i - 1 \in 0..(m + 1) /\ i - 1 # m + 1 /\ i # m + 1 /\ i # 0
          BY <2>1, <3>2
        <4>2. h[i] = g[i] /\ h[i - 1] = g[i - 1]
          BY <4>1
        <4>3. g[i] = Prefix(s, keep, g, i)
          BY <2>2, <4>1
        <4> QED BY <4>1, <4>2, <4>3 DEF Prefix
      <3>3. CASE i = m + 1
        <4>1. i # 0 /\ i - 1 = m /\ m \in 0..(m + 1) /\ m # m + 1
          BY <2>1, <3>3
        <4>2. h[i] = Prefix(s, keep, g, m + 1) /\ h[m] = g[m]
          BY <3>3, <4>1
        <4> QED BY <3>3, <4>1, <4>2 DEF Prefix
      <3> QED BY <2>1, <3>1, <3>2, <3>3
    <2>4. h = [i \in 0..(m + 1) |-> Prefix(s, keep, h, i)]
      BY <2>3
    <2>5. m + 1 \in Nat
      BY <2>1
    <2> HIDE DEF h
    <2> QED BY <2>4, <2>5
  <1>3. Len(s) \in T
    <2> HIDE DEF T
    <2>1. T \in SUBSET Nat
      BY DEF T
    <2> QED BY <1>0, <1>1, <1>2, <2>1, SetInduction
  <1>4. \E g : g = [i \in 0..Len(s) |-> Prefix(s, keep, g, i)]
    BY <1>3
  <1> DEFINE f == CHOOSE g : g = [i \in 0..Len(s) |-> Prefix(s, keep, g, i)]
  <1>5. f = [i \in 0..Len(s) |-> Prefix(s, keep, f, i)]
    BY <1>4
  <1>6. Filter(s, keep) = f[Len(s)]
    BY DEF Filter, Prefix
  <1> HIDE DEF f
  <1> QED BY <1>5, <1>6

\* A sequence q that has of the first i elements of s those in keep.
Filtered(S, s, keep, i, q) ==
    /\ q \in Seq(S)
    /\ \A k \in 1..Len(q) : q[k] \in keep /\ \E j \in 1..i : q[k] = s[j]
    /\ \A j \in 1..i : s[j] \in keep => \E k \in 1..Len(q) : q[k] = s[j]
    /\ Distinct(s) => Distinct(q)

\* One more element.
LEMMA FilteredMore ==
  ASSUME NEW S, NEW s \in Seq(S), NEW keep, NEW m \in Nat, m + 1 \in 1..Len(s),
         NEW q, Filtered(S, s, keep, m, q)
  PROVE  Filtered(S, s, keep, m + 1, IF s[m + 1] \in keep THEN Append(q, s[m + 1]) ELSE q)
  <1> DEFINE x == s[m + 1]
             n == Len(q)
             a == Append(q, x)
  <1>0. x \in S /\ q \in Seq(S) /\ n \in Nat
    BY DEF Filtered
  <1>1. a \in Seq(S) /\ Len(a) = n + 1 /\ a[n + 1] = x /\ \A k \in 1..n : a[k] = q[k]
    BY <1>0
  <1>2. \A j \in 1..(m + 1) : j \in 1..m \/ j = m + 1
    OBVIOUS
  <1>3. 1..m \subseteq 1..(m + 1) /\ m + 1 \in 1..(m + 1) /\ m + 1 \notin 1..m
    OBVIOUS
  <1>4. \A k \in 1..(n + 1) : k \in 1..n \/ k = n + 1
    BY <1>0
  <1>5. 1..n \subseteq 1..(n + 1) /\ n + 1 \in 1..(n + 1)
    BY <1>0
  <1>6. /\ \A k \in 1..n : q[k] \in keep /\ \E j \in 1..m : q[k] = s[j]
        /\ \A j \in 1..m : s[j] \in keep => \E k \in 1..n : q[k] = s[j]
        /\ Distinct(s) => \A i, j \in 1..n : q[i] = q[j] => i = j
    BY DEF Filtered, Distinct
  <1>7. Distinct(s) => \A j \in 1..m : s[j] # x
    <2>1. \A j \in 1..m : j \in 1..Len(s) /\ j # m + 1
      BY <1>3
    <2> QED BY <2>1 DEF Distinct
  <1> HIDE DEF x, n, a
  <1>8. CASE x \in keep
    <2>1. \A k \in 1..(n + 1) : a[k] \in keep /\ \E j \in 1..(m + 1) : a[k] = s[j]
      <3>1. \A k \in 1..n : a[k] \in keep /\ \E j \in 1..(m + 1) : a[k] = s[j]
        BY <1>1, <1>3, <1>6
      <3>2. a[n + 1] \in keep /\ \E j \in 1..(m + 1) : a[n + 1] = s[j]
        BY <1>1, <1>3, <1>8 DEF x
      <3> QED BY <1>4, <3>1, <3>2
    <2>2. \A j \in 1..(m + 1) : s[j] \in keep => \E k \in 1..(n + 1) : a[k] = s[j]
      <3>1. \A j \in 1..m : s[j] \in keep => \E k \in 1..(n + 1) : a[k] = s[j]
        BY <1>1, <1>5, <1>6
      <3>2. \E k \in 1..(n + 1) : a[k] = s[m + 1]
        BY <1>1, <1>5 DEF x
      <3> QED BY <1>2, <3>1, <3>2
    <2>3. Distinct(s) => \A i, j \in 1..(n + 1) : a[i] = a[j] => i = j
      <3> SUFFICES ASSUME Distinct(s), NEW i \in 1..(n + 1), NEW j \in 1..(n + 1), a[i] = a[j]
                   PROVE  i = j
        OBVIOUS
      <3>1. \A k \in 1..n : a[k] # a[n + 1]
        BY <1>1, <1>6, <1>7
      <3> QED BY <1>1, <1>4, <1>6, <3>1
    <2>4. Filtered(S, s, keep, m + 1, a)
      BY <1>1, <2>1, <2>2, <2>3 DEF Filtered, Distinct
    <2> QED BY <1>8, <2>4 DEF x, a
  <1>9. CASE x \notin keep
    <2>1. \A k \in 1..n : q[k] \in keep /\ \E j \in 1..(m + 1) : q[k] = s[j]
      BY <1>3, <1>6
    <2>2. \A j \in 1..(m + 1) : s[j] \in keep => \E k \in 1..n : q[k] = s[j]
      BY <1>2, <1>6, <1>9 DEF x
    <2>3. Filtered(S, s, keep, m + 1, q)
      BY <1>0, <1>6, <2>1, <2>2 DEF Filtered, Distinct, n
    <2> QED BY <1>9, <2>3 DEF x
  <1> QED BY <1>8, <1>9

\* Filter keeps exactly the elements of s in keep, and no element twice that s
\* does not have twice.
LEMMA FilterFacts ==
  ASSUME NEW S, NEW s \in Seq(S), NEW keep
  PROVE  Filtered(S, s, keep, Len(s), Filter(s, keep))
  <1>1. PICK f : f = [i \in 0..Len(s) |-> Prefix(s, keep, f, i)] /\ Filter(s, keep) = f[Len(s)]
    BY FilterFunction
  <1> DEFINE T == {m \in Nat : m <= Len(s) => Filtered(S, s, keep, m, f[m])}
  <1>0. Len(s) \in Nat /\ Len(s) <= Len(s)
    OBVIOUS
  <1>2. 0 \in T
    <2>1. f[0] = << >> /\ Len(<< >>) = 0 /\ << >> \in Seq(S)
      BY <1>0, <1>1 DEF Prefix
    <2>2. Filtered(S, s, keep, 0, f[0])
      BY <2>1 DEF Filtered, Distinct
    <2> QED BY <2>2
  <1>3. ASSUME NEW m \in T PROVE m + 1 \in T
    <2>1. m \in Nat /\ m + 1 \in Nat
      OBVIOUS
    <2>2. CASE m + 1 <= Len(s)
      <3>1. m <= Len(s) /\ m + 1 \in 1..Len(s) /\ m + 1 \in 0..Len(s) /\ m + 1 # 0 /\ (m + 1) - 1 = m
        BY <1>0, <2>1, <2>2
      <3>2. Filtered(S, s, keep, m, f[m])
        BY <3>1
      <3>3. f[m + 1] = IF s[m + 1] \in keep THEN Append(f[m], s[m + 1]) ELSE f[m]
        BY <1>1, <3>1 DEF Prefix
      <3>4. Filtered(S, s, keep, m + 1, f[m + 1])
        BY <2>1, <3>1, <3>2, <3>3, FilteredMore
      <3> QED BY <2>1, <3>4
    <2> QED BY <2>1, <2>2
  <1>4. Len(s) \in T
    <2> HIDE DEF T
    <2>1. T \in SUBSET Nat
      BY DEF T
    <2> QED BY <1>0, <1>2, <1>3, <2>1, SetInduction
  <1> QED BY <1>0, <1>1, <1>4

-----------------------------------------------------------------------------
(* The candidates of a request.                                            *)

\* Two sequences that have nothing in common, one after the other.
LEMMA ConcatDistinct ==
  ASSUME NEW S, NEW a \in Seq(S), NEW b \in Seq(S), Distinct(a), Distinct(b),
         \A i \in 1..Len(a), j \in 1..Len(b) : a[i] # b[j]
  PROVE  Distinct(a \o b)
  <1> DEFINE m == Len(a)
             n == Len(b)
             c == a \o b
  <1>1. m \in Nat /\ n \in Nat /\ Len(c) = m + n
    OBVIOUS
  <1>2. \A i \in 1..(m + n) : c[i] = IF i <= m THEN a[i] ELSE b[i - m]
    BY ConcatProperties
  <1> SUFFICES ASSUME NEW i \in 1..(m + n), NEW j \in 1..(m + n), c[i] = c[j] PROVE i = j
    BY <1>1 DEF Distinct
  <1> HIDE DEF m, n, c
  <1>3. /\ i \in Int /\ j \in Int /\ (i <= m => i \in 1..m) /\ (j <= m => j \in 1..m)
        /\ (~(i <= m) => i - m \in 1..n) /\ (~(j <= m) => j - m \in 1..n)
    BY <1>1
  <1>4. CASE i <= m /\ j <= m
    BY <1>2, <1>3, <1>4 DEF Distinct, m
  <1>5. CASE i <= m /\ ~(j <= m)
    BY <1>2, <1>3, <1>5 DEF m, n
  <1>6. CASE ~(i <= m) /\ j <= m
    BY <1>2, <1>3, <1>6 DEF m, n
  <1>7. CASE ~(i <= m) /\ ~(j <= m)
    <2>1. i - m = j - m
      BY <1>2, <1>3, <1>7 DEF Distinct, n
    <2> QED BY <1>1, <1>3, <2>1
  <1> QED BY <1>4, <1>5, <1>6, <1>7

\* A list of candidates: at least one, and none twice.
IsList(l) == l \in Seq(Providers) /\ Len(l) > 0 /\ Distinct(l)

\* orderedFailoverCandidates never returns an empty list, nor a provider twice.
LEMMA OrderedFacts ==
  ASSUME NEW pool, IsList(pool), shunned \subseteq Providers
  PROVE  IsList(Ordered(pool))
  <1>0. pool \in Seq(Providers) /\ Len(pool) \in Nat /\ Len(pool) > 0 /\ Distinct(pool) /\ Len(<< >>) = 0
    BY DEF IsList
  <1>1. CASE ~Enabled \/ Len(pool) = 1
    <2>1. Head(pool) \in Providers
      BY <1>0
    <2>2. <<Head(pool)>> \in Seq(Providers) /\ Len(<<Head(pool)>>) = 1
      BY <2>1
    <2> HIDE DEF IsList
    <2>3. IsList(<<Head(pool)>>)
      BY <2>2 DEF IsList, Distinct
    <2> QED BY <1>1, <2>3 DEF Ordered
  <1>2. CASE ~(~Enabled \/ Len(pool) = 1)
    <2> DEFINE sound == Filter(pool, {p \in Providers : Healthy(p)})
               healthy == IF sound = << >> THEN pool ELSE sound
               a == Filter(healthy, Providers \ shunned)
               b == Filter(healthy, shunned)
    <2>1. Ordered(pool) = a \o b
      BY <1>2 DEF Ordered
    <2>2. sound \in Seq(Providers) /\ Distinct(sound)
      BY <1>0, FilterFacts DEF Filtered
    <2> HIDE DEF sound
    <2>3. healthy \in Seq(Providers) /\ Distinct(healthy) /\ Len(healthy) \in Nat /\ Len(healthy) > 0
      BY <1>0, <2>2, EmptySeq
    <2> HIDE DEF healthy
    <2>4. /\ Filtered(Providers, healthy, Providers \ shunned, Len(healthy), a)
          /\ Filtered(Providers, healthy, shunned, Len(healthy), b)
      BY <2>3, FilterFacts
    <2> HIDE DEF a, b
    <2>5. /\ a \in Seq(Providers) /\ b \in Seq(Providers) /\ Distinct(a) /\ Distinct(b)
          /\ \A i \in 1..Len(a), j \in 1..Len(b) : a[i] # b[j]
      BY <2>3, <2>4 DEF Filtered
    <2>6. a \o b \in Seq(Providers) /\ Distinct(a \o b) /\ Len(a \o b) = Len(a) + Len(b)
      BY <2>5, ConcatDistinct
    <2>7. Len(a) > 0 \/ Len(b) > 0
      <3>1. 1 \in 1..Len(healthy) /\ healthy[1] \in Providers
        BY <2>3
      <3>2. CASE healthy[1] \in shunned
        <4>1. \E k \in 1..Len(b) : TRUE
          BY <2>4, <3>1, <3>2 DEF Filtered
        <4> QED BY <2>5, <4>1
      <3>3. CASE healthy[1] \notin shunned
        <4>1. \E k \in 1..Len(a) : TRUE
          BY <2>4, <3>1, <3>3 DEF Filtered
        <4> QED BY <2>5, <4>1
      <3> QED BY <3>2, <3>3
    <2>8. Len(a) \in Nat /\ Len(b) \in Nat
      BY <2>5
    <2>9. Len(a) + Len(b) > 0
      BY <2>7, <2>8
    <2> QED BY <2>1, <2>6, <2>9 DEF IsList
  <1> QED BY <1>1, <1>2

\* The cost guard, as filterCandidatesByCost leaves it.
Guarded(l) == \A j \in 2..Len(l) : CostAllowed(l[1], l[j])

\* filterCandidatesByCost.
LEMMA ByCostFacts ==
  ASSUME NEW cands, IsList(cands)
  PROVE  IsList(ByCost(cands)) /\ Guarded(ByCost(cands))
  <1>0. cands \in Seq(Providers) /\ Len(cands) \in Nat /\ Len(cands) > 0 /\ Distinct(cands)
    BY DEF IsList
  <1>1. CASE Len(cands) < 2
    <2>1. 2..Len(cands) = {}
      BY <1>0, <1>1
    <2> QED BY <1>1, <2>1 DEF ByCost, Guarded
  <1>2. CASE ~(Len(cands) < 2)
    <2> DEFINE h == Head(cands)
               t == Tail(cands)
               b == Filter(t, {q \in Providers : CostAllowed(h, q)})
    <2>1. ByCost(cands) = <<h>> \o b
      BY <1>2 DEF ByCost
    <2>2. cands # << >>
      BY <1>0
    <2>3. /\ h \in Providers /\ h = cands[1] /\ t \in Seq(Providers) /\ Len(t) = Len(cands) - 1
          /\ \A k \in 1..(Len(cands) - 1) : t[k] = cands[k + 1]
      BY <1>0, <2>2
    <2> HIDE DEF h, t
    <2>4. Distinct(t)
      <3> SUFFICES ASSUME NEW i \in 1..Len(t), NEW j \in 1..Len(t), t[i] = t[j] PROVE i = j
        BY DEF Distinct
      <3>1. i \in 1..(Len(cands) - 1) /\ j \in 1..(Len(cands) - 1)
        BY <2>3
      <3>2. i + 1 \in 1..Len(cands) /\ j + 1 \in 1..Len(cands)
        BY <1>0, <3>1
      <3>3. cands[i + 1] = cands[j + 1]
        BY <2>3, <3>1
      <3>4. i + 1 = j + 1
        BY <1>0, <3>2, <3>3 DEF Distinct
      <3> QED BY <3>1, <3>4
    <2>5. Filtered(Providers, t, {q \in Providers : CostAllowed(h, q)}, Len(t), b)
      BY <2>3, FilterFacts
    <2> HIDE DEF b
    <2>6. /\ b \in Seq(Providers) /\ Distinct(b) /\ Len(b) \in Nat
          /\ \A k \in 1..Len(b) : CostAllowed(h, b[k])
      BY <2>4, <2>5 DEF Filtered
    <2>7. \A k \in 1..Len(b) : b[k] # h
      <3> TAKE k \in 1..Len(b)
      <3>1. PICK j \in 1..Len(t) : b[k] = t[j]
        BY <2>5 DEF Filtered
      <3>2. j \in 1..(Len(cands) - 1) /\ j + 1 \in 1..Len(cands) /\ 1 \in 1..Len(cands) /\ j + 1 # 1
        BY <1>0, <2>3
      <3>3. cands[j + 1] # cands[1]
        BY <1>0, <3>2 DEF Distinct
      <3> QED BY <2>3, <3>1, <3>2, <3>3
    <2>8. <<h>> \in Seq(Providers) /\ Len(<<h>>) = 1 /\ <<h>>[1] = h
      BY <2>3
    <2>9. Distinct(<<h>>)
      BY <2>8 DEF Distinct
    <2> DEFINE g == <<h>>
               c == g \o b
    <2> HIDE DEF g
    <2>10. c \in Seq(Providers) /\ Len(c) = 1 + Len(b)
      BY <2>6, <2>8 DEF g
    <2>11. Distinct(c)
      <3>1. \A i \in 1..Len(g), j \in 1..Len(b) : g[i] # b[j]
        BY <2>7, <2>8 DEF g
      <3> QED BY <2>6, <2>8, <2>9, <3>1, ConcatDistinct DEF g
    <2>12. c[1] = h /\ \A j \in 2..(1 + Len(b)) : c[j] = b[j - 1]
      <3>1. \A i \in 1..(Len(g) + Len(b)) : c[i] = IF i <= Len(g) THEN g[i] ELSE b[i - Len(g)]
        BY <2>6, <2>8, ConcatProperties DEF g
      <3>2. Len(g) = 1 /\ g[1] = h
        BY <2>8 DEF g
      <3>3. 1 \in 1..(1 + Len(b)) /\ \A j \in 2..(1 + Len(b)) : j \in 1..(1 + Len(b)) /\ ~(j <= 1)
        BY <2>6
      <3> HIDE DEF c
      <3> QED BY <3>1, <3>2, <3>3
    <2> HIDE DEF c
    <2>13. Guarded(c)
      <3>1. \A j \in 2..(1 + Len(b)) : j - 1 \in 1..Len(b)
        BY <2>6
      <3>2. \A j \in 2..(1 + Len(b)) : CostAllowed(c[1], c[j])
        BY <2>6, <2>12, <3>1
      <3> QED BY <2>10, <3>2 DEF Guarded
    <2>14. 1 + Len(b) > 0
      BY <2>6
    <2> QED BY <2>1, <2>10, <2>11, <2>13, <2>14 DEF IsList, c, g
  <1> QED BY <1>1, <1>2

\* capFailoverCandidates.
LEMMA CapFacts ==
  ASSUME NEW cands, IsList(cands), Guarded(cands)
  PROVE  IsList(Cap(cands)) /\ Guarded(Cap(cands))
  <1> DEFINE n == IF Len(cands) > MaxAttempts THEN MaxAttempts ELSE Len(cands)
             c == SubSeq(cands, 1, n)
  <1>0. cands \in Seq(Providers) /\ Len(cands) \in Nat /\ Len(cands) > 0 /\ Distinct(cands)
    BY DEF IsList
  <1>1. n \in Nat /\ n > 0 /\ n <= Len(cands)
    BY <1>0, ConfigAssumption
  <1>2. Cap(cands) = c
    BY DEF Cap
  <1> HIDE DEF n
  <1>3. \A i \in 1..n : i \in 1..Len(cands) /\ cands[i] \in Providers
    BY <1>0, <1>1
  <1>4. /\ c \in Seq(Providers)
        /\ Len(c) = IF 1 <= n THEN n - 1 + 1 ELSE 0
        /\ \A i \in 1..(n - 1 + 1) : c[i] = cands[1 + i - 1]
    BY <1>1, <1>3, SubSeqProperties
  <1>5. Len(c) = n /\ \A i \in 1..n : c[i] = cands[i]
    BY <1>1, <1>4
  <1> HIDE DEF c
  <1>6. Distinct(c)
    BY <1>0, <1>3, <1>5 DEF Distinct
  <1>7. Guarded(c)
    <2>1. 1 \in 1..n /\ \A j \in 2..n : j \in 1..n /\ j \in 2..Len(cands)
      BY <1>0, <1>1
    <2> QED BY <1>5, <2>1 DEF Guarded
  <1> QED BY <1>1, <1>2, <1>4, <1>5, <1>6, <1>7 DEF IsList

\* The list runMeteredCall works through.
LEMMA CandidatesFacts ==
  ASSUME NEW r \in Requests, shunned \subseteq Providers
  PROVE  IsList(Candidates(r)) /\ Guarded(Candidates(r))
  <1>1. IsList(Pool[r])
    BY PoolAssumption DEF IsList, Distinct
  <1> QED BY <1>1, OrderedFacts, ByCostFacts, CapFacts DEF Candidates

-----------------------------------------------------------------------------
(* The inductive invariant.                                                *)

\* Where a request is in its list, and what its client has got by then.
InList(r) ==
    /\ pc[r] = "idle" => idx[r] = 1
    /\ pc[r] # "idle" => IsList(list[r]) /\ Guarded(list[r]) /\ idx[r] <= Len(list[r])

Answered(r) ==
    /\ pc[r] # "done" => wrote[r] = << >>
    /\ Len(wrote[r]) <= 1
    /\ pc[r] = "done" /\ ~gone[r] => Len(wrote[r]) = 1
    /\ \A j \in 1..(idx[r] - 1) : list[r][j] \in failedAt[r]

\* A closed breaker has counted no more failures than requests that failed, and a
\* request that failed at p does not come back to it.
Past(r, p) == pc[r] = "done" \/ (pc[r] # "idle" /\ \E j \in 1..(idx[r] - 1) : list[r][j] = p)

Blamed(p) ==
    /\ IsFiniteSet(blame[p])
    /\ ~health[p].open => health[p].fails <= Cardinality(blame[p])
    /\ health[p].open => Cardinality(blame[p]) >= Threshold
    /\ \A r \in blame[p] : Past(r, p)

IInv ==
    /\ TypeOK
    /\ \A r \in Requests : InList(r)
    /\ \A r \in Requests : Answered(r)
    /\ \A p \in Providers : Blamed(p)

-----------------------------------------------------------------------------
Health == [open : BOOLEAN, fails : Nat, backoff : Nat, until : Nat]

\* requestHealthTracker.record of a failure keeps an open breaker open, and opens
\* a closed one only with the Threshold-th failure it counts.
LEMMA RecordFailureFacts ==
  ASSUME NEW h \in Health, NEW t \in Nat
  PROVE  /\ RecordFailure(h, t) \in Health
         /\ h.open => RecordFailure(h, t).open
         /\ ~h.open /\ RecordFailure(h, t).open => h.fails + 1 >= Threshold
         /\ ~h.open /\ ~RecordFailure(h, t).open => RecordFailure(h, t).fails = h.fails + 1
  <1>0. /\ h.open \in BOOLEAN /\ h.fails \in Nat /\ h.backoff \in Nat /\ h.until \in Nat
        /\ Threshold \in Nat /\ OpenDuration \in Nat /\ MaxOpenDuration \in Nat
    BY ConfigAssumption DEF Health
  <1>1. CASE h.open /\ t < h.until
    BY <1>1 DEF RecordFailure
  <1>2. CASE h.open /\ ~(t < h.until)
    <2> DEFINE b == IF 2 * h.backoff > MaxOpenDuration THEN MaxOpenDuration ELSE 2 * h.backoff
    <2>1. b \in Nat /\ t + b \in Nat
      BY <1>0
    <2>2. RecordFailure(h, t) = [h EXCEPT !.backoff = b, !.until = t + b]
      BY <1>2 DEF RecordFailure
    <2> HIDE DEF b
    <2>3. [h EXCEPT !.backoff = b, !.until = t + b] \in Health
      BY <2>1 DEF Health
    <2>4. [h EXCEPT !.backoff = b, !.until = t + b].open = h.open
      BY DEF Health
    <2> QED BY <1>2, <2>2, <2>3, <2>4
  <1>3. CASE ~h.open /\ h.fails + 1 >= Threshold
    <2> DEFINE u == t + OpenDuration
               f == h.fails + 1
               g == [open |-> TRUE, fails |-> f, backoff |-> OpenDuration, until |-> u]
    <2>1. u \in Nat /\ f \in Nat
      BY <1>0
    <2>2. RecordFailure(h, t) = g
      BY <1>3 DEF RecordFailure
    <2> HIDE DEF u, f
    <2>3. g \in Health /\ g.open
      BY <1>0, <2>1 DEF Health
    <2> QED BY <1>3, <2>2, <2>3
  <1>4. CASE ~h.open /\ ~(h.fails + 1 >= Threshold)
    <2> DEFINE f == h.fails + 1
    <2>1. f \in Nat
      BY <1>0
    <2>2. RecordFailure(h, t) = [h EXCEPT !.fails = f]
      BY <1>4 DEF RecordFailure
    <2> HIDE DEF f
    <2>3. [h EXCEPT !.fails = f] \in Health
      BY <2>1 DEF Health
    <2>4. [h EXCEPT !.fails = f].open = h.open /\ [h EXCEPT !.fails = f].fails = f
      BY DEF Health
    <2> QED BY <1>4, <2>2, <2>3, <2>4 DEF f
  <1> QED BY <1>0, <1>1, <1>2, <1>3, <1>4

\* The types at a request's place.
LEMMA Types ==
  ASSUME TypeOK
  PROVE  /\ now \in Nat /\ health \in [Providers -> Health]
         /\ pc \in [Requests -> {"idle", "next", "call", "done"}]
         /\ list \in [Requests -> Seq(Providers)] /\ idx \in [Requests -> Nat \ {0}]
         /\ raw \in [Requests -> 0..Tries] /\ gone \in [Requests -> BOOLEAN]
         /\ wrote \in [Requests -> Seq(Providers \cup {Gateway})]
         /\ failedAt \in [Requests -> SUBSET Providers] /\ blame \in [Providers -> SUBSET Requests]
         /\ shunned \subseteq Providers /\ cache \subseteq Providers
         /\ Tries \in Nat \ {0}
  BY ConfigAssumption DEF TypeOK, Health

\* The candidate at hand.
LEMMA CandFacts ==
  ASSUME TypeOK, NEW r \in Requests, InList(r), pc[r] # "idle"
  PROVE  Cand(r) \in Providers /\ idx[r] \in 1..Len(list[r])
  <1>1. list[r] \in Seq(Providers) /\ Len(list[r]) \in Nat /\ idx[r] \in Nat \ {0} /\ idx[r] <= Len(list[r])
    BY Types DEF InList
  <1>2. idx[r] \in 1..Len(list[r])
    BY <1>1
  <1> QED BY <1>1, <1>2, ElementOfSeq DEF Cand

\* It has not failed this request before.
LEMMA FreshBlame ==
  ASSUME TypeOK, NEW r \in Requests, InList(r), pc[r] \in {"next", "call"}, Blamed(Cand(r))
  PROVE  r \notin blame[Cand(r)]
  <1>1. idx[r] \in 1..Len(list[r]) /\ list[r] \in Seq(Providers) /\ Len(list[r]) \in Nat /\ Distinct(list[r])
    BY CandFacts, Types DEF InList, IsList
  <1> SUFFICES ASSUME r \in blame[Cand(r)] PROVE FALSE
    OBVIOUS
  <1>2. PICK j \in 1..(idx[r] - 1) : list[r][j] = list[r][idx[r]]
    BY DEF Blamed, Past, Cand
  <1>3. j \in 1..Len(list[r]) /\ j # idx[r]
    BY <1>1
  <1> QED BY <1>1, <1>2, <1>3 DEF Distinct

-----------------------------------------------------------------------------
(* Steps.                                                                  *)

\* A request the step does not move.
LEMMA OtherRequest ==
  ASSUME NEW d \in Requests, InList(d), Answered(d),
         pc'[d] = pc[d], list'[d] = list[d], idx'[d] = idx[d],
         wrote'[d] = wrote[d], gone'[d] = gone[d], failedAt'[d] = failedAt[d]
  PROVE  InList(d)' /\ Answered(d)'
  BY DEF InList, Answered

\* A provider whose failures the step leaves alone.
LEMMA OtherProvider ==
  ASSUME NEW p \in Providers, Blamed(p), blame'[p] = blame[p], health'[p] = health[p],
         \A r \in blame[p] : Past(r, p) => Past(r, p)'
  PROVE  Blamed(p)'
  BY DEF Blamed

\* A request ends with an answer from x.
LEMMA Ends ==
  ASSUME IInv, NEW r \in Requests, NEW x \in Providers \cup {Gateway}, pc[r] = "next",
         wrote' = [wrote EXCEPT ![r] = Append(@, x)], pc' = [pc EXCEPT ![r] = "done"],
         UNCHANGED <<now, health, shunned, cache, list, idx, raw, gone, failedAt, blame>>
  PROVE  IInv'
  <1> USE DEF IInv
  <1>1. wrote[r] \in Seq(Providers \cup {Gateway}) /\ wrote[r] = << >>
    BY Types DEF Answered
  <1>2. Append(wrote[r], x) \in Seq(Providers \cup {Gateway}) /\ Len(Append(wrote[r], x)) = 1
    BY <1>1
  <1>3. wrote' \in [Requests -> Seq(Providers \cup {Gateway})]
    BY <1>2, Types
  <1>4. pc' \in [Requests -> {"idle", "next", "call", "done"}]
    BY Types
  <1>5. TypeOK'
    BY <1>3, <1>4 DEF TypeOK
  <1>6. pc'[r] = "done" /\ wrote'[r] = Append(wrote[r], x) /\ \A d \in Requests \ {r} : pc'[d] = pc[d] /\ wrote'[d] = wrote[d]
    BY Types
  <1>7. InList(r)' /\ Answered(r)'
    BY <1>2, <1>6 DEF InList, Answered
  <1>8. \A d \in Requests \ {r} : InList(d)' /\ Answered(d)'
    BY <1>6, OtherRequest
  <1>9. \A p \in Providers : Blamed(p)'
    <2> TAKE p \in Providers
    <2>1. \A d \in blame[p] : d \in Requests
      BY Types
    <2>2. \A d \in blame[p] : Past(d, p) => Past(d, p)'
      BY <1>6, <2>1 DEF Past
    <2> QED BY <2>2, OtherProvider
  <1> QED BY <1>5, <1>7, <1>8, <1>9

\* The call returns: its outcome, the health it records and the way on.
LEMMA ReturnStep ==
  ASSUME IInv, NEW r \in Requests, NEW o \in Outcomes, NEW w \in BOOLEAN, Return(r, o, w)
  PROVE  IInv'
  <1> USE DEF IInv
  <1>0. pc[r] = "call" /\ Possible(r, o, w) /\ UNCHANGED <<now, shunned, list, gone>>
    BY DEF Return
  <1>a. Cand(r) \in Providers /\ idx[r] \in 1..Len(list[r]) /\ list[r] \in Seq(Providers)
    BY <1>0, CandFacts, Types
  <1>b. PICK c \in Providers, i \in 1..Len(list[r]) : c = Cand(r) /\ i = idx[r]
    BY <1>a
  <1>c. c = list[r][i] /\ Len(list[r]) \in Nat /\ r \notin blame[c] /\ i = idx[r]
    <2>1. Blamed(c)
      OBVIOUS
    <2>2. r \notin blame[c]
      BY <1>0, <1>b, <2>1, FreshBlame
    <2> QED BY <1>a, <1>b, <2>2 DEF Cand
  <1>w. wrote[r] = << >> /\ wrote[r] \in Seq(Providers \cup {Gateway})
    BY <1>0, Types DEF Answered
  <1>f. \/ failedAt' = failedAt /\ ~FailoverEligible(o)
        \/ failedAt' = [failedAt EXCEPT ![r] = @ \cup {c}] /\ FailoverEligible(o)
    BY <1>b DEF Return
  <1>h. \/ UNCHANGED <<health, blame>>
        \/ /\ health' = [health EXCEPT ![c] = RecordFailure(@, now)]
           /\ blame' = [blame EXCEPT ![c] = @ \cup {r}]
           /\ FailoverEligible(o)
        \/ health' = [health EXCEPT ![c] = Closed] /\ blame' = [blame EXCEPT ![c] = {}]
    BY <1>b DEF Return, RecordOutcome
  \* What the step does to the request itself.
  <1>1. \/ /\ MoveOn(r, o, w) /\ wrote' = wrote
           /\ pc' = [pc EXCEPT ![r] = "next"] /\ idx' = [idx EXCEPT ![r] = @ + 1]
        \/ /\ pc' = [pc EXCEPT ![r] = "done"] /\ idx' = idx
           /\ \/ wrote' = [wrote EXCEPT ![r] = Append(@, c)]
              \/ wrote' = [wrote EXCEPT ![r] = Append(@, Gateway)]
              \/ wrote' = wrote /\ gone[r]
    <2>1. CASE MoveOn(r, o, w)
      <3>1. ~w
        BY <2>1 DEF MoveOn
      <3> QED BY <2>1, <3>1 DEF Return
    <2>2. CASE ~MoveOn(r, o, w)
      <3>1. pc' = [pc EXCEPT ![r] = "done"] /\ idx' = idx
        BY <2>2 DEF Return, Finish
      <3>2. o = "canceled" => gone[r]
        BY <1>0 DEF Possible
      <3>3. \/ wrote' = [wrote EXCEPT ![r] = Append(@, c)]
            \/ wrote' = [wrote EXCEPT ![r] = Append(@, Gateway)]
            \/ wrote' = wrote /\ gone[r]
        BY <1>b, <2>2, <3>2 DEF Return
      <3> QED BY <3>1, <3>3
    <2> QED BY <2>1, <2>2
  <1>2. /\ MoveOn(r, o, w) => i < Len(list[r]) /\ FailoverEligible(o)
    BY <1>b DEF MoveOn
  <1>3. TypeOK'
    <2>1. health' \in [Providers -> Health]
      <3>1. health[c] \in Health /\ Closed \in Health
        <4>1. FALSE \in BOOLEAN
          BY Zenon
        <4> QED BY <1>c, <4>1, Types DEF Closed, Health
      <3>2. RecordFailure(health[c], now) \in Health
        BY <3>1, Types, RecordFailureFacts
      <3> QED BY <1>h, <3>1, <3>2, Types
    <2>2. blame' \in [Providers -> SUBSET Requests]
      <3>1. blame \in [Providers -> SUBSET Requests]
        BY Types
      <3>2. blame[c] \cup {r} \in SUBSET Requests /\ {} \in SUBSET Requests
        BY <1>c, <3>1
      <3>3. \E b \in SUBSET Requests : blame' = blame \/ blame' = [blame EXCEPT ![c] = b]
        BY <1>h, <3>1, <3>2
      <3> QED BY <3>1, <3>3
    <2>3. failedAt' \in [Requests -> SUBSET Providers]
      <3>1. failedAt[r] \cup {c} \in SUBSET Providers
        BY Types
      <3>2. CASE failedAt' = failedAt
        BY <3>2, Types
      <3>3. CASE failedAt' = [failedAt EXCEPT ![r] = @ \cup {c}]
        BY <3>1, <3>3, Types
      <3> QED BY <1>f, <3>2, <3>3
    <2>4. cache' \subseteq Providers
      BY <1>b, Types DEF Return
    <2>5. wrote' \in [Requests -> Seq(Providers \cup {Gateway})]
      <3>1. Append(wrote[r], c) \in Seq(Providers \cup {Gateway}) /\ Append(wrote[r], Gateway) \in Seq(Providers \cup {Gateway})
        BY <1>c, <1>w
      <3> QED BY <1>1, <3>1, Types
    <2>6. pc' \in [Requests -> {"idle", "next", "call", "done"}]
      BY <1>1, Types
    <2>7. idx' \in [Requests -> Nat \ {0}]
      <3>1. idx[r] + 1 \in Nat \ {0}
        BY Types
      <3> QED BY <1>1, <3>1, Types
    <2>8. raw' \in [Requests -> 0..Tries]
      <3>1. 0 \in 0..Tries
        BY Types
      <3> QED BY <3>1, Types DEF Return
    <2> QED BY <1>0, <2>1, <2>2, <2>3, <2>4, <2>5, <2>6, <2>7, <2>8 DEF TypeOK, Health
  <1>4. \A d \in Requests \ {r} : InList(d)' /\ Answered(d)'
    <2> TAKE d \in Requests \ {r}
    <2>1. pc'[d] = pc[d] /\ idx'[d] = idx[d] /\ wrote'[d] = wrote[d] /\ failedAt'[d] = failedAt[d]
      BY <1>1, <1>f, Types
    <2> QED BY <1>0, <2>1, OtherRequest
  <1>5. InList(r)' /\ Answered(r)'
    <2>0. failedAt[r] \subseteq failedAt'[r] /\ (FailoverEligible(o) => c \in failedAt'[r])
      BY <1>f, Types
    <2>1. \A j \in 1..(i - 1) : list[r][j] \in failedAt[r]
      BY <1>b DEF Answered
    <2>2. CASE pc'[r] = "next" /\ idx'[r] = i + 1 /\ i < Len(list[r]) /\ wrote' = wrote /\ FailoverEligible(o)
      <3>1. i + 1 <= Len(list[r]) /\ 1..((i + 1) - 1) = 1..(i - 1) \cup {i}
        BY <1>c, <2>2
      <3>2. \A j \in 1..((i + 1) - 1) : list[r][j] \in failedAt'[r]
        BY <1>c, <2>0, <2>1, <2>2, <3>1
      <3>3. InList(r)'
        BY <1>0, <2>2, <3>1 DEF InList
      <3>4. Answered(r)'
        <4>1. Len(wrote'[r]) <= 1
          BY <2>2 DEF Answered
        <4> QED BY <1>0, <1>w, <2>2, <3>2, <4>1 DEF Answered
      <3> QED BY <3>3, <3>4
    <2>3. CASE pc'[r] = "done" /\ idx' = idx
      <3>1. \/ Len(wrote'[r]) = 1
            \/ wrote'[r] = << >> /\ gone[r]
        <4>0. Len(wrote[r]) = 0
          BY <1>w
        <4>1. Len(Append(wrote[r], c)) = 1
          <5>1. c \in Providers \cup {Gateway}
            OBVIOUS
          <5>2. Len(Append(wrote[r], c)) = Len(wrote[r]) + 1
            BY <1>w, <5>1, AppendProperties
          <5> QED BY <4>0, <5>2
        <4>2. Len(Append(wrote[r], Gateway)) = 1
          <5>1. Len(Append(wrote[r], Gateway)) = Len(wrote[r]) + 1
            BY <1>w, AppendProperties
          <5> QED BY <4>0, <5>1
        <4>3. pc' # [pc EXCEPT ![r] = "next"]
          BY <2>3, Types
        <4>4. \/ wrote'[r] = Append(wrote[r], c)
              \/ wrote'[r] = Append(wrote[r], Gateway)
              \/ wrote'[r] = wrote[r] /\ gone[r]
          BY <1>1, <4>3, Types
        <4> QED BY <1>w, <4>1, <4>2, <4>4
      <3>2. InList(r)'
        BY <1>0, <2>3 DEF InList
      <3>3. \A j \in 1..(idx[r] - 1) : list[r][j] \in failedAt'[r]
        BY <1>c, <2>0, <2>1
      <3>4. Answered(r)'
        <4>1. Len(wrote'[r]) <= 1 /\ (~gone[r] => Len(wrote'[r]) = 1)
          <5>1. CASE Len(wrote'[r]) = 1
            BY <5>1
          <5>2. CASE wrote'[r] = << >> /\ gone[r]
            <6>1. Len(wrote'[r]) = 0
              BY <5>2
            <6> QED BY <5>2, <6>1
          <5> QED BY <3>1, <5>1, <5>2
        <4>2. pc'[r] = "done" /\ list' = list /\ gone' = gone /\ idx'[r] = idx[r]
          BY <1>0, <2>3
        <4>3. \A j \in 1..(idx'[r] - 1) : list'[r][j] \in failedAt'[r]
          BY <3>3, <4>2
        <4> HIDE DEF IInv
        <4> QED BY <4>1, <4>2, <4>3 DEF Answered
      <3> QED BY <3>2, <3>4
    <2> QED BY <1>1, <1>2, <1>c, <2>2, <2>3, Types
  <1>6. \A p \in Providers, d \in Requests : Past(d, p) => Past(d, p)'
    <2> TAKE p \in Providers, d \in Requests
    <2>1. CASE d # r
      <3>1. pc'[d] = pc[d] /\ idx'[d] = idx[d] /\ list'[d] = list[d]
        BY <1>0, <1>1, <2>1, Types
      <3> QED BY <3>1 DEF Past
    <2>2. CASE d = r
      <3>1. pc'[r] = "done" \/ (pc'[r] = "next" /\ idx'[r] = i + 1)
        BY <1>1, <1>c, Types
      <3>2. 1..(i - 1) \subseteq 1..((i + 1) - 1)
        BY <1>c
      <3> QED BY <1>0, <1>c, <2>2, <3>1, <3>2 DEF Past
    <2> QED BY <2>1, <2>2
  <1>7. FailoverEligible(o) => Past(r, c)'
    <2>1. pc'[r] = "done" \/ (pc'[r] = "next" /\ idx'[r] = i + 1)
      BY <1>1, <1>c, Types
    <2>2. i \in 1..((i + 1) - 1)
      BY <1>c
    <2> QED BY <1>0, <1>c, <2>1, <2>2 DEF Past
  <1>8. \A p \in Providers \ {c} : Blamed(p)'
    <2> TAKE p \in Providers \ {c}
    <2>1. blame'[p] = blame[p] /\ health'[p] = health[p] /\ blame[p] \subseteq Requests
      BY <1>h, Types
    <2> QED BY <1>6, <2>1, OtherProvider
  <1>9. Blamed(c)'
    <2>0. /\ blame[c] \subseteq Requests /\ health[c] \in Health /\ IsFiniteSet(blame[c])
          /\ Cardinality(blame[c]) \in Nat /\ Threshold \in Nat
      BY <1>c, Types, FS_CardinalityType, ConfigAssumption DEF Blamed
    <2>1. CASE UNCHANGED <<health, blame>>
      BY <1>c, <1>6, <2>0, <2>1, OtherProvider
    <2>2. CASE /\ health' = [health EXCEPT ![c] = RecordFailure(@, now)]
               /\ blame' = [blame EXCEPT ![c] = @ \cup {r}]
               /\ FailoverEligible(o)
      <3> DEFINE h == health[c]
                 g == RecordFailure(h, now)
                 b == blame[c]
                 n == Cardinality(b)
      <3>1. health'[c] = g /\ blame'[c] = b \cup {r}
        BY <1>c, <2>2, Types
      <3>2. IsFiniteSet(b \cup {r}) /\ Cardinality(b \cup {r}) = n + 1
        BY <1>c, <2>0, FS_AddElement
      <3>3. /\ h.open => g.open
            /\ ~h.open /\ g.open => h.fails + 1 >= Threshold
            /\ ~h.open /\ ~g.open => g.fails = h.fails + 1
            /\ h.fails \in Nat
        BY <2>0, Types, RecordFailureFacts DEF Health
      <3>4. (~h.open => h.fails <= n) /\ (h.open => n >= Threshold)
        BY <1>c DEF Blamed
      <3>5. \A d \in b \cup {r} : Past(d, c)'
        <4>1. \A d \in b : Past(d, c) /\ d \in Requests
          BY <1>c, <2>0 DEF Blamed
        <4> QED BY <1>c, <1>6, <1>7, <2>2, <4>1
      <3> HIDE DEF h, g, b, n
      <3>6. (~g.open => g.fails <= n + 1) /\ (g.open => n + 1 >= Threshold)
        <4>1. n \in Nat /\ Threshold \in Nat
          BY <2>0 DEF n, b
        <4> QED BY <3>3, <3>4, <4>1
      <3> QED BY <3>1, <3>2, <3>5, <3>6 DEF Blamed
    <2>3. CASE health' = [health EXCEPT ![c] = Closed] /\ blame' = [blame EXCEPT ![c] = {}]
      <3>1. health'[c] = Closed /\ blame'[c] = {}
        BY <1>c, <2>3, Types
      <3>2. IsFiniteSet({}) /\ Cardinality({}) = 0
        BY FS_EmptySet
      <3> QED BY <3>1, <3>2 DEF Blamed, Closed
    <2> QED BY <1>h, <2>1, <2>2, <2>3
  <1> QED BY <1>3, <1>4, <1>5, <1>8, <1>9

\* The request gets its candidates: all health states are read now.
LEMMA RouteStep ==
  ASSUME IInv, NEW r \in Requests, Route(r)
  PROVE  IInv'
  <1> USE DEF IInv
  <1> DEFINE l == Candidates(r)
  <1>1. IsList(l) /\ Guarded(l)
    BY CandidatesFacts, Types
  <1>2. l \in Seq(Providers) /\ Len(l) \in Nat /\ Len(l) >= 1 /\ l # << >>
    BY <1>1 DEF IsList
  <1>3. pc[r] = "idle" /\ list' = [list EXCEPT ![r] = l] /\ pc' = [pc EXCEPT ![r] = "next"]
    BY <1>2 DEF Route
  <1>4. UNCHANGED <<now, health, shunned, cache, idx, raw, gone, wrote, failedAt, blame>>
    BY DEF Route
  <1>5. PICK q : q = l
    OBVIOUS
  <1> HIDE DEF l
  <1>6. TypeOK'
    <2>1. list' \in [Requests -> Seq(Providers)]
      BY <1>2, <1>3, Types
    <2>2. pc' \in [Requests -> {"idle", "next", "call", "done"}]
      BY <1>3, Types
    <2> QED BY <1>4, <2>1, <2>2 DEF TypeOK
  <1>7. pc'[r] = "next" /\ list'[r] = q /\ \A d \in Requests \ {r} : pc'[d] = pc[d] /\ list'[d] = list[d]
    BY <1>3, <1>5, Types
  <1>8. idx[r] = 1 /\ wrote[r] = << >>
    BY <1>3 DEF InList, Answered
  <1>9. InList(r)' /\ Answered(r)'
    <2>1. 1..(1 - 1) = {} /\ Len(<< >>) <= 1
      OBVIOUS
    <2>2. IsList(q) /\ Guarded(q) /\ 1 <= Len(q)
      BY <1>1, <1>2, <1>5
    <2>3. InList(r)'
      <3>1. IsList(list[r])' /\ Guarded(list[r])'
        BY <1>7, <2>2 DEF IsList, Guarded, Distinct
      <3> QED BY <1>4, <1>7, <1>8, <2>2, <3>1 DEF InList
    <2>4. Answered(r)'
      BY <1>4, <1>7, <1>8, <2>1 DEF Answered
    <2> QED BY <2>3, <2>4
  <1>10. \A d \in Requests \ {r} : InList(d)' /\ Answered(d)'
    BY <1>4, <1>7, OtherRequest
  <1>11. \A p \in Providers : Blamed(p)'
    <2> TAKE p \in Providers
    <2>1. \A d \in blame[p] : d \in Requests
      BY Types
    <2>2. \A d \in blame[p] : Past(d, p) => Past(d, p)'
      BY <1>3, <1>4, <1>7, <2>1 DEF Past
    <2> QED BY <1>4, <2>2, OtherProvider
  <1> QED BY <1>6, <1>9, <1>10, <1>11

\* A step that moves no request and touches no breaker.
LEMMA QuietStep ==
  ASSUME IInv, TypeOK', UNCHANGED <<list, idx, wrote, failedAt, health, blame>>,
         \A d \in Requests : (gone'[d] = gone[d] /\ pc'[d] = pc[d]) \/ (gone'[d] /\ pc'[d] = pc[d])
                             \/ (gone'[d] = gone[d] /\ pc[d] = "next" /\ pc'[d] = "call")
  PROVE  IInv'
  <1> USE DEF IInv
  <1>1. \A d \in Requests : InList(d)' /\ Answered(d)'
    <2> TAKE d \in Requests
    <2>1. InList(d) /\ Answered(d)
      OBVIOUS
    <2>2. InList(d)'
      BY <2>1 DEF InList
    <2>3. Answered(d)'
      BY <2>1 DEF Answered
    <2> QED BY <2>2, <2>3
  <1>2. \A p \in Providers : Blamed(p)'
    <2> TAKE p \in Providers
    <2>1. \A d \in blame[p] : d \in Requests
      BY Types
    <2>2. \A d \in blame[p] : Past(d, p) => Past(d, p)'
      BY <2>1 DEF Past
    <2> QED BY <2>2, OtherProvider
  <1> QED BY <1>1, <1>2

-----------------------------------------------------------------------------
(* The theorems.                                                           *)

\* The invariant holds initially.
LEMMA IInvInit == Init => IInv
  <1> SUFFICES ASSUME Init PROVE IInv
    OBVIOUS
  <1>1. Closed \in Health
    <2>1. FALSE \in BOOLEAN
      BY Zenon
    <2> QED BY <2>1 DEF Closed, Health
  <1>2. TypeOK
    <2>1. health \in [Providers -> Health]
      BY <1>1 DEF Init
    <2>2. gone \in [Requests -> BOOLEAN]
      <3>1. FALSE \in BOOLEAN
        BY Zenon
      <3> QED BY <3>1 DEF Init
    <2>3. 0 \in 0..Tries /\ 1 \in Nat \ {0} /\ 0 \in Nat
      BY ConfigAssumption
    <2>4. << >> \in Seq(Providers) /\ << >> \in Seq(Providers \cup {Gateway})
      OBVIOUS
    <2>5. list \in [Requests -> Seq(Providers)] /\ wrote \in [Requests -> Seq(Providers \cup {Gateway})]
      BY <2>4 DEF Init
    <2>6. idx \in [Requests -> Nat \ {0}] /\ raw \in [Requests -> 0..Tries] /\ now \in Nat
      BY <2>3 DEF Init
    <2>7. /\ pc \in [Requests -> {"idle", "next", "call", "done"}]
          /\ failedAt \in [Requests -> SUBSET Providers] /\ blame \in [Providers -> SUBSET Requests]
          /\ shunned \subseteq Providers /\ cache \subseteq Providers
      BY DEF Init
    <2> QED BY <2>1, <2>2, <2>5, <2>6, <2>7 DEF TypeOK, Health
  <1>3. \A r \in Requests : InList(r) /\ Answered(r)
    <2> TAKE r \in Requests
    <2>1. pc[r] = "idle" /\ idx[r] = 1 /\ wrote[r] = << >>
      BY DEF Init
    <2>2. 1..(1 - 1) = {} /\ Len(<< >>) <= 1
      OBVIOUS
    <2> QED BY <2>1, <2>2 DEF InList, Answered
  <1>4. \A p \in Providers : Blamed(p)
    <2> TAKE p \in Providers
    <2>1. health[p] = Closed /\ blame[p] = {}
      BY DEF Init
    <2>2. IsFiniteSet({}) /\ Cardinality({}) = 0
      BY FS_EmptySet
    <2> QED BY <2>1, <2>2 DEF Blamed, Closed
  <1> QED BY <1>2, <1>3, <1>4 DEF IInv

\* Every step keeps the invariant.
LEMMA IInvNext == IInv /\ [Next]_vars => IInv'
  <1> SUFFICES ASSUME IInv, [Next]_vars PROVE IInv'
    OBVIOUS
  <1>0. TypeOK /\ \A r \in Requests : InList(r)
    BY DEF IInv
  <1>1. ASSUME NEW r \in Requests, Route(r) PROVE IInv'
    BY <1>1, RouteStep
  <1>2. ASSUME NEW r \in Requests, GiveUp(r) PROVE IInv'
    <2>1. Gateway \in Providers \cup {Gateway}
      OBVIOUS
    <2> QED BY <1>2, <2>1, Ends DEF GiveUp, Commit, Finish
  <1>3. ASSUME NEW r \in Requests, CacheHit(r) PROVE IInv'
    <2>1. pc[r] = "next"
      BY <1>3 DEF CacheHit, Goes
    <2>2. PICK x \in Providers \cup {Gateway} : x = Cand(r)
      BY <1>0, <2>1, CandFacts
    <2> QED BY <1>3, <2>1, <2>2, Ends DEF CacheHit, Commit, Finish
  <1>4. ASSUME NEW r \in Requests, RefuseUnpriced(r) PROVE IInv'
    <2>1. Gateway \in Providers \cup {Gateway}
      OBVIOUS
    <2> QED BY <1>4, <2>1, Ends DEF RefuseUnpriced, Goes, Commit, Finish
  <1>5. ASSUME NEW r \in Requests, Call(r) PROVE IInv'
    <2>1. pc' \in [Requests -> {"idle", "next", "call", "done"}]
      BY <1>0, <1>5, Types DEF Call
    <2>2. raw' \in [Requests -> 0..Tries]
      <3>1. 1 \in 0..Tries
        BY <1>0, Types
      <3> QED BY <1>0, <1>5, <3>1, Types DEF Call
    <2>3. TypeOK'
      BY <1>0, <1>5, <2>1, <2>2 DEF TypeOK, Call
    <2>4. \A d \in Requests : pc'[d] = pc[d] \/ (pc[d] = "next" /\ pc'[d] = "call")
      BY <1>0, <1>5, Types DEF Call, Goes
    <2> QED BY <1>5, <2>3, <2>4, QuietStep DEF Call
  <1>6. ASSUME NEW r \in Requests, Retry(r) PROVE IInv'
    <2>1. raw' \in [Requests -> 0..Tries]
      <3>1. raw[r] \in 0..Tries /\ Tries \in Nat /\ raw[r] < Tries
        BY <1>0, <1>6, Types DEF Retry
      <3>2. raw[r] + 1 \in 0..Tries
        BY <3>1
      <3> QED BY <1>0, <1>6, <3>2, Types DEF Retry
    <2>2. TypeOK'
      BY <1>0, <1>6, <2>1 DEF TypeOK, Retry
    <2> QED BY <1>6, <2>2, QuietStep DEF Retry
  <1>7. ASSUME NEW r \in Requests, Leave(r) PROVE IInv'
    <2>1. gone' \in [Requests -> BOOLEAN]
      <3>1. TRUE \in BOOLEAN
        BY Zenon
      <3> QED BY <1>0, <1>7, <3>1, Types DEF Leave
    <2>2. TypeOK'
      BY <1>0, <1>7, <2>1 DEF TypeOK, Leave
    <2>3. \A d \in Requests : gone'[d] = gone[d] \/ gone'[d]
      BY <1>0, <1>7, Types DEF Leave
    <2> QED BY <1>7, <2>2, <2>3, QuietStep DEF Leave
  <1>8. ASSUME NEW r \in Requests, NEW o \in Outcomes, NEW w \in BOOLEAN, Return(r, o, w) PROVE IInv'
    BY <1>8, ReturnStep
  <1>9. ASSUME NEW p \in Providers, CacheExpires(p) PROVE IInv'
    <2>1. TypeOK'
      BY <1>0, <1>9 DEF TypeOK, CacheExpires, reqVars
    <2> QED BY <1>9, <2>1, QuietStep DEF CacheExpires, reqVars
  <1>10. ASSUME NEW p \in Providers, Discovery(p) PROVE IInv'
    <2>1. shunned' \subseteq Providers
      BY <1>0, <1>10, Types DEF Discovery
    <2>2. TypeOK'
      BY <1>0, <1>10, <2>1 DEF TypeOK, Discovery, reqVars
    <2> QED BY <1>10, <2>2, QuietStep DEF Discovery, reqVars
  <1>11. ASSUME Tick PROVE IInv'
    <2>1. TypeOK'
      BY <1>0, <1>11 DEF TypeOK, Tick, reqVars
    <2> QED BY <1>11, <2>1, QuietStep DEF Tick, reqVars
  <1>12. ASSUME UNCHANGED vars PROVE IInv'
    <2>1. TypeOK'
      BY <1>0, <1>12 DEF TypeOK, vars, reqVars
    <2> QED BY <1>12, <2>1, QuietStep DEF vars, reqVars
  <1> QED BY <1>1, <1>2, <1>3, <1>4, <1>5, <1>6, <1>7, <1>8, <1>9, <1>10, <1>11, <1>12 DEF Next

\* The inductive invariant: where each request is in its list of candidates, what
\* its client has got, and which requests each breaker has counted.
THEOREM Invariant == Spec => []IInv
  BY IInvInit, IInvNext, PTL DEF Spec

\* The state of the request path keeps its types.
THEOREM TypeCorrect == Spec => []TypeOK
  <1>1. IInv => TypeOK
    BY DEF IInv
  <1> QED BY Invariant, <1>1, PTL

\* runMeteredCall answers a client at most once, and every client that stays gets
\* an answer, from a provider that is reached only over failures of the ones before.
THEOREM AnswerCorrect == Spec => []OneAnswer
  <1>1. IInv => OneAnswer
    BY DEF IInv, OneAnswer, Answered
  <1> QED BY Invariant, <1>1, PTL

\* filterCandidatesByCost: for any prices and any health, no candidate that is tried
\* costs more than the first one tried.
THEOREM CostCorrect == Spec => []NeverDearer
  <1>1. IInv => NeverDearer
    <2> SUFFICES ASSUME IInv, NEW r \in Requests, pc[r] # "idle", NEW j \in 2..idx[r]
                 PROVE  CostAllowed(list[r][1], list[r][j])
      BY DEF NeverDearer
    <2>1. idx[r] <= Len(list[r]) /\ Guarded(list[r]) /\ Len(list[r]) \in Nat /\ idx[r] \in Nat
      <3>1. TypeOK /\ InList(r)
        BY DEF IInv
      <3> QED BY <3>1, Types DEF InList, IsList
    <2>2. j \in 2..Len(list[r])
      BY <2>1
    <2> QED BY <2>1, <2>2 DEF Guarded
  <1> QED BY Invariant, <1>1, PTL

\* requestHealthTracker counts requests, not upstream calls: an open breaker has
\* Threshold different requests behind it.
THEOREM BreakerCorrect == Spec => []BreakerCountsRequests
  <1>1. IInv => BreakerCountsRequests
    BY DEF IInv, BreakerCountsRequests, Blamed
  <1> QED BY Invariant, <1>1, PTL

=============================================================================
