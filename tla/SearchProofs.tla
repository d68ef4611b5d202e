------------------------------- MODULE SearchProofs -------------------------------
(***************************************************************************)
(* Proofs about Search and AnnProjection: what a request answers was       *)
(* visible, baseline hits keep their place in the reranker's pool, and a   *)
(* search of the indexed copy misses nothing that was there.               *)
(***************************************************************************)
EXTENDS SearchedCopy, FiniteSetTheorems, SequenceTheorems, WellFoundedInduction, TLAPS

-----------------------------------------------------------------------------------
\* Recursion over the first n naturals.

LEMMA LeastNat ==
  ASSUME NEW S \in SUBSET Nat, S # {}
  PROVE  \E k \in S : \A m \in S : k <= m
<1>1. PICK k \in S : \A m \in S : ~(<<m, k>> \in OpToRel(<, Nat))
  BY NatLessThanWellFounded, WFMin, Zenon
<1>2. \A m \in S : ~(m < k) BY <1>1 DEF OpToRel
<1> QED BY <1>2

LEMMA UpTo ==
  ASSUME NEW N \in Nat, NEW S, 0 \in S, \A n \in 1..N : n - 1 \in S => n \in S
  PROVE  0..N \subseteq S
<1> DEFINE T == (0..N) \ S
<1> SUFFICES ASSUME T # {} PROVE FALSE OBVIOUS
<1>1. PICK k \in T : \A m \in T : k <= m
  <2>1. T \in SUBSET Nat OBVIOUS
  <2> HIDE DEF T
  <2> QED BY <2>1, LeastNat
<1>2. k \in 1..N /\ k - 1 \in 0..N OBVIOUS
<1>3. k - 1 \notin T
  <2>1. ~(k <= k - 1) BY <1>2
  <2> HIDE DEF T
  <2> QED BY <1>1, <2>1
<1> QED BY <1>2, <1>3

\* A function that is defined by what it is at 0 and by what makes each value of the last.
Iterated(h, N, V, base, step) ==
  h \in [0..N -> V] /\ h[0] = base /\ \A n \in 1..N : h[n] = step[n][h[n - 1]]

LEMMA Iterates ==
  ASSUME NEW N \in Nat, NEW V, NEW base \in V, NEW step \in [1..N -> [V -> V]]
  PROVE  \E h : Iterated(h, N, V, base, step)
<1> DEFINE Goes(k, h) == h \in [0..k -> V] /\ h[0] = base
                         /\ \A n \in 1..k : h[n] = step[n][h[n - 1]]
           Defined == {k \in 0..N : \E h : Goes(k, h)}
<1>1. 0 \in Defined
  <2> DEFINE h == [n \in 0..0 |-> base]
  <2>1. Goes(0, h) OBVIOUS
  <2> HIDE DEF Goes
  <2> QED BY <2>1
<1>2. ASSUME NEW k \in 1..N, k - 1 \in Defined PROVE k \in Defined
  <2>1. PICK h : Goes(k - 1, h) BY <1>2
  <2> DEFINE g == [n \in 0..k |-> IF n = k THEN step[k][h[k - 1]] ELSE h[n]]
  <2>2. k \in Nat /\ k > 0 /\ k \in 0..k /\ k - 1 \in 0..(k - 1) OBVIOUS
  <2>3. h \in [0..(k - 1) -> V] /\ h[0] = base BY <2>1
  <2>4. \A n \in 1..(k - 1) : h[n] = step[n][h[n - 1]] BY <2>1
  <2>5. step[k][h[k - 1]] \in V
    <3>1. h[k - 1] \in V BY <2>2, <2>3
    <3> QED BY <3>1
  <2>6. g \in [0..k -> V]
    <3> SUFFICES ASSUME NEW n \in 0..k PROVE g[n] \in V OBVIOUS
    <3>1. n = k \/ n \in 0..(k - 1) BY <2>2
    <3> QED BY <2>3, <2>5, <3>1
  <2>7. g[0] = base BY <2>2, <2>3
  <2>8. \A n \in 1..k : g[n] = step[n][g[n - 1]]
    <3> SUFFICES ASSUME NEW n \in 1..k PROVE g[n] = step[n][g[n - 1]] OBVIOUS
    <3>1. g[n - 1] = h[n - 1] BY <2>2
    <3>2. CASE n = k BY <2>2, <3>1, <3>2
    <3>3. CASE n # k
      <4>1. n \in 1..(k - 1) /\ g[n] = h[n] BY <2>2, <3>3
      <4> HIDE DEF g
      <4> QED BY <2>4, <3>1, <4>1
    <3> QED BY <3>2, <3>3
  <2> HIDE DEF g
  <2>9. Goes(k, g) BY <2>6, <2>7, <2>8
  <2> HIDE DEF Goes
  <2> QED BY <2>9
<1>3. 0..N \subseteq Defined
  <2> HIDE DEF Defined
  <2> QED BY <1>1, <1>2, UpTo
<1>4. N \in Defined BY <1>3
<1>5. PICK h : Goes(N, h) BY <1>4
<1> QED BY <1>5, Zenon DEF Iterated

-----------------------------------------------------------------------------------
\* Sums.

Summed(u, n, f) ==
  u \in [0..n -> Nat] /\ u[0] = 0 /\ Sum(n, f) = u[n] /\ \A k \in 1..n : u[k] = u[k - 1] + f[k]

LEMMA SumSteps ==
  ASSUME NEW n \in Nat, NEW f, \A k \in 1..n : f[k] \in Nat
  PROVE  \E u : Summed(u, n, f)
<1> DEFINE Upto(g) == g = [k \in 0..n |-> IF k = 0 THEN 0 ELSE g[k - 1] + f[k]]
           u == CHOOSE g : Upto(g)
           step == [k \in 1..n |-> [a \in Nat |-> a + f[k]]]
           Natural == {k \in 0..n : u[k] \in Nat}
<1>1. Sum(n, f) = u[n] BY Zenon DEF Sum
<1>2. \E g : Upto(g)
  <2>1. step \in [1..n -> [Nat -> Nat]] OBVIOUS
  <2>2. PICK h : Iterated(h, n, Nat, 0, step)
    <3>1. 0 \in Nat OBVIOUS
    <3> HIDE DEF step
    <3> QED BY <2>1, <3>1, Iterates, Zenon
  <2>3. \A k \in 1..n : h[k] = h[k - 1] + f[k]
    <3> SUFFICES ASSUME NEW k \in 1..n PROVE h[k] = h[k - 1] + f[k] OBVIOUS
    <3>1. h[k - 1] \in Nat BY <2>2 DEF Iterated
    <3> QED BY <2>2, <3>1 DEF Iterated
  <2>4. Upto(h) BY <2>2, <2>3 DEF Iterated
  <2> QED BY <2>4
<1>3. Upto(u) BY <1>2, Zenon
<1> HIDE DEF u
<1>4. u[0] = 0 /\ \A k \in 1..n : u[k] = u[k - 1] + f[k] BY <1>3
<1>5. 0 \in Natural BY <1>4
<1>6. ASSUME NEW k \in 1..n, k - 1 \in Natural PROVE k \in Natural
  <2>1. u[k - 1] \in Nat /\ f[k] \in Nat BY <1>6
  <2>2. u[k] \in Nat BY <1>4, <2>1
  <2> QED BY <2>2
<1>7. 0..n \subseteq Natural
  <2> HIDE DEF Natural
  <2> QED BY <1>5, <1>6, UpTo
<1>8. u \in [0..n -> Nat] BY <1>3, <1>7
<1> QED BY <1>1, <1>4, <1>8, Zenon DEF Summed

LEMMA SumType ==
  ASSUME NEW n \in Nat, NEW f, \A k \in 1..n : f[k] \in Nat
  PROVE  Sum(n, f) \in Nat
<1>1. PICK u : Summed(u, n, f) BY SumSteps
<1> QED BY <1>1 DEF Summed

\* A sum grows with what is summed.
LEMMA SumGrows ==
  ASSUME NEW n \in Nat, NEW f, NEW g,
         \A k \in 1..n : f[k] \in Nat /\ g[k] \in Nat /\ f[k] <= g[k]
  PROVE  Sum(n, f) <= Sum(n, g)
<1>1. PICK u : Summed(u, n, f)
  BY SumSteps
<1>2. PICK v : Summed(v, n, g)
  BY SumSteps
<1> DEFINE Below == {k \in 0..n : u[k] <= v[k]}
<1>3. 0 \in Below BY <1>1, <1>2 DEF Summed
<1>4. ASSUME NEW k \in 1..n, k - 1 \in Below PROVE k \in Below
  <2>1. u[k - 1] \in Nat /\ v[k - 1] \in Nat /\ u[k - 1] <= v[k - 1] BY <1>1, <1>2, <1>4 DEF Summed
  <2>2. u[k] = u[k - 1] + f[k] /\ v[k] = v[k - 1] + g[k] BY <1>1, <1>2 DEF Summed
  <2>3. f[k] \in Nat /\ g[k] \in Nat /\ f[k] <= g[k] OBVIOUS
  <2>4. u[k] <= v[k] BY <2>1, <2>2, <2>3
  <2> QED BY <2>4
<1>5. 0..n \subseteq Below
  <2> HIDE DEF Below
  <2> QED BY <1>3, <1>4, UpTo
<1>6. u[n] <= v[n] BY <1>5
<1> QED BY <1>1, <1>2, <1>6 DEF Summed

LEMMA SumSame ==
  ASSUME NEW n \in Nat, NEW f, NEW g, \A k \in 1..n : f[k] \in Nat /\ g[k] = f[k]
  PROVE  Sum(n, f) = Sum(n, g)
<1>1. Sum(n, f) <= Sum(n, g) /\ Sum(n, g) <= Sum(n, f) BY SumGrows
<1>2. Sum(n, f) \in Nat /\ Sum(n, g) \in Nat BY SumType
<1> QED BY <1>1, <1>2

\* The last of what is summed.
LEMMA SumLast ==
  ASSUME NEW n \in Nat, NEW f, \A k \in 1..(n + 1) : f[k] \in Nat
  PROVE  Sum(n + 1, f) = Sum(n, f) + f[n + 1]
<1> DEFINE m == n + 1
<1>1. m \in Nat /\ n \in 0..m /\ m \in 1..m /\ m - 1 = n OBVIOUS
<1>2. PICK u : Summed(u, n, f)
  BY SumSteps
<1>3. PICK v : Summed(v, m, f)
  <2> HIDE DEF m
  <2> QED BY <1>1, SumSteps DEF m
<1> DEFINE Same == {k \in 0..n : u[k] = v[k]}
<1>4. 0 \in Same BY <1>2, <1>3 DEF Summed
<1>5. ASSUME NEW k \in 1..n, k - 1 \in Same PROVE k \in Same
  <2>1. u[k - 1] = v[k - 1] BY <1>5
  <2>2. u[k] = u[k - 1] + f[k] /\ v[k] = v[k - 1] + f[k] BY <1>2, <1>3 DEF Summed
  <2> QED BY <2>1, <2>2
<1>6. 0..n \subseteq Same
  <2> HIDE DEF Same
  <2> QED BY <1>4, <1>5, UpTo
<1>7. u[n] = v[n] BY <1>6
<1>8. v[m] = v[n] + f[m] BY <1>1, <1>3 DEF Summed
<1> QED BY <1>2, <1>3, <1>7, <1>8 DEF Summed

-----------------------------------------------------------------------------------
\* Sequences.

LEMMA TopType ==
  ASSUME NEW T, NEW s \in Seq(T), NEW n \in Nat
  PROVE  /\ Top(s, n) \in Seq(T)
         /\ Len(Top(s, n)) = Least(n, Len(s))
         /\ \A i \in 1..Len(Top(s, n)) : i <= Len(s) /\ Top(s, n)[i] = s[i]
<1>1. Len(s) \in Nat /\ DOMAIN s = 1..Len(s) BY LenProperties
<1> DEFINE m == Least(n, Len(s))
<1>2. m \in Nat /\ m <= Len(s) BY <1>1 DEF Least
<1>3. \A i \in 1..m : s[i] \in T BY <1>1, <1>2, ElementOfSeq
<1> HIDE DEF m
<1>4. /\ SubSeq(s, 1, m) \in Seq(T)
      /\ Len(SubSeq(s, 1, m)) = IF 1 <= m THEN m - 1 + 1 ELSE 0
      /\ \A i \in 1..(m - 1 + 1) : SubSeq(s, 1, m)[i] = s[1 + i - 1]
  BY <1>2, <1>3, SubSeqProperties
<1>5. Len(SubSeq(s, 1, m)) = m BY <1>2, <1>4
<1>6. \A i \in 1..m : SubSeq(s, 1, m)[i] = s[i]
  <2> SUFFICES ASSUME NEW i \in 1..m PROVE SubSeq(s, 1, m)[i] = s[i] OBVIOUS
  <2>1. i \in 1..(m - 1 + 1) /\ 1 + i - 1 = i BY <1>2
  <2> QED BY <1>4, <2>1
<1>7. Top(s, n) = SubSeq(s, 1, m) BY DEF Top, m
<1>8. \A i \in 1..m : i <= Len(s) BY <1>1, <1>2
<1> QED BY <1>4, <1>5, <1>6, <1>7, <1>8 DEF m

LEMMA OnlyType ==
  ASSUME NEW T, NEW s \in Seq(T), NEW S
  PROVE  Only(s, S) \in Seq(T \cap S)
<1> DEFINE N == Len(s)
           next(q, n) == IF s[n] \in S THEN Append(q, s[n]) ELSE q
           Upto(g) == g = [n \in 0..N |-> IF n = 0 THEN <<>> ELSE next(g[n - 1], n)]
           u == CHOOSE g : Upto(g)
           step == [n \in 1..N |-> [q \in Seq(T \cap S) |-> next(q, n)]]
           Fine == {n \in 0..N : u[n] \in Seq(T \cap S)}
<1>1. N \in Nat /\ \A n \in 1..N : s[n] \in T BY LenProperties, ElementOfSeq
<1>2. Only(s, S) = u[N] BY Zenon DEF Only
<1>3. \A n \in 1..N : \A q \in Seq(T \cap S) : next(q, n) \in Seq(T \cap S)
  BY <1>1, AppendProperties
<1>4. <<>> \in Seq(T \cap S) BY EmptySeq
<1> HIDE DEF next
<1>5. \E g : Upto(g)
  <2>1. step \in [1..N -> [Seq(T \cap S) -> Seq(T \cap S)]] BY <1>3
  <2>2. PICK h : Iterated(h, N, Seq(T \cap S), <<>>, step)
    <3> HIDE DEF step, N
    <3> QED BY <1>1, <1>4, <2>1, Iterates, Zenon
  <2>3. \A n \in 1..N : h[n] = next(h[n - 1], n)
    <3> SUFFICES ASSUME NEW n \in 1..N PROVE h[n] = next(h[n - 1], n) OBVIOUS
    <3>1. n - 1 \in 0..N BY <1>1
    <3> QED BY <2>2, <3>1 DEF Iterated
  <2>4. Upto(h)
    <3> HIDE DEF N
    <3> QED BY <2>2, <2>3 DEF Iterated
  <2> QED BY <2>4
<1>6. Upto(u) BY <1>5, Zenon
<1> HIDE DEF u, N
<1>7. u[0] = <<>> /\ \A n \in 1..N : u[n] = next(u[n - 1], n) BY <1>1, <1>6
<1>8. 0 \in Fine
  <2>1. 0 \in 0..N BY <1>1
  <2> QED BY <1>4, <1>7, <2>1, Zenon
<1>9. ASSUME NEW n \in 1..N, n - 1 \in Fine PROVE n \in Fine
  <2>1. u[n - 1] \in Seq(T \cap S) BY <1>9
  <2>2. u[n] \in Seq(T \cap S) BY <1>3, <1>7, <2>1
  <2> QED BY <1>1, <2>2
<1>10. 0..N \subseteq Fine
  <2> HIDE DEF Fine
  <2> QED BY <1>1, <1>8, <1>9, UpTo
<1>11. u[N] \in Seq(T \cap S) BY <1>1, <1>10
<1> QED BY <1>2, <1>11

LEMMA DistinctType ==
  ASSUME NEW T, NEW s \in Seq(T)
  PROVE  Distinct(s) \in Seq(T) /\ IsInjective(Distinct(s)) /\ Len(Distinct(s)) <= Len(s)
<1> DEFINE N == Len(s)
           next(q, n) == IF s[n] \in ToSet(q) THEN q ELSE Append(q, s[n])
           Upto(g) == g = [n \in 0..N |-> IF n = 0 THEN <<>> ELSE next(g[n - 1], n)]
           u == CHOOSE g : Upto(g)
           step == [n \in 1..N |-> [q \in Seq(T) |-> next(q, n)]]
           Fine == {n \in 0..N : u[n] \in Seq(T) /\ IsInjective(u[n]) /\ Len(u[n]) <= n}
<1>1. N \in Nat /\ \A n \in 1..N : s[n] \in T BY LenProperties, ElementOfSeq
<1>2. Distinct(s) = u[N] BY Zenon DEF Distinct
<1>3. ASSUME NEW n \in 1..N, NEW q \in Seq(T)
      PROVE  /\ next(q, n) \in Seq(T) /\ Len(next(q, n)) <= Len(q) + 1
             /\ IsInjective(q) => IsInjective(next(q, n))
  <2>1. CASE s[n] \in ToSet(q) BY <2>1, LenProperties
  <2>2. CASE s[n] \notin ToSet(q)
    <3> DEFINE r == Append(q, s[n])
    <3>1. /\ r \in Seq(T) /\ Len(r) = Len(q) + 1 /\ Len(q) \in Nat
          /\ \A i \in 1..Len(q) : r[i] = q[i]
          /\ r[Len(q) + 1] = s[n]
          /\ DOMAIN q = 1..Len(q) /\ DOMAIN r = 1..Len(r)
      BY <1>1, AppendProperties, LenProperties
    <3>2. \A i \in 1..Len(q) : q[i] # s[n] BY <2>2, <3>1 DEF ToSet
    <3> HIDE DEF r
    <3>3. IsInjective(q) => IsInjective(r)
      <4> SUFFICES ASSUME IsInjective(q), NEW i \in 1..Len(r), NEW j \in 1..Len(r), r[i] = r[j]
                   PROVE  i = j
        BY <3>1 DEF IsInjective
      <4>1. CASE i \in 1..Len(q) /\ j \in 1..Len(q) BY <3>1, <4>1 DEF IsInjective
      <4>2. CASE i \in 1..Len(q) /\ j = Len(q) + 1 BY <3>1, <3>2, <4>2
      <4>3. CASE i = Len(q) + 1 /\ j \in 1..Len(q) BY <3>1, <3>2, <4>3
      <4>4. CASE i = Len(q) + 1 /\ j = Len(q) + 1 BY <4>4
      <4> QED BY <3>1, <4>1, <4>2, <4>3, <4>4
    <3>4. next(q, n) = r BY <2>2 DEF r
    <3> HIDE DEF next
    <3> QED BY <3>1, <3>3, <3>4
  <2> QED BY <2>1, <2>2
<1>4. <<>> \in Seq(T) /\ IsInjective(<<>>) /\ Len(<<>>) <= 0 BY EmptySeq DEF IsInjective
<1> HIDE DEF next
<1>5. \E g : Upto(g)
  <2>1. step \in [1..N -> [Seq(T) -> Seq(T)]] BY <1>3
  <2>2. PICK h : Iterated(h, N, Seq(T), <<>>, step)
    <3> HIDE DEF step, N
    <3> QED BY <1>1, <1>4, <2>1, Iterates, Zenon
  <2>3. \A n \in 1..N : h[n] = next(h[n - 1], n)
    <3> SUFFICES ASSUME NEW n \in 1..N PROVE h[n] = next(h[n - 1], n) OBVIOUS
    <3>1. n - 1 \in 0..N BY <1>1
    <3> QED BY <2>2, <3>1 DEF Iterated
  <2>4. Upto(h)
    <3> HIDE DEF N
    <3> QED BY <2>2, <2>3 DEF Iterated
  <2> QED BY <2>4
<1>6. Upto(u) BY <1>5, Zenon
<1> HIDE DEF u, N
<1>7. u[0] = <<>> /\ \A n \in 1..N : u[n] = next(u[n - 1], n) BY <1>1, <1>6
<1>8. 0 \in Fine
  <2>1. 0 \in 0..N BY <1>1
  <2> QED BY <1>4, <1>7, <2>1, Zenon
<1>9. ASSUME NEW n \in 1..N, n - 1 \in Fine PROVE n \in Fine
  <2>1. u[n - 1] \in Seq(T) /\ IsInjective(u[n - 1]) /\ Len(u[n - 1]) <= n - 1 BY <1>9
  <2>2. u[n] \in Seq(T) /\ IsInjective(u[n]) /\ Len(u[n]) <= Len(u[n - 1]) + 1
    BY <1>3, <1>7, <2>1
  <2>3. Len(u[n]) \in Nat /\ Len(u[n - 1]) \in Nat BY <2>1, <2>2, LenProperties
  <2>4. Len(u[n]) <= n BY <2>1, <2>2, <2>3
  <2> QED BY <1>1, <2>2, <2>4
<1>10. 0..N \subseteq Fine
  <2> HIDE DEF Fine
  <2> QED BY <1>1, <1>8, <1>9, UpTo
<1>11. u[N] \in Seq(T) /\ IsInjective(u[N]) /\ Len(u[N]) <= N BY <1>1, <1>10
<1> QED BY <1>2, <1>11 DEF N

LEMMA FlattenType ==
  ASSUME NEW T, NEW ss \in Seq(Seq(T))
  PROVE  FlattenSeq(ss) \in Seq(T)
<1> DEFINE N == Len(ss)
           Upto(g) == g = [i \in 1..N |-> IF i = 1 THEN ss[i] ELSE g[i - 1] \o ss[i]]
           u == CHOOSE g : Upto(g)
           step == [n \in 1..N |-> [q \in Seq(T) |-> q \o ss[n]]]
           Fine == {n \in 0..N : n = 0 \/ u[n] \in Seq(T)}
<1>1. N \in Nat /\ \A n \in 1..N : ss[n] \in Seq(T) BY LenProperties, ElementOfSeq
<1>2. CASE N = 0
  <2>1. ss = <<>> BY <1>2, EmptySeq
  <2> QED BY <1>2, <2>1, EmptySeq DEF FlattenSeq
<1>3. CASE N # 0
  <2>1. FlattenSeq(ss) = u[N] BY <1>3, Zenon DEF FlattenSeq
  <2>2. \E g : Upto(g)
    <3>1. <<>> \in Seq(T) BY EmptySeq
    <3>2. \A n \in 1..N : \A q \in Seq(T) : q \o ss[n] \in Seq(T) BY <1>1, ConcatProperties
    <3>3. step \in [1..N -> [Seq(T) -> Seq(T)]] BY <3>2
    <3>4. PICK h : Iterated(h, N, Seq(T), <<>>, step)
      <4> HIDE DEF step, N
      <4> QED BY <1>1, <3>1, <3>3, Iterates, Zenon
    <3>5. \A n \in 1..N : h[n] = h[n - 1] \o ss[n]
      <4> SUFFICES ASSUME NEW n \in 1..N PROVE h[n] = h[n - 1] \o ss[n] OBVIOUS
      <4>1. h[n - 1] \in Seq(T)
        <5>1. h \in [0..N -> Seq(T)] BY <3>4 DEF Iterated
        <5>2. n - 1 \in 0..N BY <1>1
        <5> HIDE DEF N
        <5> QED BY <5>1, <5>2
      <4> QED BY <3>4, <4>1 DEF Iterated
    <3>6. 1 \in 1..N /\ 1 - 1 = 0 BY <1>1, <1>3
    <3>7. h[1] = ss[1]
      <4>1. h[1] = h[0] \o ss[1] BY <3>5, <3>6
      <4>2. h[0] = <<>> BY <3>4 DEF Iterated
      <4> QED BY <1>1, <3>6, <4>1, <4>2, ConcatEmptySeq
    <3> DEFINE g == [n \in 1..N |-> h[n]]
    <3>8. Upto(g)
      <4> SUFFICES ASSUME NEW n \in 1..N
                   PROVE  g[n] = IF n = 1 THEN ss[n] ELSE g[n - 1] \o ss[n]
        OBVIOUS
      <4>1. n # 1 => n - 1 \in 1..N BY <1>1
      <4> QED BY <3>5, <3>7, <4>1
    <3> QED BY <3>8
  <2>3. Upto(u) BY <2>2, Zenon
  <2> HIDE DEF u, N
  <2>4. 0 \in Fine BY <1>1
  <2>5. ASSUME NEW n \in 1..N, n - 1 \in Fine PROVE n \in Fine
    <3>1. CASE n = 1 BY <1>1, <2>3, <3>1
    <3>2. CASE n # 1
      <4>1. u[n - 1] \in Seq(T) BY <2>5, <3>2
      <4>2. u[n] = u[n - 1] \o ss[n] BY <2>3, <3>2
      <4>3. u[n] \in Seq(T) BY <1>1, <4>1, <4>2, ConcatProperties
      <4> QED BY <1>1, <4>3
    <3> QED BY <3>1, <3>2
  <2>6. 0..N \subseteq Fine
    <3> HIDE DEF Fine
    <3> QED BY <1>1, <2>4, <2>5, UpTo
  <2>7. u[N] \in Seq(T) BY <1>1, <1>3, <2>6
  <2> QED BY <2>1, <2>7
<1> QED BY <1>2, <1>3

\* The elements of a sequence.
LEMMA Elements ==
  ASSUME NEW T, NEW s \in Seq(T)
  PROVE  /\ ToSet(s) = {s[i] : i \in 1..Len(s)} /\ ToSet(s) \subseteq T
         /\ IsFiniteSet(ToSet(s)) /\ s \in Seq(ToSet(s))
<1>1. Len(s) \in Nat /\ DOMAIN s = 1..Len(s) /\ s \in [1..Len(s) -> T] BY LenProperties
<1>2. ToSet(s) = {s[i] : i \in 1..Len(s)} /\ ToSet(s) \subseteq T BY <1>1 DEF ToSet
<1>3. IsFiniteSet(ToSet(s))
  <2>1. s \in [1..Len(s) -> ToSet(s)] BY <1>1, <1>2
  <2>2. s \in Surjection(1..Len(s), ToSet(s)) BY <1>2, <2>1 DEF Surjection
  <2>3. IsFiniteSet(1..Len(s)) BY <1>1, FS_Interval
  <2> QED BY <2>2, <2>3, FS_Surjection
<1>4. s \in Seq(ToSet(s))
  <2>1. s \in [1..Len(s) -> ToSet(s)] BY <1>1, <1>2
  <2> QED BY <1>1, <2>1, SeqDef
<1> QED BY <1>2, <1>3, <1>4

\* The orders of a finite set.
LEMMA Orders ==
  ASSUME NEW S, IsFiniteSet(S), NEW o \in SetToSeqs(S)
  PROVE  /\ o \in Seq(S) /\ IsInjective(o) /\ ToSet(o) = S
         /\ Len(o) = Cardinality(S) /\ DOMAIN o = 1..Len(o)
<1> DEFINE n == Cardinality(S)
<1>1. n \in Nat BY FS_CardinalityType
<1>2. o \in [1..n -> S] /\ \A i, j \in 1..n : i # j => o[i] # o[j] BY DEF SetToSeqs
<1> HIDE DEF n
<1>3. o \in Seq(S) BY <1>1, <1>2, SeqDef
<1>4. DOMAIN o = 1..Len(o) /\ Len(o) \in Nat BY <1>3, LenProperties
<1>5. 1..Len(o) = 1..n BY <1>2, <1>4
<1>6. Len(o) = n
  <2>1. Cardinality(1..Len(o)) = Len(o)
    <3> DEFINE l == Len(o)
    <3>1. l \in Nat BY <1>4
    <3> HIDE DEF l
    <3>2. Cardinality(1..l) = l BY <3>1, FS_Interval
    <3> QED BY <3>2 DEF l
  <2>2. Cardinality(1..n) = n BY <1>1, FS_Interval
  <2> QED BY <1>5, <2>1, <2>2
<1>7. IsInjective(o) BY <1>2 DEF IsInjective
<1>8. ToSet(o) = S
  <2>1. o \in Injection(1..n, S) BY <1>2 DEF Injection, IsInjective
  <2>2. Cardinality(1..n) = n BY <1>1, FS_Interval
  <2>3. o \in Surjection(1..n, S) BY <2>1, <2>2, FS_Injection DEF n
  <2> QED BY <1>2, <2>3 DEF Surjection, ToSet
<1> QED BY <1>3, <1>4, <1>6, <1>7, <1>8 DEF n

-----------------------------------------------------------------------------------
\* Scores.

LEMMA ContributionType ==
  ASSUME NEW k \in Nat
  PROVE  Contribution(k) \in Nat
<1>1. 60 + k \in Nat \ {0} OBVIOUS
<1> QED BY <1>1 DEF Contribution

LEMMA SumOfNothing ==
  ASSUME NEW n \in Nat, NEW f, \A k \in 1..n : f[k] = 0
  PROVE  Sum(n, f) = 0
<1>1. PICK u : Summed(u, n, f) BY SumSteps
<1> DEFINE None == {k \in 0..n : u[k] = 0}
<1>2. 0 \in None BY <1>1 DEF Summed
<1>3. ASSUME NEW k \in 1..n, k - 1 \in None PROVE k \in None
  <2>1. u[k] = u[k - 1] + f[k] BY <1>1 DEF Summed
  <2>2. u[k - 1] = 0 BY <1>3
  <2> QED BY <2>1, <2>2
<1>4. 0..n \subseteq None
  <2> HIDE DEF None
  <2> QED BY <1>2, <1>3, UpTo
<1>5. u[n] = 0 BY <1>4
<1> QED BY <1>1, <1>5 DEF Summed

LEMMA InRankingType ==
  ASSUME NEW t, NEW T, NEW r \in Seq(T)
  PROVE  InRanking(t, r) \in Nat /\ (t \notin ToSet(r) => InRanking(t, r) = 0)
<1> DEFINE f == [k \in 1..Len(r) |-> IF r[k] = t THEN Contribution(k) ELSE 0]
<1>1. Len(r) \in Nat BY LenProperties
<1>2. \A k \in 1..Len(r) : f[k] \in Nat BY <1>1, ContributionType
<1>3. t \notin ToSet(r) => \A k \in 1..Len(r) : f[k] = 0 BY Elements
<1> HIDE DEF f
<1>4. Sum(Len(r), f) \in Nat /\ (t \notin ToSet(r) => Sum(Len(r), f) = 0)
  BY <1>1, <1>2, <1>3, SumType, SumOfNothing
<1> QED BY <1>4 DEF InRanking, f

LEMMA ScoreType ==
  ASSUME NEW t, NEW T, NEW rs \in Seq(Seq(T))
  PROVE  Score(t, rs) \in Nat
<1> DEFINE f == [i \in 1..Len(rs) |-> InRanking(t, rs[i])]
<1>1. Len(rs) \in Nat BY LenProperties
<1>2. \A i \in 1..Len(rs) : rs[i] \in Seq(T) BY ElementOfSeq
<1>3. \A i \in 1..Len(rs) : f[i] \in Nat BY <1>2, InRankingType
<1> HIDE DEF f
<1>4. Sum(Len(rs), f) \in Nat BY <1>1, <1>3, SumType
<1> QED BY <1>4 DEF Score, f

\* Further rankings raise a score, unless they do not know the thought.
Thinned(bs, rs, g, T) ==
  /\ rs \in Seq(Seq(T)) /\ g \in Seq(T) /\ bs \in Seq(Seq(T)) /\ Len(bs) = Len(rs)
  /\ \A i \in 1..Len(rs) : bs[i] = rs[i] \/ bs[i] = <<>>

Raised(t, bs, rs, g) ==
  /\ Score(t, bs) <= Score(t, Append(rs, g))
  /\ t \notin ToSet(g) /\ (\A i \in 1..Len(rs) : bs[i] = rs[i] \/ t \notin ToSet(rs[i]))
       => Score(t, bs) = Score(t, Append(rs, g))

LEMMA ScoreGrows ==
  ASSUME NEW t, NEW T, NEW rs, NEW g, NEW bs, Thinned(bs, rs, g, T)
  PROVE  Raised(t, bs, rs, g)
<1> DEFINE n == Len(rs)
           as == Append(rs, g)
           b == [i \in 1..Len(bs) |-> InRanking(t, bs[i])]
           a == [i \in 1..Len(as) |-> InRanking(t, as[i])]
<1> USE DEF Thinned, Raised
<1>1. /\ n \in Nat /\ as \in Seq(Seq(T)) /\ Len(as) = n + 1
      /\ \A i \in 1..n : as[i] = rs[i]
      /\ as[n + 1] = g
  BY LenProperties, AppendProperties
<1>2. \A i \in 1..n : rs[i] \in Seq(T) /\ bs[i] \in Seq(T)
  BY ElementOfSeq
<1>3. <<>> \in Seq(T) /\ ToSet(<<>>) = {} BY EmptySeq DEF ToSet
<1>4. InRanking(t, <<>>) = 0 BY <1>3, InRankingType
<1> HIDE DEF as
<1>5. /\ \A i \in 1..n : b[i] = InRanking(t, bs[i])
      /\ \A i \in 1..(n + 1) : a[i] = InRanking(t, as[i])
  BY <1>1
<1>6. Score(t, bs) = Sum(n, b) /\ Score(t, as) = Sum(n + 1, a) BY <1>1 DEF Score
<1> HIDE DEF a, b, n
<1>7. /\ \A i \in 1..n : a[i] = InRanking(t, rs[i])
      /\ a[n + 1] = InRanking(t, g)
  <2>1. n + 1 \in 1..(n + 1) /\ \A i \in 1..n : i \in 1..(n + 1) BY <1>1
  <2> QED BY <1>1, <1>5, <2>1, Zenon
<1>8. \A i \in 1..n : a[i] \in Nat /\ b[i] \in Nat /\ b[i] <= a[i]
  <2> SUFFICES ASSUME NEW i \in 1..n PROVE a[i] \in Nat /\ b[i] \in Nat /\ b[i] <= a[i]
    OBVIOUS
  <2>1. a[i] \in Nat /\ b[i] \in Nat BY <1>2, <1>5, <1>7, InRankingType
  <2>2. b[i] = a[i] \/ b[i] = 0 BY <1>4, <1>5, <1>7 DEF n
  <2> QED BY <2>1, <2>2
<1>9. a[n + 1] \in Nat BY <1>7, InRankingType
<1>10. Sum(n + 1, a) = Sum(n, a) + a[n + 1]
  <2>1. \A i \in 1..(n + 1) : i \in 1..n \/ i = n + 1 BY <1>1
  <2> QED BY <1>1, <1>8, <1>9, <2>1, SumLast
<1>11. Sum(n, b) <= Sum(n, a) /\ Sum(n, a) \in Nat /\ Sum(n, b) \in Nat
  BY <1>1, <1>8, SumGrows, SumType
<1>12. ASSUME t \notin ToSet(g), \A i \in 1..n : bs[i] = rs[i] \/ t \notin ToSet(rs[i])
       PROVE  Sum(n, b) = Sum(n + 1, a)
  <2>1. a[n + 1] = 0 BY <1>7, <1>12, InRankingType
  <2>2. \A i \in 1..n : t \notin ToSet(rs[i]) => a[i] = 0 BY <1>2, <1>7, InRankingType
  <2>3. \A i \in 1..n : a[i] = b[i]
    <3> SUFFICES ASSUME NEW i \in 1..n PROVE a[i] = b[i] OBVIOUS
    <3>1. CASE bs[i] = rs[i] BY <1>5, <1>7, <3>1
    <3>2. CASE t \notin ToSet(rs[i])
      <4>1. a[i] = 0 BY <2>2, <3>2
      <4> QED BY <1>8, <4>1
    <3> QED BY <1>12, <3>1, <3>2
  <2>4. Sum(n, a) = Sum(n, b) BY <1>1, <1>8, <2>3, SumSame
  <2> QED BY <1>10, <1>11, <2>1, <2>4
<1>13. Score(t, bs) <= Score(t, as) BY <1>6, <1>9, <1>10, <1>11
<1> QED BY <1>6, <1>12, <1>13 DEF as, n

-----------------------------------------------------------------------------------
\* What a request may show: visible when it began.
Shown == {t \in Thoughts : t \notin before \cup Marked /\ t \in InScope}

LegSet ==
  [rows: {"dense", "weights", "words", "domains", "facets", "chunk dense", "chunk weights",
          "chunk words", "context dense", "context words", "pairs of words"},
   needs: BOOLEAN, hard: BOOLEAN, adds: {"none", "sparse", "context"}]

LEMMA LegsType == Legs \in Seq(LegSet)
<1>1. \A b, s : s \in Seq(LegSet) => If(b, s) \in Seq(LegSet)
  BY EmptySeq DEF If
<1>2. \A x \in LegSet : <<x>> \in Seq(LegSet) OBVIOUS
<1>3. \A x, y \in LegSet : <<x, y>> \in Seq(LegSet) OBVIOUS
<1>4. \A s, q \in Seq(LegSet) : s \o q \in Seq(LegSet) BY ConcatProperties
<1>5. /\ L("dense", TRUE, FALSE, "none") \in LegSet
      /\ L("chunk dense", TRUE, FALSE, "none") \in LegSet
      /\ L("context dense", TRUE, FALSE, "context") \in LegSet
      /\ L("weights", FALSE, TRUE, "sparse") \in LegSet
      /\ L("chunk weights", FALSE, TRUE, "sparse") \in LegSet
      /\ L("words", FALSE, FALSE, "none") \in LegSet
      /\ L("chunk words", FALSE, FALSE, "none") \in LegSet
      /\ L("context words", FALSE, FALSE, "context") \in LegSet
      /\ L("pairs of words", FALSE, FALSE, "none") \in LegSet
      /\ L("domains", FALSE, FALSE, "none") \in LegSet
      /\ L("facets", FALSE, FALSE, "none") \in LegSet
      /\ L("dense", FALSE, FALSE, "none") \in LegSet
      /\ L("chunk dense", FALSE, FALSE, "none") \in LegSet
  BY DEF L, LegSet
<1> HIDE DEF LegSet
<1>6. QueryLegs \in Seq(LegSet)
  <2> DEFINE chunks == "chunks" \in flags
             contexts == chunks /\ "contexts" \in flags
             q1 == <<L("dense", TRUE, FALSE, "none")>>
             q2 == If(chunks, <<L("chunk dense", TRUE, FALSE, "none")>>)
             q3 == If(contexts, <<L("context dense", TRUE, FALSE, "context")>>)
             q4 == If("sparse" \in flags,
                     <<L("weights", FALSE, TRUE, "sparse"), L("chunk weights", FALSE, TRUE, "sparse")>>)
             q5 == <<L("words", FALSE, FALSE, "none")>>
             q6 == If(chunks, <<L("chunk words", FALSE, FALSE, "none")>>)
             q7 == If(contexts, <<L("context words", FALSE, FALSE, "context")>>)
             q8 == If(chunks, <<L("pairs of words", FALSE, FALSE, "none")>>)
             q9 == If("routing" \in flags,
                     <<L("domains", FALSE, FALSE, "none"), L("facets", FALSE, FALSE, "none")>>)
  <2>1. q1 \in Seq(LegSet) /\ q5 \in Seq(LegSet) BY <1>2, <1>5
  <2>2. q2 \in Seq(LegSet) /\ q6 \in Seq(LegSet) /\ q8 \in Seq(LegSet) BY <1>1, <1>2, <1>5
  <2>3. q3 \in Seq(LegSet) /\ q7 \in Seq(LegSet) BY <1>1, <1>2, <1>5
  <2>4. q4 \in Seq(LegSet) /\ q9 \in Seq(LegSet) BY <1>1, <1>3, <1>5
  <2>5. QueryLegs = q1 \o q2 \o q3 \o q4 \o q5 \o q6 \o q7 \o q8 \o q9 BY DEF QueryLegs
  <2> HIDE DEF q1, q2, q3, q4, q5, q6, q7, q8, q9
  <2>6. q1 \o q2 \o q3 \o q4 \o q5 \in Seq(LegSet) BY <1>4, <2>1, <2>2, <2>3, <2>4, Zenon
  <2> QED BY <1>4, <2>2, <2>3, <2>4, <2>5, <2>6, Zenon
<1>7. ExpansionLegs \in Seq(LegSet)
  <2> DEFINE chunks == "chunks" \in flags
             q1 == <<L("dense", FALSE, FALSE, "none")>>
             q2 == If(chunks, <<L("chunk dense", FALSE, FALSE, "none")>>)
             q3 == <<L("words", FALSE, FALSE, "none")>>
             q4 == If(chunks, <<L("chunk words", FALSE, FALSE, "none")>>)
  <2>1. q1 \in Seq(LegSet) /\ q3 \in Seq(LegSet) BY <1>2, <1>5
  <2>2. q2 \in Seq(LegSet) /\ q4 \in Seq(LegSet) BY <1>1, <1>2, <1>5
  <2>3. ExpansionLegs = q1 \o q2 \o q3 \o q4 BY DEF ExpansionLegs
  <2> HIDE DEF q1, q2, q3, q4
  <2> QED BY <1>4, <2>1, <2>2, <2>3, Zenon
<1>8. If("expansion" \in flags, ExpansionLegs) \in Seq(LegSet)
  BY <1>7, EmptySeq DEF If
<1> QED BY <1>4, <1>6, <1>8, Zenon DEF Legs

LEMMA RankedType ==
  ASSUME NEW S, NEW n, NEW r \in Ranked(S, n)
  PROVE  r \in Seq(S) /\ IsInjective(r)
<1>1. PICK m \in 0..n : r \in [1..m -> S] BY DEF Ranked, SeqOf
<1>2. m \in Nat OBVIOUS
<1> QED BY <1>1, <1>2, SeqDef DEF Ranked

LEMMA TopInjective ==
  ASSUME NEW T, NEW s \in Seq(T), IsInjective(s), NEW n \in Nat
  PROVE  IsInjective(Top(s, n))
<1>1. DOMAIN Top(s, n) = 1..Len(Top(s, n)) BY TopType, LenProperties
<1>2. DOMAIN s = 1..Len(s) /\ Len(s) \in Nat BY LenProperties
<1>3. \A i \in 1..Len(Top(s, n)) : i \in 1..Len(s) /\ Top(s, n)[i] = s[i]
  BY <1>2, TopType
<1> QED BY <1>1, <1>2, <1>3 DEF IsInjective

\* The thoughts that rankings find are finitely many.
LEMMA FoundType ==
  ASSUME NEW T \in SUBSET Thoughts, NEW rs \in Seq(Seq(T))
  PROVE  Found(rs) \subseteq T /\ IsFiniteSet(Found(rs))
<1>1. DOMAIN rs = 1..Len(rs) /\ Len(rs) \in Nat BY LenProperties
<1>2. \A i \in 1..Len(rs) : ToSet(rs[i]) \subseteq T /\ IsFiniteSet(ToSet(rs[i]))
  BY Elements, ElementOfSeq
<1>3. Found(rs) \subseteq T BY <1>1, <1>2 DEF Found
<1>4. Found(rs) \subseteq UNION {ToSet(rs[i]) : i \in 1..Len(rs)} BY <1>1 DEF Found
<1>5. IsFiniteSet(UNION {ToSet(rs[i]) : i \in 1..Len(rs)})
  <2> DEFINE sets == {ToSet(rs[i]) : i \in 1..Len(rs)}
  <2>1. IsFiniteSet(sets)
    <3> DEFINE f == [i \in 1..Len(rs) |-> ToSet(rs[i])]
    <3>1. f \in Surjection(1..Len(rs), sets) BY DEF Surjection
    <3>2. IsFiniteSet(1..Len(rs)) BY <1>1, FS_Interval
    <3> HIDE DEF f, sets
    <3> QED BY <3>1, <3>2, FS_Surjection
  <2>2. \A S \in sets : IsFiniteSet(S) BY <1>2
  <2> QED BY <2>1, <2>2, FS_UNION
<1> QED BY <1>3, <1>4, <1>5, FS_Subset

LEMMA SeqWiden ==
  ASSUME NEW S, NEW T, S \subseteq T, NEW s \in Seq(S)
  PROVE  s \in Seq(T)
<1>1. Len(s) \in Nat /\ s \in [1..Len(s) -> S] BY LenProperties
<1>2. s \in [1..Len(s) -> T] BY <1>1
<1> QED BY <1>1, <1>2, SeqDef

\* A leg that reads thoughts.
LEMMA ThoughtsShown ==
  ASSUME before \subseteq retracted, NEW S \in SUBSET Thoughts, NEW r \in OfThoughts(S)
  PROVE  r \in Seq(Shown) /\ IsInjective(r)
<1> DEFINE V == {t \in S : ThoughtVisible(t)}
<1>1. V \subseteq Shown BY DEF ThoughtVisible, Shown
<1>2. r \in Ranked(V, TopK) BY DEF OfThoughts
<1> HIDE DEF V
<1>3. r \in Seq(V) /\ IsInjective(r) BY <1>2, RankedType
<1> QED BY <1>1, <1>3, SeqWiden

\* A leg that reads chunks answers with the thoughts that they are parts of.
LEMMA ChunksShown ==
  ASSUME before \subseteq retracted, NEW S \in SUBSET Chunks, NEW p \in OfChunks(S)
  PROVE  p \in Seq(Shown) /\ IsInjective(p)
<1> DEFINE V == {c \in S : ChunkVisible(c)}
<1>1. TopK \in Nat /\ Spread \in Nat /\ Spread * TopK \in Nat
  <2>1. TopK \in Nat /\ Spread \in Nat BY SearchAssumption
  <2> QED BY <2>1
<1>2. \A c \in V : Parent[c] \in Shown
  BY SearchAssumption DEF ChunkVisible, ThoughtVisible, Shown
<1>3. PICK r \in Ranked(V, Cardinality(S)) : p = Parents(r) BY DEF OfChunks
<1> DEFINE candidates == Top(r, Spread * TopK)
           parents == [i \in DOMAIN candidates |-> Parent[candidates[i]]]
<1> HIDE DEF V
<1>4. r \in Seq(V) BY <1>3, RankedType
<1>5. candidates \in Seq(V) BY <1>1, <1>4, TopType
<1>6. parents \in Seq(Shown)
  <2> HIDE DEF candidates
  <2>1. DOMAIN candidates = 1..Len(candidates) /\ Len(candidates) \in Nat
    BY <1>5, LenProperties
  <2>2. \A i \in 1..Len(candidates) : candidates[i] \in V BY <1>5, ElementOfSeq
  <2>3. parents \in [1..Len(candidates) -> Shown] BY <1>2, <2>1, <2>2
  <2> QED BY <2>1, <2>3, SeqDef
<1>7. p = Top(Distinct(parents), TopK) BY <1>3, Zenon DEF Parents
<1> HIDE DEF parents
<1>8. Distinct(parents) \in Seq(Shown) /\ IsInjective(Distinct(parents))
  BY <1>6, DistinctType
<1> QED BY <1>1, <1>7, <1>8, TopType, TopInjective

\* The orders of what rankings find.
LEMMA FusedType ==
  ASSUME NEW T \in SUBSET Thoughts, NEW rs \in Seq(Seq(T)), NEW o \in Fused(rs)
  PROVE  o \in Seq(T) /\ IsInjective(o)
<1>1. Found(rs) \subseteq T /\ IsFiniteSet(Found(rs)) BY FoundType
<1>2. o \in SetToSeqs(Found(rs)) BY DEF Fused, SortedBy
<1>3. o \in Seq(Found(rs)) /\ IsInjective(o) BY <1>1, <1>2, Orders
<1> QED BY <1>1, <1>3, SeqWiden

LEMMA PairsShown ==
  ASSUME before \subseteq retracted, NEW p \in PairAnswers
  PROVE  p \in Seq(Shown) /\ IsInjective(p)
<1>1. PICK r \in ChunkWordAnswers, q \in ChunkWordAnswers :
        p \in {Top(o, TopK) : o \in Fused(<<r, q>>)}
  <2> DEFINE of(r, q) == {Top(o, TopK) : o \in Fused(<<r, q>>)}
  <2>1. PairAnswers = UNION {of(r, q) : r, q \in ChunkWordAnswers} BY DEF PairAnswers
  <2> HIDE DEF of
  <2>2. \E r \in ChunkWordAnswers, q \in ChunkWordAnswers : p \in of(r, q) BY <2>1
  <2> QED BY <2>2 DEF of
<1>2. Match["chunk words"] \subseteq Chunks BY SearchAssumption DEF ChunkKinds
<1>3. r \in Seq(Shown) /\ q \in Seq(Shown) BY <1>2, ChunksShown DEF ChunkWordAnswers
<1>4. <<r, q>> \in Seq(Seq(Shown)) BY <1>3
<1>5. Shown \subseteq Thoughts BY DEF Shown
<1>6. PICK o \in Fused(<<r, q>>) : p = Top(o, TopK) BY <1>1
<1>8. o \in Seq(Shown) /\ IsInjective(o) BY <1>4, <1>5, FusedType
<1>7. TopK \in Nat BY SearchAssumption
<1> QED BY <1>6, <1>7, <1>8, TopType, TopInjective

\* Whatever a leg reads, it answers with thoughts that may be shown, each once.
LEMMA AnswersShown ==
  ASSUME before \subseteq retracted, NEW leg \in LegSet, NEW r \in Answers(leg)
  PROVE  r \in Seq(Shown) /\ IsInjective(r)
<1>1. /\ \A k \in ThoughtKinds : Match[k] \subseteq Thoughts
      /\ \A k \in ChunkKinds : Match[k] \subseteq Chunks
  BY SearchAssumption
<1>2. /\ {"dense", "words", "weights", "aliased", "domain tag", "facets"} \subseteq ThoughtKinds
      /\ {"chunk dense", "chunk words", "chunk weights", "context dense",
          "context words"} \subseteq ChunkKinds
  BY DEF ThoughtKinds, ChunkKinds
<1>3. /\ Match["dense"] \subseteq Thoughts /\ Match["words"] \subseteq Thoughts
      /\ Match["weights"] \subseteq Thoughts /\ Match["facets"] \subseteq Thoughts
      /\ Match["aliased"] \cup Match["domain tag"] \subseteq Thoughts
  BY <1>1, <1>2
<1>4. /\ Match["chunk dense"] \subseteq Chunks /\ Match["chunk words"] \subseteq Chunks
      /\ Match["chunk weights"] \subseteq Chunks
      /\ Match["context dense"] \cap Match["context ready"] \subseteq Chunks
      /\ Match["context words"] \cap Match["context ready"] \subseteq Chunks
  BY <1>1, <1>2
<1>5. \/ leg.rows = "dense" \/ leg.rows = "words" \/ leg.rows = "weights"
      \/ leg.rows = "domains" \/ leg.rows = "facets" \/ leg.rows = "chunk dense"
      \/ leg.rows = "chunk words" \/ leg.rows = "chunk weights"
      \/ leg.rows = "context dense" \/ leg.rows = "context words"
      \/ leg.rows = "pairs of words"
  BY DEF LegSet
<1>6. CASE leg.rows \in {"dense", "weights", "words", "domains", "facets"}
  <2>1. \/ r \in DenseAnswers \/ r \in WeightAnswers \/ r \in WordAnswers
        \/ r \in DomainAnswers \/ r \in FacetAnswers
    BY <1>6 DEF Answers
  <2> QED BY <1>3, <2>1, ThoughtsShown
             DEF DenseAnswers, WeightAnswers, WordAnswers, DomainAnswers, FacetAnswers
<1>7. CASE leg.rows \in {"chunk dense", "chunk weights", "chunk words", "context dense",
                         "context words"}
  <2>1. \/ r \in ChunkDenseAnswers \/ r \in ChunkWeightAnswers \/ r \in ChunkWordAnswers
        \/ r \in ContextDenseAnswers \/ r \in ContextWordAnswers
    BY <1>7 DEF Answers
  <2> QED BY <1>4, <2>1, ChunksShown
             DEF ChunkDenseAnswers, ChunkWeightAnswers, ChunkWordAnswers,
                 ContextDenseAnswers, ContextWordAnswers
<1>8. CASE leg.rows = "pairs of words"
  <2>1. r \in PairAnswers BY <1>8 DEF Answers
  <2> QED BY <2>1, PairsShown
<1> QED BY <1>5, <1>6, <1>7, <1>8

\* So do the neighbours.
LEMMA NeighboursShown ==
  ASSUME before \subseteq retracted, NEW T, NEW o \in Seq(T)
  PROVE  Neighbours(o) \in Seq(Shown) /\ IsInjective(Neighbours(o))
         /\ Len(Neighbours(o)) <= TotalCap
<1> DEFINE links(s) == Touching(s)
           others(s) == [i \in DOMAIN links(s) |-> Other(links(s)[i], s)]
           of(s) == Top(others(s), PerSeedCap)
           seeds == Top(o, SeedCount)
           all == [i \in DOMAIN seeds |-> of(seeds[i])]
<1>1. SeedCount \in Nat /\ PerSeedCap \in Nat /\ TotalCap \in Nat BY SearchAssumption
<1>2. Links \in Seq(Thoughts \X Thoughts) BY SearchAssumption
<1>3. ASSUME NEW s PROVE of(s) \in Seq(Shown)
  <2> DEFINE S == {l \in ToSet(Links) : s \in {l[1], l[2]} /\ ThoughtVisible(Other(l, s))}
             R == (Thoughts \X Thoughts) \cap S
  <2>1. links(s) \in Seq(R) BY <1>2, OnlyType DEF Touching
  <2>2. \A l \in R : Other(l, s) \in Shown BY DEF Other, ThoughtVisible, Shown
  <2> HIDE DEF R, links
  <2>3. DOMAIN links(s) = 1..Len(links(s)) /\ Len(links(s)) \in Nat
        /\ \A i \in 1..Len(links(s)) : links(s)[i] \in R
    BY <2>1, LenProperties, ElementOfSeq
  <2>4. others(s) \in [1..Len(links(s)) -> Shown] BY <2>2, <2>3
  <2>5. others(s) \in Seq(Shown) BY <2>3, <2>4, SeqDef
  <2> HIDE DEF others
  <2> QED BY <1>1, <2>5, TopType
<1>4. Neighbours(o) = Distinct(Top(FlattenSeq(all), TotalCap)) BY Zenon DEF Neighbours
<1> HIDE DEF of
<1>5. all \in Seq(Seq(Shown))
  <2>1. seeds \in Seq(T) BY <1>1, TopType
  <2> HIDE DEF seeds
  <2>2. DOMAIN seeds = 1..Len(seeds) /\ Len(seeds) \in Nat BY <2>1, LenProperties
  <2>3. all \in [1..Len(seeds) -> Seq(Shown)] BY <1>3, <2>2
  <2> QED BY <2>2, <2>3, SeqDef
<1> HIDE DEF all
<1>6. FlattenSeq(all) \in Seq(Shown) BY <1>5, FlattenType
<1> DEFINE flat == FlattenSeq(all)
<1> HIDE DEF flat
<1>7. /\ Top(flat, TotalCap) \in Seq(Shown)
      /\ Len(Top(flat, TotalCap)) = Least(TotalCap, Len(flat))
  BY <1>1, <1>6, TopType DEF flat
<1>8. Len(flat) \in Nat BY <1>6, LenProperties DEF flat
<1>9. Len(Top(flat, TotalCap)) <= TotalCap BY <1>1, <1>7, <1>8 DEF Least
<1> DEFINE top == Top(flat, TotalCap)
<1>10. Neighbours(o) = Distinct(top) BY <1>4 DEF flat
<1>11. /\ Distinct(top) \in Seq(Shown) /\ IsInjective(Distinct(top))
       /\ Len(Distinct(top)) <= Len(top)
  BY <1>7, DistinctType
<1>12. Len(Distinct(top)) \in Nat /\ Len(top) \in Nat BY <1>7, <1>11, LenProperties
<1> HIDE DEF top
<1> QED BY <1>1, <1>9, <1>10, <1>11, <1>12 DEF top

-----------------------------------------------------------------------------------
\* The inductive invariant of a request.

TypedInv ==
  /\ flags \subseteq UNION Flags /\ before \subseteq retracted /\ retracted \subseteq Thoughts
  /\ stage \in {"plan", "embed", "legs", "graph", "rank", "done", "failed"}
  /\ embedded \in BOOLEAN /\ available \in BOOLEAN /\ reranked \in BOOLEAN

\* What was found may be shown, and every leg has answered, or failed, in its turn.
HitsInv ==
  /\ rankings \in Seq(Seq(Shown)) /\ \A i \in DOMAIN rankings : IsInjective(rankings[i])
  /\ graph \in Seq(Shown) /\ Len(graph) <= TotalCap
  /\ stage \in {"plan", "embed"} => rankings = <<>>
  /\ stage = "legs" => Len(rankings) <= Len(Legs)
  /\ stage \in {"graph", "rank", "done"} => Len(rankings) = Len(Legs)

OrderInv ==
  IF stage \in {"rank", "done"} THEN order \in Sorted(Append(rankings, graph)) ELSE order = <<>>

\* The response is the reranker's choice from the pool, or the best in the fused order.
AnswerInv ==
  /\ stage # "done" => pool = {} /\ answer = {} /\ ~reranked
  /\ stage = "done" /\ reranked =>
       /\ pool = ToSet(Top(order, EffectivePool))
       /\ answer \subseteq pool /\ Cardinality(answer) = Least(Limit, Cardinality(pool))
  /\ stage = "done" /\ ~reranked => pool = {} /\ answer = ToSet(Top(order, Limit))

IInv == TypedInv /\ HitsInv /\ OrderInv /\ AnswerInv

\* What depends on a part of the state only.
LEMMA SameLegs == flags' = flags => Legs' = Legs
  BY DEF Legs, QueryLegs, ExpansionLegs

LEMMA SameShown == before' = before => Shown' = Shown
  BY DEF Shown

LEMMA SamePool ==
  flags' = flags /\ rankings' = rankings /\ graph' = graph => EffectivePool' = EffectivePool
  BY SameLegs DEF EffectivePool, Retained

LEMMA StartsRight == Init => IInv
<1> SUFFICES ASSUME Init PROVE IInv OBVIOUS
<1>1. TypedInv BY SearchAssumption DEF Init, TypedInv
<1>2. HitsInv
  <2>1. <<>> \in Seq(Seq(Shown)) /\ <<>> \in Seq(Shown) /\ Len(<<>>) = 0 /\ DOMAIN <<>> = {}
    BY EmptySeq
  <2>2. 0 <= TotalCap BY SearchAssumption
  <2> QED BY <2>1, <2>2 DEF Init, HitsInv
<1>3. OrderInv /\ AnswerInv BY DEF Init, OrderInv, AnswerInv
<1> QED BY <1>1, <1>2, <1>3 DEF IInv

LEMMA PlanKeeps == IInv /\ Plan => IInv'
<1> SUFFICES ASSUME IInv, Plan PROVE IInv' OBVIOUS
<1> USE DEF IInv, Plan, hits, result
<1>1. TypedInv' BY DEF TypedInv
<1>2. HitsInv' BY SameShown DEF HitsInv
<1>3. OrderInv' /\ AnswerInv' BY DEF OrderInv, AnswerInv
<1> QED BY <1>1, <1>2, <1>3

LEMMA EmbedKeeps == IInv /\ Embed => IInv'
<1> SUFFICES ASSUME IInv, Embed PROVE IInv' OBVIOUS
<1> USE DEF IInv, Embed, hits, result
<1>1. TypedInv' BY DEF TypedInv
<1>2. HitsInv'
  <2>1. Legs \in Seq(LegSet) /\ Len(Legs) \in Nat BY LegsType, LenProperties
  <2>2. Len(<<>>) = 0 BY EmptySeq
  <2> QED BY <2>1, <2>2, SameLegs, SameShown DEF HitsInv
<1>3. OrderInv' /\ AnswerInv' BY DEF OrderInv, AnswerInv
<1> QED BY <1>1, <1>2, <1>3

\* A leg has answered with r.
LEMMA AppendKeeps ==
  ASSUME IInv, LegIsNext, NEW r \in Seq(Shown), IsInjective(r),
         rankings' = Append(rankings, r),
         UNCHANGED <<flags, retracted, before, stage, embedded, graph, order, result>>,
         available' \in BOOLEAN
  PROVE  IInv'
<1> USE DEF IInv, LegIsNext, result
<1>1. TypedInv' BY DEF TypedInv
<1>2. HitsInv'
  <2>1. rankings \in Seq(Seq(Shown)) /\ Len(rankings) \in Nat BY LenProperties DEF HitsInv
  <2>2. /\ Append(rankings, r) \in Seq(Seq(Shown)) /\ Len(Append(rankings, r)) = Len(rankings) + 1
        /\ \A i \in 1..Len(rankings) : Append(rankings, r)[i] = rankings[i]
        /\ Append(rankings, r)[Len(rankings) + 1] = r
    BY <2>1, AppendProperties
  <2>3. /\ DOMAIN rankings = 1..Len(rankings)
        /\ DOMAIN Append(rankings, r) = 1..(Len(rankings) + 1)
    BY <2>1, <2>2, LenProperties
  <2>4. \A i \in DOMAIN rankings' : IsInjective(rankings'[i])
    <3> SUFFICES ASSUME NEW i \in 1..(Len(rankings) + 1)
                 PROVE  IsInjective(Append(rankings, r)[i])
      BY <2>3
    <3>1. i \in 1..Len(rankings) \/ i = Len(rankings) + 1 BY <2>1
    <3> QED BY <2>2, <2>3, <3>1 DEF HitsInv
  <2>5. Legs \in Seq(LegSet) /\ Len(Legs) \in Nat BY LegsType, LenProperties
  <2>6. Len(rankings') <= Len(Legs) BY <2>1, <2>2, <2>5
  <2>7. Legs' = Legs /\ Shown' = Shown BY SameLegs, SameShown
  <2> QED BY <2>2, <2>4, <2>6, <2>7 DEF HitsInv
<1>3. OrderInv' /\ AnswerInv' BY DEF OrderInv, AnswerInv
<1> QED BY <1>1, <1>2, <1>3

LEMMA LegAnswersKeeps == IInv /\ LegAnswers => IInv'
<1> SUFFICES ASSUME IInv, LegAnswers PROVE IInv' OBVIOUS
<1>1. Leg \in LegSet
  <2>1. Legs \in Seq(LegSet) /\ Len(Legs) \in Nat BY LegsType, LenProperties
  <2>2. Len(rankings) \in Nat BY LenProperties DEF IInv, HitsInv
  <2>3. Len(rankings) + 1 \in 1..Len(Legs) BY <2>1, <2>2 DEF LegAnswers, LegIsNext
  <2> QED BY <2>1, <2>3, ElementOfSeq DEF Leg
<1>2. PICK r \in Answers(Leg) : rankings' = Append(rankings, r) BY DEF LegAnswers
<1>3. before \subseteq retracted BY DEF IInv, TypedInv
<1>4. r \in Seq(Shown) /\ IsInjective(r) BY <1>1, <1>3, AnswersShown
<1>5. available' \in BOOLEAN
  <2>1. Leg.needs \in BOOLEAN BY <1>1 DEF LegSet
  <2> QED BY <2>1 DEF LegAnswers, IInv, TypedInv
<1> QED BY <1>2, <1>4, <1>5, AppendKeeps DEF LegAnswers

LEMMA LegFailsKeeps == IInv /\ LegFails => IInv'
<1> SUFFICES ASSUME IInv, LegFails PROVE IInv' OBVIOUS
<1>1. <<>> \in Seq(Shown) /\ IsInjective(<<>>) BY EmptySeq DEF IsInjective
<1>2. available' \in BOOLEAN BY DEF LegFails, IInv, TypedInv
<1> QED BY <1>1, <1>2, AppendKeeps DEF LegFails

LEMMA FailsKeeps == IInv /\ stage \notin {"rank", "done"} /\ Fails => IInv'
<1> SUFFICES ASSUME IInv, stage \notin {"rank", "done"}, Fails PROVE IInv' OBVIOUS
<1> USE DEF IInv, Fails, hits, result
<1>1. TypedInv' BY DEF TypedInv
<1>2. HitsInv' BY SameShown DEF HitsInv
<1>3. OrderInv' /\ AnswerInv' BY DEF OrderInv, AnswerInv
<1> QED BY <1>1, <1>2, <1>3

LEMMA LegsDoneKeeps == IInv /\ LegsDone => IInv'
<1> SUFFICES ASSUME IInv, LegsDone PROVE IInv' OBVIOUS
<1> USE DEF IInv, LegsDone, hits, result
<1>1. TypedInv' BY DEF TypedInv
<1>2. HitsInv' BY SameLegs, SameShown DEF HitsInv
<1>3. OrderInv' /\ AnswerInv' BY DEF OrderInv, AnswerInv
<1> QED BY <1>1, <1>2, <1>3

LEMMA RanksKeeps ==
  ASSUME IInv, stage = "graph", NEW g \in Seq(Shown), Len(g) <= TotalCap, Ranks(g)
  PROVE  IInv'
<1> USE DEF IInv, Ranks, result
<1>1. TypedInv' BY DEF TypedInv
<1>2. HitsInv' BY SameLegs, SameShown DEF HitsInv
<1>3. OrderInv'
  <2>1. order' \in Sorted(Append(rankings', graph')) OBVIOUS
  <2>2. Sorted(Append(rankings', graph')) = Sorted(Append(rankings, graph))'
    BY DEF Sorted, SortedBy, Boosted, Score, Found
  <2> QED BY <2>1, <2>2 DEF OrderInv
<1>4. AnswerInv' BY DEF AnswerInv
<1> QED BY <1>1, <1>2, <1>3, <1>4

LEMMA WithoutGraphKeeps == IInv /\ WithoutGraph => IInv'
<1>1. <<>> \in Seq(Shown) /\ Len(<<>>) <= TotalCap BY SearchAssumption, EmptySeq
<1> QED BY <1>1, RanksKeeps DEF WithoutGraph

LEMMA GraphAnswersKeeps == IInv /\ GraphAnswers => IInv'
<1> SUFFICES ASSUME IInv, GraphAnswers PROVE IInv' OBVIOUS
<1>1. PICK o \in Fused(rankings) : Ranks(Neighbours(o)) BY DEF GraphAnswers
<1>2. rankings \in Seq(Seq(Shown)) /\ Shown \subseteq Thoughts BY DEF IInv, HitsInv, Shown
<1>3. o \in Seq(Shown) BY <1>2, FusedType
<1>4. before \subseteq retracted BY DEF IInv, TypedInv
<1>5. Neighbours(o) \in Seq(Shown) /\ Len(Neighbours(o)) <= TotalCap
  BY <1>3, <1>4, NeighboursShown
<1> QED BY <1>1, <1>5, RanksKeeps DEF GraphAnswers

LEMMA RerankKeeps == IInv /\ Rerank => IInv'
<1> SUFFICES ASSUME IInv, Rerank PROVE IInv' OBVIOUS
<1> USE DEF IInv, Rerank, hits
<1>1. TypedInv' BY DEF TypedInv
<1>2. HitsInv' BY SameLegs, SameShown DEF HitsInv
<1>3. OrderInv' BY DEF OrderInv
<1>4. AnswerInv'
  <2>1. EffectivePool' = EffectivePool BY SamePool
  <2> QED BY <2>1 DEF AnswerInv
<1> QED BY <1>1, <1>2, <1>3, <1>4

LEMMA NoRerankKeeps == IInv /\ NoRerank => IInv'
<1> SUFFICES ASSUME IInv, NoRerank PROVE IInv' OBVIOUS
<1> USE DEF IInv, NoRerank, hits
<1>1. TypedInv' BY DEF TypedInv
<1>2. HitsInv' BY SameLegs, SameShown DEF HitsInv
<1>3. OrderInv' BY DEF OrderInv
<1>4. AnswerInv' BY DEF AnswerInv
<1> QED BY <1>1, <1>2, <1>3, <1>4

LEMMA RetractKeeps == ASSUME IInv, NEW t \in MayRetract, Retract(t) PROVE IInv'
<1> USE DEF IInv, Retract, hits, result
<1>1. TypedInv' BY SearchAssumption DEF TypedInv
<1>2. HitsInv' BY SameLegs, SameShown DEF HitsInv
<1>3. OrderInv' /\ AnswerInv' BY DEF OrderInv, AnswerInv
<1> QED BY <1>1, <1>2, <1>3

LEMMA StandsStill == IInv /\ UNCHANGED vars => IInv'
<1> SUFFICES ASSUME IInv, UNCHANGED vars PROVE IInv' OBVIOUS
<1> USE DEF IInv, vars, hits, result
<1>1. TypedInv' BY DEF TypedInv
<1>2. HitsInv' BY SameLegs, SameShown DEF HitsInv
<1>3. OrderInv' BY DEF OrderInv
<1>4. AnswerInv' BY SamePool DEF AnswerInv
<1> QED BY <1>1, <1>2, <1>3, <1>4

LEMMA Inductive == Spec => []IInv
<1>1. IInv /\ [Next]_vars => IInv'
  <2> SUFFICES ASSUME IInv, [Next]_vars PROVE IInv' OBVIOUS
  <2>1. CASE Plan BY <2>1, PlanKeeps
  <2>2. CASE Embed BY <2>2, EmbedKeeps
  <2>3. CASE LegAnswers BY <2>3, LegAnswersKeeps
  <2>4. CASE LegFails BY <2>4, LegFailsKeeps
  <2>5. CASE HardLegFails BY <2>5, FailsKeeps DEF HardLegFails, LegIsNext
  <2>6. CASE LegsDone BY <2>6, LegsDoneKeeps
  <2>7. CASE WithoutGraph BY <2>7, WithoutGraphKeeps
  <2>8. CASE GraphAnswers BY <2>8, GraphAnswersKeeps
  <2>9. CASE GraphFails BY <2>9, FailsKeeps DEF GraphFails
  <2>10. CASE Rerank BY <2>10, RerankKeeps
  <2>11. CASE NoRerank BY <2>11, NoRerankKeeps
  <2>12. CASE \E t \in MayRetract : Retract(t) BY <2>12, RetractKeeps
  <2>13. CASE UNCHANGED vars BY <2>13, StandsStill
  <2> QED BY <2>1, <2>2, <2>3, <2>4, <2>5, <2>6, <2>7, <2>8, <2>9, <2>10, <2>11, <2>12,
             <2>13 DEF Next
<1> QED BY <1>1, StartsRight, PTL DEF Spec

-----------------------------------------------------------------------------------
\* What the invariant says of the hits.

LEMMA Counted ==
  ASSUME NEW T, NEW s \in Seq(T), IsInjective(s)
  PROVE  Cardinality(ToSet(s)) = Len(s)
<1> DEFINE n == Len(s)
<1>1. n \in Nat /\ DOMAIN s = 1..n /\ s \in [1..n -> T] BY LenProperties
<1>2. ToSet(s) = {s[i] : i \in 1..n} BY Elements
<1> HIDE DEF n
<1>3. s \in Bijection(1..n, ToSet(s))
  BY <1>1, <1>2 DEF Bijection, Injection, Surjection, IsInjective
<1>4. IsFiniteSet(1..n) /\ Cardinality(1..n) = n BY <1>1, FS_Interval
<1>5. ExistsBijection(1..n, ToSet(s)) BY <1>3 DEF ExistsBijection
<1>6. Cardinality(ToSet(s)) = Cardinality(1..n) BY <1>4, <1>5, FS_Bijection
<1> QED BY <1>4, <1>6 DEF n

\* The hits are what the legs and the graph found and the tag filter keeps, each once,
\* and no hit is before a better one.
LEMMA OrderType ==
  ASSUME IInv, stage \in {"rank", "done"}
  PROVE  /\ order \in Seq(Shown) /\ IsInjective(order)
         /\ ToSet(order) = Found(Append(rankings, graph)) \cap Matching
         /\ \A i, j \in 1..Len(order) :
              i < j => Boosted(order[i], Append(rankings, graph))
                         >= Boosted(order[j], Append(rankings, graph))
<1> DEFINE as == Append(rankings, graph)
           S == Found(as) \cap Matching
<1>1. as \in Seq(Seq(Shown)) BY AppendProperties DEF IInv, HitsInv
<1>2. Shown \in SUBSET Thoughts BY DEF Shown
<1>3. order \in Sorted(as) BY DEF IInv, OrderInv
<1>4. /\ order \in SetToSeqs(S)
      /\ \A i, j \in DOMAIN order : i < j => Boosted(order[i], as) >= Boosted(order[j], as)
  <2> HIDE DEF as
  <2> QED BY <1>3 DEF Sorted, SortedBy
<1> HIDE DEF as
<1>5. Found(as) \subseteq Shown /\ IsFiniteSet(Found(as)) BY <1>1, <1>2, FoundType
<1>6. S \subseteq Shown /\ IsFiniteSet(S) BY <1>5, FS_Subset
<1> HIDE DEF S
<1>7. /\ order \in Seq(S) /\ IsInjective(order) /\ ToSet(order) = S
      /\ DOMAIN order = 1..Len(order)
  BY <1>4, <1>6, Orders
<1>8. order \in Seq(Shown) BY <1>6, <1>7, SeqWiden
<1> QED BY <1>4, <1>7, <1>8 DEF S, as

\* The sets that the pool is measured by are finite.
LEMMA PoolType ==
  ASSUME IInv
  PROVE  /\ IsFiniteSet(ToSet(graph) \cap Matching)
         /\ \A adds : IsFiniteSet(Retained(adds))
         /\ EffectivePool \in Nat
<1>1. IsFiniteSet(ToSet(graph) \cap Matching)
  BY Elements, FS_Intersection DEF IInv, HitsInv
<1>2. Shown \in SUBSET Thoughts BY DEF Shown
<1>3. rankings \in Seq(Seq(Shown)) BY DEF IInv, HitsInv
<1>4. Found(rankings) \subseteq Shown /\ IsFiniteSet(Found(rankings))
  BY <1>2, <1>3, FoundType
<1>5. ASSUME NEW adds PROVE IsFiniteSet(Retained(adds))
  <2>1. \A i \in DOMAIN rankings : ToSet(rankings[i]) \subseteq Thoughts
    <3>1. DOMAIN rankings = 1..Len(rankings) BY <1>3, LenProperties
    <3>2. \A i \in 1..Len(rankings) : rankings[i] \in Seq(Shown) BY <1>3, ElementOfSeq
    <3> QED BY <1>2, <3>1, <3>2, Elements
  <2>2. Retained(adds) \subseteq Found(rankings) BY <2>1 DEF Retained, Found
  <2> QED BY <1>4, <2>2, FS_Subset
<1>6. EffectivePool \in Nat
  <2>1. CandidatePool \in Nat BY SearchAssumption
  <2>2. /\ Cardinality(ToSet(graph) \cap Matching) \in Nat
        /\ Cardinality(Retained("sparse")) \in Nat
        /\ Cardinality(Retained("context")) \in Nat
    BY <1>1, <1>5, FS_CardinalityType
  <2> QED BY <2>1, <2>2 DEF EffectivePool
<1> QED BY <1>1, <1>5, <1>6

\* What a finished request answers is among its hits, and no more than was asked for.
LEMMA AnswerType ==
  ASSUME IInv, stage = "done"
  PROVE  /\ pool \subseteq ToSet(order) /\ answer \subseteq ToSet(order)
         /\ Cardinality(answer) <= Limit
<1>1. order \in Seq(Shown) /\ IsInjective(order) BY OrderType
<1>2. Limit \in Nat /\ Len(order) \in Nat BY <1>1, SearchAssumption, LenProperties
<1>3. ASSUME NEW n \in Nat
      PROVE  /\ ToSet(Top(order, n)) \subseteq ToSet(order)
             /\ IsFiniteSet(ToSet(Top(order, n)))
             /\ Cardinality(ToSet(Top(order, n))) = Least(n, Len(order))
  <2>1. /\ Top(order, n) \in Seq(Shown) /\ Len(Top(order, n)) = Least(n, Len(order))
        /\ \A i \in 1..Len(Top(order, n)) : i <= Len(order) /\ Top(order, n)[i] = order[i]
    BY <1>1, TopType
  <2>2. IsInjective(Top(order, n)) BY <1>1, TopInjective
  <2>3. Cardinality(ToSet(Top(order, n))) = Len(Top(order, n)) BY <2>1, <2>2, Counted
  <2>4. ToSet(Top(order, n)) \subseteq ToSet(order)
    <3>1. ToSet(order) = {order[i] : i \in 1..Len(order)} BY <1>1, Elements
    <3>2. ToSet(Top(order, n)) = {Top(order, n)[i] : i \in 1..Len(Top(order, n))}
      BY <2>1, Elements
    <3>3. Len(Top(order, n)) \in Nat BY <2>1, LenProperties
    <3> QED BY <1>2, <2>1, <3>1, <3>2, <3>3
  <2> QED BY <2>1, <2>3, <2>4, Elements
<1>4. CASE reranked
  <2>1. /\ pool = ToSet(Top(order, EffectivePool)) /\ answer \subseteq pool
        /\ Cardinality(answer) = Least(Limit, Cardinality(pool))
    BY <1>4 DEF IInv, AnswerInv
  <2>2. pool \subseteq ToSet(order) /\ IsFiniteSet(pool) BY <1>3, <2>1, PoolType
  <2>3. Cardinality(pool) \in Nat BY <2>2, FS_CardinalityType
  <2> QED BY <1>2, <2>1, <2>2, <2>3 DEF Least
<1>5. CASE ~reranked
  <2>1. pool = {} /\ answer = ToSet(Top(order, Limit)) BY <1>5 DEF IInv, AnswerInv
  <2> QED BY <1>2, <1>3, <2>1 DEF Least
<1> QED BY <1>4, <1>5

\* Every state of a request is of the right type: rankings are of thoughts, each once, the
\* hits are matching, pool and answer are among the hits, and the answer is within its limit.
THEOREM RequestTyped == Spec => []TypeOK
<1>1. IInv => TypeOK
  <2> SUFFICES ASSUME IInv PROVE TypeOK OBVIOUS
  <2>1. Shown \subseteq Thoughts BY DEF Shown
  <2>2. rankings \in Seq(Seq(Thoughts)) /\ graph \in Seq(Thoughts)
    <3>1. Seq(Shown) \subseteq Seq(Thoughts) BY <2>1, SeqWiden
    <3> QED BY <2>1, <3>1, SeqWiden DEF IInv, HitsInv
  <2>3. CASE stage \in {"rank", "done"}
    <3>1. IsInjective(order) /\ ToSet(order) \subseteq Matching BY <2>3, OrderType
    <3>2. /\ pool \subseteq ToSet(order) /\ answer \subseteq ToSet(order)
          /\ Cardinality(answer) <= Limit
      <4>1. CASE stage = "done" BY <4>1, AnswerType
      <4>2. CASE stage # "done"
        <5>1. pool = {} /\ answer = {} BY <4>2 DEF IInv, AnswerInv
        <5>2. Cardinality({}) = 0 BY FS_EmptySet
        <5>3. Limit \in Nat BY SearchAssumption
        <5> QED BY <5>1, <5>2, <5>3
      <4> QED BY <4>1, <4>2
    <3> QED BY <2>2, <3>1, <3>2 DEF TypeOK, IInv, TypedInv, HitsInv
  <2>4. CASE stage \notin {"rank", "done"}
    <3>1. order = <<>> /\ pool = {} /\ answer = {} BY <2>4 DEF IInv, OrderInv, AnswerInv
    <3>2. IsInjective(<<>>) /\ ToSet(<<>>) = {} BY DEF IsInjective, ToSet
    <3>3. Cardinality({}) = 0 BY FS_EmptySet
    <3>4. Limit \in Nat BY SearchAssumption
    <3> QED BY <2>2, <3>1, <3>2, <3>3, <3>4 DEF TypeOK, IInv, TypedInv, HitsInv
  <2> QED BY <2>3, <2>4
<1> QED BY <1>1, Inductive, PTL

\* Whatever the legs read, in whatever order they fail or answer and whoever is retracted
\* between their statements, nothing reaches the answer, or a ranking on the way to it,
\* that was retracted when the request began, is marked, or is out of scope.
THEOREM AnswersVisible == Spec => []AnswersWereVisible
<1>1. IInv => AnswersWereVisible
  <2> SUFFICES ASSUME IInv, stage = "done" PROVE AnswersWereVisible
    BY DEF AnswersWereVisible
  <2>1. order \in Seq(Shown) BY OrderType
  <2>2. answer \subseteq Shown BY <2>1, AnswerType, Elements
  <2>3. \A r \in {graph} \cup ToSet(rankings) : ToSet(r) \subseteq Shown
    <3>1. ToSet(rankings) \subseteq Seq(Shown) BY Elements DEF IInv, HitsInv
    <3> QED BY <3>1, Elements DEF IInv, HitsInv
  <2> QED BY <2>2, <2>3 DEF AnswersWereVisible, Shown
<1> QED BY <1>1, Inductive, PTL

-----------------------------------------------------------------------------------
\* Baseline hits and the pool.

\* The legs that add capacity are the ones Retained knows.
LEMMA BaselineType ==
  ASSUME IInv, stage = "done"
  PROVE  /\ Baseline \in Seq(Seq(Shown)) /\ Len(Baseline) = Len(rankings)
         /\ \A i \in 1..Len(rankings) :
              /\ i \in 1..Len(Legs) /\ Legs[i].adds \in {"none", "sparse", "context"}
              /\ Baseline[i] = IF Legs[i].adds = "none" THEN rankings[i] ELSE <<>>
<1>1. /\ rankings \in Seq(Seq(Shown)) /\ Len(rankings) \in Nat
      /\ DOMAIN rankings = 1..Len(rankings)
      /\ \A i \in 1..Len(rankings) : rankings[i] \in Seq(Shown)
  BY LenProperties, ElementOfSeq DEF IInv, HitsInv
<1>2. Len(rankings) = Len(Legs) BY DEF IInv, HitsInv
<1>3. \A i \in 1..Len(Legs) : Legs[i] \in LegSet BY LegsType, ElementOfSeq
<1>4. \A i \in 1..Len(rankings) :
        Baseline[i] = IF Legs[i].adds = "none" THEN rankings[i] ELSE <<>>
  BY <1>1 DEF Baseline
<1>5. Baseline \in [1..Len(rankings) -> Seq(Shown)]
  <2>1. <<>> \in Seq(Shown) BY EmptySeq
  <2> QED BY <1>1, <2>1 DEF Baseline
<1>6. Baseline \in Seq(Seq(Shown))
  <2> DEFINE S == Seq(Shown)  n == Len(rankings)
  <2>1. Baseline \in [1..n -> S] /\ n \in Nat BY <1>1, <1>5
  <2> HIDE DEF S, n
  <2>2. Baseline \in Seq(S) BY <2>1, SeqDef
  <2> QED BY <2>2 DEF S
<1>7. Len(Baseline) = Len(rankings)
  <2>1. DOMAIN Baseline = 1..Len(rankings) BY <1>5
  <2> HIDE DEF Baseline
  <2> QED BY <1>1, <1>6, <2>1, LenProperties
<1> QED BY <1>2, <1>3, <1>4, <1>6, <1>7 DEF LegSet

\* The hits that only legs or links which add capacity found.
Extra == (ToSet(graph) \cap Matching) \cup Retained("sparse") \cup Retained("context")

\* A hit is no worse for the further rankings, and better only if they found it.
LEMMA FurtherRankings ==
  ASSUME IInv, stage = "done", NEW u \in Found(Append(rankings, graph)) \cap Matching
  PROVE  /\ {Boosted(u, Baseline), Boosted(u, Append(rankings, graph))} \subseteq Nat
         /\ Boosted(u, Baseline) <= Boosted(u, Append(rankings, graph))
         /\ u \notin Extra => /\ u \in Found(Baseline)
                              /\ Boosted(u, Baseline) = Boosted(u, Append(rankings, graph))
<1> DEFINE as == Append(rankings, graph)  bs == Baseline
<1>1. /\ rankings \in Seq(Seq(Shown)) /\ Len(rankings) \in Nat
      /\ DOMAIN rankings = 1..Len(rankings) /\ graph \in Seq(Shown)
  BY LenProperties DEF IInv, HitsInv
<1>2. /\ as \in Seq(Seq(Shown)) /\ Len(as) = Len(rankings) + 1
      /\ \A i \in 1..Len(rankings) : as[i] = rankings[i]
      /\ as[Len(rankings) + 1] = graph
  BY <1>1, AppendProperties
<1>3. DOMAIN as = 1..(Len(rankings) + 1) BY <1>2, LenProperties
<1>4. /\ bs \in Seq(Seq(Shown)) /\ Len(bs) = Len(rankings)
      /\ \A i \in 1..Len(rankings) :
           /\ i \in 1..Len(Legs) /\ Legs[i].adds \in {"none", "sparse", "context"}
           /\ bs[i] = IF Legs[i].adds = "none" THEN rankings[i] ELSE <<>>
  BY BaselineType
<1>5. \A i \in 1..Len(rankings) : bs[i] = rankings[i] \/ bs[i] = <<>> BY <1>4
<1>6. DOMAIN bs = 1..Len(rankings) BY <1>4, LenProperties
<1> HIDE DEF as, bs
<1>7. /\ Score(u, bs) <= Score(u, as) /\ Score(u, bs) \in Nat /\ Score(u, as) \in Nat
      /\ u \notin ToSet(graph)
           /\ (\A i \in 1..Len(rankings) : bs[i] = rankings[i] \/ u \notin ToSet(rankings[i]))
           => Score(u, bs) = Score(u, as)
  <2>1. Score(u, bs) \in Nat /\ Score(u, as) \in Nat BY <1>2, <1>4, ScoreType, Zenon
  <2>2. Thinned(bs, rankings, graph, Shown) BY <1>1, <1>4, <1>5 DEF Thinned
  <2>3. Raised(u, bs, rankings, graph) BY <2>2, ScoreGrows
  <2> QED BY <2>1, <2>3, Zenon DEF as, Raised
<1>8. ASSUME u \notin Extra
      PROVE  /\ u \notin ToSet(graph)
             /\ \A i \in 1..Len(rankings) : bs[i] = rankings[i] \/ u \notin ToSet(rankings[i])
  <2>1. u \notin ToSet(graph) BY <1>8 DEF Extra
  <2>2. ASSUME NEW i \in 1..Len(rankings), u \in ToSet(rankings[i]), bs[i] # rankings[i]
        PROVE  FALSE
    <3>1. Legs[i].adds \in {"sparse", "context"} BY <1>4, <2>2
    <3>2. u \in Retained(Legs[i].adds) BY <1>1, <2>2 DEF Retained
    <3> QED BY <1>8, <3>1, <3>2 DEF Extra
  <2> QED BY <2>1, <2>2
<1>9. ASSUME u \notin Extra PROVE u \in Found(bs)
  <2>1. u \in Thoughts BY DEF Found
  <2>2. PICK i \in 1..(Len(rankings) + 1) : u \in ToSet(as[i]) BY <1>3 DEF Found, as
  <2>3. u \notin ToSet(graph) BY <1>8, <1>9
  <2>4. i \in 1..Len(rankings) /\ as[i] = rankings[i]
    <3>1. i \in 1..Len(rankings) \/ i = Len(rankings) + 1 BY <1>1
    <3> QED BY <1>2, <2>2, <2>3, <3>1
  <2>5. u \in ToSet(bs[i]) BY <1>8, <1>9, <2>2, <2>4
  <2> QED BY <1>6, <2>1, <2>4, <2>5 DEF Found
<1> QED BY <1>7, <1>8, <1>9 DEF Boosted, as, bs

\* A baseline hit that was in the pool: all that is now before it is as good as it was
\* already, or adds capacity.
LEMMA PoolHolds ==
  ASSUME IInv, stage = "done", NEW t \in Found(Baseline) \cap Matching,
         Cardinality(AtLeastAsGood(t)) <= CandidatePool
  PROVE  t \in ToSet(Top(order, EffectivePool))
<1> DEFINE as == Append(rankings, graph)  bs == Baseline
<1>1. /\ order \in Seq(Shown) /\ IsInjective(order)
      /\ ToSet(order) = Found(as) \cap Matching
      /\ \A i, j \in 1..Len(order) : i < j => Boosted(order[i], as) >= Boosted(order[j], as)
  BY OrderType
<1>2. Len(order) \in Nat /\ ToSet(order) = {order[i] : i \in 1..Len(order)}
  BY <1>1, LenProperties, Elements
<1>3. Shown \in SUBSET Thoughts BY DEF Shown
<1>4. /\ Found(bs) \subseteq Found(as) /\ IsFiniteSet(Found(bs))
  <2>1. bs \in Seq(Seq(Shown)) /\ Len(bs) = Len(rankings)
    BY BaselineType
  <2>2. \A i \in 1..Len(rankings) : bs[i] = rankings[i] \/ ToSet(bs[i]) = {}
    BY BaselineType DEF ToSet
  <2>3. /\ rankings \in Seq(Seq(Shown)) /\ graph \in Seq(Shown) /\ Len(rankings) \in Nat
    BY LenProperties DEF IInv, HitsInv
  <2>4. /\ as \in Seq(Seq(Shown)) /\ Len(as) = Len(rankings) + 1
        /\ \A i \in 1..Len(rankings) : as[i] = rankings[i]
    BY <2>3, AppendProperties
  <2>5. DOMAIN bs = 1..Len(rankings) /\ DOMAIN as = 1..(Len(rankings) + 1)
    BY <2>1, <2>4, LenProperties
  <2>6. IsFiniteSet(Found(bs)) BY <1>3, <2>1, FoundType
  <2> HIDE DEF as, bs
  <2>7. ASSUME NEW u \in Found(bs) PROVE u \in Found(as)
    <3>1. PICK i \in 1..Len(rankings) : u \in ToSet(bs[i]) BY <2>5 DEF Found
    <3>2. as[i] = rankings[i] /\ bs[i] = rankings[i] BY <2>2, <2>4, <3>1
    <3>3. i \in DOMAIN as BY <2>3, <2>5
    <3> QED BY <3>1, <3>2, <3>3 DEF Found
  <2> QED BY <2>6, <2>7
<1> HIDE DEF as, bs
<1>5. t \in ToSet(order) BY <1>1, <1>4 DEF bs
<1>6. PICK k \in 1..Len(order) : order[k] = t BY <1>2, <1>5
<1> DEFINE better == ToSet(Top(order, k))
<1>7. k \in Nat BY <1>2
<1>8. Cardinality(better) = k
  <2>1. Top(order, k) \in Seq(Shown) /\ Len(Top(order, k)) = Least(k, Len(order))
    BY <1>1, <1>7, TopType
  <2>2. IsInjective(Top(order, k)) BY <1>1, <1>7, TopInjective
  <2>3. Least(k, Len(order)) = k BY <1>2 DEF Least
  <2> QED BY <2>1, <2>2, <2>3, Counted
<1>9. \A u \in better : u \in Found(as) \cap Matching /\ Boosted(u, as) >= Boosted(t, as)
  <2>1. /\ Top(order, k) \in Seq(Shown) /\ Len(Top(order, k)) = Least(k, Len(order))
        /\ \A i \in 1..Len(Top(order, k)) : Top(order, k)[i] = order[i]
    BY <1>1, <1>7, TopType
  <2>2. Least(k, Len(order)) = k BY <1>2 DEF Least
  <2>3. better = {order[i] : i \in 1..k}
    <3>1. better = {Top(order, k)[i] : i \in 1..Len(Top(order, k))} BY <2>1, Elements
    <3> HIDE DEF better
    <3> QED BY <2>1, <2>2, <3>1
  <2>4. ASSUME NEW i \in 1..k
        PROVE  /\ order[i] \in Found(as) \cap Matching
               /\ Boosted(order[i], as) >= Boosted(t, as)
    <3>1. i \in 1..Len(order) BY <1>2
    <3>2. order[i] \in Found(as) \cap Matching BY <1>1, <1>2, <3>1
    <3>3. CASE i = k
      <4>1. Boosted(t, as) \in Nat BY <1>1, <1>5, FurtherRankings DEF as
      <4>2. \A x \in Nat : x >= x OBVIOUS
      <4>3. Boosted(t, as) >= Boosted(t, as) BY <4>1, <4>2, Zenon
      <4> QED BY <1>6, <3>2, <3>3, <4>3, Zenon
    <3>4. CASE i # k
      <4>1. i < k BY <1>7, <3>4
      <4>2. Boosted(order[i], as) >= Boosted(order[k], as) BY <1>1, <3>1, <4>1
      <4> QED BY <1>6, <3>2, <4>2
    <3> QED BY <3>3, <3>4
  <2> HIDE DEF better
  <2> QED BY <2>3, <2>4
<1> HIDE DEF better
<1>10. better \subseteq AtLeastAsGood(t) \cup Extra
  <2> SUFFICES ASSUME NEW u \in better, u \notin Extra PROVE u \in AtLeastAsGood(t)
    OBVIOUS
  <2>1. u \in Found(as) \cap Matching /\ Boosted(u, as) >= Boosted(t, as) BY <1>9
  <2>2. /\ Boosted(u, as) \in Nat /\ u \in Found(bs) /\ Boosted(u, bs) = Boosted(u, as)
    BY <2>1, FurtherRankings DEF as, bs
  <2>3. /\ Boosted(t, as) \in Nat /\ Boosted(t, bs) \in Nat
        /\ Boosted(t, bs) <= Boosted(t, as)
    BY <1>1, <1>5, FurtherRankings DEF as, bs
  <2>4. \A x, y, z \in Nat : x >= y /\ z <= y => x >= z OBVIOUS
  <2>5. Boosted(u, bs) >= Boosted(t, bs) BY <2>1, <2>2, <2>3, <2>4, Zenon
  <2> QED BY <2>1, <2>2, <2>5 DEF AtLeastAsGood, bs
<1>11. k <= EffectivePool
  <2> DEFINE A == AtLeastAsGood(t)  G == ToSet(graph) \cap Matching
             S == Retained("sparse")  C == Retained("context")
  <2>1. IsFiniteSet(G) /\ IsFiniteSet(S) /\ IsFiniteSet(C) BY PoolType
  <2>2. IsFiniteSet(A)
    <3>1. A \subseteq Found(bs) BY DEF AtLeastAsGood, bs
    <3> QED BY <1>4, <3>1, FS_Subset
  <2>3. EffectivePool = CandidatePool + Cardinality(G) + Cardinality(S) + Cardinality(C)
    BY DEF EffectivePool
  <2>4. better \subseteq ((A \cup G) \cup S) \cup C BY <1>10 DEF Extra
  <2>5. Cardinality(A) <= CandidatePool OBVIOUS
  <2> HIDE DEF A, G, S, C
  <2>6. \A X, Y : IsFiniteSet(X) /\ IsFiniteSet(Y) =>
          /\ IsFiniteSet(X \cup Y) /\ Cardinality(X \cup Y) \in Nat
          /\ Cardinality(X) \in Nat /\ Cardinality(Y) \in Nat
          /\ Cardinality(X \cup Y) <= Cardinality(X) + Cardinality(Y)
    <3> SUFFICES ASSUME NEW X, NEW Y, IsFiniteSet(X), IsFiniteSet(Y)
                 PROVE  /\ IsFiniteSet(X \cup Y) /\ Cardinality(X \cup Y) \in Nat
                        /\ Cardinality(X) \in Nat /\ Cardinality(Y) \in Nat
                        /\ Cardinality(X \cup Y) <= Cardinality(X) + Cardinality(Y)
      OBVIOUS
    <3>1. /\ IsFiniteSet(X \cup Y)
          /\ Cardinality(X \cup Y) = Cardinality(X) + Cardinality(Y) - Cardinality(X \cap Y)
      BY FS_Union
    <3>2. IsFiniteSet(X \cap Y) BY FS_Intersection
    <3>3. /\ Cardinality(X) \in Nat /\ Cardinality(Y) \in Nat
          /\ Cardinality(X \cap Y) \in Nat /\ Cardinality(X \cup Y) \in Nat
      BY <3>1, <3>2, FS_CardinalityType
    <3> QED BY <3>1, <3>3
  <2>7. /\ IsFiniteSet(A \cup G) /\ Cardinality(A \cup G) \in Nat
        /\ Cardinality(A) \in Nat /\ Cardinality(G) \in Nat
        /\ Cardinality(A \cup G) <= Cardinality(A) + Cardinality(G)
    BY <2>1, <2>2, <2>6
  <2>8. /\ IsFiniteSet((A \cup G) \cup S) /\ Cardinality((A \cup G) \cup S) \in Nat
        /\ Cardinality(S) \in Nat
        /\ Cardinality((A \cup G) \cup S) <= Cardinality(A \cup G) + Cardinality(S)
    BY <2>1, <2>6, <2>7
  <2>9. /\ IsFiniteSet(((A \cup G) \cup S) \cup C)
        /\ Cardinality(((A \cup G) \cup S) \cup C) \in Nat /\ Cardinality(C) \in Nat
        /\ Cardinality(((A \cup G) \cup S) \cup C)
             <= Cardinality((A \cup G) \cup S) + Cardinality(C)
    BY <2>1, <2>6, <2>8
  <2>10. Cardinality(better) <= Cardinality(((A \cup G) \cup S) \cup C)
    BY <2>4, <2>9, FS_Subset
  <2>11. CandidatePool \in Nat BY SearchAssumption
  <2> QED BY <1>7, <1>8, <2>3, <2>5, <2>7, <2>8, <2>9, <2>10, <2>11
<1> DEFINE p == Top(order, EffectivePool)
<1>12. EffectivePool \in Nat BY PoolType
<1>13. /\ p \in Seq(Shown) /\ Len(p) = Least(EffectivePool, Len(order))
       /\ \A i \in 1..Len(p) : p[i] = order[i]
  BY <1>1, <1>12, TopType
<1> HIDE DEF p
<1>14. k \in 1..Len(p) BY <1>2, <1>11, <1>12, <1>13 DEF Least
<1>15. p[k] = t BY <1>6, <1>13, <1>14
<1>16. t \in ToSet(p) BY <1>13, <1>14, <1>15, Elements
<1> QED BY <1>16 DEF p

\* A hit that was in the reranker's pool before sparse, contextual and graph hits were added
\* stays in it, though hits of query expansion, routing and chunks may have kept it out, and a
\* response that is not full has everything, or everything that the reranker was given.
THEOREM BaselineKept == Spec => []BaselineKeepsItsPlace
<1>1. IInv => BaselineKeepsItsPlace
  <2> SUFFICES ASSUME IInv, stage = "done" PROVE BaselineKeepsItsPlace
    BY DEF BaselineKeepsItsPlace
  <2>1. ASSUME reranked, NEW t \in Found(Baseline) \cap Matching,
               Cardinality(AtLeastAsGood(t)) <= CandidatePool
        PROVE  t \in pool
    <3>1. pool = ToSet(Top(order, EffectivePool)) BY <2>1 DEF IInv, AnswerInv
    <3>2. t \in ToSet(Top(order, EffectivePool)) BY <2>1, PoolHolds
    <3> QED BY <3>1, <3>2
  <2>2. ASSUME ToSet(order) \ answer # {}
        PROVE  Cardinality(answer) = Limit \/ (reranked /\ answer = pool)
    <3>1. order \in Seq(Shown) /\ IsInjective(order) BY OrderType
    <3>2. Len(order) \in Nat /\ Limit \in Nat BY <3>1, LenProperties, SearchAssumption
    <3>3. CASE reranked
      <4>1. /\ pool = ToSet(Top(order, EffectivePool)) /\ answer \subseteq pool
            /\ Cardinality(answer) = Least(Limit, Cardinality(pool))
        BY <3>3 DEF IInv, AnswerInv
      <4>2. IsFiniteSet(pool) BY <3>1, <4>1, PoolType, TopType, Elements
      <4>3. Cardinality(answer) = Cardinality(pool) => answer = pool
        BY <4>1, <4>2, FS_Subset
      <4> QED BY <3>3, <4>1, <4>3 DEF Least
    <3>4. CASE ~reranked
      <4>1. answer = ToSet(Top(order, Limit)) BY <3>4 DEF IInv, AnswerInv
      <4>2. /\ Top(order, Limit) \in Seq(Shown)
            /\ Len(Top(order, Limit)) = Least(Limit, Len(order))
            /\ \A i \in 1..Len(Top(order, Limit)) : Top(order, Limit)[i] = order[i]
        BY <3>1, <3>2, TopType
      <4>3. Cardinality(answer) = Least(Limit, Len(order))
        BY <3>1, <3>2, <4>1, <4>2, TopInjective, Counted
      <4>4. CASE Limit < Len(order) BY <4>3, <4>4 DEF Least
      <4>5. CASE ~(Limit < Len(order))
        <5> DEFINE top == Top(order, Limit)
        <5>1. Len(top) = Len(order) /\ top \in Seq(Shown) BY <4>2, <4>5 DEF Least
        <5>2. ToSet(order) = {order[i] : i \in 1..Len(order)} BY <3>1, Elements
        <5> HIDE DEF top
        <5>3. ToSet(top) = {top[i] : i \in 1..Len(top)} BY <5>1, Elements
        <5>4. \A i \in 1..Len(order) : top[i] = order[i] BY <4>2, <5>1 DEF top
        <5>5. ToSet(top) = ToSet(order) BY <5>1, <5>2, <5>3, <5>4
        <5> QED BY <2>2, <4>1, <5>5 DEF top
      <4> QED BY <4>4, <4>5
    <3> QED BY <3>3, <3>4
  <2> QED BY <2>1, <2>2 DEF BaselineKeepsItsPlace
<1> QED BY <1>1, Inductive, PTL

-----------------------------------------------------------------------------------
\* The indexed copy.

\* A copy that lacks what the search asks for is not searched, and vectors stay.
CopyInv ==
  /\ projected \subseteq raw /\ asked \subseteq raw \cap Asked
  /\ search = "copy" => asked \subseteq projected
  /\ search = "done" => asked \subseteq found

LEMMA CopyKept == CopyInv /\ [Copy!Next]_(Copy!vars) => CopyInv'
<1> SUFFICES ASSUME CopyInv, [Copy!Next]_(Copy!vars) PROVE CopyInv' OBVIOUS
<1> USE DEF CopyInv
<1>1. ASSUME NEW t \in Targets, Copy!InsertEmbedding(t) \/ Copy!InsertOld(t) PROVE CopyInv'
  BY <1>1 DEF Copy!InsertEmbedding, Copy!InsertProjection, Copy!InsertOld, Copy!searching
<1>2. ASSUME NEW p \in Processes, Copy!Reconcile(p) PROVE CopyInv'
  BY <1>2 DEF Copy!Reconcile, Copy!Idle, Copy!searching
<1>3. ASSUME UNCHANGED <<Copy!rows, Copy!searching>> PROVE CopyInv'
  BY <1>3 DEF Copy!rows, Copy!searching
<1>4. ASSUME NEW p \in Processes,
             \/ Copy!Start(p) \/ Copy!Audit(p) \/ Copy!LockTimesOut(p)
             \/ Copy!BuildTimesOut(p) \/ Copy!Crash(p) \/ Copy!Count(p)
             \/ Copy!RecordCoverage(p) \/ Copy!LockIndex(p) \/ Copy!CheckIndex(p)
             \/ Copy!CreateIndex(p) \/ Copy!BuildWaits(p) \/ Copy!BuildDone(p)
             \/ Copy!BuildDeadlocks(p) \/ Copy!Recheck(p)
      PROVE  UNCHANGED <<Copy!rows, Copy!searching>>
  BY <1>4 DEF Copy!Start, Copy!Audit, Copy!LockTimesOut, Copy!BuildTimesOut, Copy!Crash,
     Copy!Count, Copy!RecordCoverage, Copy!LockIndex, Copy!CheckIndex, Copy!CreateIndex,
     Copy!BuildWaits, Copy!BuildDone, Copy!BuildDeadlocks, Copy!Recheck, Copy!Ends, Copy!Idle
<1>5. CASE Copy!Search \/ Copy!ReadCoverage \/ Copy!LookForGaps \/ Copy!Query \/ Copy!Answered
  BY <1>5 DEF Copy!Search, Copy!ReadCoverage, Copy!LookForGaps, Copy!Query, Copy!Answered,
     Copy!SearchGoes, Copy!rows
<1>6. CASE UNCHANGED Copy!vars BY <1>6 DEF Copy!vars, Copy!rows, Copy!searching
<1> QED BY <1>1, <1>2, <1>3, <1>4, <1>5, <1>6 DEF Copy!Next, Copy!Step

\* A search for which the row says that the copy is whole finds every vector that was there
\* when it began, however old the count in the row is, and whoever fills gaps, counts or
\* writes a vector without its projection between its statements.
THEOREM CopyMissesNothing == Copy!Spec => []FindsWhatWasThere
<1>1. Copy!Init => CopyInv BY DEF Copy!Init, CopyInv
<1>2. CopyInv => FindsWhatWasThere
  BY DEF CopyInv, FindsWhatWasThere, Copy!FindsWhatWasThere
<1> QED BY <1>1, <1>2, CopyKept, PTL DEF Copy!Spec

\* Where a process may change or rely on the index of the copy.
OwnedPlaces == {"check", "create", "building", "waiting", "recheck"}

OneOwner ==
  /\ at \in [Processes -> Copy!Places]
  /\ \A p \in Processes : at[p] \in OwnedPlaces => lock = p

LEMMA OwnerKept ==
  ASSUME Nobody \notin Processes, OneOwner, [Copy!Next]_(Copy!vars)
  PROVE  OneOwner'
<1> USE DEF OneOwner, OwnedPlaces
<1>1. CASE UNCHANGED <<at, lock>> BY <1>1 DEF Copy!Places
<1>2. ASSUME NEW p \in Processes, NEW place \in Copy!Places,
             Copy!GoTo(p, place), lock' = lock, place \in OwnedPlaces => at[p] \in OwnedPlaces
      PROVE  OneOwner'
  BY <1>2 DEF Copy!GoTo
<1>3. ASSUME NEW p \in Processes, Copy!LockIndex(p) PROVE OneOwner'
  BY <1>3 DEF Copy!LockIndex, Copy!GoTo, Copy!Places
<1>4. ASSUME NEW p \in Processes, Copy!Recheck(p) PROVE OneOwner'
  BY <1>4 DEF Copy!Recheck, Copy!GoTo, Copy!Places
<1>5. ASSUME NEW p \in Processes, Copy!Ends(p) PROVE OneOwner'
  BY <1>5 DEF Copy!Ends, Copy!Unlock, Copy!GoTo, Copy!Places
<1>6. ASSUME NEW p \in Processes,
             \/ Copy!Start(p) \/ Copy!Audit(p) \/ Copy!LockTimesOut(p) \/ Copy!Reconcile(p)
             \/ Copy!Count(p)
      PROVE  OneOwner'
  <2>1. PICK place \in {"reconcile", "count", "down", "write"} : Copy!GoTo(p, place)
    BY <1>6 DEF Copy!Start, Copy!Audit, Copy!LockTimesOut, Copy!Reconcile, Copy!Count
  <2>2. lock' = lock
    BY <1>6 DEF Copy!Start, Copy!Audit, Copy!LockTimesOut, Copy!Reconcile, Copy!Count
  <2> QED BY <1>2, <2>1, <2>2 DEF Copy!Places
<1>7. ASSUME NEW p \in Processes, Copy!RecordCoverage(p) PROVE OneOwner'
  <2>1. PICK place \in {"serving", "lock", "down"} : Copy!GoTo(p, place)
    BY <1>7 DEF Copy!RecordCoverage
  <2>2. lock' = lock BY <1>7 DEF Copy!RecordCoverage
  <2> QED BY <1>2, <2>1, <2>2 DEF Copy!Places
<1>8. ASSUME NEW p \in Processes,
             \/ Copy!CheckIndex(p) \/ Copy!CreateIndex(p) \/ Copy!BuildWaits(p)
             \/ Copy!BuildDone(p)
      PROVE  OneOwner'
  <2>1. at[p] \in OwnedPlaces
    BY <1>8 DEF Copy!CheckIndex, Copy!CreateIndex, Copy!BuildWaits, Copy!BuildDone
  <2>2. PICK place \in OwnedPlaces : Copy!GoTo(p, place)
    BY <1>8 DEF Copy!CheckIndex, Copy!CreateIndex, Copy!BuildWaits, Copy!BuildDone
  <2>3. lock' = lock
    BY <1>8 DEF Copy!CheckIndex, Copy!CreateIndex, Copy!BuildWaits, Copy!BuildDone
  <2>4. OwnedPlaces \subseteq Copy!Places BY DEF Copy!Places
  <2> QED BY <1>2, <2>1, <2>2, <2>3, <2>4
<1>9. ASSUME NEW p \in Processes,
             Copy!BuildDeadlocks(p) \/ Copy!BuildTimesOut(p) \/ Copy!Crash(p)
      PROVE  OneOwner'
  BY <1>5, <1>9 DEF Copy!BuildDeadlocks, Copy!BuildTimesOut, Copy!Crash
<1>10. ASSUME NEW t \in Targets, Copy!InsertEmbedding(t) \/ Copy!InsertOld(t)
       PROVE  UNCHANGED <<at, lock>>
  BY <1>10 DEF Copy!InsertEmbedding, Copy!InsertOld, Copy!starting
<1>11. CASE Copy!Search \/ Copy!ReadCoverage \/ Copy!LookForGaps \/ Copy!Query
              \/ Copy!Answered
  BY <1>1, <1>11 DEF Copy!Search, Copy!ReadCoverage, Copy!LookForGaps, Copy!Query,
     Copy!Answered, Copy!SearchGoes, Copy!starting
<1>12. CASE UNCHANGED Copy!vars BY <1>1, <1>12 DEF Copy!vars, Copy!starting
<1> HIDE DEF OneOwner, OwnedPlaces
<1> QED BY <1>1, <1>3, <1>4, <1>6, <1>7, <1>8, <1>9, <1>10, <1>11, <1>12
           DEF Copy!Next, Copy!Step

\* Between its look at the index and its second look a start holds the advisory lock: no two
\* processes build the index, and nobody releases a lock that another process holds.
THEOREM OneProcessBuilds ==
  ASSUME Nobody \notin Processes
  PROVE  Copy!Spec => []OneOwner
<1>1. Copy!Init => OneOwner BY DEF Copy!Init, OneOwner, OwnedPlaces, Copy!Places
<1>2. OneOwner /\ [Copy!Next]_(Copy!vars) => OneOwner' BY OwnerKept
<1> QED BY <1>1, <1>2, PTL DEF Copy!Spec
===================================================================================
