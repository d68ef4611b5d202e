------------------------------ MODULE TelegramProofs ------------------------------
(***************************************************************************)
(* Proofs about TelegramProducer: the windows of a read hold every record, *)
(* what goes out under one source_ref is one payload, and the offset       *)
(* passes no record that has not come to an end, but for those that come   *)
(* behind an invalid row or late.                                          *)
(***************************************************************************)
EXTENDS TelegramProducer, FiniteSetTheorems, SequenceTheorems, WellFoundedInduction, TLAPS

-----------------------------------------------------------------------------------
\* Recursion over the first n naturals, and sequences of sequences.

LEMMA LeastNat ==
  ASSUME NEW S \in SUBSET Nat, S # {}
  PROVE  \E k \in S : \A m \in S : k <= m
<1>1. PICK k \in S : \A m \in S : ~(<<m, k>> \in OpToRel(<, Nat))
  BY NatLessThanWellFounded, WFMin, Zenon
<1>2. \A m \in S : ~(m < k) BY <1>1 DEF OpToRel
<1> QED BY <1>2

LEMMA UpTo ==
  ASSUME NEW N \in Nat, NEW S, 0 \in S, \A n \in 1..N : n - 1 \in S => n \in S
  PROVE  0..N \subseteq S
<1> DEFINE T == (0..N) \ S
<1> SUFFICES ASSUME T # {} PROVE FALSE OBVIOUS
<1>1. PICK k \in T : \A m \in T : k <= m
  <2>1. T \in SUBSET Nat OBVIOUS
  <2> HIDE DEF T
  <2> QED BY <2>1, LeastNat
<1>2. k \in 1..N /\ k - 1 \in 0..N OBVIOUS
<1>3. k - 1 \notin T
  <2>1. ~(k <= k - 1) BY <1>2
  <2> HIDE DEF T
  <2> QED BY <1>1, <2>1
<1> QED BY <1>2, <1>3

\* A function that is defined by what it is at 0 and by what makes each value of the last.
Iterated(h, N, V, base, iter) ==
  h \in [0..N -> V] /\ h[0] = base /\ \A n \in 1..N : h[n] = iter[n][h[n - 1]]

LEMMA Iterates ==
  ASSUME NEW N \in Nat, NEW V, NEW base \in V, NEW iter \in [1..N -> [V -> V]]
  PROVE  \E h : Iterated(h, N, V, base, iter)
<1> DEFINE Reaches(k, h) == h \in [0..k -> V] /\ h[0] = base
                         /\ \A n \in 1..k : h[n] = iter[n][h[n - 1]]
           Defined == {k \in 0..N : \E h : Reaches(k, h)}
<1>1. 0 \in Defined
  <2> DEFINE h == [n \in 0..0 |-> base]
  <2>1. Reaches(0, h) OBVIOUS
  <2> HIDE DEF Reaches
  <2> QED BY <2>1
<1>2. ASSUME NEW k \in 1..N, k - 1 \in Defined PROVE k \in Defined
  <2>1. PICK h : Reaches(k - 1, h) BY <1>2
  <2> DEFINE g == [n \in 0..k |-> IF n = k THEN iter[k][h[k - 1]] ELSE h[n]]
  <2>2. k \in Nat /\ k > 0 /\ k \in 0..k /\ k - 1 \in 0..(k - 1) OBVIOUS
  <2>3. h \in [0..(k - 1) -> V] /\ h[0] = base BY <2>1
  <2>4. \A n \in 1..(k - 1) : h[n] = iter[n][h[n - 1]] BY <2>1
  <2>5. iter[k][h[k - 1]] \in V
    <3>1. h[k - 1] \in V BY <2>2, <2>3
    <3> QED BY <3>1
  <2>6. g \in [0..k -> V]
    <3> SUFFICES ASSUME NEW n \in 0..k PROVE g[n] \in V OBVIOUS
    <3>1. n = k \/ n \in 0..(k - 1) BY <2>2
    <3> QED BY <2>3, <2>5, <3>1
  <2>7. g[0] = base BY <2>2, <2>3
  <2>8. \A n \in 1..k : g[n] = iter[n][g[n - 1]]
    <3> SUFFICES ASSUME NEW n \in 1..k PROVE g[n] = iter[n][g[n - 1]] OBVIOUS
    <3>1. g[n - 1] = h[n - 1] BY <2>2
    <3>2. CASE n = k BY <2>2, <3>1, <3>2
    <3>3. CASE n # k
      <4>1. n \in 1..(k - 1) /\ g[n] = h[n] BY <2>2, <3>3
      <4> HIDE DEF g
      <4> QED BY <2>4, <3>1, <4>1
    <3> QED BY <3>2, <3>3
  <2> HIDE DEF g
  <2>9. Reaches(k, g) BY <2>6, <2>7, <2>8
  <2> HIDE DEF Reaches
  <2> QED BY <2>9
<1>3. 0..N \subseteq Defined
  <2> HIDE DEF Defined
  <2> QED BY <1>1, <1>2, UpTo
<1>4. N \in Defined BY <1>3
<1>5. PICK h : Reaches(N, h) BY <1>4
<1> QED BY <1>5, Zenon DEF Iterated

\* q has the elements of p.
Holds(q, p) == \A i \in 1..Len(p) : \E j \in 1..Len(q) : q[j] = p[i]

LEMMA ConcatHolds ==
  ASSUME NEW T, NEW q \in Seq(T), NEW p \in Seq(T)
  PROVE  Holds(q \o p, p) /\ \A r : Holds(q, r) => Holds(q \o p, r)
<1> DEFINE s == q \o p
<1>1. /\ Len(q) \in Nat /\ Len(p) \in Nat /\ Len(s) = Len(q) + Len(p)
      /\ \A i \in 1..(Len(q) + Len(p)) : s[i] = IF i <= Len(q) THEN q[i] ELSE p[i - Len(q)]
  BY LenProperties, ConcatProperties
<1> HIDE DEF s
<1>2. Holds(s, p)
  <2> SUFFICES ASSUME NEW i \in 1..Len(p) PROVE \E j \in 1..Len(s) : s[j] = p[i] BY DEF Holds
  <2> DEFINE j == Len(q) + i
  <2>1. j \in 1..Len(s) /\ ~(j <= Len(q)) /\ j - Len(q) = i BY <1>1
  <2> HIDE DEF j
  <2>2. s[j] = p[i] BY <1>1, <2>1
  <2> QED BY <2>1, <2>2
<1>3. ASSUME NEW r, Holds(q, r) PROVE Holds(s, r)
  <2> SUFFICES ASSUME NEW i \in 1..Len(r) PROVE \E j \in 1..Len(s) : s[j] = r[i] BY DEF Holds
  <2>1. PICK j \in 1..Len(q) : q[j] = r[i] BY <1>3 DEF Holds
  <2>2. j \in 1..Len(s) /\ s[j] = q[j] BY <1>1
  <2> QED BY <2>1, <2>2
<1> QED BY <1>2, <1>3 DEF s

LEMMA FlattenType ==
  ASSUME NEW T, NEW ss \in Seq(Seq(T))
  PROVE  /\ FlattenSeq(ss) \in Seq(T)
         /\ \A k \in 1..Len(ss) : Holds(FlattenSeq(ss), ss[k])
<1> DEFINE N == Len(ss)
           Upto(g) == g = [i \in 1..N |-> IF i = 1 THEN ss[i] ELSE g[i - 1] \o ss[i]]
           u == CHOOSE g : Upto(g)
           iter == [n \in 1..N |-> [q \in Seq(T) |-> q \o ss[n]]]
           Fine == {n \in 0..N : n = 0 \/ (u[n] \in Seq(T) /\ \A k \in 1..n : Holds(u[n], ss[k]))}
<1>1. N \in Nat /\ \A n \in 1..N : ss[n] \in Seq(T) BY LenProperties, ElementOfSeq
<1>2. CASE N = 0
  <2>1. ss = <<>> BY <1>2, EmptySeq
  <2> QED BY <1>2, <2>1, EmptySeq DEF FlattenSeq
<1>3. CASE N # 0
  <2>1. FlattenSeq(ss) = u[N] BY <1>3, Zenon DEF FlattenSeq
  <2>2. \E g : Upto(g)
    <3>1. <<>> \in Seq(T) BY EmptySeq
    <3>2. \A n \in 1..N : \A q \in Seq(T) : q \o ss[n] \in Seq(T) BY <1>1, ConcatProperties
    <3>3. iter \in [1..N -> [Seq(T) -> Seq(T)]] BY <3>2
    <3>4. PICK h : Iterated(h, N, Seq(T), <<>>, iter)
      <4> HIDE DEF iter, N
      <4> QED BY <1>1, <3>1, <3>3, Iterates, Zenon
    <3>5. \A n \in 1..N : h[n] = h[n - 1] \o ss[n]
      <4> SUFFICES ASSUME NEW n \in 1..N PROVE h[n] = h[n - 1] \o ss[n] OBVIOUS
      <4>1. h[n - 1] \in Seq(T)
        <5>1. h \in [0..N -> Seq(T)] BY <3>4 DEF Iterated
        <5>2. n - 1 \in 0..N BY <1>1
        <5> HIDE DEF N
        <5> QED BY <5>1, <5>2
      <4> QED BY <3>4, <4>1 DEF Iterated
    <3>6. 1 \in 1..N /\ 1 - 1 = 0 BY <1>1, <1>3
    <3>7. h[1] = ss[1]
      <4>1. h[1] = h[0] \o ss[1] BY <3>5, <3>6
      <4>2. h[0] = <<>> BY <3>4 DEF Iterated
      <4> QED BY <1>1, <3>6, <4>1, <4>2, ConcatEmptySeq
    <3> DEFINE g == [n \in 1..N |-> h[n]]
    <3>8. Upto(g)
      <4> SUFFICES ASSUME NEW n \in 1..N
                   PROVE  g[n] = IF n = 1 THEN ss[n] ELSE g[n - 1] \o ss[n]
        OBVIOUS
      <4>1. n # 1 => n - 1 \in 1..N BY <1>1
      <4> QED BY <3>5, <3>7, <4>1
    <3> QED BY <3>8
  <2>3. Upto(u) BY <2>2, Zenon
  <2> HIDE DEF u, N
  <2>4. 0 \in Fine BY <1>1
  <2>5. ASSUME NEW n \in 1..N, n - 1 \in Fine PROVE n \in Fine
    <3>1. CASE n = 1
      <4>1. u[1] = ss[1] /\ ss[1] \in Seq(T) BY <1>1, <2>3, <3>1
      <4>2. Holds(ss[1], ss[1]) BY DEF Holds
      <4>3. \A k \in 1..n : k = 1 BY <3>1
      <4> QED BY <3>1, <4>1, <4>2, <4>3
    <3>2. CASE n # 1
      <4>1. u[n - 1] \in Seq(T) /\ \A k \in 1..(n - 1) : Holds(u[n - 1], ss[k]) BY <2>5, <3>2
      <4>2. u[n] = u[n - 1] \o ss[n] BY <2>3, <3>2
      <4>3. u[n] \in Seq(T) BY <1>1, <4>1, <4>2, ConcatProperties
      <4>4. Holds(u[n], ss[n]) /\ \A k \in 1..(n - 1) : Holds(u[n], ss[k])
        BY <1>1, <4>1, <4>2, ConcatHolds
      <4>5. \A k \in 1..n : k = n \/ k \in 1..(n - 1) BY <1>1
      <4> QED BY <1>1, <4>3, <4>4, <4>5
    <3> QED BY <3>1, <3>2
  <2>6. 0..N \subseteq Fine
    <3> HIDE DEF Fine
    <3> QED BY <1>1, <2>4, <2>5, UpTo
  <2>7. u[N] \in Seq(T) /\ \A k \in 1..N : Holds(u[N], ss[k]) BY <1>1, <1>3, <2>6
  <2> QED BY <2>1, <2>7 DEF N
<1> QED BY <1>2, <1>3

LEMMA GreatestNat ==
  ASSUME NEW n \in Nat, NEW S \in SUBSET (0..n), S # {}
  PROVE  Max(S) \in S /\ \A m \in S : m <= Max(S)
<1> DEFINE T == {n - m : m \in S}
<1>1. T \in SUBSET Nat /\ T # {}
  <2>1. \A m \in 0..n : n - m \in Nat OBVIOUS
  <2>2. T \subseteq Nat BY <2>1
  <2>3. PICK m \in S : TRUE OBVIOUS
  <2>4. n - m \in T BY <2>3
  <2> QED BY <2>2, <2>4
<1>2. PICK k \in T : \A m \in T : k <= m
  <2> HIDE DEF T
  <2> QED BY <1>1, LeastNat
<1>3. PICK g \in S : k = n - g BY <1>2
<1>4. \A m \in S : g >= m
  <2> SUFFICES ASSUME NEW m \in S PROVE g >= m OBVIOUS
  <2>1. k <= n - m BY <1>2
  <2>2. m \in 0..n /\ g \in 0..n OBVIOUS
  <2> QED BY <1>3, <2>1, <2>2
<1>5. Max(S) \in S /\ \A m \in S : Max(S) >= m BY <1>4, Zenon DEF Max
<1>6. \A m \in S : m <= Max(S)
  <2> DEFINE x == Max(S)
  <2>1. x \in S /\ \A m \in S : x >= m BY <1>5
  <2> HIDE DEF x
  <2>2. \A m \in S : m <= x BY <2>1
  <2> QED BY <2>2 DEF x
<1> QED BY <1>5, <1>6

LEMMA RowNumbers ==
  /\ Len(Lines) \in Nat /\ Rows = 1..Len(Lines) /\ IsFiniteSet(Rows) /\ NoTime \in Nat
  /\ \A i \in Rows : i \in Nat /\ Lines[i].kind \in {"record", "invalid"} /\ Lines[i].time \in Nat
<1>1. /\ Len(Lines) \in Nat /\ Rows = 1..Len(Lines) /\ NoTime \in Nat
      /\ \A i \in Rows : Lines[i].kind \in {"record", "invalid"} /\ Lines[i].time \in 0..NoTime
  BY TelegramAssumption DEF TelegramAssumption, Rows
<1>2. IsFiniteSet(1..Len(Lines)) BY <1>1, FS_Interval
<1> QED BY <1>1, <1>2

\* An order of the rows of a file in which no two are equal.
StrictOrder(before) ==
  /\ \A i \in Rows : <<i, i>> \notin before
  /\ \A i, j \in Rows : i # j => <<i, j>> \in before \/ <<j, i>> \in before
  /\ \A i, j, k \in Rows : <<i, j>> \in before /\ <<j, k>> \in before => <<i, k>> \in before

LEMMA OrdersAreStrict == StrictOrder(FileOrder) /\ StrictOrder(TimeOrder)
<1>1. \A i, j \in Rows :
        /\ <<i, j>> \in FileOrder <=> i < j
        /\ <<i, j>> \in TimeOrder <=> (Lines[i].time < Lines[j].time \/ (Lines[i].time = Lines[j].time /\ i < j))
  BY DEF FileOrder, TimeOrder, SourceRefs
<1>2. \A i \in Rows : i \in Nat /\ Lines[i].time \in Nat BY RowNumbers
<1>3. StrictOrder(FileOrder)
  <2>1. \A i, j \in Rows : i # j => i < j \/ j < i BY <1>2
  <2>2. \A i, j, k \in Rows : i < j /\ j < k => i < k BY <1>2
  <2>3. \A i \in Rows : ~(i < i) BY <1>2
  <2> QED BY <1>1, <2>1, <2>2, <2>3 DEF StrictOrder
<1>4. StrictOrder(TimeOrder)
  <2>1. \A i \in Rows : <<i, i>> \notin TimeOrder BY <1>1, <1>2
  <2>2. \A i, j \in Rows : i # j => <<i, j>> \in TimeOrder \/ <<j, i>> \in TimeOrder BY <1>1, <1>2
  <2>3. ASSUME NEW i \in Rows, NEW j \in Rows, NEW k \in Rows,
               <<i, j>> \in TimeOrder, <<j, k>> \in TimeOrder
        PROVE  <<i, k>> \in TimeOrder
    BY <1>1, <1>2, <2>3
  <2> QED BY <2>1, <2>2, <2>3 DEF StrictOrder
<1> QED BY <1>3, <1>4

\* A set of rows in order has each of them once, and no other.
LEMMA SortedType ==
  ASSUME NEW before, StrictOrder(before), NEW S \in SUBSET Rows
  PROVE  /\ Sorted(S, before) \in Seq(S)
         /\ \A i \in S : \E k \in 1..Len(Sorted(S, before)) : Sorted(S, before)[k] = i
         /\ \A k, l \in 1..Len(Sorted(S, before)) :
              k < l => <<Sorted(S, before)[k], Sorted(S, before)[l]>> \in before
<1> DEFINE n == Cardinality(S)
           Rank(i) == Cardinality({j \in S : <<j, i>> \in before})
           rank == [i \in S |-> Rank(i)]
<1>0. IsFiniteSet(S) BY RowNumbers, FS_Subset
<1>a. /\ \A i \in S : <<i, i>> \notin before
      /\ \A i, j \in S : i # j => <<i, j>> \in before \/ <<j, i>> \in before
      /\ \A i, j, k \in S : <<i, j>> \in before /\ <<j, k>> \in before => <<i, k>> \in before
  BY DEF StrictOrder
<1>1. n \in Nat BY <1>0, FS_CardinalityType
<1>2. \A i \in S : IsFiniteSet({j \in S : <<j, i>> \in before}) /\ Rank(i) \in Nat
  BY <1>0, FS_Subset, FS_CardinalityType
<1>3. ASSUME NEW i \in S, NEW j \in S, <<i, j>> \in before PROVE Rank(i) < Rank(j)
  <2> DEFINE A == {k \in S : <<k, i>> \in before}
             B == {k \in S : <<k, j>> \in before}
  <2>1. IsFiniteSet(A) /\ IsFiniteSet(B) BY <1>2
  <2>2. i \notin A /\ A \cup {i} \subseteq B
    <3>1. i \notin A /\ i \in B BY <1>3, <1>a
    <3>2. A \subseteq B BY <1>3, <1>a
    <3> HIDE DEF A, B
    <3> QED BY <3>1, <3>2
  <2> HIDE DEF A, B
  <2>3. IsFiniteSet(A \cup {i}) /\ Cardinality(A \cup {i}) = Cardinality(A) + 1
    BY <2>1, <2>2, FS_AddElement
  <2>4. Cardinality(A \cup {i}) <= Cardinality(B) BY <2>1, <2>2, FS_Subset
  <2>5. Cardinality(A) \in Nat /\ Cardinality(B) \in Nat BY <2>1, FS_CardinalityType
  <2>6. Cardinality(A) < Cardinality(B) BY <2>3, <2>4, <2>5
  <2> QED BY <2>6 DEF A, B
<1>4. ASSUME NEW i \in S PROVE Rank(i) < n
  <2> DEFINE A == {j \in S : <<j, i>> \in before}
  <2>1. IsFiniteSet(A) BY <1>2
  <2>2. A \in SUBSET S /\ i \in S /\ i \notin A BY <1>a
  <2> HIDE DEF A
  <2>3. Cardinality(A) <= n /\ Cardinality(A) # n BY <1>0, <2>2, FS_Subset
  <2>4. Cardinality(A) \in Nat BY <2>1, FS_CardinalityType
  <2>5. Cardinality(A) < n
    <3> HIDE DEF n
    <3> QED BY <1>1, <2>3, <2>4
  <2> QED BY <2>5 DEF A
<1>5. \A i, j \in S : Rank(i) = Rank(j) => i = j
  <2> SUFFICES ASSUME NEW i \in S, NEW j \in S, i # j PROVE Rank(i) # Rank(j) OBVIOUS
  <2>1. Rank(i) \in Nat /\ Rank(j) \in Nat BY <1>2
  <2>2. <<i, j>> \in before \/ <<j, i>> \in before BY <1>a
  <2> HIDE DEF Rank
  <2>3. Rank(i) < Rank(j) \/ Rank(j) < Rank(i) BY <1>3, <2>2
  <2> QED BY <2>1, <2>3
<1>6. \A k \in 1..n : \E i \in S : Rank(i) = k - 1
  <2>1. rank \in [S -> 0..(n - 1)]
    <3> SUFFICES ASSUME NEW i \in S PROVE Rank(i) \in 0..(n - 1) OBVIOUS
    <3>1. Rank(i) \in Nat /\ Rank(i) < n BY <1>2, <1>4
    <3> HIDE DEF Rank, n
    <3> QED BY <1>1, <3>1
  <2>2. rank \in Injection(S, 0..(n - 1)) BY <1>5, <2>1 DEF Injection, IsInjective
  <2>3. IsFiniteSet(0..(n - 1)) /\ Cardinality(0..(n - 1)) = n
    <3> HIDE DEF n
    <3>1. 0 \in Int /\ n - 1 \in Int BY <1>1
    <3>2. IsFiniteSet(0..(n - 1)) /\ Cardinality(0..(n - 1)) = IF 0 > n - 1 THEN 0 ELSE n - 1 - 0 + 1
      BY <3>1, FS_Interval
    <3> QED BY <1>1, <3>2
  <2>4. rank \in Surjection(S, 0..(n - 1))
    <3> HIDE DEF rank
    <3> QED BY <2>2, <2>3, FS_Injection
  <2>5. \A m \in 0..(n - 1) : \E i \in S : rank[i] = m BY <2>4, Zenon DEF Surjection
  <2>6. \A k \in 1..n : k - 1 \in 0..(n - 1)
    <3> HIDE DEF n
    <3> QED BY <1>1
  <2> QED BY <2>5, <2>6
<1> DEFINE o == Sorted(S, before)
<1>7. \A k \in 1..n : o[k] \in S /\ Rank(o[k]) = k - 1
  <2> SUFFICES ASSUME NEW k \in 1..n PROVE o[k] \in S /\ Rank(o[k]) = k - 1 OBVIOUS
  <2>1. o[k] = CHOOSE i \in S : Rank(i) = k - 1 BY DEF Sorted
  <2>2. \E i \in S : Rank(i) = k - 1 BY <1>6
  <2> HIDE DEF o, Rank
  <2> QED BY <2>1, <2>2, Zenon
<1>8. o \in [1..n -> S]
  <2>1. o = [k \in 1..n |-> CHOOSE i \in S : Rank(i) = k - 1] BY DEF Sorted
  <2> HIDE DEF n, Rank, o
  <2>2. o = [k \in 1..n |-> o[k]] BY <2>1
  <2> QED BY <1>7, <2>2
<1> HIDE DEF o, n, Rank, rank
<1>9. o \in Seq(S) BY <1>1, <1>8, SeqDef
<1>10. 1..Len(o) = 1..n BY <1>8, <1>9, LenProperties
<1>11. \A i \in S : \E k \in 1..n : o[k] = i
  <2> SUFFICES ASSUME NEW i \in S PROVE \E k \in 1..n : o[k] = i OBVIOUS
  <2>1. Rank(i) \in Nat /\ Rank(i) < n BY <1>2, <1>4
  <2> DEFINE k == Rank(i) + 1
  <2>2. k \in 1..n /\ k - 1 = Rank(i) BY <1>1, <2>1
  <2> HIDE DEF k
  <2>3. o[k] \in S /\ Rank(o[k]) = Rank(i) BY <1>7, <2>2
  <2> QED BY <1>5, <2>2, <2>3
<1>12. \A k, l \in 1..n : k < l => <<o[k], o[l]>> \in before
  <2> SUFFICES ASSUME NEW k \in 1..n, NEW l \in 1..n, k < l PROVE <<o[k], o[l]>> \in before OBVIOUS
  <2>1. o[k] \in S /\ o[l] \in S /\ Rank(o[k]) = k - 1 /\ Rank(o[l]) = l - 1 BY <1>7
  <2>2. o[k] # o[l] BY <1>1, <2>1
  <2>3. <<o[l], o[k]>> \in before => Rank(o[l]) < Rank(o[k]) BY <1>3, <2>1
  <2>4. <<o[l], o[k]>> \notin before BY <1>1, <2>1, <2>3
  <2> QED BY <1>a, <2>1, <2>2, <2>4
<1> QED BY <1>9, <1>10, <1>11, <1>12 DEF o

-----------------------------------------------------------------------------------
\* The windows of a read.

LEMMA Divides ==
  ASSUME NEW a \in Nat, NEW d \in Nat \ {0}
  PROVE  a \div d \in Nat /\ d * (a \div d) <= a /\ a < d * (a \div d) + d
OBVIOUS

LEMMA Times ==
  \A a, b, d \in Nat : /\ a * d \in Nat
                       /\ (a + 1) * d = a * d + d
                       /\ a <= b => a * d <= b * d
                       /\ a * d < b * d + d => a <= b
<1> SUFFICES ASSUME NEW a \in Nat, NEW b \in Nat, NEW d \in Nat
             PROVE  /\ a * d \in Nat
                    /\ (a + 1) * d = a * d + d
                    /\ a <= b => a * d <= b * d
                    /\ a * d < b * d + d => a <= b
  OBVIOUS
<1>1. a * d \in Nat /\ (a + 1) * d = a * d + d OBVIOUS
<1>2. a <= b => a * d <= b * d OBVIOUS
<1>3. a * d < b * d + d => a <= b
  <2> SUFFICES ASSUME a > b PROVE ~(a * d < b * d + d) OBVIOUS
  <2>1. b + 1 <= a OBVIOUS
  <2>2. (b + 1) * d <= a * d BY <2>1
  <2>3. (b + 1) * d = b * d + d OBVIOUS
  <2>4. b * d \in Nat /\ a * d \in Nat OBVIOUS
  <2> QED BY <2>2, <2>3, <2>4
<1> QED BY <1>1, <1>2, <1>3

\* Chunks cuts a sequence into pieces that are not empty and leaves nothing out.
LEMMA ChunksCover ==
  ASSUME NEW T, NEW s \in Seq(T)
  PROVE  /\ Chunks(s) \in Seq(Seq(T))
         /\ \A k \in 1..Len(Chunks(s)) :
              \E a, b \in 1..Len(s) :
                 a <= b /\ b < a + MaxRecords /\ Chunks(s)[k] = SubSeq(s, a, b)
         /\ \A p \in 1..Len(s) : \E k \in 1..Len(Chunks(s)) :
              \E i \in 1..Len(Chunks(s)[k]) : Chunks(s)[k][i] = s[p]
<1> DEFINE L == Len(s)
           M == MaxRecords
           n == (L + M - 1) \div M
           first(k) == (k - 1) * M + 1
           last(k) == IF k * M < L THEN k * M ELSE L
           c == Chunks(s)
<1>1. L \in Nat /\ M \in Nat /\ M > 0 BY LenProperties, TelegramAssumption DEF TelegramAssumption
<1>2. c = [k \in 1..n |-> SubSeq(s, first(k), last(k))] BY DEF Chunks
<1>3. \A p \in 1..L : s[p] \in T BY ElementOfSeq
<1> HIDE DEF L, M, c
<1>4. n \in Nat /\ M * n <= L + M - 1 /\ L + M - 1 < M * n + M
  <2>1. L + M - 1 \in Nat /\ M \in Nat \ {0} BY <1>1
  <2> DEFINE a == L + M - 1
  <2>2. a \in Nat BY <2>1
  <2> HIDE DEF a
  <2>3. a \div M \in Nat /\ M * (a \div M) <= a /\ a < M * (a \div M) + M BY <2>1, <2>2, Divides
  <2> QED BY <2>3 DEF a
<1> HIDE DEF n
<1>5. n * M <= L + M - 1 /\ L + M - 1 < n * M + M
  <2>1. M * n = n * M BY <1>1, <1>4
  <2> QED BY <1>4, <2>1
<1>6. ASSUME NEW k \in 1..n
      PROVE  /\ first(k) \in 1..L /\ last(k) \in 1..L
             /\ first(k) <= last(k) /\ last(k) < first(k) + M
  <2>1. k \in Nat /\ k - 1 \in Nat /\ k <= n /\ k - 1 + 1 = k BY <1>4
  <2>2. k * M \in Nat /\ (k - 1) * M \in Nat /\ k * M = (k - 1) * M + M
    <3> DEFINE j == k - 1
    <3>1. j \in Nat /\ j + 1 = k BY <2>1
    <3> HIDE DEF j
    <3>2. j * M \in Nat /\ (j + 1) * M = j * M + M BY <1>1, <3>1, Times
    <3>3. k * M \in Nat BY <1>1, <2>1, Times
    <3> QED BY <3>1, <3>2, <3>3 DEF j
  <2>3. k * M <= n * M BY <1>1, <1>4, <2>1, Times
  <2> DEFINE x == k * M
             y == (k - 1) * M
             z == n * M
  <2>4. x \in Nat /\ y \in Nat /\ x = y + M /\ x <= z /\ z <= L + M - 1 BY <1>5, <2>2, <2>3
  <2>5. z \in Nat BY <1>1, <1>4, Times
  <2>6. first(k) = y + 1 /\ last(k) = IF x < L THEN x ELSE L OBVIOUS
  <2> HIDE DEF x, y, z, first, last
  <2> QED BY <1>1, <2>4, <2>5, <2>6
<1>7. \A k \in 1..n : /\ c[k] \in Seq(T)
                      /\ Len(c[k]) = last(k) - first(k) + 1
                      /\ \A i \in 1..Len(c[k]) : c[k][i] = s[first(k) + i - 1]
  <2> SUFFICES ASSUME NEW k \in 1..n
               PROVE  /\ c[k] \in Seq(T)
                      /\ Len(c[k]) = last(k) - first(k) + 1
                      /\ \A i \in 1..Len(c[k]) : c[k][i] = s[first(k) + i - 1]
    OBVIOUS
  <2> DEFINE a == first(k)
             b == last(k)
  <2>1. a \in 1..L /\ b \in 1..L /\ a <= b BY <1>6
  <2>2. c[k] = SubSeq(s, a, b) BY <1>2
  <2> HIDE DEF a, b
  <2>3. a \in Int /\ b \in Int /\ \A i \in a..b : s[i] \in T BY <1>1, <1>3, <2>1
  <2>4. /\ SubSeq(s, a, b) \in Seq(T)
        /\ Len(SubSeq(s, a, b)) = IF a <= b THEN b - a + 1 ELSE 0
        /\ \A i \in 1..(b - a + 1) : SubSeq(s, a, b)[i] = s[a + i - 1]
    BY <2>3, SubSeqProperties
  <2>5. c[k] \in Seq(T) /\ Len(c[k]) = b - a + 1 BY <2>1, <2>2, <2>4
  <2>6. \A i \in 1..Len(c[k]) : c[k][i] = s[a + i - 1] BY <2>2, <2>4, <2>5
  <2> QED BY <2>5, <2>6 DEF a, b
<1>8. c \in Seq(Seq(T)) /\ Len(c) = n
  <2> DEFINE S == Seq(T)
  <2>1. \A k \in 1..n : c[k] \in S BY <1>7
  <2>2. c = [k \in 1..n |-> c[k]] BY <1>2
  <2> HIDE DEF S, first, last
  <2>3. c \in [1..n -> S] BY <2>1, <2>2
  <2>4. c \in Seq(S) BY <1>4, <2>3, SeqDef
  <2>5. Len(c) \in Nat /\ DOMAIN c = 1..Len(c) BY <2>4, LenProperties
  <2>6. 1..Len(c) = 1..n BY <2>3, <2>5
  <2> DEFINE l == Len(c)
  <2>7. l \in Nat /\ 1..l = 1..n BY <2>5, <2>6
  <2> HIDE DEF l
  <2>8. l \in 1..l \/ l = 0 BY <2>7
  <2>9. n \in 1..n \/ n = 0 BY <1>4
  <2>10. l <= n /\ n <= l BY <1>4, <2>7, <2>8, <2>9
  <2>11. l = n BY <1>4, <2>7, <2>10
  <2> QED BY <2>4, <2>11 DEF l, S
<1>9. \A k \in 1..n : \E a, b \in 1..L : a <= b /\ b < a + M /\ c[k] = SubSeq(s, a, b)
  <2> SUFFICES ASSUME NEW k \in 1..n
               PROVE  \E a, b \in 1..L : a <= b /\ b < a + M /\ c[k] = SubSeq(s, a, b)
    OBVIOUS
  <2>1. c[k] = SubSeq(s, first(k), last(k)) BY <1>2
  <2> HIDE DEF first, last
  <2> QED BY <1>6, <2>1
<1>10. \A p \in 1..L : \E k \in 1..n : \E i \in 1..Len(c[k]) : c[k][i] = s[p]
  <2> SUFFICES ASSUME NEW p \in 1..L
               PROVE  \E k \in 1..n : \E i \in 1..Len(c[k]) : c[k][i] = s[p]
    OBVIOUS
  <2> DEFINE q == (p - 1) \div M
             k == q + 1
             i == p - q * M
  <2>1. p - 1 \in Nat /\ M \in Nat \ {0} BY <1>1
  <2>2. q \in Nat /\ q * M <= p - 1 /\ p - 1 < q * M + M
    <3> DEFINE r == p - 1
    <3>1. r \in Nat BY <2>1
    <3> HIDE DEF r
    <3>2. r \div M \in Nat /\ M * (r \div M) <= r /\ r < M * (r \div M) + M BY <2>1, <3>1, Divides
    <3>3. M * (r \div M) = (r \div M) * M BY <1>1, <3>2
    <3> QED BY <3>2, <3>3 DEF r
  <2> HIDE DEF q
  <2>3. q * M \in Nat /\ (q + 1) * M = q * M + M BY <1>1, <2>2, Times
  <2>4. q + 1 <= n
    <3>1. (q + 1) * M < n * M + M
      <4> DEFINE x == q * M
                 y == n * M
      <4>1. x <= p - 1 /\ L + M - 1 < y + M /\ x \in Nat /\ (q + 1) * M = x + M BY <1>5, <2>2, <2>3
      <4>2. y \in Nat BY <1>1, <1>4, Times
      <4> HIDE DEF x, y
      <4>3. x + M < y + M BY <1>1, <4>1, <4>2
      <4> QED BY <4>1, <4>3 DEF y
    <3>2. q + 1 \in Nat BY <2>2
    <3> DEFINE k1 == q + 1
    <3> HIDE DEF k1
    <3>3. k1 * M < n * M + M => k1 <= n BY <1>1, <1>4, <3>2, Times DEF k1
    <3> QED BY <3>1, <3>3 DEF k1
  <2>5. k \in 1..n BY <1>4, <2>2, <2>4
  <2>6. first(k) = q * M + 1
    <3>1. k - 1 = q BY <2>2
    <3> QED BY <3>1
  <2>7. last(k) = IF q * M + M < L THEN q * M + M ELSE L BY <2>3
  <2>8. i \in 1..(last(k) - first(k) + 1) /\ first(k) + i - 1 = p
    <3> DEFINE x == q * M
    <3>1. x \in Nat /\ x <= p - 1 /\ p - 1 < x + M BY <2>2, <2>3
    <3>2. first(k) = x + 1 /\ last(k) = (IF x + M < L THEN x + M ELSE L) /\ i = p - x BY <2>6, <2>7
    <3> HIDE DEF x, first, last, i, k
    <3> QED BY <1>1, <3>1, <3>2
  <2> HIDE DEF i, k, first, last
  <2>9. i \in 1..Len(c[k]) /\ c[k][i] = s[first(k) + i - 1] BY <1>7, <2>5, <2>8
  <2> QED BY <2>5, <2>8, <2>9
<1> QED BY <1>8, <1>9, <1>10 DEF c, L, M

AtMost(i, j) == i = j \/ <<i, j>> \in TimeOrder

\* The records of a chat that sort between two of them, and those of them in a read.
Between(ref, i) ==
  /\ Lines[i].kind = "record" /\ Lines[i].chat = Lines[ref[2]].chat
  /\ AtMost(ref[1], i) /\ AtMost(i, ref[2])
Segment(ref, lo, hi) == {i \in (lo + 1)..hi : Between(ref, i)}

\* It has records of one chat, in order of time.
Records(s) ==
  /\ \A k \in 1..Len(s) : Lines[s[k]].kind = "record"
  /\ \A k, l \in 1..Len(s) : Lines[s[k]].chat = Lines[s[l]].chat
  /\ \A k, l \in 1..Len(s) : k < l => <<s[k], s[l]>> \in TimeOrder

\* They are of the read, and none that belongs between two of them is left out.
Dense(s, lo, hi) ==
  /\ \A k \in 1..Len(s) : s[k] \in (lo + 1)..hi
  /\ \A k, l \in 1..Len(s) :
       k <= l => \A j \in Segment(<<s[k], s[l]>>, lo, hi) : \E m \in k..l : s[m] = j

Windows == {w \in Seq(Rows) : Len(w) \in 1..MaxRecords /\ Records(w)}
WindowsIn(lo, hi) == {w \in Windows : Dense(w, lo, hi)}

LEMMA PieceDense ==
  ASSUME NEW s \in Seq(Rows), Records(s),
         NEW a \in 1..Len(s), NEW b \in 1..Len(s), a <= b
  PROVE  /\ SubSeq(s, a, b) \in Seq(Rows) /\ Len(SubSeq(s, a, b)) = b - a + 1
         /\ \A k \in 1..(b - a + 1) : SubSeq(s, a, b)[k] = s[a + k - 1]
         /\ Records(SubSeq(s, a, b))
         /\ \A lo, hi : Dense(s, lo, hi) => Dense(SubSeq(s, a, b), lo, hi)
<1> DEFINE p == SubSeq(s, a, b)
           n == b - a + 1
<1>1. Len(s) \in Nat /\ a \in Nat /\ b \in Nat /\ \A i \in 1..Len(s) : s[i] \in Rows
  BY LenProperties, ElementOfSeq
<1>2. p \in Seq(Rows) /\ Len(p) = n /\ \A k \in 1..n : p[k] = s[a + k - 1]
  <2>1. \A i \in a..b : s[i] \in Rows BY <1>1
  <2>2. a \in Int /\ b \in Int BY <1>1
  <2>3. /\ p \in Seq(Rows) /\ Len(p) = IF a <= b THEN n ELSE 0
        /\ \A k \in 1..n : p[k] = s[a + k - 1]
    BY <2>1, <2>2, SubSeqProperties
  <2> QED BY <2>3
<1> HIDE DEF p
<1>3. \A k \in 1..n : a + k - 1 \in 1..Len(s) /\ p[k] = s[a + k - 1] BY <1>1, <1>2
<1>4. Records(p)
  <2>1. \A k \in 1..n : Lines[p[k]].kind = "record" BY <1>3 DEF Records
  <2>2. ASSUME NEW k \in 1..n, NEW l \in 1..n
        PROVE  Lines[p[k]].chat = Lines[p[l]].chat /\ (k < l => <<p[k], p[l]>> \in TimeOrder)
    <3> DEFINE x == a + k - 1
               y == a + l - 1
    <3>1. x \in 1..Len(s) /\ y \in 1..Len(s) /\ p[k] = s[x] /\ p[l] = s[y] /\ (k < l => x < y)
      BY <1>1, <1>3
    <3> HIDE DEF x, y
    <3>2. Lines[s[x]].chat = Lines[s[y]].chat /\ (x < y => <<s[x], s[y]>> \in TimeOrder)
      BY <3>1 DEF Records
    <3> QED BY <3>1, <3>2
  <2>3. Len(p) = n BY <1>2
  <2> HIDE DEF n
  <2> QED BY <2>1, <2>2, <2>3 DEF Records
<1>5. ASSUME NEW lo, NEW hi, Dense(s, lo, hi) PROVE Dense(p, lo, hi)
  <2>0. \A k \in 1..n : p[k] \in (lo + 1)..hi BY <1>3, <1>5 DEF Dense
  <2>1. ASSUME NEW k \in 1..n, NEW l \in 1..n, k <= l,
               NEW j \in Segment(<<p[k], p[l]>>, lo, hi)
        PROVE  \E m \in k..l : p[m] = j
    <3> DEFINE x == a + k - 1
               y == a + l - 1
    <3>1. x \in 1..Len(s) /\ y \in 1..Len(s) /\ p[k] = s[x] /\ p[l] = s[y] /\ x <= y
      BY <1>1, <1>3, <2>1
    <3> HIDE DEF x, y
    <3>2. x <= y => \A i \in Segment(<<s[x], s[y]>>, lo, hi) : \E m \in x..y : s[m] = i
      BY <1>5, <3>1 DEF Dense
    <3>3. PICK m \in x..y : s[m] = j BY <2>1, <3>1, <3>2
    <3> DEFINE h == m - a + 1
    <3>4. h \in k..l /\ h \in 1..n /\ a + h - 1 = m BY <1>1, <3>3 DEF x, y
    <3> HIDE DEF h
    <3>5. p[h] = j BY <1>3, <3>3, <3>4
    <3> QED BY <3>4, <3>5
  <2>2. Len(p) = n BY <1>2
  <2> HIDE DEF n
  <2> QED BY <2>0, <2>1, <2>2 DEF Dense
<1> QED BY <1>2, <1>4, <1>5 DEF p

\* A window is what a read has between its first and its last record.
LEMMA WindowIsSegment ==
  ASSUME NEW w \in Windows, NEW lo, NEW hi, Dense(w, lo, hi)
  PROVE  ToSet(w) = Segment(<<w[1], w[Len(w)]>>, lo, hi)
<1> DEFINE n == Len(w)
           ref == <<w[1], w[Len(w)]>>
<1>1. n \in Nat /\ n >= 1 /\ DOMAIN w = 1..n /\ Records(w)
  BY LenProperties DEF Windows
<1>2. 1 \in 1..n /\ n \in 1..n /\ ref[1] = w[1] /\ ref[2] = w[n] BY <1>1
<1> HIDE DEF n
<1>3. ASSUME NEW m \in 1..n PROVE w[m] \in Segment(ref, lo, hi)
  <2>1. w[m] \in (lo + 1)..hi BY DEF Dense, n
  <2>2. Lines[w[m]].kind = "record" /\ Lines[w[m]].chat = Lines[w[n]].chat BY <1>1, <1>2 DEF Records, n
  <2>3. (1 < m => <<w[1], w[m]>> \in TimeOrder) /\ (m < n => <<w[m], w[n]>> \in TimeOrder)
    BY <1>1, <1>2 DEF Records, n
  <2>4. (m = 1 \/ 1 < m) /\ (m = n \/ m < n) BY <1>1
  <2>5. AtMost(w[1], w[m]) /\ AtMost(w[m], w[n]) BY <2>3, <2>4 DEF AtMost
  <2> HIDE DEF ref
  <2> QED BY <1>2, <2>1, <2>2, <2>5 DEF Segment, Between
<1>4. ASSUME NEW j \in Segment(ref, lo, hi) PROVE \E m \in 1..n : w[m] = j
  <2>1. 1 <= n => \A i \in Segment(<<w[1], w[n]>>, lo, hi) : \E m \in 1..n : w[m] = i
    BY <1>2 DEF Dense, n
  <2>2. <<w[1], w[n]>> = ref BY DEF n
  <2> HIDE DEF ref
  <2> QED BY <1>1, <2>1, <2>2
<1>5. ToSet(w) = {w[m] : m \in 1..n} BY <1>1 DEF ToSet
<1> HIDE DEF ref
<1>6. ToSet(w) = Segment(ref, lo, hi) BY <1>3, <1>4, <1>5
<1> QED BY <1>6 DEF ref

\* The records of a chat in a read.
Of(chat, lo, hi) == {j \in OfKind("record", lo, hi) : Lines[j].chat = chat}

LEMMA GroupDense ==
  ASSUME NEW lo \in 0..Len(Lines), NEW hi \in 0..Len(Lines), NEW chat
  PROVE  /\ Sorted(Of(chat, lo, hi), TimeOrder) \in Seq(Rows)
         /\ Records(Sorted(Of(chat, lo, hi), TimeOrder))
         /\ Dense(Sorted(Of(chat, lo, hi), TimeOrder), lo, hi)
         /\ \A i \in Of(chat, lo, hi) : \E k \in 1..Len(Sorted(Of(chat, lo, hi), TimeOrder)) :
              Sorted(Of(chat, lo, hi), TimeOrder)[k] = i
<1> DEFINE A == Of(chat, lo, hi)
           s == Sorted(A, TimeOrder)
<1>1. A \subseteq (lo + 1)..hi /\ A \in SUBSET Rows
  <2>1. A \subseteq (lo + 1)..hi BY DEF Of, OfKind
  <2>2. (lo + 1)..hi \subseteq Rows BY RowNumbers
  <2> QED BY <2>1, <2>2
<1>2. \A i \in A : Lines[i].kind = "record" /\ Lines[i].chat = chat BY DEF Of, OfKind
<1>3. \A i \in (lo + 1)..hi : Lines[i].kind = "record" /\ Lines[i].chat = chat => i \in A
  BY DEF Of, OfKind
<1> HIDE DEF A
<1>4. /\ s \in Seq(A) /\ \A i \in A : \E k \in 1..Len(s) : s[k] = i
      /\ \A k, l \in 1..Len(s) : k < l => <<s[k], s[l]>> \in TimeOrder
  BY <1>1, OrdersAreStrict, SortedType
<1> HIDE DEF s
<1>5. s \in Seq(Rows) /\ Len(s) \in Nat /\ \A k \in 1..Len(s) : s[k] \in A
  BY <1>1, <1>4, SeqMonotonic, LenProperties, ElementOfSeq
<1>6. Records(s)
  <2>1. \A k \in 1..Len(s) : Lines[s[k]].kind = "record" /\ Lines[s[k]].chat = chat BY <1>2, <1>5
  <2> QED BY <1>4, <2>1 DEF Records
<1>7. Dense(s, lo, hi)
  <2>1. \A k \in 1..Len(s) : s[k] \in (lo + 1)..hi BY <1>1, <1>5
  <2>2. ASSUME NEW k \in 1..Len(s), NEW l \in 1..Len(s), k <= l,
               NEW j \in Segment(<<s[k], s[l]>>, lo, hi)
        PROVE  \E m \in k..l : s[m] = j
    <3> DEFINE ref == <<s[k], s[l]>>
    <3>1. ref[1] = s[k] /\ ref[2] = s[l] /\ j \in Segment(ref, lo, hi) BY <2>2
    <3> HIDE DEF ref
    <3>2. /\ j \in (lo + 1)..hi /\ Lines[j].kind = "record" /\ Lines[j].chat = Lines[s[l]].chat
          /\ AtMost(s[k], j) /\ AtMost(j, s[l])
      BY <3>1 DEF Segment, Between
    <3>3. j \in A BY <1>2, <1>3, <1>5, <3>2
    <3>4. PICK m \in 1..Len(s) : s[m] = j BY <1>4, <3>3
    <3>5. ~(m < k)
      <4> SUFFICES ASSUME m < k PROVE FALSE OBVIOUS
      <4>1. <<j, s[k]>> \in TimeOrder BY <1>4, <3>4
      <4>2. <<j, j>> \in TimeOrder
        <5>1. j \in Rows /\ s[k] \in Rows BY <1>1, <1>5, <3>3
        <5> QED BY <3>2, <4>1, <5>1, OrdersAreStrict DEF AtMost, StrictOrder
      <4> QED BY <1>1, <3>3, <4>2, OrdersAreStrict DEF StrictOrder
    <3>6. ~(l < m)
      <4> SUFFICES ASSUME l < m PROVE FALSE OBVIOUS
      <4>1. <<s[l], j>> \in TimeOrder BY <1>4, <3>4
      <4>2. <<j, j>> \in TimeOrder
        <5>1. j \in Rows /\ s[l] \in Rows BY <1>1, <1>5, <3>3
        <5> QED BY <3>2, <4>1, <5>1, OrdersAreStrict DEF AtMost, StrictOrder
      <4> QED BY <1>1, <3>3, <4>2, OrdersAreStrict DEF StrictOrder
    <3>7. m \in k..l BY <1>5, <3>4, <3>5, <3>6
    <3> QED BY <3>4, <3>7
  <2> QED BY <2>1, <2>2 DEF Dense
<1> QED BY <1>4, <1>5, <1>6, <1>7 DEF s, A

\* The windows of a read hold every record in it, and each is what the read has between its
\* first and its last.
LEMMA WindowsCover ==
  ASSUME NEW lo \in 0..Len(Lines), NEW hi \in 0..Len(Lines)
  PROVE  /\ WindowsOf[lo][hi] \in Seq(WindowsIn(lo, hi))
         /\ \A i \in (lo + 1)..hi : Lines[i].kind = "record" =>
              \E k \in 1..Len(WindowsOf[lo][hi]) : i \in ToSet(WindowsOf[lo][hi][k])
<1> DEFINE records == OfKind("record", lo, hi)
           OfChat(i) == {j \in records : Lines[j].chat = Lines[i].chat}
           least == {i \in records : \A j \in OfChat(i) : i <= j}
           firsts == Sorted(least, FileOrder)
           Group(i) == Sorted(OfChat(i), TimeOrder)
           ss == [k \in DOMAIN firsts |-> Chunks(Group(firsts[k]))]
           ws == WindowsOf[lo][hi]
           Fine == WindowsIn(lo, hi)
<1>1. ws = FlattenSeq(ss) BY Zenon DEF WindowsOf
<1>2. \A i : Group(i) = Sorted(Of(Lines[i].chat, lo, hi), TimeOrder) BY DEF Of
<1>3. records \in SUBSET Rows /\ records \in SUBSET Nat
  <2>1. records \subseteq (lo + 1)..hi BY DEF OfKind
  <2>2. (lo + 1)..hi \subseteq Rows /\ Rows \subseteq Nat BY RowNumbers
  <2> HIDE DEF records
  <2> QED BY <2>1, <2>2
<1>4. /\ least \in SUBSET Rows
      /\ \A i \in records : \E j \in least : Lines[j].chat = Lines[i].chat
  <2>1. least \in SUBSET records OBVIOUS
  <2>2. ASSUME NEW i \in records PROVE \E j \in least : Lines[j].chat = Lines[i].chat
    <3> DEFINE S == OfChat(i)
    <3>1. S \in SUBSET Nat /\ S # {} BY <1>3
    <3> HIDE DEF S
    <3>2. PICK j \in S : \A m \in S : j <= m BY <3>1, LeastNat
    <3> USE DEF S
    <3>3. j \in records /\ Lines[j].chat = Lines[i].chat BY <3>2
    <3>4. OfChat(j) = S BY <3>3
    <3> QED BY <3>2, <3>3, <3>4
  <2> HIDE DEF least, records
  <2> QED BY <1>3, <2>1, <2>2
<1> HIDE DEF records, least, Group, Fine
<1>5. firsts \in Seq(least) /\ \A i \in least : \E k \in 1..Len(firsts) : firsts[k] = i
  BY <1>4, OrdersAreStrict, SortedType
<1> HIDE DEF firsts
<1>6. DOMAIN firsts = 1..Len(firsts) /\ Len(firsts) \in Nat BY <1>5, LenProperties
<1>7. \A i : /\ Group(i) \in Seq(Rows) /\ Records(Group(i)) /\ Dense(Group(i), lo, hi)
             /\ \A j \in records : Lines[j].chat = Lines[i].chat =>
                  \E k \in 1..Len(Group(i)) : Group(i)[k] = j
  <2> SUFFICES ASSUME NEW i
               PROVE  /\ Group(i) \in Seq(Rows) /\ Records(Group(i)) /\ Dense(Group(i), lo, hi)
                      /\ \A j \in records : Lines[j].chat = Lines[i].chat =>
                           \E k \in 1..Len(Group(i)) : Group(i)[k] = j
    OBVIOUS
  <2> DEFINE chat == Lines[i].chat
             g == Sorted(Of(chat, lo, hi), TimeOrder)
  <2>1. \A j \in records : Lines[j].chat = chat => j \in Of(chat, lo, hi)
    BY DEF records, Of
  <2>2. Group(i) = g BY <1>2
  <2> HIDE DEF chat
  <2>3. /\ g \in Seq(Rows) /\ Records(g) /\ Dense(g, lo, hi)
        /\ \A j \in Of(chat, lo, hi) : \E k \in 1..Len(g) : g[k] = j
    BY GroupDense
  <2> HIDE DEF g
  <2> QED BY <2>1, <2>2, <2>3 DEF chat
<1>8. ASSUME NEW i
      PROVE  /\ Chunks(Group(i)) \in Seq(Fine)
             /\ \A j \in records : Lines[j].chat = Lines[i].chat =>
                  \E m \in 1..Len(Chunks(Group(i))) : j \in ToSet(Chunks(Group(i))[m])
  <2> DEFINE g == Group(i)
             c == Chunks(g)
  <2>1. g \in Seq(Rows) /\ Records(g) /\ Dense(g, lo, hi) BY <1>7
  <2> HIDE DEF g
  <2>2. /\ c \in Seq(Seq(Rows))
        /\ \A k \in 1..Len(c) : \E a, b \in 1..Len(g) :
             a <= b /\ b < a + MaxRecords /\ c[k] = SubSeq(g, a, b)
        /\ \A p \in 1..Len(g) : \E k \in 1..Len(c) : \E m \in 1..Len(c[k]) : c[k][m] = g[p]
    BY <2>1, ChunksCover
  <2> HIDE DEF c
  <2>3. \A k \in 1..Len(c) : c[k] \in Fine /\ c[k] \in Seq(Rows)
    <3> SUFFICES ASSUME NEW k \in 1..Len(c) PROVE c[k] \in Fine /\ c[k] \in Seq(Rows) OBVIOUS
    <3>1. PICK a, b \in 1..Len(g) : a <= b /\ b < a + MaxRecords /\ c[k] = SubSeq(g, a, b) BY <2>2
    <3>2. c[k] \in Seq(Rows) /\ Len(c[k]) = b - a + 1 /\ Records(c[k]) /\ Dense(c[k], lo, hi)
      BY <2>1, <3>1, PieceDense
    <3>3. MaxRecords \in Nat BY TelegramAssumption DEF TelegramAssumption
    <3>4. b - a + 1 \in 1..MaxRecords BY <3>1, <3>3
    <3> QED BY <3>2, <3>4 DEF Windows, WindowsIn, Fine
  <2>4. c \in Seq(Fine)
    <3> DEFINE S == Seq(Rows)
    <3>1. c \in Seq(S) BY <2>2
    <3> HIDE DEF S
    <3>2. Len(c) \in Nat /\ c \in [1..Len(c) -> S] BY <3>1, LenProperties
    <3>3. c \in [1..Len(c) -> Fine] BY <2>3, <3>2
    <3> QED BY <3>2, <3>3, SeqDef
  <2>5. ASSUME NEW j \in records, Lines[j].chat = Lines[i].chat
        PROVE  \E m \in 1..Len(c) : j \in ToSet(c[m])
    <3>1. PICK p \in 1..Len(g) : g[p] = j BY <1>7, <2>5 DEF g
    <3>2. PICK k \in 1..Len(c) : \E m \in 1..Len(c[k]) : c[k][m] = j BY <2>2, <3>1
    <3>3. c[k] \in Seq(Rows) BY <2>3
    <3>4. DOMAIN c[k] = 1..Len(c[k]) BY <3>3, LenProperties
    <3>5. j \in ToSet(c[k]) BY <3>2, <3>4 DEF ToSet
    <3> QED BY <3>5
  <2> QED BY <2>4, <2>5 DEF c, g
<1>9. /\ ss \in Seq(Seq(Fine)) /\ Len(ss) = Len(firsts)
      /\ \A k \in 1..Len(firsts) : ss[k] = Chunks(Group(firsts[k]))
  <2> DEFINE S == Seq(Fine)
             n == Len(firsts)
  <2>1. \A i : Chunks(Group(i)) \in S BY <1>8
  <2> HIDE DEF S, n
  <2>2. n \in Nat /\ DOMAIN firsts = 1..n BY <1>6 DEF n
  <2>3. ss \in [1..n -> S] BY <2>1, <2>2
  <2>4. ss \in Seq(S) BY <2>2, <2>3, SeqDef
  <2>5. Len(ss) = n BY <2>2
  <2>6. \A k \in 1..n : ss[k] = Chunks(Group(firsts[k])) BY <2>2
  <2> QED BY <2>4, <2>5, <2>6 DEF S, n
<1> HIDE DEF ss
<1>10. ws \in Seq(Fine) /\ \A k \in 1..Len(ss) : Holds(ws, ss[k])
  BY <1>1, <1>9, FlattenType
<1> HIDE DEF ws
<1>11. ASSUME NEW i \in records PROVE \E k \in 1..Len(ws) : i \in ToSet(ws[k])
  <2>1. PICK f \in least : Lines[f].chat = Lines[i].chat BY <1>4
  <2>2. PICK k \in 1..Len(firsts) : firsts[k] = f BY <1>5
  <2>3. PICK m \in 1..Len(ss[k]) : i \in ToSet(ss[k][m])
    <3>1. ss[k] = Chunks(Group(f)) BY <1>9, <2>2
    <3> QED BY <1>8, <2>1, <3>1
  <2>4. PICK j \in 1..Len(ws) : ws[j] = ss[k][m] BY <1>9, <1>10 DEF Holds
  <2> QED BY <2>3, <2>4
<1>12. \A i \in (lo + 1)..hi : Lines[i].kind = "record" => i \in records
  BY DEF records, OfKind
<1> QED BY <1>10, <1>11, <1>12 DEF ws, Fine

-----------------------------------------------------------------------------------
\* Types.

Jobs == [rows: Windows, depth: 0..MaxDepth]
Envelopes == [rows: SUBSET Rows, hash: Summaries]
Entries ==
  [status: {"prepared", "published"}, rows: SUBSET Rows, hash: Summaries]
    \cup [status: {"quarantined"}, rows: SUBSET Rows, hash: {"none"}]

SizesTyped == size \in 0..Len(Lines) /\ saved \in 0..size /\ offset \in 0..size /\ ahead \in 0..size
SeenTyped == DOMAIN seen \subseteq SourceRefs /\ \A ref \in DOMAIN seen : seen[ref] \in Entries
AttemptsTyped == \A w \in DOMAIN attempts : attempts[w] \in 1..(PoisonAttempts - 1)
RunTyped ==
  /\ pass \in {"none", "windows", "save"}
  /\ todo \in Seq(Jobs) /\ (pass = "windows" <=> todo # <<>>)
  /\ \/ step = "look" /\ draft = NoEnvelope
     \/ step \in {"publish", "record"} /\ draft \in Envelopes /\ pass = "windows"
HistoryTyped ==
  noise \subseteq Rows /\ poison \subseteq Rows /\ invalid \subseteq Rows /\ crashes \in 0..MaxCrashes

TypedInv == SizesTyped /\ SeenTyped /\ AttemptsTyped /\ RunTyped /\ HistoryTyped

LEMMA WindowType ==
  ASSUME NEW w \in Windows
  PROVE  /\ w \in Seq(Rows) /\ Len(w) \in Nat /\ Len(w) >= 1 /\ DOMAIN w = 1..Len(w)
         /\ ToSet(w) \subseteq Rows /\ <<w[1], w[Len(w)]>> \in SourceRefs
<1>1. w \in Seq(Rows) /\ Len(w) \in Nat /\ Len(w) >= 1 /\ DOMAIN w = 1..Len(w)
  BY LenProperties DEF Windows
<1>2. \A i \in 1..Len(w) : w[i] \in Rows BY <1>1, ElementOfSeq
<1>3. 1 \in 1..Len(w) /\ Len(w) \in 1..Len(w) BY <1>1
<1> QED BY <1>1, <1>2, <1>3 DEF ToSet, SourceRefs

LEMMA HeadWindow ==
  ASSUME RunTyped, pass = "windows"
  PROVE  /\ W \in Windows /\ Ref \in SourceRefs /\ ToSet(W) \subseteq Rows
         /\ Head(todo) \in Jobs /\ Head(todo) = todo[1] /\ Tail(todo) \in Seq(Jobs)
         /\ Len(todo) \in Nat /\ Len(todo) >= 1 /\ Len(Tail(todo)) = Len(todo) - 1
         /\ \A k \in 1..Len(Tail(todo)) : Tail(todo)[k] = todo[k + 1]
         /\ Tail(todo) = <<>> <=> Len(todo) = 1
<1>1. todo \in Seq(Jobs) /\ todo # <<>> BY DEF RunTyped
<1>2. /\ Head(todo) \in Jobs /\ Tail(todo) \in Seq(Jobs) /\ Len(Tail(todo)) = Len(todo) - 1
      /\ \A k \in 1..Len(Tail(todo)) : Tail(todo)[k] = todo[k + 1]
  BY <1>1, HeadTailProperties
<1>3. Len(todo) \in Nat /\ Len(todo) >= 1 BY <1>1, EmptySeq
<1>4. Tail(todo) = <<>> <=> Len(todo) = 1
  <2>1. Len(Tail(todo)) = 0 <=> Tail(todo) = <<>> BY <1>2, EmptySeq
  <2> QED BY <1>2, <1>3, <2>1
<1>5. W \in Windows BY <1>2 DEF W, Jobs
<1>6. Ref \in SourceRefs /\ ToSet(W) \subseteq Rows BY <1>5, WindowType DEF Ref
<1>7. Head(todo) = todo[1] BY <1>1
<1> QED BY <1>2, <1>3, <1>4, <1>5, <1>6, <1>7

\* A window that is halved goes on as two.
LEMMA HalvesWindows ==
  ASSUME NEW w \in Windows, Len(w) > 1
  PROVE  /\ Halves(w)[1] \in Windows /\ Halves(w)[2] \in Windows
         /\ ToSet(w) \subseteq ToSet(Halves(w)[1]) \cup ToSet(Halves(w)[2])
         /\ \A lo, hi : Dense(w, lo, hi) =>
              Dense(Halves(w)[1], lo, hi) /\ Dense(Halves(w)[2], lo, hi)
<1> DEFINE n == Len(w)
           mid == (n + 1) \div 2
           a == SubSeq(w, 1, mid)
           b == SubSeq(w, mid + 1, n)
<1>1. w \in Seq(Rows) /\ Records(w) /\ n \in Nat /\ n > 1 /\ n <= MaxRecords
      /\ DOMAIN w = 1..n
  BY LenProperties DEF Windows
<1>2. Halves(w) = <<a, b>> BY DEF Halves
<1> HIDE DEF n
<1>3. mid \in 1..n /\ mid + 1 \in 1..n /\ mid < n BY <1>1
<1> HIDE DEF mid
<1>4. 1 \in 1..n /\ n \in 1..n BY <1>1
<1>5. /\ a \in Seq(Rows) /\ Len(a) = mid - 1 + 1 /\ \A k \in 1..(mid - 1 + 1) : a[k] = w[1 + k - 1]
      /\ Records(a) /\ \A lo, hi : Dense(w, lo, hi) => Dense(a, lo, hi)
  BY <1>1, <1>3, <1>4, PieceDense DEF n
<1>6. /\ b \in Seq(Rows) /\ Len(b) = n - (mid + 1) + 1
      /\ \A k \in 1..(n - (mid + 1) + 1) : b[k] = w[mid + 1 + k - 1]
      /\ Records(b) /\ \A lo, hi : Dense(w, lo, hi) => Dense(b, lo, hi)
  <2> DEFINE m == mid + 1
  <2>1. m \in 1..n /\ m <= n BY <1>3
  <2> HIDE DEF m
  <2>2. /\ SubSeq(w, m, n) \in Seq(Rows) /\ Len(SubSeq(w, m, n)) = n - m + 1
        /\ \A k \in 1..(n - m + 1) : SubSeq(w, m, n)[k] = w[m + k - 1]
        /\ Records(SubSeq(w, m, n))
        /\ \A lo, hi : Dense(w, lo, hi) => Dense(SubSeq(w, m, n), lo, hi)
    BY <1>1, <1>4, <2>1, PieceDense DEF n
  <2> QED BY <2>2 DEF m
<1> HIDE DEF a, b
<1>7. MaxRecords \in Nat BY TelegramAssumption DEF TelegramAssumption
<1>8. a \in Windows
  <2>1. Len(a) \in 1..MaxRecords BY <1>1, <1>3, <1>5, <1>7
  <2> QED BY <1>5, <2>1 DEF Windows
<1>9. b \in Windows
  <2>1. Len(b) \in 1..MaxRecords BY <1>1, <1>3, <1>6, <1>7
  <2> QED BY <1>6, <2>1 DEF Windows
<1>10. ASSUME NEW k \in 1..n PROVE w[k] \in ToSet(a) \cup ToSet(b)
  <2>1. DOMAIN a = 1..Len(a) /\ DOMAIN b = 1..Len(b) BY <1>5, <1>6, LenProperties
  <2>2. CASE k <= mid
    <3>1. k \in 1..(mid - 1 + 1) /\ 1 + k - 1 = k BY <1>3, <2>2
    <3>2. a[k] = w[k] /\ k \in DOMAIN a BY <1>5, <2>1, <3>1
    <3> QED BY <3>2 DEF ToSet
  <2>3. CASE ~(k <= mid)
    <3> DEFINE h == k - mid
    <3>1. h \in 1..(n - (mid + 1) + 1) /\ mid + 1 + h - 1 = k BY <1>1, <1>3, <2>3
    <3> HIDE DEF h
    <3>2. b[h] = w[k] /\ h \in DOMAIN b BY <1>6, <2>1, <3>1
    <3> QED BY <3>2 DEF ToSet
  <2> QED BY <2>2, <2>3
<1>11. ToSet(w) = {w[k] : k \in 1..n} BY <1>1 DEF ToSet
<1>12. Halves(w)[1] = a /\ Halves(w)[2] = b BY <1>2
<1> QED BY <1>5, <1>6, <1>8, <1>9, <1>10, <1>11, <1>12

-----------------------------------------------------------------------------------
\* What the parts of the actions do to the types.

LEMMA DoneTyped ==
  ASSUME TypedInv, pass = "windows", Done
  PROVE  SizesTyped' /\ AttemptsTyped' /\ RunTyped'
<1>1. RunTyped /\ SizesTyped /\ AttemptsTyped BY DEF TypedInv
<1>2. Tail(todo) \in Seq(Jobs) /\ (Tail(todo) = <<>> <=> Len(todo) = 1) BY <1>1, HeadWindow
<1>3. todo' = Tail(todo) /\ step' = "look" /\ draft' = NoEnvelope /\ UNCHANGED <<size, saved, ahead>>
  BY DEF Done
<1>4. \/ Len(todo) = 1 /\ pass' = "save" /\ offset' = ahead
      \/ Len(todo) # 1 /\ pass' = pass /\ offset' = offset
  BY DEF Done
<1>5. SizesTyped' BY <1>1, <1>3, <1>4 DEF SizesTyped
<1>6. RunTyped' BY <1>2, <1>3, <1>4 DEF RunTyped
<1>7. AttemptsTyped' BY <1>1 DEF Done, Forget, AttemptsTyped
<1> QED BY <1>5, <1>6, <1>7

LEMMA AbortTyped ==
  ASSUME TypedInv, Abort
  PROVE  SizesTyped' /\ RunTyped'
<1>1. <<>> \in Seq(Jobs) BY EmptySeq
<1> QED BY <1>1 DEF TypedInv, SizesTyped, RunTyped, Abort

LEMMA GoesTyped ==
  ASSUME TypedInv, pass = "windows", NEW s \in {"publish", "record"}, NEW e \in Envelopes, Goes(s, e)
  PROVE  SizesTyped' /\ AttemptsTyped' /\ RunTyped' /\ HistoryTyped'
BY DEF TypedInv, SizesTyped, AttemptsTyped, RunTyped, HistoryTyped, Goes, history

\* What Keep keeps.
LEMMA Kept ==
  ASSUME NEW status, NEW envelope, Keep(status, envelope)
  PROVE  /\ DOMAIN seen' = DOMAIN seen \cup {Ref}
         /\ seen'[Ref] = Entry(status, envelope)
         /\ \A ref \in DOMAIN seen : ref # Ref => seen'[ref] = seen[ref]
BY DEF Keep

LEMMA KeptTyped ==
  ASSUME TypedInv, pass = "windows", NEW status, NEW envelope, Entry(status, envelope) \in Entries,
         Keep(status, envelope)
  PROVE  SeenTyped'
<1>1. Ref \in SourceRefs BY HeadWindow DEF TypedInv
<1>2. SeenTyped BY DEF TypedInv
<1>3. /\ DOMAIN seen' = DOMAIN seen \cup {Ref}
      /\ seen'[Ref] = Entry(status, envelope)
      /\ \A ref \in DOMAIN seen : ref # Ref => seen'[ref] = seen[ref]
  BY Kept
<1> QED BY <1>1, <1>2, <1>3 DEF SeenTyped

LEMMA EntriesAre ==
  /\ \A e \in Envelopes : Entry("prepared", e) \in Entries /\ Entry("published", e) \in Entries
  /\ \A S \in SUBSET Rows : Entry("quarantined", Envelope(S, "none")) \in Entries
  /\ \A e \in Entries : /\ e.rows \subseteq Rows
                        /\ \/ e.status \in {"prepared", "published"} /\ e.hash \in Summaries
                           \/ e.status = "quarantined" /\ e.hash = "none"
  /\ \A S \in SUBSET Rows : \A h \in Summaries : Envelope(S, h) \in Envelopes
BY DEF Entries, Entry, Envelope, Envelopes

LEMMA QuarantineTyped ==
  ASSUME TypedInv, pass = "windows", Quarantine
  PROVE  SeenTyped' /\ AttemptsTyped' /\ poison' \subseteq Rows
<1>1. SeenTyped'
  <2>1. ToSet(W) \subseteq Rows BY HeadWindow DEF TypedInv
  <2> QED BY <2>1, EntriesAre, KeptTyped DEF Quarantine
<1>2. AttemptsTyped' BY DEF TypedInv, Quarantine, Forget, AttemptsTyped
<1>3. poison' \subseteq Rows
  <2>1. ToSet(W) \subseteq Rows /\ poison \subseteq Rows BY HeadWindow DEF TypedInv, HistoryTyped
  <2> QED BY <2>1 DEF Quarantine
<1> QED BY <1>1, <1>2, <1>3

LEMMA FailTyped ==
  ASSUME TypedInv, pass = "windows", Fail
  PROVE  TypedInv'
<1>1. SizesTyped' /\ RunTyped' BY AbortTyped DEF Fail
<1>2. SeenTyped' /\ AttemptsTyped' /\ poison' \subseteq Rows
  <2>1. CASE Quarantine BY <2>1, QuarantineTyped
  <2>2. CASE Failures < PoisonAttempts /\ Count /\ UNCHANGED <<seen, poison>>
    <3>1. AttemptsTyped /\ PoisonAttempts \in Nat /\ SeenTyped /\ poison \subseteq Rows
      BY TelegramAssumption DEF TypedInv, TelegramAssumption, HistoryTyped
    <3>2. Failures \in 1..(PoisonAttempts - 1)
      <4>1. CASE W \in DOMAIN attempts
        <5>1. Failures = 1 + attempts[W] /\ attempts[W] \in Nat BY <3>1, <4>1 DEF Failures, AttemptsTyped
        <5> QED BY <2>2, <3>1, <5>1
      <4>2. CASE W \notin DOMAIN attempts
        <5>1. Failures = 1 BY <4>2 DEF Failures
        <5> QED BY <2>2, <3>1, <5>1
      <4> QED BY <4>1, <4>2
    <3>3. AttemptsTyped' BY <2>2, <3>1, <3>2 DEF Count, AttemptsTyped
    <3>4. SeenTyped' /\ poison' \subseteq Rows BY <2>2, <3>1 DEF SeenTyped
    <3> QED BY <3>3, <3>4
  <2> QED BY <2>1, <2>2 DEF Fail
<1>3. HistoryTyped' BY <1>2 DEF TypedInv, HistoryTyped, Fail, Abort
<1> QED BY <1>1, <1>2, <1>3 DEF TypedInv

\* What a pass starts with.
ReadEnd == IF saved + MaxRows < size THEN saved + MaxRows ELSE size
Read == WindowsOf[saved][ReadEnd]
InvalidRead == OfKind("invalid", saved, ReadEnd)

LEMMA PassStarts ==
  ASSUME TypedInv, StartPass
  PROVE  /\ ReadEnd \in saved..size /\ ReadEnd \in 0..Len(Lines) /\ Read \in Seq(Windows)
         /\ \A k \in 1..Len(Read) : Dense(Read[k], saved, ReadEnd)
         /\ ahead' = ReadEnd /\ invalid' = invalid \cup InvalidRead /\ InvalidRead \subseteq Rows
         /\ todo' \in Seq(Jobs) /\ Len(todo') = Len(Read)
         /\ \A k \in 1..Len(Read) : todo'[k].rows = Read[k]
         /\ \/ todo' = <<>> /\ pass' = "save" /\ offset' = ReadEnd /\ Len(Read) = 0
            \/ /\ todo' # <<>> /\ pass' = "windows"
               /\ \/ InvalidRead = {} /\ offset' = saved
                  \/ offset' = Max(InvalidRead) /\ offset' \in InvalidRead
                     /\ \A j \in InvalidRead : j <= offset'
         /\ offset' \in saved..ReadEnd
         /\ UNCHANGED <<size, saved, seen, step, draft, sent, noise, poison, crashes>>
<1>1. size \in 0..Len(Lines) /\ saved \in 0..size /\ Len(Lines) \in Nat /\ MaxRows \in Nat
  BY TelegramAssumption DEF TypedInv, SizesTyped, TelegramAssumption
<1>2. ReadEnd \in saved..size /\ ReadEnd \in 0..Len(Lines) /\ saved \in 0..Len(Lines)
  BY <1>1 DEF ReadEnd
<1>3. Read \in Seq(Windows) /\ \A k \in 1..Len(Read) : Dense(Read[k], saved, ReadEnd)
  <2>1. Read \in Seq(WindowsIn(saved, ReadEnd)) BY <1>2, WindowsCover DEF Read
  <2>2. \A k \in 1..Len(Read) : Read[k] \in WindowsIn(saved, ReadEnd) BY <2>1, ElementOfSeq
  <2>3. WindowsIn(saved, ReadEnd) \subseteq Windows BY DEF WindowsIn
  <2>4. Read \in Seq(Windows) BY <2>1, <2>3, SeqMonotonic
  <2> QED BY <2>2, <2>4 DEF WindowsIn
<1>4. /\ ahead' = ReadEnd /\ invalid' = invalid \cup InvalidRead
      /\ todo' = [k \in DOMAIN Read |-> [rows |-> Read[k], depth |-> 0]]
      /\ IF Read = <<>>
         THEN pass' = "save" /\ offset' = ReadEnd
         ELSE pass' = "windows" /\ offset' = IF InvalidRead = {} THEN saved ELSE Max(InvalidRead)
      /\ UNCHANGED <<size, saved, seen, step, draft, sent, noise, poison, crashes>>
  BY DEF StartPass, Read, ReadEnd, InvalidRead
<1> DEFINE n == Len(Read)
<1>5. n \in Nat /\ DOMAIN Read = 1..n /\ (Read = <<>> <=> n = 0) /\ \A k \in 1..n : Read[k] \in Windows
  BY <1>3, LenProperties, EmptySeq, ElementOfSeq
<1>6. InvalidRead \subseteq (saved + 1)..ReadEnd BY DEF InvalidRead, OfKind
<1>7. InvalidRead \subseteq Rows BY <1>1, <1>2, <1>6, RowNumbers
<1> HIDE DEF n
<1>8. /\ todo' \in Seq(Jobs) /\ Len(todo') = n /\ (todo' = <<>> <=> n = 0)
      /\ \A k \in 1..n : todo'[k].rows = Read[k]
  <2>1. 0 \in 0..MaxDepth BY TelegramAssumption DEF TelegramAssumption
  <2>2. \A k \in 1..n : [rows |-> Read[k], depth |-> 0] \in Jobs BY <1>5, <2>1 DEF Jobs
  <2>3. todo' \in [1..n -> Jobs] BY <1>4, <1>5, <2>2
  <2>4. todo' \in Seq(Jobs) BY <1>5, <2>3, SeqDef
  <2>5. Len(todo') = n BY <1>4, <1>5
  <2>6. todo' = <<>> <=> n = 0 BY <2>4, <2>5, EmptySeq
  <2> QED BY <1>4, <1>5, <2>4, <2>5, <2>6
<1>9. ASSUME InvalidRead # {}
      PROVE  Max(InvalidRead) \in InvalidRead /\ \A j \in InvalidRead : j <= Max(InvalidRead)
  <2>1. InvalidRead \in SUBSET (0..ReadEnd) /\ ReadEnd \in Nat BY <1>1, <1>2, <1>6
  <2> QED BY <1>9, <2>1, GreatestNat
<1>10. offset' \in saved..ReadEnd
  <2>1. CASE Read = <<>> BY <1>1, <1>2, <1>4, <2>1
  <2>2. CASE Read # <<>> /\ InvalidRead = {} BY <1>1, <1>2, <1>4, <2>2
  <2>3. CASE Read # <<>> /\ InvalidRead # {}
    <3>1. offset' = Max(InvalidRead) /\ Max(InvalidRead) \in InvalidRead BY <1>4, <1>9, <2>3
    <3>2. offset' \in (saved + 1)..ReadEnd BY <1>6, <3>1
    <3> QED BY <1>1, <1>2, <3>2
  <2> QED BY <2>1, <2>2, <2>3
<1>11. \/ todo' = <<>> /\ pass' = "save" /\ offset' = ReadEnd /\ n = 0
       \/ /\ todo' # <<>> /\ pass' = "windows"
          /\ \/ InvalidRead = {} /\ offset' = saved
             \/ offset' = Max(InvalidRead) /\ offset' \in InvalidRead
                /\ \A j \in InvalidRead : j <= offset'
  <2>1. CASE Read = <<>> BY <1>4, <1>5, <1>8, <2>1
  <2>2. CASE Read # <<>> /\ InvalidRead = {} BY <1>4, <1>5, <1>8, <2>2
  <2>3. CASE Read # <<>> /\ InvalidRead # {}
    <3>1. offset' = Max(InvalidRead) /\ pass' = "windows" /\ todo' # <<>> BY <1>4, <1>5, <1>8, <2>3
    <3>2. Max(InvalidRead) \in InvalidRead /\ \A j \in InvalidRead : j <= Max(InvalidRead)
      BY <1>9, <2>3
    <3> QED BY <3>1, <3>2
  <2> QED BY <2>1, <2>2, <2>3
<1> QED BY <1>2, <1>3, <1>4, <1>7, <1>8, <1>10, <1>11 DEF n

LEMMA StartPassTyped == TypedInv /\ StartPass => TypedInv'
<1> SUFFICES ASSUME TypedInv, StartPass PROVE TypedInv' OBVIOUS
<1>1. /\ ReadEnd \in saved..size /\ ahead' = ReadEnd /\ offset' \in saved..ReadEnd
      /\ invalid' = invalid \cup InvalidRead /\ InvalidRead \subseteq Rows
      /\ todo' \in Seq(Jobs)
      /\ \/ todo' = <<>> /\ pass' = "save"
         \/ todo' # <<>> /\ pass' = "windows"
      /\ UNCHANGED <<size, saved, seen, step, draft, sent, noise, poison, crashes>>
  BY PassStarts
<1>2. pass = "none" BY DEF StartPass
<1>3. SizesTyped'
  <2>1. SizesTyped BY DEF TypedInv
  <2> QED BY <1>1, <2>1 DEF SizesTyped
<1>4. RunTyped' BY <1>1, <1>2 DEF TypedInv, RunTyped
<1>5. AttemptsTyped' BY DEF TypedInv, AttemptsTyped, StartPass
<1>6. HistoryTyped' BY <1>1 DEF TypedInv, HistoryTyped
<1>7. SeenTyped' BY <1>1 DEF TypedInv, SeenTyped
<1> QED BY <1>3, <1>4, <1>5, <1>6, <1>7 DEF TypedInv

LEMMA SplitTyped == TypedInv /\ Split => TypedInv'
<1> SUFFICES ASSUME TypedInv, Split PROVE TypedInv' OBVIOUS
<1>1. pass = "windows" /\ Len(W) > 1 /\ Head(todo).depth < MaxDepth BY DEF Split, At
<1>2. W \in Windows /\ Head(todo) \in Jobs /\ Tail(todo) \in Seq(Jobs) /\ Len(todo) \in Nat
  BY <1>1, HeadWindow DEF TypedInv
<1> DEFINE two == [k \in 1..2 |-> [rows |-> Halves(W)[k], depth |-> Head(todo).depth + 1]]
<1>3. two \in Seq(Jobs) /\ Len(two) = 2
  <2>1. Halves(W)[1] \in Windows /\ Halves(W)[2] \in Windows BY <1>1, <1>2, HalvesWindows
  <2>2. Head(todo).depth + 1 \in 0..MaxDepth
    BY <1>1, <1>2, TelegramAssumption DEF Jobs, TelegramAssumption
  <2>3. \A k \in 1..2 : two[k] \in Jobs BY <2>1, <2>2 DEF Jobs
  <2>4. two \in [1..2 -> Jobs] BY <2>3
  <2> HIDE DEF two
  <2>5. two \in Seq(Jobs) BY <2>4, SeqDef
  <2>6. Len(two) \in Nat /\ DOMAIN two = 1..Len(two) BY <2>5, LenProperties
  <2>7. 1..Len(two) = 1..2 BY <2>4, <2>6
  <2> QED BY <2>5, <2>6, <2>7
<1>4. todo' = two \o Tail(todo) BY DEF Split
<1> HIDE DEF two
<1>5. todo' \in Seq(Jobs) /\ Len(todo') = 2 + Len(Tail(todo))
  <2> DEFINE rest == Tail(todo)
  <2>1. rest \in Seq(Jobs) BY <1>2
  <2> HIDE DEF rest
  <2>2. two \o rest \in Seq(Jobs) /\ Len(two \o rest) = Len(two) + Len(rest)
    BY <1>3, <2>1, ConcatProperties
  <2> QED BY <1>3, <1>4, <2>2 DEF rest
<1>6. todo' # <<>>
  <2>1. Len(Tail(todo)) \in Nat BY <1>2, LenProperties
  <2> QED BY <1>5, <2>1, EmptySeq
<1>7. UNCHANGED <<size, saved, seen, pass, offset, ahead, step, draft, sent, noise, poison, invalid, crashes>>
  BY DEF Split, history
<1>8. SizesTyped' BY <1>7 DEF TypedInv, SizesTyped
<1>9. SeenTyped' BY <1>7 DEF TypedInv, SeenTyped
<1>10. RunTyped' BY <1>1, <1>5, <1>6, <1>7 DEF TypedInv, RunTyped
<1>11. HistoryTyped' BY <1>7 DEF TypedInv, HistoryTyped
<1>12. AttemptsTyped' BY DEF TypedInv, AttemptsTyped, Split, Forget
<1> QED BY <1>8, <1>9, <1>10, <1>11, <1>12 DEF TypedInv

\* The actions that end a window: what else they change.
LEMMA DoneKeepsTypes ==
  ASSUME TypedInv, pass = "windows", Done, SeenTyped', noise' \subseteq Rows, poison' = poison
  PROVE  TypedInv'
<1>1. SizesTyped' /\ AttemptsTyped' /\ RunTyped' BY DoneTyped
<1>2. HistoryTyped' BY DEF TypedInv, HistoryTyped, Done
<1> QED BY <1>1, <1>2 DEF TypedInv

LEMMA SaysWhere ==
  /\ \A s : At(s) => pass = "windows" /\ step = s
  /\ TypedInv /\ step # "look" => draft \in Envelopes /\ pass = "windows"
  /\ TypedInv /\ Known => seen[Ref] \in Entries
BY DEF At, TypedInv, RunTyped, SeenTyped, Known

LEMMA TypesKept == TypedInv /\ [Next]_vars => TypedInv'
<1> SUFFICES ASSUME TypedInv, [Next]_vars PROVE TypedInv' OBVIOUS
<1>1. CASE AppendLine
  <2>1. size' \in 0..Len(Lines) /\ size <= size' /\ UNCHANGED <<saved, offset, ahead>>
    BY <1>1, RowNumbers DEF AppendLine, TypedInv, SizesTyped, files, run
  <2>2. SizesTyped' BY <2>1, RowNumbers DEF TypedInv, SizesTyped
  <2> QED BY <1>1, <2>2 DEF AppendLine, TypedInv, SeenTyped, AttemptsTyped, RunTyped, HistoryTyped, files, run, history
<1>2. CASE StartPass BY <1>2, StartPassTyped
<1>3. CASE SkipQuarantined
  <2>1. pass = "windows" /\ Done /\ UNCHANGED <<seen, noise, poison>> BY <1>3 DEF SkipQuarantined, At
  <2>2. SeenTyped' /\ noise' \subseteq Rows BY <2>1 DEF TypedInv, SeenTyped, HistoryTyped
  <2> QED BY <2>1, <2>2, DoneKeepsTypes
<1>4. CASE SkipPublished
  <2>1. pass = "windows" /\ Done /\ UNCHANGED <<seen, noise, poison>> BY <1>4 DEF SkipPublished, At
  <2>2. SeenTyped' /\ noise' \subseteq Rows BY <2>1 DEF TypedInv, SeenTyped, HistoryTyped
  <2> QED BY <2>1, <2>2, DoneKeepsTypes
<1>5. CASE IsNoise
  <2>1. pass = "windows" /\ Done /\ UNCHANGED <<seen, poison>> /\ noise' = noise \cup ToSet(W)
    BY <1>5 DEF IsNoise, At
  <2>2. ToSet(W) \subseteq Rows BY <2>1, HeadWindow DEF TypedInv
  <2>3. SeenTyped' /\ noise' \subseteq Rows BY <2>1, <2>2 DEF TypedInv, SeenTyped, HistoryTyped
  <2> QED BY <2>1, <2>3, DoneKeepsTypes
<1>6. CASE Resume
  <2> DEFINE e == Envelope(seen[Ref].rows, seen[Ref].hash)
  <2>1. pass = "windows" /\ Known /\ seen[Ref].status = "prepared" /\ Goes("publish", e)
        /\ UNCHANGED seen
    BY <1>6 DEF Resume, At, Status
  <2>2. seen[Ref] \in Entries BY <2>1, SaysWhere
  <2>3. e \in Envelopes
    <3>1. seen[Ref].rows \subseteq Rows /\ seen[Ref].hash \in Summaries BY <2>1, <2>2, EntriesAre
    <3> QED BY <3>1, EntriesAre
  <2> HIDE DEF e
  <2>4. SizesTyped' /\ AttemptsTyped' /\ RunTyped' /\ HistoryTyped' BY <2>1, <2>3, GoesTyped
  <2> QED BY <2>1, <2>4 DEF TypedInv, SeenTyped
<1>7. ASSUME NEW h \in Summaries, Prepare(h) PROVE TypedInv'
  <2> DEFINE e == Envelope(ToSet(W), h)
  <2>1. pass = "windows" /\ Keep("prepared", e) /\ Goes("publish", e) BY <1>7 DEF Prepare, At
  <2>a. ToSet(W) \subseteq Rows BY <2>1, HeadWindow DEF TypedInv
  <2>b. e \in Envelopes BY <2>a, EntriesAre
  <2> HIDE DEF e
  <2>2. SizesTyped' /\ AttemptsTyped' /\ RunTyped' /\ HistoryTyped' BY <2>1, <2>b, GoesTyped
  <2>3. SeenTyped' BY <2>1, <2>b, EntriesAre, KeptTyped
  <2> QED BY <2>2, <2>3 DEF TypedInv
<1>8. CASE Publish
  <2>1. pass = "windows" /\ step = "publish" /\ Goes("record", draft) /\ UNCHANGED seen
    BY <1>8 DEF Publish, At
  <2>2. draft \in Envelopes BY <2>1, SaysWhere
  <2>3. SizesTyped' /\ AttemptsTyped' /\ RunTyped' /\ HistoryTyped' BY <2>1, <2>2, GoesTyped
  <2> QED BY <2>1, <2>3 DEF TypedInv, SeenTyped
<1>9. CASE Record
  <2>1. /\ pass = "windows" /\ step = "record" /\ Keep("published", draft) /\ Done
        /\ UNCHANGED <<noise, poison>>
    BY <1>9 DEF Record, At
  <2>2. draft \in Envelopes BY <2>1, SaysWhere
  <2>3. SeenTyped' BY <2>1, <2>2, EntriesAre, KeptTyped
  <2>4. noise' \subseteq Rows BY <2>1 DEF TypedInv, HistoryTyped
  <2> QED BY <2>1, <2>3, <2>4, DoneKeepsTypes
<1>10. CASE Split BY <1>10, SplitTyped
<1>11. CASE WindowFails
  <2>1. pass = "windows" /\ Fail BY <1>11 DEF WindowFails, At
  <2> QED BY <2>1, FailTyped
<1>12. CASE TooLong
  <2>1. pass = "windows" /\ Quarantine /\ Abort BY <1>12 DEF TooLong, At
  <2>2. SeenTyped' /\ AttemptsTyped' /\ poison' \subseteq Rows BY <2>1, QuarantineTyped
  <2>3. SizesTyped' /\ RunTyped' BY <2>1, AbortTyped
  <2>4. HistoryTyped' BY <2>1, <2>2 DEF TypedInv, HistoryTyped, Abort
  <2> QED BY <2>2, <2>3, <2>4 DEF TypedInv
<1>13. CASE PublishFails
  <2>1. pass = "windows" /\ Fail BY <1>13 DEF PublishFails, At
  <2> QED BY <2>1, FailTyped
<1>14. CASE SaveOffset
  <2>1. SizesTyped' BY <1>14 DEF TypedInv, SizesTyped, SaveOffset
  <2>2. RunTyped' BY <1>14 DEF TypedInv, RunTyped, SaveOffset
  <2> QED BY <1>14, <2>1, <2>2 DEF TypedInv, SeenTyped, AttemptsTyped, HistoryTyped, SaveOffset, history
<1>15. CASE RunDies
  <2>1. SizesTyped' BY <1>15 DEF TypedInv, SizesTyped, RunDies, files
  <2>2. RunTyped'
    <3>1. <<>> \in Seq(Jobs) BY EmptySeq
    <3> QED BY <1>15, <3>1 DEF RunTyped, RunDies
  <2>3. HistoryTyped'
    <3>1. crashes \in 0..MaxCrashes /\ crashes < MaxCrashes /\ MaxCrashes \in Nat
      BY <1>15, TelegramAssumption DEF TypedInv, HistoryTyped, RunDies, TelegramAssumption
    <3>2. crashes + 1 \in 0..MaxCrashes BY <3>1
    <3> QED BY <1>15, <3>2 DEF TypedInv, HistoryTyped, RunDies
  <2> QED BY <1>15, <2>1, <2>2, <2>3 DEF TypedInv, SeenTyped, AttemptsTyped, RunDies, files
<1>16. CASE UNCHANGED vars
  BY <1>16 DEF TypedInv, SizesTyped, SeenTyped, AttemptsTyped, RunTyped, HistoryTyped, vars, files, run, history
<1> QED BY <1>1, <1>2, <1>3, <1>4, <1>5, <1>6, <1>7, <1>8, <1>9, <1>10, <1>11, <1>12, <1>13, <1>14,
           <1>15, <1>16 DEF Next, Run

LEMMA StartsTyped == Init => TypedInv
<1> SUFFICES ASSUME Init PROVE TypedInv OBVIOUS
<1>1. <<>> \in Seq(Jobs) /\ DOMAIN <<>> = {} BY EmptySeq
<1>2. MaxCrashes \in Nat /\ Len(Lines) \in Nat BY TelegramAssumption DEF TelegramAssumption
<1> QED BY <1>1, <1>2 DEF Init, TypedInv, SizesTyped, SeenTyped, AttemptsTyped, RunTyped, HistoryTyped

(***************************************************************************)
(* Every variable keeps its type, and the files of a run say what it does. *)
(***************************************************************************)
THEOREM TelegramTyped == Spec => []TypeOK
<1>1. TypedInv => TypeOK
  <2> SUFFICES ASSUME TypedInv PROVE TypeOK OBVIOUS
  <2>1. {size, saved, offset, ahead} \subseteq 0..Len(Lines)
    BY RowNumbers DEF TypedInv, SizesTyped
  <2>2. \A ref \in DOMAIN seen :
          /\ seen[ref].status \in {"prepared", "published", "quarantined"}
          /\ seen[ref].status = "quarantined" <=> seen[ref].hash = "none"
    <3> SUFFICES ASSUME NEW ref \in DOMAIN seen
                 PROVE  /\ seen[ref].status \in {"prepared", "published", "quarantined"}
                        /\ seen[ref].status = "quarantined" <=> seen[ref].hash = "none"
      OBVIOUS
    <3>1. seen[ref] \in Entries BY DEF TypedInv, SeenTyped
    <3>2. "none" \notin Summaries BY TelegramAssumption DEF TelegramAssumption
    <3>3. \/ seen[ref].status \in {"prepared", "published"} /\ seen[ref].hash \in Summaries
          \/ seen[ref].status = "quarantined" /\ seen[ref].hash = "none"
      BY <3>1, EntriesAre
    <3> QED BY <3>2, <3>3
  <2>3. \A k \in DOMAIN todo : todo[k].depth \in 0..MaxDepth /\ Len(todo[k].rows) \in 1..MaxRecords
    <3> SUFFICES ASSUME NEW k \in DOMAIN todo
                 PROVE  todo[k].depth \in 0..MaxDepth /\ Len(todo[k].rows) \in 1..MaxRecords
      OBVIOUS
    <3>1. todo \in Seq(Jobs) BY DEF TypedInv, RunTyped
    <3>2. todo[k] \in Jobs BY <3>1, LenProperties, ElementOfSeq
    <3> QED BY <3>2 DEF Jobs, Windows
  <2>4. /\ pass \in {"none", "windows", "save"} /\ (pass = "windows") = (todo # <<>>)
        /\ step \in {"look", "publish", "record"} /\ (step = "look") = (draft = NoEnvelope)
    <3>1. "none" \notin Summaries BY TelegramAssumption DEF TelegramAssumption
    <3>2. NoEnvelope \notin Envelopes BY <3>1 DEF NoEnvelope, Envelope, Envelopes
    <3> QED BY <3>2 DEF TypedInv, RunTyped
  <2>5. DOMAIN seen \subseteq SourceRefs /\ \A w \in DOMAIN attempts : attempts[w] \in 1..(PoisonAttempts - 1)
    BY DEF TypedInv, SeenTyped, AttemptsTyped
  <2>6. {noise, poison, invalid} \subseteq SUBSET Rows /\ crashes \in 0..MaxCrashes
    BY DEF TypedInv, HistoryTyped
  <2> QED BY <2>1, <2>2, <2>3, <2>4, <2>5, <2>6 DEF TypeOK
<1>2. Spec => []TypedInv BY StartsTyped, TypesKept, PTL DEF Spec
<1> QED BY <1>1, <1>2, PTL

-----------------------------------------------------------------------------------
(***************************************************************************)
(* The seen ledger.  An envelope is kept before it is published, so what   *)
(* the stream has under a source_ref is the payload the ledger has there,  *)
(* unless the ref is quarantined, and then nothing more is published.      *)
(***************************************************************************)

\* They are of the same rows and have the same payload: a message, an entry, an envelope.
Alike(m, e) == m.rows = e.rows /\ m.hash = e.hash

MessageKnown(m) ==
  /\ m = [ref |-> m.ref, rows |-> m.rows, hash |-> m.hash]
  /\ m.ref \in DOMAIN seen
  /\ seen[m.ref].status # "quarantined" => Alike(m, seen[m.ref])

AtHand ==
  step # "look" =>
    /\ Known /\ seen[Ref] = Entry("prepared", draft)
    /\ step = "record" => Message \in sent

LedgerAgrees ==
  /\ \A m \in sent : MessageKnown(m)
  /\ \A m, n \in sent : m.ref = n.ref => Alike(m, n)
  /\ \A ref \in DOMAIN seen : seen[ref].status = "published" => \E m \in sent : m.ref = ref

LedgerInv == AtHand /\ LedgerAgrees

LEMMA WhatGoesOut ==
  ASSUME TypedInv, LedgerInv, step # "look"
  PROVE  /\ Message = [ref |-> Ref, rows |-> Message.rows, hash |-> Message.hash]
         /\ Message.ref = Ref /\ Alike(Message, draft)
         /\ Ref \in DOMAIN seen /\ seen[Ref].status = "prepared" /\ Alike(seen[Ref], draft)
         /\ \A m \in sent : m.ref = Ref => Alike(m, draft)
         /\ pass = "windows"
<1>1. pass = "windows" BY SaysWhere
<1>2. Known /\ seen[Ref] = Entry("prepared", draft) BY DEF LedgerInv, AtHand
<1>3. /\ Message = [ref |-> Ref, rows |-> draft.rows, hash |-> draft.hash]
      /\ Message.ref = Ref /\ Message.rows = draft.rows /\ Message.hash = draft.hash
  BY DEF Message
<1>4. seen[Ref].status = "prepared" /\ Alike(seen[Ref], draft) /\ Ref \in DOMAIN seen
  BY <1>2 DEF Entry, Known, Alike
<1>5. \A m \in sent : m.ref = Ref => Alike(m, draft)
  BY <1>4 DEF LedgerInv, LedgerAgrees, MessageKnown, Alike
<1>6. Alike(Message, draft) BY <1>3 DEF Alike
<1> HIDE DEF Message
<1> QED BY <1>1, <1>3, <1>4, <1>5, <1>6

\* An entry that is set when the run looks at a window for the first time, or when what it
\* had prepared is published or given up.
LEMMA LedgerOfEntry ==
  ASSUME LedgerInv, NEW status, NEW envelope, Keep(status, envelope),
         \/ status = "quarantined"
         \/ Ref \notin DOMAIN seen
         \/ Alike(envelope, seen[Ref]) /\ seen[Ref].status # "quarantined",
         status = "published" => \E m \in sent' : m.ref = Ref,
         sent \subseteq sent',
         \A m \in sent' \ sent : /\ m = [ref |-> Ref, rows |-> m.rows, hash |-> m.hash]
                                 /\ status # "quarantined" => Alike(m, envelope)
                                 /\ \A n \in sent' : n.ref = Ref => Alike(n, m)
  PROVE  LedgerAgrees'
<1>a. LedgerAgrees BY DEF LedgerInv
<1>1. /\ DOMAIN seen' = DOMAIN seen \cup {Ref}
      /\ seen'[Ref] = Entry(status, envelope)
      /\ \A ref \in DOMAIN seen : ref # Ref => seen'[ref] = seen[ref]
  BY Kept
<1>2. seen'[Ref].status = status /\ Alike(seen'[Ref], envelope) BY <1>1 DEF Entry, Alike
<1>3. ASSUME NEW m \in sent' PROVE MessageKnown(m)'
  <2>1. CASE m \in sent
    <3>1. MessageKnown(m) BY <1>a, <2>1 DEF LedgerAgrees
    <3>2. CASE m.ref # Ref BY <1>1, <3>1, <3>2 DEF MessageKnown
    <3>3. CASE m.ref = Ref
      <4>1. Ref \in DOMAIN seen BY <3>1, <3>3 DEF MessageKnown
      <4>2. status # "quarantined" => Alike(m, envelope) BY <3>1, <3>3, <4>1 DEF MessageKnown, Alike
      <4>3. status # "quarantined" => Alike(m, seen'[Ref]) BY <1>2, <4>2 DEF Alike
      <4> QED BY <1>1, <1>2, <3>1, <3>3, <4>3 DEF MessageKnown
    <3> QED BY <3>2, <3>3
  <2>2. CASE m \in sent' \ sent
    <3> DEFINE r == Ref
    <3>1. m = [ref |-> r, rows |-> m.rows, hash |-> m.hash] /\ (status # "quarantined" => Alike(m, envelope))
      BY <2>2
    <3>2. DOMAIN seen' = DOMAIN seen \cup {r} /\ seen'[r].status = status /\ Alike(seen'[r], envelope)
      BY <1>1, <1>2
    <3> HIDE DEF r
    <3>3. m.ref = r BY <3>1
    <3>4. status # "quarantined" => Alike(m, seen'[r]) BY <3>1, <3>2 DEF Alike
    <3> QED BY <3>1, <3>2, <3>3, <3>4 DEF MessageKnown
  <2> QED BY <2>1, <2>2
<1>4. \A m, n \in sent' : m.ref = n.ref => Alike(m, n)
  <2> SUFFICES ASSUME NEW m \in sent', NEW n \in sent', m.ref = n.ref PROVE Alike(m, n) OBVIOUS
  <2>1. CASE m \in sent /\ n \in sent BY <1>a, <2>1 DEF LedgerAgrees
  <2>2. CASE m \in sent' \ sent
    <3>1. m.ref = Ref BY <2>2
    <3>2. Alike(n, m) BY <2>2, <3>1
    <3> QED BY <3>2 DEF Alike
  <2>3. CASE n \in sent' \ sent
    <3>1. n.ref = Ref BY <2>3
    <3> QED BY <2>3, <3>1
  <2> QED BY <2>1, <2>2, <2>3
<1>5. \A ref \in DOMAIN seen' : seen'[ref].status = "published" => \E m \in sent' : m.ref = ref
  <2> SUFFICES ASSUME NEW ref \in DOMAIN seen', seen'[ref].status = "published"
               PROVE  \E m \in sent' : m.ref = ref
    OBVIOUS
  <2>1. CASE ref = Ref BY <1>2, <2>1
  <2>2. CASE ref # Ref
    <3>1. ref \in DOMAIN seen /\ seen[ref].status = "published" BY <1>1, <2>2
    <3>2. \E m \in sent : m.ref = ref BY <1>a, <3>1 DEF LedgerAgrees
    <3> QED BY <3>2
  <2> QED BY <2>1, <2>2
<1> QED BY <1>3, <1>4, <1>5 DEF LedgerAgrees

LEMMA SameLedger ==
  ASSUME LedgerInv, UNCHANGED <<seen, sent>>, AtHand'
  PROVE  LedgerInv'
BY DEF LedgerInv, LedgerAgrees, MessageKnown

\* The message at hand is what the ledger has.
LEMMA LedgerOfMessage ==
  ASSUME TypedInv, LedgerInv, step # "look", sent' = sent \cup {Message}, seen' = seen
  PROVE  LedgerAgrees'
<1> DEFINE r == Ref
           m == Message
<1>1. /\ m = [ref |-> r, rows |-> m.rows, hash |-> m.hash]
      /\ m.ref = r /\ Alike(m, draft)
      /\ r \in DOMAIN seen /\ seen[r].status = "prepared" /\ Alike(seen[r], draft)
      /\ \A n \in sent : n.ref = r => Alike(n, draft)
  BY WhatGoesOut
<1>2. sent' = sent \cup {m} OBVIOUS
<1>a. LedgerAgrees BY DEF LedgerInv
<1> HIDE DEF r, m
<1>3. \A x \in sent' : MessageKnown(x)'
  <2> SUFFICES ASSUME NEW x \in sent' PROVE MessageKnown(x)' OBVIOUS
  <2>1. CASE x \in sent BY <1>a, <2>1 DEF LedgerAgrees, MessageKnown
  <2>2. CASE x \notin sent
    <3>1. x = m BY <1>2, <2>2
    <3>2. Alike(m, seen[r]) BY <1>1 DEF Alike
    <3> QED BY <1>1, <3>1, <3>2 DEF MessageKnown
  <2> QED BY <2>1, <2>2
<1>4. \A x, n \in sent' : x.ref = n.ref => Alike(x, n)
  <2>1. \A x, n \in sent : x.ref = n.ref => Alike(x, n) BY <1>a DEF LedgerAgrees
  <2>2. \A n \in sent : n.ref = m.ref => Alike(n, m) /\ Alike(m, n) BY <1>1 DEF Alike
  <2>3. Alike(m, m) BY DEF Alike
  <2> QED BY <1>2, <2>1, <2>2, <2>3
<1>5. \A ref \in DOMAIN seen' : seen'[ref].status = "published" => \E x \in sent' : x.ref = ref
  BY <1>a, <1>2 DEF LedgerAgrees
<1> QED BY <1>3, <1>4, <1>5 DEF LedgerAgrees

LEMMA FailLedger ==
  ASSUME TypedInv, LedgerInv, Fail,
         sent' = sent \/ (step # "look" /\ sent' = sent \cup {Message})
  PROVE  LedgerInv'
<1>1. AtHand' BY DEF Fail, Abort, AtHand
<1> DEFINE none == Envelope(ToSet(W), "none")
<1>2. CASE sent' = sent
  <2>1. CASE Quarantine
    <3>1. Keep("quarantined", none) BY <2>1 DEF Quarantine
    <3> HIDE DEF none
    <3>2. LedgerAgrees' BY <1>2, <3>1, LedgerOfEntry
    <3> QED BY <1>1, <3>2 DEF LedgerInv
  <2>2. CASE seen' = seen BY <1>1, <1>2, <2>2, SameLedger
  <2> QED BY <2>1, <2>2 DEF Fail
<1>3. CASE step # "look" /\ sent' = sent \cup {Message}
  <2>1. CASE Quarantine
    <3>1. Keep("quarantined", none) BY <2>1 DEF Quarantine
    <3> DEFINE r == Ref
               m == Message
    <3>2. /\ m = [ref |-> r, rows |-> m.rows, hash |-> m.hash]
          /\ Alike(m, draft) /\ \A n \in sent : n.ref = r => Alike(n, draft)
      BY <1>3, WhatGoesOut
    <3>3. sent' = sent \cup {m} BY <1>3
    <3>4. \A x \in sent' \ sent : /\ x = [ref |-> r, rows |-> x.rows, hash |-> x.hash]
                                  /\ \A n \in sent' : n.ref = r => Alike(n, x)
      <4> HIDE DEF r, m
      <4>1. \A n \in sent : n.ref = r => Alike(n, m) BY <3>2 DEF Alike
      <4>2. Alike(m, m) BY DEF Alike
      <4> QED BY <3>2, <3>3, <4>1, <4>2
    <3> HIDE DEF none
    <3>5. LedgerAgrees' BY <3>1, <3>3, <3>4, LedgerOfEntry
    <3> QED BY <1>1, <3>5 DEF LedgerInv
  <2>2. CASE seen' = seen
    <3>1. LedgerAgrees' BY <1>3, <2>2, LedgerOfMessage
    <3> QED BY <1>1, <3>1 DEF LedgerInv
  <2> QED BY <2>1, <2>2 DEF Fail
<1> QED BY <1>2, <1>3

LEMMA LedgerKept == TypedInv /\ LedgerInv /\ [Next]_vars => LedgerInv'
<1> SUFFICES ASSUME TypedInv, LedgerInv, [Next]_vars PROVE LedgerInv' OBVIOUS
<1>a. ASSUME step' = "look" PROVE AtHand' BY <1>a DEF AtHand
<1>b. pass # "windows" => step = "look" BY SaysWhere
<1>1. CASE AppendLine
  <2>1. UNCHANGED <<seen, sent>> /\ UNCHANGED <<todo, step, draft>> BY <1>1 DEF AppendLine, files, run
  <2>2. AtHand' BY <2>1 DEF LedgerInv, AtHand, Known, Message, Ref, W
  <2> QED BY <2>1, <2>2, SameLedger
<1>2. CASE StartPass
  <2>1. UNCHANGED <<seen, sent, step>> /\ pass = "none" BY <1>2 DEF StartPass
  <2>2. AtHand' BY <1>a, <1>b, <2>1
  <2> QED BY <2>1, <2>2, SameLedger
<1>3. CASE SkipQuarantined \/ SkipPublished \/ IsNoise
  <2>1. UNCHANGED <<seen, sent>> /\ step' = "look"
    BY <1>3 DEF SkipQuarantined, SkipPublished, IsNoise, Done
  <2> QED BY <1>a, <2>1, SameLedger
<1>4. CASE Resume
  <2> DEFINE e == Envelope(seen[Ref].rows, seen[Ref].hash)
  <2>1. /\ Known /\ seen[Ref].status = "prepared" /\ pass = "windows"
        /\ step' = "publish" /\ draft' = e /\ UNCHANGED <<seen, sent, todo>>
    BY <1>4 DEF Resume, At, Status, Goes
  <2>2. seen[Ref] = Entry("prepared", e)
    <3>1. seen[Ref] \in Entries BY <2>1, SaysWhere
    <3> DEFINE x == seen[Ref]
    <3>2. x \in Entries /\ x.status = "prepared" /\ e = [rows |-> x.rows, hash |-> x.hash]
      BY <2>1, <3>1 DEF Envelope
    <3> HIDE DEF x, e
    <3>3. x = [status |-> "prepared", rows |-> x.rows, hash |-> x.hash] BY <3>2 DEF Entries
    <3>4. e.rows = x.rows /\ e.hash = x.hash BY <3>2
    <3>5. x = Entry("prepared", e) BY <3>3, <3>4 DEF Entry
    <3> QED BY <3>5 DEF x
  <2> HIDE DEF e
  <2>3. AtHand'
    <3>1. Ref' = Ref BY <2>1 DEF Ref, W
    <3> QED BY <2>1, <2>2, <3>1 DEF AtHand, Known
  <2> QED BY <2>1, <2>3, SameLedger
<1>5. ASSUME NEW h \in Summaries, Prepare(h) PROVE LedgerInv'
  <2> DEFINE e == Envelope(ToSet(W), h)
  <2>1. /\ ~Known /\ Keep("prepared", e) /\ UNCHANGED <<sent, todo>>
        /\ step' = "publish" /\ draft' = e
    BY <1>5 DEF Prepare, Goes
  <2> HIDE DEF e
  <2>2. DOMAIN seen' = DOMAIN seen \cup {Ref} /\ seen'[Ref] = Entry("prepared", e) BY <2>1, Kept
  <2>3. AtHand'
    <3>1. Ref' = Ref BY <2>1 DEF Ref, W
    <3> QED BY <2>1, <2>2, <3>1 DEF AtHand, Known
  <2>4. LedgerAgrees'
    <3>1. Ref \notin DOMAIN seen BY <2>1 DEF Known
    <3> QED BY <2>1, <3>1, LedgerOfEntry
  <2> QED BY <2>3, <2>4 DEF LedgerInv
<1>6. CASE Publish
  <2>1. /\ step = "publish" /\ step' = "record" /\ draft' = draft /\ UNCHANGED <<seen, todo>>
        /\ sent' = sent \cup {Message}
    BY <1>6 DEF Publish, At, Goes
  <2>2. AtHand'
    <3>1. Ref' = Ref /\ Message' = Message BY <2>1 DEF Ref, W, Message
    <3>2. Known /\ seen[Ref] = Entry("prepared", draft) BY <2>1 DEF LedgerInv, AtHand
    <3> QED BY <2>1, <3>1, <3>2 DEF AtHand, Known
  <2>3. LedgerAgrees' BY <2>1, LedgerOfMessage
  <2> QED BY <2>2, <2>3 DEF LedgerInv
<1>7. CASE Record
  <2>1. step = "record" /\ Keep("published", draft) /\ step' = "look" /\ sent' = sent
    BY <1>7 DEF Record, At, Done
  <2>2. seen[Ref].status = "prepared" /\ Alike(draft, seen[Ref]) /\ Message.ref = Ref
    BY <2>1, WhatGoesOut DEF Alike
  <2>3. Message \in sent BY <2>1 DEF LedgerInv, AtHand
  <2>4. LedgerAgrees' BY <2>1, <2>2, <2>3, LedgerOfEntry
  <2> QED BY <1>a, <2>1, <2>4 DEF LedgerInv
<1>8. CASE Split
  <2>1. UNCHANGED <<seen, sent, step>> /\ step = "look" BY <1>8 DEF Split, At
  <2> QED BY <1>a, <2>1, SameLedger
<1>9. CASE WindowFails
  <2>1. Fail /\ sent' = sent BY <1>9 DEF WindowFails
  <2> QED BY <2>1, FailLedger
<1>10. CASE TooLong
  <2> DEFINE none == Envelope(ToSet(W), "none")
  <2>1. Keep("quarantined", none) /\ step' = "look" /\ sent' = sent
    BY <1>10 DEF TooLong, Quarantine, Abort
  <2> HIDE DEF none
  <2>2. LedgerAgrees' BY <2>1, LedgerOfEntry
  <2> QED BY <1>a, <2>1, <2>2 DEF LedgerInv
<1>11. CASE PublishFails
  <2>1. Fail /\ step # "look" /\ sent' \in {sent, sent \cup {Message}} BY <1>11 DEF PublishFails, At
  <2> QED BY <2>1, FailLedger
<1>12. CASE SaveOffset
  <2>1. UNCHANGED <<seen, sent, step>> /\ pass = "save" BY <1>12 DEF SaveOffset
  <2> QED BY <1>a, <1>b, <2>1, SameLedger
<1>13. CASE RunDies
  <2>1. UNCHANGED <<seen, sent>> /\ step' = "look" BY <1>13 DEF RunDies, files
  <2> QED BY <1>a, <2>1, SameLedger
<1>14. CASE UNCHANGED vars
  <2>1. UNCHANGED <<seen, sent>> /\ UNCHANGED <<todo, step, draft>> BY <1>14 DEF vars, files, run
  <2>2. AtHand' BY <2>1 DEF LedgerInv, AtHand, Known, Message, Ref, W
  <2> QED BY <2>1, <2>2, SameLedger
<1> QED BY <1>1, <1>2, <1>3, <1>4, <1>5, <1>6, <1>7, <1>8, <1>9, <1>10, <1>11, <1>12, <1>13, <1>14
        DEF Next, Run

LEMMA StartsLedger == Init => LedgerInv
BY DEF Init, LedgerInv, LedgerAgrees, AtHand

(***************************************************************************)
(* Whatever failed or died on the way, one source_ref stands for one       *)
(* payload: an envelope is in the seen ledger before it goes out, and what *)
(* is published or published again is what the ledger has.                 *)
(***************************************************************************)
THEOREM PayloadsAgree == Spec => []OnePayloadPerRef
<1>1. LedgerInv => OnePayloadPerRef
  <2> SUFFICES ASSUME LedgerInv, NEW m \in sent, NEW n \in sent, m.ref = n.ref PROVE m = n
    BY DEF OnePayloadPerRef
  <2>1. /\ m = [ref |-> m.ref, rows |-> m.rows, hash |-> m.hash]
        /\ n = [ref |-> n.ref, rows |-> n.rows, hash |-> n.hash]
    BY DEF LedgerInv, LedgerAgrees, MessageKnown
  <2>2. m.hash = n.hash /\ m.rows = n.rows BY DEF LedgerInv, LedgerAgrees, Alike
  <2> QED BY <2>1, <2>2
<1>2. Init => TypedInv /\ LedgerInv BY StartsTyped, StartsLedger
<1>3. TypedInv /\ LedgerInv /\ [Next]_vars => (TypedInv /\ LedgerInv)' BY TypesKept, LedgerKept
<1>4. Spec => [](TypedInv /\ LedgerInv) BY <1>2, <1>3, PTL DEF Spec
<1> QED BY <1>1, <1>4, PTL

-----------------------------------------------------------------------------------
(***************************************************************************)
(* The offset.  It stays behind the windows of the read until the last of  *)
(* them has come to an end, and each has when its rows are accounted for:  *)
(* noise, in a message, in a quarantine row, or late.  A window whose ref  *)
(* the ledger knows has the rows of the entry, and others that were        *)
(* written after its last one: what was written before was read, if the    *)
(* offset had not passed it, when the entry was made.                      *)
(***************************************************************************)

Accounted(i) == Settled(i) \/ Overtaken(i)
Passed(n) == \A i \in 1..n : Accounted(i) \/ \E j \in (i + 1)..n : Lines[j].kind = "invalid"
InWindow(i) == \E k \in 1..Len(todo) : i \in ToSet(todo[k].rows)

\* What is between the two ends of a ref and is not of the rows was passed or came later.
Closed(ref, rows) ==
  /\ Lines[ref[2]].kind = "record" /\ ref[2] \in rows
  /\ \A i \in Rows : Between(ref, i) => i <= saved \/ i \in rows \/ i > ref[2]
Ledgered ==
  \A ref \in DOMAIN seen :
    /\ Closed(ref, seen[ref].rows)
    /\ seen[ref].status = "quarantined" => seen[ref].rows \subseteq poison

OffsetInv ==
  /\ Passed(saved)
  /\ pass # "none" => saved <= offset /\ Passed(offset)
  /\ pass = "windows" =>
       /\ saved <= ahead /\ \A k \in 1..Len(todo) : Dense(todo[k].rows, saved, ahead)
       /\ \A i \in (saved + 1)..ahead : Accounted(i) \/ InWindow(i)
  /\ Ledgered

Settles == noise \subseteq noise' /\ poison \subseteq poison' /\ invalid \subseteq invalid' /\ sent \subseteq sent'

LEMMA StaysSettled ==
  ASSUME Settles
  PROVE  /\ \A i : Settled(i) => Settled(i)'
         /\ \A i : Accounted(i) => Accounted(i)'
         /\ \A n : Passed(n) =>
              \A i \in 1..n : Accounted(i)' \/ \E j \in (i + 1)..n : Lines[j].kind = "invalid"
<1>1. \A i : Settled(i) => Settled(i)' BY DEF Settles, Settled
<1>2. \A i : Accounted(i) => Accounted(i)' BY <1>1 DEF Accounted, Overtaken
<1>3. ASSUME NEW n, Passed(n), NEW i \in 1..n
      PROVE  Accounted(i)' \/ \E j \in (i + 1)..n : Lines[j].kind = "invalid"
  BY <1>2, <1>3 DEF Passed
<1> QED BY <1>1, <1>2, <1>3

\* The window at hand is what the read has between its ends.
LEMMA WindowAtHand ==
  ASSUME TypedInv, OffsetInv, pass = "windows"
  PROVE  /\ ToSet(W) = Segment(Ref, saved, ahead) /\ Ref[2] \in ToSet(W)
         /\ ToSet(W) \subseteq Rows /\ saved \in Nat /\ ahead \in Nat
<1>1. /\ W \in Windows /\ ToSet(W) \subseteq Rows /\ Head(todo) = todo[1]
      /\ Len(todo) \in Nat /\ Len(todo) >= 1
  BY HeadWindow DEF TypedInv
<1>2. Dense(W, saved, ahead)
  <2>1. 1 \in 1..Len(todo) BY <1>1
  <2>2. Dense(todo[1].rows, saved, ahead) BY <2>1 DEF OffsetInv
  <2>3. W = todo[1].rows BY <1>1 DEF W
  <2> QED BY <2>2, <2>3
<1>3. ToSet(W) = Segment(Ref, saved, ahead) BY <1>1, <1>2, WindowIsSegment DEF Ref
<1>4. Ref[2] \in ToSet(W)
  <2>1. Len(W) \in DOMAIN W
    <3>1. DOMAIN W = 1..Len(W) /\ Len(W) \in Nat /\ Len(W) >= 1 BY <1>1, WindowType
    <3>2. Len(W) \in 1..Len(W) BY <3>1
    <3> QED BY <3>1, <3>2
  <2>2. Ref[2] = W[Len(W)] BY DEF Ref
  <2> QED BY <2>1, <2>2 DEF ToSet
<1>5. saved \in Nat /\ ahead \in Nat BY RowNumbers DEF TypedInv, SizesTyped
<1> QED BY <1>1, <1>3, <1>4, <1>5

LEMMA WindowCloses ==
  ASSUME TypedInv, OffsetInv, pass = "windows"
  PROVE  Closed(Ref, ToSet(W))
<1> DEFINE r == Ref
           S == ToSet(W)
<1>1. /\ S = Segment(r, saved, ahead) /\ r[2] \in S /\ S \subseteq Rows
      /\ saved \in Nat /\ ahead \in Nat
  BY WindowAtHand
<1> HIDE DEF r, S
<1>2. Lines[r[2]].kind = "record" /\ r[2] \in (saved + 1)..ahead BY <1>1 DEF Segment, Between
<1>3. ASSUME NEW i \in Rows, Between(r, i) PROVE i <= saved \/ i \in S \/ i > r[2]
  <2>1. i \in Nat BY RowNumbers
  <2>2. i \in (saved + 1)..ahead => i \in S BY <1>1, <1>3 DEF Segment
  <2>3. i <= saved \/ i \in (saved + 1)..ahead \/ i > ahead BY <1>1, <2>1
  <2>4. i > ahead => i > r[2] BY <1>1, <1>2, <2>1
  <2> QED BY <2>2, <2>3, <2>4
<1>4. Closed(r, S) BY <1>1, <1>2, <1>3 DEF Closed
<1> QED BY <1>4 DEF r, S

\* With the rows of the entry of its ref, a window is accounted for: the others are late.
LEMMA EntryAccounts ==
  ASSUME TypedInv, OffsetInv, pass = "windows", Known, \A j \in seen[Ref].rows : Settled(j)
  PROVE  \A i \in ToSet(W) : Accounted(i)
<1> DEFINE r == Ref
           S == ToSet(W)
           R == seen[Ref].rows
<1>1. /\ S = Segment(r, saved, ahead) /\ r[2] \in S /\ S \subseteq Rows
      /\ saved \in Nat /\ ahead \in Nat
  BY WindowAtHand
<1>2. Closed(r, R) BY DEF OffsetInv, Ledgered, Known
<1>3. \A j \in R : Settled(j) OBVIOUS
<1> HIDE DEF r, S, R
<1>4. ASSUME NEW i \in S PROVE Accounted(i)
  <2>1. Between(r, i) /\ i \in (saved + 1)..ahead /\ i \in Rows BY <1>1 DEF Segment
  <2>2. ~(i <= saved) BY <1>1, <2>1
  <2>3. i \in R \/ i > r[2] BY <1>2, <2>1, <2>2 DEF Closed
  <2>4. CASE i \in R BY <1>3, <2>4 DEF Accounted
  <2>5. CASE i > r[2]
    <3> DEFINE j == r[2]
    <3>1. /\ j \in Rows /\ j \in R /\ Lines[j].kind = "record" /\ i > j
          /\ Lines[i].chat = Lines[j].chat /\ AtMost(i, j)
      BY <1>1, <1>2, <2>1, <2>5 DEF Closed, Between
    <3> HIDE DEF j
    <3>2. i \in Nat /\ j \in Nat /\ j >= 1 BY <2>1, <3>1, RowNumbers
    <3>3. i # j /\ j \in 1..(i - 1) BY <3>1, <3>2
    <3>4. <<i, j>> \in TimeOrder BY <3>1, <3>3 DEF AtMost
    <3>5. Settled(j) BY <1>3, <3>1
    <3>6. Overtaken(i) BY <3>1, <3>3, <3>4, <3>5 DEF Overtaken
    <3> QED BY <3>6 DEF Accounted
  <2> QED BY <2>3, <2>4, <2>5
<1> QED BY <1>4 DEF S

LEMMA WindowSettles ==
  ASSUME TypedInv, OffsetInv, pass = "windows", Done, Settles, Ledgered',
         \A i \in ToSet(W) : Accounted(i)'
  PROVE  OffsetInv'
<1>1. /\ Len(todo) \in Nat /\ Len(todo) >= 1 /\ Head(todo) = todo[1]
      /\ Len(Tail(todo)) = Len(todo) - 1
      /\ \A k \in 1..Len(Tail(todo)) : Tail(todo)[k] = todo[k + 1]
  BY HeadWindow DEF TypedInv
<1>2. todo' = Tail(todo) /\ UNCHANGED <<saved, ahead>> BY DEF Done
<1>3. \/ Len(todo) = 1 /\ pass' = "save" /\ offset' = ahead
      \/ Len(todo) # 1 /\ pass' = pass /\ offset' = offset
  BY DEF Done
<1>4. /\ Passed(saved) /\ Passed(offset) /\ saved <= ahead /\ saved <= offset
      /\ \A k \in 1..Len(todo) : Dense(todo[k].rows, saved, ahead)
      /\ \A i \in (saved + 1)..ahead : Accounted(i) \/ InWindow(i)
  BY DEF OffsetInv
<1>5. Passed(saved)' BY <1>2, <1>4, StaysSettled DEF Passed
<1>6. \A i \in (saved + 1)..ahead : Accounted(i)' \/ InWindow(i)'
  <2> SUFFICES ASSUME NEW i \in (saved + 1)..ahead, InWindow(i), ~Accounted(i)' PROVE InWindow(i)'
    BY <1>4, StaysSettled
  <2>1. PICK k \in 1..Len(todo) : i \in ToSet(todo[k].rows) BY DEF InWindow
  <2>2. k # 1 BY <1>1, <2>1 DEF W
  <2> DEFINE h == k - 1
  <2>3. h \in 1..Len(Tail(todo)) /\ h + 1 = k BY <1>1, <2>2
  <2> HIDE DEF h
  <2>4. Tail(todo)[h] = todo[k] BY <1>1, <2>3
  <2> QED BY <1>2, <2>1, <2>3, <2>4 DEF InWindow
<1>7. CASE Len(todo) # 1
  <2>1. Passed(offset)' BY <1>3, <1>4, <1>7, StaysSettled DEF Passed
  <2>2. \A k \in 1..Len(todo') : Dense(todo'[k].rows, saved, ahead)
    <3> SUFFICES ASSUME NEW k \in 1..Len(Tail(todo)) PROVE Dense(Tail(todo)[k].rows, saved, ahead)
      BY <1>2
    <3> DEFINE h == k + 1
    <3>1. h \in 1..Len(todo) /\ Tail(todo)[k] = todo[h] BY <1>1
    <3> HIDE DEF h
    <3> QED BY <1>4, <3>1
  <2>3. saved' <= offset' /\ saved' <= ahead' BY <1>2, <1>3, <1>4, <1>7
  <2>4. \A k \in 1..Len(todo') : Dense(todo'[k].rows, saved', ahead') BY <1>2, <2>2
  <2>5. \A i \in (saved' + 1)..ahead' : Accounted(i)' \/ InWindow(i)' BY <1>2, <1>6
  <2>6. pass' = "windows" BY <1>3, <1>7
  <2> QED BY <1>5, <2>1, <2>3, <2>4, <2>5, <2>6 DEF OffsetInv
<1>8. CASE Len(todo) = 1
  <2>1. \A i \in (saved + 1)..ahead : Accounted(i)'
    <3>1. Len(todo') = 0 /\ 1..0 = {} BY <1>1, <1>2, <1>8
    <3>2. \A i : ~InWindow(i)' BY <3>1 DEF InWindow
    <3> QED BY <1>6, <3>2
  <2>2. saved \in Nat /\ ahead \in Nat BY RowNumbers DEF TypedInv, SizesTyped
  <2>3. \A i \in 1..ahead : Accounted(i)' \/ \E j \in (i + 1)..ahead : Lines[j].kind = "invalid"
    <3> SUFFICES ASSUME NEW i \in 1..ahead
                 PROVE  Accounted(i)' \/ \E j \in (i + 1)..ahead : Lines[j].kind = "invalid"
      OBVIOUS
    <3>1. CASE i \in (saved + 1)..ahead BY <2>1, <3>1
    <3>2. CASE i \in 1..saved
      <4>1. Accounted(i)' \/ \E j \in (i + 1)..saved : Lines[j].kind = "invalid"
        BY <1>4, <3>2, StaysSettled
      <4>2. \A j \in (i + 1)..saved : j \in (i + 1)..ahead BY <1>4, <2>2
      <4> QED BY <4>1, <4>2
    <3> QED BY <2>2, <3>1, <3>2
  <2>4. Passed(offset)' /\ saved' <= offset'
    <3>1. offset' = ahead BY <1>3, <1>8
    <3> QED BY <1>2, <1>4, <2>3, <3>1 DEF Passed
  <2>5. pass' = "save" BY <1>3, <1>8
  <2> QED BY <1>5, <2>4, <2>5 DEF OffsetInv
<1> QED BY <1>7, <1>8

LEMMA SameEntries ==
  ASSUME OffsetInv, UNCHANGED <<saved, seen>>, poison \subseteq poison'
  PROVE  Ledgered'
BY DEF OffsetInv, Ledgered, Closed

LEMMA EntryKept ==
  ASSUME OffsetInv, NEW status, NEW envelope, Keep(status, envelope),
         saved' = saved, poison \subseteq poison', Closed(Ref, envelope.rows),
         status = "quarantined" => envelope.rows \subseteq poison'
  PROVE  Ledgered'
<1>1. /\ DOMAIN seen' = DOMAIN seen \cup {Ref}
      /\ seen'[Ref] = Entry(status, envelope)
      /\ \A ref \in DOMAIN seen : ref # Ref => seen'[ref] = seen[ref]
  BY Kept
<1>2. seen'[Ref].status = status /\ seen'[Ref].rows = envelope.rows BY <1>1 DEF Entry
<1>3. \A ref, rows : Closed(ref, rows) => Closed(ref, rows)' BY DEF Closed
<1>4. ASSUME NEW ref \in DOMAIN seen'
      PROVE  /\ Closed(ref, seen'[ref].rows)
             /\ seen'[ref].status = "quarantined" => seen'[ref].rows \subseteq poison'
  <2>1. CASE ref = Ref BY <1>2, <2>1
  <2>2. CASE ref # Ref
    <3>1. ref \in DOMAIN seen /\ seen'[ref] = seen[ref] BY <1>1, <2>2
    <3> QED BY <3>1 DEF OffsetInv, Ledgered
  <2> QED BY <2>1, <2>2
<1> QED BY <1>4 DEF Ledgered, Closed

LEMMA AbortKeeps ==
  ASSUME OffsetInv, pass = "windows", Abort, Settles, Ledgered'
  PROVE  OffsetInv'
<1>1. pass' = "save" /\ UNCHANGED <<saved, offset>> BY DEF Abort
<1>2. Passed(saved) /\ Passed(offset) /\ saved <= offset BY DEF OffsetInv
<1>3. Passed(saved)' /\ Passed(offset)' BY <1>1, <1>2, StaysSettled DEF Passed
<1> QED BY <1>1, <1>2, <1>3 DEF OffsetInv

LEMMA QuarantineKeeps ==
  ASSUME TypedInv, OffsetInv, pass = "windows", Quarantine, Abort, sent \subseteq sent'
  PROVE  OffsetInv'
<1> DEFINE e == Envelope(ToSet(W), "none")
<1>1. Keep("quarantined", e) /\ poison' = poison \cup ToSet(W) /\ e.rows = ToSet(W)
  BY DEF Quarantine, Envelope
<1>2. saved' = saved BY DEF Abort
<1> HIDE DEF e
<1>3. Closed(Ref, e.rows) BY <1>1, WindowCloses
<1>4. Ledgered' BY <1>1, <1>2, <1>3, EntryKept
<1>5. Settles BY <1>1 DEF Settles, Abort
<1> QED BY <1>4, <1>5, AbortKeeps

LEMMA FailKeeps ==
  ASSUME TypedInv, OffsetInv, pass = "windows", Fail, sent \subseteq sent'
  PROVE  OffsetInv'
<1>1. Abort BY DEF Fail
<1>2. CASE Quarantine BY <1>1, <1>2, QuarantineKeeps
<1>3. CASE UNCHANGED <<seen, poison>>
  <2>1. Settles /\ saved' = saved BY <1>1, <1>3 DEF Settles, Abort
  <2>2. Ledgered' BY <1>3, <2>1, SameEntries
  <2> QED BY <1>1, <2>1, <2>2, AbortKeeps
<1> QED BY <1>2, <1>3 DEF Fail

LEMMA OffsetStays ==
  ASSUME OffsetInv, UNCHANGED <<saved, pass, offset, ahead, todo, noise, poison, invalid>>,
         sent \subseteq sent', Ledgered'
  PROVE  OffsetInv'
<1>1. Settles BY DEF Settles
<1>2. Passed(saved)' /\ (pass # "none" => saved <= offset /\ Passed(offset)')
  <2>1. Passed(saved) /\ (pass # "none" => saved <= offset /\ Passed(offset)) BY DEF OffsetInv
  <2> QED BY <1>1, <2>1, StaysSettled DEF Passed
<1>3. pass = "windows" => \A i \in (saved + 1)..ahead : Accounted(i)' \/ InWindow(i)'
  <2>1. pass = "windows" => \A i \in (saved + 1)..ahead : Accounted(i) \/ InWindow(i) BY DEF OffsetInv
  <2>2. \A i : InWindow(i)' <=> InWindow(i) BY DEF InWindow
  <2> QED BY <1>1, <2>1, <2>2, StaysSettled
<1>4. pass = "windows" =>
        saved <= ahead /\ \A k \in 1..Len(todo) : Dense(todo[k].rows, saved, ahead)'
  <2>1. pass = "windows" =>
          saved <= ahead /\ \A k \in 1..Len(todo) : Dense(todo[k].rows, saved, ahead)
    BY DEF OffsetInv
  <2> QED BY <2>1 DEF Dense, Segment
<1> QED BY <1>2, <1>3, <1>4 DEF OffsetInv

\* A pass reads from the saved offset on; an invalid row is settled at once and takes the
\* offset with it, and all others are in a window.
LEMMA StartPassKeeps ==
  ASSUME TypedInv, OffsetInv, StartPass
  PROVE  OffsetInv'
<1>1. /\ ReadEnd \in saved..size /\ ReadEnd \in 0..Len(Lines) /\ Read \in Seq(Windows)
      /\ \A k \in 1..Len(Read) : Dense(Read[k], saved, ReadEnd)
      /\ ahead' = ReadEnd /\ invalid' = invalid \cup InvalidRead
      /\ Len(todo') = Len(Read) /\ \A k \in 1..Len(Read) : todo'[k].rows = Read[k]
      /\ \/ todo' = <<>> /\ pass' = "save" /\ offset' = ReadEnd /\ Len(Read) = 0
         \/ /\ todo' # <<>> /\ pass' = "windows"
            /\ \/ InvalidRead = {} /\ offset' = saved
               \/ offset' = Max(InvalidRead) /\ offset' \in InvalidRead
                  /\ \A j \in InvalidRead : j <= offset'
      /\ offset' \in saved..ReadEnd
      /\ UNCHANGED <<size, saved, seen, step, draft, sent, noise, poison, crashes>>
  BY PassStarts
<1>2. saved \in 0..Len(Lines) /\ saved \in Nat /\ ReadEnd \in Nat /\ Len(Lines) \in Nat /\ saved <= ReadEnd
  BY <1>1, RowNumbers DEF TypedInv, SizesTyped
<1>3. Settles BY <1>1 DEF Settles
<1>4. Passed(saved) BY DEF OffsetInv
<1>5. Passed(saved)'
  <2>1. \A i \in 1..saved : Accounted(i)' \/ \E j \in (i + 1)..saved : Lines[j].kind = "invalid"
    BY <1>3, <1>4, StaysSettled
  <2> QED BY <1>1, <2>1 DEF Passed
<1>6. \A i \in (saved + 1)..ReadEnd : Accounted(i)' \/ \E k \in 1..Len(Read) : i \in ToSet(Read[k])
  <2> SUFFICES ASSUME NEW i \in (saved + 1)..ReadEnd
               PROVE  Accounted(i)' \/ \E k \in 1..Len(Read) : i \in ToSet(Read[k])
    OBVIOUS
  <2>1. i \in Rows BY <1>1, <1>2, RowNumbers
  <2>2. CASE Lines[i].kind = "invalid"
    <3>1. i \in InvalidRead BY <2>2 DEF InvalidRead, OfKind
    <3> QED BY <1>1, <3>1 DEF Accounted, Settled
  <2>3. CASE Lines[i].kind = "record"
    <3>1. \A j \in (saved + 1)..ReadEnd : Lines[j].kind = "record" =>
            \E k \in 1..Len(Read) : j \in ToSet(Read[k])
      BY <1>1, <1>2, WindowsCover DEF Read
    <3> QED BY <2>3, <3>1
  <2> QED BY <2>1, <2>2, <2>3, RowNumbers
<1>7. Ledgered'
  <2>1. UNCHANGED <<saved, seen, poison>> BY <1>1
  <2> QED BY <2>1, SameEntries
<1>8. pass' = "windows" =>
        /\ saved' <= ahead' /\ \A k \in 1..Len(todo') : Dense(todo'[k].rows, saved', ahead')
        /\ \A i \in (saved' + 1)..ahead' : Accounted(i)' \/ InWindow(i)'
  <2>1. \A i : (\E k \in 1..Len(Read) : i \in ToSet(Read[k])) => InWindow(i)' BY <1>1 DEF InWindow
  <2>2. \A k \in 1..Len(todo') : Dense(todo'[k].rows, saved', ahead') BY <1>1
  <2> QED BY <1>1, <1>2, <1>6, <2>1, <2>2
<1>9. Passed(offset)'
  <2> DEFINE o == offset'
  <2> SUFFICES ASSUME NEW i \in 1..o
               PROVE  Accounted(i)' \/ \E j \in (i + 1)..o : Lines[j].kind = "invalid"
    BY DEF Passed
  <2>1. o \in saved..ReadEnd BY <1>1
  <2>2. CASE i <= saved
    <3>1. Accounted(i)' \/ \E j \in (i + 1)..saved : Lines[j].kind = "invalid"
      <4>1. i \in 1..saved BY <1>2, <2>2
      <4> QED BY <1>3, <1>4, <4>1, StaysSettled
    <3>2. \A j \in (i + 1)..saved : j \in (i + 1)..o BY <1>2, <2>1
    <3> HIDE DEF o
    <3> QED BY <3>1, <3>2
  <2>3. CASE ~(i <= saved)
    <3>1. i \in (saved + 1)..ReadEnd BY <1>2, <2>1, <2>3
    <3>2. CASE Len(Read) = 0
      <4>1. 1..Len(Read) = {} BY <3>2
      <4> QED BY <1>6, <3>1, <4>1
    <3>3. CASE InvalidRead = {} /\ o = saved BY <1>2, <2>3, <3>3
    <3>4. CASE o \in InvalidRead
      <4>1. CASE i = o
        <5>1. i \in invalid' BY <1>1, <3>4, <4>1
        <5> QED BY <5>1 DEF Accounted, Settled
      <4>2. CASE i # o
        <5>1. o \in (i + 1)..o BY <1>2, <2>1, <4>2
        <5>2. Lines[o].kind = "invalid" BY <3>4 DEF InvalidRead, OfKind
        <5> QED BY <5>1, <5>2
      <4> QED BY <4>1, <4>2
    <3> QED BY <1>1, <3>2, <3>3, <3>4
  <2> QED BY <1>2, <2>2, <2>3
<1>10. saved' <= offset' BY <1>1, <1>2
<1> QED BY <1>5, <1>7, <1>8, <1>9, <1>10 DEF OffsetInv

LEMMA SplitKeeps ==
  ASSUME TypedInv, OffsetInv, Split
  PROVE  OffsetInv'
<1>1. /\ pass = "windows" /\ Len(W) > 1
      /\ UNCHANGED <<saved, seen, pass, offset, ahead, noise, poison, invalid, sent>>
      /\ todo' = [k \in 1..2 |-> [rows |-> Halves(W)[k], depth |-> Head(todo).depth + 1]] \o Tail(todo)
  BY DEF Split, At, history
<1>2. /\ W \in Windows /\ Tail(todo) \in Seq(Jobs) /\ Head(todo) = todo[1]
      /\ Len(todo) \in Nat /\ Len(todo) >= 1 /\ Len(Tail(todo)) = Len(todo) - 1
      /\ \A k \in 1..Len(Tail(todo)) : Tail(todo)[k] = todo[k + 1]
  BY <1>1, HeadWindow DEF TypedInv
<1>3. /\ ToSet(W) \subseteq ToSet(Halves(W)[1]) \cup ToSet(Halves(W)[2])
      /\ Dense(Halves(W)[1], saved, ahead) /\ Dense(Halves(W)[2], saved, ahead)
  <2>1. \A k \in 1..Len(todo) : Dense(todo[k].rows, saved, ahead) BY <1>1 DEF OffsetInv
  <2>2. 1 \in 1..Len(todo) /\ W = todo[1].rows BY <1>2 DEF W
  <2>3. Dense(W, saved, ahead) BY <2>1, <2>2
  <2> QED BY <1>1, <1>2, <2>3, HalvesWindows
<1> DEFINE two == [k \in 1..2 |-> [rows |-> Halves(W)[k], depth |-> Head(todo).depth + 1]]
           rest == Tail(todo)
           r == todo'
<1>4. /\ Len(r) = Len(rest) + 2
      /\ r[1].rows = Halves(W)[1] /\ r[2].rows = Halves(W)[2]
      /\ \A k \in 1..Len(rest) : r[k + 2] = rest[k]
  <2>1. two \in Seq(Jobs) /\ Len(two) = 2
    <3>1. Halves(W)[1] \in Windows /\ Halves(W)[2] \in Windows BY <1>1, <1>2, HalvesWindows
    <3>2. Head(todo).depth + 1 \in 0..MaxDepth
      <4>1. Head(todo) \in Jobs /\ Head(todo).depth < MaxDepth BY <1>1, HeadWindow DEF TypedInv, Split
      <4> QED BY <4>1, TelegramAssumption DEF Jobs, TelegramAssumption
    <3>3. \A k \in 1..2 : two[k] \in Jobs BY <3>1, <3>2 DEF Jobs
    <3>4. two \in [1..2 -> Jobs] BY <3>3
    <3> HIDE DEF two
    <3>5. two \in Seq(Jobs) BY <3>4, SeqDef
    <3>6. Len(two) \in Nat /\ DOMAIN two = 1..Len(two) BY <3>5, LenProperties
    <3>7. 1..Len(two) = 1..2 BY <3>4, <3>6
    <3> QED BY <3>5, <3>6, <3>7
  <2>2. two[1].rows = Halves(W)[1] /\ two[2].rows = Halves(W)[2] OBVIOUS
  <2>3. r = two \o rest /\ rest \in Seq(Jobs) BY <1>1, <1>2
  <2> HIDE DEF two, rest, r
  <2>4. Len(rest) \in Nat BY <2>3, LenProperties
  <2>5. /\ Len(r) = 2 + Len(rest)
        /\ \A i \in 1..(2 + Len(rest)) : r[i] = IF i <= 2 THEN two[i] ELSE rest[i - 2]
    <3>1. /\ Len(two \o rest) = Len(two) + Len(rest)
          /\ \A i \in 1..(Len(two) + Len(rest)) :
               (two \o rest)[i] = IF i <= Len(two) THEN two[i] ELSE rest[i - Len(two)]
      BY <2>1, <2>3, ConcatProperties
    <3> QED BY <2>1, <2>3, <3>1
  <2>6. r[1] = two[1] /\ r[2] = two[2] BY <2>4, <2>5
  <2>7. \A k \in 1..Len(rest) : r[k + 2] = rest[k]
    <3> SUFFICES ASSUME NEW k \in 1..Len(rest) PROVE r[k + 2] = rest[k] OBVIOUS
    <3>1. k + 2 \in 1..(2 + Len(rest)) /\ ~(k + 2 <= 2) /\ k + 2 - 2 = k BY <2>4
    <3> QED BY <2>5, <3>1
  <2> QED BY <2>2, <2>4, <2>5, <2>6, <2>7
<1> HIDE DEF r, rest, two
<1>5. ASSUME NEW i, InWindow(i) PROVE InWindow(i)'
  <2> SUFFICES \E k \in 1..Len(r) : i \in ToSet(r[k].rows) BY DEF InWindow, r
  <2>1. Len(rest) \in Nat BY <1>2 DEF rest
  <2>2. PICK k \in 1..Len(todo) : i \in ToSet(todo[k].rows) BY <1>5 DEF InWindow
  <2>3. CASE k = 1
    <3>1. i \in ToSet(Halves(W)[1]) \/ i \in ToSet(Halves(W)[2]) BY <1>2, <1>3, <2>2, <2>3 DEF W
    <3>2. 1 \in 1..Len(r) /\ 2 \in 1..Len(r) BY <1>4, <2>1
    <3> QED BY <1>4, <3>1, <3>2
  <2>4. CASE k # 1
    <3> DEFINE h == k - 1
    <3>1. h \in 1..Len(rest) /\ h + 1 = k BY <1>2, <2>4 DEF rest
    <3>2. h + 2 \in 1..Len(r) BY <1>4, <2>1, <3>1
    <3> HIDE DEF h
    <3>3. r[h + 2] = todo[k] BY <1>2, <1>4, <3>1 DEF rest
    <3> QED BY <2>2, <3>2, <3>3
  <2> QED BY <2>3, <2>4
<1>6. Settles /\ Ledgered'
  <2>1. Settles /\ UNCHANGED <<saved, seen, poison>> BY <1>1 DEF Settles
  <2> QED BY <2>1, SameEntries
<1>7. Passed(saved)' /\ Passed(offset)' /\ saved <= offset
  <2>1. Passed(saved) /\ Passed(offset) /\ saved <= offset BY <1>1 DEF OffsetInv
  <2> QED BY <1>1, <1>6, <2>1, StaysSettled DEF Passed
<1>8. saved <= ahead /\ \A i \in (saved + 1)..ahead : Accounted(i)' \/ InWindow(i)'
  <2>1. saved <= ahead /\ \A i \in (saved + 1)..ahead : Accounted(i) \/ InWindow(i) BY <1>1 DEF OffsetInv
  <2> QED BY <1>5, <1>6, <2>1, StaysSettled
<1>9. \A k \in 1..Len(todo') : Dense(todo'[k].rows, saved, ahead)
  <2>1. \A k \in 1..Len(todo) : Dense(todo[k].rows, saved, ahead) BY <1>1 DEF OffsetInv
  <2>2. Len(rest) \in Nat BY <1>2 DEF rest
  <2> SUFFICES ASSUME NEW k \in 1..Len(r) PROVE Dense(r[k].rows, saved, ahead) BY DEF r
  <2>3. CASE k = 1 BY <1>3, <1>4, <2>3
  <2>4. CASE k = 2 BY <1>3, <1>4, <2>4
  <2>5. CASE k # 1 /\ k # 2
    <3> DEFINE h == k - 2
               g == k - 1
    <3>1. h \in 1..Len(rest) /\ h + 2 = k BY <1>4, <2>2, <2>5
    <3>2. g \in 1..Len(todo) /\ h + 1 = g BY <1>2, <1>4, <2>2, <2>5 DEF rest
    <3> HIDE DEF h, g
    <3>3. r[k] = rest[h] /\ rest[h] = todo[g] BY <1>2, <1>4, <3>1, <3>2 DEF rest
    <3> QED BY <2>1, <3>2, <3>3
  <2> QED BY <2>3, <2>4, <2>5
<1>10. pass' = "windows" /\ UNCHANGED <<saved, offset, ahead>> BY <1>1
<1> QED BY <1>6, <1>7, <1>8, <1>9, <1>10 DEF OffsetInv

LEMMA OffsetKept == TypedInv /\ LedgerInv /\ OffsetInv /\ [Next]_vars => OffsetInv'
<1> SUFFICES ASSUME TypedInv, LedgerInv, OffsetInv, [Next]_vars PROVE OffsetInv' OBVIOUS
<1>1. CASE AppendLine
  <2>1. UNCHANGED <<saved, seen, pass, offset, ahead, todo, noise, poison, invalid, sent>>
    BY <1>1 DEF AppendLine, files, run, history
  <2> QED BY <2>1, OffsetStays, SameEntries
<1>2. CASE StartPass BY <1>2, StartPassKeeps
<1>3. CASE SkipQuarantined
  <2>1. /\ pass = "windows" /\ Done /\ Known /\ seen[Ref].status = "quarantined"
        /\ UNCHANGED <<saved, seen, sent, noise, poison, invalid>>
    BY <1>3 DEF SkipQuarantined, At, Status, Done
  <2>2. seen[Ref].rows \subseteq poison BY <2>1 DEF OffsetInv, Ledgered, Known
  <2>3. \A j \in seen[Ref].rows : Settled(j) BY <2>2 DEF Settled
  <2>4. Settles BY <2>1 DEF Settles
  <2>5. \A i \in ToSet(W) : Accounted(i)' BY <2>1, <2>3, <2>4, EntryAccounts, StaysSettled
  <2>6. Ledgered' BY <2>1, SameEntries
  <2> QED BY <2>1, <2>4, <2>5, <2>6, WindowSettles
<1>4. CASE SkipPublished
  <2>1. /\ pass = "windows" /\ Done /\ Known /\ seen[Ref].status = "published"
        /\ UNCHANGED <<saved, seen, sent, noise, poison, invalid>>
    BY <1>4 DEF SkipPublished, At, Status, Done
  <2>2. PICK m \in sent : m.ref = Ref BY <2>1 DEF LedgerInv, LedgerAgrees, Known
  <2>3. m.rows = seen[Ref].rows BY <2>1, <2>2 DEF LedgerInv, LedgerAgrees, MessageKnown, Alike
  <2>4. \A j \in seen[Ref].rows : Settled(j) BY <2>3 DEF Settled
  <2>5. Settles BY <2>1 DEF Settles
  <2>6. \A i \in ToSet(W) : Accounted(i)' BY <2>1, <2>4, <2>5, EntryAccounts, StaysSettled
  <2>7. Ledgered' BY <2>1, SameEntries
  <2> QED BY <2>1, <2>5, <2>6, <2>7, WindowSettles
<1>5. CASE IsNoise
  <2>1. /\ pass = "windows" /\ Done /\ noise' = noise \cup ToSet(W)
        /\ UNCHANGED <<saved, seen, sent, poison, invalid>>
    BY <1>5 DEF IsNoise, At, Done
  <2>2. \A i \in ToSet(W) : Accounted(i)' BY <2>1 DEF Accounted, Settled
  <2>3. Settles BY <2>1 DEF Settles
  <2>4. Ledgered' BY <2>1, SameEntries
  <2> QED BY <2>1, <2>2, <2>3, <2>4, WindowSettles
<1>6. CASE Resume
  <2>1. UNCHANGED <<saved, seen, pass, offset, ahead, todo, noise, poison, invalid, sent>>
    BY <1>6 DEF Resume, Goes, history
  <2> QED BY <2>1, OffsetStays, SameEntries
<1>7. ASSUME NEW h \in Summaries, Prepare(h) PROVE OffsetInv'
  <2> DEFINE e == Envelope(ToSet(W), h)
  <2>1. /\ Keep("prepared", e) /\ e.rows = ToSet(W) /\ pass = "windows"
        /\ UNCHANGED <<saved, pass, offset, ahead, todo, noise, poison, invalid, sent>>
    BY <1>7 DEF Prepare, At, Goes, history, Envelope
  <2> HIDE DEF e
  <2>2. Closed(Ref, e.rows) BY <2>1, WindowCloses
  <2>3. Ledgered' BY <2>1, <2>2, EntryKept
  <2> QED BY <2>1, <2>3, OffsetStays
<1>8. CASE Publish
  <2>1. /\ UNCHANGED <<saved, seen, pass, offset, ahead, todo, noise, poison, invalid>>
        /\ sent' = sent \cup {Message}
    BY <1>8 DEF Publish, Goes, history
  <2> QED BY <2>1, OffsetStays, SameEntries
<1>9. CASE Record
  <2>1. /\ pass = "windows" /\ step = "record" /\ Keep("published", draft) /\ Done
        /\ UNCHANGED <<saved, sent, noise, poison, invalid>>
    BY <1>9 DEF Record, At, Done
  <2>2. Message \in sent /\ Known /\ seen[Ref] = Entry("prepared", draft)
    BY <2>1 DEF LedgerInv, AtHand
  <2>3. Message.rows = draft.rows /\ seen[Ref].rows = draft.rows BY <2>2 DEF Message, Entry
  <2>4. \A j \in seen[Ref].rows : Settled(j) BY <2>2, <2>3 DEF Settled
  <2>5. Settles BY <2>1 DEF Settles
  <2>6. \A i \in ToSet(W) : Accounted(i)' BY <2>1, <2>2, <2>4, <2>5, EntryAccounts, StaysSettled
  <2>7. Closed(Ref, draft.rows) BY <2>2, <2>3 DEF OffsetInv, Ledgered, Known
  <2>8. Ledgered' BY <2>1, <2>7, EntryKept
  <2> QED BY <2>1, <2>5, <2>6, <2>8, WindowSettles
<1>10. CASE Split BY <1>10, SplitKeeps
<1>11. CASE WindowFails
  <2>1. pass = "windows" /\ Fail /\ sent' = sent BY <1>11 DEF WindowFails, At
  <2> QED BY <2>1, FailKeeps
<1>12. CASE TooLong
  <2>1. pass = "windows" /\ Quarantine /\ Abort /\ sent' = sent BY <1>12 DEF TooLong, At
  <2> QED BY <2>1, QuarantineKeeps
<1>13. CASE PublishFails
  <2>1. pass = "windows" /\ Fail /\ sent \subseteq sent' BY <1>13 DEF PublishFails, At
  <2> QED BY <2>1, FailKeeps
<1>14. CASE SaveOffset
  <2>1. /\ pass = "save" /\ saved' = offset /\ pass' = "none"
        /\ UNCHANGED <<seen, sent, noise, poison, invalid>>
    BY <1>14 DEF SaveOffset, history
  <2>2. Passed(offset) /\ saved <= offset BY <2>1 DEF OffsetInv
  <2>3. Settles BY <2>1 DEF Settles
  <2>4. Passed(saved)' BY <2>1, <2>2, <2>3, StaysSettled DEF Passed
  <2>5. saved \in Nat /\ offset \in Nat BY RowNumbers DEF TypedInv, SizesTyped
  <2>6. Ledgered'
    <3>1. \A ref, rows : Closed(ref, rows) => Closed(ref, rows)'
      <4>1. \A i \in Rows : i <= saved => i <= saved'
        <5>1. \A i \in Rows : i \in Nat BY RowNumbers
        <5> QED BY <2>1, <2>2, <2>5, <5>1
      <4> QED BY <4>1 DEF Closed
    <3> QED BY <2>1, <3>1 DEF OffsetInv, Ledgered
  <2> QED BY <2>1, <2>4, <2>6 DEF OffsetInv
<1>15. CASE RunDies
  <2>1. pass' = "none" /\ UNCHANGED <<saved, seen, sent, noise, poison, invalid>>
    BY <1>15 DEF RunDies, files
  <2>2. Passed(saved) BY DEF OffsetInv
  <2>3. Settles BY <2>1 DEF Settles
  <2>4. Passed(saved)' BY <2>1, <2>2, <2>3, StaysSettled DEF Passed
  <2>5. Ledgered' BY <2>1, SameEntries
  <2> QED BY <2>1, <2>4, <2>5 DEF OffsetInv
<1>16. CASE UNCHANGED vars
  <2>1. UNCHANGED <<saved, seen, pass, offset, ahead, todo, noise, poison, invalid, sent>>
    BY <1>16 DEF vars, files, run, history
  <2> QED BY <2>1, OffsetStays, SameEntries
<1> QED BY <1>1, <1>2, <1>3, <1>4, <1>5, <1>6, <1>7, <1>8, <1>9, <1>10, <1>11, <1>12, <1>13, <1>14,
           <1>15, <1>16 DEF Next, Run

LEMMA StartsOffset == Init => OffsetInv
BY DEF Init, OffsetInv, Passed, Ledgered

OffsetInvariant == TypedInv /\ LedgerInv /\ OffsetInv

LEMMA OffsetAlways == Spec => []OffsetInvariant
<1>1. Init => OffsetInvariant BY StartsTyped, StartsLedger, StartsOffset DEF OffsetInvariant
<1>2. OffsetInvariant /\ [Next]_vars => OffsetInvariant'
  BY TypesKept, LedgerKept, OffsetKept DEF OffsetInvariant
<1> QED BY <1>1, <1>2, PTL DEF Spec

(***************************************************************************)
(* Whatever times the records have and in whatever order they come, the    *)
(* saved offset passes a row only when it is in the stream, is noise or    *)
(* has a row that says it was given up, when an invalid row of the same    *)
(* read took the offset along, or when the row came behind one of its chat *)
(* that sorts after it and that had come to an end.                        *)
(***************************************************************************)
THEOREM OffsetsFollowOutcomes == Spec => []OffsetBehindOutcomes
<1>1. OffsetInvariant => OffsetBehindOutcomes
  BY DEF OffsetInvariant, OffsetInv, Passed, Accounted, OffsetBehindOutcomes
<1> QED BY <1>1, OffsetAlways, PTL

\* No record of its chat that was written before it sorts behind it.
InTime(i) ==
  \A j \in 1..(i - 1) :
    Lines[j].kind = "record" /\ Lines[j].chat = Lines[i].chat => <<i, j>> \notin TimeOrder

RecordsInTimeSettle ==
  \A i \in 1..saved :
    InTime(i) => Settled(i) \/ \E j \in (i + 1)..saved : Lines[j].kind = "invalid"

(***************************************************************************)
(* A record that is written in the order of time of its chat is never      *)
(* passed over for what became of another window: only late records are,   *)
(* and a chat that is written in order has none (processWindow).           *)
(***************************************************************************)
THEOREM InTimeNoneIsPassedOver == Spec => []RecordsInTimeSettle
<1>1. OffsetBehindOutcomes => RecordsInTimeSettle
  BY DEF OffsetBehindOutcomes, RecordsInTimeSettle, InTime, Overtaken
<1> QED BY <1>1, OffsetsFollowOutcomes, PTL
==================================================================================
