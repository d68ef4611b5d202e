---------------------------- MODULE EmbedQueueProofs ----------------------------
(***************************************************************************)
(* Proofs about EmbedQueue: the variables keep their types, no target that *)
(* is owed a vector loses both row and vector, and workers write few       *)
(* vectors for denied targets.                                             *)
(***************************************************************************)
EXTENDS EmbedQueue, FiniteSetTheorems, TLAPS

---------------------------------------------------------------------------------
\* Counting and choosing rows.

\* A proper subset of a finite set has fewer elements.
LEMMA FewerElements ==
  ASSUME NEW T, IsFiniteSet(T), NEW S \in SUBSET T, NEW x \in T, x \notin S
  PROVE  /\ IsFiniteSet(S) /\ Cardinality(S) \in Nat /\ Cardinality(T) \in Nat
         /\ Cardinality(S) < Cardinality(T)
<1>1. /\ IsFiniteSet(S)
      /\ Cardinality(S) <= Cardinality(T)
      /\ Cardinality(S) = Cardinality(T) => S = T
  BY FS_Subset
<1>2. Cardinality(S) \in Nat /\ Cardinality(T) \in Nat BY <1>1, FS_CardinalityType
<1> QED BY <1>1, <1>2

\* What a row is.
LEMMA RowFields ==
  ASSUME NEW row \in Rows
  PROVE  /\ row.id \in Nat /\ row.id \in 1..MaxRows /\ row.target \in Targets
         /\ row.model \in Models /\ row.attempts \in 0..AttemptCap /\ row.failed \in BOOLEAN
BY QueueAssumption DEF QueueAssumption, Rows

\* A batch with a row has a next job (claim_pending orders by enqueued_at).
LEMMA HasEarliest ==
  ASSUME NEW S, S \subseteq Rows, S # {}
  PROVE  Earliest(S) \in S /\ \A x \in S : Earliest(S).id <= x.id
<1> DEFINE T == {1..row.id : row \in S}
<1>1. T \subseteq FiniteSubsetsOf(Nat)
  <2> SUFFICES ASSUME NEW row \in S PROVE 1..row.id \in FiniteSubsetsOf(Nat) OBVIOUS
  <2>1. row.id \in Nat BY RowFields
  <2>2. IsFiniteSet(1..row.id) BY <2>1, FS_Interval
  <2>3. 1..row.id \in SUBSET Nat BY <2>1
  <2> QED BY <2>2, <2>3 DEF FiniteSubsetsOf
<1>2. T # {} OBVIOUS
<1>3. IsWellFoundedOn(StrictSubsetOrdering(Nat), FiniteSubsetsOf(Nat))
  BY FS_StrictSubsetOrderingWellFounded
<1>4. PICK I \in T : \A J \in T : ~(<<J, I>> \in StrictSubsetOrdering(Nat))
  BY <1>1, <1>2, <1>3, WFMin
<1>5. PICK row \in S : I = 1..row.id BY <1>4
<1>6. ASSUME NEW x \in S PROVE row.id <= x.id
  <2>1. row.id \in Nat /\ x.id \in Nat BY RowFields
  <2>2. SUFFICES ASSUME x.id < row.id PROVE FALSE BY <2>1
  <2>3. 1..x.id \in SUBSET Nat /\ 1..row.id \in SUBSET Nat /\ 1..x.id \subseteq 1..row.id
    BY <2>1, <2>2
  <2>4. 1..x.id # 1..row.id
    <3>1. row.id \in 1..row.id /\ row.id \notin 1..x.id BY <2>1, <2>2
    <3> QED BY <3>1
  <2>5. <<1..x.id, I>> \in StrictSubsetOrdering(Nat)
    BY <1>5, <2>3, <2>4 DEF StrictSubsetOrdering
  <2> QED BY <1>4, <2>5
<1> QED BY <1>6 DEF Earliest

\* Rows with different ids are few if their ids are.
DistinctIds(S) == \A x, y \in S : x.id = y.id => x = y

LEMMA RowsFinite ==
  ASSUME NEW S, S \subseteq Rows, DistinctIds(S)
  PROVE  IsFiniteSet(S)
<1> DEFINE f == [row \in S |-> row.id]
<1>1. f \in [S -> 1..MaxRows] BY RowFields
<1>2. f \in Injection(S, 1..MaxRows) BY <1>1 DEF Injection, DistinctIds, IsInjective
<1>3. IsFiniteSet(1..MaxRows) BY QueueAssumption, FS_Interval DEF QueueAssumption
<1> QED BY <1>2, <1>3, FS_Injection

\* A limited choice of the oldest rows has no more rows than the limit, and has one if
\* there is one (claim_pending's LIMIT).
LEMMA OldestFew ==
  ASSUME NEW S, S \subseteq Rows, DistinctIds(S), NEW n \in Nat
  PROVE  /\ Oldest(S, n) \subseteq S
         /\ IsFiniteSet(Oldest(S, n)) /\ Cardinality(Oldest(S, n)) \in 0..n
         /\ S # {} /\ n > 0 => Oldest(S, n) # {}
<1> DEFINE Older(x) == {y \in S : y.id < x.id}
           T == Oldest(S, n)
           f == [x \in T |-> Cardinality(Older(x))]
<1>1. IsFiniteSet(S) BY RowsFinite
<1>2. T \subseteq S /\ \A x \in T : Cardinality(Older(x)) < n BY DEF Oldest
<1>3. \A x \in S : x.id \in Nat BY RowFields
<1>4. \A x \in S : IsFiniteSet(Older(x)) /\ Cardinality(Older(x)) \in Nat
  BY <1>1, FS_Subset, FS_CardinalityType
<1>5. ASSUME NEW x \in S, NEW y \in S, x.id < y.id
      PROVE  Cardinality(Older(x)) < Cardinality(Older(y))
  <2>1. Older(x) \in SUBSET Older(y) BY <1>3, <1>5
  <2>2. x \in Older(y) /\ x \notin Older(x) BY <1>3, <1>5
  <2> HIDE DEF Older
  <2> QED BY <1>4, <2>1, <2>2, FewerElements
<1>6. f \in [T -> 0..n - 1]
  <2> SUFFICES ASSUME NEW x \in T PROVE Cardinality(Older(x)) \in 0..n - 1 OBVIOUS
  <2> QED BY <1>2, <1>4
<1>7. f \in Injection(T, 0..n - 1)
  <2> SUFFICES ASSUME NEW x \in T, NEW y \in T, f[x] = f[y] PROVE x = y
    BY <1>6 DEF Injection, IsInjective
  <2>1. x \in S /\ y \in S BY <1>2
  <2>2. Cardinality(Older(x)) = Cardinality(Older(y)) /\ Cardinality(Older(x)) \in Nat
    BY <1>4, <2>1
  <2>3. ~(x.id < y.id) /\ ~(y.id < x.id)
    <3> HIDE DEF Older
    <3> QED BY <1>5, <2>1, <2>2
  <2>4. x.id = y.id BY <1>3, <2>1, <2>3
  <2> QED BY <2>1, <2>4 DEF DistinctIds
<1>8. IsFiniteSet(0..n - 1) /\ Cardinality(0..n - 1) = n BY FS_Interval
<1>9. IsFiniteSet(T) /\ Cardinality(T) <= n
  <2> HIDE DEF f, T
  <2> QED BY <1>7, <1>8, FS_Injection
<1>10. Cardinality(T) \in Nat BY <1>9, FS_CardinalityType
<1>11. ASSUME S # {}, n > 0 PROVE T # {}
  <2>1. Earliest(S) \in S /\ \A x \in S : Earliest(S).id <= x.id BY <1>11, HasEarliest
  <2>2. Older(Earliest(S)) = {} BY <1>3, <2>1
  <2>3. Cardinality(Older(Earliest(S))) < n BY <1>11, <2>2, FS_EmptySet
  <2> QED BY <2>1, <2>3 DEF Oldest
<1> QED BY <1>2, <1>9, <1>10, <1>11

---------------------------------------------------------------------------------
\* The invariant.

QueueTyped ==
  /\ queue \subseteq Rows /\ rows \in 0..MaxRows
  /\ \A x, y \in queue : x.id = y.id \/ <<x.target, x.model>> = <<y.target, y.model>> => x = y
  /\ \A row \in queue : row.id <= rows

Labels == {"start", "idle", "claim", "read", "embed", "mark", "fail", "done"}

ProcsTyped ==
  /\ at \in [Processes -> Labels] /\ batch \in [Processes -> SUBSET Rows]
  /\ \A p \in Processes : batch[p] = {} <=> at[p] \in {"start", "idle", "done"}
  /\ gained \in [Processes -> BOOLEAN] /\ budget \in [Backfills -> 0..Limit]
  /\ \A b \in Backfills :
       /\ at[b] = "start" => budget[b] = Limit
       /\ at[b] = "idle" => budget[b] > 0
       /\ at[b] = "claim" => Cardinality(batch[b]) \in 0..budget[b]

RestTyped ==
  /\ thought \in [Thoughts -> {"absent", "active", "retracted"}]
  /\ chunks \subseteq {c \in Chunks : thought[Parent[c]] # "absent"}
  /\ vectors \subseteq Targets /\ owed \subseteq Targets
  /\ faults \in 0..MaxFaults /\ late \in [Targets -> Nat]

\* A process and the queue agree on what the row of an id is for.
IdsInv ==
  \A p \in Processes : \A job \in batch[p] :
    job.id <= rows /\ \A row \in queue : row.id = job.id => row.target = job.target

\* A row is deleted after the vector of its target was written.
MarkInv ==
  \A p \in Processes : at[p] = "mark" => Job(p).target \in vectors \/ Denied(Job(p).target)

\* The workers that will write a vector for a text they have read.
Readers(x) == {w \in Workers : at[w] = "embed" /\ Job(w).target = x}

LateInv ==
  Hygiene => \A x \in Targets :
    IF Denied(x) THEN late[x] + Cardinality(Readers(x)) <= Cardinality(Workers) ELSE late[x] = 0

Inv ==
  /\ QueueTyped /\ ProcsTyped /\ RestTyped
  /\ IdsInv /\ MarkInv /\ NothingLost /\ LateInv

LEMMA InvTypeOK == Inv => TypeOK
BY DEF Inv, QueueTyped, ProcsTyped, RestTyped, TypeOK, Labels

\* The job a process is at.
LEMMA JobTyped ==
  ASSUME ProcsTyped, NEW p \in Processes, at[p] \notin {"start", "idle", "done"}
  PROVE  Job(p) \in batch[p] /\ Job(p) \in Rows /\ Job(p).target \in Targets
<1>1. batch[p] \subseteq Rows /\ batch[p] # {} BY DEF ProcsTyped
<1>2. Job(p) \in batch[p] BY <1>1, HasEarliest DEF Job
<1> QED BY <1>1, <1>2, RowFields

---------------------------------------------------------------------------------
\* What keeps the parts of the invariant.

LEMMA QueueShrunk ==
  ASSUME QueueTyped, queue' \subseteq queue, rows' = rows
  PROVE  QueueTyped'
BY DEF QueueTyped

\* Rows are rewritten in place.
LEMMA QueueMapped ==
  ASSUME QueueTyped, NEW f, queue' = {f[row] : row \in queue}, rows' = rows,
         \A row \in queue : /\ f[row] \in Rows /\ f[row].id = row.id
                            /\ f[row].target = row.target /\ f[row].model = row.model
  PROVE  QueueTyped'
<1>1. queue' \subseteq Rows OBVIOUS
<1>2. ASSUME NEW x \in queue', NEW y \in queue',
             x.id = y.id \/ <<x.target, x.model>> = <<y.target, y.model>>
      PROVE  x = y
  <2>1. PICK r \in queue : x = f[r] OBVIOUS
  <2>2. PICK s \in queue : y = f[s] OBVIOUS
  <2>3. r.id = s.id \/ <<r.target, r.model>> = <<s.target, s.model>> BY <1>2, <2>1, <2>2
  <2>4. r = s BY <2>3 DEF QueueTyped
  <2> QED BY <2>1, <2>2, <2>4
<1>3. \A row \in queue' : row.id <= rows' BY DEF QueueTyped
<1> QED BY <1>1, <1>2, <1>3 DEF QueueTyped

\* Rows are added, with ids of their own (enqueue_embedding).
LEMMA EnqueuedRows ==
  ASSUME QueueTyped, NEW S \in SUBSET Targets, NEW m \in Models,
         rows + Cardinality(New(S, m)) <= MaxRows
  PROVE  /\ Enqueued(S, m) \subseteq Rows
         /\ rows + Cardinality(New(S, m)) \in rows..MaxRows
         /\ \A x \in Enqueued(S, m) :
              /\ rows < x.id /\ x.id <= rows + Cardinality(New(S, m))
              /\ x.model = m /\ x.target \in New(S, m)
         /\ \A x, y \in Enqueued(S, m) : x.id = y.id \/ x.target = y.target => x = y
         /\ \A t \in New(S, m) : \E x \in Enqueued(S, m) : x.target = t
<1> DEFINE N == New(S, m)
           Upto(x) == {y \in N : y <= x}
           row(x) == [id |-> rows + Cardinality(Upto(x)), target |-> x, model |-> m,
                      attempts |-> 0, failed |-> FALSE]
<1>1. N \subseteq Targets /\ N \subseteq Nat /\ IsFiniteSet(N)
  <2>1. N \in SUBSET Targets BY DEF New
  <2>2. IsFiniteSet(Targets) /\ Targets \subseteq Nat BY QueueAssumption DEF QueueAssumption
  <2> HIDE DEF N
  <2> QED BY <2>1, <2>2, FS_Subset
<1>2. Cardinality(N) \in Nat BY <1>1, FS_CardinalityType
<1> HIDE DEF N
<1>3. ASSUME NEW x \in N
      PROVE  Cardinality(Upto(x)) \in 1..Cardinality(N)
  <2>1. Upto(x) \in SUBSET N OBVIOUS
  <2>2. x \in Upto(x) BY <1>1
  <2> HIDE DEF Upto
  <2>3. IsFiniteSet(Upto(x)) /\ Cardinality(Upto(x)) <= Cardinality(N) BY <1>1, <2>1, FS_Subset
  <2>4. Cardinality(Upto(x)) \in Nat /\ Cardinality(Upto(x)) # 0
    BY <2>2, <2>3, FS_CardinalityType, FS_EmptySet
  <2> QED BY <1>2, <2>3, <2>4
<1>4. ASSUME NEW x \in N, NEW y \in N, x < y
      PROVE  Cardinality(Upto(x)) < Cardinality(Upto(y))
  <2>1. Upto(x) \in SUBSET Upto(y)
    <3>1. \A z \in N : z <= x => z <= y BY <1>1, <1>4
    <3> QED BY <3>1
  <2>2. y \in Upto(y) /\ y \notin Upto(x) BY <1>1, <1>4
  <2>3. Upto(y) \in SUBSET N OBVIOUS
  <2> HIDE DEF Upto
  <2>4. IsFiniteSet(Upto(y)) BY <1>1, <2>3, FS_Subset
  <2> QED BY <2>1, <2>2, <2>4, FewerElements
<1>5. Enqueued(S, m) = {row(x) : x \in N} BY DEF Enqueued, N
<1>6. rows \in Nat /\ MaxRows \in Nat /\ rows + Cardinality(N) <= MaxRows
  BY QueueAssumption DEF QueueAssumption, QueueTyped, N
<1>7. ASSUME NEW x \in N
      PROVE  /\ row(x) \in Rows /\ row(x).target = x /\ row(x).model = m
             /\ rows < row(x).id /\ row(x).id <= rows + Cardinality(N)
  <2> DEFINE n == rows + Cardinality(Upto(x))
  <2>1. n \in 1..MaxRows /\ rows < n /\ n <= rows + Cardinality(N)
    <3>1. Cardinality(Upto(x)) \in 1..Cardinality(N) BY <1>3
    <3> HIDE DEF Upto
    <3> QED BY <1>2, <1>6, <3>1
  <2>2. x \in Targets BY <1>1
  <2>3. 0 \in 0..AttemptCap BY QueueAssumption DEF QueueAssumption
  <2> HIDE DEF n
  <2>4. row(x) = [id |-> n, target |-> x, model |-> m, attempts |-> 0, failed |-> FALSE] BY DEF n
  <2> HIDE DEF row
  <2> QED BY <2>1, <2>2, <2>3, <2>4 DEF Rows
<1>8. ASSUME NEW x \in N, NEW y \in N, row(x).id = row(y).id PROVE x = y
  <2>1. Cardinality(Upto(x)) \in Nat /\ Cardinality(Upto(y)) \in Nat BY <1>3
  <2>2. Cardinality(Upto(x)) = Cardinality(Upto(y))
    <3>1. rows + Cardinality(Upto(x)) = rows + Cardinality(Upto(y)) BY <1>8
    <3> HIDE DEF Upto
    <3> QED BY <1>6, <2>1, <3>1
  <2>3. ~(x < y) /\ ~(y < x)
    <3> HIDE DEF Upto
    <3> QED BY <1>4, <2>1, <2>2
  <2> QED BY <1>1, <2>3
<1> HIDE DEF row
<1>9. \A x \in Enqueued(S, m) : \E t \in N : x = row(t) BY <1>5
<1>10. Enqueued(S, m) \subseteq Rows BY <1>7, <1>9
<1>11. rows + Cardinality(N) \in rows..MaxRows BY <1>2, <1>6
<1>12. \A x \in Enqueued(S, m) :
         /\ rows < x.id /\ x.id <= rows + Cardinality(N) /\ x.model = m /\ x.target \in N
  BY <1>7, <1>9
<1>13. \A x, y \in Enqueued(S, m) : x.id = y.id \/ x.target = y.target => x = y
  BY <1>7, <1>8, <1>9
<1>14. \A t \in N : \E x \in Enqueued(S, m) : x.target = t BY <1>5, <1>7
<1> QED BY <1>10, <1>11, <1>12, <1>13, <1>14 DEF N

LEMMA QueueExtended ==
  ASSUME QueueTyped, IdsInv, ProcsTyped, NEW S \in SUBSET Targets, NEW m \in Models,
         Enqueue(S, m), batch' = batch
  PROVE  /\ QueueTyped' /\ IdsInv'
         /\ queue \subseteq queue' /\ owed' = owed \cup S
         /\ \A t \in S : Queued(t)'
<1> DEFINE n == rows + Cardinality(New(S, m))
<1>1. queue' = queue \cup Enqueued(S, m) /\ rows' = n /\ owed' = owed \cup S BY DEF Enqueue
<1>2. /\ Enqueued(S, m) \subseteq Rows /\ n \in rows..MaxRows
      /\ \A x \in Enqueued(S, m) : rows < x.id /\ x.id <= n
      /\ \A x \in Enqueued(S, m) : x.model = m /\ x.target \in New(S, m)
      /\ \A x, y \in Enqueued(S, m) : x.id = y.id \/ x.target = y.target => x = y
      /\ \A t \in New(S, m) : \E x \in Enqueued(S, m) : x.target = t
  BY EnqueuedRows DEF Enqueue
<1> HIDE DEF n
<1>3. /\ queue \subseteq Rows /\ rows \in 0..MaxRows /\ \A x \in queue : x.id <= rows
      /\ \A x, y \in queue : x.id = y.id \/ <<x.target, x.model>> = <<y.target, y.model>> => x = y
  BY DEF QueueTyped
<1>4. MaxRows \in Nat /\ \A x \in Rows : x.id \in Nat
  BY QueueAssumption, RowFields DEF QueueAssumption
<1>5. \A x \in queue, y \in Enqueued(S, m) :
        x.id # y.id /\ <<x.target, x.model>> # <<y.target, y.model>>
  <2> SUFFICES ASSUME NEW x \in queue, NEW y \in Enqueued(S, m)
               PROVE  x.id # y.id /\ <<x.target, x.model>> # <<y.target, y.model>>
    OBVIOUS
  <2>1. x.id \in Nat /\ y.id \in Nat /\ x.id <= rows /\ rows < y.id BY <1>2, <1>3, <1>4
  <2>2. x.id # y.id BY <1>3, <2>1
  <2>3. x.target # y.target \/ x.model # y.model BY <1>2 DEF New
  <2> QED BY <2>2, <2>3
<1>6. QueueTyped'
  <2>1. queue' \subseteq Rows /\ rows' \in 0..MaxRows BY <1>1, <1>2, <1>3, <1>4
  <2>2. \A x, y \in queue' : x.id = y.id \/ <<x.target, x.model>> = <<y.target, y.model>> => x = y
    BY <1>1, <1>2, <1>3, <1>5
  <2>3. \A x \in queue' : x.id <= rows' BY <1>1, <1>2, <1>3, <1>4
  <2> QED BY <2>1, <2>2, <2>3 DEF QueueTyped
<1>7. IdsInv'
  <2> SUFFICES ASSUME NEW p \in Processes, NEW job \in batch[p]
               PROVE  /\ job.id <= rows'
                      /\ \A row \in queue' : row.id = job.id => row.target = job.target
    BY DEF IdsInv
  <2>1. job.id <= rows /\ \A row \in queue : row.id = job.id => row.target = job.target
    BY DEF IdsInv
  <2>2. job.id \in Nat BY <1>4 DEF ProcsTyped
  <2>3. job.id <= rows' BY <1>1, <1>2, <1>3, <1>4, <2>1, <2>2
  <2>4. \A row \in Enqueued(S, m) : row.id # job.id BY <1>2, <1>3, <1>4, <2>1, <2>2
  <2> QED BY <1>1, <2>1, <2>3, <2>4
<1>8. ASSUME NEW t \in S PROVE Queued(t)'
  <2>1. CASE t \in New(S, m) BY <1>1, <1>2, <2>1 DEF Queued
  <2>2. CASE t \notin New(S, m) BY <1>1, <2>2 DEF Queued, New
  <2> QED BY <2>1, <2>2
<1> QED BY <1>1, <1>6, <1>7, <1>8
---------------------------------------------------------------------------------
\* One process moves on.

Moved(p, label, B) ==
  /\ at' = [at EXCEPT ![p] = label]
  /\ batch' = [batch EXCEPT ![p] = B]

LEMMA MovedPointwise ==
  ASSUME ProcsTyped, NEW p \in Processes, NEW label, NEW B, Moved(p, label, B)
  PROVE  /\ at'[p] = label /\ batch'[p] = B /\ Job(p)' = Earliest(B)
         /\ \A q \in Processes : q # p => /\ at'[q] = at[q] /\ batch'[q] = batch[q]
                                          /\ Job(q)' = Job(q)
BY DEF Moved, ProcsTyped, Job

LEMMA ProcsMoved ==
  ASSUME ProcsTyped, NEW p \in Processes, NEW label \in Labels \ {"start"},
         NEW B \in SUBSET Rows, Moved(p, label, B), B = {} <=> label \in {"start", "idle", "done"},
         gained' \in [Processes -> BOOLEAN], budget' \in [Backfills -> 0..Limit],
         \A b \in Backfills : b # p => budget'[b] = budget[b],
         p \in Backfills /\ label = "idle" => budget'[p] > 0,
         p \in Backfills /\ label = "claim" => Cardinality(B) \in 0..budget'[p]
  PROVE  ProcsTyped'
<1>1. at' \in [Processes -> Labels] /\ batch' \in [Processes -> SUBSET Rows]
  BY DEF ProcsTyped, Moved
<1>2. /\ at'[p] = label /\ batch'[p] = B
      /\ \A q \in Processes : q # p => at'[q] = at[q] /\ batch'[q] = batch[q]
  BY MovedPointwise
<1>3. \A q \in Processes : batch'[q] = {} <=> at'[q] \in {"start", "idle", "done"}
  BY <1>2 DEF ProcsTyped
<1>4. Backfills \subseteq Processes BY DEF Processes
<1>5. ASSUME NEW b \in Backfills
      PROVE  /\ at'[b] = "start" => budget'[b] = Limit
             /\ at'[b] = "idle" => budget'[b] > 0
             /\ at'[b] = "claim" => Cardinality(batch'[b]) \in 0..budget'[b]
  <2>1. CASE b = p BY <1>2, <2>1
  <2>2. CASE b # p BY <1>2, <1>4, <2>2 DEF ProcsTyped
  <2> QED BY <2>1, <2>2
<1> QED BY <1>1, <1>3, <1>5 DEF ProcsTyped

\* A batch gets no rows but such as are queued.
LEMMA IdsMoved ==
  ASSUME ProcsTyped, IdsInv, NEW p \in Processes, NEW label, NEW B, Moved(p, label, B),
         B \subseteq batch[p] \cup queue, QueueTyped, rows' = rows,
         \A r \in queue' : \E s \in queue : s.id = r.id /\ s.target = r.target
  PROVE  IdsInv'
<1> SUFFICES ASSUME NEW q \in Processes, NEW job \in batch'[q]
             PROVE  job.id <= rows /\ \A row \in queue' : row.id = job.id => row.target = job.target
  BY DEF IdsInv
<1>1. job \in batch[q] \/ job \in queue BY MovedPointwise
<1>2. job.id <= rows /\ \A row \in queue : row.id = job.id => row.target = job.target
  BY <1>1 DEF IdsInv, QueueTyped
<1> QED BY <1>2

LEMMA MarksMoved ==
  ASSUME ProcsTyped, MarkInv, NEW p \in Processes, NEW label, NEW B, Moved(p, label, B),
         thought' = thought, \A x \in vectors : x \in vectors' \/ Denied(x),
         label = "mark" => Earliest(B).target \in vectors' \/ Denied(Earliest(B).target)
  PROVE  MarkInv'
<1>1. \A x : Denied(x)' <=> Denied(x) BY DEF Denied
<1> SUFFICES ASSUME NEW q \in Processes, at'[q] = "mark"
             PROVE  (Job(q).target \in vectors)' \/ Denied(Job(q)'.target)
  BY <1>1 DEF MarkInv
<1>2. CASE q = p BY <1>1, <1>2, MovedPointwise
<1>3. CASE q # p BY <1>1, <1>3, MovedPointwise DEF MarkInv
<1> QED BY <1>2, <1>3

\* Readers grow by those who have just read a text.
LEMMA ReadersMoved ==
  ASSUME ProcsTyped, NEW p \in Processes, NEW label, NEW B, Moved(p, label, B), NEW x
  PROVE  /\ Readers(x)' \in SUBSET (Readers(x) \cup {p})
         /\ ~(p \in Workers /\ label = "embed" /\ Earliest(B).target = x) => p \notin Readers(x)'
         /\ Readers(x) \in SUBSET Workers
<1>1. Workers \subseteq Processes BY DEF Processes
<1> QED BY <1>1, MovedPointwise DEF Readers

LEMMA ReadersCounted ==
  ASSUME NEW x, NEW S \in SUBSET Readers(x)
  PROVE  /\ IsFiniteSet(S) /\ Cardinality(S) \in Nat
         /\ Cardinality(Readers(x)) \in Nat /\ Cardinality(Workers) \in Nat
         /\ Cardinality(S) <= Cardinality(Readers(x))
         /\ Cardinality(Readers(x)) <= Cardinality(Workers)
         /\ \A w \in Readers(x) : w \notin S => Cardinality(S) < Cardinality(Readers(x))
<1>1. IsFiniteSet(Workers) BY QueueAssumption DEF QueueAssumption
<1>2. Readers(x) \in SUBSET Workers BY DEF Readers
<1>3. IsFiniteSet(Readers(x)) /\ Cardinality(Readers(x)) <= Cardinality(Workers)
  BY <1>1, <1>2, FS_Subset
<1>4. IsFiniteSet(S) /\ Cardinality(S) <= Cardinality(Readers(x)) BY <1>3, FS_Subset
<1>5. \A w \in Readers(x) : w \notin S => Cardinality(S) < Cardinality(Readers(x))
  BY <1>3, FewerElements
<1> QED BY <1>1, <1>3, <1>4, <1>5, FS_CardinalityType

LEMMA LateMoved ==
  ASSUME ProcsTyped, RestTyped, LateInv, NEW p \in Processes, NEW label, NEW B,
         Moved(p, label, B), thought' = thought, late' = late,
         Hygiene /\ p \in Workers /\ label = "embed" => ~Denied(Earliest(B).target)
  PROVE  LateInv'
<1>1. \A x : Denied(x)' <=> Denied(x) BY DEF Denied
<1> SUFFICES ASSUME Hygiene, NEW x \in Targets
             PROVE  IF Denied(x) THEN late[x] + Cardinality(Readers(x)') <= Cardinality(Workers)
                    ELSE late[x] = 0
  BY <1>1 DEF LateInv
<1>2. CASE ~Denied(x) BY <1>2 DEF LateInv
<1>3. CASE Denied(x)
  <2>1. ~(p \in Workers /\ label = "embed" /\ Earliest(B).target = x) BY <1>3
  <2>2. Readers(x)' \in SUBSET Readers(x) BY <2>1, ReadersMoved
  <2>3. /\ Cardinality(Readers(x)') \in Nat /\ Cardinality(Readers(x)) \in Nat
        /\ Cardinality(Workers) \in Nat /\ Cardinality(Readers(x)') <= Cardinality(Readers(x))
    BY <2>2, ReadersCounted
  <2>4. late[x] + Cardinality(Readers(x)) <= Cardinality(Workers) BY <1>3 DEF LateInv
  <2>5. late[x] \in Nat BY DEF RestTyped
  <2> QED BY <1>3, <2>3, <2>4, <2>5
<1> QED BY <1>2, <1>3

\* A worker that writes for a denied target is one reader less (insert_embedding).
LEMMA LateWritten ==
  ASSUME ProcsTyped, RestTyped, LateInv, NEW p \in Processes, at[p] = "embed", Write(p),
         NEW label, label # "embed", Moved(p, label, batch[p]), thought' = thought
  PROVE  LateInv' /\ late' \in [Targets -> Nat]
<1>1. \A x : Denied(x)' <=> Denied(x) BY DEF Denied
<1>2. Job(p).target \in Targets BY JobTyped
<1>3. late \in [Targets -> Nat] BY DEF RestTyped
<1>4. late' \in [Targets -> Nat] BY <1>2, <1>3 DEF Write
<1> SUFFICES ASSUME Hygiene, NEW x \in Targets
             PROVE  IF Denied(x) THEN late'[x] + Cardinality(Readers(x)') <= Cardinality(Workers)
                    ELSE late'[x] = 0
  BY <1>1, <1>4 DEF LateInv
<1>5. CASE ~Denied(x)
  <2>1. late'[x] = late[x]
    <3>1. CASE p \in Workers /\ Denied(Job(p).target) BY <1>2, <1>3, <1>5, <3>1 DEF Write
    <3>2. CASE ~(p \in Workers /\ Denied(Job(p).target)) BY <3>2 DEF Write
    <3> QED BY <3>1, <3>2
  <2> QED BY <1>5, <2>1 DEF LateInv
<1>6. CASE Denied(x)
  <2>1. Readers(x)' \in SUBSET Readers(x) /\ p \notin Readers(x)' BY ReadersMoved
  <2>2. /\ Cardinality(Readers(x)') \in Nat /\ Cardinality(Readers(x)) \in Nat
        /\ Cardinality(Workers) \in Nat /\ Cardinality(Readers(x)') <= Cardinality(Readers(x))
        /\ p \in Readers(x) => Cardinality(Readers(x)') < Cardinality(Readers(x))
    BY <2>1, ReadersCounted
  <2>3. late[x] + Cardinality(Readers(x)) <= Cardinality(Workers) BY <1>6 DEF LateInv
  <2>4. late[x] \in Nat BY <1>3
  <2>5. CASE p \in Workers /\ Job(p).target = x
    <3>1. p \in Readers(x) BY <2>5 DEF Readers
    <3>2. late'[x] = late[x] + 1 BY <1>2, <1>3, <1>6, <2>5 DEF Write
    <3> QED BY <1>6, <2>2, <2>3, <2>4, <3>1, <3>2
  <2>6. CASE ~(p \in Workers /\ Job(p).target = x)
    <3>1. late'[x] = late[x]
      <4>1. CASE p \in Workers /\ Denied(Job(p).target) BY <1>2, <1>3, <2>6, <4>1 DEF Write
      <4>2. CASE ~(p \in Workers /\ Denied(Job(p).target)) BY <4>2 DEF Write
      <4> QED BY <4>1, <4>2
    <3> QED BY <1>6, <2>2, <2>3, <2>4, <3>1
  <2> QED BY <2>5, <2>6
<1> QED BY <1>4, <1>5, <1>6

\* Rows and vectors that go were not needed.
LEMMA LostKept ==
  ASSUME NothingLost, thought' = thought, owed' \subseteq owed,
         \A x \in vectors : x \in vectors' \/ Denied(x),
         \A x \in owed' : Queued(x) /\ ~Denied(x) => Queued(x)' \/ x \in vectors'
  PROVE  NothingLost'
<1>1. \A x : Denied(x)' <=> Denied(x) BY DEF Denied
<1> QED BY <1>1 DEF NothingLost
---------------------------------------------------------------------------------
\* The steps of a drain keep the invariant.

LEMMA InvMoved ==
  ASSUME Inv, NEW p \in Processes, NEW label, NEW B, Moved(p, label, B),
         B \subseteq batch[p] \cup queue, QueueTyped', ProcsTyped', LateInv',
         late' \in [Targets -> Nat], faults' \in 0..MaxFaults,
         UNCHANGED <<corpus, rows, owed>>, vectors' \in SUBSET Targets, vectors \subseteq vectors',
         \A r \in queue' : \E s \in queue : s.id = r.id /\ s.target = r.target,
         \A s \in queue : \/ \E r \in queue' : r.target = s.target
                          \/ s.target \in vectors' \/ Denied(s.target),
         label = "mark" => Earliest(B).target \in vectors' \/ Denied(Earliest(B).target)
  PROVE  Inv'
<1>1. thought' = thought /\ chunks' = chunks /\ rows' = rows /\ owed' = owed BY DEF corpus
<1>2. RestTyped' BY <1>1 DEF Inv, RestTyped
<1>3. IdsInv' BY <1>1, IdsMoved DEF Inv
<1>4. MarkInv' BY <1>1, MarksMoved DEF Inv
<1>5. NothingLost'
  <2>1. \A x \in owed' : Queued(x) /\ ~Denied(x) => Queued(x)' \/ x \in vectors' BY DEF Queued
  <2> QED BY <1>1, <2>1, LostKept DEF Inv
<1> QED BY <1>2, <1>3, <1>4, <1>5 DEF Inv

LEMMA Stays ==
  ASSUME ProcsTyped, NEW p \in Processes, NEW label, GoTo(p, label), batch' = batch
  PROVE  Moved(p, label, batch[p])
BY DEF ProcsTyped, GoTo, Moved

LEMMA FaultTyped ==
  ASSUME RestTyped, Fault \/ UNCHANGED faults
  PROVE  faults' \in 0..MaxFaults
BY QueueAssumption DEF QueueAssumption, RestTyped, Fault

\* A process is a worker or a backfill.
LEMMA Roles ==
  ASSUME NEW p \in Processes
  PROVE  (p \in Workers \/ p \in Backfills) /\ ~(p \in Workers /\ p \in Backfills)
BY QueueAssumption DEF QueueAssumption, Processes

LEMMA ClaimKeeps ==
  ASSUME Inv, NEW p \in Processes, Claim(p)
  PROVE  Inv'
<1> DEFINE free == {row \in queue : ~Locked(row)}
           B == Oldest(free, Take(p))
<1>1. free # {} /\ batch' = [batch EXCEPT ![p] = B] BY DEF Claim
<1>2. Moved(p, "claim", B) BY <1>1 DEF Moved, Claim, GoTo
<1>3. /\ at[p] = "idle"
      /\ UNCHANGED <<thought, chunks, vectors, queue, rows, gained, budget, faults, owed, late>>
  BY DEF Claim, corpus
<1>4. free \subseteq queue /\ free \subseteq Rows /\ DistinctIds(free)
  BY DEF Inv, QueueTyped, DistinctIds
<1>5. Take(p) \in Nat /\ Take(p) > 0 /\ (p \in Backfills => Take(p) <= budget[p])
  BY <1>3, QueueAssumption, Roles DEF QueueAssumption, Take, Inv, ProcsTyped
<1> HIDE DEF free
<1>6. /\ B \subseteq free /\ IsFiniteSet(B) /\ Cardinality(B) \in 0..Take(p) /\ B # {}
  BY <1>1, <1>4, <1>5, OldestFew
<1> HIDE DEF B
<1>7. QueueTyped' BY <1>3 DEF Inv, QueueTyped
<1>8. ProcsTyped'
  <2>1. ProcsTyped /\ B \in SUBSET Rows BY <1>4, <1>6 DEF Inv
  <2>2. gained' \in [Processes -> BOOLEAN] /\ budget' \in [Backfills -> 0..Limit]
    BY <1>3 DEF Inv, ProcsTyped
  <2>3. p \in Backfills => Cardinality(B) \in 0..budget'[p]
    <3>1. p \in Backfills => budget[p] \in Nat
      BY QueueAssumption DEF QueueAssumption, Inv, ProcsTyped
    <3> QED BY <1>3, <1>5, <1>6, <3>1
  <2> QED BY <1>2, <1>3, <1>6, <2>1, <2>2, <2>3, ProcsMoved DEF Labels
<1>9. LateInv' BY <1>2, <1>3, LateMoved DEF Inv
<1>10. late' \in [Targets -> Nat] /\ faults' \in 0..MaxFaults /\ vectors' \in SUBSET Targets
  BY <1>3 DEF Inv, RestTyped
<1> QED BY <1>2, <1>3, <1>4, <1>6, <1>7, <1>8, <1>9, <1>10, InvMoved DEF corpus

LEMMA CommitClaimKeeps ==
  ASSUME Inv, NEW p \in Processes, CommitClaim(p)
  PROVE  Inv'
<1> DEFINE counted(row) == \E x \in batch[p] : x.id = row.id /\ row.attempts < AttemptCap
           f == [row \in queue |->
                   IF counted(row) THEN [row EXCEPT !.attempts = @ + 1] ELSE row]
<1>1. /\ at[p] = "claim" /\ queue' = {f[row] : row \in queue}
      /\ gained' = [gained EXCEPT ![p] = FALSE] /\ GoTo(p, "read")
      /\ UNCHANGED <<thought, chunks, vectors, rows, batch, faults, owed, late>>
      /\ budget' = IF p \in Backfills THEN [budget EXCEPT ![p] = @ - Cardinality(batch[p])]
                   ELSE budget
  BY Zenon DEF CommitClaim, corpus
<1>2. Moved(p, "read", batch[p]) BY <1>1, Stays DEF Inv
<1>3. ASSUME NEW row \in queue
      PROVE  /\ f[row] \in Rows /\ f[row].id = row.id
             /\ f[row].target = row.target /\ f[row].model = row.model
  <2>1. row \in Rows BY DEF Inv, QueueTyped
  <2>2. row.attempts < AttemptCap => row.attempts + 1 \in 0..AttemptCap
    BY <2>1, RowFields, QueueAssumption DEF QueueAssumption
  <2> HIDE DEF f
  <2>3. f[row] = row \/ (row.attempts < AttemptCap /\ f[row] = [row EXCEPT !.attempts = @ + 1])
    BY DEF f
  <2> QED BY <2>1, <2>2, <2>3 DEF Rows
<1> HIDE DEF f
<1>4. QueueTyped' BY <1>1, <1>3, QueueMapped DEF Inv
<1>5. ProcsTyped'
  <2>1. ProcsTyped /\ batch[p] \in SUBSET Rows /\ batch[p] # {} BY <1>1 DEF Inv, ProcsTyped
  <2>2. gained' \in [Processes -> BOOLEAN] BY <1>1 DEF Inv, ProcsTyped
  <2>3. budget' \in [Backfills -> 0..Limit] /\ \A b \in Backfills : b # p => budget'[b] = budget[b]
    <3>1. CASE p \in Backfills
      <4>1. Cardinality(batch[p]) \in 0..budget[p] /\ budget \in [Backfills -> 0..Limit]
        BY <1>1, <3>1 DEF Inv, ProcsTyped
      <4>2. budget[p] - Cardinality(batch[p]) \in 0..Limit
        BY <3>1, <4>1, QueueAssumption DEF QueueAssumption
      <4> QED BY <1>1, <3>1, <4>1, <4>2
    <3>2. CASE p \notin Backfills BY <1>1, <3>2 DEF Inv, ProcsTyped
    <3> QED BY <3>1, <3>2
  <2> QED BY <1>2, <2>1, <2>2, <2>3, ProcsMoved DEF Labels
<1>6. LateInv' BY <1>1, <1>2, LateMoved DEF Inv
<1>7. late' \in [Targets -> Nat] /\ faults' \in 0..MaxFaults /\ vectors' \in SUBSET Targets
  BY <1>1 DEF Inv, RestTyped
<1> QED BY <1>1, <1>2, <1>3, <1>4, <1>5, <1>6, <1>7, InvMoved DEF corpus

\* What NextJob does to the process.
LEMMA NextJobMoves ==
  ASSUME ProcsTyped, NEW p \in Processes, at[p] \notin {"start", "idle", "done"},
         NEW e \in BOOLEAN, NextJob(p, e)
  PROVE  /\ ProcsTyped'
         /\ \E label \in {"read", "idle", "done"} : Moved(p, label, batch[p] \ {Job(p)})
<1> DEFINE B == batch[p] \ {Job(p)}
           label == IF batch[p] # {Job(p)} THEN "read"
                    ELSE IF p \in Workers \/ (gained'[p] /\ budget[p] > 0) THEN "idle"
                    ELSE "done"
<1>1. batch' = [batch EXCEPT ![p] = B] BY DEF NextJob
<1>2. GoTo(p, label) /\ budget' = budget BY DEF NextJob
<1>3. Moved(p, label, B) BY <1>1, <1>2 DEF GoTo, Moved
<1>4. Job(p) \in batch[p] BY JobTyped
<1>5. B = {} <=> label \in {"start", "idle", "done"} BY <1>4
<1>6. gained' \in [Processes -> BOOLEAN] BY Zenon DEF NextJob, ProcsTyped
<1>7. label \in {"read", "idle", "done"} OBVIOUS
<1>8. p \in Backfills /\ label = "idle" => budget'[p] > 0 BY <1>2, Roles
<1>9. B \in SUBSET Rows BY DEF ProcsTyped
<1>10. budget' \in [Backfills -> 0..Limit] /\ \A b \in Backfills : budget'[b] = budget[b]
  BY <1>2 DEF ProcsTyped
<1> HIDE DEF B, label
<1>11. ProcsTyped' BY <1>3, <1>5, <1>6, <1>7, <1>8, <1>9, <1>10, ProcsMoved DEF Labels
<1> QED BY <1>3, <1>7, <1>11 DEF B

\* The row of the job is deleted, and no row of another target.
LEMMA DeleteKeeps ==
  ASSUME Inv, NEW p \in Processes, at[p] \notin {"start", "idle", "done"}, Delete(p),
         rows' = rows
  PROVE  /\ QueueTyped' /\ queue' \subseteq queue
         /\ \A s \in queue : s \in queue' \/ s.target = Job(p).target
<1>1. queue' \subseteq queue BY DEF Delete
<1>2. QueueTyped' BY <1>1, QueueShrunk DEF Inv
<1>3. Job(p) \in batch[p] BY JobTyped DEF Inv
<1> QED BY <1>1, <1>2, <1>3 DEF Delete, Inv, IdsInv

LEMMA SkipKeeps ==
  ASSUME Inv, NEW p \in Processes, Skip(p)
  PROVE  Inv'
<1>1. /\ at[p] = "read" /\ Denied(Job(p).target) /\ Delete(p) /\ NextJob(p, FALSE)
      /\ UNCHANGED <<thought, chunks, vectors, rows, faults, owed, late>>
  BY DEF Skip, Denies, corpus
<1>2. PICK label \in {"read", "idle", "done"} : Moved(p, label, batch[p] \ {Job(p)})
  BY <1>1, NextJobMoves DEF Inv
<1>3. ProcsTyped' BY <1>1, NextJobMoves DEF Inv
<1>4. /\ QueueTyped' /\ queue' \subseteq queue
      /\ \A s \in queue : s \in queue' \/ s.target = Job(p).target
  BY <1>1, DeleteKeeps
<1>5. LateInv' BY <1>1, <1>2, LateMoved DEF Inv
<1>6. late' \in [Targets -> Nat] /\ faults' \in 0..MaxFaults /\ vectors' \in SUBSET Targets
  BY <1>1 DEF Inv, RestTyped
<1>7. \A s \in queue : (\E r \in queue' : r.target = s.target) \/ Denied(s.target) BY <1>1, <1>4
<1> QED BY <1>1, <1>2, <1>3, <1>4, <1>5, <1>6, <1>7, InvMoved DEF corpus

\* A process goes on with the same batch, and the queue stays.
LEMMA GoOnKeeps ==
  ASSUME Inv, NEW p \in Processes, at[p] \notin {"start", "idle", "done"},
         NEW label \in {"read", "embed", "mark", "fail"}, GoTo(p, label), batch' = batch,
         UNCHANGED <<thought, chunks, queue, rows, gained, budget, owed>>,
         Fault \/ UNCHANGED faults, vectors' \in SUBSET Targets, vectors \subseteq vectors',
         LateInv', late' \in [Targets -> Nat],
         label = "mark" => Job(p).target \in vectors'
  PROVE  Inv'
<1>1. Moved(p, label, batch[p]) BY Stays DEF Inv
<1>2. QueueTyped' BY QueueShrunk DEF Inv
<1>3. ProcsTyped'
  <2>1. ProcsTyped /\ batch[p] \in SUBSET Rows /\ batch[p] # {} BY DEF Inv, ProcsTyped
  <2>2. gained' \in [Processes -> BOOLEAN] /\ budget' \in [Backfills -> 0..Limit]
    BY <2>1 DEF ProcsTyped
  <2> QED BY <1>1, <2>1, <2>2, ProcsMoved DEF Labels
<1>4. faults' \in 0..MaxFaults BY FaultTyped DEF Inv
<1> QED BY <1>1, <1>2, <1>3, <1>4, InvMoved DEF corpus, Job

LEMMA ReadKeeps ==
  ASSUME Inv, NEW p \in Processes, Read(p)
  PROVE  Inv'
<1>1. /\ at[p] = "read" /\ ~Denies(p) /\ GoTo(p, "embed")
      /\ UNCHANGED <<thought, chunks, vectors, queue, rows, batch, gained, budget, faults,
                     owed, late>>
  BY DEF Read, corpus
<1>2. Moved(p, "embed", batch[p]) BY <1>1, Stays DEF Inv
<1>3. Hygiene /\ p \in Workers => ~Denied(Earliest(batch[p]).target) BY <1>1 DEF Denies, Job
<1>4. LateInv' BY <1>1, <1>2, <1>3, LateMoved DEF Inv
<1>5. late' \in [Targets -> Nat] /\ vectors' \in SUBSET Targets BY <1>1 DEF Inv, RestTyped
<1> QED BY <1>1, <1>4, <1>5, GoOnKeeps

LEMMA ModelMismatchKeeps ==
  ASSUME Inv, NEW p \in Processes, ModelMismatch(p)
  PROVE  Inv'
<1>1. /\ at[p] = "read" /\ GoTo(p, "fail")
      /\ UNCHANGED <<thought, chunks, vectors, queue, rows, batch, gained, budget, faults,
                     owed, late>>
  BY DEF ModelMismatch, corpus
<1>2. Moved(p, "fail", batch[p]) BY <1>1, Stays DEF Inv
<1>3. LateInv' BY <1>1, <1>2, LateMoved DEF Inv
<1>4. late' \in [Targets -> Nat] /\ vectors' \in SUBSET Targets BY <1>1 DEF Inv, RestTyped
<1> QED BY <1>1, <1>3, <1>4, GoOnKeeps

\* A vector is written, and the process is told or not.
LEMMA WriteKeeps ==
  ASSUME Inv, NEW p \in Processes, at[p] = "embed", Write(p), NEW label \in {"mark", "fail"},
         GoTo(p, label), batch' = batch, Fault \/ UNCHANGED faults,
         UNCHANGED <<thought, chunks, queue, rows, gained, budget, owed>>
  PROVE  Inv'
<1>1. Moved(p, label, batch[p]) BY Stays DEF Inv
<1>2. LateInv' /\ late' \in [Targets -> Nat] BY <1>1, LateWritten DEF Inv
<1>3. Job(p).target \in Targets BY JobTyped DEF Inv
<1>4. vectors' \in SUBSET Targets /\ vectors \subseteq vectors' /\ Job(p).target \in vectors'
  BY <1>3 DEF Write, Inv, RestTyped
<1> QED BY <1>2, <1>4, GoOnKeeps

LEMMA InsertKeeps ==
  ASSUME Inv, NEW p \in Processes, Insert(p)
  PROVE  Inv'
BY WriteKeeps DEF Insert, corpus

\* A vector is there, or denied, when its row is deleted.
LEMMA MarkedJob ==
  ASSUME Inv, NEW p \in Processes, at[p] = "mark", Delete(p), rows' = rows, vectors' = vectors
  PROVE  /\ QueueTyped' /\ queue' \subseteq queue
         /\ \A s \in queue : \/ \E r \in queue' : r.target = s.target
                             \/ s.target \in vectors' \/ Denied(s.target)
<1>1. /\ QueueTyped' /\ queue' \subseteq queue
      /\ \A s \in queue : s \in queue' \/ s.target = Job(p).target
  BY DeleteKeeps
<1>2. Job(p).target \in vectors \/ Denied(Job(p).target) BY DEF Inv, MarkInv
<1> QED BY <1>1, <1>2

LEMMA MarkKeeps ==
  ASSUME Inv, NEW p \in Processes, Mark(p)
  PROVE  Inv'
<1>1. /\ at[p] = "mark" /\ Delete(p) /\ NextJob(p, TRUE)
      /\ UNCHANGED <<thought, chunks, vectors, rows, faults, owed, late>>
  BY DEF Mark, corpus
<1>2. PICK label \in {"read", "idle", "done"} : Moved(p, label, batch[p] \ {Job(p)})
  BY <1>1, NextJobMoves DEF Inv
<1>3. ProcsTyped' BY <1>1, NextJobMoves DEF Inv
<1>4. LateInv' BY <1>1, <1>2, LateMoved DEF Inv
<1>5. late' \in [Targets -> Nat] /\ faults' \in 0..MaxFaults /\ vectors' \in SUBSET Targets
  BY <1>1 DEF Inv, RestTyped
<1>6. /\ QueueTyped' /\ queue' \subseteq queue
      /\ \A s \in queue : \/ \E r \in queue' : r.target = s.target
                          \/ s.target \in vectors' \/ Denied(s.target)
  BY <1>1, MarkedJob
<1> QED BY <1>1, <1>2, <1>3, <1>4, <1>5, <1>6, InvMoved DEF corpus
LEMMA StepFailsKeeps ==
  ASSUME Inv, NEW p \in Processes, StepFails(p)
  PROVE  Inv'
<1>1. /\ at[p] \in {"read", "embed", "mark"} /\ Fault /\ GoTo(p, "fail")
      /\ UNCHANGED <<thought, chunks, rows, batch, gained, budget, owed>>
  BY DEF StepFails, corpus
<1>2. CASE UNCHANGED <<vectors, queue, late>>
  <2>1. Moved(p, "fail", batch[p]) BY <1>1, Stays DEF Inv
  <2>2. LateInv' BY <1>1, <1>2, <2>1, LateMoved DEF Inv
  <2>3. late' \in [Targets -> Nat] /\ vectors' \in SUBSET Targets BY <1>2 DEF Inv, RestTyped
  <2> QED BY <1>1, <1>2, <2>2, <2>3, GoOnKeeps
<1>3. CASE at[p] = "embed" /\ Write(p) /\ UNCHANGED queue BY <1>1, <1>3, WriteKeeps
<1>4. CASE at[p] = "mark" /\ Delete(p) /\ UNCHANGED <<vectors, late>>
  <2>1. Moved(p, "fail", batch[p]) BY <1>1, Stays DEF Inv
  <2>2. LateInv' BY <1>1, <1>4, <2>1, LateMoved DEF Inv
  <2>3. late' \in [Targets -> Nat] /\ vectors' \in SUBSET Targets BY <1>4 DEF Inv, RestTyped
  <2>4. /\ QueueTyped' /\ queue' \subseteq queue
        /\ \A s \in queue : \/ \E r \in queue' : r.target = s.target
                            \/ s.target \in vectors' \/ Denied(s.target)
    BY <1>1, <1>4, MarkedJob
  <2>5. ProcsTyped'
    <3>1. ProcsTyped /\ batch[p] \in SUBSET Rows /\ batch[p] # {} BY <1>1 DEF Inv, ProcsTyped
    <3>2. gained' \in [Processes -> BOOLEAN] /\ budget' \in [Backfills -> 0..Limit]
      BY <1>1 DEF Inv, ProcsTyped
    <3> QED BY <1>1, <2>1, <3>1, <3>2, ProcsMoved DEF Labels
  <2>6. faults' \in 0..MaxFaults BY <1>1, FaultTyped DEF Inv
  <2> QED BY <1>1, <1>4, <2>1, <2>2, <2>3, <2>4, <2>5, <2>6, InvMoved DEF corpus
<1> QED BY <1>2, <1>3, <1>4 DEF StepFails

LEMMA FailKeeps ==
  ASSUME Inv, NEW p \in Processes, Fail(p)
  PROVE  Inv'
<1> DEFINE f == [row \in queue |-> IF row.id = Job(p).id THEN [row EXCEPT !.failed = TRUE] ELSE row]
<1>1. /\ at[p] = "fail" /\ NextJob(p, FALSE) /\ (Fault \/ UNCHANGED faults)
      /\ UNCHANGED <<thought, chunks, vectors, rows, owed, late>>
      /\ queue' = {f[row] : row \in queue} \/ queue' = queue
  BY Zenon DEF Fail, corpus
<1>2. PICK label \in {"read", "idle", "done"} : Moved(p, label, batch[p] \ {Job(p)})
  BY <1>1, NextJobMoves DEF Inv
<1>3. ProcsTyped' BY <1>1, NextJobMoves DEF Inv
<1>4. ASSUME NEW row \in queue
      PROVE  /\ f[row] \in Rows /\ f[row].id = row.id
             /\ f[row].target = row.target /\ f[row].model = row.model
  <2>1. row \in Rows BY DEF Inv, QueueTyped
  <2> QED BY <2>1 DEF Rows
<1> HIDE DEF f
<1>5. QueueTyped'
  <2>1. CASE queue' = queue BY <1>1, <2>1, QueueShrunk DEF Inv
  <2>2. CASE queue' = {f[row] : row \in queue} BY <1>1, <1>4, <2>2, QueueMapped DEF Inv
  <2> QED BY <1>1, <2>1, <2>2
<1>6. \A r \in queue' : \E s \in queue : s.id = r.id /\ s.target = r.target BY <1>1, <1>4
<1>7. \A s \in queue : \E r \in queue' : r.target = s.target BY <1>1, <1>4
<1>8. LateInv' BY <1>1, <1>2, LateMoved DEF Inv
<1>9. late' \in [Targets -> Nat] /\ vectors' \in SUBSET Targets BY <1>1 DEF Inv, RestTyped
<1>10. faults' \in 0..MaxFaults BY <1>1, FaultTyped DEF Inv
<1> QED BY <1>1, <1>2, <1>3, <1>5, <1>6, <1>7, <1>8, <1>9, <1>10, InvMoved DEF corpus

\* A process is left with no rows: it dies, or finds nothing to do.
LEMMA EmptyHanded ==
  ASSUME Inv, NEW p \in Processes, NEW label \in {"idle", "done"}, Moved(p, label, {}),
         UNCHANGED <<thought, chunks, vectors, queue, rows, gained, budget, owed, late>>,
         Fault \/ UNCHANGED faults, p \in Backfills => label = "done"
  PROVE  Inv'
<1>1. QueueTyped' BY QueueShrunk DEF Inv
<1>2. ProcsTyped'
  <2>1. gained' \in [Processes -> BOOLEAN] /\ budget' \in [Backfills -> 0..Limit]
    BY DEF Inv, ProcsTyped
  <2> QED BY <2>1, ProcsMoved DEF Inv, Labels
<1>3. LateInv' BY LateMoved DEF Inv
<1>4. late' \in [Targets -> Nat] /\ vectors' \in SUBSET Targets BY DEF Inv, RestTyped
<1>5. faults' \in 0..MaxFaults BY FaultTyped DEF Inv
<1> QED BY <1>1, <1>2, <1>3, <1>4, <1>5, InvMoved DEF corpus

LEMMA CrashKeeps ==
  ASSUME Inv, NEW p \in Processes, Crash(p)
  PROVE  Inv'
<1> DEFINE label == IF p \in Workers THEN "idle" ELSE "done"
<1>1. /\ at' = [at EXCEPT ![p] = label] /\ batch' = [batch EXCEPT ![p] = {}] /\ Fault
      /\ UNCHANGED <<thought, chunks, vectors, queue, rows, gained, budget, owed, late>>
  BY DEF Crash, GoTo, corpus
<1>2. Moved(p, label, {}) BY <1>1 DEF Moved
<1>3. p \in Backfills => label = "done" BY Roles
<1> QED BY <1>1, <1>2, <1>3, EmptyHanded

LEMMA FinishKeeps ==
  ASSUME Inv, NEW b \in Backfills, Finish(b)
  PROVE  Inv'
<1>1. /\ at[b] = "idle" /\ GoTo(b, "done")
      /\ UNCHANGED <<thought, chunks, vectors, queue, rows, batch, gained, budget, faults,
                     owed, late>>
  BY DEF Finish, corpus
<1>2. b \in Processes BY DEF Processes
<1>3. batch[b] = {} BY <1>1, <1>2 DEF Inv, ProcsTyped
<1>4. Moved(b, "done", {}) BY <1>1, <1>2, <1>3, Stays DEF Inv
<1> QED BY <1>1, <1>2, <1>4, EmptyHanded

---------------------------------------------------------------------------------
\* The steps of the others.

LEMMA QueuedNotLost ==
  ASSUME NothingLost, NEW S, queue \subseteq queue', owed' = owed \cup S,
         \A t \in S : Queued(t)', vectors \subseteq vectors', \A x : Denied(x) => Denied(x)'
  PROVE  NothingLost'
BY DEF NothingLost, Queued

LEMMA HealKeeps ==
  ASSUME Inv, NEW b \in Backfills, Heal(b)
  PROVE  Inv'
<1> DEFINE found == {t \in Thoughts : thought[t] = "active" /\ t \notin vectors}
           S == {t \in found : Cardinality({u \in found : u < t}) < Limit}
           label == IF Limit > 0 THEN "idle" ELSE "done"
<1>1. /\ at[b] = "start" /\ Enqueue(S, Active) /\ GoTo(b, label)
      /\ UNCHANGED <<thought, chunks, vectors, batch, gained, budget, faults, late>>
  BY DEF Heal, corpus
<1>2. S \in SUBSET Targets BY DEF Targets
<1> HIDE DEF S
<1>3. Active \in Models BY QueueAssumption DEF QueueAssumption
<1>4. /\ QueueTyped' /\ IdsInv' /\ queue \subseteq queue' /\ owed' = owed \cup S
      /\ \A t \in S : Queued(t)'
  BY <1>1, <1>2, <1>3, QueueExtended DEF Inv
<1>5. b \in Processes BY DEF Processes
<1>6. batch[b] = {} /\ budget[b] = Limit BY <1>1, <1>5 DEF Inv, ProcsTyped
<1>7. Moved(b, label, {}) BY <1>1, <1>5, <1>6, Stays DEF Inv
<1>8. label \in {"idle", "done"} /\ (label = "idle" => Limit > 0) OBVIOUS
<1> HIDE DEF label
<1>9. ProcsTyped'
  <2>1. gained' \in [Processes -> BOOLEAN] /\ budget' \in [Backfills -> 0..Limit]
    BY <1>1 DEF Inv, ProcsTyped
  <2> QED BY <1>1, <1>5, <1>6, <1>7, <1>8, <2>1, ProcsMoved DEF Inv, Labels
<1>10. LateInv' BY <1>1, <1>5, <1>7, <1>8, LateMoved DEF Inv
<1>11. MarkInv' BY <1>1, <1>5, <1>7, <1>8, MarksMoved DEF Inv
<1>12. NothingLost'
  <2>1. \A x : Denied(x) => Denied(x)' BY <1>1 DEF Denied
  <2> QED BY <1>1, <1>4, <2>1, QueuedNotLost DEF Inv
<1>13. RestTyped' BY <1>1, <1>2, <1>4 DEF Inv, RestTyped
<1> QED BY <1>4, <1>9, <1>10, <1>11, <1>12, <1>13 DEF Inv

\* Nobody's drain moves, and whoever is denied stays so.
LEMMA OthersMarks ==
  ASSUME Inv, UNCHANGED procs, \A x : Denied(x) => Denied(x)',
         \A x \in vectors : x \in vectors' \/ Denied(x)
  PROVE  ProcsTyped' /\ MarkInv'
<1>1. at' = at /\ batch' = batch /\ gained' = gained /\ budget' = budget BY DEF procs
<1>2. \A p \in Processes : Job(p)' = Job(p) BY <1>1 DEF Job
<1> QED BY <1>1, <1>2 DEF Inv, ProcsTyped, MarkInv

LEMMA OthersLate ==
  ASSUME Inv, UNCHANGED <<procs, late>>, \A x \in Targets : Denied(x)' = Denied(x)
  PROVE  LateInv'
<1>1. at' = at /\ batch' = batch BY DEF procs
<1>2. \A x : Readers(x)' = Readers(x) BY <1>1 DEF Readers, Job
<1> QED BY <1>2 DEF Inv, LateInv

LEMMA CaptureKeeps ==
  ASSUME Inv, NEW t \in Thoughts, Capture(t)
  PROVE  Inv'
<1>1. /\ thought[t] = "absent" /\ thought' = [thought EXCEPT ![t] = "active"]
      /\ UNCHANGED <<chunks, procs, faults, late>>
  BY DEF Capture
<1>2. thought \in [Thoughts -> {"absent", "active", "retracted"}] BY DEF Inv, RestTyped
<1>3. \A u \in Thoughts : (thought'[u] = "retracted") = (thought[u] = "retracted") BY <1>1, <1>2
<1>4. \A c \in Chunks : Parent[c] \in Thoughts BY QueueAssumption DEF QueueAssumption
<1>5. \A x \in Targets : Denied(x)' = Denied(x) BY <1>3, <1>4 DEF Denied, Targets
<1>6. t \in Targets BY DEF Targets
<1>7. batch' = batch BY <1>1 DEF procs
<1>8. PICK m \in Models :
        \/ Enqueue({t}, m) /\ UNCHANGED vectors
        \/ \E written \in SUBSET {t} : /\ vectors' = vectors \cup written
                                       /\ owed' = owed \cup written
                                       /\ UNCHANGED <<queue, rows>>
  BY Zenon DEF Capture
<1>9. chunks \subseteq {c \in Chunks : thought'[Parent[c]] # "absent"}
  BY <1>1, <1>2, <1>4 DEF Inv, RestTyped
<1>10. thought' \in [Thoughts -> {"absent", "active", "retracted"}] BY <1>1, <1>2
<1>11. LateInv' BY <1>1, <1>5, OthersLate
<1>12. CASE Enqueue({t}, m) /\ UNCHANGED vectors
  <2>1. /\ QueueTyped' /\ IdsInv' /\ queue \subseteq queue' /\ owed' = owed \cup {t}
        /\ \A x \in {t} : Queued(x)'
    BY <1>6, <1>7, <1>12, QueueExtended DEF Inv
  <2>2. RestTyped' BY <1>1, <1>6, <1>9, <1>10, <1>12, <2>1 DEF Inv, RestTyped
  <2>3. ProcsTyped' /\ MarkInv'
    <3>1. at' = at /\ batch' = batch /\ gained' = gained /\ budget' = budget BY <1>1 DEF procs
    <3>2. \A p \in Processes : Job(p)' = Job(p) BY <3>1 DEF Job
    <3>3. ASSUME NEW p \in Processes, at[p] = "mark" PROVE Job(p).target \in Targets
      BY <3>3, JobTyped DEF Inv
    <3> QED BY <1>5, <1>12, <3>1, <3>2, <3>3 DEF Inv, ProcsTyped, MarkInv
  <2>4. NothingLost'
    <3>1. owed \subseteq Targets BY DEF Inv, RestTyped
    <3> QED BY <1>5, <1>6, <1>12, <2>1, <3>1 DEF Inv, NothingLost, Queued
  <2> QED BY <1>11, <2>1, <2>2, <2>3, <2>4 DEF Inv
<1>13. ASSUME NEW written \in SUBSET {t}, vectors' = vectors \cup written,
              owed' = owed \cup written, UNCHANGED <<queue, rows>>
       PROVE  Inv'
  <2>1. QueueTyped' /\ IdsInv' BY <1>7, <1>13 DEF Inv, QueueTyped, IdsInv
  <2>2. RestTyped' BY <1>1, <1>6, <1>9, <1>10, <1>13 DEF Inv, RestTyped
  <2>3. ProcsTyped' /\ MarkInv'
    <3>1. at' = at /\ batch' = batch /\ gained' = gained /\ budget' = budget BY <1>1 DEF procs
    <3>2. \A p \in Processes : Job(p)' = Job(p) BY <3>1 DEF Job
    <3>3. ASSUME NEW p \in Processes, at[p] = "mark" PROVE Job(p).target \in Targets
      BY <3>3, JobTyped DEF Inv
    <3> QED BY <1>5, <1>13, <3>1, <3>2, <3>3 DEF Inv, ProcsTyped, MarkInv
  <2>4. NothingLost'
    <3>1. owed \subseteq Targets BY DEF Inv, RestTyped
    <3> QED BY <1>5, <1>6, <1>13, <3>1 DEF Inv, NothingLost, Queued
  <2> QED BY <1>11, <2>1, <2>2, <2>3, <2>4 DEF Inv
<1> QED BY <1>8, <1>12, <1>13

LEMMA ChunkKeeps ==
  ASSUME Inv, NEW c \in Chunks, Chunk(c)
  PROVE  Inv'
<1>1. /\ thought[Parent[c]] # "absent" /\ chunks' = chunks \cup {c}
      /\ UNCHANGED <<thought, vectors, queue, rows, procs, faults, owed, late>>
  BY DEF Chunk
<1>2. \A x : Denied(x)' = Denied(x) BY <1>1 DEF Denied
<1>3. ProcsTyped' /\ MarkInv' BY <1>1, <1>2, OthersMarks
<1>4. LateInv' BY <1>1, <1>2, OthersLate
<1>5. batch' = batch BY <1>1 DEF procs
<1>6. QueueTyped' /\ IdsInv' BY <1>1, <1>5 DEF Inv, QueueTyped, IdsInv
<1>7. RestTyped' BY <1>1 DEF Inv, RestTyped
<1>8. NothingLost' BY <1>1, <1>2 DEF Inv, NothingLost, Queued
<1> QED BY <1>3, <1>4, <1>6, <1>7, <1>8 DEF Inv

LEMMA EnqueueChunksKeeps ==
  ASSUME Inv, EnqueueChunks
  PROVE  Inv'
<1> DEFINE S == {c \in chunks \ vectors : ~Denied(c)}
<1>1. Enqueue(S, Active) /\ UNCHANGED <<thought, chunks, vectors, procs, faults, late>>
  BY DEF EnqueueChunks, corpus
<1>2. S \in SUBSET Targets BY DEF Inv, RestTyped, Targets
<1> HIDE DEF S
<1>3. Active \in Models BY QueueAssumption DEF QueueAssumption
<1>4. batch' = batch BY <1>1 DEF procs
<1>5. /\ QueueTyped' /\ IdsInv' /\ queue \subseteq queue' /\ owed' = owed \cup S
      /\ \A t \in S : Queued(t)'
  BY <1>1, <1>2, <1>3, <1>4, QueueExtended DEF Inv
<1>6. \A x : Denied(x)' = Denied(x) BY <1>1 DEF Denied
<1>7. ProcsTyped' /\ MarkInv' BY <1>1, <1>6, OthersMarks
<1>8. LateInv' BY <1>1, <1>6, OthersLate
<1>9. RestTyped' BY <1>1, <1>2, <1>5 DEF Inv, RestTyped
<1>10. NothingLost' BY <1>1, <1>5, <1>6, QueuedNotLost DEF Inv
<1> QED BY <1>5, <1>7, <1>8, <1>9, <1>10 DEF Inv

LEMMA RetractKeeps ==
  ASSUME Inv, NEW t \in Thoughts, Retract(t)
  PROVE  Inv'
<1>1. /\ thought[t] = "active" /\ thought' = [thought EXCEPT ![t] = "retracted"]
      /\ UNCHANGED <<chunks, vectors, queue, rows, procs, faults, owed, late>>
  BY DEF Retract
<1>2. thought \in [Thoughts -> {"absent", "active", "retracted"}] BY DEF Inv, RestTyped
<1>3. \A c \in Chunks : Parent[c] \in Thoughts BY QueueAssumption DEF QueueAssumption
<1>4. \A x \in Targets : Denied(x) => Denied(x)' BY <1>1, <1>2, <1>3 DEF Denied, Targets
<1>5. at' = at /\ batch' = batch /\ gained' = gained /\ budget' = budget BY <1>1 DEF procs
<1>6. (\A p \in Processes : Job(p)' = Job(p)) /\ \A x : Readers(x)' = Readers(x)
  BY <1>5 DEF Job, Readers
<1>7. ProcsTyped' BY <1>5 DEF Inv, ProcsTyped
<1>8. MarkInv'
  <2>1. ASSUME NEW p \in Processes, at[p] = "mark" PROVE Job(p).target \in Targets
    BY <2>1, JobTyped DEF Inv
  <2> QED BY <1>1, <1>4, <1>5, <1>6, <2>1 DEF Inv, MarkInv
<1>9. LateInv'
  <2> SUFFICES ASSUME Hygiene, NEW x \in Targets
               PROVE  (IF Denied(x) THEN late[x] + Cardinality(Readers(x)) <= Cardinality(Workers)
                       ELSE late[x] = 0)'
    BY DEF LateInv
  <2>1. IF Denied(x) THEN late[x] + Cardinality(Readers(x)) <= Cardinality(Workers)
        ELSE late[x] = 0
    BY DEF Inv, LateInv
  <2>2. /\ Cardinality(Readers(x)) \in Nat /\ Cardinality(Workers) \in Nat
        /\ Cardinality(Readers(x)) <= Cardinality(Workers)
    BY ReadersCounted
  <2>3. late[x] = 0 => late[x] + Cardinality(Readers(x)) <= Cardinality(Workers) BY <2>2
  <2> QED BY <1>1, <1>4, <1>6, <2>1, <2>3
<1>10. QueueTyped' /\ IdsInv' BY <1>1, <1>5 DEF Inv, QueueTyped, IdsInv
<1>11. RestTyped'
  <2>1. thought' \in [Thoughts -> {"absent", "active", "retracted"}] BY <1>1, <1>2
  <2>2. chunks \subseteq {c \in Chunks : thought'[Parent[c]] # "absent"}
    BY <1>1, <1>2, <1>3 DEF Inv, RestTyped
  <2> QED BY <1>1, <2>1, <2>2 DEF Inv, RestTyped
<1>12. NothingLost'
  <2>1. owed \subseteq Targets BY DEF Inv, RestTyped
  <2> QED BY <1>1, <1>4, <2>1 DEF Inv, NothingLost, Queued
<1> QED BY <1>7, <1>8, <1>9, <1>10, <1>11, <1>12 DEF Inv

LEMMA SweepRowsKeeps ==
  ASSUME Inv, SweepRows
  PROVE  Inv'
<1>1. PICK S \in SUBSET queue : queue' = queue \ S /\ owed' = owed \ {row.target : row \in S}
  BY DEF SweepRows
<1>2. UNCHANGED <<thought, chunks, vectors, rows, procs, faults, late>>
  BY DEF SweepRows, corpus
<1>3. \A x : Denied(x)' = Denied(x) BY <1>2 DEF Denied
<1>4. ProcsTyped' /\ MarkInv' BY <1>2, <1>3, OthersMarks
<1>5. LateInv' BY <1>2, <1>3, OthersLate
<1>6. batch' = batch BY <1>2 DEF procs
<1>7. QueueTyped' BY <1>1, <1>2, QueueShrunk DEF Inv
<1>8. IdsInv' BY <1>1, <1>2, <1>6 DEF Inv, IdsInv
<1>9. RestTyped' BY <1>1, <1>2 DEF Inv, RestTyped
<1>10. NothingLost'
  <2>1. \A x \in owed' : Queued(x) => Queued(x)' BY <1>1 DEF Queued
  <2> QED BY <1>1, <1>2, <2>1, LostKept DEF Inv
<1> QED BY <1>4, <1>5, <1>7, <1>8, <1>9, <1>10 DEF Inv

LEMMA SweepVectorsKeeps ==
  ASSUME Inv, SweepVectors
  PROVE  Inv'
<1>1. PICK S \in SUBSET {x \in vectors : Denied(x)} : vectors' = vectors \ S
  BY DEF SweepVectors
<1>2. UNCHANGED <<thought, chunks, queue, rows, procs, faults, owed, late>>
  BY DEF SweepVectors, corpus
<1>3. \A x : Denied(x)' = Denied(x) BY <1>2 DEF Denied
<1>4. ProcsTyped' /\ MarkInv' BY <1>1, <1>2, <1>3, OthersMarks
<1>5. LateInv' BY <1>2, <1>3, OthersLate
<1>6. batch' = batch BY <1>2 DEF procs
<1>7. QueueTyped' /\ IdsInv' BY <1>2, <1>6 DEF Inv, QueueTyped, IdsInv
<1>8. RestTyped' BY <1>1, <1>2 DEF Inv, RestTyped
<1>9. NothingLost'
  <2>1. \A x \in owed' : Queued(x) => Queued(x)' BY <1>2 DEF Queued
  <2> QED BY <1>1, <1>2, <2>1, LostKept DEF Inv
<1> QED BY <1>4, <1>5, <1>7, <1>8, <1>9 DEF Inv
---------------------------------------------------------------------------------
\* The invariant holds.

LEMMA InitInv == Init => Inv
<1> SUFFICES ASSUME Init PROVE Inv OBVIOUS
<1>1. QueueAssumption BY QueueAssumption
<1>2. QueueTyped BY <1>1 DEF Init, QueueTyped, QueueAssumption
<1>3. ProcsTyped
  <2>1. \A p \in Processes : /\ at[p] = IF p \in Backfills THEN "start" ELSE "idle"
                             /\ batch[p] = {}
    BY DEF Init
  <2>2. at \in [Processes -> Labels] BY DEF Init, Labels
  <2>3. batch \in [Processes -> SUBSET Rows] /\ gained \in [Processes -> BOOLEAN] BY DEF Init
  <2>4. Limit \in 0..Limit BY <1>1 DEF QueueAssumption
  <2>5. budget \in [Backfills -> 0..Limit] /\ \A b \in Backfills : budget[b] = Limit
    BY <2>4 DEF Init
  <2>6. Backfills \subseteq Processes BY DEF Processes
  <2> QED BY <2>1, <2>2, <2>3, <2>5, <2>6 DEF ProcsTyped
<1>4. RestTyped BY <1>1 DEF Init, RestTyped, QueueAssumption
<1>5. IdsInv /\ MarkInv BY DEF Init, IdsInv, MarkInv
<1>6. NothingLost BY DEF Init, NothingLost
<1>7. \A x \in Targets : ~Denied(x)
  <2>1. \A c \in Chunks : Parent[c] \in Thoughts BY <1>1 DEF QueueAssumption
  <2> QED BY <2>1 DEF Init, Denied, Targets
<1>8. LateInv BY <1>7 DEF Init, LateInv
<1> QED BY <1>2, <1>3, <1>4, <1>5, <1>6, <1>8 DEF Inv

LEMMA WorkKeeps ==
  ASSUME Inv, NEW p \in Processes, Work(p) \/ StepFails(p) \/ Crash(p)
  PROVE  Inv'
BY ClaimKeeps, CommitClaimKeeps, SkipKeeps, ReadKeeps, ModelMismatchKeeps, InsertKeeps,
   MarkKeeps, FailKeeps, StepFailsKeeps, CrashKeeps DEF Work

LEMMA NextInv == Inv /\ [Next]_vars => Inv'
<1> SUFFICES ASSUME Inv, [Next]_vars PROVE Inv' OBVIOUS
<1>1. CASE \E p \in Processes : Work(p) \/ StepFails(p) \/ Crash(p) BY <1>1, WorkKeeps
<1>2. CASE \E b \in Backfills : Heal(b) \/ Finish(b) BY <1>2, HealKeeps, FinishKeeps
<1>3. CASE \E t \in Thoughts : Capture(t) \/ Retract(t) BY <1>3, CaptureKeeps, RetractKeeps
<1>4. CASE \E c \in Chunks : Chunk(c) BY <1>4, ChunkKeeps
<1>5. CASE EnqueueChunks BY <1>5, EnqueueChunksKeeps
<1>6. CASE SweepRows BY <1>6, SweepRowsKeeps
<1>7. CASE SweepVectors BY <1>7, SweepVectorsKeeps
<1>8. CASE UNCHANGED vars
  <2>1. UNCHANGED <<thought, chunks, vectors, queue, rows, procs, faults, owed, late>>
    BY <1>8 DEF vars, corpus
  <2>2. batch' = batch BY <2>1 DEF procs
  <2>3. \A x : Denied(x)' = Denied(x) BY <2>1 DEF Denied
  <2>4. ProcsTyped' /\ MarkInv' BY <2>1, <2>3, OthersMarks
  <2>5. LateInv' BY <2>1, <2>3, OthersLate
  <2>6. QueueTyped' /\ IdsInv' BY <2>1, <2>2 DEF Inv, QueueTyped, IdsInv
  <2>7. RestTyped' BY <2>1 DEF Inv, RestTyped
  <2>8. NothingLost' BY <2>1, <2>3 DEF Inv, NothingLost, Queued
  <2> QED BY <2>4, <2>5, <2>6, <2>7, <2>8 DEF Inv
<1> QED BY <1>1, <1>2, <1>3, <1>4, <1>5, <1>6, <1>7, <1>8 DEF Next

LEMMA AlwaysInv == Spec => []Inv
BY InitInv, NextInv, PTL DEF Spec

(***************************************************************************)
(* Every variable keeps its type: rows of the queue have ids and pairs of  *)
(* target and model of their own, batches are empty where they should be,  *)
(* and no backfill claims more than its limit, for any number of workers,  *)
(* backfills, thoughts and faults.                                         *)
(***************************************************************************)
THEOREM QueueTypeCorrect == Spec => []TypeOK
BY AlwaysInv, InvTypeOK, PTL

(***************************************************************************)
(* Whatever processes claim the same rows, fail, or die, and whatever      *)
(* hygiene sweeps and captures queue meanwhile, a target that is owed a    *)
(* vector keeps its row or its vector (drain.rs, insert before mark).      *)
(***************************************************************************)
THEOREM OwedVectorsKeepRows == Spec => []NothingLost
<1>1. Inv => NothingLost BY DEF Inv
<1> QED BY <1>1, AlwaysInv, PTL

(***************************************************************************)
(* With hygiene on, no more vectors are written for a denied target than   *)
(* there are workers: each for the text it read before the denial.         *)
(***************************************************************************)
THEOREM DeniedVectorsAreFew == Spec => []LateVectorsBounded
<1>1. Inv => LateVectorsBounded
  <2> SUFFICES ASSUME Inv, Hygiene, NEW x \in Targets
               PROVE  late[x] <= Cardinality(Workers)
    BY DEF LateVectorsBounded
  <2>1. IF Denied(x) THEN late[x] + Cardinality(Readers(x)) <= Cardinality(Workers)
        ELSE late[x] = 0
    BY DEF Inv, LateInv
  <2>2. Cardinality(Readers(x)) \in Nat /\ Cardinality(Workers) \in Nat BY ReadersCounted
  <2>3. late[x] \in Nat BY DEF Inv, RestTyped
  <2> QED BY <2>1, <2>2, <2>3
<1> QED BY <1>1, AlwaysInv, PTL
=================================================================================
