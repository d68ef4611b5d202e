------------------------------ MODULE TagDrainProofs ------------------------------
(***************************************************************************)
(* Proofs about TagDrain: jobs leave the queue only when they are done or  *)
(* the tagger has failed, tags and relations of a thought agree, relations *)
(* of a thought are one set, agents keep their rows, and the tagger is     *)
(* called a bounded number of times.                                       *)
(***************************************************************************)
EXTENDS TagDrain, FiniteSetTheorems, SequenceTheorems, TLAPS

---------------------------------------------------------------------------------
\* Requests of one operation, and batches.

\* What a request of one operation does (mutate_thought_relations_serialized).
LEMMA EffectOfOne ==
  ASSUME NEW r, Len(r.ops) = 1
  PROVE  Effect(r).view = After(r.ops[1], edges)
<1> DEFINE base == [view |-> edges, outcomes |-> <<>>]
           step(acc, n) == [view |-> After(r.ops[n], acc.view),
                            outcomes |-> Append(acc.outcomes, Outcome(r.ops[n], acc.view))]
           Upto(g) == g = [n \in 0..1 |-> IF n = 0 THEN base ELSE step(g[n - 1], n)]
           f == [n \in 0..1 |-> IF n = 0 THEN base ELSE step(base, 1)]
<1>1. Effect(r) = (CHOOSE g : Upto(g))[1] BY Zenon DEF Effect, Applied
<1> HIDE DEF base, step
<1>2. Upto(f)
  <2> SUFFICES ASSUME NEW n \in 0..1 PROVE f[n] = IF n = 0 THEN base ELSE step(f[n - 1], n)
    OBVIOUS
  <2>1. n = 0 \/ n = 1 OBVIOUS
  <2>2. f[0] = base /\ f[1] = step(base, 1) OBVIOUS
  <2> HIDE DEF f
  <2> QED BY <2>1, <2>2
<1>3. Upto(CHOOSE g : Upto(g)) BY <1>2, Zenon
<1>4. Effect(r) = step(base, 1)
  <2> DEFINE g == CHOOSE h : Upto(h)
  <2>1. g = [n \in 0..1 |-> IF n = 0 THEN base ELSE step(g[n - 1], n)] BY <1>3
  <2> HIDE DEF g
  <2>2. g[1] = step(g[0], 1) /\ g[0] = base BY <2>1
  <2> QED BY <1>1, <2>2 DEF g
<1>5. step(base, 1).view = After(r.ops[1], base.view) BY DEF step
<1>6. base.view = edges BY DEF base
<1> QED BY <1>4, <1>5, <1>6

\* The jobs of a set of thoughts have places of their own, all of them taken.
LEMMA EveryPlaceTaken ==
  ASSUME NEW ts \in SUBSET Thoughts, IsFiniteSet(ts)
  PROVE  /\ \A t \in ts : Place(ts, t) \in 1..Cardinality(ts)
         /\ \A t, u \in ts : Place(ts, t) = Place(ts, u) => t = u
         /\ \A i \in 1..Cardinality(ts) : Nth(ts, i) \in ts /\ Place(ts, Nth(ts, i)) = i
<1> DEFINE upto(t) == {u \in ts : u <= t}
           n == Cardinality(ts)
<1>1. n \in Nat BY FS_CardinalityType
<1>2. \A t \in ts : t \in Nat BY RelationAssumption DEF RelationAssumption
<1>3. \A t \in ts : /\ IsFiniteSet(upto(t)) /\ Cardinality(upto(t)) \in Nat
                    /\ Cardinality(upto(t)) <= n
  BY FS_Subset, FS_CardinalityType
<1>4. ASSUME NEW t \in ts PROVE Place(ts, t) \in 1..n
  <2>1. t \in upto(t) BY <1>2
  <2>2. Cardinality(upto(t)) # 0
    <3> HIDE DEF upto
    <3> QED BY <1>3, <2>1, FS_EmptySet
  <2> QED BY <1>1, <1>3, <2>2 DEF Place
<1>5. ASSUME NEW t \in ts, NEW u \in ts, t < u PROVE Place(ts, t) # Place(ts, u)
  <2>1. upto(t) \in SUBSET upto(u) BY <1>2, <1>5
  <2>2. u \in upto(u) /\ u \notin upto(t) BY <1>2, <1>5
  <2>3. Cardinality(upto(t)) # Cardinality(upto(u))
    <3> HIDE DEF upto
    <3> QED BY <1>3, <2>1, <2>2, FS_Subset
  <2> QED BY <2>3 DEF Place
<1>6. ASSUME NEW t \in ts, NEW u \in ts, Place(ts, t) = Place(ts, u) PROVE t = u
  <2>1. t \in Nat /\ u \in Nat BY <1>2
  <2>2. ~(t < u) /\ ~(u < t) BY <1>5, <1>6
  <2> QED BY <2>1, <2>2
<1>7. ASSUME NEW i \in 1..n PROVE Nth(ts, i) \in ts /\ Place(ts, Nth(ts, i)) = i
  <2> DEFINE place == [t \in ts |-> Place(ts, t)]
  <2>1. place \in Injection(ts, 1..n) BY <1>4, <1>6 DEF Injection, IsInjective
  <2>2. IsFiniteSet(1..n) /\ Cardinality(1..n) = n BY <1>1, FS_Interval
  <2>3. place \in Surjection(ts, 1..n)
    <3> HIDE DEF place
    <3> QED BY <2>1, <2>2, FS_Injection
  <2>4. \E t \in ts : Place(ts, t) = i BY <2>3 DEF Surjection
  <2> QED BY <2>4 DEF Nth
<1> QED BY <1>4, <1>6, <1>7

\* A function on 1..n is a sequence.
LEMMA ToSeq ==
  ASSUME NEW n \in Nat, NEW S, NEW s \in [1..n -> S]
  PROVE  s \in Seq(S)
OBVIOUS

\* The jobs of a set of thoughts are one for each (fetch_pending_tag_jobs).
LEMMA JobsOfSet ==
  ASSUME NEW ts \in SUBSET Thoughts, IsFiniteSet(ts),
         attempts \in [Thoughts -> 0..MaxTagAttempts]
  PROVE  /\ JobsOf(ts) \in Seq([thought: Thoughts, attempts: 0..MaxTagAttempts])
         /\ Len(JobsOf(ts)) = Cardinality(ts) /\ Cardinality(ts) \in Nat
         /\ ts # {} => Cardinality(ts) > 0
         /\ \A i \in 1..Cardinality(ts) :
              JobsOf(ts)[i].thought \in ts /\ JobsOf(ts)[i].attempts = attempts[JobsOf(ts)[i].thought]
         /\ \A i, j \in 1..Cardinality(ts) :
              JobsOf(ts)[i].thought = JobsOf(ts)[j].thought => i = j
<1> DEFINE n == Cardinality(ts)
           job(i) == [thought |-> Nth(ts, i), attempts |-> attempts[Nth(ts, i)]]
<1>1. n \in Nat /\ (ts # {} => n > 0) BY FS_CardinalityType, FS_EmptySet
<1>2. \A i \in 1..n : Nth(ts, i) \in ts /\ Place(ts, Nth(ts, i)) = i BY EveryPlaceTaken
<1>3. JobsOf(ts) = [i \in 1..n |-> job(i)] BY DEF JobsOf
<1>4. \A i \in 1..n : job(i) \in [thought: Thoughts, attempts: 0..MaxTagAttempts] BY <1>2
<1>5. JobsOf(ts) \in Seq([thought: Thoughts, attempts: 0..MaxTagAttempts])
  <2>1. JobsOf(ts) \in [1..n -> [thought: Thoughts, attempts: 0..MaxTagAttempts]]
    <3> HIDE DEF job, n
    <3> QED BY <1>3, <1>4
  <2> HIDE DEF n
  <2> QED BY <1>1, <2>1, ToSeq
<1>6. Len(JobsOf(ts)) = n
  <2> HIDE DEF job
  <2> QED BY <1>1, <1>3
<1>7. \A i \in 1..n : JobsOf(ts)[i] = job(i)
  <2> HIDE DEF job, n
  <2> QED BY <1>3
<1>8. \A i \in 1..n : /\ JobsOf(ts)[i].thought = Nth(ts, i)
                      /\ JobsOf(ts)[i].attempts = attempts[Nth(ts, i)]
  <2> SUFFICES ASSUME NEW i \in 1..n
               PROVE  /\ JobsOf(ts)[i].thought = Nth(ts, i)
                      /\ JobsOf(ts)[i].attempts = attempts[Nth(ts, i)]
    OBVIOUS
  <2>1. JobsOf(ts)[i] = job(i) BY <1>7
  <2> HIDE DEF n
  <2> QED BY <2>1
<1>9. ASSUME NEW i \in 1..n, NEW j \in 1..n, JobsOf(ts)[i].thought = JobsOf(ts)[j].thought
      PROVE  i = j
  <2>1. Nth(ts, i) = Nth(ts, j) BY <1>8, <1>9
  <2> QED BY <1>2, <2>1
<1> HIDE DEF n, job
<1> QED BY <1>1, <1>2, <1>5, <1>6, <1>8, <1>9 DEF n

---------------------------------------------------------------------------------
\* The invariant: types, and how far each process has come.

ThoughtStates == {"absent", "active", "retracted"}
Places == {"absent", "idle", "tag", "write", "relate", "complete", "done"}
JobRecords == [thought: Thoughts, attempts: 0..MaxTagAttempts]

StoreTyped ==
  /\ thought \in [Thoughts -> ThoughtStates]
  /\ edges \in [Edges -> EdgeStates]
  /\ tags \in [Thoughts -> Emissions \cup {NoTags}]
  /\ attempts \in [Thoughts -> 0..MaxTagAttempts]
  /\ failures \in [Thoughts -> Nat]
  /\ faults \in 0..MaxFaults
  /\ givenUp \subseteq Thoughts

\* Few thoughts have arrived, and the queue holds some of them.
QueueTyped ==
  /\ IsFiniteSet({t \in Thoughts : thought[t] = "active"})
  /\ IsFiniteSet(pending)
  /\ \A t \in pending : t \in Thoughts /\ thought[t] # "absent"

ProcsTyped ==
  /\ at \in [Processes -> Places]
  /\ batch \in [Processes -> Seq(JobRecords)]
  /\ output \in [Processes -> Emissions \cup {NoTags}]
  /\ \A p \in Processes : batch[p] = <<>> <=> at[p] \in {"absent", "idle", "done"}
  /\ \A p \in Processes : at[p] = "complete" => p \in Workers

\* The jobs of a batch are for different thoughts that are there.
BatchInv ==
  \A p \in Processes : \A i, j \in DOMAIN batch[p] :
    /\ thought[batch[p][i].thought] # "absent"
    /\ batch[p][i].thought = batch[p][j].thought => i = j

\* How far a process has come with the job at hand shows in what is stored.
Progress(p) ==
  /\ at[p] \in {"write", "relate", "complete"} => output[p] \in EmissionsOf(Job(p).thought)
  /\ at[p] \in {"relate", "complete"} => tags[Job(p).thought] # NoTags
  /\ at[p] = "complete" => \E row \in ledger : row.req.key = <<Job(p).thought, "job">>

ProgressInv == \A p \in Processes : Progress(p)

LedgerInv ==
  \A row, other \in ledger : row.req.key = other.req.key => row = other

TypedInv == StoreTyped /\ QueueTyped /\ ProcsTyped /\ BatchInv /\ ProgressInv /\ LedgerInv

---------------------------------------------------------------------------------
\* Facts about one process.

Working(p) == at[p] \in {"tag", "write", "relate", "complete"}

LEMMA JobTyped ==
  ASSUME ProcsTyped, NEW p \in Processes, at[p] \notin {"absent", "idle", "done"}
  PROVE  /\ batch[p] \in Seq(JobRecords) /\ batch[p] # <<>>
         /\ Len(batch[p]) \in Nat /\ Len(batch[p]) > 0 /\ DOMAIN batch[p] = 1..Len(batch[p])
         /\ 1 \in DOMAIN batch[p] /\ Job(p) = batch[p][1]
         /\ Job(p) \in JobRecords /\ Job(p).thought \in Thoughts
         /\ Job(p).attempts \in 0..MaxTagAttempts
<1>1. batch[p] \in Seq(JobRecords) /\ batch[p] # <<>> BY DEF ProcsTyped
<1>2. Len(batch[p]) \in Nat /\ Len(batch[p]) > 0 /\ DOMAIN batch[p] = 1..Len(batch[p])
  BY <1>1
<1>3. Job(p) = batch[p][1] /\ Job(p) \in JobRecords BY <1>1, <1>2 DEF Job
<1>4. Job(p).thought \in Thoughts /\ Job(p).attempts \in 0..MaxTagAttempts
  BY <1>3 DEF JobRecords
<1> QED BY <1>1, <1>2, <1>3, <1>4

LEMMA TailTyped ==
  ASSUME ProcsTyped, NEW p \in Processes, at[p] \notin {"absent", "idle", "done"}
  PROVE  /\ Tail(batch[p]) \in Seq(JobRecords)
         /\ DOMAIN Tail(batch[p]) = 1..(Len(batch[p]) - 1)
         /\ Tail(batch[p]) = <<>> <=> Len(batch[p]) = 1
         /\ \A i \in DOMAIN Tail(batch[p]) :
              i \in Nat /\ i + 1 \in DOMAIN batch[p] /\ Tail(batch[p])[i] = batch[p][i + 1]
<1>1. batch[p] \in Seq(JobRecords) /\ batch[p] # <<>> BY JobTyped
<1> DEFINE s == batch[p]
<1> HIDE DEF s
<1>2. s \in Seq(JobRecords) /\ s # <<>> BY <1>1 DEF s
<1>3. Tail(s) \in Seq(JobRecords) /\ Len(Tail(s)) = Len(s) - 1 /\ Len(s) \in Nat /\ Len(s) > 0
  BY <1>2
<1>4. DOMAIN Tail(s) = 1..(Len(s) - 1) /\ DOMAIN s = 1..Len(s) BY <1>2, <1>3
<1>5. \A i \in 1..(Len(s) - 1) : i \in Nat /\ i + 1 \in 1..Len(s) /\ Tail(s)[i] = s[i + 1]
  BY <1>2, <1>3
<1>6. Tail(s) = <<>> <=> Len(s) = 1
  <2> DEFINE r == Tail(s)
  <2>1. r \in Seq(JobRecords) /\ Len(r) = Len(s) - 1 BY <1>3
  <2> HIDE DEF r
  <2>2. r = <<>> <=> Len(r) = 0 BY <2>1, EmptySeq
  <2> QED BY <1>3, <2>1, <2>2 DEF r
<1> QED BY <1>3, <1>4, <1>5, <1>6 DEF s

\* No tagger output is the absence of one.
LEMMA NoTagsIsNone == NoTags \notin Emissions
<1> SUFFICES ASSUME NoTags \in Emissions PROVE FALSE OBVIOUS
<1>1. NoTags \in [edges: SUBSET Edges, repeated: BOOLEAN]
  BY DrainAssumption DEF DrainAssumption
<1>2. DOMAIN NoTags = {"none"} BY DEF NoTags
<1>3. DOMAIN NoTags = {"edges", "repeated"} BY <1>1
<1> QED BY <1>2, <1>3

---------------------------------------------------------------------------------
\* What keeps the parts of the invariant.

\* Thoughts do not go, nor do their tags and the rows of the ledger.
Stays ==
  /\ \A t \in Thoughts : thought[t] # "absent" => thought'[t] # "absent"
  /\ \A t \in Thoughts : tags[t] # NoTags => tags'[t] # NoTags
  /\ ledger \subseteq ledger'

OthersSame(p) ==
  \A q \in Processes \ {p} : at'[q] = at[q] /\ batch'[q] = batch[q] /\ output'[q] = output[q]

LEMMA BatchKept ==
  ASSUME ProcsTyped, BatchInv, Stays, NEW p \in Processes, OthersSame(p),
         \A i, j \in DOMAIN batch'[p] :
           /\ thought'[batch'[p][i].thought] # "absent"
           /\ batch'[p][i].thought = batch'[p][j].thought => i = j
  PROVE  BatchInv'
<1> SUFFICES ASSUME NEW q \in Processes, NEW i \in DOMAIN batch'[q], NEW j \in DOMAIN batch'[q]
             PROVE  /\ thought'[batch'[q][i].thought] # "absent"
                    /\ batch'[q][i].thought = batch'[q][j].thought => i = j
  BY Zenon DEF BatchInv
<1>1. CASE q = p BY <1>1
<1>2. CASE q # p
  <2>1. batch'[q] = batch[q] BY <1>2 DEF OthersSame
  <2>2. batch[q][i] \in JobRecords BY <2>1 DEF ProcsTyped
  <2>3. batch[q][i].thought \in Thoughts BY <2>2 DEF JobRecords
  <2> QED BY <2>1, <2>3 DEF BatchInv, Stays
<1> QED BY <1>1, <1>2

LEMMA ProgressKept ==
  ASSUME ProcsTyped, ProgressInv, Stays, NEW p \in Processes, OthersSame(p), Progress(p)'
  PROVE  ProgressInv'
<1> SUFFICES ASSUME NEW q \in Processes, q # p PROVE Progress(q)'
  BY DEF ProgressInv
<1>1. at'[q] = at[q] /\ batch'[q] = batch[q] /\ output'[q] = output[q] BY DEF OthersSame
<1>2. Job(q)' = Job(q) BY <1>1 DEF Job
<1>3. CASE at[q] \in {"absent", "idle", "done"} BY <1>1, <1>3 DEF Progress
<1>4. CASE at[q] \notin {"absent", "idle", "done"}
  <2>1. Job(q).thought \in Thoughts BY <1>4, JobTyped
  <2>2. EmissionsOf(Job(q).thought)' = EmissionsOf(Job(q).thought) BY <1>2 DEF EmissionsOf
  <2>3. Progress(q) BY DEF ProgressInv
  <2> QED BY <1>1, <1>2, <2>1, <2>2, <2>3 DEF Progress, Stays
<1> QED BY <1>3, <1>4

\* A process is through with the job at hand.
LEMMA NextJobShape ==
  ASSUME ProcsTyped, NEW p \in Processes, Working(p), NextJob(p)
  PROVE  /\ OthersSame(p)
         /\ batch'[p] = Tail(batch[p]) /\ output'[p] = NoTags
         /\ at'[p] \in {"idle", "done", "tag"}
         /\ at'[p] \in {"idle", "done"} <=> batch'[p] = <<>>
         /\ ProcsTyped'
<1>1. /\ at[p] \notin {"absent", "idle", "done"} /\ at \in [Processes -> Places]
      /\ batch \in [Processes -> Seq(JobRecords)]
      /\ output \in [Processes -> Emissions \cup {NoTags}]
  BY DEF Working, ProcsTyped
<1>2. OthersSame(p) BY <1>1 DEF NextJob, GoTo, OthersSame
<1>3. batch'[p] = Tail(batch[p]) /\ output'[p] = NoTags BY <1>1 DEF NextJob
<1>4. at'[p] = IF Len(batch[p]) = 1 THEN Rest(p) ELSE "tag" BY <1>1 DEF NextJob, GoTo
<1>5. Rest(p) \in {"idle", "done"} BY DEF Rest
<1>6. Tail(batch[p]) \in Seq(JobRecords) /\ (Tail(batch[p]) = <<>> <=> Len(batch[p]) = 1)
  BY <1>1, TailTyped
<1>7. at'[p] \in {"idle", "done", "tag"} /\ (at'[p] \in {"idle", "done"} <=> batch'[p] = <<>>)
  BY <1>3, <1>4, <1>5, <1>6
<1>8. ProcsTyped'
  <2>1. at' \in [Processes -> Places] BY <1>1, <1>4, <1>7 DEF NextJob, GoTo, Places
  <2>2. batch' \in [Processes -> Seq(JobRecords)] BY <1>1, <1>6 DEF NextJob
  <2>3. output' \in [Processes -> Emissions \cup {NoTags}] BY <1>1 DEF NextJob
  <2>4. \A q \in Processes : /\ batch'[q] = <<>> <=> at'[q] \in {"absent", "idle", "done"}
                             /\ at'[q] = "complete" => q \in Workers
    BY <1>2, <1>7 DEF OthersSame, ProcsTyped
  <2> QED BY <2>1, <2>2, <2>3, <2>4 DEF ProcsTyped, JobRecords
<1> QED BY <1>2, <1>3, <1>7, <1>8

LEMMA NextJobKeeps ==
  ASSUME ProcsTyped, BatchInv, ProgressInv, Stays, NEW p \in Processes, Working(p), NextJob(p)
  PROVE  ProcsTyped' /\ BatchInv' /\ ProgressInv'
<1>1. OthersSame(p) /\ batch'[p] = Tail(batch[p]) /\ at'[p] \in {"idle", "done", "tag"} /\ ProcsTyped'
  BY NextJobShape
<1>2. ASSUME NEW i \in DOMAIN batch'[p], NEW j \in DOMAIN batch'[p]
      PROVE  /\ thought'[batch'[p][i].thought] # "absent"
             /\ batch'[p][i].thought = batch'[p][j].thought => i = j
  <2>1. at[p] \notin {"absent", "idle", "done"} BY DEF Working
  <2>2. /\ i + 1 \in DOMAIN batch[p] /\ batch'[p][i] = batch[p][i + 1] /\ i \in Nat
        /\ j + 1 \in DOMAIN batch[p] /\ batch'[p][j] = batch[p][j + 1] /\ j \in Nat
    BY <1>1, <2>1, TailTyped
  <2>3. batch[p][i + 1] \in JobRecords BY <2>2 DEF ProcsTyped
  <2>4. batch[p][i + 1].thought \in Thoughts BY <2>3 DEF JobRecords
  <2>5. /\ thought[batch[p][i + 1].thought] # "absent"
        /\ batch[p][i + 1].thought = batch[p][j + 1].thought => i + 1 = j + 1
    BY <2>2 DEF BatchInv
  <2> QED BY <2>2, <2>4, <2>5 DEF Stays
<1>3. BatchInv' BY <1>1, <1>2, BatchKept
<1>4. Progress(p)' BY <1>1 DEF Progress
<1>5. ProgressInv' BY <1>1, <1>4, ProgressKept
<1> QED BY <1>1, <1>3, <1>5

---------------------------------------------------------------------------------
\* Requests.

\* The request of a process is the tagger's answer for its thought, one operation.
LEMMA RequestShape ==
  ASSUME ProcsTyped, NEW p \in Processes, at[p] = "relate"
  PROVE  /\ DOMAIN Request(p).ops = {1}
         /\ Request(p).ops[1].action = "replace_tagger_set"
         /\ Request(p).ops[1].from = Job(p).thought /\ Request(p).ops[1].edges = output[p].edges
         /\ Effect(Request(p)).view =
              TaggerSetReplaced(edges, Job(p).thought, output[p].edges)
         /\ p \in Workers => /\ Request(p) = JobRequest(Job(p).thought, output[p])
                             /\ Request(p).key = <<Job(p).thought, "job">>
<1> DEFINE op == [action |-> "replace_tagger_set", from |-> Job(p).thought,
                  edges |-> output[p].edges, repeated |-> output[p].repeated]
<1>1. Request(p).ops = <<op>> BY DEF Request, TaggerRequest
<1>2. DOMAIN Request(p).ops = {1} /\ Request(p).ops[1] = op
  <2> HIDE DEF op
  <2> QED BY <1>1
<1>3. Effect(Request(p)).view = After(op, edges)
  <2>1. Len(Request(p).ops) = 1
    <3> HIDE DEF op
    <3> QED BY <1>1
  <2> QED BY <1>2, <2>1, EffectOfOne
<1>4. After(op, edges) = TaggerSetReplaced(edges, Job(p).thought, output[p].edges) BY DEF After
<1>5. ASSUME p \in Workers
      PROVE  /\ Request(p) = JobRequest(Job(p).thought, output[p])
             /\ Request(p).key = <<Job(p).thought, "job">>
  BY <1>5 DEF Request, JobRequest, TaggerRequest
<1> QED BY <1>2, <1>3, <1>4, <1>5

\* An agent's request creates or deletes edges.
LEMMA AgentEffect ==
  ASSUME NEW r \in Requests
  PROVE  /\ DOMAIN r.ops = {1}
         /\ \/ Effect(r).view = Created(edges, r.ops[1].edges)
            \/ Effect(r).view = Deleted(edges, r.ops[1].edges)
<1>1. r \in [key: Keys, ops: Seq(Ops)] /\ Len(r.ops) = 1
  BY RelationAssumption, AgentAssumption DEF RelationAssumption, AgentAssumption
<1>2. r.ops \in Seq(Ops) BY <1>1
<1>3. DOMAIN r.ops = 1..1 /\ r.ops[1] \in Ops BY <1>1, <1>2
<1>4. 1..1 = {1} OBVIOUS
<1>5. r.ops[1].action \in {"create", "delete"}
  BY <1>3, AgentAssumption DEF AgentAssumption, Ops
<1>6. Effect(r).view = After(r.ops[1], edges) BY <1>1, EffectOfOne
<1> QED BY <1>3, <1>4, <1>5, <1>6 DEF After

\* A request that is performed.
LEMMA PerformKeeps ==
  ASSUME NEW r, Perform(r), LedgerInv
  PROVE  /\ LedgerInv' /\ ledger \subseteq ledger' /\ thought' = thought
         /\ \E row \in ledger' : row.req = r
<1> DEFINE new == [req |-> r, outcomes |-> Effect(r).outcomes]
<1>1. ledger' = ledger \cup {new} /\ thought' = thought BY DEF Perform
<1>2. \A row \in ledger : row.req.key # r.key BY DEF Perform, Acceptable
<1>3. new.req = r OBVIOUS
<1> HIDE DEF new
<1>4. LedgerInv' BY <1>1, <1>2, <1>3 DEF LedgerInv
<1> QED BY <1>1, <1>3, <1>4

LEMMA EdgesTyped ==
  ASSUME edges \in [Edges -> EdgeStates], NEW es, NEW t
  PROVE  /\ Created(edges, es) \in [Edges -> EdgeStates]
         /\ Deleted(edges, es) \in [Edges -> EdgeStates]
         /\ TaggerSetReplaced(edges, t, es) \in [Edges -> EdgeStates]
BY DEF Created, Deleted, TaggerSetReplaced, EdgeStates, LiveStates

---------------------------------------------------------------------------------
\* What the helpers of the handlers do to the store.

LEMMA CountsTyped ==
  ASSUME StoreTyped, NEW p
  PROVE  /\ CountAttempt(p) => attempts' \in [Thoughts -> 0..MaxTagAttempts]
         /\ Postpone(p) \/ PostponeAfterFault(p) =>
              /\ attempts' \in [Thoughts -> 0..MaxTagAttempts]
              /\ faults' \in 0..MaxFaults
              /\ NextJob(p)
         /\ CountFailure(p) => failures' \in [Thoughts -> Nat]
         /\ Fault => faults' \in 0..MaxFaults
<1>1. MaxTagAttempts \in Nat /\ MaxFaults \in Nat BY DrainAssumption DEF DrainAssumption
<1>2. CountAttempt(p) => attempts' \in [Thoughts -> 0..MaxTagAttempts]
  <2> SUFFICES ASSUME CountAttempt(p) PROVE attempts' \in [Thoughts -> 0..MaxTagAttempts] OBVIOUS
  <2>1. \A t \in Thoughts : attempts[t] < MaxTagAttempts => attempts[t] + 1 \in 0..MaxTagAttempts
    BY <1>1 DEF StoreTyped
  <2> QED BY <2>1 DEF CountAttempt, StoreTyped
<1>3. Fault => faults' \in 0..MaxFaults BY <1>1 DEF Fault, StoreTyped
<1>4. CountFailure(p) => failures' \in [Thoughts -> Nat]
  <2> SUFFICES ASSUME CountFailure(p) PROVE failures' \in [Thoughts -> Nat] OBVIOUS
  <2>1. failures \in [Thoughts -> Nat] /\ \A t \in Thoughts : failures[t] + 1 \in Nat
    BY DEF StoreTyped
  <2> QED BY <2>1 DEF CountFailure
<1>5. attempts \in [Thoughts -> 0..MaxTagAttempts] /\ faults \in 0..MaxFaults BY DEF StoreTyped
<1> QED BY <1>2, <1>3, <1>4, <1>5 DEF Postpone, PostponeAfterFault

LEMMA StaysSame ==
  ASSUME UNCHANGED thought, UNCHANGED tags, ledger \subseteq ledger'
  PROVE  Stays
BY DEF Stays

LEMMA QueueKept ==
  ASSUME QueueTyped, UNCHANGED thought, pending' \subseteq pending
  PROVE  QueueTyped'
<1>1. IsFiniteSet(pending') BY FS_Subset DEF QueueTyped
<1> QED BY <1>1 DEF QueueTyped

LEMMA WriteTyped ==
  ASSUME StoreTyped, ProcsTyped, ProgressInv, NEW p \in Processes, at[p] = "write"
  PROVE  /\ TagsWritten(p) \in [Thoughts -> Emissions \cup {NoTags}]
         /\ \A t \in Thoughts : TagsWritten(p)[t] = NoTags => t # Job(p).thought /\ tags[t] = NoTags
         /\ output[p] \in Emissions /\ TagsWritten(p)[Job(p).thought] = output[p]
<1>1. output[p] \in Emissions BY DEF ProgressInv, Progress, EmissionsOf
<1>2. output[p] # NoTags BY <1>1, NoTagsIsNone
<1>3. Job(p).thought \in Thoughts BY JobTyped
<1> QED BY <1>1, <1>2, <1>3 DEF TagsWritten, StoreTyped

---------------------------------------------------------------------------------
\* Every step keeps the invariant: one lemma for the steps of each kind.

LEMMA FetchTyped ==
  ASSUME TypedInv, NEW w \in Workers, Fetch(w)
  PROVE  TypedInv'
<1> USE DEF TypedInv
<1> DEFINE all == JobsOf(pending)
           n == IF Len(all) < BatchSize THEN Len(all) ELSE BatchSize
           jobsof == SubSeq(all, 1, n)
<1>1. /\ w \in Processes /\ at[w] = "idle" /\ pending # {}
      /\ batch' = [batch EXCEPT ![w] = jobsof] /\ at' = [at EXCEPT ![w] = "tag"]
      /\ UNCHANGED <<thought, edges, ledger, tags, pending, attempts, output, faults, failures, givenUp>>
  BY DEF Fetch, GoTo, Processes, serviceVars, jobs
<1>2. pending \in SUBSET Thoughts /\ IsFiniteSet(pending) BY DEF QueueTyped
<1>3. attempts \in [Thoughts -> 0..MaxTagAttempts] BY DEF StoreTyped
<1>4. /\ all \in Seq(JobRecords) /\ Len(all) = Cardinality(pending) /\ Cardinality(pending) \in Nat
      /\ Cardinality(pending) > 0
      /\ \A i \in 1..Cardinality(pending) : all[i].thought \in pending
      /\ \A i, j \in 1..Cardinality(pending) : all[i].thought = all[j].thought => i = j
  BY <1>1, <1>2, <1>3, JobsOfSet DEF JobRecords
<1>5. n \in Nat /\ n > 0 /\ n <= Len(all) BY <1>4, DrainAssumption DEF DrainAssumption
<1>6. \A i \in 1..n : i \in 1..Len(all) /\ all[i] \in JobRecords /\ all[i].thought \in pending
  BY <1>4, <1>5
<1>7. jobsof \in Seq(JobRecords) /\ Len(jobsof) = n /\ \A i \in 1..n : jobsof[i] = all[i]
  <2> HIDE DEF all, n
  <2>1. \A i \in 1..n : all[i] \in JobRecords BY <1>6
  <2>2. /\ jobsof \in Seq(JobRecords) /\ Len(jobsof) = IF 1 <= n THEN n - 1 + 1 ELSE 0
        /\ \A i \in 1..n - 1 + 1 : jobsof[i] = all[1 + i - 1]
    BY <1>5, <2>1, SubSeqProperties
  <2> QED BY <1>5, <2>2
<1>8. DOMAIN jobsof = 1..n /\ jobsof # <<>> BY <1>5, <1>7, EmptySeq
<1>9. OthersSame(w) /\ Stays BY <1>1 DEF OthersSame, Stays, ProcsTyped
<1> HIDE DEF jobsof, all, n
<1>10. batch'[w] = jobsof /\ at'[w] = "tag" BY <1>1 DEF ProcsTyped
<1>11. ProcsTyped'
  <2>1. at' \in [Processes -> Places] BY <1>1 DEF ProcsTyped, Places
  <2>2. batch' \in [Processes -> Seq(JobRecords)] BY <1>1, <1>7 DEF ProcsTyped
  <2>3. \A q \in Processes : /\ batch'[q] = <<>> <=> at'[q] \in {"absent", "idle", "done"}
                             /\ at'[q] = "complete" => q \in Workers
    BY <1>8, <1>9, <1>10 DEF OthersSame, ProcsTyped
  <2> QED BY <1>1, <2>1, <2>2, <2>3 DEF ProcsTyped, JobRecords
<1>12. BatchInv'
  <2>1. ASSUME NEW i \in 1..n, NEW j \in 1..n
        PROVE  /\ thought'[jobsof[i].thought] # "absent"
               /\ jobsof[i].thought = jobsof[j].thought => i = j
    <3>1. jobsof[i] = all[i] /\ jobsof[j] = all[j] BY <1>7
    <3>2. jobsof[i].thought \in pending BY <1>6, <3>1
    <3>3. i \in 1..Cardinality(pending) /\ j \in 1..Cardinality(pending) BY <1>4, <1>6
    <3> QED BY <1>1, <1>4, <3>1, <3>2, <3>3 DEF QueueTyped
  <2>2. DOMAIN batch'[w] = 1..n BY <1>8, <1>10
  <2>3. ASSUME NEW i \in DOMAIN batch'[w], NEW j \in DOMAIN batch'[w]
        PROVE  /\ thought'[batch'[w][i].thought] # "absent"
               /\ batch'[w][i].thought = batch'[w][j].thought => i = j
    BY <1>10, <2>1, <2>2
  <2>4. w \in Processes BY <1>1
  <2> QED BY <1>9, <2>3, <2>4, BatchKept
<1>13. ProgressInv'
  <2>1. Progress(w)' BY <1>10 DEF Progress
  <2> QED BY <1>1, <1>9, <2>1, ProgressKept
<1>14. StoreTyped' /\ QueueTyped' /\ LedgerInv' BY <1>1 DEF StoreTyped, QueueTyped, LedgerInv
<1> QED BY <1>11, <1>12, <1>13, <1>14

LEMMA StartRunTyped ==
  ASSUME TypedInv, NEW c \in Runs, StartRun(c)
  PROVE  TypedInv'
<1> USE DEF TypedInv
<1>1. PICK force \in BOOLEAN :
        LET found == {t \in Thoughts : thought[t] = "active" /\ (force \/ tags[t] = NoTags)} IN
          /\ batch' = [batch EXCEPT ![c] = JobsOf(found)]
          /\ GoTo(c, IF found = {} THEN "done" ELSE "tag")
  BY DEF StartRun
<1> DEFINE found == {t \in Thoughts : thought[t] = "active" /\ (force \/ tags[t] = NoTags)}
           n == Cardinality(found)
<1>2. /\ c \in Processes /\ at[c] = "idle"
      /\ batch' = [batch EXCEPT ![c] = JobsOf(found)]
      /\ at' = [at EXCEPT ![c] = IF found = {} THEN "done" ELSE "tag"]
      /\ UNCHANGED <<thought, edges, ledger, tags, pending, attempts, output, faults, failures, givenUp>>
  BY <1>1 DEF StartRun, GoTo, Processes, serviceVars, jobs
<1>3. found \in SUBSET Thoughts /\ IsFiniteSet(found)
  <2>1. found \in SUBSET {t \in Thoughts : thought[t] = "active"} OBVIOUS
  <2>2. IsFiniteSet({t \in Thoughts : thought[t] = "active"}) BY DEF QueueTyped
  <2> HIDE DEF found
  <2> QED BY <2>1, <2>2, FS_Subset
<1>4. attempts \in [Thoughts -> 0..MaxTagAttempts] BY DEF StoreTyped
<1>5. \A t \in found : thought[t] # "absent" OBVIOUS
<1> HIDE DEF found
<1>6. /\ JobsOf(found) \in Seq(JobRecords) /\ Len(JobsOf(found)) = n /\ n \in Nat
      /\ found # {} => n > 0
      /\ \A i \in 1..n : JobsOf(found)[i].thought \in found
      /\ \A i, j \in 1..n : JobsOf(found)[i].thought = JobsOf(found)[j].thought => i = j
  BY <1>3, <1>4, JobsOfSet DEF JobRecords
<1>7. found = {} => n = 0 BY FS_EmptySet
<1> HIDE DEF n
<1>8. DOMAIN JobsOf(found) = 1..n /\ (JobsOf(found) = <<>> <=> found = {})
  BY <1>6, <1>7, EmptySeq
<1>9. OthersSame(c) /\ Stays BY <1>2 DEF OthersSame, Stays, ProcsTyped
<1>10. batch'[c] = JobsOf(found) /\ at'[c] = IF found = {} THEN "done" ELSE "tag"
  BY <1>2 DEF ProcsTyped
<1>11. ProcsTyped'
  <2>1. at' \in [Processes -> Places] BY <1>2 DEF ProcsTyped, Places
  <2>2. batch' \in [Processes -> Seq(JobRecords)] BY <1>2, <1>6 DEF ProcsTyped
  <2>3. \A q \in Processes : /\ batch'[q] = <<>> <=> at'[q] \in {"absent", "idle", "done"}
                             /\ at'[q] = "complete" => q \in Workers
    BY <1>8, <1>9, <1>10 DEF OthersSame, ProcsTyped
  <2> QED BY <1>2, <2>1, <2>2, <2>3 DEF ProcsTyped, JobRecords
<1>12. BatchInv' BY <1>2, <1>5, <1>6, <1>8, <1>9, <1>10, BatchKept
<1>13. ProgressInv'
  <2>1. Progress(c)' BY <1>10 DEF Progress
  <2> QED BY <1>2, <1>9, <2>1, ProgressKept
<1>14. StoreTyped' /\ QueueTyped' /\ LedgerInv' BY <1>2 DEF StoreTyped, QueueTyped, LedgerInv
<1> QED BY <1>11, <1>12, <1>13, <1>14

\* A step with the job at hand that is not the last one for it.
LEMMA AdvanceKeeps ==
  ASSUME ProcsTyped, BatchInv, ProgressInv, Stays, NEW p \in Processes, Working(p),
         UNCHANGED batch, OthersSame(p), output' \in [Processes -> Emissions \cup {NoTags}],
         NEW place \in {"write", "relate", "complete"}, GoTo(p, place),
         place = "complete" => p \in Workers,
         Progress(p)'
  PROVE  ProcsTyped' /\ BatchInv' /\ ProgressInv'
<1>1. at' = [at EXCEPT ![p] = place] BY DEF GoTo
<1>2. at'[p] = place /\ at' \in [Processes -> Places] BY <1>1 DEF ProcsTyped, Places
<1>3. batch[p] # <<>> BY DEF ProcsTyped, Working
<1>4. \A q \in Processes : /\ batch'[q] = <<>> <=> at'[q] \in {"absent", "idle", "done"}
                           /\ at'[q] = "complete" => q \in Workers
  BY <1>2, <1>3 DEF OthersSame, ProcsTyped
<1>5. ProcsTyped' BY <1>2, <1>4 DEF ProcsTyped, JobRecords
<1>6. ASSUME NEW i \in DOMAIN batch'[p], NEW j \in DOMAIN batch'[p]
      PROVE  /\ thought'[batch'[p][i].thought] # "absent"
             /\ batch'[p][i].thought = batch'[p][j].thought => i = j
  <2>1. batch[p][i] \in JobRecords BY <1>6 DEF ProcsTyped
  <2>2. batch[p][i].thought \in Thoughts BY <2>1 DEF JobRecords
  <2> QED BY <2>2 DEF BatchInv, Stays
<1>7. BatchInv' BY <1>6, BatchKept
<1>8. ProgressInv' BY ProgressKept
<1> QED BY <1>5, <1>7, <1>8

LEMMA TaggedTyped ==
  ASSUME TypedInv, NEW p \in Processes, Tagged(p)
  PROVE  TypedInv'
<1> USE DEF TypedInv
<1>1. PICK x \in EmissionsOf(Job(p).thought) : output' = [output EXCEPT ![p] = x] BY DEF Tagged
<1>2. /\ at[p] = "tag" /\ GoTo(p, "write")
      /\ UNCHANGED <<thought, edges, ledger, tags, pending, attempts, batch, faults, failures, givenUp>>
  BY DEF Tagged, serviceVars, jobs
<1>3. Working(p) /\ Stays BY <1>2 DEF Working, Stays
<1>4. OthersSame(p) BY <1>1, <1>2 DEF OthersSame, GoTo, ProcsTyped
<1>5. output' \in [Processes -> Emissions \cup {NoTags}] BY <1>1 DEF ProcsTyped, EmissionsOf
<1>6. Progress(p)'
  <2>1. at'[p] = "write" /\ output'[p] = x BY <1>1, <1>2 DEF GoTo, ProcsTyped
  <2>2. EmissionsOf(Job(p).thought)' = EmissionsOf(Job(p).thought) BY <1>2 DEF EmissionsOf, Job
  <2> QED BY <1>1, <2>1, <2>2 DEF Progress
<1>7. ProcsTyped' /\ BatchInv' /\ ProgressInv' BY <1>2, <1>3, <1>4, <1>5, <1>6, AdvanceKeeps
<1>8. StoreTyped' /\ QueueTyped' /\ LedgerInv' BY <1>2 DEF StoreTyped, QueueTyped, LedgerInv
<1> QED BY <1>7, <1>8

LEMMA WriteTagsTyped ==
  ASSUME TypedInv, NEW p \in Processes, WriteTags(p)
  PROVE  TypedInv'
<1> USE DEF TypedInv
<1>1. /\ at[p] = "write" /\ GoTo(p, "relate") /\ tags' = TagsWritten(p)
      /\ UNCHANGED <<thought, edges, ledger, pending, attempts, batch, output, faults, failures, givenUp>>
  BY DEF WriteTags, serviceVars, jobs
<1>2. /\ TagsWritten(p) \in [Thoughts -> Emissions \cup {NoTags}]
      /\ \A t \in Thoughts : TagsWritten(p)[t] = NoTags => t # Job(p).thought /\ tags[t] = NoTags
  BY <1>1, WriteTyped
<1>3. Working(p) /\ Stays BY <1>1, <1>2 DEF Working, Stays
<1>4. OthersSame(p) BY <1>1 DEF OthersSame, GoTo, ProcsTyped
<1>5. output' \in [Processes -> Emissions \cup {NoTags}] BY <1>1 DEF ProcsTyped
<1>6. Progress(p)'
  <2>1. at'[p] = "relate" /\ output'[p] = output[p] BY <1>1 DEF GoTo, ProcsTyped
  <2>2. Job(p)' = Job(p) /\ Job(p).thought \in Thoughts BY <1>1, JobTyped DEF Job
  <2>3. output[p] \in EmissionsOf(Job(p).thought) BY <1>1 DEF ProgressInv, Progress
  <2>4. EmissionsOf(Job(p).thought)' = EmissionsOf(Job(p).thought) BY <2>2 DEF EmissionsOf
  <2>5. tags'[Job(p).thought] # NoTags BY <1>1, <1>2, <2>2
  <2> QED BY <2>1, <2>2, <2>3, <2>4, <2>5 DEF Progress
<1>7. ProcsTyped' /\ BatchInv' /\ ProgressInv' BY <1>1, <1>3, <1>4, <1>5, <1>6, AdvanceKeeps
<1>8. StoreTyped' /\ QueueTyped' /\ LedgerInv' BY <1>1, <1>2 DEF StoreTyped, QueueTyped, LedgerInv
<1> QED BY <1>7, <1>8

\* The request of a process is performed, or is there already.
Published(p) ==
  \/ Accepts(Request(p)) /\ Perform(Request(p))
  \/ Replays(Request(p)) /\ UNCHANGED serviceVars

LEMMA PublishedKeeps ==
  ASSUME TypedInv, NEW p \in Processes, at[p] = "relate", Published(p), UNCHANGED tags
  PROVE  /\ Stays /\ LedgerInv' /\ UNCHANGED thought /\ edges' \in [Edges -> EdgeStates]
         /\ \E row \in ledger' : row.req = Request(p)
<1> USE DEF TypedInv
<1>1. CASE Accepts(Request(p)) /\ Perform(Request(p))
  <2>1. /\ LedgerInv' /\ ledger \subseteq ledger' /\ thought' = thought
        /\ \E row \in ledger' : row.req = Request(p)
    BY <1>1, PerformKeeps
  <2>2. edges' = TaggerSetReplaced(edges, Job(p).thought, output[p].edges)
    BY <1>1, RequestShape DEF Perform
  <2>3. edges' \in [Edges -> EdgeStates] BY <2>2, EdgesTyped DEF StoreTyped
  <2> QED BY <2>1, <2>3, StaysSame
<1>2. CASE Replays(Request(p)) /\ UNCHANGED serviceVars
  BY <1>2, StaysSame DEF Replays, serviceVars, StoreTyped, LedgerInv
<1> QED BY <1>1, <1>2 DEF Published

LEMMA RelateTyped ==
  ASSUME TypedInv, NEW p \in Processes, Relate(p)
  PROVE  TypedInv'
<1> USE DEF TypedInv
<1>1. at[p] = "relate" /\ Published(p) /\ Related(p) BY DEF Relate, Published
<1>2. UNCHANGED <<tags, pending, attempts, faults, failures, givenUp>> BY <1>1 DEF Related, jobs
<1>3. /\ Stays /\ LedgerInv' /\ UNCHANGED thought /\ edges' \in [Edges -> EdgeStates]
      /\ \E row \in ledger' : row.req = Request(p)
  BY <1>1, <1>2, PublishedKeeps
<1>4. StoreTyped' /\ QueueTyped' BY <1>2, <1>3 DEF StoreTyped, QueueTyped
<1>5. Working(p) BY <1>1 DEF Working
<1>6. CASE p \in Workers
  <2>1. GoTo(p, "complete") /\ UNCHANGED <<batch, output>> BY <1>1, <1>6 DEF Related
  <2>2. OthersSame(p) BY <2>1 DEF OthersSame, GoTo, ProcsTyped
  <2>3. output' \in [Processes -> Emissions \cup {NoTags}] BY <2>1 DEF ProcsTyped
  <2>4. Progress(p)'
    <3>1. at'[p] = "complete" /\ output'[p] = output[p] BY <2>1 DEF GoTo, ProcsTyped
    <3>2. Job(p)' = Job(p) BY <2>1 DEF Job
    <3>3. output[p] \in EmissionsOf(Job(p).thought) /\ tags[Job(p).thought] # NoTags
      BY <1>1 DEF ProgressInv, Progress
    <3>4. EmissionsOf(Job(p).thought)' = EmissionsOf(Job(p).thought) BY <3>2 DEF EmissionsOf
    <3>5. Request(p).key = <<Job(p).thought, "job">> BY <1>1, <1>6, RequestShape
    <3> QED BY <1>2, <1>3, <3>1, <3>2, <3>3, <3>4, <3>5 DEF Progress
  <2>5. ProcsTyped' /\ BatchInv' /\ ProgressInv'
    BY <1>3, <1>5, <1>6, <2>1, <2>2, <2>3, <2>4, AdvanceKeeps
  <2> QED BY <1>3, <1>4, <2>5
<1>7. CASE p \notin Workers
  <2>1. NextJob(p) BY <1>1, <1>7 DEF Related
  <2> QED BY <1>3, <1>4, <1>5, <2>1, NextJobKeeps
<1> QED BY <1>6, <1>7

\* The job is put off, whatever has been stored of it.
LEMMA PostponedTyped ==
  ASSUME TypedInv, NEW p \in Processes, Working(p), Postpone(p) \/ PostponeAfterFault(p),
         Stays, UNCHANGED <<thought, pending, givenUp>>, LedgerInv',
         edges' \in [Edges -> EdgeStates], tags' \in [Thoughts -> Emissions \cup {NoTags}],
         failures' \in [Thoughts -> Nat]
  PROVE  TypedInv'
<1> USE DEF TypedInv
<1>1. /\ attempts' \in [Thoughts -> 0..MaxTagAttempts] /\ faults' \in 0..MaxFaults /\ NextJob(p)
  BY CountsTyped
<1>2. ProcsTyped' /\ BatchInv' /\ ProgressInv' BY <1>1, NextJobKeeps
<1>3. StoreTyped' /\ QueueTyped' BY <1>1 DEF StoreTyped, QueueTyped
<1> QED BY <1>2, <1>3

LEMMA PostponingTyped ==
  ASSUME TypedInv, NEW p \in Processes,
         ReadFails(p) \/ TaggerFails(p) \/ WriteFails(p) \/ RelateRefused(p) \/ RelateFails(p)
  PROVE  TypedInv'
<1> USE DEF TypedInv
<1>1. ASSUME ReadFails(p) \/ RelateRefused(p) PROVE TypedInv'
  <2>1. /\ Working(p) /\ (Postpone(p) \/ PostponeAfterFault(p))
        /\ UNCHANGED <<thought, edges, ledger, tags, pending, failures, givenUp>>
    BY <1>1 DEF ReadFails, RelateRefused, Working, serviceVars
  <2>2. Stays /\ LedgerInv' BY <2>1, StaysSame DEF LedgerInv
  <2> QED BY <2>1, <2>2, PostponedTyped DEF StoreTyped
<1>2. ASSUME TaggerFails(p) PROVE TypedInv'
  <2>1. /\ Working(p) /\ Postpone(p) /\ CountFailure(p)
        /\ UNCHANGED <<thought, edges, ledger, tags, pending, givenUp>>
    BY <1>2 DEF TaggerFails, Working, serviceVars
  <2>2. Stays /\ LedgerInv' /\ failures' \in [Thoughts -> Nat]
    BY <2>1, StaysSame, CountsTyped DEF LedgerInv
  <2> QED BY <2>1, <2>2, PostponedTyped DEF StoreTyped
<1>3. ASSUME WriteFails(p) PROVE TypedInv'
  <2>1. /\ at[p] = "write" /\ Working(p) /\ PostponeAfterFault(p) /\ tags' \in {tags, TagsWritten(p)}
        /\ UNCHANGED <<thought, edges, ledger, pending, failures, givenUp>>
    BY <1>3 DEF WriteFails, Working, serviceVars
  <2>2. /\ tags' \in [Thoughts -> Emissions \cup {NoTags}]
        /\ \A t \in Thoughts : tags'[t] = NoTags => tags[t] = NoTags
    BY <2>1, WriteTyped DEF StoreTyped
  <2>3. Stays /\ LedgerInv' BY <2>1, <2>2 DEF LedgerInv, Stays
  <2> QED BY <2>1, <2>2, <2>3, PostponedTyped DEF StoreTyped
<1>4. ASSUME RelateFails(p) PROVE TypedInv'
  <2>1. /\ at[p] = "relate" /\ Working(p) /\ PostponeAfterFault(p)
        /\ UNCHANGED <<tags, pending, failures, givenUp>>
        /\ (Accepts(Request(p)) /\ Perform(Request(p))) \/ UNCHANGED serviceVars
    BY <1>4 DEF RelateFails, Working
  <2>2. CASE Accepts(Request(p)) /\ Perform(Request(p))
    <3>1. /\ Stays /\ LedgerInv' /\ UNCHANGED thought /\ edges' \in [Edges -> EdgeStates]
      BY <2>1, <2>2, PublishedKeeps DEF Published
    <3> QED BY <2>1, <3>1, PostponedTyped DEF StoreTyped
  <2>3. CASE UNCHANGED serviceVars
    <3>1. UNCHANGED <<thought, edges, ledger>> BY <2>3 DEF serviceVars
    <3>2. Stays /\ LedgerInv' BY <2>1, <3>1, StaysSame DEF LedgerInv
    <3> QED BY <2>1, <3>1, <3>2, PostponedTyped DEF StoreTyped
  <2> QED BY <2>1, <2>2, <2>3
<1> QED BY <1>1, <1>2, <1>3, <1>4

LEMMA LeavingTyped ==
  ASSUME TypedInv, NEW w \in Workers, GiveUp(w) \/ Complete(w) \/ CompleteFails(w)
  PROVE  TypedInv'
<1> USE DEF TypedInv
<1>1. w \in Processes BY DEF Processes
<1>2. /\ Working(w) /\ NextJob(w)
      /\ UNCHANGED <<thought, edges, ledger, tags, attempts>>
      /\ pending' \subseteq pending
  BY DEF GiveUp, Complete, CompleteFails, Dequeue, Working, serviceVars, jobs
<1>3. Stays /\ LedgerInv' BY <1>2, StaysSame DEF LedgerInv
<1>4. ProcsTyped' /\ BatchInv' /\ ProgressInv' BY <1>1, <1>2, <1>3, NextJobKeeps
<1>5. QueueTyped' BY <1>2, QueueKept
<1>6. failures' \in [Thoughts -> Nat] /\ faults' \in 0..MaxFaults /\ givenUp' \subseteq Thoughts
  <2>1. Job(w).thought \in Thoughts BY <1>1, <1>2, JobTyped DEF Working
  <2>2. CASE GiveUp(w) BY <2>1, <2>2, CountsTyped DEF GiveUp, StoreTyped
  <2>3. CASE Complete(w) \/ CompleteFails(w)
    BY <2>3, CountsTyped DEF Complete, CompleteFails, StoreTyped
  <2> QED BY <2>2, <2>3
<1>7. StoreTyped' BY <1>2, <1>6 DEF StoreTyped
<1> QED BY <1>3, <1>4, <1>5, <1>7

\* What a crash leaves of a process.
LEMMA CrashShape ==
  ASSUME ProcsTyped, NEW p \in Processes, Crash(p)
  PROVE  /\ at[p] \notin {"absent", "idle", "done"} /\ OthersSame(p)
         /\ at'[p] \in {"idle", "done"} /\ batch'[p] = <<>>
         /\ at' \in [Processes -> Places] /\ batch' \in [Processes -> Seq(JobRecords)]
         /\ output' \in [Processes -> Emissions \cup {NoTags}]
<1>1. Rest(p) \in {"idle", "done"} BY DEF Rest
<1>2. OthersSame(p) BY DEF Crash, OthersSame, ProcsTyped, GoTo
<1> QED BY <1>1, <1>2 DEF Crash, ProcsTyped, GoTo, Places

LEMMA CrashTyped ==
  ASSUME TypedInv, NEW p \in Processes, Crash(p)
  PROVE  TypedInv'
<1> USE DEF TypedInv
<1>1. /\ Fault /\ UNCHANGED <<thought, edges, ledger, tags, pending, attempts, failures, givenUp>>
  BY DEF Crash, serviceVars, jobs
<1>2. Stays /\ LedgerInv' BY <1>1, StaysSame DEF LedgerInv
<1>3. /\ OthersSame(p) /\ at'[p] \in {"idle", "done"} /\ batch'[p] = <<>>
      /\ at' \in [Processes -> Places] /\ batch' \in [Processes -> Seq(JobRecords)]
      /\ output' \in [Processes -> Emissions \cup {NoTags}]
  BY CrashShape
<1>4. \A q \in Processes : /\ batch'[q] = <<>> <=> at'[q] \in {"absent", "idle", "done"}
                           /\ at'[q] = "complete" => q \in Workers
  BY <1>3 DEF OthersSame, ProcsTyped
<1>5. ProcsTyped' BY <1>3, <1>4 DEF ProcsTyped, JobRecords
<1>6. BatchInv'
  <2>1. DOMAIN batch'[p] = {} BY <1>3
  <2> QED BY <1>2, <1>3, <2>1, BatchKept
<1>7. Progress(p)' BY <1>3 DEF Progress
<1>8. ProgressInv' BY <1>2, <1>3, <1>7, ProgressKept
<1>9. StoreTyped' /\ QueueTyped' BY <1>1, CountsTyped DEF StoreTyped, QueueTyped
<1> QED BY <1>2, <1>5, <1>6, <1>8, <1>9

\* Steps of nobody in the queue.
LEMMA OutsideKeeps ==
  ASSUME TypedInv, Stays, UNCHANGED <<at, batch, output>>
  PROVE  ProcsTyped' /\ BatchInv' /\ ProgressInv'
<1> USE DEF TypedInv
<1>1. ProcsTyped' BY DEF ProcsTyped, JobRecords
<1>2. BatchInv'
  <2> SUFFICES ASSUME NEW p \in Processes, NEW i \in DOMAIN batch[p], NEW j \in DOMAIN batch[p]
               PROVE  /\ thought'[batch[p][i].thought] # "absent"
                      /\ batch[p][i].thought = batch[p][j].thought => i = j
    BY DEF BatchInv
  <2>1. batch[p][i] \in JobRecords BY DEF ProcsTyped
  <2>2. batch[p][i].thought \in Thoughts BY <2>1 DEF JobRecords
  <2> QED BY <2>2 DEF BatchInv, Stays
<1>3. ProgressInv'
  <2> SUFFICES ASSUME NEW p \in Processes PROVE Progress(p)' BY DEF ProgressInv
  <2>1. OthersSame(p) BY DEF OthersSame
  <2>2. Job(p)' = Job(p) /\ EmissionsOf(Job(p).thought)' = EmissionsOf(Job(p).thought)
    BY DEF Job, EmissionsOf
  <2>3. Progress(p) BY DEF ProgressInv
  <2>4. CASE at[p] \in {"absent", "idle", "done"} BY <2>4 DEF Progress
  <2>5. CASE at[p] \notin {"absent", "idle", "done"}
    <3>1. Job(p).thought \in Thoughts BY <2>5, JobTyped
    <3> QED BY <2>2, <2>3, <3>1 DEF Progress, Stays
  <2> QED BY <2>4, <2>5
<1> QED BY <1>1, <1>2, <1>3

LEMMA CaptureTyped ==
  ASSUME TypedInv, NEW t \in Thoughts, Capture(t)
  PROVE  TypedInv'
<1> USE DEF TypedInv
<1>1. /\ thought[t] = "absent" /\ thought' = [thought EXCEPT ![t] = "active"]
      /\ pending' = pending \cup {t}
      /\ UNCHANGED <<edges, ledger, tags, attempts, at, batch, output, faults, failures, givenUp>>
  BY DEF Capture, Arrive
<1>2. Stays BY <1>1 DEF Stays, StoreTyped
<1>3. StoreTyped' /\ LedgerInv' BY <1>1 DEF StoreTyped, LedgerInv, ThoughtStates
<1>4. QueueTyped'
  <2>1. IsFiniteSet(pending') BY <1>1, FS_AddElement DEF QueueTyped
  <2>2. {u \in Thoughts : thought'[u] = "active"} = {u \in Thoughts : thought[u] = "active"} \cup {t}
    BY <1>1 DEF StoreTyped
  <2>3. IsFiniteSet({u \in Thoughts : thought'[u] = "active"})
    BY <2>2, FS_AddElement DEF QueueTyped
  <2>4. \A u \in pending' : u \in Thoughts /\ thought'[u] # "absent"
    BY <1>1 DEF QueueTyped, StoreTyped
  <2> QED BY <2>1, <2>3, <2>4 DEF QueueTyped
<1>5. ProcsTyped' /\ BatchInv' /\ ProgressInv' BY <1>1, <1>2, OutsideKeeps
<1> QED BY <1>3, <1>4, <1>5

LEMMA AgentsTyped ==
  ASSUME TypedInv, Agents
  PROVE  TypedInv'
<1> USE DEF TypedInv
<1>1. UNCHANGED <<tags, pending, attempts, at, batch, output, faults, failures, givenUp>>
  BY DEF Agents, jobs
<1>2. CASE \E r \in Requests : Accepts(r) /\ Perform(r)
  <2>1. PICK r \in Requests : Perform(r) BY <1>2
  <2>2. LedgerInv' /\ ledger \subseteq ledger' /\ thought' = thought BY <2>1, PerformKeeps
  <2>3. edges' = Created(edges, r.ops[1].edges) \/ edges' = Deleted(edges, r.ops[1].edges)
    BY <2>1, AgentEffect DEF Perform
  <2>4. edges' \in [Edges -> EdgeStates] BY <2>3, EdgesTyped DEF StoreTyped
  <2>5. Stays BY <1>1, <2>2, StaysSame
  <2>6. StoreTyped' /\ QueueTyped' BY <1>1, <2>2, <2>4 DEF StoreTyped, QueueTyped
  <2> QED BY <1>1, <2>2, <2>5, <2>6, OutsideKeeps
<1>3. CASE \E t \in Retractable : Retract(t)
  <2>1. PICK t \in Retractable : Retract(t) BY <1>3
  <2>2. thought[t] = "active" /\ thought' = [thought EXCEPT ![t] = "retracted"]
        /\ UNCHANGED <<edges, ledger>>
    BY <2>1 DEF Retract
  <2>3. \A u \in Thoughts : thought'[u] \in {thought[u], "retracted"} BY <2>2 DEF StoreTyped
  <2>4. Stays BY <1>1, <2>2, <2>3 DEF Stays
  <2>5. thought' \in [Thoughts -> ThoughtStates] BY <2>2 DEF StoreTyped, ThoughtStates
  <2>6. StoreTyped' /\ LedgerInv' BY <1>1, <2>2, <2>5 DEF StoreTyped, LedgerInv
  <2>7. QueueTyped'
    <3>1. {u \in Thoughts : thought'[u] = "active"} \in SUBSET {u \in Thoughts : thought[u] = "active"}
      BY <2>3
    <3>2. IsFiniteSet({u \in Thoughts : thought'[u] = "active"}) BY <3>1, FS_Subset DEF QueueTyped
    <3>3. \A u \in pending' : u \in Thoughts /\ thought'[u] # "absent"
      BY <1>1, <2>3 DEF QueueTyped
    <3> QED BY <1>1, <3>2, <3>3 DEF QueueTyped
  <2> QED BY <1>1, <2>4, <2>6, <2>7, OutsideKeeps
<1> QED BY <1>2, <1>3 DEF Agents

LEMMA TypedInit == Init => TypedInv
<1> SUFFICES ASSUME Init PROVE TypedInv OBVIOUS
<1>1. PICK present \in SUBSET Processes, settled \in SUBSET Thoughts, spent \in 0..MaxFaults :
        StartWith(present, settled, spent)
  BY DEF Init
<1> USE DEF StartWith
<1>2. StoreTyped
  <2>1. MaxTagAttempts \in Nat BY DrainAssumption DEF DrainAssumption
  <2> QED BY <1>1, <2>1 DEF StoreTyped, ThoughtStates, EdgeStates
<1>3. QueueTyped
  <2>1. {t \in Thoughts : thought[t] = "active"} = {} BY <1>1
  <2> QED BY <1>1, <2>1, FS_EmptySet DEF QueueTyped
<1>4. ProcsTyped BY <1>1, EmptySeq DEF ProcsTyped, Places
<1>5. \A p \in Processes : at[p] \in {"absent", "idle"} /\ DOMAIN batch[p] = {} BY <1>1
<1>6. BatchInv /\ ProgressInv BY <1>5 DEF BatchInv, ProgressInv, Progress
<1> QED BY <1>1, <1>2, <1>3, <1>4, <1>6 DEF TypedInv, LedgerInv

LEMMA TypedStep ==
  ASSUME TypedInv, [Next]_vars
  PROVE  TypedInv'
<1>1. ASSUME NEW p \in Processes, Step(p) PROVE TypedInv'
  BY <1>1, TaggedTyped, WriteTagsTyped, RelateTyped, PostponingTyped DEF Step
<1>2. ASSUME NEW w \in Workers, Work(w) PROVE TypedInv'
  <2>1. w \in Processes BY DEF Processes
  <2> QED BY <1>1, <1>2, <2>1, FetchTyped, PostponingTyped, LeavingTyped DEF Work
<1>3. ASSUME NEW c \in Runs, StartRun(c) \/ Step(c) PROVE TypedInv'
  <2>1. c \in Processes BY DEF Processes
  <2> QED BY <1>1, <1>3, <2>1, StartRunTyped
<1>4. CASE UNCHANGED vars
  <2>1. UNCHANGED <<thought, edges, ledger, tags, pending, attempts, at, batch, output, faults,
                    failures, givenUp>>
    BY <1>4 DEF vars
  <2>2. Stays BY <2>1 DEF Stays
  <2>3. StoreTyped' /\ QueueTyped' /\ LedgerInv'
    BY <2>1 DEF TypedInv, StoreTyped, QueueTyped, LedgerInv
  <2> QED BY <2>1, <2>2, <2>3, OutsideKeeps DEF TypedInv
<1> QED BY <1>2, <1>3, <1>4, CrashTyped, CaptureTyped, AgentsTyped DEF Next

LEMMA TypedAlways == Spec => []TypedInv
BY TypedInit, TypedStep, PTL DEF Spec

\* The variables keep their types (thoughts, pending_tags, thought_links and the workers).
THEOREM DrainTyped == Spec => []TypeOK
<1>1. TypedInv => TypeOK
  BY DEF TypedInv, StoreTyped, QueueTyped, ProcsTyped, TypeOK, ThoughtStates, Places, JobRecords
<1> QED BY <1>1, TypedAlways, PTL

---------------------------------------------------------------------------------
\* What one step does to thoughts, queue and edges.

LEMMA StepStays ==
  ASSUME TypedInv, [Next]_vars
  PROVE  Stays
<1> USE DEF TypedInv
<1>1. ASSUME NEW p \in Processes, Step(p) PROVE Stays
  <2>1. CASE Tagged(p) \/ TaggerFails(p) \/ RelateRefused(p)
    <3>1. UNCHANGED <<thought, ledger, tags>>
      BY <2>1 DEF Tagged, TaggerFails, RelateRefused, serviceVars
    <3> QED BY <3>1, StaysSame
  <2>2. CASE WriteTags(p) \/ WriteFails(p)
    <3>1. at[p] = "write" /\ UNCHANGED <<thought, ledger>> /\ tags' \in {tags, TagsWritten(p)}
      BY <2>2 DEF WriteTags, WriteFails, serviceVars
    <3> QED BY <3>1, WriteTyped DEF Stays
  <2>3. CASE Relate(p) \/ RelateFails(p)
    <3>1. UNCHANGED tags /\ (Perform(Request(p)) \/ UNCHANGED serviceVars)
      BY <2>3 DEF Relate, RelateFails, Related
    <3> QED BY <3>1, PerformKeeps, StaysSame DEF serviceVars
  <2> QED BY <1>1, <2>1, <2>2, <2>3 DEF Step
<1>2. ASSUME NEW w \in Workers, Work(w) PROVE Stays
  <2>1. CASE Fetch(w) \/ ReadFails(w) \/ GiveUp(w) \/ Complete(w) \/ CompleteFails(w)
    <3>1. UNCHANGED <<thought, ledger, tags>>
      BY <2>1 DEF Fetch, ReadFails, GiveUp, Complete, CompleteFails, serviceVars
    <3> QED BY <3>1, StaysSame
  <2> QED BY <1>1, <1>2, <2>1 DEF Work, Processes
<1>3. ASSUME NEW c \in Runs, StartRun(c) PROVE Stays
  BY <1>3, StaysSame DEF StartRun, serviceVars
<1>4. ASSUME NEW p \in Processes, Crash(p) PROVE Stays
  BY <1>4, StaysSame DEF Crash, serviceVars
<1>5. ASSUME NEW t \in Thoughts, Capture(t) PROVE Stays
  BY <1>5 DEF Capture, Arrive, Stays, StoreTyped
<1>6. ASSUME Agents PROVE Stays
  <2>1. UNCHANGED tags BY <1>6 DEF Agents
  <2>2. CASE \E r \in Requests : Accepts(r) /\ Perform(r) BY <2>1, <2>2, PerformKeeps, StaysSame
  <2>3. CASE \E t \in Retractable : Retract(t) BY <2>1, <2>3 DEF Retract, Stays, StoreTyped
  <2> QED BY <1>6, <2>2, <2>3 DEF Agents
<1>7. CASE UNCHANGED vars BY <1>7, StaysSame DEF vars
<1> QED BY <1>1, <1>2, <1>3, <1>4, <1>5, <1>6, <1>7 DEF Next, Processes

Settled(t) == thought[t] # "absent" /\ t \notin pending /\ t \notin givenUp

\* A thought that is through with the queue either was so before, or its job completes.
LEMMA StepSettles ==
  ASSUME TypedInv, [Next]_vars, NEW t \in Thoughts, Settled(t)'
  PROVE  Settled(t) \/ \E w \in Workers : Complete(w) /\ Job(w).thought = t
<1> USE DEF TypedInv, Settled
<1>1. ASSUME UNCHANGED <<thought, pending, givenUp>> PROVE Settled(t) BY <1>1
<1>2. ASSUME NEW p \in Processes, Step(p) PROVE Settled(t)
  <2>1. UNCHANGED <<pending, givenUp>>
    BY <1>2 DEF Step, Tagged, TaggerFails, WriteTags, WriteFails, Relate, RelateRefused, RelateFails,
                Related, jobs
  <2>2. UNCHANGED thought
    BY <1>2 DEF Step, Tagged, TaggerFails, WriteTags, WriteFails, Relate, RelateRefused, RelateFails,
                serviceVars, Perform
  <2> QED BY <1>1, <2>1, <2>2
<1>3. ASSUME NEW w \in Workers, GiveUp(w) PROVE Settled(t)
  BY <1>3 DEF GiveUp, Dequeue, serviceVars
<1>4. ASSUME NEW w \in Workers, Complete(w) PROVE Settled(t) \/ Job(w).thought = t
  BY <1>4 DEF Complete, Dequeue, serviceVars
<1>5. ASSUME NEW w \in Workers, Fetch(w) \/ ReadFails(w) \/ CompleteFails(w) PROVE Settled(t)
  BY <1>1, <1>5 DEF Fetch, ReadFails, CompleteFails, serviceVars, jobs
<1>6. ASSUME NEW c \in Runs, StartRun(c) PROVE Settled(t)
  BY <1>1, <1>6 DEF StartRun, serviceVars, jobs
<1>7. ASSUME NEW p \in Processes, Crash(p) PROVE Settled(t)
  BY <1>1, <1>7 DEF Crash, serviceVars, jobs
<1>8. ASSUME NEW u \in Thoughts, Capture(u) PROVE Settled(t)
  BY <1>8 DEF Capture, Arrive, StoreTyped
<1>9. ASSUME Agents PROVE Settled(t)
  <2>1. UNCHANGED <<pending, givenUp>> BY <1>9 DEF Agents, jobs
  <2>2. thought'[t] # "absent" => thought[t] # "absent"
    BY <1>9 DEF Agents, Perform, Retract, StoreTyped
  <2> QED BY <2>1, <2>2
<1>10. CASE UNCHANGED vars BY <1>1, <1>10 DEF vars
<1> QED BY <1>2, <1>3, <1>4, <1>5, <1>6, <1>7, <1>8, <1>9, <1>10 DEF Next, Work, Processes

\* A job leaves the queue done or given up (process_tag_job, complete_tag_job).
THEOREM QueueLosesNothing == Spec => []JobsEndPublished
<1>1. Init => JobsEndPublished BY DEF Init, StartWith, JobsEndPublished
<1>2. TypedInv /\ JobsEndPublished /\ [Next]_vars => JobsEndPublished'
  <2> SUFFICES ASSUME TypedInv, JobsEndPublished, [Next]_vars, NEW t \in Thoughts, Settled(t)'
               PROVE  tags'[t] # NoTags /\ \E row \in ledger' : row.req.key = <<t, "job">>
    BY DEF JobsEndPublished, Settled
  <2>1. Stays BY StepStays
  <2>2. CASE Settled(t) BY <2>1, <2>2 DEF JobsEndPublished, Settled, Stays
  <2>3. CASE \E w \in Workers : Complete(w) /\ Job(w).thought = t
    <3>1. PICK w \in Workers : Complete(w) /\ Job(w).thought = t BY <2>3
    <3>2. w \in Processes /\ at[w] = "complete" BY <3>1 DEF Complete, Processes
    <3>3. tags[t] # NoTags /\ \E row \in ledger : row.req.key = <<t, "job">>
      BY <3>1, <3>2 DEF TypedInv, ProgressInv, Progress
    <3> QED BY <2>1, <3>3 DEF Stays
  <2> QED BY <2>2, <2>3, StepSettles
<1> QED BY <1>1, <1>2, TypedAlways, PTL DEF Spec

\* What publishing the answer for a thought leaves of tagger edges.
LEMMA PublishedEdges ==
  ASSUME TypedInv, NEW p \in Processes, at[p] = "relate", Perform(Request(p))
  PROVE  /\ edges' = TaggerSetReplaced(edges, Job(p).thought, output[p].edges)
         /\ \A t \in Thoughts : IF t = Job(p).thought THEN TaggerEdges(t)' \subseteq output[p].edges
                               ELSE TaggerEdges(t)' = TaggerEdges(t)
<1>1. edges' = TaggerSetReplaced(edges, Job(p).thought, output[p].edges)
  BY RequestShape DEF TypedInv, Perform
<1>2. output[p] \in EmissionsOf(Job(p).thought) BY DEF TypedInv, ProgressInv, Progress
<1>3. \A e \in output[p].edges : e.from = Job(p).thought BY <1>2 DEF EmissionsOf
<1>4. \A e \in Edges : edges'[e] = IF e \in output[p].edges THEN "tagger"
                                   ELSE IF e.from = Job(p).thought /\ edges[e] = "tagger"
                                        THEN "deleted" ELSE edges[e]
  BY <1>1 DEF TaggerSetReplaced
<1>5. ASSUME NEW t \in Thoughts, t = Job(p).thought PROVE TaggerEdges(t)' \subseteq output[p].edges
  BY <1>4, <1>5 DEF TaggerEdges
<1>6. ASSUME NEW t \in Thoughts, t # Job(p).thought PROVE TaggerEdges(t)' = TaggerEdges(t)
  BY <1>3, <1>4, <1>6 DEF TaggerEdges
<1> QED BY <1>1, <1>5, <1>6

\* Nothing else makes an edge the tagger's.
LEMMA StepEdges ==
  ASSUME TypedInv, [Next]_vars
  PROVE  \/ \A t \in Thoughts : TaggerEdges(t)' \subseteq TaggerEdges(t)
         \/ \E p \in Processes : at[p] = "relate" /\ Perform(Request(p))
<1>1. ASSUME UNCHANGED edges PROVE \A t \in Thoughts : TaggerEdges(t)' \subseteq TaggerEdges(t)
  BY <1>1 DEF TaggerEdges
<1>2. ASSUME NEW p \in Processes, Step(p)
      PROVE  UNCHANGED edges \/ (at[p] = "relate" /\ Perform(Request(p)))
  BY <1>2 DEF Step, Tagged, TaggerFails, WriteTags, WriteFails, Relate, RelateRefused, RelateFails,
              serviceVars
<1>3. ASSUME NEW w \in Workers, Fetch(w) \/ ReadFails(w) \/ GiveUp(w) \/ Complete(w) \/ CompleteFails(w)
      PROVE  UNCHANGED edges
  BY <1>3 DEF Fetch, ReadFails, GiveUp, Complete, CompleteFails, serviceVars
<1>4. ASSUME NEW c \in Runs, StartRun(c) PROVE UNCHANGED edges BY <1>4 DEF StartRun, serviceVars
<1>5. ASSUME NEW p \in Processes, Crash(p) PROVE UNCHANGED edges BY <1>5 DEF Crash, serviceVars
<1>6. ASSUME NEW t \in Thoughts, Capture(t) PROVE UNCHANGED edges BY <1>6 DEF Capture, Arrive
<1>7. ASSUME Agents PROVE \A t \in Thoughts : TaggerEdges(t)' \subseteq TaggerEdges(t)
  <2>1. CASE \E r \in Requests : Accepts(r) /\ Perform(r)
    <3>1. PICK r \in Requests : Perform(r) BY <2>1
    <3>2. edges' = Created(edges, r.ops[1].edges) \/ edges' = Deleted(edges, r.ops[1].edges)
      BY <3>1, AgentEffect DEF Perform
    <3>3. \A e \in Edges : edges'[e] = "tagger" => edges[e] = "tagger"
      BY <3>2 DEF Created, Deleted, LiveStates
    <3> QED BY <3>3 DEF TaggerEdges
  <2>2. CASE \E t \in Retractable : Retract(t) BY <1>1, <2>2 DEF Retract
  <2> QED BY <1>7, <2>1, <2>2 DEF Agents
<1>8. CASE UNCHANGED vars BY <1>1, <1>8 DEF vars
<1> QED BY <1>1, <1>2, <1>3, <1>4, <1>5, <1>6, <1>7, <1>8 DEF Next, Work, Processes

\* The tagger edges of a thought are part of one answer (replace_tagger_set).
THEOREM NoPartialGeneration == Spec => []OneSetPublished
<1>1. Init => OneSetPublished BY DEF Init, StartWith, OneSetPublished, TaggerEdges
<1>2. TypedInv /\ OneSetPublished /\ [Next]_vars => OneSetPublished'
  <2> SUFFICES ASSUME TypedInv, OneSetPublished, [Next]_vars,
                      NEW t \in Thoughts, TaggerEdges(t)' # {}
               PROVE  \E row \in ledger' : \E op \in OpsOf(row.req) :
                        /\ op.action = "replace_tagger_set" /\ op.from = t
                        /\ TaggerEdges(t)' \subseteq op.edges
    BY DEF OneSetPublished
  <2>1. ledger \subseteq ledger' BY StepStays DEF Stays
  <2>2. ASSUME TaggerEdges(t)' \subseteq TaggerEdges(t)
        PROVE  \E row \in ledger' : \E op \in OpsOf(row.req) :
                 /\ op.action = "replace_tagger_set" /\ op.from = t
                 /\ TaggerEdges(t)' \subseteq op.edges
    BY <2>1, <2>2 DEF OneSetPublished
  <2>3. ASSUME NEW p \in Processes, at[p] = "relate", Perform(Request(p))
        PROVE  \E row \in ledger' : \E op \in OpsOf(row.req) :
                 /\ op.action = "replace_tagger_set" /\ op.from = t
                 /\ TaggerEdges(t)' \subseteq op.edges
    <3>1. PICK row \in ledger' : row.req = Request(p) BY <2>3, PerformKeeps DEF TypedInv
    <3>2. /\ DOMAIN row.req.ops = {1} /\ row.req.ops[1].action = "replace_tagger_set"
          /\ row.req.ops[1].from = Job(p).thought /\ row.req.ops[1].edges = output[p].edges
      BY <2>3, <3>1, RequestShape DEF TypedInv
    <3>3. row.req.ops[1] \in OpsOf(row.req) BY <3>2 DEF OpsOf
    <3>4. CASE t = Job(p).thought BY <2>3, <3>2, <3>3, <3>4, PublishedEdges
    <3>5. CASE t # Job(p).thought BY <2>2, <2>3, <3>5, PublishedEdges
    <3> QED BY <3>4, <3>5
  <2> QED BY <2>2, <2>3, StepEdges
<1> QED BY <1>1, <1>2, TypedAlways, PTL DEF Spec

\* A re-tag leaves the rows of agents alone (the unique index refuses a set that would not).
THEOREM AgentRowsKept == Spec => RetagKeepsAgentRows
<1>1. TypedInv /\ [Next]_vars =>
        [(\E p \in Processes : Relate(p)) =>
           \A e \in Edges : edges[e] = "agent" => edges'[e] = "agent"]_vars
  <2> SUFFICES ASSUME TypedInv, NEW p \in Processes, Relate(p),
                      NEW e \in Edges, edges[e] = "agent"
               PROVE  edges'[e] = "agent"
    OBVIOUS
  <2>1. at[p] = "relate" BY DEF Relate
  <2>2. CASE UNCHANGED serviceVars BY <2>2 DEF serviceVars
  <2>3. CASE Accepts(Request(p)) /\ Perform(Request(p))
    <3>1. /\ DOMAIN Request(p).ops = {1} /\ Request(p).ops[1].action = "replace_tagger_set"
          /\ Request(p).ops[1].edges = output[p].edges
      BY <2>1, RequestShape DEF TypedInv
    <3>2. Request(p).ops[1] \in OpsOf(Request(p)) BY <3>1 DEF OpsOf
    <3>3. ~Raises(Request(p).ops[1], edges) BY <2>3, <3>2 DEF Accepts
    <3>4. e \notin output[p].edges BY <3>1, <3>3 DEF Raises
    <3>5. edges' = TaggerSetReplaced(edges, Job(p).thought, output[p].edges)
      BY <2>1, <2>3, PublishedEdges
    <3> QED BY <3>4, <3>5 DEF TaggerSetReplaced
  <2> QED BY <2>2, <2>3 DEF Relate
<1> QED BY <1>1, TypedAlways, PTL DEF Spec, RetagKeepsAgentRows

---------------------------------------------------------------------------------
\* One worker and nothing else: the invariant of its steps.

Only(w) == \A p \in Processes \ {w} : at[p] = "absent"

\* Its jobs are queued, since nothing else takes them from the queue.
JobsPending(w) == \A i \in DOMAIN batch[w] : batch[w][i].thought \in pending

\* What it has stored of the job at hand is one answer.
StoredAlike(w) ==
  /\ at[w] \in {"relate", "complete"} => tags[Job(w).thought] = output[w]
  /\ at[w] = "complete" => \E row \in ledger : row.req = JobRequest(Job(w).thought, output[w])

\* The tagger edges of a thought are from the row of its job in the ledger ...
EdgesInLedger ==
  \A t \in Thoughts : TaggerEdges(t) # {} =>
    \E row \in ledger : \E x \in Emissions :
      row.req = JobRequest(t, x) /\ TaggerEdges(t) \subseteq x.edges

\* ... which for a settled thought is the one with its tags.
TagsInLedger ==
  \A t \in Thoughts : Settled(t) =>
    tags[t] # NoTags /\ \E row \in ledger : row.req = JobRequest(t, tags[t])

AloneInv ==
  \A w \in Workers : Only(w) =>
    JobsPending(w) /\ StoredAlike(w) /\ EdgesInLedger /\ TagsInLedger

\* A process that is absent stays so, and no other becomes it.
LEMMA AbsentStays ==
  ASSUME TypedInv, [Next]_vars, NEW p \in Processes
  PROVE  at'[p] = "absent" <=> at[p] = "absent"
<1> USE DEF TypedInv
<1>1. ASSUME NEW q \in Processes, Working(q), NextJob(q)
      PROVE  at'[p] = "absent" <=> at[p] = "absent"
  <2>1. OthersSame(q) /\ at'[q] \in {"idle", "done", "tag"} BY <1>1, NextJobShape
  <2> QED BY <1>1, <2>1 DEF OthersSame, Working
<1>2. ASSUME NEW q \in Processes, NEW place, GoTo(q, place), place # "absent", at[q] # "absent"
      PROVE  at'[p] = "absent" <=> at[p] = "absent"
  BY <1>2 DEF GoTo, ProcsTyped
<1>3. ASSUME UNCHANGED at PROVE at'[p] = "absent" <=> at[p] = "absent" BY <1>3
<1>4. ASSUME NEW q \in Processes, Step(q) PROVE at'[p] = "absent" <=> at[p] = "absent"
  <2>1. CASE Tagged(q) BY <1>2, <2>1 DEF Tagged
  <2>2. CASE WriteTags(q) BY <1>2, <2>2 DEF WriteTags
  <2>3. CASE Relate(q) BY <1>1, <1>2, <2>3 DEF Relate, Related, Working
  <2>4. CASE TaggerFails(q) \/ WriteFails(q) \/ RelateRefused(q) \/ RelateFails(q)
    BY <1>1, <2>4 DEF TaggerFails, WriteFails, RelateRefused, RelateFails, Postpone,
                      PostponeAfterFault, Working
  <2> QED BY <1>4, <2>1, <2>2, <2>3, <2>4 DEF Step
<1>5. ASSUME NEW w \in Workers, Work(w) PROVE at'[p] = "absent" <=> at[p] = "absent"
  <2>1. w \in Processes BY DEF Processes
  <2>2. CASE Fetch(w) BY <1>2, <2>1, <2>2 DEF Fetch
  <2>3. CASE ReadFails(w) \/ GiveUp(w) \/ Complete(w) \/ CompleteFails(w)
    BY <1>1, <2>1, <2>3 DEF ReadFails, GiveUp, Complete, CompleteFails, PostponeAfterFault, Working
  <2> QED BY <1>4, <1>5, <2>1, <2>2, <2>3 DEF Work
<1>6. ASSUME NEW c \in Runs, StartRun(c) PROVE at'[p] = "absent" <=> at[p] = "absent"
  <2>1. c \in Processes /\ at[c] = "idle" BY <1>6 DEF StartRun, Processes
  <2>2. GoTo(c, "done") \/ GoTo(c, "tag") BY <1>6 DEF StartRun
  <2> QED BY <1>2, <2>1, <2>2
<1>7. ASSUME NEW q \in Processes, Crash(q) PROVE at'[p] = "absent" <=> at[p] = "absent"
  BY <1>7, CrashShape DEF OthersSame
<1>8. ASSUME NEW t \in Thoughts, Capture(t) PROVE UNCHANGED at BY <1>8 DEF Capture
<1>9. ASSUME Agents PROVE UNCHANGED at BY <1>9 DEF Agents
<1>10. CASE UNCHANGED vars BY <1>10 DEF vars
<1> QED BY <1>3, <1>4, <1>5, <1>6, <1>7, <1>8, <1>9, <1>10 DEF Next, Processes

\* With one worker there, a step is one of its own or touches no process.
LEMMA OnlyItsSteps ==
  ASSUME TypedInv, [Next]_vars, NEW w \in Workers, Only(w)
  PROVE  \/ Work(w) \/ Crash(w)
         \/ UNCHANGED <<tags, at, batch, output>> /\ pending \subseteq pending'
<1>1. w \in Processes BY DEF Processes
<1>2. ASSUME NEW p \in Processes, Step(p) \/ Crash(p) PROVE p = w
  BY <1>2 DEF Only, Step, Tagged, TaggerFails, WriteTags, WriteFails, Relate, RelateRefused,
              RelateFails, Crash
<1>3. ASSUME NEW v \in Workers, Work(v) PROVE v = w
  BY <1>2, <1>3 DEF Only, Processes, Work, Fetch, ReadFails, GiveUp, Complete, CompleteFails
<1>4. ASSUME NEW c \in Runs PROVE ~StartRun(c) /\ ~Step(c)
  <2>1. c \in Processes /\ c # w BY DrainAssumption DEF DrainAssumption, Processes
  <2> QED BY <1>2, <2>1 DEF Only, StartRun
<1>5. ASSUME NEW t \in Thoughts, Capture(t)
      PROVE  UNCHANGED <<tags, at, batch, output>> /\ pending \subseteq pending'
  BY <1>5 DEF Capture
<1>6. ASSUME Agents PROVE UNCHANGED <<tags, at, batch, output>> /\ pending \subseteq pending'
  BY <1>6 DEF Agents, jobs
<1>7. CASE UNCHANGED vars BY <1>7 DEF vars
<1> QED BY <1>2, <1>3, <1>4, <1>5, <1>6, <1>7 DEF Next

\* The other jobs of a batch are for other thoughts.
LEMMA OtherJobs ==
  ASSUME TypedInv, NEW p \in Processes, Working(p), NextJob(p), NEW i \in DOMAIN batch'[p]
  PROVE  /\ i \in Nat /\ i + 1 \in DOMAIN batch[p] /\ batch'[p][i] = batch[p][i + 1]
         /\ batch'[p][i].thought # Job(p).thought
<1> USE DEF TypedInv
<1>1. at[p] \notin {"absent", "idle", "done"} BY DEF Working
<1>2. batch'[p] = Tail(batch[p]) BY NextJobShape
<1>3. i \in Nat /\ i + 1 \in DOMAIN batch[p] /\ batch'[p][i] = batch[p][i + 1]
  BY <1>1, <1>2, TailTyped
<1>4. i + 1 # 1 /\ 1 \in DOMAIN batch[p] /\ Job(p) = batch[p][1]
  <2>1. i \in 1..(Len(batch[p]) - 1) /\ Len(batch[p]) \in Nat BY <1>1, <1>2, TailTyped, JobTyped
  <2> QED BY <1>1, <2>1, JobTyped
<1> QED BY <1>3, <1>4 DEF BatchInv

\* The steps of a worker, by what becomes of its batch.
WorkSame(w) == Tagged(w) \/ WriteTags(w) \/ Relate(w)
WorkNext(w) == \/ TaggerFails(w) \/ WriteFails(w) \/ RelateRefused(w) \/ RelateFails(w)
               \/ ReadFails(w) \/ GiveUp(w) \/ Complete(w) \/ CompleteFails(w)

LEMMA WorkSplit ==
  ASSUME NEW w \in Workers, Work(w)
  PROVE  /\ Fetch(w) \/ WorkSame(w) \/ WorkNext(w)
         /\ WorkSame(w) => UNCHANGED <<pending, batch>> /\ Working(w)
         /\ WorkNext(w) => NextJob(w) /\ Working(w) /\ pending' \in {pending, pending \ {Job(w).thought}}
<1>1. Fetch(w) \/ WorkSame(w) \/ WorkNext(w) BY DEF Work, Step, WorkSame, WorkNext
<1>2. WorkSame(w) => UNCHANGED <<pending, batch>> /\ Working(w)
  BY DEF WorkSame, Tagged, WriteTags, Relate, Related, jobs, Working
<1>3. TaggerFails(w) \/ WriteFails(w) \/ RelateRefused(w) \/ RelateFails(w) \/ ReadFails(w) =>
        NextJob(w) /\ Working(w) /\ pending' = pending
  BY DEF TaggerFails, WriteFails, RelateRefused, RelateFails, ReadFails, Postpone,
         PostponeAfterFault, Working
<1>4. GiveUp(w) \/ Complete(w) \/ CompleteFails(w) =>
        NextJob(w) /\ Working(w) /\ pending' \in {pending, pending \ {Job(w).thought}}
  BY DEF GiveUp, Complete, CompleteFails, Dequeue, Working, jobs
<1> QED BY <1>1, <1>2, <1>3, <1>4 DEF WorkNext

\* A fetched batch.
LEMMA FetchedJobs ==
  ASSUME TypedInv, NEW w \in Workers, Fetch(w)
  PROVE  /\ OthersSame(w)
         /\ \A i \in DOMAIN batch'[w] :
              batch'[w][i].thought \in pending /\ batch'[w][i].attempts = attempts[batch'[w][i].thought]
<1> USE DEF TypedInv
<1> DEFINE all == JobsOf(pending)
           n == IF Len(all) < BatchSize THEN Len(all) ELSE BatchSize
           jobsof == SubSeq(all, 1, n)
<1>1. /\ w \in Processes /\ pending # {}
      /\ batch' = [batch EXCEPT ![w] = jobsof] /\ at' = [at EXCEPT ![w] = "tag"]
      /\ UNCHANGED output
  BY DEF Fetch, GoTo, Processes
<1>2. pending \in SUBSET Thoughts /\ IsFiniteSet(pending) /\ attempts \in [Thoughts -> 0..MaxTagAttempts]
  BY DEF QueueTyped, StoreTyped
<1>3. /\ all \in Seq(JobRecords) /\ Len(all) = Cardinality(pending) /\ Cardinality(pending) \in Nat
      /\ \A i \in 1..Cardinality(pending) :
           all[i].thought \in pending /\ all[i].attempts = attempts[all[i].thought]
  BY <1>2, JobsOfSet DEF JobRecords
<1>4. n \in Nat /\ n <= Len(all) BY <1>3, DrainAssumption DEF DrainAssumption
<1>5. \A i \in 1..n : i \in 1..Len(all) /\ all[i] \in JobRecords BY <1>3, <1>4
<1>6. DOMAIN jobsof = 1..n /\ \A i \in 1..n : jobsof[i] = all[i]
  <2> HIDE DEF all, n
  <2>1. /\ jobsof \in Seq(JobRecords) /\ Len(jobsof) = IF 1 <= n THEN n - 1 + 1 ELSE 0
        /\ \A i \in 1..n - 1 + 1 : jobsof[i] = all[1 + i - 1]
    BY <1>4, <1>5, SubSeqProperties
  <2> QED BY <1>4, <2>1
<1>7. OthersSame(w) BY <1>1 DEF OthersSame, ProcsTyped
<1> HIDE DEF jobsof, all, n
<1>8. batch'[w] = jobsof BY <1>1 DEF ProcsTyped
<1>9. ASSUME NEW i \in 1..n
      PROVE  jobsof[i].thought \in pending /\ jobsof[i].attempts = attempts[jobsof[i].thought]
  BY <1>3, <1>5, <1>6
<1> QED BY <1>6, <1>7, <1>8, <1>9

LEMMA JobsPendingStep ==
  ASSUME TypedInv, [Next]_vars, NEW w \in Workers, Only(w), JobsPending(w)
  PROVE  JobsPending(w)'
<1> SUFFICES ASSUME NEW i \in DOMAIN batch'[w] PROVE batch'[w][i].thought \in pending'
  BY DEF JobsPending
<1>1. w \in Processes BY DEF Processes
<1>2. CASE UNCHANGED batch /\ pending \subseteq pending' BY <1>2 DEF JobsPending
<1>3. CASE Fetch(w)
  <2>1. UNCHANGED pending BY <1>3 DEF Fetch, jobs
  <2> QED BY <1>3, <2>1, FetchedJobs
<1>4. CASE Work(w) /\ WorkNext(w)
  <2>1. NextJob(w) /\ Working(w) /\ pending' \in {pending, pending \ {Job(w).thought}}
    BY <1>4, WorkSplit
  <2>2. batch'[w][i].thought # Job(w).thought /\ batch'[w][i].thought \in pending
    BY <1>1, <2>1, OtherJobs DEF JobsPending
  <2> QED BY <2>1, <2>2
<1>5. CASE Crash(w)
  <2>1. batch'[w] = <<>> BY <1>1, <1>5, CrashShape DEF TypedInv
  <2> QED BY <2>1
<1> QED BY <1>2, <1>3, <1>4, <1>5, OnlyItsSteps, WorkSplit

LEMMA StoredAlikeStep ==
  ASSUME TypedInv, [Next]_vars, NEW w \in Workers, Only(w), StoredAlike(w)
  PROVE  StoredAlike(w)'
<1>1. w \in Processes /\ ledger \subseteq ledger' BY StepStays DEF Processes, Stays
<1>2. CASE UNCHANGED <<tags, at, batch, output>> BY <1>1, <1>2 DEF StoredAlike, Job, JobRequest, TaggerRequest
<1>3. ASSUME at'[w] \notin {"relate", "complete"} PROVE StoredAlike(w)' BY <1>3 DEF StoredAlike
<1>4. CASE Fetch(w) BY <1>1, <1>3, <1>4 DEF Fetch, GoTo, TypedInv, ProcsTyped
<1>5. CASE Work(w) /\ WorkNext(w)
  <2>1. NextJob(w) /\ Working(w) BY <1>5, WorkSplit
  <2>2. at'[w] \in {"idle", "done", "tag"} BY <1>1, <2>1, NextJobShape DEF TypedInv
  <2> QED BY <1>3, <2>2
<1>6. CASE Crash(w) BY <1>1, <1>3, <1>6, CrashShape DEF TypedInv
<1>7. CASE Tagged(w) BY <1>1, <1>3, <1>7 DEF Tagged, GoTo, TypedInv, ProcsTyped
<1>8. CASE WriteTags(w)
  <2>1. /\ at[w] = "write" /\ at'[w] = "relate" /\ tags' = TagsWritten(w)
        /\ UNCHANGED <<batch, output>>
    BY <1>1, <1>8 DEF WriteTags, GoTo, TypedInv, ProcsTyped
  <2>2. tags'[Job(w).thought] = output[w] BY <1>1, <2>1, WriteTyped DEF TypedInv
  <2> QED BY <2>1, <2>2 DEF StoredAlike, Job
<1>9. CASE Relate(w)
  <2>1. /\ at[w] = "relate" /\ at'[w] = "complete" /\ UNCHANGED <<tags, batch, output>>
    BY <1>1, <1>9 DEF Relate, Related, GoTo, TypedInv, ProcsTyped
  <2>2. \E row \in ledger' : row.req = Request(w)
    <3>1. Published(w) BY <1>9 DEF Relate, Published
    <3> QED BY <1>1, <2>1, <3>1, PublishedKeeps
  <2>3. Request(w) = JobRequest(Job(w).thought, output[w]) BY <1>1, <2>1, RequestShape DEF TypedInv
  <2>4. JobRequest(Job(w).thought, output[w])' = JobRequest(Job(w).thought, output[w])
    BY <2>1 DEF Job, JobRequest, TaggerRequest
  <2>5. Job(w)' = Job(w) BY <2>1 DEF Job
  <2> QED BY <2>1, <2>2, <2>3, <2>4, <2>5 DEF StoredAlike
<1> QED BY <1>2, <1>4, <1>5, <1>6, <1>7, <1>8, <1>9, OnlyItsSteps, WorkSplit DEF WorkSame

LEMMA EdgesInLedgerStep ==
  ASSUME TypedInv, [Next]_vars, NEW w \in Workers, Only(w), EdgesInLedger
  PROVE  EdgesInLedger'
<1> SUFFICES ASSUME NEW t \in Thoughts, TaggerEdges(t)' # {}
             PROVE  \E row \in ledger' : \E x \in Emissions :
                      row.req = JobRequest(t, x) /\ TaggerEdges(t)' \subseteq x.edges
  BY DEF EdgesInLedger, JobRequest, TaggerRequest
<1>1. ledger \subseteq ledger' BY StepStays DEF Stays
<1>2. ASSUME TaggerEdges(t)' \subseteq TaggerEdges(t)
      PROVE  \E row \in ledger' : \E x \in Emissions :
               row.req = JobRequest(t, x) /\ TaggerEdges(t)' \subseteq x.edges
  BY <1>1, <1>2 DEF EdgesInLedger
<1>3. ASSUME NEW p \in Processes, at[p] = "relate", Perform(Request(p))
      PROVE  \E row \in ledger' : \E x \in Emissions :
               row.req = JobRequest(t, x) /\ TaggerEdges(t)' \subseteq x.edges
  <2>1. p = w BY <1>3 DEF Only
  <2>2. CASE t = Job(p).thought
    <3>1. PICK row \in ledger' : row.req = Request(p) BY <1>3, PerformKeeps DEF TypedInv
    <3>2. Request(p) = JobRequest(t, output[p]) BY <1>3, <2>1, <2>2, RequestShape DEF TypedInv
    <3>3. output[p] \in Emissions BY <1>3 DEF TypedInv, ProgressInv, Progress, EmissionsOf
    <3>4. TaggerEdges(t)' \subseteq output[p].edges BY <1>3, <2>2, PublishedEdges
    <3> QED BY <3>1, <3>2, <3>3, <3>4
  <2>3. CASE t # Job(p).thought BY <1>2, <1>3, <2>3, PublishedEdges
  <2> QED BY <2>2, <2>3
<1> QED BY <1>2, <1>3, StepEdges

\* Tags change where a process writes them.
LEMMA StepTags ==
  ASSUME TypedInv, [Next]_vars, NEW t \in Thoughts
  PROVE  tags'[t] = tags[t] \/ \E p \in Processes : at[p] = "write" /\ Job(p).thought = t
<1>1. ASSUME NEW p \in Processes, WriteTags(p) \/ WriteFails(p)
      PROVE  at[p] = "write" /\ (tags'[t] = tags[t] \/ Job(p).thought = t)
  BY <1>1 DEF WriteTags, WriteFails, TagsWritten, TypedInv, StoreTyped
<1>2. ASSUME NEW p \in Processes, Tagged(p) \/ TaggerFails(p) \/ Relate(p) \/ RelateRefused(p) \/ RelateFails(p)
      PROVE  UNCHANGED tags
  BY <1>2 DEF Tagged, TaggerFails, Relate, Related, RelateRefused, RelateFails
<1>3. ASSUME NEW w \in Workers, Fetch(w) \/ ReadFails(w) \/ GiveUp(w) \/ Complete(w) \/ CompleteFails(w)
      PROVE  UNCHANGED tags
  BY <1>3 DEF Fetch, ReadFails, GiveUp, Complete, CompleteFails
<1>4. ASSUME NEW c \in Runs, StartRun(c) PROVE UNCHANGED tags BY <1>4 DEF StartRun
<1>5. ASSUME NEW p \in Processes, Crash(p) PROVE UNCHANGED tags BY <1>5 DEF Crash
<1>6. ASSUME NEW u \in Thoughts, Capture(u) PROVE UNCHANGED tags BY <1>6 DEF Capture
<1>7. ASSUME Agents PROVE UNCHANGED tags BY <1>7 DEF Agents
<1>8. CASE UNCHANGED vars BY <1>8 DEF vars
<1> QED BY <1>1, <1>2, <1>3, <1>4, <1>5, <1>6, <1>7, <1>8 DEF Next, Work, Step, Processes

LEMMA TagsInLedgerStep ==
  ASSUME TypedInv, [Next]_vars, NEW w \in Workers, Only(w),
         JobsPending(w), StoredAlike(w), TagsInLedger
  PROVE  TagsInLedger'
<1> SUFFICES ASSUME NEW t \in Thoughts, Settled(t)'
             PROVE  tags'[t] # NoTags /\ \E row \in ledger' : row.req = JobRequest(t, tags'[t])
  BY DEF TagsInLedger, JobRequest, TaggerRequest
<1>1. ledger \subseteq ledger' BY StepStays DEF Stays
<1>2. CASE Settled(t)
  <2>1. ASSUME NEW p \in Processes, at[p] = "write", Job(p).thought = t PROVE FALSE
    <3>1. p = w BY <2>1 DEF Only
    <3>2. Job(p).thought \in pending BY <2>1, <3>1, JobTyped DEF TypedInv, JobsPending
    <3> QED BY <1>2, <2>1, <3>2 DEF Settled
  <2>2. tags'[t] = tags[t] BY <2>1, StepTags
  <2> QED BY <1>1, <1>2, <2>2 DEF TagsInLedger
<1>3. ASSUME NEW v \in Workers, Complete(v), Job(v).thought = t
      PROVE  tags'[t] # NoTags /\ \E row \in ledger' : row.req = JobRequest(t, tags'[t])
  <2>1. v \in Processes /\ at[v] = "complete" /\ UNCHANGED tags BY <1>3 DEF Processes, Complete
  <2>2. v = w BY <2>1 DEF Only
  <2>3. tags[t] = output[w] /\ \E row \in ledger : row.req = JobRequest(t, output[w])
    BY <1>3, <2>1, <2>2 DEF StoredAlike
  <2>4. tags[t] # NoTags BY <1>3, <2>1 DEF TypedInv, ProgressInv, Progress
  <2> QED BY <1>1, <2>1, <2>3, <2>4
<1> QED BY <1>2, <1>3, StepSettles

\* Tags and relations of a thought come from one answer (process_tag_job's two writes).
THEOREM TagsFollowEdges == Spec => []TagsAgreeWithEdges
<1>1. Init => AloneInv
  <2> SUFFICES ASSUME Init, NEW w \in Workers, Only(w)
               PROVE  JobsPending(w) /\ StoredAlike(w) /\ EdgesInLedger /\ TagsInLedger
    BY DEF AloneInv
  <2>1. w \in Processes BY DEF Processes
  <2>2. batch[w] = <<>> /\ at[w] \in {"idle", "absent"} BY <2>1 DEF Init, StartWith
  <2>3. JobsPending(w) /\ StoredAlike(w) BY <2>2 DEF JobsPending, StoredAlike
  <2>4. \A t \in Thoughts : TaggerEdges(t) = {} BY DEF Init, StartWith, TaggerEdges
  <2>5. \A t \in Thoughts : ~Settled(t) BY DEF Init, StartWith, Settled
  <2> QED BY <2>3, <2>4, <2>5 DEF EdgesInLedger, TagsInLedger
<1>2. TypedInv /\ AloneInv /\ [Next]_vars => AloneInv'
  <2> SUFFICES ASSUME TypedInv, AloneInv, [Next]_vars, NEW w \in Workers, Only(w)'
               PROVE  (JobsPending(w) /\ StoredAlike(w) /\ EdgesInLedger /\ TagsInLedger)'
    BY DEF AloneInv
  <2>1. Only(w) BY AbsentStays DEF Only
  <2>2. JobsPending(w) /\ StoredAlike(w) /\ EdgesInLedger /\ TagsInLedger BY <2>1 DEF AloneInv
  <2> QED BY <2>1, <2>2, JobsPendingStep, StoredAlikeStep, EdgesInLedgerStep, TagsInLedgerStep
<1>3. TypedInv /\ AloneInv => TagsAgreeWithEdges
  <2> SUFFICES ASSUME TypedInv, AloneInv, NEW w \in Workers, Only(w), NEW t \in Thoughts, Settled(t)
               PROVE  TaggerEdges(t) \subseteq tags[t].edges
    BY DEF TagsAgreeWithEdges, Alone, Only, Settled
  <2>1. EdgesInLedger /\ TagsInLedger BY DEF AloneInv
  <2>2. CASE TaggerEdges(t) = {} BY <2>2
  <2>3. CASE TaggerEdges(t) # {}
    <3>1. PICK row \in ledger, x \in Emissions :
            row.req = JobRequest(t, x) /\ TaggerEdges(t) \subseteq x.edges
      BY <2>1, <2>3 DEF EdgesInLedger
    <3>2. PICK other \in ledger : other.req = JobRequest(t, tags[t]) BY <2>1 DEF TagsInLedger
    <3>3. row = other BY <3>1, <3>2 DEF TypedInv, LedgerInv, JobRequest, TaggerRequest
    <3>4. JobRequest(t, x).ops[1].edges = JobRequest(t, tags[t]).ops[1].edges BY <3>1, <3>2, <3>3
    <3>5. x.edges = tags[t].edges BY <3>4 DEF JobRequest, TaggerRequest
    <3> QED BY <3>1, <3>5
  <2> QED BY <2>2, <2>3
<1> QED BY <1>1, <1>2, <1>3, TypedAlways, PTL DEF Spec

---------------------------------------------------------------------------------
\* How often calls for a thought have failed, and how often they may still do.

Present == {w \in Workers : at[w] # "absent"}
Rivals == Cardinality(Present) - 1

\* The workers with a call for a thought still to make, and those of them whose call may
\* fail without being the last.
Holds(w, t) == \E i \in DOMAIN batch[w] : batch[w][i].thought = t /\ (i > 1 \/ at[w] = "tag")
Spares(w, t) ==
  \E i \in DOMAIN batch[w] : /\ batch[w][i].thought = t /\ (i > 1 \/ at[w] = "tag")
                             /\ ~LastAttempt(batch[w][i])
Holders(t) == {w \in Workers : Holds(w, t)}
Sparers(t) == {w \in Workers : Spares(w, t)}

\* Before the attempts are used up every failure is counted or was a fault; then those who
\* fetched the job earlier have a call each, and when it has left the queue, one each again.
CallsOf(t) ==
  IF thought[t] = "absent" THEN failures[t] = 0 /\ attempts[t] = 0 /\ Holders(t) = {}
  ELSE IF t \notin pending
       THEN failures[t] + Cardinality(Holders(t)) <= MaxTagAttempts + 2 * Rivals + faults
  ELSE IF attempts[t] + 1 < MaxTagAttempts THEN failures[t] <= attempts[t] + faults
  ELSE failures[t] + Cardinality(Sparers(t)) <= MaxTagAttempts - 1 + Rivals + faults

CallsInv == Present # {} /\ \A t \in Thoughts : CallsOf(t)

\* What a step may do to the calls for a thought: none of them fails, ...
Quiet(t) ==
  /\ (thought'[t] = "absent" <=> thought[t] = "absent") /\ (t \in pending' <=> t \in pending)
  /\ failures'[t] = failures[t] /\ faults' >= faults
  /\ \/ attempts'[t] = attempts[t]
     \/ t \in pending /\ attempts'[t] = attempts[t] + 1
  /\ t \notin pending => Holders(t)' \subseteq Holders(t)
  /\ attempts[t] + 1 >= MaxTagAttempts => Sparers(t)' \subseteq Sparers(t)

\* ... a call fails, ...
Fails(t) ==
  /\ UNCHANGED thought /\ failures'[t] \in {failures[t], failures[t] + 1}
  /\ \E w \in Holders(t) :
       /\ Holders(t)' \subseteq Holders(t) \ {w} /\ Sparers(t)' \subseteq Sparers(t) \ {w}
       /\ \/ /\ w \in Sparers(t) /\ UNCHANGED pending /\ UNCHANGED faults
             /\ \/ attempts'[t] = attempts[t] + 1
                \/ attempts'[t] = attempts[t] /\ (attempts[t] = MaxTagAttempts \/ t \notin pending)
          \/ UNCHANGED <<pending, attempts>> /\ faults' = faults + 1
          \/ t \notin pending' /\ UNCHANGED <<attempts, faults>>

\* ... the job leaves the queue, ...
Leaves(t) ==
  /\ UNCHANGED <<thought, attempts, failures>> /\ faults' >= faults
  /\ t \in pending /\ t \notin pending'
  /\ \E w \in Present : Holders(t)' \subseteq Present \ {w}

\* ... or it arrives.
Arrives(t) ==
  /\ thought[t] = "absent" /\ thought'[t] # "absent" /\ t \in pending'
  /\ UNCHANGED <<attempts, failures, faults>>
  /\ Holders(t)' \subseteq Holders(t) /\ Sparers(t)' \subseteq Holders(t)

LEMMA Few ==
  ASSUME NEW Y \in SUBSET Workers, NEW X \in SUBSET Y
  PROVE  /\ Cardinality(X) \in Nat /\ Cardinality(Y) \in Nat /\ Cardinality(X) <= Cardinality(Y)
         /\ \A w \in Y : w \notin X => Cardinality(X) + 1 <= Cardinality(Y)
<1>1. IsFiniteSet(Workers) BY DrainAssumption DEF DrainAssumption
<1>2. IsFiniteSet(Y) BY <1>1, FS_Subset
<1>3. /\ IsFiniteSet(X) /\ Cardinality(X) <= Cardinality(Y)
      /\ Cardinality(Y) = Cardinality(X) => Y = X
  BY <1>2, FS_Subset
<1>4. Cardinality(X) \in Nat /\ Cardinality(Y) \in Nat BY <1>2, <1>3, FS_CardinalityType
<1>5. ASSUME NEW w \in Y, w \notin X PROVE Cardinality(X) + 1 <= Cardinality(Y)
  <2>1. Cardinality(Y) # Cardinality(X) BY <1>3, <1>5
  <2> QED BY <1>3, <1>4, <2>1
<1> QED BY <1>3, <1>4, <1>5

LEMMA HoldersPresent ==
  ASSUME ProcsTyped, NEW t
  PROVE  Sparers(t) \subseteq Holders(t) /\ Holders(t) \subseteq Present
<1>1. ASSUME NEW w \in Workers, Holds(w, t) PROVE w \in Present
  <2>1. batch[w] # <<>> BY <1>1 DEF Holds
  <2>2. w \in Processes BY DEF Processes
  <2> QED BY <2>1, <2>2 DEF ProcsTyped, Present
<1>2. ASSUME NEW w \in Workers, Spares(w, t) PROVE Holds(w, t) BY <1>2 DEF Spares, Holds
<1> QED BY <1>1, <1>2 DEF Sparers, Holders

\* Sums of the workers' calls and failures, as numbers.
LEMMA CallsKept ==
  ASSUME TypedInv, TypedInv', UNCHANGED Present, Present # {}, NEW t \in Thoughts, CallsOf(t),
         Quiet(t) \/ Fails(t) \/ Leaves(t) \/ Arrives(t)
  PROVE  CallsOf(t)'
<1> DEFINE n == Cardinality(Present)
           h == Cardinality(Holders(t))
           s == Cardinality(Sparers(t))
           h1 == Cardinality(Holders(t)')
           s1 == Cardinality(Sparers(t)')
<1> USE DEF TypedInv
<1>1. /\ MaxTagAttempts \in Nat /\ MaxTagAttempts > 0
      /\ faults \in Nat /\ faults' \in Nat /\ failures[t] \in Nat /\ failures'[t] \in Nat
      /\ attempts[t] \in Nat /\ attempts'[t] \in Nat
      /\ attempts[t] <= MaxTagAttempts /\ attempts'[t] <= MaxTagAttempts
  BY DrainAssumption DEF DrainAssumption, StoreTyped
<1>2. /\ Sparers(t) \subseteq Holders(t) /\ Holders(t) \subseteq Present
      /\ Sparers(t)' \subseteq Holders(t)' /\ Holders(t)' \subseteq Present
  <2>1. Sparers(t) \subseteq Holders(t) /\ Holders(t) \subseteq Present BY HoldersPresent
  <2>2. (ProcsTyped => Sparers(t) \subseteq Holders(t) /\ Holders(t) \subseteq Present)'
    BY HoldersPresent, PTL
  <2> QED BY <2>1, <2>2
<1>3. Present \in SUBSET Workers BY DEF Present
<1>4. /\ n \in Nat /\ n > 0 /\ h \in Nat /\ s \in Nat /\ h1 \in Nat /\ s1 \in Nat
      /\ h <= n /\ s <= n /\ h1 <= n /\ s1 <= n
  <2>1. PICK w \in Present : TRUE OBVIOUS
  <2>2. Cardinality({}) + 1 <= n /\ Cardinality({}) \in Nat BY <1>3, <2>1, Few
  <2>3. n \in Nat /\ h \in Nat /\ h <= n BY <1>2, <1>3, Few
  <2>4. s \in Nat /\ s <= n BY <1>2, <1>3, Few
  <2>5. h1 \in Nat /\ h1 <= n BY <1>2, <1>3, Few
  <2>6. s1 \in Nat /\ s1 <= n BY <1>2, <1>3, Few
  <2> QED BY <2>2, <2>3, <2>4, <2>5, <2>6
<1>5. /\ Holders(t)' \subseteq Holders(t) => h1 <= h
      /\ Sparers(t)' \subseteq Sparers(t) => s1 <= s
      /\ \A w \in Holders(t) : Holders(t)' \subseteq Holders(t) \ {w} => h1 + 1 <= h /\ h1 + 1 <= n
      /\ \A w \in Sparers(t) : Sparers(t)' \subseteq Sparers(t) \ {w} => s1 + 1 <= s
      /\ \A w \in Holders(t) : Sparers(t)' \subseteq Sparers(t) \ {w} => s1 + 1 <= n
      /\ \A w \in Present : Holders(t)' \subseteq Present \ {w} => h1 + 1 <= n
      /\ s1 <= h1
  <2>1. Holders(t) \in SUBSET Workers /\ Sparers(t) \in SUBSET Workers BY DEF Holders, Sparers
  <2>2. Holders(t)' \subseteq Holders(t) => h1 <= h BY <2>1, Few
  <2>3. Sparers(t)' \subseteq Sparers(t) => s1 <= s BY <2>1, Few
  <2>4. ASSUME NEW w \in Holders(t), Holders(t)' \subseteq Holders(t) \ {w} PROVE h1 + 1 <= h
    BY <2>1, <2>4, Few
  <2>5. ASSUME NEW w \in Sparers(t), Sparers(t)' \subseteq Sparers(t) \ {w} PROVE s1 + 1 <= s
    BY <2>1, <2>5, Few
  <2>6. ASSUME NEW w \in Holders(t), Sparers(t)' \subseteq Sparers(t) \ {w} PROVE s1 + 1 <= n
    <3>1. w \in Present /\ Sparers(t)' \in SUBSET Present /\ w \notin Sparers(t)' BY <1>2, <2>6
    <3> QED BY <1>3, <3>1, Few
  <2>7. ASSUME NEW w \in Present, Holders(t)' \subseteq Present \ {w} PROVE h1 + 1 <= n
    BY <1>3, <2>7, Few
  <2>8. s1 <= h1
    <3>1. Holders(t)' \in SUBSET Workers BY <1>2, <1>3
    <3> QED BY <1>2, <3>1, Few
  <2> QED BY <1>4, <2>2, <2>3, <2>4, <2>5, <2>6, <2>7, <2>8
<1>6. h = 0 <=> Holders(t) = {}
  <2>1. IsFiniteSet(Holders(t))
    BY DrainAssumption, FS_Subset DEF DrainAssumption, Holders
  <2> QED BY <2>1, FS_EmptySet
<1>7. h1 = 0 <=> Holders(t)' = {}
  <2>1. IsFiniteSet(Holders(t)')
    <3>1. Holders(t)' \in SUBSET Workers BY <1>2, <1>3
    <3> QED BY <3>1, DrainAssumption, FS_Subset DEF DrainAssumption
  <2> QED BY <2>1, FS_EmptySet
<1>8. thought[t] = "absent" => t \notin pending BY DEF QueueTyped
<1>9. thought'[t] = "absent" => t \notin pending' BY DEF QueueTyped
<1>10. CallsOf(t) <=>
         IF thought[t] = "absent" THEN failures[t] = 0 /\ attempts[t] = 0 /\ h = 0
         ELSE IF t \notin pending THEN failures[t] + h <= MaxTagAttempts + 2 * (n - 1) + faults
         ELSE IF attempts[t] + 1 < MaxTagAttempts THEN failures[t] <= attempts[t] + faults
         ELSE failures[t] + s <= MaxTagAttempts - 1 + (n - 1) + faults
  BY <1>6 DEF CallsOf, Rivals
<1>11. CallsOf(t)' <=>
         IF thought'[t] = "absent" THEN failures'[t] = 0 /\ attempts'[t] = 0 /\ h1 = 0
         ELSE IF t \notin pending' THEN failures'[t] + h1 <= MaxTagAttempts + 2 * (n - 1) + faults'
         ELSE IF attempts'[t] + 1 < MaxTagAttempts THEN failures'[t] <= attempts'[t] + faults'
         ELSE failures'[t] + s1 <= MaxTagAttempts - 1 + (n - 1) + faults'
  BY <1>7 DEF CallsOf, Rivals
<1> HIDE DEF n, h, s, h1, s1
<1> USE <1>1, <1>4, <1>5, <1>8, <1>9, <1>10, <1>11
<1>12. CASE Quiet(t) BY <1>12 DEF Quiet
<1>13. CASE Fails(t)
  <2>1. PICK w \in Holders(t) :
          /\ Holders(t)' \subseteq Holders(t) \ {w} /\ Sparers(t)' \subseteq Sparers(t) \ {w}
          /\ \/ /\ w \in Sparers(t) /\ UNCHANGED pending /\ UNCHANGED faults
                /\ \/ attempts'[t] = attempts[t] + 1
                   \/ attempts'[t] = attempts[t] /\ (attempts[t] = MaxTagAttempts \/ t \notin pending)
             \/ UNCHANGED <<pending, attempts>> /\ faults' = faults + 1
             \/ t \notin pending' /\ UNCHANGED <<attempts, faults>>
    BY <1>13 DEF Fails
  <2>2. /\ h1 + 1 <= h /\ h1 + 1 <= n /\ s1 + 1 <= n /\ s1 <= s
        /\ w \in Sparers(t) => s1 + 1 <= s
    BY <2>1
  <2>3. UNCHANGED thought /\ failures'[t] \in {failures[t], failures[t] + 1} BY <1>13 DEF Fails
  <2>4. thought[t] # "absent"
    <3>1. h # 0 BY <2>2
    <3> QED BY <3>1
  <2>5. CASE w \in Sparers(t) /\ UNCHANGED pending /\ UNCHANGED faults
                /\ \/ attempts'[t] = attempts[t] + 1
                   \/ attempts'[t] = attempts[t] /\ (attempts[t] = MaxTagAttempts \/ t \notin pending)
    BY <2>2, <2>3, <2>4, <2>5
  <2>6. CASE UNCHANGED <<pending, attempts>> /\ faults' = faults + 1 BY <2>2, <2>3, <2>4, <2>6
  <2>7. CASE t \notin pending' /\ UNCHANGED <<attempts, faults>> BY <2>2, <2>3, <2>4, <2>7
  <2> QED BY <2>1, <2>5, <2>6, <2>7
<1>14. CASE Leaves(t) BY <1>14 DEF Leaves
<1>15. CASE Arrives(t) BY <1>2, <1>15 DEF Arrives
<1> QED BY <1>12, <1>13, <1>14, <1>15

\* What becomes of the calls still to make.
LEMMA CallsFewer ==
  ASSUME ProcsTyped, NEW p \in Processes, OthersSame(p), NEW t \in Thoughts,
         p \in Workers =>
           \A i \in DOMAIN batch'[p] :
             batch'[p][i].thought = t /\ (i > 1 \/ at'[p] = "tag") =>
               \E j \in DOMAIN batch[p] :
                 batch[p][j] = batch'[p][i] /\ (j > 1 \/ at[p] = "tag")
  PROVE  Holders(t)' \subseteq Holders(t) /\ Sparers(t)' \subseteq Sparers(t)
<1> SUFFICES ASSUME NEW v \in Workers
             PROVE  (Holds(v, t)' => Holds(v, t)) /\ (Spares(v, t)' => Spares(v, t))
  BY DEF Holders, Sparers
<1>1. CASE v = p BY <1>1 DEF Holds, Spares, LastAttempt
<1>2. CASE v # p
  <2>1. at'[v] = at[v] /\ batch'[v] = batch[v] BY <1>2 DEF OthersSame, Processes
  <2> QED BY <2>1 DEF Holds, Spares, LastAttempt
<1> QED BY <1>1, <1>2

LEMMA NextJobCalls ==
  ASSUME TypedInv, NEW p \in Processes, Working(p), NextJob(p), NEW t \in Thoughts
  PROVE  /\ Holders(t)' \subseteq Holders(t) /\ Sparers(t)' \subseteq Sparers(t)
         /\ (p \in Holders(t)' \/ p \in Sparers(t)') => t # Job(p).thought
<1>1. OthersSame(p) BY NextJobShape DEF TypedInv
<1>2. ASSUME NEW i \in DOMAIN batch'[p]
      PROVE  /\ i + 1 \in DOMAIN batch[p] /\ batch'[p][i] = batch[p][i + 1] /\ i + 1 > 1
             /\ batch'[p][i].thought # Job(p).thought
  <2>1. i \in 1..(Len(batch[p]) - 1)
    BY NextJobShape, TailTyped DEF TypedInv, Working
  <2>2. i + 1 > 1 BY <2>1
  <2> QED BY <2>2, OtherJobs
<1>3. Holders(t)' \subseteq Holders(t) /\ Sparers(t)' \subseteq Sparers(t)
  BY <1>1, <1>2, CallsFewer DEF TypedInv
<1>4. p \in Holders(t)' \/ p \in Sparers(t)' => t # Job(p).thought
  BY <1>2 DEF Holders, Sparers, Holds, Spares
<1> QED BY <1>3, <1>4

\* A job that is put off or dropped, as the counts see it.
LEMMA PostponedCounts ==
  ASSUME TypedInv, NEW p \in Processes, Working(p), Postpone(p) \/ PostponeAfterFault(p),
         NEW t \in Thoughts
  PROVE  /\ NextJob(p) /\ faults' >= faults /\ faults' \in Nat /\ faults \in Nat
         /\ (attempts'[t] = attempts[t] \/ (t \in pending /\ attempts'[t] = attempts[t] + 1))
         /\ (t # Job(p).thought \/ p \notin Workers) => attempts'[t] = attempts[t]
         /\ Postpone(p) =>
              \/ UNCHANGED faults /\ CountAttempt(p)
              \/ faults' = faults + 1 /\ UNCHANGED attempts
<1>1. faults \in Nat /\ MaxFaults \in Nat
  BY DrainAssumption DEF TypedInv, StoreTyped, DrainAssumption
<1>2. Fault => faults' = faults + 1 BY DEF Fault
<1>3. attempts \in [Thoughts -> 0..MaxTagAttempts] BY DEF TypedInv, StoreTyped
<1>4. CountAttempt(p) =>
        /\ (attempts'[t] = attempts[t] \/ (t \in pending /\ attempts'[t] = attempts[t] + 1))
        /\ (t # Job(p).thought \/ p \notin Workers) => attempts'[t] = attempts[t]
  BY <1>3 DEF CountAttempt
<1>5. CountAttempt(p) \/ UNCHANGED attempts BY DEF Postpone, PostponeAfterFault
<1> QED BY <1>1, <1>2, <1>4, <1>5 DEF Postpone, PostponeAfterFault

LEMMA QuietPostponed ==
  ASSUME TypedInv, NEW p \in Processes, Working(p), Postpone(p) \/ PostponeAfterFault(p),
         NEW t \in Thoughts, UNCHANGED <<thought, pending>>, failures'[t] = failures[t]
  PROVE  Quiet(t)
<1>1. NextJob(p) /\ faults' >= faults
      /\ (attempts'[t] = attempts[t] \/ (t \in pending /\ attempts'[t] = attempts[t] + 1))
  BY PostponedCounts
<1>2. Holders(t)' \subseteq Holders(t) /\ Sparers(t)' \subseteq Sparers(t) BY <1>1, NextJobCalls
<1> QED BY <1>1, <1>2 DEF Quiet

LEMMA QuietSame ==
  ASSUME TypedInv, NEW t \in Thoughts, UNCHANGED <<attempts, at, batch, failures, faults>>,
         thought'[t] = "absent" <=> thought[t] = "absent", t \in pending' <=> t \in pending
  PROVE  Quiet(t)
<1>1. Holders(t)' \subseteq Holders(t) /\ Sparers(t)' \subseteq Sparers(t)
  BY DEF Holders, Sparers, Holds, Spares, LastAttempt
<1>2. faults' >= faults BY DEF TypedInv, StoreTyped
<1> QED BY <1>1, <1>2 DEF Quiet

LEMMA QuietAdvance ==
  ASSUME TypedInv, NEW p \in Processes, OthersSame(p), UNCHANGED batch, at'[p] # "tag",
         NEW t \in Thoughts, UNCHANGED <<thought, pending, attempts, failures, faults>>
  PROVE  Quiet(t)
<1>1. Holders(t)' \subseteq Holders(t) /\ Sparers(t)' \subseteq Sparers(t)
  BY CallsFewer DEF TypedInv
<1>2. faults' >= faults BY DEF TypedInv, StoreTyped
<1> QED BY <1>1, <1>2 DEF Quiet

LEMMA PostponingCalls ==
  ASSUME TypedInv, NEW p \in Processes, NEW t \in Thoughts,
         ReadFails(p) \/ WriteFails(p) \/ RelateRefused(p) \/ RelateFails(p)
  PROVE  Quiet(t)
<1>1. /\ Working(p) /\ (Postpone(p) \/ PostponeAfterFault(p))
      /\ UNCHANGED <<pending, failures>>
  BY DEF ReadFails, WriteFails, RelateRefused, RelateFails, Working
<1>2. UNCHANGED thought
  BY DEF ReadFails, WriteFails, RelateRefused, RelateFails, serviceVars, Perform
<1> QED BY <1>1, <1>2, QuietPostponed

\* A worker at the tagger has a call to make for the job at hand.
LEMMA CallAtHand ==
  ASSUME TypedInv, NEW w \in Workers, at[w] = "tag"
  PROVE  /\ w \in Processes /\ w \in Holders(Job(w).thought)
         /\ ~LastAttempt(Job(w)) => w \in Sparers(Job(w).thought)
<1>1. w \in Processes BY DEF Processes
<1>2. 1 \in DOMAIN batch[w] /\ Job(w) = batch[w][1] BY <1>1, JobTyped DEF TypedInv
<1> QED BY <1>1, <1>2 DEF Holders, Sparers, Holds, Spares

LEMMA FailureCounts ==
  ASSUME TypedInv, NEW p \in Processes, CountFailure(p), NEW t \in Thoughts
  PROVE  /\ failures'[t] \in {failures[t], failures[t] + 1}
         /\ (t # Job(p).thought \/ p \notin Workers) => failures'[t] = failures[t]
BY DEF CountFailure, TypedInv, StoreTyped

LEMMA TaggerFailsCalls ==
  ASSUME TypedInv, NEW p \in Processes, TaggerFails(p), NEW t \in Thoughts
  PROVE  Quiet(t) \/ Fails(t)
<1>1. /\ at[p] = "tag" /\ (p \in Runs \/ ~LastAttempt(Job(p))) /\ CountFailure(p) /\ Postpone(p)
      /\ UNCHANGED <<thought, pending>> /\ Working(p)
  BY DEF TaggerFails, serviceVars, Working
<1>2. CASE t # Job(p).thought \/ p \notin Workers
  <2>1. failures'[t] = failures[t] BY <1>1, <1>2, FailureCounts
  <2> QED BY <1>1, <2>1, QuietPostponed
<1>3. CASE t = Job(p).thought /\ p \in Workers
  <2>1. p \in Holders(t) /\ p \in Sparers(t)
    <3>1. p \notin Runs BY <1>3, DrainAssumption DEF DrainAssumption
    <3> QED BY <1>1, <1>3, <3>1, CallAtHand
  <2>2. NextJob(p) BY <1>1, PostponedCounts
  <2>3. Holders(t)' \subseteq Holders(t) \ {p} /\ Sparers(t)' \subseteq Sparers(t) \ {p}
    BY <1>1, <1>3, <2>2, NextJobCalls
  <2>4. failures'[t] \in {failures[t], failures[t] + 1} BY <1>1, FailureCounts
  <2>5. CASE UNCHANGED faults /\ CountAttempt(p)
    <3>1. attempts[t] \in 0..MaxTagAttempts /\ MaxTagAttempts \in Nat
          /\ attempts \in [Thoughts -> 0..MaxTagAttempts]
      BY DrainAssumption DEF DrainAssumption, TypedInv, StoreTyped
    <3>2. attempts'[t] = IF t \in pending /\ attempts[t] < MaxTagAttempts
                         THEN attempts[t] + 1 ELSE attempts[t]
      BY <1>3, <2>5, <3>1 DEF CountAttempt
    <3>3. \/ attempts'[t] = attempts[t] + 1
          \/ attempts'[t] = attempts[t] /\ (attempts[t] = MaxTagAttempts \/ t \notin pending)
      BY <3>1, <3>2
    <3> QED BY <1>1, <2>1, <2>3, <2>4, <2>5, <3>3 DEF Fails
  <2>6. CASE faults' = faults + 1 /\ UNCHANGED attempts
    BY <1>1, <2>1, <2>3, <2>4, <2>6 DEF Fails
  <2> QED BY <1>1, <2>5, <2>6, PostponedCounts
<1> QED BY <1>2, <1>3

LEMMA GiveUpCalls ==
  ASSUME TypedInv, NEW w \in Workers, GiveUp(w), NEW t \in Thoughts
  PROVE  Quiet(t) \/ Fails(t)
<1>1. /\ w \in Processes /\ at[w] = "tag" /\ Working(w) /\ CountFailure(w) /\ NextJob(w)
      /\ UNCHANGED <<thought, attempts>>
      /\ \/ pending' = pending \ {Job(w).thought} /\ UNCHANGED faults
         \/ faults' = faults + 1 /\ UNCHANGED pending
  BY DEF GiveUp, Dequeue, Fault, serviceVars, Working, Processes
<1>2. Holders(t)' \subseteq Holders(t) /\ Sparers(t)' \subseteq Sparers(t) BY <1>1, NextJobCalls
<1>3. faults' >= faults BY <1>1 DEF TypedInv, StoreTyped
<1>4. CASE t # Job(w).thought
  <2>1. failures'[t] = failures[t] BY <1>1, <1>4, FailureCounts
  <2> QED BY <1>1, <1>2, <1>3, <1>4, <2>1 DEF Quiet
<1>5. CASE t = Job(w).thought
  <2>1. w \in Holders(t) BY <1>1, <1>5, CallAtHand
  <2>2. Holders(t)' \subseteq Holders(t) \ {w} /\ Sparers(t)' \subseteq Sparers(t) \ {w}
    BY <1>1, <1>5, NextJobCalls
  <2>3. failures'[t] \in {failures[t], failures[t] + 1} BY <1>1, FailureCounts
  <2> QED BY <1>1, <1>5, <2>1, <2>2, <2>3 DEF Fails
<1> QED BY <1>4, <1>5

LEMMA CompleteCalls ==
  ASSUME TypedInv, NEW w \in Workers, Complete(w) \/ CompleteFails(w), NEW t \in Thoughts
  PROVE  Quiet(t) \/ Leaves(t)
<1>1. /\ w \in Processes /\ at[w] = "complete" /\ Working(w) /\ NextJob(w)
      /\ UNCHANGED <<thought, attempts, failures>>
      /\ \/ pending' = pending \ {Job(w).thought} /\ UNCHANGED faults
         \/ UNCHANGED pending /\ faults' = faults + 1
  BY DEF Complete, CompleteFails, Dequeue, Fault, serviceVars, jobs, Working, Processes
<1>2. Holders(t)' \subseteq Holders(t) /\ Sparers(t)' \subseteq Sparers(t) BY <1>1, NextJobCalls
<1>3. faults' >= faults BY <1>1 DEF TypedInv, StoreTyped
<1>4. CASE t \in pending' <=> t \in pending BY <1>1, <1>2, <1>3, <1>4 DEF Quiet
<1>5. CASE t \in pending /\ t \notin pending'
  <2>1. t = Job(w).thought BY <1>1, <1>5
  <2>2. w \in Present BY <1>1 DEF Present
  <2>3. Holders(t)' \subseteq Present \ {w}
    <3>1. Holders(t) \subseteq Present BY HoldersPresent DEF TypedInv
    <3> QED BY <1>1, <1>2, <2>1, <3>1, NextJobCalls
  <2> QED BY <1>1, <1>3, <1>5, <2>2, <2>3 DEF Leaves
<1> QED BY <1>1, <1>4, <1>5

LEMMA FetchCalls ==
  ASSUME TypedInv, NEW w \in Workers, Fetch(w), NEW t \in Thoughts
  PROVE  Quiet(t)
<1>1. /\ w \in Processes /\ UNCHANGED <<thought, pending, attempts, failures, faults>>
  BY DEF Fetch, serviceVars, jobs, Processes
<1>2. /\ OthersSame(w)
      /\ \A i \in DOMAIN batch'[w] :
           batch'[w][i].thought \in pending /\ batch'[w][i].attempts = attempts[batch'[w][i].thought]
  BY FetchedJobs
<1>3. ASSUME t \notin pending PROVE Holders(t)' \subseteq Holders(t)
  BY <1>1, <1>2, <1>3, CallsFewer DEF TypedInv
<1>4. ASSUME attempts[t] + 1 >= MaxTagAttempts PROVE Sparers(t)' \subseteq Sparers(t)
  <2> SUFFICES ASSUME NEW v \in Workers, Spares(v, t)' PROVE Spares(v, t)
    BY DEF Sparers
  <2>1. CASE v = w
    <3>1. PICK i \in DOMAIN batch'[w] : batch'[w][i].thought = t /\ ~(batch'[w][i].attempts + 1 >= MaxTagAttempts)
      BY <2>1 DEF Spares, LastAttempt
    <3> QED BY <1>2, <1>4, <3>1
  <2>2. CASE v # w
    <3>1. at'[v] = at[v] /\ batch'[v] = batch[v] BY <1>2, <2>2 DEF OthersSame, Processes
    <3> QED BY <3>1 DEF Spares, LastAttempt
  <2> QED BY <2>1, <2>2
<1>5. faults' >= faults BY <1>1 DEF TypedInv, StoreTyped
<1> QED BY <1>1, <1>3, <1>4, <1>5 DEF Quiet

LEMMA StepCalls ==
  ASSUME TypedInv, [Next]_vars, NEW t \in Thoughts
  PROVE  Quiet(t) \/ Fails(t) \/ Leaves(t) \/ Arrives(t)
<1> USE DEF TypedInv
<1>1. ASSUME NEW p \in Processes, Tagged(p) \/ WriteTags(p) PROVE Quiet(t)
  <2>1. /\ UNCHANGED <<batch, thought, pending, attempts, failures, faults>>
        /\ (GoTo(p, "write") \/ GoTo(p, "relate"))
    BY <1>1 DEF Tagged, WriteTags, serviceVars, jobs
  <2>2. OthersSame(p) /\ at'[p] # "tag"
    BY <1>1, <2>1 DEF Tagged, WriteTags, OthersSame, GoTo, ProcsTyped
  <2> QED BY <2>1, <2>2, QuietAdvance
<1>2. ASSUME NEW p \in Processes, Relate(p) PROVE Quiet(t)
  <2>1. /\ at[p] = "relate" /\ Working(p) /\ Related(p)
        /\ UNCHANGED <<thought, pending, attempts, failures, faults>>
    BY <1>2 DEF Relate, Related, Perform, serviceVars, jobs, Working
  <2>2. CASE p \in Workers
    <3>1. UNCHANGED <<batch, output>> /\ GoTo(p, "complete") BY <2>1, <2>2 DEF Related
    <3>2. OthersSame(p) /\ at'[p] # "tag" BY <3>1 DEF OthersSame, GoTo, ProcsTyped
    <3> QED BY <2>1, <3>1, <3>2, QuietAdvance
  <2>3. CASE p \notin Workers
    <3>1. NextJob(p) BY <2>1, <2>3 DEF Related
    <3>2. Holders(t)' \subseteq Holders(t) /\ Sparers(t)' \subseteq Sparers(t)
      BY <2>1, <3>1, NextJobCalls
    <3>3. faults' >= faults BY <2>1 DEF StoreTyped
    <3> QED BY <2>1, <3>2, <3>3 DEF Quiet
  <2> QED BY <2>2, <2>3
<1>3. ASSUME NEW p \in Processes, Step(p) PROVE Quiet(t) \/ Fails(t)
  BY <1>1, <1>2, <1>3, PostponingCalls, TaggerFailsCalls DEF Step
<1>4. ASSUME NEW w \in Workers, Work(w) PROVE Quiet(t) \/ Fails(t) \/ Leaves(t)
  <2>1. w \in Processes BY DEF Processes
  <2> QED BY <1>3, <1>4, <2>1, PostponingCalls, GiveUpCalls, CompleteCalls, FetchCalls DEF Work
<1>5. ASSUME NEW c \in Runs, StartRun(c) PROVE Quiet(t)
  <2>1. c \in Processes /\ c \notin Workers BY DrainAssumption DEF DrainAssumption, Processes
  <2>2. UNCHANGED <<thought, pending, attempts, failures, faults>>
    BY <1>5 DEF StartRun, serviceVars, jobs
  <2>3. OthersSame(c)
    BY <1>5 DEF StartRun, OthersSame, GoTo, ProcsTyped
  <2>4. Holders(t)' \subseteq Holders(t) /\ Sparers(t)' \subseteq Sparers(t) BY <2>1, <2>3, CallsFewer
  <2>5. faults' >= faults BY <2>2 DEF StoreTyped
  <2> QED BY <2>2, <2>4, <2>5 DEF Quiet
<1>6. ASSUME NEW p \in Processes, Crash(p) PROVE Quiet(t)
  <2>1. UNCHANGED <<thought, pending, attempts, failures>> /\ faults' = faults + 1
    BY <1>6 DEF Crash, Fault, serviceVars, jobs
  <2>2. OthersSame(p) /\ DOMAIN batch'[p] = {} BY <1>6, CrashShape
  <2>3. Holders(t)' \subseteq Holders(t) /\ Sparers(t)' \subseteq Sparers(t) BY <2>2, CallsFewer
  <2>4. faults' >= faults BY <2>1 DEF StoreTyped
  <2> QED BY <2>1, <2>3, <2>4 DEF Quiet
<1>7. ASSUME NEW u \in Thoughts, Capture(u) PROVE Quiet(t) \/ Arrives(t)
  <2>1. /\ thought[u] = "absent" /\ thought' = [thought EXCEPT ![u] = "active"]
        /\ pending' = pending \cup {u} /\ UNCHANGED <<attempts, at, batch, failures, faults>>
    BY <1>7 DEF Capture, Arrive
  <2>2. CASE t # u BY <2>1, <2>2, QuietSame DEF StoreTyped
  <2>3. CASE t = u
    <3>1. Holders(t)' \subseteq Holders(t) /\ Sparers(t)' \subseteq Sparers(t)
      BY <2>1 DEF Holders, Sparers, Holds, Spares, LastAttempt
    <3>2. Sparers(t) \subseteq Holders(t) BY HoldersPresent
    <3>3. thought'[t] # "absent" BY <2>1, <2>3 DEF StoreTyped
    <3> QED BY <2>1, <2>3, <3>1, <3>2, <3>3 DEF Arrives
  <2> QED BY <2>2, <2>3
<1>8. ASSUME Agents PROVE Quiet(t)
  <2>1. UNCHANGED <<pending, attempts, at, batch, failures, faults>> BY <1>8 DEF Agents, jobs
  <2>2. thought'[t] = "absent" <=> thought[t] = "absent"
    BY <1>8 DEF Agents, Perform, Retract, StoreTyped
  <2> QED BY <2>1, <2>2, QuietSame
<1>9. CASE UNCHANGED vars BY <1>9, QuietSame DEF vars
<1> QED BY <1>3, <1>4, <1>5, <1>6, <1>7, <1>8, <1>9 DEF Next, Processes

\* The tagger's calls for a job fail a bounded number of times (MAX_TAG_ATTEMPTS).
THEOREM CallsBounded == Spec => []FailedCallsBounded
<1>1. Init => CallsInv
  <2> SUFFICES ASSUME Init PROVE CallsInv OBVIOUS
  <2>1. PICK present \in SUBSET Processes, settled \in SUBSET Thoughts, spent \in 0..MaxFaults :
          present \cap Workers # {} /\ StartWith(present, settled, spent)
    BY DEF Init
  <2>2. Present # {} BY <2>1 DEF StartWith, Present, Processes
  <2>3. ASSUME NEW t \in Thoughts PROVE CallsOf(t)
    <3>1. failures[t] = 0 /\ attempts[t] = 0 /\ t \notin pending BY <2>1 DEF StartWith
    <3>2. \A w \in Workers : batch[w] = <<>> BY <2>1 DEF StartWith, Processes
    <3>3. Holders(t) = {} BY <3>2 DEF Holders, Holds
    <3>4. Cardinality(Holders(t)) = 0 BY <3>3, FS_EmptySet
    <3>5. Rivals \in Nat
      <4>1. Present \in SUBSET Workers BY DEF Present
      <4>2. PICK w \in Present : TRUE BY <2>2
      <4>3. Cardinality({}) + 1 <= Cardinality(Present) /\ Cardinality({}) \in Nat
            /\ Cardinality(Present) \in Nat
        BY <4>1, <4>2, Few
      <4> QED BY <4>3 DEF Rivals
    <3>6. MaxTagAttempts \in Nat /\ faults \in Nat
      BY <2>1, DrainAssumption DEF StartWith, DrainAssumption
    <3> QED BY <3>1, <3>3, <3>4, <3>5, <3>6 DEF CallsOf
  <2> QED BY <2>2, <2>3 DEF CallsInv
<1>2. TypedInv /\ TypedInv' /\ CallsInv /\ [Next]_vars => CallsInv'
  <2> SUFFICES ASSUME TypedInv, TypedInv', CallsInv, [Next]_vars PROVE CallsInv' OBVIOUS
  <2>1. UNCHANGED Present
    <3>1. \A w \in Workers : at'[w] = "absent" <=> at[w] = "absent" BY AbsentStays DEF Processes
    <3> QED BY <3>1 DEF Present
  <2>2. \A t \in Thoughts : CallsOf(t)' BY <2>1, StepCalls, CallsKept DEF CallsInv
  <2> QED BY <2>1, <2>2 DEF CallsInv
<1>3. TypedInv /\ CallsInv => FailedCallsBounded
  <2> SUFFICES ASSUME TypedInv, CallsInv, NEW t \in Thoughts
               PROVE  failures[t] <= CallsAllowed + faults
    BY DEF FailedCallsBounded
  <2>1. /\ MaxTagAttempts \in Nat /\ faults \in Nat /\ failures[t] \in Nat /\ attempts[t] \in Nat
    BY DrainAssumption DEF DrainAssumption, TypedInv, StoreTyped
  <2>2. /\ Cardinality(Holders(t)) \in Nat /\ Cardinality(Sparers(t)) \in Nat
        /\ Cardinality(Present) \in Nat /\ Cardinality(Present) > 0
    <3>1. Present \in SUBSET Workers /\ Holders(t) \in SUBSET Workers /\ Sparers(t) \in SUBSET Workers
      BY DEF Present, Holders, Sparers
    <3>2. PICK w \in Present : TRUE BY DEF CallsInv
    <3>3. Cardinality({}) + 1 <= Cardinality(Present) /\ Cardinality({}) \in Nat
      BY <3>1, <3>2, Few
    <3> QED BY <3>1, <3>3, Few
  <2>3. CallsAllowed = MaxTagAttempts + 2 * Rivals BY DEF CallsAllowed, Rivals, Present
  <2>4. CallsOf(t) BY DEF CallsInv
  <2> QED BY <2>1, <2>2, <2>3, <2>4 DEF CallsOf, Rivals
<1> QED BY <1>1, <1>2, <1>3, TypedAlways, PTL DEF Spec
================================================================================
