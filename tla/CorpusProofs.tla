------------------------------- MODULE CorpusProofs -------------------------------
(***************************************************************************)
(* Proofs about Corpus: chunks cover their thought, vectors are of the     *)
(* text of their context, completed sweeps were thorough, and sweeps take  *)
(* nothing that a search would find.                                       *)
(***************************************************************************)
EXTENDS Corpus, SequenceTheorems, FiniteSetTheorems, WellFoundedInduction, TLAPS

---------------------------------------------------------------------------------
\* Chunks as values.

\* The chunks of a thought.
PartsOf(t) == {Chunk(t, i, j) : i, j \in 0..Len(Text[t])}

LEMMA AllChunksAreParts == AllChunks = UNION {PartsOf(t) : t \in Thoughts}
BY DEF AllChunks, PartsOf

\* A part of a thought's text is a chunk of it (propose_chunks).
LEMMA PartIsChunk ==
  ASSUME NEW t \in Thoughts, NEW i \in 0..Len(Text[t]), NEW j \in 0..Len(Text[t])
  PROVE  Chunk(t, i, j) \in AllChunks /\ Chunk(t, i, j).thought = t
<1>1. Chunk(t, i, j) \in PartsOf(t) BY DEF PartsOf
<1>2. PartsOf(t) \subseteq UNION {PartsOf(u) : u \in Thoughts} OBVIOUS
<1>3. Chunk(t, i, j).thought = t BY DEF Chunk
<1> QED BY <1>1, <1>2, <1>3, AllChunksAreParts

\* A chunk is of a thought, and is neither a thought nor None.
LEMMA ChunkIsOfThought ==
  ASSUME NEW c \in AllChunks
  PROVE  c.thought \in Thoughts /\ c \notin Thoughts /\ c # None
<1>1. PICK t \in Thoughts : c \in PartsOf(t) BY AllChunksAreParts
<1>2. PICK i \in 0..Len(Text[t]), j \in 0..Len(Text[t]) : c = Chunk(t, i, j)
  BY <1>1 DEF PartsOf
<1>3. c.thought = t BY <1>2 DEF Chunk
<1>4. c \notin Thoughts /\ c # None
  <2> HIDE DEF AllChunks
  <2> QED BY CorpusAssumption DEF CorpusAssumption
<1> QED BY <1>1, <1>3, <1>4

\* A word between the ends of a chunk is a word of the chunk.
LEMMA PartHasWord ==
  ASSUME NEW t \in Thoughts, NEW i \in 0..Len(Text[t]), NEW j \in 0..Len(Text[t]),
         NEW k \in i + 1..j
  PROVE  \E m \in DOMAIN Chunk(t, i, j).text : Chunk(t, i, j).text[m] = Text[t][k]
<1> DEFINE part == SubSeq(Text[t], i + 1, j)
<1>1. Text[t] \in Seq(Words) BY CorpusAssumption DEF CorpusAssumption
<1>2. Len(Text[t]) \in Nat BY <1>1
<1>3. i + 1 \in 1..Len(Text[t]) + 1 /\ j \in i + 1 - 1..Len(Text[t]) BY <1>2
<1>4. /\ part \in Seq(Words)
      /\ Len(part) = IF i + 1 <= j THEN j - (i + 1) + 1 ELSE 0
      /\ \A m \in 1..j - (i + 1) + 1 : part[m] = Text[t][i + 1 + m - 1]
  BY <1>1, <1>3, SubSeqProperties
<1>5. k - i \in 1..Len(part) /\ i + 1 + (k - i) - 1 = k BY <1>2, <1>4
<1>6. part[k - i] = Text[t][k] BY <1>4, <1>5
<1>7. DOMAIN part = 1..Len(part) BY <1>4
<1> QED BY <1>5, <1>6, <1>7 DEF Chunk

---------------------------------------------------------------------------------
\* Chunkers.

ApplyRuns ==
  [pc: {"idle", "parents", "cut", "persist"}, params: Params \cup {None},
   todo: SUBSET Thoughts, at: Thoughts \cup {None}, start: Nat,
   spans: SUBSET (Nat \X Nat), found: SUBSET [chunk: AllChunks, index: Nat]]

\* Every word of a chunk's thought is in a chunk of the set.
Covering(S) ==
  \A c \in S : \A i \in DOMAIN Text[c.thought] :
    \E d \in S : d.thought = c.thought /\ \E j \in DOMAIN d.text : d.text[j] = Text[c.thought][i]

Unarchived(S) == \A c \in S : c.thought \notin Archived

\* The chunks of a run, without their places.
ChunksOf(found) == {f.chunk : f \in found}

\* While a thought is cut, what is before the next chunk's start is in the spans.
OnTrack(r) ==
  r.pc = "cut" =>
    /\ r.at \in Thoughts \ Archived /\ r.start \in 0..Len(Text[r.at])
    /\ r.spans \subseteq (0..Len(Text[r.at])) \X (0..Len(Text[r.at]))
    /\ \A i \in 1..r.start : \E s \in r.spans : i \in s[1] + 1..s[2]

GoodRun(r) ==
  /\ r \in ApplyRuns
  /\ r.pc # "idle" => r.params \in Params
  /\ r.todo \cap Archived = {}
  /\ OnTrack(r) /\ Covering(ChunksOf(r.found)) /\ Unarchived(ChunksOf(r.found))

ApplyInv ==
  /\ DOMAIN apply = Appliers /\ apply = [a \in Appliers |-> apply[a]]
  /\ \A a \in Appliers : GoodRun(apply[a])
  /\ chunks \subseteq AllChunks /\ Covering(chunks) /\ Unarchived(chunks)
  /\ index \in [chunks -> Nat]

LEMMA ChunksOfUnion ==
  ASSUME NEW S, NEW T PROVE ChunksOf(S \cup T) = ChunksOf(S) \cup ChunksOf(T)
BY DEF ChunksOf

\* Two coverings together are one.
LEMMA CoveringUnion ==
  ASSUME NEW S, NEW T, Covering(S), Covering(T)
  PROVE  Covering(S \cup T)
BY DEF Covering

\* The spans of a whole text give chunks that have all its words (propose_chunks).
LEMMA ProposedCovers ==
  ASSUME NEW t \in Thoughts,
         NEW spans \in SUBSET ((0..Len(Text[t])) \X (0..Len(Text[t]))),
         \A i \in 1..Len(Text[t]) : \E s \in spans : i \in s[1] + 1..s[2]
  PROVE  /\ Proposed(t, spans) \subseteq [chunk: AllChunks, index: Nat]
         /\ \A c \in ChunksOf(Proposed(t, spans)) : c.thought = t
         /\ Covering(ChunksOf(Proposed(t, spans)))
<1> DEFINE all == {Chunk(t, s[1], s[2]) : s \in spans}
           Place(s) == Cardinality({r \in spans : r[1] < s[1]})
           placed == {[chunk |-> Chunk(t, s[1], s[2]), index |-> Place(s)] : s \in spans}
<1>1. Proposed(t, spans) = {} \/ Proposed(t, spans) = placed BY DEF Proposed
<1>2. \A s \in spans : /\ s[1] \in 0..Len(Text[t]) /\ s[2] \in 0..Len(Text[t])
                       /\ Chunk(t, s[1], s[2]) \in AllChunks
                       /\ Chunk(t, s[1], s[2]).thought = t
  BY PartIsChunk
<1>3. Covering(all)
  <2> SUFFICES ASSUME NEW i \in DOMAIN Text[t]
               PROVE  \E d \in all : d.thought = t /\ \E j \in DOMAIN d.text : d.text[j] = Text[t][i]
    <3>1. \A c \in all : c.thought = t BY <1>2
    <3> HIDE DEF all
    <3> QED BY <3>1 DEF Covering
  <2>1. Text[t] \in Seq(Words) BY CorpusAssumption DEF CorpusAssumption
  <2>2. i \in 1..Len(Text[t]) BY <2>1
  <2>3. PICK s \in spans : i \in s[1] + 1..s[2] BY <2>2
  <2>4. \E m \in DOMAIN Chunk(t, s[1], s[2]).text : Chunk(t, s[1], s[2]).text[m] = Text[t][i]
    BY <1>2, <2>3, PartHasWord
  <2> QED BY <1>2, <2>4
<1>4. Covering({}) BY DEF Covering
<1>5. \A s \in spans : Place(s) \in Nat
  <2> SUFFICES ASSUME NEW s \in spans PROVE Place(s) \in Nat OBVIOUS
  <2>1. Text[t] \in Seq(Words) BY CorpusAssumption DEF CorpusAssumption
  <2>2. IsFiniteSet(0..Len(Text[t]))
    <3>1. 0 \in Int /\ Len(Text[t]) \in Int BY <2>1
    <3> HIDE DEF Place, all, placed
    <3> QED BY <3>1, FS_Interval
  <2>3. IsFiniteSet((0..Len(Text[t])) \X (0..Len(Text[t]))) BY <2>2, FS_Product
  <2>4. {r \in spans : r[1] < s[1]} \subseteq (0..Len(Text[t])) \X (0..Len(Text[t])) OBVIOUS
  <2>5. IsFiniteSet({r \in spans : r[1] < s[1]}) BY <2>3, <2>4, FS_Subset
  <2> QED BY <2>5, FS_CardinalityType
<1>6. placed \subseteq [chunk: AllChunks, index: Nat]
  <2> HIDE DEF Place
  <2> QED BY <1>2, <1>5
<1>7. ChunksOf(placed) = all
  <2> HIDE DEF Place
  <2>1. ASSUME NEW c \in ChunksOf(placed) PROVE c \in all
    <3>1. PICK f \in placed : c = f.chunk BY <2>1 DEF ChunksOf
    <3>2. PICK s \in spans : f = [chunk |-> Chunk(t, s[1], s[2]), index |-> Place(s)] BY <3>1
    <3> QED BY <3>1, <3>2
  <2>2. ASSUME NEW c \in all PROVE c \in ChunksOf(placed)
    <3>1. PICK s \in spans : c = Chunk(t, s[1], s[2]) BY <2>2
    <3> DEFINE f == [chunk |-> Chunk(t, s[1], s[2]), index |-> Place(s)]
    <3>2. f \in placed OBVIOUS
    <3>3. f.chunk = c BY <3>1
    <3> HIDE DEF f, placed
    <3> QED BY <3>2, <3>3 DEF ChunksOf
  <2> HIDE DEF all, placed
  <2> QED BY <2>1, <2>2
<1>8. ChunksOf({}) = {} BY DEF ChunksOf
<1>9. \A c \in all : c.thought = t BY <1>2
<1> HIDE DEF all, placed
<1> QED BY <1>1, <1>3, <1>4, <1>6, <1>7, <1>8, <1>9

LEMMA LeastType ==
  ASSUME NEW m \in Nat, NEW n \in Nat PROVE Least(m, n) \in Nat
  BY DEF Least

\* The end of a chunk is in the text, after its start or at it.
LEMMA EndInText ==
  ASSUME NEW a \in Appliers, ApplyInv, apply[a].pc = "cut",
         NEW e \in 0..Len(Text[apply[a].at]),
         IF IsLast(a) THEN e = Len(Text[apply[a].at]) ELSE IsEnd(a, e)
  PROVE  /\ Len(Text[apply[a].at]) \in Nat /\ apply[a].start <= e
         /\ NextStart(a, e) \in 0..e
<1> DEFINE t == apply[a].at  start == apply[a].start  p == apply[a].params  n == Len(Text[t])
<1>1. /\ t \in Thoughts /\ start \in 0..n /\ p \in Params
      BY DEF ApplyInv, GoodRun, OnTrack
<1>2. Text[t] \in Seq(Words) /\ p.target \in Nat /\ p.max \in Nat /\ p.overlap \in Nat
  BY <1>1, CorpusAssumption DEF CorpusAssumption
<1>3. n \in Nat BY <1>2
<1>4. start <= e
  <2>1. CASE IsLast(a) BY <1>1, <1>3, <2>1
  <2>2. CASE ~IsLast(a) /\ e \in Boundaries(a)
    <3> DEFINE w == Least(start + p.target, n) - start
    <3>1. w \in Int
      <4>1. start \in Nat /\ start + p.target \in Nat BY <1>1, <1>2, <1>3
      <4>2. Least(start + p.target, n) \in Nat BY <1>3, <4>1, LeastType
      <4> QED BY <4>1, <4>2
    <3>2. (2 * w) \div 3 \in Int BY <3>1
    <3> HIDE DEF w
    <3>3. Greatest(start + (2 * w) \div 3, start + 1) >= start + 1
      BY <1>1, <1>3, <3>2 DEF Greatest
    <3>4. e >= Greatest(start + (2 * w) \div 3, start + 1)
      BY <2>2, <1>1, <1>3, <3>2 DEF Boundaries, w, Greatest
    <3> QED BY <1>1, <1>3, <3>2, <3>3, <3>4 DEF Greatest
  <2>3. CASE ~IsLast(a) /\ e = HardEnd(a)
    BY <1>1, <1>2, <1>3, <2>3 DEF HardEnd, Least
  <2> QED BY <2>1, <2>2, <2>3 DEF IsEnd
<1>5. NextStart(a, e) \in 0..e BY <1>2, <1>3 DEF NextStart, Greatest
<1> QED BY <1>3, <1>4, <1>5

\* What a chunker's step makes of its run.
LEMMA RunStays ==
  ASSUME ApplyInv, NEW a \in Appliers, NEW r, GoodRun(r),
         apply' = [apply EXCEPT ![a] = r], UNCHANGED <<chunks, index>>
  PROVE  ApplyInv'
<1>1. \A b \in Appliers : apply'[b] = IF b = a THEN r ELSE apply[b] BY DEF ApplyInv
<1>2. DOMAIN apply' = Appliers /\ apply' = [b \in Appliers |-> apply'[b]] BY DEF ApplyInv
<1>3. \A b \in Appliers : GoodRun(apply'[b])
  <2> HIDE DEF GoodRun
  <2> QED BY <1>1 DEF ApplyInv
<1> QED BY <1>2, <1>3 DEF ApplyInv

LEMMA IdleRunIsGood == GoodRun(NotApplying)
BY DEF GoodRun, NotApplying, ApplyRuns, OnTrack, Covering, Unarchived, ChunksOf

LEMMA StartApplyTyped ==
  ASSUME ApplyInv, NEW a \in Appliers, NEW p \in Params, NEW parents \in SUBSET Thoughts,
         StartApply(a, p, parents)
  PROVE  ApplyInv'
<1> DEFINE r == [NotApplying EXCEPT !.pc = "parents", !.params = p, !.todo = parents]
<1>1. GoodRun(r)
  BY DEF GoodRun, NotApplying, ApplyRuns, OnTrack, Covering, Unarchived, ChunksOf, StartApply,
         Eligible
<1>2. apply' = [apply EXCEPT ![a] = r] /\ UNCHANGED <<chunks, index>> BY DEF StartApply, derived, corpus
<1> HIDE DEF r
<1> QED BY <1>1, <1>2, RunStays

LEMMA NextParentTyped ==
  ASSUME ApplyInv, NEW a \in Appliers, NEW t \in Thoughts, NextParent(a, t)
  PROVE  ApplyInv'
<1> DEFINE r == [apply[a] EXCEPT !.todo = @ \ {t}, !.at = t, !.start = 0, !.spans = {},
              !.pc = IF Len(Text[t]) < apply[a].params.least THEN "parents" ELSE "cut"]
<1>1. GoodRun(apply[a]) /\ apply[a].pc = "parents" /\ t \in apply[a].todo
  BY DEF ApplyInv, NextParent
<1>2. Text[t] \in Seq(Words) BY CorpusAssumption DEF CorpusAssumption
<1>3. Len(Text[t]) \in Nat BY <1>2
<1>4. r \in ApplyRuns BY <1>1 DEF GoodRun, ApplyRuns
<1>5. OnTrack(r) BY <1>1, <1>3 DEF GoodRun, ApplyRuns, OnTrack
<1>6. r.found = apply[a].found /\ r.params = apply[a].params /\ r.todo = apply[a].todo \ {t}
  BY <1>1 DEF GoodRun, ApplyRuns
<1>7. GoodRun(r)
  <2> HIDE DEF r
  <2> QED BY <1>1, <1>4, <1>5, <1>6 DEF GoodRun
<1>8. apply' = [apply EXCEPT ![a] = r] BY Zenon DEF NextParent
<1>9. UNCHANGED <<chunks, index>> BY DEF NextParent, derived, corpus
<1> HIDE DEF r
<1> QED BY <1>7, <1>8, <1>9, RunStays

LEMMA CutTyped ==
  ASSUME ApplyInv, NEW a \in Appliers, apply[a].pc = "cut",
         NEW e \in 0..Len(Text[apply[a].at]), Cut(a, e)
  PROVE  ApplyInv'
<1> DEFINE t == apply[a].at
           n == Len(Text[t])
           start == apply[a].start
           spans == apply[a].spans \cup {<<start, e>>}
           last == [apply[a] EXCEPT !.pc = "parents", !.spans = {},
                                    !.found = @ \cup Proposed(t, spans)]
           next == [apply[a] EXCEPT !.start = NextStart(a, e), !.spans = spans]
<1>1. GoodRun(apply[a]) BY DEF ApplyInv
<1>2. n \in Nat /\ start <= e /\ NextStart(a, e) \in 0..e BY EndInText DEF Cut
<1>3. t \in Thoughts /\ t \notin Archived /\ start \in 0..n BY <1>1 DEF GoodRun, OnTrack
<1>4. spans \in SUBSET ((0..n) \X (0..n)) BY <1>1, <1>2, <1>3 DEF GoodRun, OnTrack
<1>5. \A i \in 1..e : \E s \in spans : i \in s[1] + 1..s[2]
  <2> SUFFICES ASSUME NEW i \in 1..e PROVE \E s \in spans : i \in s[1] + 1..s[2] OBVIOUS
  <2>1. CASE i <= start
    <3>1. \E s \in apply[a].spans : i \in s[1] + 1..s[2]
      BY <1>1, <1>3, <2>1 DEF GoodRun, OnTrack
    <3> QED BY <3>1
  <2>2. CASE i > start
    <3>1. i \in <<start, e>>[1] + 1..<<start, e>>[2] BY <1>2, <1>3, <2>2
    <3> QED BY <3>1
  <2> QED BY <1>3, <2>1, <2>2
<1>6. CASE e = n
  <2>1. /\ Proposed(t, spans) \subseteq [chunk: AllChunks, index: Nat]
        /\ \A c \in ChunksOf(Proposed(t, spans)) : c.thought = t
        /\ Covering(ChunksOf(Proposed(t, spans)))
    <3> HIDE DEF spans
    <3> QED BY <1>3, <1>4, <1>5, <1>6, ProposedCovers
  <2>2. /\ last \in ApplyRuns /\ last.pc = "parents" /\ last.params = apply[a].params
        /\ last.found = apply[a].found \cup Proposed(t, spans) /\ last.todo = apply[a].todo
    <3> HIDE DEF spans
    <3> QED BY <1>1, <2>1 DEF GoodRun, ApplyRuns
  <2>3. Covering(ChunksOf(last.found))
    <3>1. Covering(ChunksOf(apply[a].found)) BY <1>1 DEF GoodRun
    <3> HIDE DEF last, spans
    <3> QED BY <2>1, <2>2, <3>1, CoveringUnion, ChunksOfUnion
  <2>4. Unarchived(ChunksOf(last.found))
    <3>1. Unarchived(ChunksOf(apply[a].found)) BY <1>1 DEF GoodRun
    <3> HIDE DEF last, spans
    <3> QED BY <1>3, <2>1, <2>2, <3>1, ChunksOfUnion DEF Unarchived
  <2>5. GoodRun(last)
    <3>1. OnTrack(last) BY <2>2 DEF OnTrack
    <3> HIDE DEF last
    <3> QED BY <1>1, <2>2, <2>3, <2>4, <3>1 DEF GoodRun
  <2>6. apply' = [apply EXCEPT ![a] = last] BY <1>6, Zenon DEF Cut
  <2>7. UNCHANGED <<chunks, index>> BY DEF Cut, derived, corpus
  <2> HIDE DEF last
  <2> QED BY <2>5, <2>6, <2>7, RunStays
<1>7. CASE e # n
  <2>1. /\ next \in ApplyRuns /\ next.pc = "cut" /\ next.params = apply[a].params
        /\ next.found = apply[a].found /\ next.todo = apply[a].todo
        /\ next.at = t /\ next.start = NextStart(a, e) /\ next.spans = spans
    <3>1. spans \subseteq Nat \X Nat BY <1>2, <1>4
    <3>2. NextStart(a, e) \in Nat BY <1>2
    <3> HIDE DEF spans
    <3> QED BY <1>1, <3>1, <3>2 DEF GoodRun, ApplyRuns
  <2>2. OnTrack(next)
    <3>1. NextStart(a, e) \in 0..n /\ \A i \in 1..NextStart(a, e) : i \in 1..e BY <1>2
    <3> HIDE DEF spans, next
    <3> QED BY <1>3, <1>4, <1>5, <2>1, <3>1 DEF OnTrack
  <2>3. GoodRun(next)
    <3> HIDE DEF next
    <3> QED BY <1>1, <2>1, <2>2 DEF GoodRun
  <2>4. apply' = [apply EXCEPT ![a] = next] BY <1>7, Zenon DEF Cut
  <2>5. UNCHANGED <<chunks, index>> BY DEF Cut, derived, corpus
  <2> HIDE DEF next
  <2> QED BY <2>3, <2>4, <2>5, RunStays
<1> QED BY <1>6, <1>7

\* A set of places that has one has a first one.
LEMMA LeastPlace ==
  ASSUME NEW S \in SUBSET Nat, NEW k \in S
  PROVE  \E n \in S : \A m \in S : n <= m
<1>1. PICK n \in S : \A m \in S : <<m, n>> \notin OpToRel(<, Nat)
  BY NatLessThanWellFounded, WFMin
<1>2. \A m \in S : ~(m < n) BY <1>1 DEF OpToRel
<1> QED BY <1>2

\* What is not inserted because its text is there, or is in the run before, is no loss.
LEMMA FreshAreAll ==
  ASSUME NEW a \in Appliers, apply[a].found \in SUBSET [chunk: AllChunks, index: Nat]
  PROVE  chunks \cup ChunksOf(Fresh(a)) = chunks \cup ChunksOf(apply[a].found)
<1> DEFINE found == apply[a].found
<1>1. ASSUME NEW f \in found, f.chunk \notin chunks
      PROVE  \E g \in Fresh(a) : g.chunk = f.chunk
  <2> DEFINE Has(n) == \E g \in found : g.chunk = f.chunk /\ g.index = n
             places == {n \in Nat : Has(n)}
  <2>1. f.index \in places OBVIOUS
  <2>2. places \in SUBSET Nat OBVIOUS
  <2>3. PICK n \in places : \A m \in places : n <= m
    <3> HIDE DEF places
    <3> QED BY <2>1, <2>2, LeastPlace
  <2>4. PICK g \in found : g.chunk = f.chunk /\ g.index = n BY <2>3
  <2>5. \A h \in found : h.chunk = g.chunk => h.index \in places BY <2>4
  <2>6. g \in Fresh(a) BY <1>1, <2>3, <2>4, <2>5 DEF Fresh
  <2> QED BY <2>4, <2>6
<1>2. Fresh(a) \subseteq found BY DEF Fresh
<1> QED BY <1>1, <1>2 DEF ChunksOf

LEMMA PersistTyped ==
  ASSUME ApplyInv, NEW a \in Appliers, Persist(a)
  PROVE  ApplyInv'
<1> DEFINE r == NotApplying
<1>1. \A b \in Appliers : apply'[b] = IF b = a THEN NotApplying ELSE apply[b]
  BY DEF ApplyInv, Persist
<1>2. DOMAIN apply' = Appliers /\ apply' = [b \in Appliers |-> apply'[b]]
  BY DEF ApplyInv, Persist
<1>3. \A b \in Appliers : GoodRun(apply'[b]) BY <1>1, IdleRunIsGood DEF ApplyInv
<1>4. GoodRun(apply[a]) BY DEF ApplyInv
<1>5. CASE Clashes(a)
  <2>1. UNCHANGED <<chunks, index>> BY <1>5 DEF Persist, corpus
  <2> QED BY <1>2, <1>3, <2>1 DEF ApplyInv
<1>6. CASE ~Clashes(a)
  <2> DEFINE found == apply[a].found  new == Fresh(a)
  <2>1. /\ chunks' = chunks \cup ChunksOf(new)
        /\ index' = [c \in chunks' |-> IF c \in chunks THEN index[c]
                                      ELSE (CHOOSE f \in new : f.chunk = c).index]
    BY <1>6 DEF Persist, Insert, ChunksOf
  <2>2. found \in SUBSET [chunk: AllChunks, index: Nat] /\ new \subseteq found
    BY <1>4 DEF GoodRun, ApplyRuns, Fresh
  <2>3. chunks' = chunks \cup ChunksOf(found) BY <2>1, <2>2, FreshAreAll
  <2>4. chunks' \subseteq AllChunks BY <2>2, <2>3 DEF ApplyInv, ChunksOf
  <2>5. Covering(chunks') BY <1>4, <2>3, CoveringUnion DEF ApplyInv, GoodRun
  <2>6. Unarchived(chunks') BY <1>4, <2>3 DEF ApplyInv, GoodRun, Unarchived
  <2>7. index' \in [chunks' -> Nat]
    <3>1. ASSUME NEW c \in chunks', c \notin chunks
          PROVE  (CHOOSE f \in new : f.chunk = c).index \in Nat
      <4>1. PICK f \in new : f.chunk = c BY <2>1, <3>1 DEF ChunksOf
      <4>2. (CHOOSE g \in new : g.chunk = c) \in new BY <4>1
      <4> QED BY <2>2, <4>2
    <3>2. \A c \in chunks : index[c] \in Nat BY DEF ApplyInv
    <3> QED BY <2>1, <3>1, <3>2
  <2> QED BY <1>2, <1>3, <2>4, <2>5, <2>6, <2>7 DEF ApplyInv
<1> QED BY <1>5, <1>6

---------------------------------------------------------------------------------
\* Generators.

AskRuns ==
  [pc: {"idle", "ask", "persist", "embed"}, todo: SUBSET AllChunks,
   at: AllChunks \cup {None}, text: Answers \cup {None}, embeds: BOOLEAN]

GoodAsk(r) ==
  /\ r \in AskRuns
  /\ r.pc \in {"persist", "embed"} => r.at \in r.todo /\ r.text \in Answers

AsksInv ==
  /\ DOMAIN generate = Generators /\ generate = [g \in Generators |-> generate[g]]
  /\ \A g \in Generators : GoodAsk(generate[g]) /\ generate[g].todo \subseteq chunks

ContextsTyped ==
  /\ contexts \in [AllChunks -> Answers \cup {None, Rejected}]
  /\ contested \subseteq AllChunks
  /\ \A c \in AllChunks : IsReady(c) => ~Marked(c.thought) /\ ~HasMarker(c.text)

\* Two runs have a chunk on their lists only when it is contested.
AloneInv ==
  \A g, r \in Generators : g # r => generate[g].todo \cap generate[r].todo \subseteq contested

\* A listed chunk has no context before its turn, and the run's until its vector is written.
PromiseInv ==
  \A g \in Generators : \A c \in generate[g].todo \ contested :
    contexts[c] = IF generate[g].pc = "embed" /\ generate[g].at = c
                  THEN generate[g].text ELSE None

VectorInv ==
  \A e \in rows : e.table = "context_dense" =>
    e.of \in chunks /\ e.text \in Answers /\ (e.of \in contested \/ e.text = contexts[e.of])

GenerateInv == AsksInv /\ ContextsTyped /\ AloneInv /\ PromiseInv /\ VectorInv

LEMMA StartGenerateTyped ==
  ASSUME ApplyInv, GenerateInv, NEW g \in Generators, NEW list \in SUBSET chunks,
         NEW embeds \in BOOLEAN, StartGenerate(g, list, embeds)
  PROVE  GenerateInv'
<1> DEFINE r == [NotGenerating EXCEPT !.pc = "ask", !.todo = list, !.embeds = embeds]
<1>1. chunks \subseteq AllChunks BY DEF ApplyInv
<1>2. /\ r.pc = "ask" /\ r.todo = list /\ GoodAsk(r)
  BY <1>1 DEF NotGenerating, GoodAsk, AskRuns
<1>3. generate' = [generate EXCEPT ![g] = r] BY DEF StartGenerate
<1>4. UNCHANGED <<chunks, contexts, rows>> BY DEF StartGenerate, derived, corpus
<1> HIDE DEF r
<1>5. \A h \in Generators : generate'[h] = IF h = g THEN r ELSE generate[h]
  BY <1>3 DEF GenerateInv, AsksInv
<1>6. /\ \A c \in list : contexts[c] = None
      /\ contested' = contested \cup {c \in list : \E h \in Generators : c \in generate[h].todo}
  BY DEF StartGenerate, Sources, Listed
<1>7. AsksInv'
  <2>1. DOMAIN generate' = Generators /\ generate' = [h \in Generators |-> generate'[h]]
    BY <1>3 DEF GenerateInv, AsksInv
  <2>2. \A h \in Generators : GoodAsk(generate'[h]) /\ generate'[h].todo \subseteq chunks'
    BY <1>2, <1>4, <1>5 DEF GenerateInv, AsksInv
  <2> QED BY <2>1, <2>2 DEF AsksInv
<1>8. ContextsTyped'
  BY <1>1, <1>4, <1>6 DEF GenerateInv, ContextsTyped, IsReady, Marked, HasMarker
<1>9. AloneInv'
  BY <1>2, <1>5, <1>6 DEF GenerateInv, AloneInv
<1>10. PromiseInv'
  BY <1>2, <1>4, <1>5, <1>6 DEF GenerateInv, PromiseInv
<1>11. VectorInv' BY <1>4, <1>6 DEF GenerateInv, VectorInv
<1> QED BY <1>7, <1>8, <1>9, <1>10, <1>11 DEF GenerateInv

\* A run that goes on with a shorter list, or none, and leaves contexts and rows alone.
LEMMA ListShrinks ==
  ASSUME GenerateInv, NEW g \in Generators, NEW r, GoodAsk(r),
         r.todo \subseteq generate[g].todo, r.pc # "embed",
         generate' = [generate EXCEPT ![g] = r],
         \A c \in r.todo \ contested : contexts[c] = None,
         UNCHANGED <<chunks, contexts, contested>>
  PROVE  AsksInv' /\ ContextsTyped' /\ AloneInv' /\ PromiseInv'
<1>1. \A h \in Generators : generate'[h] = IF h = g THEN r ELSE generate[h]
  BY DEF GenerateInv, AsksInv
<1>2. AsksInv'
  <2>1. DOMAIN generate' = Generators /\ generate' = [h \in Generators |-> generate'[h]]
    BY DEF GenerateInv, AsksInv
  <2>2. \A h \in Generators : GoodAsk(generate'[h]) /\ generate'[h].todo \subseteq chunks'
    BY <1>1 DEF GenerateInv, AsksInv
  <2> QED BY <2>1, <2>2 DEF AsksInv
<1>3. ContextsTyped' BY DEF GenerateInv, ContextsTyped, IsReady, Marked, HasMarker
<1>4. AloneInv' BY <1>1 DEF GenerateInv, AloneInv
<1>5. PromiseInv' BY <1>1 DEF GenerateInv, PromiseInv
<1> QED BY <1>2, <1>3, <1>4, <1>5

LEMMA AskTyped ==
  ASSUME GenerateInv, NEW g \in Generators, NEW c \in AllChunks, NEW text \in Answers,
         Ask(g, c, text)
  PROVE  GenerateInv'
<1> DEFINE r == [generate[g] EXCEPT !.pc = "persist", !.at = c, !.text = text]
<1>1. GoodAsk(generate[g]) /\ generate[g].pc = "ask" /\ c \in generate[g].todo
  BY DEF GenerateInv, AsksInv, Ask
<1>2. r.pc = "persist" /\ r.todo = generate[g].todo /\ GoodAsk(r)
  BY <1>1 DEF GoodAsk, AskRuns
<1>3. generate' = [generate EXCEPT ![g] = r] BY Zenon DEF Ask
<1>4. UNCHANGED <<chunks, contexts, contested, rows>> BY DEF Ask, derived, corpus
<1>5. \A d \in r.todo \ contested : contexts[d] = None
  BY <1>1, <1>2 DEF GenerateInv, PromiseInv
<1> HIDE DEF r
<1>6. AsksInv' /\ ContextsTyped' /\ AloneInv' /\ PromiseInv'
  BY <1>2, <1>3, <1>4, <1>5, ListShrinks
<1> QED BY <1>4, <1>6 DEF GenerateInv, VectorInv

LEMMA AskFailsTyped ==
  ASSUME GenerateInv, NEW g \in Generators, NEW c \in AllChunks, AskFails(g, c)
  PROVE  GenerateInv'
<1> DEFINE r == [generate[g] EXCEPT !.todo = generate[g].todo \ {c}]
<1>1. GoodAsk(generate[g]) /\ generate[g].pc = "ask" BY DEF GenerateInv, AsksInv, AskFails
<1>2. r.pc = "ask" /\ r.todo = generate[g].todo \ {c} /\ GoodAsk(r)
  BY <1>1 DEF GoodAsk, AskRuns
<1>3. generate' = [generate EXCEPT ![g] = r] BY DEF AskFails, GenerateInv, AsksInv
<1>4. UNCHANGED <<chunks, contexts, contested, rows>> BY DEF AskFails, derived, corpus
<1>5. \A d \in r.todo \ contested : contexts[d] = None
  BY <1>1, <1>2 DEF GenerateInv, PromiseInv
<1> HIDE DEF r
<1>6. AsksInv' /\ ContextsTyped' /\ AloneInv' /\ PromiseInv'
  BY <1>2, <1>3, <1>4, <1>5, ListShrinks
<1> QED BY <1>4, <1>6 DEF GenerateInv, VectorInv

LEMMA GeneratorEndsTyped ==
  ASSUME GenerateInv, NEW g \in Generators, GeneratorEnds(g)
  PROVE  GenerateInv'
<1> DEFINE r == NotGenerating
<1>1. r.pc = "idle" /\ r.todo = {} /\ GoodAsk(r) BY DEF GoodAsk, AskRuns, NotGenerating
<1>2. generate' = [generate EXCEPT ![g] = r] BY DEF GeneratorEnds
<1>3. UNCHANGED <<chunks, contexts, contested, rows>> BY DEF GeneratorEnds, derived, corpus
<1> HIDE DEF r
<1>4. AsksInv' /\ ContextsTyped' /\ AloneInv' /\ PromiseInv' BY <1>1, <1>2, <1>3, ListShrinks
<1> QED BY <1>3, <1>4 DEF GenerateInv, VectorInv

\* What a run is when it is done with a chunk.
LEMMA DoneWithTyped ==
  ASSUME NEW g \in Generators, GoodAsk(generate[g]), NEW c
  PROVE  /\ GoodAsk(DoneWith(g, c)) /\ DoneWith(g, c).pc = "ask"
         /\ DoneWith(g, c).todo = generate[g].todo \ {c}
BY DEF GoodAsk, AskRuns, DoneWith

LEMMA PersistContextTyped ==
  ASSUME ApplyInv, GenerateInv, NEW g \in Generators, PersistContext(g)
  PROVE  GenerateInv'
<1> DEFINE c == generate[g].at
           text == generate[g].text
           taken == ~Rejects(c, text) /\ generate[g].embeds
           r == IF taken THEN [generate[g] EXCEPT !.pc = "embed"] ELSE DoneWith(g, c)
           new == IF Rejects(c, text) THEN Rejected ELSE text
<1>1. GoodAsk(generate[g]) /\ generate[g].pc = "persist" /\ generate[g].todo \subseteq chunks
  BY DEF GenerateInv, AsksInv, PersistContext
<1>2. c \in generate[g].todo /\ text \in Answers /\ c \in AllChunks
  BY <1>1 DEF GoodAsk, AskRuns
<1>3. generate' = [generate EXCEPT ![g] = r] BY Zenon DEF PersistContext, corpus
<1>4. contexts' = [contexts EXCEPT ![c] = new] BY DEF PersistContext, corpus
<1>5. UNCHANGED <<chunks, contested, rows>> BY DEF PersistContext, corpus
<1>6. /\ GoodAsk(r) /\ r.todo \subseteq generate[g].todo
      /\ taken => r.pc = "embed" /\ r.at = c /\ r.text = text
      /\ ~taken => r.pc = "ask" /\ r.todo = generate[g].todo \ {c}
  <2>1. CASE taken
    <3>1. r = [generate[g] EXCEPT !.pc = "embed"] BY <2>1
    <3> HIDE DEF taken, r
    <3> QED BY <1>1, <2>1, <3>1 DEF GoodAsk, AskRuns
  <2>2. CASE ~taken
    <3>1. r = DoneWith(g, c) BY <2>2
    <3> HIDE DEF taken, r
    <3> QED BY <1>1, <2>2, <3>1, DoneWithTyped
  <2> QED BY <2>1, <2>2
<1>7. new \in Answers \cup {Rejected} /\ (taken => new = text)
      /\ (new \in Answers => ~Marked(c.thought) /\ ~HasMarker(c.text))
  BY <1>2, CorpusAssumption DEF CorpusAssumption, Rejects
<1> HIDE DEF r, new, taken
<1>8. \A h \in Generators : generate'[h] = IF h = g THEN r ELSE generate[h]
  BY <1>3 DEF GenerateInv, AsksInv
<1>9. \A d \in AllChunks : contexts'[d] = IF d = c THEN new ELSE contexts[d]
  BY <1>2, <1>4 DEF GenerateInv, ContextsTyped
<1>10. AsksInv'
  <2>1. DOMAIN generate' = Generators /\ generate' = [h \in Generators |-> generate'[h]]
    BY <1>3 DEF GenerateInv, AsksInv
  <2>2. \A h \in Generators : GoodAsk(generate'[h]) /\ generate'[h].todo \subseteq chunks'
    BY <1>1, <1>5, <1>6, <1>8 DEF GenerateInv, AsksInv
  <2> QED BY <2>1, <2>2 DEF AsksInv
<1>11. ContextsTyped'
  <2>1. contexts' \in [AllChunks -> Answers \cup {None, Rejected}]
    BY <1>2, <1>4, <1>7 DEF GenerateInv, ContextsTyped
  <2>2. \A d \in AllChunks : contexts'[d] \in Answers => ~Marked(d.thought) /\ ~HasMarker(d.text)
    BY <1>7, <1>9 DEF GenerateInv, ContextsTyped, IsReady
  <2> QED BY <1>5, <2>1, <2>2 DEF GenerateInv, ContextsTyped, IsReady, Marked, HasMarker
<1>12. AloneInv' BY <1>5, <1>6, <1>8 DEF GenerateInv, AloneInv
<1>13. PromiseInv'
  <2> SUFFICES ASSUME NEW h \in Generators, NEW d \in generate'[h].todo \ contested
               PROVE  contexts'[d] = IF generate'[h].pc = "embed" /\ generate'[h].at = d
                                     THEN generate'[h].text ELSE None
    BY <1>5 DEF PromiseInv
  <2>1. d \in generate[h].todo /\ d \in AllChunks
    BY <1>6, <1>8 DEF GenerateInv, AsksInv, GoodAsk, AskRuns
  <2>2. d = c => h = g BY <1>2, <2>1 DEF GenerateInv, AloneInv
  <2>3. CASE h = g
    <3>1. CASE d = c BY <1>6, <1>7, <1>8, <1>9, <2>1, <2>3, <3>1
    <3>2. CASE d # c
      <4>1. contexts[d] = None BY <1>1, <2>1, <2>3 DEF GenerateInv, PromiseInv
      <4>2. ~(r.pc = "embed" /\ r.at = d) BY <1>6, <3>2
      <4> QED BY <1>8, <1>9, <2>1, <2>3, <3>2, <4>1, <4>2
    <3> QED BY <3>1, <3>2
  <2>4. CASE h # g BY <1>8, <1>9, <2>1, <2>2, <2>4 DEF GenerateInv, PromiseInv
  <2> QED BY <2>3, <2>4
<1>14. VectorInv'
  <2> SUFFICES ASSUME NEW e \in rows, e.table = "context_dense", e.of \notin contested
               PROVE  e.of \in chunks /\ e.text \in Answers /\ e.text = contexts'[e.of]
    BY <1>5 DEF VectorInv, GenerateInv
  <2>1. e.of \in chunks /\ e.text \in Answers /\ e.text = contexts[e.of]
    BY DEF VectorInv, GenerateInv
  <2>2. e.of # c
    <3>1. c \notin contested => contexts[c] = None
      BY <1>1, <1>2 DEF GenerateInv, PromiseInv
    <3> QED BY <2>1, <3>1, CorpusAssumption DEF CorpusAssumption
  <2>3. e.of \in AllChunks
    BY <2>1 DEF ApplyInv
  <2> QED BY <1>9, <2>1, <2>2, <2>3
<1> QED BY <1>10, <1>11, <1>12, <1>13, <1>14 DEF GenerateInv

LEMMA WriteContextVectorTyped ==
  ASSUME GenerateInv, NEW g \in Generators, WriteContextVector(g)
  PROVE  GenerateInv'
<1> DEFINE c == generate[g].at
           text == generate[g].text
           r == DoneWith(g, c)
<1>1. GoodAsk(generate[g]) /\ generate[g].pc = "embed" /\ generate[g].todo \subseteq chunks
  BY DEF GenerateInv, AsksInv, WriteContextVector
<1>2. c \in generate[g].todo /\ text \in Answers BY <1>1 DEF GoodAsk, AskRuns
<1>3. generate' = [generate EXCEPT ![g] = r] BY DEF WriteContextVector, corpus
<1>4. UNCHANGED <<chunks, contexts, contested>> BY DEF WriteContextVector, corpus
<1>5. GoodAsk(r) /\ r.pc = "ask" /\ r.todo = generate[g].todo \ {c} BY <1>1, DoneWithTyped
<1>6. \A d \in r.todo \ contested : contexts[d] = None
  BY <1>5 DEF GenerateInv, PromiseInv
<1>7. AsksInv' /\ ContextsTyped' /\ AloneInv' /\ PromiseInv'
  <2> HIDE DEF r, c
  <2> QED BY <1>3, <1>4, <1>5, <1>6, ListShrinks
<1>8. \A e \in rows' : e \in rows \/ e = Entry("context_dense", c, text)
  BY DEF WriteContextVector, corpus
<1>9. c \in contested \/ text = contexts[c] BY <1>1, <1>2 DEF GenerateInv, PromiseInv
<1>10. VectorInv'
  <2> SUFFICES ASSUME NEW e \in rows', e.table = "context_dense"
               PROVE  /\ e.of \in chunks /\ e.text \in Answers
                      /\ e.of \in contested \/ e.text = contexts[e.of]
    BY <1>4 DEF VectorInv
  <2>1. CASE e \in rows BY <2>1 DEF VectorInv, GenerateInv
  <2>2. CASE e = Entry("context_dense", c, text)
    <3>1. e.of = c /\ e.text = text BY <2>2 DEF Entry
    <3> QED BY <1>1, <1>2, <1>9, <3>1
  <2> QED BY <1>8, <2>1, <2>2
<1> QED BY <1>7, <1>10 DEF GenerateInv

\* Steps of others leave generators and contexts alone; chunks only grow, and vectors of
\* contexts are only taken away.
LEMMA OthersTyped ==
  ASSUME GenerateInv, UNCHANGED <<generate, contexts, contested>>, chunks \subseteq chunks',
         \A e \in rows' : e \in rows \/ e.table # "context_dense"
  PROVE  GenerateInv'
<1>1. AsksInv'
  <2>1. \A g \in Generators : GoodAsk(generate[g]) /\ generate[g].todo \subseteq chunks'
    BY DEF GenerateInv, AsksInv
  <2> QED BY <2>1 DEF GenerateInv, AsksInv
<1>2. ContextsTyped' BY DEF GenerateInv, ContextsTyped, IsReady, Marked, HasMarker
<1>3. AloneInv' BY DEF GenerateInv, AloneInv
<1>4. PromiseInv' BY DEF GenerateInv, PromiseInv
<1>5. VectorInv' BY DEF GenerateInv, VectorInv
<1> QED BY <1>1, <1>2, <1>3, <1>4, <1>5 DEF GenerateInv

---------------------------------------------------------------------------------
\* Sweepers.

Tables == <<"pending_embeddings", "pending_tags", "thought_dense", "thought_sparse",
            "chunk_dense", "chunk_sparse", "context_dense", "contexts">>

RowsTyped ==
  /\ retracted \subseteq Thoughts
  /\ rows \subseteq Entries /\ IsFiniteSet(rows) /\ \A e \in rows : e.table # "contexts"

\* What is due is denied, and there.
IsDue(e) ==
  /\ e \in Entries /\ Denied(e.of)
  /\ IF e.table = "contexts"
     THEN e.of \in chunks /\ IsReady(e.of) /\ e = Entry("contexts", e.of, contexts[e.of])
     ELSE e \in rows

DueInv == \A h \in Sweepers : \A e \in due[h] : IsDue(e)

\* A sweeper with budget left has done its tables so far.
SweptInv ==
  \A h \in Sweepers :
    /\ sweep[h].step # 0 => status[h] = "running"
    /\ sweep[h].remaining > 0 =>
         /\ \A k \in 1..8 : k < sweep[h].step => \A e \in due[h] : e.table # Tables[k]
         /\ status[h] = "completed" => due[h] = {}

SweepTyped ==
  /\ sweep \in [Sweepers -> [step: 0..9, remaining: Nat]]
  /\ status \in [Sweepers -> {"none", "running", "completed"}]
  /\ due \in [Sweepers -> SUBSET Entries]

SweepInv == RowsTyped /\ SweepTyped /\ DueInv /\ SweptInv

\* What is of a chunk in an entry, and what of a thought.
LEMMA EntryOf ==
  ASSUME NEW e \in Entries
  PROVE  /\ e.table \in ThoughtTables \cup ChunkTables \cup {"context_dense", "contexts"}
         /\ e.table \in {"pending_tags", "thought_dense", "thought_sparse"} => e.of \in Thoughts
         /\ e.table \in {"chunk_dense", "chunk_sparse", "context_dense", "contexts"}
              => e.of \in AllChunks /\ e.of \notin Thoughts
BY ChunkIsOfThought DEF Entries, ThoughtTables, ChunkTables

\* What is denied stays denied: retraction is for good.
LEMMA DeniedForGood ==
  ASSUME retracted \subseteq retracted', NEW x, Denied(x)
  PROVE  Denied(x)'
BY DEF Denied, DeniedChunk, DeniedThought, Marked, HasMarker

\* What the search finds is not denied, but for archived thoughts.
LEMMA ChunkNotDenied ==
  ASSUME ApplyInv, NEW c \in chunks, c.thought \notin retracted,
         ~Marked(c.thought), ~HasMarker(c.text)
  PROVE  ~Denied(c)
<1>1. c \in AllChunks /\ c.thought \notin Archived BY DEF ApplyInv, Unarchived
<1>2. c \notin Thoughts BY <1>1, ChunkIsOfThought
<1> QED BY <1>1, <1>2 DEF Denied, DeniedChunk, DeniedThought

\* Steps of others keep what is due.
LEMMA OthersKeepDue ==
  ASSUME SweepInv, UNCHANGED sweeps, RowsTyped',
         \A h \in Sweepers : \A e \in due[h] : IsDue(e) => IsDue(e)'
  PROVE  SweepInv'
<1>1. SweepTyped' /\ SweptInv' BY DEF SweepInv, SweepTyped, SweptInv, sweeps
<1>2. DueInv' BY DEF SweepInv, DueInv, sweeps
<1> QED BY <1>1, <1>2 DEF SweepInv

LEMMA QuietSteps ==
  ASSUME SweepInv, UNCHANGED <<sweeps, retracted, contexts, rows>>, chunks \subseteq chunks'
  PROVE  SweepInv'
<1>1. RowsTyped' BY DEF SweepInv, RowsTyped
<1>2. \A h \in Sweepers : \A e \in due[h] : IsDue(e) => IsDue(e)'
  <2>1. \A x : Denied(x) => Denied(x)' BY DeniedForGood
  <2> QED BY <2>1 DEF IsDue, IsReady
<1> QED BY <1>1, <1>2, OthersKeepDue

LEMMA RetractSwept ==
  ASSUME SweepInv, NEW t \in Thoughts, Retract(t)
  PROVE  SweepInv'
<1>1. RowsTyped' BY DEF SweepInv, RowsTyped, Retract
<1>2. \A h \in Sweepers : \A e \in due[h] : IsDue(e) => IsDue(e)'
  <2>1. \A x : Denied(x) => Denied(x)' BY DeniedForGood DEF Retract, corpus
  <2> QED BY <2>1 DEF IsDue, IsReady, Retract, corpus
<1> QED BY <1>1, <1>2, OthersKeepDue DEF Retract, corpus

LEMMA WriteSwept ==
  ASSUME SweepInv, NEW e \in Entries, e.table # "contexts", Write(e)
  PROVE  SweepInv'
<1>1. RowsTyped' BY FS_AddElement DEF SweepInv, RowsTyped, Write
<1>2. \A h \in Sweepers : \A d \in due[h] : IsDue(d) => IsDue(d)'
  <2>1. \A x : Denied(x) => Denied(x)' BY DeniedForGood DEF Write, corpus
  <2> QED BY <2>1 DEF IsDue, IsReady, Write, corpus
<1> QED BY <1>1, <1>2, OthersKeepDue DEF Write, corpus

LEMMA PersistContextSwept ==
  ASSUME ApplyInv, GenerateInv, SweepInv, NEW g \in Generators, PersistContext(g)
  PROVE  SweepInv'
<1> DEFINE c == generate[g].at
<1>1. c \in chunks /\ c \in AllChunks /\ c.thought \notin retracted
  BY DEF GenerateInv, AsksInv, GoodAsk, ApplyInv, PersistContext
<1>2. \A d \in AllChunks : d # c => contexts'[d] = contexts[d]
  BY DEF GenerateInv, ContextsTyped, PersistContext
<1>3. UNCHANGED <<sweeps, retracted, rows, chunks>> BY DEF PersistContext, corpus
<1>4. RowsTyped' BY <1>3 DEF SweepInv, RowsTyped
<1> HIDE DEF c
<1>5. \A h \in Sweepers : \A e \in due[h] : IsDue(e) => IsDue(e)'
  <2> SUFFICES ASSUME NEW h \in Sweepers, NEW e \in due[h], IsDue(e) PROVE IsDue(e)' OBVIOUS
  <2>1. \A x : Denied(x) => Denied(x)' BY <1>3, DeniedForGood
  <2>2. CASE e.table = "contexts"
    <3>1. e.of \in chunks /\ IsReady(e.of) /\ Denied(e.of) /\ e.of \in AllChunks
      BY <2>2 DEF IsDue, ApplyInv
    <3>2. e.of # c
      BY <1>1, <3>1, ChunkNotDenied DEF GenerateInv, ContextsTyped
    <3>3. contexts'[e.of] = contexts[e.of] BY <1>2, <3>1, <3>2
    <3> QED BY <1>3, <2>1, <2>2, <3>3 DEF IsDue, IsReady
  <2>3. CASE e.table # "contexts" BY <1>3, <2>1, <2>3 DEF IsDue
  <2> QED BY <2>2, <2>3
<1> QED BY <1>3, <1>4, <1>5, OthersKeepDue

LEMMA WriteContextVectorSwept ==
  ASSUME ApplyInv, GenerateInv, SweepInv, NEW g \in Generators, WriteContextVector(g)
  PROVE  SweepInv'
<1> DEFINE c == generate[g].at
           new == Entry("context_dense", c, generate[g].text)
<1>1. c \in chunks /\ c \in AllChunks /\ generate[g].text \in Answers
  BY DEF GenerateInv, AsksInv, GoodAsk, ApplyInv, WriteContextVector
<1>2. UNCHANGED <<sweeps, retracted, contexts, chunks>> BY DEF WriteContextVector, corpus
<1>3. rows' \subseteq rows \cup {new} BY DEF WriteContextVector, corpus
<1>4. new \in Entries /\ new.table # "contexts" BY <1>1 DEF Entries, Entry
<1>5. RowsTyped'
  <2>1. IsFiniteSet(rows \cup {new}) BY FS_AddElement DEF SweepInv, RowsTyped
  <2>2. IsFiniteSet(rows') BY <1>3, <2>1, FS_Subset
  <2> QED BY <1>2, <1>3, <1>4, <2>2 DEF SweepInv, RowsTyped
<1>6. \A e \in rows \ rows' : e.of = c /\ ~Denied(c)
  <2> SUFFICES ASSUME NEW e \in rows \ rows' PROVE e.of = c /\ ~Denied(c) OBVIOUS
  <2>1. e.of = c /\ c.thought \notin retracted /\ ~Marked(c.thought) /\ ~HasMarker(c.text)
    BY DEF WriteContextVector, corpus
  <2> QED BY <1>1, <2>1, ChunkNotDenied
<1>7. \A h \in Sweepers : \A e \in due[h] : IsDue(e) => IsDue(e)'
  <2>1. \A x : Denied(x) => Denied(x)' BY <1>2, DeniedForGood
  <2> HIDE DEF c
  <2> QED BY <1>2, <1>6, <2>1 DEF IsDue, IsReady
<1> QED BY <1>2, <1>5, <1>7, OthersKeepDue

\* What is due in a table is among the denied rows of the step that sweeps it.
LEMMA DueIsDenied ==
  ASSUME NEW e, IsDue(e), NEW k \in 1..8, e.table = Tables[k]
  PROVE  e \in DeniedOf(k)
<1>1. e \in Entries /\ Denied(e.of) BY DEF IsDue
<1>2. CASE k = 8
  <2>1. e.table = "contexts" BY <1>2 DEF Tables
  <2>2. e.of \in AllChunks /\ e.of \notin Thoughts BY <1>1, <2>1, EntryOf
  <2> QED BY <1>1, <1>2, <2>1, <2>2 DEF IsDue, DeniedOf, DeniedContexts, Denied
<1>3. CASE k # 8
  <2>1. e.table # "contexts" BY <1>3 DEF Tables
  <2>2. e \in rows BY <2>1 DEF IsDue
  <2>3. CASE k = 1 BY <1>1, <2>2, <2>3 DEF Tables, DeniedOf, Of, DeniedEmbeddingJobs
  <2>4. CASE k \in {2, 3, 4}
    <3>1. e.of \in Thoughts BY <1>1, <2>4, EntryOf DEF Tables
    <3> QED BY <1>1, <2>2, <2>4, <3>1
      DEF Tables, DeniedOf, Of, DeniedTagJobs, DeniedThoughtDense, DeniedThoughtSparse, Denied
  <2>5. CASE k \in {5, 6, 7}
    <3>1. e.of \notin Thoughts BY <1>1, <2>5, EntryOf DEF Tables
    <3> QED BY <1>1, <2>2, <2>5, <3>1
      DEF Tables, DeniedOf, Of, DeniedChunkDense, DeniedChunkSparse, DeniedContextDense, Denied
  <2> QED BY <1>3, <2>3, <2>4, <2>5
<1> QED BY <1>2, <1>3

LEMMA StartSweepSwept ==
  ASSUME ApplyInv, GenerateInv, SweepInv, NEW h \in Sweepers, NEW n \in Budgets, StartSweep(h, n)
  PROVE  SweepInv'
<1> DEFINE found == {e \in rows : Denied(e.of)} \cup DeniedContexts
<1>1. /\ sweep' = [sweep EXCEPT ![h] = [step |-> 1, remaining |-> n]]
      /\ status' = [status EXCEPT ![h] = "running"]
      /\ due' = [due EXCEPT ![h] = found]
      /\ UNCHANGED <<retracted, chunks, contexts, rows>>
  BY DEF StartSweep, derived, corpus
<1>2. n \in Nat BY CorpusAssumption DEF CorpusAssumption
<1>3. \A e \in found : IsDue(e)
  <2>1. \A e \in rows : Denied(e.of) => IsDue(e) BY DEF SweepInv, RowsTyped, IsDue
  <2>2. ASSUME NEW c \in chunks, IsReady(c), DeniedChunk(c)
        PROVE  IsDue(Entry("contexts", c, contexts[c]))
    <3>1. c \in AllChunks /\ c \notin Thoughts BY ChunkIsOfThought DEF ApplyInv
    <3>2. Denied(c) BY <2>2, <3>1 DEF Denied
    <3>3. Entry("contexts", c, contexts[c]) \in Entries BY <2>2, <3>1 DEF Entry, Entries, IsReady
    <3> QED BY <2>2, <3>2, <3>3 DEF IsDue, Entry
  <2> QED BY <2>1, <2>2 DEF DeniedContexts
<1>4. found \subseteq Entries BY <1>3 DEF IsDue
<1> HIDE DEF found
<1>5. \A k \in Sweepers : /\ due'[k] = IF k = h THEN found ELSE due[k]
                          /\ status'[k] = IF k = h THEN "running" ELSE status[k]
                          /\ k # h => sweep'[k] = sweep[k]
  BY <1>1 DEF SweepInv, SweepTyped
<1>6. sweep'[h].step = 1 /\ sweep'[h].remaining = n BY <1>1 DEF SweepInv, SweepTyped
<1>7. SweepTyped' BY <1>1, <1>2, <1>4 DEF SweepInv, SweepTyped
<1>8. RowsTyped' BY <1>1 DEF SweepInv, RowsTyped
<1>9. DueInv'
  <2>1. \A x : Denied(x) => Denied(x)' BY <1>1, DeniedForGood
  <2>2. \A e : IsDue(e) => IsDue(e)' BY <1>1, <2>1 DEF IsDue, IsReady
  <2> QED BY <1>3, <1>5, <2>2 DEF SweepInv, DueInv
<1>10. SweptInv' BY <1>5, <1>6 DEF SweepInv, SweptInv
<1> QED BY <1>7, <1>8, <1>9, <1>10 DEF SweepInv

LEMMA SweepTableSwept ==
  ASSUME SweepInv, NEW h \in Sweepers, NEW gone \in SUBSET rows, SweepTable(h, gone)
  PROVE  SweepInv'
<1> DEFINE step == sweep[h].step  n == sweep[h].remaining
<1>1. /\ sweep' = [sweep EXCEPT ![h] =
           [step |-> step + 1, remaining |-> n - Cardinality(gone)]]
      /\ due' = [k \in Sweepers |-> due[k] \ gone]
      /\ rows' = rows \ gone
      /\ UNCHANGED <<retracted, chunks, contexts, status>>
      /\ step \in 1..7 /\ Cardinality(gone) <= n
      /\ DeniedOf(step) \subseteq gone \/ Cardinality(gone) = n
  BY DEF SweepTable, corpus
<1>2. n \in Nat BY DEF SweepInv, SweepTyped
<1>3. Cardinality(gone) \in Nat
  <2>1. IsFiniteSet(gone) BY FS_Subset DEF SweepInv, RowsTyped
  <2> QED BY <2>1, FS_CardinalityType
<1>4. /\ sweep'[h].step = step + 1 /\ sweep'[h].remaining = n - Cardinality(gone)
      /\ \A k \in Sweepers : due'[k] = due[k] \ gone /\ (k # h => sweep'[k] = sweep[k])
  BY <1>1 DEF SweepInv, SweepTyped
<1>5. SweepTyped'
  <2>1. n - Cardinality(gone) \in Nat /\ step + 1 \in 0..9 BY <1>1, <1>2, <1>3
  <2> HIDE DEF step, n
  <2> QED BY <1>1, <2>1 DEF SweepInv, SweepTyped
<1>6. RowsTyped'
  <2>1. IsFiniteSet(rows') BY <1>1, FS_Subset DEF SweepInv, RowsTyped
  <2> QED BY <1>1, <2>1 DEF SweepInv, RowsTyped
<1>7. DueInv'
  <2>1. \A x : Denied(x) => Denied(x)' BY <1>1, DeniedForGood
  <2>2. \A e : IsDue(e) /\ e \notin gone => IsDue(e)' BY <1>1, <2>1 DEF IsDue, IsReady
  <2> QED BY <1>4, <2>2 DEF SweepInv, DueInv
<1>8. SweptInv'
  <2> SUFFICES ASSUME NEW k \in Sweepers
               PROVE  /\ sweep'[k].step # 0 => status[k] = "running"
                      /\ sweep'[k].remaining > 0 =>
                           /\ \A i \in 1..8 : i < sweep'[k].step =>
                                \A e \in due'[k] : e.table # Tables[i]
                           /\ status[k] = "completed" => due'[k] = {}
    BY <1>1 DEF SweptInv
  <2>1. CASE k # h BY <1>4, <2>1 DEF SweepInv, SweptInv
  <2>2. CASE k = h
    <3>1. status[h] = "running" BY <1>1 DEF SweepInv, SweptInv
    <3>2. ASSUME n - Cardinality(gone) > 0, NEW i \in 1..8, i < step + 1, NEW e \in due'[h]
          PROVE  e.table # Tables[i]
      <4>1. e \in due[h] /\ e \notin gone /\ IsDue(e) BY <1>4, <3>2 DEF SweepInv, DueInv
      <4>2. CASE i = step
        <5>1. DeniedOf(i) \subseteq gone BY <1>1, <1>2, <1>3, <3>2, <4>2
        <5> QED BY <4>1, <5>1, DueIsDenied
      <4>3. CASE i # step
        <5>1. i < step /\ n > 0 BY <1>1, <1>2, <1>3, <3>2, <4>3
        <5> QED BY <4>1, <5>1 DEF SweepInv, SweptInv
      <4> QED BY <4>2, <4>3
    <3> QED BY <1>4, <2>2, <3>1, <3>2
  <2> QED BY <2>1, <2>2
<1> QED BY <1>5, <1>6, <1>7, <1>8 DEF SweepInv

\* Steps of a sweeper that take no row.
LEMMA SweeperKeepsRows ==
  ASSUME SweepInv, SweepTyped', UNCHANGED <<retracted, chunks, contexts, rows, due>>, SweptInv'
  PROVE  SweepInv'
<1>1. \A x : Denied(x) => Denied(x)' BY DeniedForGood
<1>2. DueInv' BY <1>1 DEF SweepInv, DueInv, IsDue, IsReady
<1> QED BY <1>2 DEF SweepInv, RowsTyped

LEMMA NothingToQuarantineSwept ==
  ASSUME SweepInv, NEW h \in Sweepers, NothingToQuarantine(h)
  PROVE  SweepInv'
<1>1. /\ sweep' = [sweep EXCEPT ![h].step = 9] /\ sweep[h].step = 8
      /\ DeniedContexts = {} \/ sweep[h].remaining = 0
      /\ UNCHANGED <<retracted, chunks, contexts, rows, due, status>>
  BY DEF NothingToQuarantine, derived, corpus
<1>2. \A k \in Sweepers : /\ sweep'[k].remaining = sweep[k].remaining
                          /\ sweep'[k].step = IF k = h THEN 9 ELSE sweep[k].step
  BY <1>1 DEF SweepInv, SweepTyped
<1>3. SweepTyped' BY <1>1 DEF SweepInv, SweepTyped
<1>4. sweep[h].remaining > 0 => \A e \in due[h] : e.table # Tables[8]
  <2> SUFFICES ASSUME sweep[h].remaining > 0, NEW e \in due[h], e.table = Tables[8]
               PROVE  FALSE
    OBVIOUS
  <2>1. IsDue(e) BY DEF SweepInv, DueInv
  <2>2. e \in DeniedOf(8) BY <2>1, DueIsDenied
  <2> QED BY <1>1, <2>2 DEF DeniedOf, SweepInv, SweepTyped
<1>5. SweptInv'
  <2>1. \A i \in 1..8 : i < 8 \/ i = 8 OBVIOUS
  <2> QED BY <1>1, <1>2, <1>4, <2>1 DEF SweepInv, SweptInv
<1> QED BY <1>1, <1>3, <1>5, SweeperKeepsRows

LEMMA SweeperStopsSwept ==
  ASSUME SweepInv, NEW h \in Sweepers, QuarantineFails(h) \/ SweeperDies(h)
  PROVE  SweepInv'
<1>1. /\ sweep' = [sweep EXCEPT ![h].step = 0]
      /\ UNCHANGED <<retracted, chunks, contexts, rows, due, status>>
  BY DEF QuarantineFails, SweeperDies, derived, corpus
<1>2. \A k \in Sweepers : /\ sweep'[k].remaining = sweep[k].remaining
                          /\ sweep'[k].step = IF k = h THEN 0 ELSE sweep[k].step
  BY <1>1 DEF SweepInv, SweepTyped
<1>3. SweepTyped' BY <1>1 DEF SweepInv, SweepTyped
<1>4. SweptInv' BY <1>1, <1>2 DEF SweepInv, SweptInv
<1> QED BY <1>1, <1>3, <1>4, SweeperKeepsRows

LEMMA FinishSweepSwept ==
  ASSUME SweepInv, NEW h \in Sweepers, FinishSweep(h)
  PROVE  SweepInv'
<1>1. /\ sweep' = [sweep EXCEPT ![h].step = 0] /\ sweep[h].step = 9
      /\ status' = [status EXCEPT ![h] = "completed"]
      /\ UNCHANGED <<retracted, chunks, contexts, rows, due>>
  BY DEF FinishSweep, derived, corpus
<1>2. \A k \in Sweepers : /\ sweep'[k].remaining = sweep[k].remaining
                          /\ sweep'[k].step = IF k = h THEN 0 ELSE sweep[k].step
                          /\ status'[k] = IF k = h THEN "completed" ELSE status[k]
  BY <1>1 DEF SweepInv, SweepTyped
<1>3. SweepTyped' BY <1>1 DEF SweepInv, SweepTyped
<1>4. sweep[h].remaining > 0 => due[h] = {}
  <2> SUFFICES ASSUME sweep[h].remaining > 0, NEW e \in due[h] PROVE FALSE OBVIOUS
  <2>1. e \in Entries BY DEF SweepInv, DueInv, IsDue
  <2>2. \E i \in 1..8 : e.table = Tables[i]
    BY <2>1, EntryOf DEF Tables, ThoughtTables, ChunkTables
  <2> QED BY <1>1, <2>2 DEF SweepInv, SweptInv
<1>5. SweptInv' BY <1>1, <1>2, <1>4 DEF SweepInv, SweptInv
<1> QED BY <1>1, <1>3, <1>5, SweeperKeepsRows

---------------------------------------------------------------------------------
\* All of it.

Inv == ApplyInv /\ GenerateInv /\ SweepInv

LEMMA InitInv == Init => Inv
<1> SUFFICES ASSUME Init PROVE Inv OBVIOUS
<1>1. ApplyInv
  <2>1. Covering({}) /\ Unarchived({}) BY DEF Covering, Unarchived
  <2> QED BY <2>1, IdleRunIsGood DEF Init, ApplyInv
<1>2. GenerateInv
  <2>1. NotGenerating.todo = {} /\ GoodAsk(NotGenerating) BY DEF NotGenerating, GoodAsk, AskRuns
  <2>2. AsksInv /\ AloneInv /\ PromiseInv
    BY <2>1 DEF Init, AsksInv, AloneInv, PromiseInv
  <2>3. ContextsTyped
    BY CorpusAssumption DEF CorpusAssumption, Init, ContextsTyped, IsReady
  <2>4. VectorInv BY DEF Init, VectorInv
  <2> QED BY <2>2, <2>3, <2>4 DEF GenerateInv
<1>3. SweepInv
  BY FS_EmptySet DEF Init, SweepInv, RowsTyped, SweepTyped, DueInv, SweptInv
<1> QED BY <1>1, <1>2, <1>3 DEF Inv

\* A step that leaves chunkers alone leaves what is known of them.
LEMMA ApplyInvKept == ASSUME ApplyInv, UNCHANGED <<apply, chunks, index>> PROVE ApplyInv'
BY DEF ApplyInv

LEMMA ApplyStepInv ==
  ASSUME Inv, NEW a \in Appliers, Apply(a)
  PROVE  Inv'
<1>1. ApplyInv'
  <2>1. ASSUME NEW p \in Params, NEW parents \in SUBSET Thoughts, StartApply(a, p, parents)
        PROVE  ApplyInv'
    BY <2>1, StartApplyTyped DEF Inv
  <2>2. ASSUME NEW t \in Thoughts, NextParent(a, t) PROVE ApplyInv'
    BY <2>2, NextParentTyped DEF Inv
  <2>3. ASSUME apply[a].pc = "cut", NEW e \in 0..Len(Text[apply[a].at]), Cut(a, e)
        PROVE  ApplyInv'
    BY <2>3, CutTyped DEF Inv
  <2>4. CASE Persist(a) BY <2>4, PersistTyped DEF Inv
  <2>5. CASE ApplierDies(a)
    <3>1. apply' = [apply EXCEPT ![a] = NotApplying] /\ UNCHANGED <<chunks, index>>
      BY <2>5 DEF ApplierDies, derived, corpus
    <3> QED BY <3>1, IdleRunIsGood, RunStays DEF Inv
  <2> QED BY <2>1, <2>2, <2>3, <2>4, <2>5 DEF Apply, ApplyStep
<1>2. UNCHANGED <<generate, contexts, contested, rows, retracted, sweeps>> /\ chunks \subseteq chunks'
  BY DEF Apply, ApplyStep, StartApply, NextParent, Cut, Persist, Insert, ApplierDies, derived,
         corpus
<1>3. GenerateInv' BY <1>2, OthersTyped DEF Inv
<1>4. SweepInv' BY <1>2, QuietSteps DEF Inv
<1> QED BY <1>1, <1>3, <1>4 DEF Inv

LEMMA GenerateStepInv ==
  ASSUME Inv, NEW g \in Generators, Generate(g)
  PROVE  Inv'
<1>1. chunks \subseteq AllChunks BY DEF Inv, ApplyInv
<1>2. ASSUME NEW list \in SUBSET chunks, NEW embeds \in BOOLEAN, StartGenerate(g, list, embeds)
      PROVE  Inv'
  <2>1. UNCHANGED <<apply, chunks, index, sweeps, retracted, contexts, rows>>
    BY <1>2 DEF StartGenerate, derived, corpus
  <2> QED BY <1>2, <2>1, StartGenerateTyped, ApplyInvKept, QuietSteps DEF Inv
<1>3. ASSUME NEW c \in chunks, AskFails(g, c) PROVE Inv'
  <2>1. UNCHANGED <<apply, chunks, index, sweeps, retracted, contexts, rows>>
    BY <1>3 DEF AskFails, derived, corpus
  <2> QED BY <1>1, <1>3, <2>1, AskFailsTyped, ApplyInvKept, QuietSteps DEF Inv
<1>4. ASSUME NEW c \in chunks, NEW text \in Answers, Ask(g, c, text) PROVE Inv'
  <2>1. UNCHANGED <<apply, chunks, index, sweeps, retracted, contexts, rows>>
    BY <1>4 DEF Ask, derived, corpus
  <2> QED BY <1>1, <1>4, <2>1, AskTyped, ApplyInvKept, QuietSteps DEF Inv
<1>5. CASE PersistContext(g)
  <2>1. UNCHANGED <<apply, chunks, index>> BY <1>5 DEF PersistContext, corpus
  <2> QED BY <1>5, <2>1, PersistContextTyped, PersistContextSwept, ApplyInvKept DEF Inv
<1>6. CASE WriteContextVector(g)
  <2>1. UNCHANGED <<apply, chunks, index>> BY <1>6 DEF WriteContextVector, corpus
  <2> QED BY <1>6, <2>1, WriteContextVectorTyped, WriteContextVectorSwept, ApplyInvKept DEF Inv
<1>7. CASE GeneratorEnds(g)
  <2>1. UNCHANGED <<apply, chunks, index, sweeps, retracted, contexts, rows>>
    BY <1>7 DEF GeneratorEnds, derived, corpus
  <2> QED BY <1>7, <2>1, GeneratorEndsTyped, ApplyInvKept, QuietSteps DEF Inv
<1> QED BY <1>2, <1>3, <1>4, <1>5, <1>6, <1>7 DEF Generate

LEMMA SweepStepInv ==
  ASSUME Inv, NEW h \in Sweepers, Sweep(h)
  PROVE  Inv'
<1>1. UNCHANGED <<apply, chunks, index, generate, contexts, contested>> /\ rows' \subseteq rows
  BY DEF Sweep, StartSweep, SweepTable, NothingToQuarantine, QuarantineFails, FinishSweep,
         SweeperDies, derived, corpus
<1>2. ApplyInv' BY <1>1, ApplyInvKept DEF Inv
<1>3. GenerateInv' BY <1>1, OthersTyped DEF Inv
<1>4. SweepInv'
  BY StartSweepSwept, SweepTableSwept, NothingToQuarantineSwept, SweeperStopsSwept,
     FinishSweepSwept DEF Inv, Sweep
<1> QED BY <1>2, <1>3, <1>4 DEF Inv

LEMMA WriteInv ==
  ASSUME Inv, NEW e \in Entries, e.table # "contexts", e.table # "context_dense", Write(e)
  PROVE  Inv'
<1>1. UNCHANGED <<apply, chunks, index, generate, contexts, contested>> /\ rows' = rows \cup {e}
  BY DEF Write, corpus
<1>2. ApplyInv' BY <1>1, ApplyInvKept DEF Inv
<1>3. GenerateInv' BY <1>1, OthersTyped DEF Inv
<1>4. SweepInv' BY WriteSwept DEF Inv
<1> QED BY <1>2, <1>3, <1>4 DEF Inv

LEMMA OthersInv == ASSUME Inv, Others PROVE Inv'
<1>1. chunks \subseteq AllChunks BY DEF Inv, ApplyInv
<1>2. ASSUME NEW t \in Thoughts, EnqueueEmbedding(t) \/ EnqueueTags(t) PROVE Inv'
  <2>1. /\ Entry("pending_embeddings", t, None) \in Entries
        /\ Entry("pending_tags", t, None) \in Entries
    BY DEF Entry, Entries, ThoughtTables
  <2>2. /\ Entry("pending_embeddings", t, None).table = "pending_embeddings"
        /\ Entry("pending_tags", t, None).table = "pending_tags"
    BY DEF Entry
  <2> QED BY <1>2, <2>1, <2>2, WriteInv DEF EnqueueEmbedding, EnqueueTags
<1>3. ASSUME NEW t \in Thoughts, Retract(t) PROVE Inv'
  <2>1. UNCHANGED <<apply, chunks, index, generate, contexts, contested, rows>> BY <1>3 DEF Retract, corpus
  <2> QED BY <1>3, <2>1, ApplyInvKept, OthersTyped, RetractSwept DEF Inv
<1>4. ASSUME NEW c \in chunks, EnqueueChunk(c) PROVE Inv'
  <2>1. Entry("pending_embeddings", c, None) \in Entries
    BY <1>1 DEF Entry, Entries, ChunkTables
  <2>2. Entry("pending_embeddings", c, None).table = "pending_embeddings" BY DEF Entry
  <2> QED BY <1>4, <2>1, <2>2, WriteInv DEF EnqueueChunk
<1>5. ASSUME NEW x \in Thoughts \cup chunks, InsertDense(x) \/ InsertSparse(x) PROVE Inv'
  <2> DEFINE dense == Entry(IF x \in Thoughts THEN "thought_dense" ELSE "chunk_dense", x, None)
             sparse == Entry(IF x \in Thoughts THEN "thought_sparse" ELSE "chunk_sparse", x, None)
  <2>1. dense \in Entries /\ dense.table \in {"thought_dense", "chunk_dense"}
    BY <1>1 DEF Entry, Entries, ThoughtTables, ChunkTables
  <2>2. sparse \in Entries /\ sparse.table \in {"thought_sparse", "chunk_sparse"}
    BY <1>1 DEF Entry, Entries, ThoughtTables, ChunkTables
  <2>3. Write(dense) \/ Write(sparse) BY <1>5 DEF InsertDense, InsertSparse
  <2> HIDE DEF dense, sparse
  <2> QED BY <2>1, <2>2, <2>3, WriteInv
<1> QED BY <1>2, <1>3, <1>4, <1>5 DEF Others

LEMMA StutterInv == ASSUME Inv, UNCHANGED vars PROVE Inv'
<1>1. UNCHANGED <<apply, chunks, index, generate, contexts, contested, rows, retracted, sweeps>>
  BY DEF vars, derived, corpus
<1> QED BY <1>1, ApplyInvKept, OthersTyped, QuietSteps DEF Inv

LEMMA InvHolds == Spec => []Inv
<1>1. ASSUME Inv, [Next]_vars PROVE Inv'
  BY <1>1, ApplyStepInv, GenerateStepInv, SweepStepInv, OthersInv, StutterInv DEF Next
<1> QED BY <1>1, InitInv, PTL DEF Spec

\* Every variable keeps its type (Corpus.TypeOK).
THEOREM CorpusTypeCorrect == Spec => []TypeOK
<1>1. Inv => TypeOK
  <2> SUFFICES ASSUME Inv PROVE TypeOK OBVIOUS
  <2>1. apply \in [Appliers -> ApplyRuns] BY DEF Inv, ApplyInv, GoodRun
  <2>2. generate \in [Generators -> AskRuns] BY DEF Inv, GenerateInv, AsksInv, GoodAsk
  <2> QED BY <2>1, <2>2
    DEF Inv, TypeOK, ApplyInv, ApplyRuns, AskRuns, GenerateInv, ContextsTyped, SweepInv,
        RowsTyped, SweepTyped
<1> QED BY <1>1, InvHolds, PTL

\* Chunks cover their thought, whatever the texts, the limits and the number of chunkers
\* (chunk_spans, propose_chunks, persist_chunks).
THEOREM ChunksAlwaysCover == Spec => []ChunksCoverTheirThought
<1>1. Inv => ChunksCoverTheirThought
  BY DEF Inv, ApplyInv, Covering, ChunksCoverTheirThought, ChunkedThoughts
<1> QED BY <1>1, InvHolds, PTL

\* A vector of a context is of the context's text, unless two runs of the generator had its
\* chunk on their lists at once (insert_artifact_chunk_context).
THEOREM VectorsOfTheirText == Spec => []VectorsAreOfTheirText
<1>1. Inv => VectorsAreOfTheirText
  BY DEF Inv, GenerateInv, VectorInv, VectorsAreOfTheirText, Of
<1> QED BY <1>1, InvHolds, PTL

\* A completed sweep with budget left has taken all that was denied at its start
\* (run_ingest_hygiene).
THEOREM SweepsAreThorough == Spec => []CompletedSweepsWereThorough
<1>1. Inv => CompletedSweepsWereThorough
  BY DEF Inv, SweepInv, SweptInv, CompletedSweepsWereThorough
<1> QED BY <1>1, InvHolds, PTL

\* What a sweep may take, a search would not have found, but for archived thoughts.
LEMMA SweptIsNotFound ==
  ASSUME Inv, NEW k \in 1..7, NEW e \in DeniedOf(k) \cup Outdated(k)
  PROVE  e \notin Found \/ ThoughtOf(e.of) \in Archived
<1>1. e \in rows /\ e \in Entries
  BY DEF DeniedOf, Outdated, Of, DeniedEmbeddingJobs, DeniedTagJobs, DeniedThoughtDense,
         DeniedThoughtSparse, DeniedChunkDense, DeniedChunkSparse, DeniedContextDense,
         Inv, SweepInv, RowsTyped
<1>2. CASE k \in {1, 2}
  <2>1. e.table \in {"pending_embeddings", "pending_tags"}
    BY <1>2 DEF DeniedOf, Outdated, Of, DeniedEmbeddingJobs, DeniedTagJobs
  <2> QED BY <2>1 DEF Found, FoundThoughtDense, FoundThoughtSparse, FoundChunkDense,
                      FoundChunkSparse, FoundContextDense, Of
<1>3. CASE k \in {3, 4}
  <2>1. e.table \in {"thought_dense", "thought_sparse"} /\ DeniedThought(e.of)
    BY <1>3 DEF DeniedOf, Outdated, Of, DeniedThoughtDense, DeniedThoughtSparse
  <2>2. e.of \in Thoughts BY <1>1, <2>1, EntryOf
  <2> QED BY <2>1, <2>2 DEF Found, FoundThoughtDense, FoundThoughtSparse, FoundChunkDense,
                      FoundChunkSparse, FoundContextDense, Of, Live, DeniedThought, ThoughtOf
<1>4. CASE k \in {5, 6, 7}
  <2>1. /\ e.table \in {"chunk_dense", "chunk_sparse", "context_dense"}
        /\ DeniedChunk(e.of) \/ (e.table = "context_dense" /\ ~IsReady(e.of))
    BY <1>4 DEF DeniedOf, Outdated, Of, DeniedChunkDense, DeniedChunkSparse, DeniedContextDense
  <2>2. e.of \notin Thoughts BY <1>1, <2>1, EntryOf
  <2> QED BY <2>1, <2>2 DEF Found, FoundThoughtDense, FoundThoughtSparse, FoundChunkDense,
               FoundChunkSparse, FoundContextDense, Of, Live, DeniedThought, DeniedChunk, ThoughtOf
<1> QED BY <1>2, <1>3, <1>4

\* No step takes a row that a search would find, but to put another in its place or because
\* its thought is archived (run_ingest_hygiene, insert_artifact_chunk_context_embedding).
THEOREM SweepsTakeNothingFound == Spec => SweepsRemoveNothingFound
<1> DEFINE Kept ==
      \A e \in rows \ rows' :
        \/ \E f \in rows' : f.table = e.table /\ f.of = e.of
        \/ e \notin Found \/ ThoughtOf(e.of) \in Archived
<1>1. ASSUME Inv, [Next]_vars PROVE Kept
  <2>1. CASE UNCHANGED vars BY <2>1 DEF vars, derived, corpus
  <2>2. ASSUME NEW h \in Sweepers, Sweep(h) PROVE Kept
    <3>1. ASSUME NEW gone \in SUBSET rows, SweepTable(h, gone) PROVE Kept
      <4>1. sweep[h].step \in 1..7 /\ rows' = rows \ gone
            /\ gone \subseteq DeniedOf(sweep[h].step) \cup Outdated(sweep[h].step)
        BY <3>1 DEF SweepTable, corpus
      <4> QED BY <1>1, <4>1, SweptIsNotFound
    <3>2. ASSUME \A gone \in SUBSET rows : ~SweepTable(h, gone) PROVE Kept
      <4>1. UNCHANGED rows
        BY <2>2, <3>2 DEF Sweep, StartSweep, NothingToQuarantine, QuarantineFails, FinishSweep,
                          SweeperDies, derived, corpus
      <4> QED BY <4>1
    <3> QED BY <3>1, <3>2
  <2>3. ASSUME NEW g \in Generators, Generate(g) PROVE Kept
    <3>1. CASE WriteContextVector(g)
      <4> DEFINE new == Entry("context_dense", generate[g].at, generate[g].text)
      <4>1. ASSUME NEW e \in rows \ rows'
            PROVE  new \in rows' /\ e.table = "context_dense" /\ e.of = generate[g].at
        BY <3>1, <4>1 DEF WriteContextVector, corpus
      <4>2. new.table = "context_dense" /\ new.of = generate[g].at BY DEF Entry
      <4> HIDE DEF new
      <4> QED BY <4>1, <4>2
    <3>2. CASE ~WriteContextVector(g)
      <4>1. UNCHANGED rows
        BY <2>3, <3>2 DEF Generate, StartGenerate, AskFails, Ask, PersistContext, GeneratorEnds,
                          derived, corpus
      <4> QED BY <4>1
    <3> QED BY <3>1, <3>2
  <2>4. ASSUME NEW a \in Appliers, Apply(a) PROVE Kept
    <3>1. UNCHANGED rows
      BY <2>4 DEF Apply, ApplyStep, StartApply, NextParent, Cut, Persist, ApplierDies, derived, corpus
    <3> QED BY <3>1
  <2>5. CASE Others
    <3>1. rows \subseteq rows'
      BY <2>5 DEF Others, EnqueueEmbedding, EnqueueTags, EnqueueChunk, InsertDense, InsertSparse,
                  Retract, Write
    <3> QED BY <3>1
  <2> QED BY <1>1, <2>1, <2>2, <2>3, <2>4, <2>5 DEF Next
<1> QED BY <1>1, InvHolds, PTL DEF Spec, SweepsRemoveNothingFound

=================================================================================
