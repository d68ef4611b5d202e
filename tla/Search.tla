----------------------------------- MODULE Search -----------------------------------
(***************************************************************************)
(* One search_thoughts request over a corpus in which thoughts may be      *)
(* retracted meanwhile: legs that each read the database in a statement of *)
(* their own, one after the other and each with failures of its own, their *)
(* fusion, the neighbours the relation graph adds, the tag filter, and the *)
(* reranker that sees a pool of the best and has the last word on it.      *)
(***************************************************************************)
EXTENDS Naturals, FiniteSets, SequencesExt

CONSTANTS
  Thoughts,
  Chunks, Parent,  \* artifact_chunks and the thought each is a part of
  Match,           \* which rows answer the query, for each thing a leg asks for
  Marked,          \* thoughts and chunks that carry an evaluation marker
  InScope,         \* thoughts in the scope that is asked for
  Links,           \* live thought_links between thoughts, the newest first
  MayRetract,      \* bound: thoughts that may be retracted, before or meanwhile
  Flags,           \* what request and configuration may turn on
  TopK,            \* hits of a leg
  Spread,          \* chunks a chunk leg reads for each hit (8 in the code)
  SeedCount, PerSeedCap, TotalCap,
  Old,             \* thoughts one half-life older than the others
  Matching,        \* thoughts the tag filter keeps
  CandidatePool,
  Limit

ThoughtKinds == {"dense", "words", "weights", "aliased", "domain tag", "facets"}
ChunkKinds ==
  {"chunk dense", "chunk words", "chunk weights", "context dense", "context words",
   "context ready"}

ASSUME SearchAssumption ==
  /\ Parent \in [Chunks -> Thoughts] /\ Marked \subseteq Thoughts \cup Chunks
  /\ DOMAIN Match = ThoughtKinds \cup ChunkKinds
  /\ \A k \in ThoughtKinds : Match[k] \subseteq Thoughts
  /\ \A k \in ChunkKinds : Match[k] \subseteq Chunks
  /\ Links \in Seq(Thoughts \X Thoughts)
  /\ Flags \subseteq SUBSET {"chunks", "contexts", "sparse", "routing", "expansion", "graph"}
  /\ {TopK, SeedCount, PerSeedCap, TotalCap, CandidatePool} \subseteq Nat
  /\ MayRetract \subseteq Thoughts
  /\ {Spread, Limit} \subseteq Nat \ {0}

VARIABLES
  flags,
  retracted,
  before,     \* history: what was retracted when the request began
  stage,
  embedded,   \* the query has its embedding
  available,  \* vector_search_available
  rankings,   \* what the legs answered so far
  graph,      \* the neighbours' ranking
  order,      \* the hits, fused, boosted and filtered
  pool,       \* what the reranker was given
  answer,     \* the thoughts in the response
  reranked    \* rerank_used

hits == <<rankings, graph, order>>
result == <<pool, answer, reranked>>
vars == <<flags, retracted, before, stage, embedded, available, hits, result>>

TypeOK ==
  /\ flags \subseteq UNION Flags /\ before \subseteq retracted /\ retracted \subseteq Thoughts
  /\ stage \in {"plan", "embed", "legs", "graph", "rank", "done", "failed"}
  /\ {embedded, available, reranked} \subseteq BOOLEAN
  /\ rankings \in Seq(Seq(Thoughts)) /\ \A i \in DOMAIN rankings : IsInjective(rankings[i])
  /\ graph \in Seq(Thoughts) /\ Len(graph) <= TotalCap
  /\ IsInjective(order) /\ ToSet(order) \subseteq Matching
  /\ pool \subseteq ToSet(order) /\ answer \subseteq ToSet(order)
  /\ Cardinality(answer) <= Limit

Init ==
  /\ flags \in Flags
  /\ retracted \in SUBSET MayRetract /\ before = retracted
  /\ stage = "plan" /\ embedded = FALSE /\ available = FALSE
  /\ rankings = <<>> /\ graph = <<>> /\ order = <<>>
  /\ pool = {} /\ answer = {} /\ reranked = FALSE

Least(m, n) == IF m < n THEN m ELSE n
Top(s, n) == SubSeq(s, 1, Least(n, Len(s)))

\* Each element where it comes first.
Distinct(s) ==
  LET upto[n \in 0..Len(s)] ==
        IF n = 0 THEN <<>>
        ELSE LET firsts == upto[n - 1]
             IN IF s[n] \in ToSet(firsts) THEN firsts ELSE Append(firsts, s[n])
  IN upto[Len(s)]

\* The elements that are in S.
Only(s, S) ==
  LET upto[n \in 0..Len(s)] ==
        IF n = 0 THEN <<>>
        ELSE IF s[n] \in S THEN Append(upto[n - 1], s[n]) ELSE upto[n - 1]
  IN upto[Len(s)]

\* f[1] + ... + f[n]
Sum(n, f) ==
  LET upto[k \in 0..n] == IF k = 0 THEN 0 ELSE upto[k - 1] + f[k] IN upto[n]

---------------------------------------------------------------------------------
\* Fusion.

\* 1 / (60 + rank), as a multiple of 1 / lcm(61, ..., 64).
Contribution(rank) == 7624512 \div (60 + rank)

InRanking(t, r) == Sum(Len(r), [k \in 1..Len(r) |-> IF r[k] = t THEN Contribution(k) ELSE 0])
Score(t, rs) == Sum(Len(rs), [i \in 1..Len(rs) |-> InRanking(t, rs[i])])

\* recency_boost
Boosted(t, rs) == IF t \in Old THEN Score(t, rs) ELSE 2 * Score(t, rs)

Found(rs) == {t \in Thoughts : \E i \in DOMAIN rs : t \in ToSet(rs[i])}

\* The best first; where scores are equal the order is any.
SortedBy(score(_), S) ==
  {o \in SetToSeqs(S) : \A i, j \in DOMAIN o : i < j => score(o[i]) >= score(o[j])}

Fused(rs) == SortedBy(LAMBDA t : Score(t, rs), Found(rs))

\* The tag filter takes hits out and leaves the others in their order.
Sorted(rs) == SortedBy(LAMBDA t : Boosted(t, rs), Found(rs) \cap Matching)

---------------------------------------------------------------------------------
\* What the statement of a leg may return.

\* needs: it searches with the query's embedding.  hard: its failure fails the request.
\* adds: the kind of hits of it that add capacity to the pool.
L(rows, needs, hard, adds) == [rows |-> rows, needs |-> needs, hard |-> hard, adds |-> adds]

If(b, legs) == IF b THEN legs ELSE <<>>

QueryLegs ==
  LET chunks == "chunks" \in flags  contexts == chunks /\ "contexts" \in flags
  IN <<L("dense", TRUE, FALSE, "none")>>
       \o If(chunks, <<L("chunk dense", TRUE, FALSE, "none")>>)
       \o If(contexts, <<L("context dense", TRUE, FALSE, "context")>>)
       \o If("sparse" \in flags,
            <<L("weights", FALSE, TRUE, "sparse"), L("chunk weights", FALSE, TRUE, "sparse")>>)
       \o <<L("words", FALSE, FALSE, "none")>>
       \o If(chunks, <<L("chunk words", FALSE, FALSE, "none")>>)
       \o If(contexts, <<L("context words", FALSE, FALSE, "context")>>)
       \o If(chunks, <<L("pairs of words", FALSE, FALSE, "none")>>)
       \o If("routing" \in flags,
            <<L("domains", FALSE, FALSE, "none"), L("facets", FALSE, FALSE, "none")>>)

\* The same for another wording of the query, which has an embedding of its own.
ExpansionLegs ==
  LET chunks == "chunks" \in flags
  IN <<L("dense", FALSE, FALSE, "none")>> \o If(chunks, <<L("chunk dense", FALSE, FALSE, "none")>>)
       \o <<L("words", FALSE, FALSE, "none")>>
       \o If(chunks, <<L("chunk words", FALSE, FALSE, "none")>>)

Legs == QueryLegs \o If("expansion" \in flags, ExpansionLegs)

\* Retraction, scope and markers are asked for in each statement anew.
ThoughtVisible(t) == t \notin retracted \cup Marked /\ t \in InScope
ChunkVisible(c) == ThoughtVisible(Parent[c]) /\ c \notin Marked

\* Which of the rows match, and how well, is any.
Ranked(S, n) == {r \in SeqOf(S, n) : IsInjective(r)}

\* The best chunk of each parent, out of Spread times as many chunks as hits are wanted.
Parents(r) ==
  LET candidates == Top(r, Spread * TopK)
  IN Top(Distinct([i \in DOMAIN candidates |-> Parent[candidates[i]]]), TopK)

OfThoughts(S) == Ranked({t \in S : ThoughtVisible(t)}, TopK)
OfChunks(S) == {Parents(r) : r \in Ranked({c \in S : ChunkVisible(c)}, Cardinality(S))}

DenseAnswers == OfThoughts(Match["dense"])
WeightAnswers == OfThoughts(Match["weights"])
WordAnswers == OfThoughts(Match["words"])
DomainAnswers == OfThoughts(Match["aliased"] \cup Match["domain tag"])
FacetAnswers == OfThoughts(Match["facets"])
ChunkDenseAnswers == OfChunks(Match["chunk dense"])
ChunkWeightAnswers == OfChunks(Match["chunk weights"])
ChunkWordAnswers == OfChunks(Match["chunk words"])
ContextDenseAnswers == OfChunks(Match["context dense"] \cap Match["context ready"])
ContextWordAnswers == OfChunks(Match["context words"] \cap Match["context ready"])

\* Each two neighbouring words of the query are a query of chunks; here there are two.
PairAnswers ==
  LET answers == ChunkWordAnswers
  IN UNION {{Top(o, TopK) : o \in Fused(<<r, q>>)} : r, q \in answers}

Answers(leg) ==
  CASE leg.rows = "dense" -> DenseAnswers
    [] leg.rows = "weights" -> WeightAnswers
    [] leg.rows = "words" -> WordAnswers
    [] leg.rows = "domains" -> DomainAnswers
    [] leg.rows = "facets" -> FacetAnswers
    [] leg.rows = "chunk dense" -> ChunkDenseAnswers
    [] leg.rows = "chunk weights" -> ChunkWeightAnswers
    [] leg.rows = "chunk words" -> ChunkWordAnswers
    [] leg.rows = "context dense" -> ContextDenseAnswers
    [] leg.rows = "context words" -> ContextWordAnswers
    [] leg.rows = "pairs of words" -> PairAnswers

\* The other end of a link.
Other(l, s) == IF l[1] = s THEN l[2] ELSE l[1]

\* Mutant: links are followed wherever they go.
TouchingAny(s) == Only(Links, {l \in ToSet(Links) : s \in {l[1], l[2]}})

\* Live links whose other end may be shown.
Touching(s) ==
  Only(Links, {l \in ToSet(Links) : s \in {l[1], l[2]} /\ ThoughtVisible(Other(l, s))})

\* The newest links of each of the first hits, the first hit's first.
Neighbours(o) ==
  LET of(s) == LET links == Touching(s)
               IN Top([i \in DOMAIN links |-> Other(links[i], s)], PerSeedCap)
      seeds == Top(o, SeedCount)
  IN Distinct(Top(FlattenSeq([i \in DOMAIN seeds |-> of(seeds[i])]), TotalCap))

---------------------------------------------------------------------------------

\* query_expander: without it, or when it fails, there is nothing to expand with.
Plan ==
  /\ stage = "plan" /\ stage' = "embed"
  /\ flags' \in {flags, flags \ {"expansion"}}
  /\ UNCHANGED <<retracted, before, embedded, available, hits, result>>

Embed ==
  /\ stage = "embed" /\ stage' = "legs"
  /\ embedded' \in BOOLEAN
  /\ UNCHANGED <<flags, retracted, before, available, hits, result>>

Leg == Legs[Len(rankings) + 1]
LegIsNext == stage = "legs" /\ Len(rankings) < Len(Legs)

LegAnswers ==
  /\ LegIsNext /\ (Leg.needs => embedded)
  /\ \E r \in Answers(Leg) : rankings' = Append(rankings, r)
  /\ available' = (available \/ Leg.needs)
  /\ UNCHANGED <<flags, retracted, before, stage, embedded, graph, order, result>>

\* No embedding, an index that is not ready, a statement timeout, an error: the search
\* goes on without its hits.
LegFails ==
  /\ LegIsNext /\ ~Leg.hard
  /\ rankings' = Append(rankings, <<>>)
  /\ UNCHANGED <<flags, retracted, before, stage, embedded, available, graph, order, result>>

Fails ==
  /\ stage' = "failed"
  /\ UNCHANGED <<flags, retracted, before, embedded, available, hits, result>>

HardLegFails == LegIsNext /\ Leg.hard /\ Fails

LegsDone ==
  /\ stage = "legs" /\ Len(rankings) = Len(Legs)
  /\ stage' = "graph"
  /\ UNCHANGED <<flags, retracted, before, embedded, available, hits, result>>

Ranks(g) ==
  /\ stage' = "rank" /\ graph' = g
  /\ order' \in Sorted(Append(rankings, g))
  /\ UNCHANGED <<flags, retracted, before, embedded, available, rankings, result>>

\* Augmentation is off, has nothing to start from, or is capped to nothing.
GraphIsOff ==
  "graph" \notin flags \/ Found(rankings) = {} \/ 0 \in {SeedCount, PerSeedCap, TotalCap}

WithoutGraph == stage = "graph" /\ GraphIsOff /\ Ranks(<<>>)
GraphAnswers == stage = "graph" /\ ~GraphIsOff /\ \E o \in Fused(rankings) : Ranks(Neighbours(o))
GraphFails == stage = "graph" /\ ~GraphIsOff /\ Fails

\* Retained hits of the legs that add capacity, and retained neighbours.
Retained(adds) ==
  LET legs == {i \in DOMAIN rankings : Legs[i].adds = adds}
  IN (UNION {ToSet(rankings[i]) : i \in legs}) \cap Matching

\* Mutant: neighbours add no capacity.
PoolUnextended == CandidatePool

EffectivePool ==
  CandidatePool + Cardinality(ToSet(graph) \cap Matching)
    + Cardinality(Retained("sparse")) + Cardinality(Retained("context"))

\* The reranker puts its pool in an order of its own, and the rest is dropped.
Rerank ==
  /\ stage = "rank" /\ order # <<>>
  /\ stage' = "done" /\ reranked' = TRUE
  /\ pool' = ToSet(Top(order, EffectivePool))
  /\ answer' \in {s \in SUBSET pool' : Cardinality(s) = Least(Limit, Cardinality(pool'))}
  /\ UNCHANGED <<flags, retracted, before, embedded, available, hits>>

\* No reranker, not wanted, or a batch of it failed: the order is as fused.
NoRerank ==
  /\ stage = "rank"
  /\ stage' = "done"
  /\ answer' = ToSet(Top(order, Limit))
  /\ UNCHANGED <<flags, retracted, before, embedded, available, hits, pool, reranked>>

\* Somebody retracts a thought while the request runs.
Retract(t) ==
  /\ stage \notin {"done", "failed"} /\ t \in MayRetract \ retracted
  /\ retracted' = retracted \cup {t}
  /\ UNCHANGED <<flags, before, stage, embedded, available, hits, result>>

Next ==
  \/ Plan \/ Embed \/ LegAnswers \/ LegFails \/ HardLegFails \/ LegsDone
  \/ WithoutGraph \/ GraphAnswers \/ GraphFails \/ Rerank \/ NoRerank
  \/ \E t \in MayRetract : Retract(t)

Spec == Init /\ [][Next]_vars

---------------------------------------------------------------------------------

\* What the legs without extra capacity found: those of the query itself, and those of its
\* expansion, of routing and of chunks.
Baseline == [i \in DOMAIN rankings |-> IF Legs[i].adds = "none" THEN rankings[i] ELSE <<>>]

AtLeastAsGood(t) ==
  {u \in Found(Baseline) \cap Matching : Boosted(u, Baseline) >= Boosted(t, Baseline)}

\* The pool grows by what the sparse, contextual and graph legs find: a hit that was in it
\* without their hits is in it with them, wherever they move it.  For query expansion, routing
\* and chunks no room is made: their hits are among those as good that a hit is measured by,
\* and may push a hit of the query itself out.  And unless they are truncated to the pool,
\* hits are missing from a response only when it is full (effective_candidate_pool).
BaselineKeepsItsPlace ==
  stage = "done" =>
    /\ reranked => \A t \in Found(Baseline) \cap Matching :
                     Cardinality(AtLeastAsGood(t)) <= CandidatePool => t \in pool
    /\ ToSet(order) \ answer # {} =>
         Cardinality(answer) = Limit \/ (reranked /\ answer = pool)

\* However a hit was come by, by its vector, its words, a part of it, its context, its
\* tags, another wording of the query or a link of another hit, it is not marked, not out
\* of scope, and was not retracted when the request began: each statement filters anew.
AnswersWereVisible ==
  stage = "done" => /\ answer \cap (before \cup Marked) = {} /\ answer \subseteq InScope
                    /\ \A r \in {graph} \cup ToSet(rankings) : ToSet(r) \cap before = {}
==============================================================================
