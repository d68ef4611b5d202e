---------------------------------- MODULE Corpus ----------------------------------
(***************************************************************************)
(* What kEngram derives from thoughts and keeps beside them: chunks, cut   *)
(* by `kengram chunk apply'; contexts of chunks, written by a language     *)
(* model in `kengram contextual generate'; vectors, sparse vectors and     *)
(* queued jobs; and `kengram ingest-hygiene --apply', which takes away     *)
(* what belongs to thoughts that must not be in the index.  These are      *)
(* operator commands that may overlap, and each statement of theirs        *)
(* commits on its own, but for the chunks of a run, which commit at once.  *)
(***************************************************************************)
EXTENDS Naturals, FiniteSets, Sequences

CONSTANTS
  Thoughts, Words,
  Text,         \* the words of each thought
  Stops,        \* words that end a sentence
  Markers,      \* words that mark evaluation material
  Archived,     \* thoughts of an archive scope
  Params,       \* word limits an operator may ask for
  Answers,      \* contexts the language model may write
  Unfit,        \* those of them that are empty, too long or have a marker
  Appliers,     \* `kengram chunk apply' processes
  Generators,   \* `kengram contextual generate' processes
  Sweepers,     \* `kengram ingest-hygiene --apply' processes
  Budgets,      \* --max-rows
  MaxEntries,   \* bound: rows of queues and indexes at a time
  None, Rejected

\* A chunk is known by its thought and its text (content_fingerprint); its place among the
\* chunks of its run is its chunk_index.
Chunk(t, start, end) == [thought |-> t, text |-> SubSeq(Text[t], start + 1, end)]
AllChunks ==
  UNION {{Chunk(t, i, j) : i, j \in 0..Len(Text[t])} : t \in Thoughts}

ASSUME CorpusAssumption ==
  /\ Text \in [Thoughts -> Seq(Words)] /\ Stops \cup Markers \subseteq Words
  /\ Archived \subseteq Thoughts /\ Unfit \subseteq Answers
  /\ Params \subseteq [least: Nat, target: Nat, max: Nat, overlap: Nat]
  /\ Budgets \subseteq Nat \ {0} /\ MaxEntries \in Nat
  /\ Thoughts \cap AllChunks = {} /\ None # Rejected
  /\ {None, Rejected} \cap (Answers \cup Thoughts \cup AllChunks) = {}

VARIABLES
  retracted,   \* thoughts
  chunks,      \* artifact_chunks
  index,       \* their chunk_index
  contexts,    \* artifact_chunk_contexts: a chunk's text that is ready, Rejected or None
  rows,        \* rows of queues and vector tables
  apply,       \* each chunker's run
  generate,    \* each generator's run
  sweep,       \* each sweeper's run, and what is left of its budget
  status,      \* ingest_hygiene_runs: the row of each sweeper's last run
  contested,   \* history: chunks that two generators had on their lists at once
  due          \* history: what was denied when a run started, and is there still

corpus == <<chunks, index>>
derived == <<retracted, corpus, contexts, rows>>
sweeps == <<sweep, status, due>>
vars == <<derived, apply, generate, contested, sweeps>>

Entry(table, of, text) == [table |-> table, of |-> of, text |-> text]

ThoughtTables == {"pending_embeddings", "pending_tags", "thought_dense", "thought_sparse"}
ChunkTables == {"pending_embeddings", "chunk_dense", "chunk_sparse"}
Entries ==
  [table: ThoughtTables, of: Thoughts, text: {None}]
    \cup [table: ChunkTables, of: AllChunks, text: {None}]
    \cup [table: {"context_dense", "contexts"}, of: AllChunks, text: Answers]

Listed(g) == generate[g].todo

TypeOK ==
  /\ retracted \subseteq Thoughts
  /\ chunks \subseteq AllChunks /\ contested \subseteq AllChunks
  /\ index \in [chunks -> Nat]
  /\ contexts \in [AllChunks -> Answers \cup {None, Rejected}]
  /\ rows \subseteq Entries
  /\ apply \in [Appliers ->
       [pc: {"idle", "parents", "cut", "persist"}, params: Params \cup {None},
        todo: SUBSET Thoughts, at: Thoughts \cup {None}, start: Nat,
        spans: SUBSET (Nat \X Nat), found: SUBSET [chunk: AllChunks, index: Nat]]]
  /\ generate \in [Generators ->
       [pc: {"idle", "ask", "persist", "embed"}, todo: SUBSET AllChunks,
        at: AllChunks \cup {None}, text: Answers \cup {None}, embeds: BOOLEAN]]
  /\ sweep \in [Sweepers -> [step: 0..9, remaining: Nat]]
  /\ status \in [Sweepers -> {"none", "running", "completed"}]
  /\ due \in [Sweepers -> SUBSET Entries]

NotApplying ==
  [pc |-> "idle", params |-> None, todo |-> {}, at |-> None, start |-> 0,
   spans |-> {}, found |-> {}]
NotGenerating ==
  [pc |-> "idle", todo |-> {}, at |-> None, text |-> None, embeds |-> FALSE]

Init ==
  /\ retracted \in SUBSET Thoughts
  /\ chunks = {} /\ contested = {}
  /\ index = [c \in {} |-> 0]
  /\ contexts = [c \in AllChunks |-> None]
  /\ rows = {}
  /\ apply = [a \in Appliers |-> NotApplying]
  /\ generate = [g \in Generators |-> NotGenerating]
  /\ sweep = [h \in Sweepers |-> [step |-> 0, remaining |-> 0]]
  /\ status = [h \in Sweepers |-> "none"]
  /\ due = [h \in Sweepers |-> {}]

HasMarker(text) == \E i \in DOMAIN text : text[i] \in Markers
Marked(t) == HasMarker(Text[t])
ThoughtOf(x) == IF x \in Thoughts THEN x ELSE x.thought

---------------------------------------------------------------------------------
\* Chunks.

ChunkedThoughts == {c.thought : c \in chunks}
Eligible == Thoughts \ (retracted \cup Archived \cup ChunkedThoughts)

Valid(p) ==
  /\ {p.least, p.target, p.max} \subseteq Nat \ {0}
  /\ p.target <= p.max /\ p.overlap < p.target

\* The scope arguments and the excluded ids leave any part of the thoughts.
StartApply(a, p, parents) ==
  /\ apply[a].pc = "idle" /\ Valid(p)
  /\ parents # {} /\ parents \subseteq Eligible
  /\ apply' = [apply EXCEPT ![a] =
       [NotApplying EXCEPT !.pc = "parents", !.params = p, !.todo = parents]]
  /\ UNCHANGED <<derived, generate, contested, sweeps>>

NextParent(a, t) ==
  /\ apply[a].pc = "parents" /\ t \in apply[a].todo
  /\ apply' = [apply EXCEPT ![a] =
       [@ EXCEPT !.todo = apply[a].todo \ {t}, !.at = t, !.start = 0, !.spans = {},
                 !.pc = IF Len(Text[t]) < apply[a].params.least THEN "parents" ELSE "cut"]]
  /\ UNCHANGED <<derived, generate, contested, sweeps>>

\* What is left is short enough to be one chunk.
IsLast(a) ==
  LET remaining == Len(Text[apply[a].at]) - apply[a].start
      p == apply[a].params
  IN remaining <= p.max /\ remaining <= p.target + p.overlap

Least(m, n) == IF m < n THEN m ELSE n
Greatest(m, n) == IF m > n THEN m ELSE n

HardEnd(a) == Least(apply[a].start + apply[a].params.max, Len(Text[apply[a].at]))

\* Mutant: sentences may end anywhere in the chunk.
AnyBoundaries(a) ==
  {e \in apply[a].start + 1..HardEnd(a) : Text[apply[a].at][e] \in Stops}

\* Ends of sentences after two thirds of the target.
Boundaries(a) ==
  LET start == apply[a].start
      words == Least(start + apply[a].params.target, Len(Text[apply[a].at])) - start
      first == Greatest(start + (2 * words) \div 3, start + 1)
  IN {e \in first..HardEnd(a) : Text[apply[a].at][e] \in Stops}

\* The last of them, or the hard end (best_sentence_boundary).
IsEnd(a, e) ==
  \/ e \in Boundaries(a) /\ \A f \in Boundaries(a) : f <= e
  \/ e = HardEnd(a) /\ Boundaries(a) = {}

\* Mutant: a chunk begins after the word that follows the last one.
StartSkipsWord(a, e) == Greatest(e + 1, apply[a].params.overlap) - apply[a].params.overlap

NextStart(a, e) == Greatest(e, apply[a].params.overlap) - apply[a].params.overlap

\* A thought that would be one chunk is left as it is.
Proposed(t, spans) ==
  IF Cardinality(spans) <= 1 THEN {}
  ELSE {[chunk |-> Chunk(t, s[1], s[2]),
         index |-> Cardinality({r \in spans : r[1] < s[1]})] : s \in spans}

\* One turn of the loop of chunk_spans.
Cut(a, e) ==
  LET t == apply[a].at
      spans == apply[a].spans \cup {<<apply[a].start, e>>}
  IN
  /\ apply[a].pc = "cut"
  /\ IF IsLast(a) THEN e = Len(Text[t]) ELSE IsEnd(a, e)
  /\ apply' = [apply EXCEPT ![a] =
       IF e = Len(Text[t])
       THEN [@ EXCEPT !.pc = "parents", !.spans = {},
                      !.found = apply[a].found \cup Proposed(t, spans)]
       ELSE [@ EXCEPT !.start = NextStart(a, e), !.spans = spans]]
  /\ UNCHANGED <<derived, generate, contested, sweeps>>

\* A chunk that is there keeps its row (ON CONFLICT DO NOTHING), and so does the first of
\* those with one text.
Fresh(a) ==
  {f \in apply[a].found :
     f.chunk \notin chunks /\ \A g \in apply[a].found : g.chunk = f.chunk => f.index <= g.index}

\* Chunks of a thought are of one artifact, in which an index has one row.
Clashes(a) ==
  \E f \in Fresh(a), c \in chunks : c.thought = f.chunk.thought /\ index[c] = f.index

Insert(new) ==
  /\ chunks' = chunks \cup {f.chunk : f \in new}
  /\ index' = [c \in chunks' |-> IF c \in chunks THEN index[c]
                                ELSE (CHOOSE f \in new : f.chunk = c).index]

\* Mutant: each chunk commits on its own, and a crash leaves those before the n-th.
PersistSingly(a) ==
  /\ apply[a].pc = "parents" /\ apply[a].todo = {}
  /\ \E n \in 0..Cardinality(apply[a].found) : Insert({f \in Fresh(a) : f.index < n})
  /\ apply' = [apply EXCEPT ![a] = NotApplying]
  /\ UNCHANGED <<retracted, contexts, rows, generate, contested, sweeps>>

\* One transaction: a clash fails it, and the run with it.
Persist(a) ==
  /\ apply[a].pc = "parents" /\ apply[a].todo = {}
  /\ IF Clashes(a) THEN UNCHANGED corpus ELSE Insert(Fresh(a))
  /\ apply' = [apply EXCEPT ![a] = NotApplying]
  /\ UNCHANGED <<retracted, contexts, rows, generate, contested, sweeps>>

ApplierDies(a) ==
  /\ apply[a].pc # "idle"
  /\ apply' = [apply EXCEPT ![a] = NotApplying]
  /\ UNCHANGED <<derived, generate, contested, sweeps>>

---------------------------------------------------------------------------------
\* Contexts.

\* Mutant: a chunk is chosen again when its context is ready.
LivingChunks ==
  {c \in chunks : c.thought \notin retracted /\ ~Marked(c.thought) /\ ~HasMarker(c.text)}

Sources ==
  {c \in chunks : /\ c.thought \notin retracted /\ ~Marked(c.thought) /\ ~HasMarker(c.text)
                  /\ contexts[c] = None}

StartGenerate(g, list, embeds) ==
  /\ generate[g].pc = "idle"
  /\ list # {} /\ list \subseteq Sources
  /\ generate' = [generate EXCEPT ![g] =
       [NotGenerating EXCEPT !.pc = "ask", !.todo = list, !.embeds = embeds]]
  /\ contested' = contested \cup {c \in list : \E r \in Generators : c \in Listed(r)}
  /\ UNCHANGED <<derived, apply, sweeps>>

\* The chunk stays on the list until it is done with.
Ask(g, c, text) ==
  /\ generate[g].pc = "ask" /\ c \in generate[g].todo
  /\ generate' = [generate EXCEPT ![g] = [@ EXCEPT !.pc = "persist", !.at = c, !.text = text]]
  /\ UNCHANGED <<derived, apply, contested, sweeps>>

AskFails(g, c) ==
  /\ generate[g].pc = "ask" /\ c \in generate[g].todo
  /\ generate' = [generate EXCEPT ![g].todo = @ \ {c}]
  /\ UNCHANGED <<derived, apply, contested, sweeps>>

Rejects(c, text) == text \in Unfit \/ Marked(c.thought) \/ HasMarker(c.text)

DoneWith(g, c) ==
  [generate[g] EXCEPT !.pc = "ask", !.todo = generate[g].todo \ {c}, !.at = None, !.text = None]

\* The row that is there, if any, gets the new text.
PersistContext(g) ==
  LET c == generate[g].at  text == generate[g].text IN
  /\ generate[g].pc = "persist" /\ c.thought \notin retracted
  /\ contexts' = [contexts EXCEPT ![c] = IF Rejects(c, text) THEN Rejected ELSE text]
  /\ generate' = [generate EXCEPT ![g] =
       IF ~Rejects(c, text) /\ generate[g].embeds THEN [@ EXCEPT !.pc = "embed"]
       ELSE DoneWith(g, c)]
  /\ UNCHANGED <<retracted, corpus, rows, apply, contested, sweeps>>

IsReady(c) == contexts[c] \in Answers

\* The vector is of the text the run has, not of the row's.
WriteContextVector(g) ==
  LET c == generate[g].at IN
  /\ generate[g].pc = "embed"
  /\ rows' =
       IF IsReady(c) /\ c.thought \notin retracted /\ ~Marked(c.thought) /\ ~HasMarker(c.text)
       THEN {e \in rows : ~(e.table = "context_dense" /\ e.of = c)}
              \cup {Entry("context_dense", c, generate[g].text)}
       ELSE rows
  /\ generate' = [generate EXCEPT ![g] = DoneWith(g, c)]
  /\ UNCHANGED <<retracted, corpus, contexts, apply, contested, sweeps>>

\* Done, a crash, a thought that was retracted, no answer of the embedder.
GeneratorEnds(g) ==
  /\ generate[g].pc # "idle"
  /\ generate' = [generate EXCEPT ![g] = NotGenerating]
  /\ UNCHANGED <<derived, apply, contested, sweeps>>

---------------------------------------------------------------------------------
\* Rows that captures, drains and loaders write; only EnqueueChunk looks at the thought.

Write(e) ==
  /\ Cardinality(rows \cup {e}) <= MaxEntries
  /\ rows' = rows \cup {e}
  /\ UNCHANGED <<retracted, corpus, contexts, apply, generate, contested, sweeps>>

EnqueueEmbedding(t) == Write(Entry("pending_embeddings", t, None))
EnqueueChunk(c) ==
  /\ c.thought \notin retracted \cup Archived /\ ~Marked(c.thought) /\ ~HasMarker(c.text)
  /\ Entry("chunk_dense", c, None) \notin rows
  /\ Write(Entry("pending_embeddings", c, None))
EnqueueTags(t) == Write(Entry("pending_tags", t, None))
InsertDense(x) ==
  Write(Entry(IF x \in Thoughts THEN "thought_dense" ELSE "chunk_dense", x, None))
InsertSparse(x) ==
  Write(Entry(IF x \in Thoughts THEN "thought_sparse" ELSE "chunk_sparse", x, None))

Retract(t) ==
  /\ t \notin retracted
  /\ retracted' = retracted \cup {t}
  /\ UNCHANGED <<corpus, contexts, rows, apply, generate, contested, sweeps>>

---------------------------------------------------------------------------------
\* Hygiene.

Of(table) == {e \in rows : e.table = table}

DeniedThought(t) == t \in retracted \cup Archived \/ Marked(t)
DeniedChunk(c) == DeniedThought(c.thought) \/ HasMarker(c.text)
Denied(x) == IF x \in Thoughts THEN DeniedThought(x) ELSE DeniedChunk(x)

\* Mutant: tag jobs of marked thoughts stay.
DeniedTagJobsUnmarked == {e \in Of("pending_tags") : e.of \in retracted \cup Archived}

\* Mutant: a chunk's vectors go when its context was rejected.
DeniedChunkDenseRejected ==
  {e \in Of("chunk_dense") : DeniedChunk(e.of) \/ contexts[e.of] = Rejected}

DeniedEmbeddingJobs == {e \in Of("pending_embeddings") : Denied(e.of)}
DeniedTagJobs == {e \in Of("pending_tags") : DeniedThought(e.of)}
DeniedThoughtDense == {e \in Of("thought_dense") : DeniedThought(e.of)}
DeniedThoughtSparse == {e \in Of("thought_sparse") : DeniedThought(e.of)}
DeniedChunkDense == {e \in Of("chunk_dense") : DeniedChunk(e.of)}
DeniedChunkSparse == {e \in Of("chunk_sparse") : DeniedChunk(e.of)}
DeniedContextDense ==
  {e \in Of("context_dense") : ~IsReady(e.of) \/ DeniedChunk(e.of)}
DeniedContexts ==
  {Entry("contexts", c, contexts[c]) : c \in {d \in chunks : IsReady(d) /\ DeniedChunk(d)}}

DeniedOf(step) ==
  CASE step = 1 -> DeniedEmbeddingJobs
    [] step = 2 -> DeniedTagJobs
    [] step = 3 -> DeniedThoughtDense
    [] step = 4 -> DeniedThoughtSparse
    [] step = 5 -> DeniedChunkDense
    [] step = 6 -> DeniedChunkSparse
    [] step = 7 -> DeniedContextDense
    [] OTHER -> DeniedContexts

\* Jobs are swept too when they are old or have failed too often, which any of them may be.
Outdated(step) ==
  CASE step = 1 -> Of("pending_embeddings")
    [] step = 2 -> Of("pending_tags")
    [] OTHER -> {}

StartSweep(h, n) ==
  /\ sweep[h].step = 0
  /\ sweep' = [sweep EXCEPT ![h] = [step |-> 1, remaining |-> n]]
  /\ status' = [status EXCEPT ![h] = "running"]
  /\ due' = [due EXCEPT ![h] = {e \in rows : Denied(e.of)} \cup DeniedContexts]
  /\ UNCHANGED <<derived, apply, generate, contested>>

\* The oldest rows, as many as the budget allows: denied ones and outdated ones alike.
SweepTable(h, gone) ==
  LET step == sweep[h].step  n == sweep[h].remaining IN
  /\ step \in 1..7
  /\ gone \subseteq DeniedOf(step) \cup Outdated(step)
  /\ Cardinality(gone) <= n
  /\ DeniedOf(step) \subseteq gone \/ Cardinality(gone) = n
  /\ rows' = rows \ gone
  /\ due' = [k \in Sweepers |-> due[k] \ gone]
  /\ sweep' = [sweep EXCEPT ![h] = [step |-> step + 1, remaining |-> n - Cardinality(gone)]]
  /\ UNCHANGED <<retracted, corpus, contexts, status, apply, generate, contested>>

\* Nothing to quarantine, or no budget for it.
NothingToQuarantine(h) ==
  /\ sweep[h].step = 8
  /\ DeniedContexts = {} \/ sweep[h].remaining = 0
  /\ sweep' = [sweep EXCEPT ![h].step = 9]
  /\ UNCHANGED <<derived, apply, generate, contested, status, due>>

\* The audit row of a quarantine violates the CHECK of its table, and the run ends there.
QuarantineFails(h) ==
  /\ sweep[h].step = 8
  /\ DeniedContexts # {} /\ sweep[h].remaining > 0
  /\ sweep' = [sweep EXCEPT ![h].step = 0]
  /\ UNCHANGED <<derived, apply, generate, contested, status, due>>

FinishSweep(h) ==
  /\ sweep[h].step = 9
  /\ sweep' = [sweep EXCEPT ![h].step = 0]
  /\ status' = [status EXCEPT ![h] = "completed"]
  /\ UNCHANGED <<derived, apply, generate, contested, due>>

SweeperDies(h) ==
  /\ sweep[h].step # 0
  /\ sweep' = [sweep EXCEPT ![h].step = 0]
  /\ UNCHANGED <<derived, apply, generate, contested, status, due>>

---------------------------------------------------------------------------------
\* What searches find.

Live(t) == t \notin retracted /\ ~Marked(t)
FoundThoughtDense == {e \in Of("thought_dense") : Live(e.of)}
FoundThoughtSparse == {e \in Of("thought_sparse") : Live(e.of)}
FoundChunkDense == {e \in Of("chunk_dense") : Live(e.of.thought) /\ ~HasMarker(e.of.text)}
FoundChunkSparse == {e \in Of("chunk_sparse") : Live(e.of.thought) /\ ~HasMarker(e.of.text)}
FoundContextDense ==
  {e \in Of("context_dense") :
     IsReady(e.of) /\ Live(e.of.thought) /\ ~HasMarker(e.of.text)}
Found ==
  FoundThoughtDense \cup FoundThoughtSparse \cup FoundChunkDense \cup FoundChunkSparse
    \cup FoundContextDense

---------------------------------------------------------------------------------

ApplyStep(a) ==
  \/ \E t \in Thoughts : NextParent(a, t)
  \/ apply[a].pc = "cut" /\ \E e \in 0..Len(Text[apply[a].at]) : Cut(a, e)
  \/ Persist(a)

Apply(a) ==
  \/ \E p \in Params, parents \in SUBSET Thoughts : StartApply(a, p, parents)
  \/ ApplyStep(a) \/ ApplierDies(a)

Generate(g) ==
  \/ \E list \in SUBSET chunks, embeds \in BOOLEAN : StartGenerate(g, list, embeds)
  \/ \E c \in chunks : AskFails(g, c) \/ \E text \in Answers : Ask(g, c, text)
  \/ PersistContext(g) \/ WriteContextVector(g) \/ GeneratorEnds(g)

Sweep(h) ==
  \/ \E n \in Budgets : StartSweep(h, n)
  \/ \E gone \in SUBSET rows : SweepTable(h, gone)
  \/ NothingToQuarantine(h) \/ QuarantineFails(h) \/ FinishSweep(h) \/ SweeperDies(h)

Others ==
  \/ \E t \in Thoughts : EnqueueEmbedding(t) \/ EnqueueTags(t) \/ Retract(t)
  \/ \E c \in chunks : EnqueueChunk(c)
  \/ \E x \in Thoughts \cup chunks : InsertDense(x) \/ InsertSparse(x)

Next ==
  \/ \E a \in Appliers : Apply(a)
  \/ \E g \in Generators : Generate(g)
  \/ \E h \in Sweepers : Sweep(h)
  \/ Others

Spec == Init /\ [][Next]_vars

\* A run goes on until it ends or dies; nobody starts one again.
FairSpec == Spec /\ \A a \in Appliers : WF_vars(ApplyStep(a))

---------------------------------------------------------------------------------

\* No word of a chunked thought is in none of its chunks, whatever the limits and the ends
\* of sentences, and when runs that cut it differently overlap: the chunks of the later one
\* are kept as a whole or not at all.  A part of them would stay one, for a thought with a
\* chunk is not chosen again (chunk_spans, persist_chunks).
ChunksCoverTheirThought ==
  \A t \in ChunkedThoughts : \A i \in DOMAIN Text[t] :
    \E c \in chunks : c.thought = t /\ \E j \in DOMAIN c.text : c.text[j] = Text[t][i]

\* A ready context's vector is of the text that is there, unless two runs of the generator
\* had the chunk on their lists at once: then the row may have the text of one of them and
\* the vector of the other (insert_artifact_chunk_context overwrites the row).
VectorsAreOfTheirText ==
  \A e \in Of("context_dense") :
    IsReady(e.of) => e.text = contexts[e.of] \/ e.of \in contested

\* A run that completes with budget left has taken every row that was denied when it
\* started, in every table; other runs, drains and generators go on meanwhile
\* (run_ingest_hygiene).
CompletedSweepsWereThorough ==
  \A h \in Sweepers :
    status[h] = "completed" /\ sweep[h].remaining > 0 => due[h] = {}

\* Hygiene takes no row that a search would have found, but for archived thoughts, which
\* searches find and hygiene takes out of the index.
SweepsRemoveNothingFound ==
  [][\A e \in rows \ rows' :
       \/ \E f \in rows' : f.table = e.table /\ f.of = e.of
       \/ e \notin Found \/ ThoughtOf(e.of) \in Archived]_vars

\* Two thirds of the target are more than the overlap, so each chunk begins after the last.
Progressive(p) == (2 * p.target) \div 3 > p.overlap

\* Cutting a thought comes to an end where the limits let it; the check of the limits is
\* weaker than this condition (validate_chunk_params), and without it the loop may turn for ever.
CuttingEnds ==
  \A a \in Appliers :
    (apply[a].pc = "cut" /\ Progressive(apply[a].params)) ~> (apply[a].pc # "cut")
=================================================================================
