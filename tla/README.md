# kEngram in TLA+

kEngram is a memory server: agents capture *thoughts* into PostgreSQL through MCP tools, an
event pipeline (Argus) writes session records into the same tables, background workers tag and
embed what was captured, operator commands chunk, contextualise, supersede and sweep it, and
agents link, retract and search it. This directory holds TLA+ models of the parts that are hard
to test, TLC instances that check them, and TLAPS proofs: every safety invariant, action property
and refinement of the passing runs is also a theorem. `src/` below is the repository.

Reading order: `RelationOps`, `RelationService`, `RelationLedger` and `RelationLedgerProofs`;
`TagDrain` and `TagDrainProofs`; `SourceLedger`, `CaptureGate`, `Supersession`, then
`CaptureGateProofs` and `SourceEventProofs`; `EmbedQueue` and `Corpus` with their proofs; `Search`,
`AnnProjection`, `SearchedCopy` and `SearchProofs`; `IngestStream`, `SessionProducer`,
`IngestConsumer`, `Ingest` (proved in `SourceEventProofs`); `TelegramProducer` and
`TelegramProofs`.
A run is `tlc -workers 2 -config RelationLedger_ledger.cfg
MCRelationLedger.tla`, and likewise for the other configurations, whose names begin with the
module's; proofs are checked by `tlapm RelationLedgerProofs.tla` and so on.

## 1. Inventory

All shared state of the server is in PostgreSQL. Processes meet only there: the MCP server
(`kengram serve`, many calls at once), the worker (`kengram worker`, an embed loop and a tag
loop), operator commands (`kengram tag`, `embed-backfill`, `chunk`, `contextual`,
`ingest-hygiene`, supersession, backups), and the Argus consumer, which calls SQL functions
through `psql`. Isolation is READ COMMITTED everywhere. The Argus producers are programs of
their own, with files for state, that meet the consumer over NATS JetStream.

| Component | State | Operations | Met through | What is hard |
|---|---|---|---|---|
| Relation mutations (`migrations/0033`, `mcp/src/link.rs`) | `thought_links`, `thought_relation_request_events` | `mutate_thought_relations_serialized`: create, delete, replace_tagger_set under a replay key | MCP link/unlink, tag drain, capture | replay keys, row locks taken one at a time, a cycle walk that reads other sessions' commits, crashes between statements and around COMMIT |
| Retraction (`migrations/0034`, `mcp/src/retract.rs`) | `thoughts.retracted_at` | `retract_thought_serialized` | MCP | races with links: each checks what the other writes |
| Tag queue (`mcp/src/drain.rs` 230–560, `storage/src/lib.rs` 4320–4571, `cli/src/main.rs`) | `pending_tags`, `thoughts.tags` | fetch, tag, write tags, publish relations, complete, count an attempt, give up; `kengram tag` | relation ledger, tagger over HTTP | no claim or lock, two transactions per answer, a non-deterministic tagger, failures of the failure path |
| Capture and the corpus-hygiene gate (`migrations/0030`, `storage/src/corpus_hygiene.rs`, `mcp/src/capture.rs`, `server.rs`) | `thoughts`, `thought_embeddings_bge_m3`, `pending_*`, `argus_source_events`, `thought_ingest_gate_events` | `capture_thought_gated`; the deadline and `recover_after_deadline`; the fingerprint race retry | MCP, Argus consumer | two unique keys and an advisory lock, a deadline racing a COMMIT, retries with the same key |
| Embed queue (`mcp/src/drain.rs` 45–228, `mcp/src/backfill.rs`, `storage/src/lib.rs` 2780–3035) | `pending_embeddings`, vectors | claim, read, embed, insert, mark; heal; chunk enqueue; sweeps | capture, retraction, embedder over HTTP | a claim that ends before the work, rival processes on one row, denied targets while the embedder is called, head-of-line rows |
| Chunks, contexts, ingest hygiene (`cli/src/chunk.rs`, `cli/src/contextual.rs`, `storage/src/lib.rs` 1274–1690, 3461–4318) | `artifact_chunks`, `artifact_chunk_contexts`, vector and queue tables, `ingest_hygiene_runs` | `chunk apply` and enqueue, `contextual generate`, `ingest-hygiene --apply` | embed queue, search | overlapping operator runs, word arithmetic, sweeps that fail half-way, predicates written twice |
| Source-event supersession (`migrations/0036`, `storage/src/supersession.rs`) | `argus_source_events`, supersession receipts | compare-and-set of the expected event, replay of a receipt | operators | a call sent again after another one took its place; checks made at different moments |
| Argus consumer and session producer (`contrib/argus`) | offset file, stream position, dead-letter files | publish, split, save offsets; fetch, capture, ack, nak, term | NATS, gate | redelivery, runs that die, sorting errors into transient and permanent ones |
| Direct Telegram producer (`contrib/argus/bin/argus-telegram-direct-nats-producer.js`) | seen ledger, offset file, poison counts, quarantine | window, prepare, publish, split, count, quarantine | NATS | three files written one at a time, windows that change while their failures are counted |
| Search (`mcp/src/search.rs`, `core/src/search.rs`, `storage/src/lib.rs`) | none | dense, text, sparse, chunk, context, routing and expansion legs, fusion, graph neighbours, tag filter, pool, reranker | everything, read-only | legs that fail one by one, a filter written again in each statement, retractions between legs, capacity of the pool |
| ANN projections (`migrations/0013`, `storage/src/lib.rs`, `cli/src/main.rs`) | `embedding_ann_projections`, `embedding_ann_projection_coverage`, the HNSW index, an advisory lock | a projection with every vector; reconcile, count and build at the start of server and worker; a count now and then; the search that falls back on the vectors | embed queue, search | a count that is old when it is believed, builds that are broken off, two starts in each other's way, a binary from before |
| Relation reads (`mcp/src/relate.rs`) | none | projections of `thought_links` | — | — |
| Input checks, core types, finalising (`mcp/src/validate.rs`, `normalize.rs`, `finalize.rs`, `core/src`) | none | parse, check | every call | nothing that a unit test does not reach |
| Embedders, rerankers, taggers (`embed`, `extract`, `tagger-*`) | none | HTTP calls with timeouts | drains, search | their answers are a choice in the models |
| Command line, backups, scripts (`cli/src`, `*.sh`) | files | I/O | database | — |

What makes each modelled component correct:

- **Relations**: a request takes effect at once or not at all, at most once per replay key, and
  every duplicate is told the recorded result; a new edge joins thoughts that are fit for it when
  it commits; the head of a live replaces/refines chain is not retracted; chains do not return to
  where they started; transactions do not wait for each other in a circle.
- **Tag queue**: a job leaves the queue only when tags and relations are published or the tagger
  failed; tags and edges come from one answer; the attempt cap bounds tagger calls; every job
  leaves in the end.
- **Capture**: a receipt names rows that are there and belong to the request; callers of one
  source event are told of one thought; a retry conflicts with nothing of its own; of two near
  texts of a family one is let in; no active thought is left without vector and job, unless hygiene
  has given the job up; races end.
- **Embed queue**: no target loses both its row and its vector; a denied target is not embedded
  again and again; what is owed arrives.
- **Chunks, contexts, hygiene**: no word of a chunked thought is in none of its chunks; a vector
  is of the text beside it; a sweep that ends was thorough, and takes nothing a search finds.
- **Supersession**: one receipt per request, replayed and never applied twice; what was replaced
  never comes back; what lands is what was approved.
- **Consumer and producers**: offsets and acks never pass what nobody has a trace of; one payload
  per `source_ref`; every readable line ends somewhere.
- **Search**: sparse, contextual and graph hits do not push out what was found without them before
  the reranker saw it;
  no leg, link or chunk brings back what is marked, out of scope or was retracted before.
- **ANN projections**: a search of the copy finds every vector that was there when it began;
  however starts collide, server and worker serve in the end.

Cross-component state: a capture creates the rows both drains work from; the tag drain is a
client of the relation ledger under the job's replay key; a retraction turns a thought into one
the relation ledger refuses, the tag drain postpones and the embed drain skips; deliveries and
supersessions share the table of source events; the consumer is a client of the gate; hygiene
deletes from the queues and vectors that drains fill and searches read.

## 2. Modules

| Module | Stands for | Uses |
|---|---|---|
| `RelationOps` | the operations of a request as operators on the edge table: endpoints, active checks, what raises, results | — |
| `RelationService` | what the relation functions promise: one atomic step per request, retraction or new thought | `RelationOps` |
| `RelationLedger` | the same as transactions: claim key, lock rows, apply, commit, answer, crash | `RelationOps` |
| `TagDrain` | the tag queue, its workers and `kengram tag`, over the atomic service | `RelationService` |
| `SourceLedger` | what the tables of source events promise: a payload is bound to one thought, the first delivery counts, others replay or conflict, a supersession moves the binding on | — |
| `CaptureGate` | the gated capture, statement by statement, with deadline, probe and retries | refines `SourceLedger` |
| `Supersession` | `supersede_argus_source_event`, statement by statement, among deliveries, resolutions, retractions | refines `SourceLedger` |
| `EmbedQueue` | the embed queue, workers, backfills, chunking and sweeps | — |
| `Corpus` | chunkers, context generators and hygiene sweeps over one store | — |
| `Search` | one search request, leg by leg, to its answer | — |
| `AnnProjection` | the indexed copy of long vectors: writes, starts, counts, index builds, the search's choice | — |
| `SearchedCopy` | a request and the copy side by side | `Search`, `AnnProjection` |
| `IngestStream` | messages of the JetStream consumer: published, delivered, acked, in doubt | — |
| `SessionProducer` | the session producer's runs over a growing file | `IngestStream` |
| `IngestConsumer` | the consumer's runs: two lanes, the gate, dead-letter files, acks | `IngestStream` |
| `Ingest` | producer, stream and consumer together | the three above |
| `TelegramProducer` | the direct Telegram producer with its state files | — |
| `MC...` | instances of these for TLC, one for each | the module of the name |
| `RelationLedgerProofs`, `TagDrainProofs`, `CaptureGateProofs`, `EmbedQueueProofs`, `CorpusProofs`, `SearchProofs`, `TelegramProofs` | theorems and proofs | the module of the name, TLAPS |
| `SourceEventProofs` | theorems and proofs about source events from the producer's file to the tables | `Supersession`, `Ingest`, TLAPS |

`TagDrain` composes the drain with `RelationService` rather than with `RelationLedger`: that the
transactions implement the service is checked and proved once (`ImplementsService`), and the drain
then sees each call as one step, or as one step whose answer is lost. Likewise `IngestConsumer`
sees the gate as what `SourceLedger` promises, which `CaptureGate` and `Supersession` are shown to
implement (`ImplementsLedger`). `SearchedCopy` shows a request and the copy independently: they
share no state but the vectors, and what the copy yields is for `Search` any answer of a leg.

No module declares a RECURSIVE operator. Where a definition recurs, it is a recursive function on
`0..n` (`Distinct`, `Only`, `Sum`, `Pending`, `Applied`), which the provers can unfold one step at a
time.

Operators whose comment begins with "Mutant:" are plausible bugs of the code. No specification
uses them; PROJECT.json pairs each with the definition it replaces and the property that must
then fail.

### RelationOps, RelationService, RelationLedger

`edges` maps every possible edge to `never`, to the source of its live row (`agent` or `tagger`),
or to a deleted state: the partial unique index keeps one live row per edge (0010:23–33).
`ledger` is `thought_relation_request_events`. `r.ops` is the canonical sequence of operations,
sorted as the caller and 0033:206–217 sort it; `repeated` stands for a tagger set that names an
edge twice, or a malformed target, which raises. In `RelationLedger` a session goes
`claim → lock → apply → commit → answer` for a mutation and
`retract_lock → retract_decide → retract_commit` for a retraction. `draft` holds uncommitted
edge writes; `View(s)` is what a statement of `s` reads. A session that inserts a key another
open transaction has inserted waits (`Claimed`); a row lock is waited for (`RowFree`), and rows
are taken in id order, so thoughts are numbers. `Crash` rolls an open transaction back and, after
the commit, loses only the answer. Notes and errata of edges, audit columns and the JSON forms
are left out. A capture's own relation mutation runs inside the capture's transaction
(0030:1268–1289); in `RelationLedger` such a request is one that is sent after the thought
exists, and in `CaptureGate` it is represented by whether it raises (`IntentsRefused`).

### TagDrain

`batch` holds the jobs as they were when fetched: `fetch_pending_tag_jobs` is a plain SELECT
(lib.rs:4436, although DESIGN.md:241 describes FOR UPDATE SKIP LOCKED). Each of tag, write tags,
relate, complete and count-an-attempt is a step of its own, each may fail (`Fault`), and a failed
statement may have taken effect. The tagger is external: `EmissionsOf` a thought is a set of
answers. A worker's relation request is keyed by the job, so a retry with another answer replays
or conflicts; `kengram tag` (`Runs`) draws a new key. Agents link, unlink and retract meanwhile.
Which processes are there, which thoughts are retracted already and how many faults are spent at
the start is for `StartWith`: `Init` allows any of it with a worker, the instances take their share.
Left out: `ingest-hygiene`'s deletion of tag jobs, an operator command that may drop a live job
(it is in `Corpus`).

### SourceLedger, CaptureGate, Supersession

`SourceLedger` has a row per source event (`missing`, or bound with a status), the set of
bindings there ever were, and what deliveries were told. Deliver, conflict, resolve and supersede
are its steps. A binding that a supersession replaced does not come back.

In `CaptureGate` a call is a transaction (`pc`) and a caller (`client`): after the deadline
(server.rs:659) they go separate ways. The caller probes the ledgers; the transaction rolls back
unless its COMMIT had been sent, in which case it lands or not. `event` and `gate` are
`argus_source_events` and `thought_ingest_gate_events`. Waiting for an uncommitted source event
row (`HoldsSource`), for a unique index entry (`RivalInserts`) and trying the family's advisory
lock (`FamilyBusy`) are external, as PostgreSQL does them. Near texts are a relation on contents
(`Near`), and `Safe` says for which pairs atoms, polarity and novelty allow a semantic duplicate;
the comparison window in days is not kept. The gate's mode is `enforce`. The Argus consumer calls
the function directly, may bring a vector, and sorts errors into nak and term. What becomes of a
thought is in `Afterwards`, in as much detail as captures need: a retraction; a drain that inserts
its vector, whatever became of the thought meanwhile (drain.rs:198–228); its job, which goes when the
vector is there, or with no vector when the thought is retracted (drain.rs:148–166, or
`ingest-hygiene`); hygiene's deletion of jobs that keep failing (`givenUp` is history) and of vectors
of retracted thoughts. `Hygiene` turns denials and sweeps on. Of the reasons to deny a thought only
retraction, which may come at any time, is kept; one archived or marked from the start is not.

In `Supersession` each call is one transaction: it locks the request id, the event row and the old
thought, checks each, captures the new text, retracts the old thought, links the two, moves the
event and writes its receipt; any check may refuse, and PostgreSQL may abort it (`Abort`, which
also stands for its deadlock detector). Deliveries of any payload, resolutions, retractions,
unlinks and new texts are steps of others. That the new text is the rendering of the new payload
(`r.content = TextOf[r.hash]` in `SupersessionAssumption`) is the operator's doing: the function
does not compare the two.

### EmbedQueue

`queue` is `pending_embeddings`, ids in the order of `enqueued_at`. `Claim` and `CommitClaim`
are the one UPDATE of `claim_pending`, split because its row locks make another claim skip rows
while it is open, and let them go when it commits, before anything is done with the rows. Then a
process goes `read → embed → mark`, or `fail`, row by row through `batch`. Only the worker's drain
asks whether the target is denied (`Denies`); `embed-backfill` uses the drain without the fence
(drain.rs:45–51). A row whose model is not the configured one always fails. `SweepRows` and
`SweepVectors` are `ingest-hygiene`: any choice of the rows it may take, since it has a limit and
its idea of "old" is a setting. Of the reasons to deny a target only retraction changes while the
system runs, so it is the one kept. `owed` and `late` are history.

### Corpus

A text is a sequence of words; a chunk is a part of it, known by thought and text as the content
fingerprint knows it. `apply` is a run of `chunk apply`: it picks its thoughts, cuts one after
another, a turn of the loop of `chunk_spans` at a time (`Cut`, with the sentence boundary search
as `Boundaries`), and inserts what it found in one transaction: a chunk whose text is there keeps
its row, and one whose place (`index`, the `chunk_index` in the thought's artifact) is taken by another
text fails the transaction, and with it the run (`Clashes`). `generate` is a run of `contextual generate`: a
list of chunks without a context, then ask, persist, embed for each. `sweep` is a run of
`ingest-hygiene --apply`: eight steps over as many tables with one budget; the eighth violates a
CHECK when it has something to do (below). Each statement commits on its own. `rows` are the rows
of queues and vector tables, which captures, drains and loaders write. The `Found…` operators are
the predicates of the searches, the `Denied…` ones those of hygiene. `contested` and `due` are
history. Only one configuration of the generator is modelled, and the dense tables of the two
models are one.

### Search and AnnProjection

`flags` is what request and configuration turn on, and decides the list of `Legs`. A leg is one
statement or a group that fails together: which rows it reads (`rows`), whether it needs the
query's embedding (`needs`), whether its failure is the request's (`hard`: the sparse legs), and
what its hits add to the capacity of the pool (`adds`). What it ranks is a choice among all
rankings, up to `TopK`, of the rows that match and that its own filter lets through (`OfThoughts`,
`OfChunks`): retraction, scope and markers are asked for in each statement anew, and a thought may
be retracted between two of them (`Retract`). A chunk leg reads `Spread` times `TopK` chunks and
keeps the best of each parent. `rrf_fuse` is `Score` with the constant 60 of the code, as
integers; `recency_boost` has two ages, one half-life apart. `Neighbours` follows the live links of
the first hits; `Rerank` gets the first `EffectivePool` hits and chooses; without it the fused
order is the answer. Batches of the reranker, the boost of exact identifiers and the texts of
expansions are left out.

In `AnnProjection` the state is `raw` (vectors), `projected` (their copies), the coverage row, the
index, the advisory lock, and where each process is in its start: `reconcile → count → write →
lock → check → create → building → waiting → recheck → serving`. `RecordCoverage` writes what was
counted a statement earlier. `BuildWaits` takes down whose statements `CREATE INDEX CONCURRENTLY`
has to wait for; another process that waits for the advisory lock is one of them, which is the
deadlock that PostgreSQL ends (`BuildDeadlocks`). A broken-off build leaves an invalid index.
`InsertOld` is a write by a binary from before the copy. The search reads the row
(`ReadCoverage`), looks for gaps in what is asked for (`LookForGaps`), then queries the copy or the
vectors, in three statements; `asked` and `found` are history.

### Ingest and TelegramProducer

`SessionProducer` reads complete lines of a growing file. A file without an entry in the state file
is passed by (`Seed`: the offset is its size; `seeded` is history) or, with `--backfill`, read from its
start; a run that dies before it saves leaves it without an entry. The reset of the offset of a file
that was truncated (line 684) is left out. A read is a window, a *set* of lines with
a first and a last, `todo` the windows left of it in ascending order. A window with a line the
summariser cannot use is split (`LowerHalf`) until single lines are left, which are published or
rejected into a dead-letter file; offsets are saved piece by piece; a run may die anywhere.
`IngestStream` has a message's number of deliveries and whether it is open, in doubt, acked or
termed. The consumer's run fetches a `batch` of each lane, takes the oldest first (`Msg`), asks the
gate, and answers; a run that dies leaves its batch to redelivery and, after `MaxDeliver`, to
nobody. `bound` is what the gate has bound; a statement that outlives its run lands or vanishes
at once (its 400 ms statement timeout against the 60 s between runs). `Ingest` puts the three
together; its names begin with `Ingest` so that it can be extended together with `Supersession`.

`TelegramProducer` has a row per line of the capture file, with its chat and source time. A read's
windows are grouped by chat, the chats in the order of their first records, the records of a chat
in the order of their times, those without a usable one last, cut into pieces of `MaxRecords`
(`WindowsOf`, a constant function of where the read begins and ends, from `OfKind`, `Sorted` and
`Chunks`). Rows are known by their numbers, which also stand for message ids where times are the same.
The file begins where the producer does (a seed file may name a first offset); dry runs are left
out. An envelope, of the rows its window had then, is kept in the seen ledger as `prepared` before it is
published, and a run that finds it there publishes it as it is (`Resume`). The seen ledger, the offset and the poison counts are separate files, written one
at a time; the attempt count and the quarantine record of a window are written in one step.

## 3. Runs

Every run finishes within three minutes with two TLC workers. Type invariants are left to the
proofs, which state them all. `CHECK_DEADLOCK FALSE` is in those
configurations whose system may stop: all requests are sent and answered, all queues are empty.
`Ingest`,
`TelegramProducer` and `Supersession` do not need it.

| Run | Instance | Shows | States |
|---|---|---|---|
| `ledger` | chosen at the start: two sessions with a two-operation request, another intent under its key, an unlink, a re-tag and a retraction on 2 thoughts and a url, up to 5 sends; or three sessions with the three links of a triangle; crashes anywhere, fairness | a chain's head stays active; a key executes once and duplicates are told its result; edges join fit thoughts; no cycle of two or three; the transactions implement `RelationService`; every transaction ends | 158 k |
| `square` | 4 links that would close a square | **violated**: two pairs of disjoint links close a chain of four | |
| `drain` | chosen at the start: one worker with 2 thoughts; or, with 1 thought and one fault less, a worker and a second worker or `kengram tag`; a tagger with several answers, agents that link and unlink, a retraction, batch 2, cap 2, 2 faults, fairness | jobs end published or given up; tags agree with edges; failed calls bounded; one answer's edges published; an agent's rows survive; jobs leave, but for refused sets | 297 k |
| `keyed` | 2 clients, 2 calls each, one source event, two texts, two payload hashes, intents | receipts are durable; retries do not conflict; captures implement `SourceLedger` | 1.95 M |
| `crossed` | 2 clients, 1 call each, requests over 2 source events, 2 near texts, one family, with and without vector, drains, retractions and hygiene, fairness | a race needs one retry; one of two near texts; a vector or a job for every active thought that hygiene has not given up; transactions end | 191 k |
| `embed` | 1 worker, 1 backfill, a thought and its chunk, rows for the active and for another model, batch 2, limit 2, cap 2, 3 rows ever, 1 fault, fairness | nothing lost; late vectors bounded; what is owed arrives | 1.25 M |
| `supersede` | 2 operators, 2 calls each, of three possible requests, 2 source events, 3 payloads | one receipt per request; superseded for good; applied as approved; supersessions and deliveries implement `SourceLedger` | 886 k |
| `ingest` | a file of 2 lines, one of them bad, seeded or backfilled when first seen, reads of up to 3 lines, a message of the other lane, up to 3 messages, batch 2, 2 deliveries, 2 faults, fairness | offsets and acks pass only what left a trace; every readable line ends, but for those passed with a new file | 1.12 M |
| `telegram` | 4 rows: an invalid one between the records of a chat, whose last one is late; reads of up to 4 rows, windows of 3, 2 attempts, splits, 1 crash, fairness | the offset stays behind outcomes, but for invalid rows and late records; one payload per `source_ref`; every record settles | 956 k |
| `untimed` | 3 rows of one chat, one without a usable time, windows of 3, 2 attempts | **violated**: a window is skipped for another one's quarantine | |
| `search` | chosen at the start: a request over 4 thoughts (one marked and out of scope, one that may be retracted) and 5 chunks of two of them, seven sets of flags, 2 hits a leg, a pool of 1, limit 2; or a server and a worker, 2 vectors, one of an old binary, 2 faults, fairness | plain hits keep their place and answers are whole; answers were visible; a search of the copy finds what was there; starts succeed | 676 k |
| `corpus` | chosen at the start: two chunkers with four sets of limits on a 7-word, a marked and an archived thought; two generators on the halves of a thought; a generator and a sweeper with budgets 1 and 2 while rows are written | chunks cover; vectors are of their texts; sweeps are thorough and take nothing found; cutting ends | 292 k |

Why the bounds are enough for the questions asked:

- A conflict in the ledger needs two transactions; a triangle needs three links and no more than
  three sessions; two attempts of a request give every overlap of a duplicate with its original
  (before its claim, while it is open, after its commit, after its crash). Sessions are
  interchangeable, hence the symmetry in the runs that check no liveness.
- Two faults let a failure hit the failure path (the lost count of an attempt, the lost
  dequeue). Batch 2 with two thoughts makes a batch stale while it is worked on.
- Two calls of two clients overlap a call with its own retry and with a rival's. One call of
  each client is enough for races at the unique index and at the family lock, which are between
  two transactions.
- One worker and one backfill are the two processes an overlap needs; three rows allow a row, its
  successor under another id after a sweep, and a row of another model.
- Two operators and two calls each give a retry during and after the first call, and a rival
  between them; three payloads let a replaced payload be delivered again.
- Two faults let a run die twice, so that the last delivery is spent. Two lines, one of them bad,
  make a window that has to be split, and one line of each kind that reads alone; the second line
  may arrive before, between and after reads.
- Of three records of a chat the late one sorts between the others: the window of the first two and
  the window of all three have one `source_ref`. The invalid row between them is the one that moves
  the offset. A second chat would give windows of its own, which share nothing with those of the first
  but the offset; the proofs have any number of them.
- Of the search legs each kind is on in one of the seven flag sets, alone or with the graph; with a
  pool of one any hit that is added without capacity evicts one. Two processes are what it takes
  to collide at the advisory lock; a third would only wait too.
- Seven words and a chunk of three to five give two or three chunks that overlap; a sweep with a
  budget of one runs out in every step.
- The bounds are the instances', not the proofs': what section 4 lists holds for every value of
  the constants.

`MaxAttempts`, `MaxCalls`, `MaxFaults`, `MaxCrashes`, `MaxOld`, `MaxMessages`, `MaxEntries`, the
`MaxRows` of `EmbedQueue` and `MayRetract` bound what the environment does. `AttemptCap`,
`MaxTagAttempts`, `MaxDeliver`, `PoisonAttempts`, `MaxLines` and the `MaxRows` of `TelegramProducer`
are limits of the code itself; beyond them the models count no further, as no comparison can tell
more.

### Fairness

- `RelationLedger`, `CaptureGate`: weak fairness of what the database does next for a
  transaction. A statement that can run is run; a lock wait ends when the holder ends, and in
  these models every wait is a guard. Clients, crashes, deadlines and lost connections get none.
- `TagDrain`, `EmbedQueue`: weak fairness of each worker's next step. Its loop is a ticker that
  fires again after every tick (main.rs:861–967), a tick awaits what it started, and calls to
  tagger and embedder end by their timeouts. Operator commands, agents and captures get none; a
  backfill only for the end of a claim it sent, which is one statement.
- `Ingest`, `TelegramProducer`: weak fairness of the producers' and the consumer's runs, which
  launchd starts again and again, and of JetStream's redelivery of each message that is due. New
  lines, faults and crashes get none.
- `Corpus`: weak fairness of a chunker's next step: a run goes on until it ends or dies. Nobody
  is made to start one.
- `AnnProjection`: weak fairness of each process's next step and of its start: a server or worker
  that ended is started again (`Restart=on-failure` of the units, `unless-stopped` of the compose
  file). Writes, searches, crashes and timeouts get none.
- `Supersession` and the request of `Search` check safety only and assume none.
- Faults are bounded, so "in the end" means after the last of them.

`JobsLeave` and `VectorsArrive` name their exceptions, and each is a hazard of the code: a tag
job whose possible answers the ledger refuses stays, a row for a model nobody embeds with stays,
and as many such rows as a batch holds, older than the rest, starve the rest, since both queues
are read oldest first and a failed row keeps its place. `StartsSucceed` excepts an index that a
broken-off build has left and nobody drops. `CuttingEnds` names the condition on the
limits that the code does not check.

### Disagreements met

The two violation runs are the findings of PROJECT.json, each with the line it contradicts: the
cycle check that two disjoint links pass together, and the Telegram window that is skipped for
another one's quarantine. Other points seen while modelling, with no run of their own:

*Relations and tags*

- `link_thoughts` on an edge the tagger made returns `already_live` and the row stays the
  tagger's, so the next re-tag deletes it, though README.md:249 says that agent edges are
  untouched. `RetagKeepsAgentRows` holds of rows an agent made.
- DESIGN.md:380 says that a tag job is never failed by a bad relation; a refused relation set
  (drain.rs:430) keeps the job in the queue for ever.
- drain.rs:453 says that a re-run after a failed dequeue is an "idempotent overwrite". When the
  tagger answers differently, the tags are overwritten while the new relation set conflicts under
  the job's key: the job stays in the queue until an answer agrees with the first one.

*Captures and the consumer*

- The second fingerprint lookup (0030:1105–1120) lacks the `exact_content_requires_adjudication`
  of the first: a capture with intents that loses a race is answered with the existing thought.
- A capture recovered after its deadline, sent under a source event that an earlier call had
  landed, is reported `stored` with no gate event (the probe asks for its own correlation id,
  capture.rs:594), although capture.rs:446 promises not to.
- The consumer takes the unique violation of a fingerprint race (23505) for a permanent error
  (consumer 366–367): a valid record is terminated and left in the dead-letter file.
- A full batch of 100 with a slow gate can outlast the 45 s watchdog; the deliveries of unhandled
  batch-mates are spent by runs that die, and after `max_deliver` they vanish without a row
  (the `deaths` clause of `NothingVanishes`).

*Supersession*

- A superseded event cannot be superseded again until its `replaces` link is unlinked
  (`supersession_retract_failed`); with two events bound to one thought, superseding one makes
  the other's supersession fail for ever (`old_thought_unavailable`).
- The comment of 0035 calls `resolved` terminal; 0030:996 puts a resolved event back to
  `conflict` on a conflicting redelivery.
- A replay of a delivery after a supersession answers the new thought with the old
  `gate_event_id`.
- A supersession takes the old thought's row and then the new text's index entry, a keyed capture
  with intents the other way round: they can deadlock, and PostgreSQL's detector ends one.
- 23505 in the inner capture block is not caught (only ZSD01), so the whole call errors.

*Producers*

- Session producer: what a file holds when it is first seen is passed without a row, unless the run
  is a backfill; a crash before its offset file is written has the lines summarised again, to
  another payload or in a larger window under an overlapping `source_ref`; a line longer than
  `maxBytesPerBatch` is never read and its file stands still; a file truncated and grown again
  skips lines.
- Telegram producer: an invalid row moves the offset, so that when a later window fails, the
  records before it are passed although the dead-letter row says "held"; appended lines change the
  windows' membership, so that poison counts begin again; a published window is published again
  under a larger `source_ref` when the file is held and grows; a record that comes late in source time
  into a file that is held makes a window with the `source_ref` of one that is published already, which
  is skipped, and the record with it (`Overtaken`); NATS timeouts quarantine a window
  that may be published.
- Codex producer (`argus-codex-rollout-producer.js`): `endLine` counts the empty string after the
  last newline, so the next run skips the first new line; a publish or summariser error
  `continue`s and the offset still moves.

*Search*

- The query-expansion, tag and chunk legs add no capacity to the pool, so a hit only they have can
  evict a hit of the query itself, though the comment near search.rs:910 says that an
  expansion-only hit cannot; `candidate_pool = 0` with the reranker empties the response; a limit
  above the pool returns fewer hits than were found; a thought retracted after its leg ran is
  still answered (`AnswersWereVisible` is about what was retracted when the request began).
- A build of the index that is broken off leaves an invalid index, which `IF NOT EXISTS` takes for
  the index and the second look refuses: every later start fails until somebody drops it by hand.
- The vector is inserted with DO NOTHING and its projection with DO UPDATE: of two writers the
  first one's vector stays and the second one's projection. The `SET lock_timeout` of a start stays
  on its pooled connection.

*Embed queue, chunks, contexts, hygiene*

- `embed-backfill` embeds retracted thoughts that are queued: it drains without the fence.
- 0029:28 allows the mutation kinds `delete` and `retract`; the quarantine step inserts
  `quarantine` (lib.rs:4261) and no later migration alters the CHECK. The step fails whenever a
  denied ready context exists; the earlier steps stay committed and the run's row stays `running`
  (the status `failed` of 0029:14 is never written).
- `chunk_spans` does not end when the overlap is at least two thirds of the target and a sentence
  ends early, e.g. target 3, maximum 4, overlap 2, which `validate_chunk_params` lets pass.
- Two overlapping `contextual generate` runs leave the text of one and the vector of the other
  (lib.rs near 2569 calls the sidecar immutable, main.rs:156 the generation idempotent); a context
  whose run dies before embedding it never gets a vector.
- `chunk apply` does not skip marked thoughts; of two overlapping runs with different limits that cut
  one thought, the later one fails at UNIQUE (artifact_id, chunk_index) (0001:41), whatever else it
  had to chunk; searches find thoughts of `archive.` scopes that hygiene takes out of the index.

## 4. Proofs

Eight modules hold proofs. Each theorem is about every value of the constants: any sets of
thoughts, texts, events, requests, processes, any file, any number of attempts and faults. They
rest on the named assumptions alone, which TLC evaluates in the runs: `RelationAssumption`,
`LedgerAssumption`, `DrainAssumption`, the two `AgentAssumption`s, `GateAssumption`,
`SupersessionAssumption`, `QueueAssumption`, `CorpusAssumption`, `SearchAssumption`,
`StreamAssumption`, `LinesAssumption`, `DeliveryAssumption` and `TelegramAssumption`. Two theorems
have a hypothesis of their own: `SerialLinksMakeNoCycle` that transactions that create chain edges do not overlap (run `square`
shows what happens when they do), and `OneProcessBuilds` that `Nobody` is no process.

| Module | Theorem | States |
|---|---|---|
| `RelationLedgerProofs` | `LedgerTypeCorrect` | `Spec => []TypeOK` |
| | `ChainHeadsStayActive` | `Spec => []LiveChainHeadsActive` |
| | `EdgesJoinLiveThoughts` | `Spec => NewEdgesJoinLiveThoughts` (an action property) |
| | `ReplayKeysExecuteOnce` | `Spec => []OneExecutionPerKey` |
| | `NoShortCycles` | `Spec => []NoShortChainCycle` |
| | `SerialLinksMakeNoCycle` | `Spec /\ []LinksSerialized => []NoChainCycle` |
| | `TransactionsImplementService` | `Spec => ImplementsService` (a refinement) |
| | `NoSessionsDeadlock` | `Spec => [](NoCircleOfWaits /\ SomeoneGoesOn)` |
| `TagDrainProofs` | `DrainTyped` | `Spec => []TypeOK` |
| | `QueueLosesNothing` | `Spec => []JobsEndPublished` |
| | `NoPartialGeneration` | `Spec => []OneSetPublished` |
| | `AgentRowsKept` | `Spec => RetagKeepsAgentRows` (an action property) |
| | `TagsFollowEdges` | `Spec => []TagsAgreeWithEdges` |
| | `CallsBounded` | `Spec => []FailedCallsBounded` |
| `CaptureGateProofs` | `CaptureTypeCorrect` | `Spec => []TypeOK` |
| | `CaptureReceiptsAreDurable` | `Spec => []ReceiptsAreDurable` |
| | `CaptureCallersAgree` | `Spec => []CallersAgree`: who is told of a thought for one source event and payload is told of one thought |
| | `CaptureRetriesNeverConflict` | `Spec => []RetriesNeverConflict` |
| | `FingerprintRaceEndsInOneRetry` | `Spec => []RaceEndsInOneRetry` |
| | `ThoughtsGetVectors` | `Spec => []EveryThoughtGetsVector` |
| | `FamilyLockHolds` | `Spec => []SemanticGateHolds` |
| | `CapturesImplementLedger` | `Spec => ImplementsLedger` (a refinement) |
| `SourceEventProofs` | `DeliveriesAgree` | of whatever implements `SourceLedger`: everyone told of one payload of one event is told of one thought |
| | `SupersessionTypeCorrect` | `Spec => []TypeOK` |
| | `ReceiptsAnswerForGood` | `Spec => []OneReceiptPerRequest` |
| | `SupersessionIsFinal` | `Spec => []SupersededForGood` |
| | `ChecksHoldAtCommit` | `Spec => AppliedAsApproved` (an action property) |
| | `SupersessionImplementsLedger` | `Spec => ImplementsLedger` (a refinement) |
| | `IngestTyped` | `IngestSpec => []IngestTypeOK` |
| | `LinesLeaveTraces` | `IngestSpec => []NothingVanishes` |
| `EmbedQueueProofs` | `QueueTypeCorrect` | `Spec => []TypeOK` |
| | `OwedVectorsKeepRows` | `Spec => []NothingLost` |
| | `DeniedVectorsAreFew` | `Spec => []LateVectorsBounded` |
| `CorpusProofs` | `CorpusTypeCorrect` | `Spec => []TypeOK` |
| | `ChunksAlwaysCover` | `Spec => []ChunksCoverTheirThought` |
| | `VectorsOfTheirText` | `Spec => []VectorsAreOfTheirText` |
| | `SweepsAreThorough` | `Spec => []CompletedSweepsWereThorough` |
| | `SweepsTakeNothingFound` | `Spec => SweepsRemoveNothingFound` (an action property) |
| `SearchProofs` | `RequestTyped` | `Spec => []TypeOK` |
| | `AnswersVisible` | `Spec => []AnswersWereVisible` |
| | `BaselineKept` | `Spec => []BaselineKeepsItsPlace` |
| | `CopyMissesNothing` | `Copy!Spec => []FindsWhatWasThere` |
| | `OneProcessBuilds` | `Copy!Spec`: who looks at, builds or rechecks the index holds the advisory lock |
| `TelegramProofs` | `TelegramTyped` | `Spec => []TypeOK` |
| | `PayloadsAgree` | `Spec => []OnePayloadPerRef` |
| | `OffsetsFollowOutcomes` | `Spec => []OffsetBehindOutcomes` |
| | `InTimeNoneIsPassedOver` | `Spec => []RecordsInTimeSettle`: a record that is written in the order of time of its chat is settled when the offset has passed it, or was taken along by an invalid row |

**Relations.** None of the invariants is inductive: each is about committed state, and what keeps
it is what open transactions have checked and hold locked. Hence the strengthenings.

- `LockInv` = `TypeOK` and: locks are exclusive (`LocksExclusive`); every endpoint of a request is
  locked or still wanted, and none is wanted past the locking loop (`EndpointsLocked`); a locked
  thought that had to be active is (`LockedStayActive`); a drafted edge goes from a locked thought,
  and if live joins locked, checked ones (`DraftsCovered`); a retraction past its check holds a
  thought that heads no chain (`RetractionsCovered`); and `LiveChainHeadsActive` itself. A retraction
  needs the row of the thought, a link needs the row of the edge's ends: whoever could falsify a
  conjunct waits for a lock that somebody holds. `ChainHeadsStayActive` follows at once;
  `EdgesJoinLiveThoughts` follows because the only step that makes an edge live for others is a
  commit, whose drafts `DraftsCovered` describes.
- `KeyInv`: a key belongs to one open transaction or to one row, and a session about to answer
  has its row. The unique insert, which waits for an uncommitted rival, keeps it.
- `CycleInv` = `LockInv` and no short cycle in `edges` or in any session's `View`. Two edges of a
  cycle of two or three share a thought; a drafted edge has both ends locked; so two
  transactions never draft two edges of one short cycle, and the one that comes second sees the
  other's edge in its walk. For four thoughts the argument breaks where run `square` breaks.
- `SerialInv`, for cycles of any length: the walk that precedes an insert is complete. What it
  reaches is closed under the live chain edges (`ReachClosed`), and a closed set that leaves a thought
  out shows that no chain leads there (`LeftOut`); if no chain leads from the new edge's end to its
  start, the closed sets of the two ends put together show that there is no cycle with it
  (`OneLinkMore`). So the view of a transaction stays acyclic as long as no other one that creates
  chain edges overlaps with it: `SerialInv` = `LockInv`, no cycle in `edges`, none in the view of a
  transaction that chains, and no live chain edge in the draft of one that does not. `LinksSerialized`
  is what one lock for all of them would give, and what holds wherever links come from one client, one
  at a time; the code has no such lock. The theorem puts the finding of run `square` down to the
  overlap, not to the walk.
- `WaitInv`, for deadlocks: every thought a session has locked comes before every one it still
  wants, and finitely many sessions are busy. A session that is waited for and waits itself is one
  that locks its endpoints: one that claims its key or retracts holds nothing yet. So among a finite
  set of sessions the one whose next thought is the greatest waits for nobody in the set, since
  whoever holds that thought wants a greater one. This is the safety half of `SessionsFinish`.

**Tag queue.** `TypedInv` has the types, that the jobs of a batch are for different thoughts, how far a
process has come with its job (`ProgressInv`: what it has behind it is stored: an output of the
tagger, tags, a row of the ledger under the job's key), and that a key has one row.
`JobsEndPublished` and `OneSetPublished` follow with the fact that tags and ledger rows are never
taken back; `RetagKeepsAgentRows` from what a tagger's request does. The tags of a thought may well
disagree with its edges while two processes have its job, so `AloneInv` is about a worker that is
the only process: what it holds is pending, what it stored of the job is one answer, and the tagger
edges of a thought are from the row of its job, which has its tags once it is settled. `CallsInv`
bounds the failing calls for a thought by phase: before its last attempt, by the attempts counted
and the faults that lost a count; at its last attempt, a call that has failed and the processes that
may fail one more share what is left; out of the queue, each process that still holds the job may
fail one more.

**Captures.** `Inv` says, of each place a call can be in, what it has seen and what stays true of
it: the order of a client's calls, that a source event row is held by one call, that events, gate
rows and drafts are as their requests claim (`EventsAsClaimed`, `DraftsCovered`, `EventsCovered`,
`GateCovered`), that a retry follows a thought that is there (`RetriesCovered`), that replies are
true. Events and gate rows only grow, and a thought that is there keeps its text's
row, whatever becomes of its state, its vector and its job (`AfterRow`), so what a call saw is there
when it uses it. `EveryThoughtGetsVector` needs no more: what takes a vector away takes it
from a retracted thought, and what takes a job away leaves a vector, a retraction or `givenUp`. `GateInv` adds the
family lock: who compares holds it, what is added under it was compared (`LocksCovered`,
`AddsCovered`, `ComparedCovered`). `CallersAgree` is of clients what the ledger says of tables: a
reply that is no conflict names the thought its event is bound to, and a binding is for good. The refinement maps a commit to a delivery and everything else
to a stutter.

**Supersession.** Locks on the request id, the event and the old thought are exclusive, so what
was checked is still true at the commit; the receipt of a request is written under the lock of its
id. That a payload the event never had is delivered as a conflict, not a binding, comes from the
invariant that a binding is of the text its payload renders to. Both refinements are proved
against one `SourceLedger`, so that `DeliveriesAgree` holds of either.

**Ingest.** `IngestInv` = types ∧ `LinesInv` ∧ `MessagesInv`. Lines: saved and running offset and
the end of the read are within the file; each line behind either offset has come to something
(`Dealt`, which a line passed with a new file has); each line between the offset and the end of the read has, or is in a window that is
still to do; windows are in ascending order. What is said of the saved offset is the property; the
rest keeps it, since the offset moves to the end of a window, or of the read, before it is saved. Messages: an unsent
message has no history; what the gate answered is so; a message in the batch is not due; one that is
acked or termed has its reason on record; and one that left no trace was delivered no more often than
runs have died, but for the delivery at hand: nothing is spent but by deaths.

**Embed queue.** `Inv` has the types, that a process and the queue agree what a row id is for
(`IdsInv`), and that a row is only deleted by a process whose vector is written or whose target
is denied (`MarkInv`). `LateInv` counts: vectors written late and workers that may still write one
are together no more than the workers. That a batch has an earliest row is proved from the
well-foundedness of strict inclusion on finite sets; the limit on a claim from an injection of
claimed rows into ranks.

**Corpus.** `ApplyInv`: what lies before the next chunk's start is in the spans, and what a run
proposes covers its thoughts. A transaction that does not clash puts in all of it: each text a run
found is there already or has a first place (`FreshAreAll`); one that clashes puts in nothing. `GenerateInv`: two
lists share a chunk only if it is contested; a listed, uncontested chunk has no context before
its turn, and the run's own until its vector is written. `SweepInv`: what is due is denied and
there, since retraction is for good; a sweeper with budget left has emptied `due` of the tables it
has done.

**Search.** `IInv` = `TypedInv` ∧ `HitsInv` (rankings and neighbours are of what was visible, one
ranking for each leg that has run) ∧ `OrderInv` (the order is a sorting of the fused hits) ∧
`AnswerInv` (what reranker and limit may have left). `AnswersVisible` follows. `BaselineKept` is an
argument about sums: a score is a sum over rankings, and grows only for hits that the added
rankings have; so at most as many hits overtake a baseline hit (one that any other leg found, those of
expansion, routing and chunks included) as there are graph, sparse and context hits the filter
retains; its position in the order is at most the number of baseline hits
as good, plus these; and these are what `EffectivePool` adds. `CopyMissesNothing` needs only
`CopyInv`: copies are of vectors that are there, and a search that goes to the copy found it to
have all that was asked when it began, which no step takes out again; the coverage row is not in
it.

**Telegram.** `TypedInv`; `LedgerInv`: what is at hand past `look` has a prepared entry of its hash,
every message in the stream has an entry under its ref, of its hash unless that was quarantined
since, and a published entry has its message; `OffsetInv`: the saved and the running offset pass
only what is settled, was taken along by an invalid row or came late (`Accounted`), and every row of
the read is accounted for or in a window still to do. That the windows of a read hold each of its
records, that a window is what its read has between its first and its last record in the order of time
(`WindowIsSegment`), and that halves hold each row of the window they are of, are lemmas about
`WindowsOf`, `Sorted`, `Chunks` and `Halves`; of the two orders they use only that they are strict.
A window is known by its first and last record. So `Ledgered` says of each entry of the seen
ledger, for the rows between those two: each is one of the entry's rows, or behind the saved offset, or
was written after the last of them, which the entry has (`Closed`). A record that is skipped because
the ref of its window is known is therefore among the entry's rows, which are in the stream or in the
poison file, or was written after a record of its chat that sorts behind it and is settled: it is
`Overtaken`. A record written in the order of its time has none such (`InTimeNoneIsPassedOver`).

Each inductive step has a lemma for each action that can disturb a conjunct and one lemma for
the quiet ones; the temporal step is PTL.

Checked by TLC only: the liveness properties (`SessionsFinish`, `JobsLeave`, `TransactionsEnd`,
`VectorsArrive`, `EveryLineEnds`, `EveryRecordSettles`, `StartsSucceed`, `CuttingEnds`), since
liveness under fairness and ENABLED are beyond TLAPS here; of `SessionsFinish` the proofs have that
nobody waits in a circle, not that everybody arrives. The two properties of the violation runs
are false. Of what recursive definitions compute, the proofs have what the lemmas say (an
unfolding of each by one step, and bounds that follow), not a closed form for every input.

## 5. Not modelled, and why

- The **codex producer**: it keeps one offset per file and moves it whatever happens (see
  Disagreements met); there is no property of it that its code tries to keep.
- The readiness checks of the other indexes: one SELECT at the start.
- Input checks, parsers, core types: functions of one call's arguments, tested where they are.
- HTTP clients: a call, a timeout and a parser; the models take their answers as a choice.
- Backups, configuration, benchmarks, scripts: I/O and text.
- The gate's modes `off` and `shadow`, its `source_unavailable` answers and the aliases of document
  captures.
- Relation reads, `recent_thoughts`, `get_thought`, `list_scopes`: single SELECTs.

## 6. Plan

Done so far, in this order: links and retractions as a promise and as transactions; the tag drain as
a client of that promise; captures; the embed queue; the abstract ledger of source events with
captures and supersessions as refinements of it; consumer and producers; chunks, contexts and
hygiene; a search request with its legs; the indexed copy of vectors; proofs of every safety
invariant, action property and refinement of these. What is left:

1. Captures with intents composed with supersessions, where the deadlock above is.
2. The aliases of document captures, and the gate's modes `off` and `shadow`.
3. A run over a Telegram file of two chats with rows that have no time: what is proved of it
   (`OffsetsFollowOutcomes`) is checked of one chat whose records all have one.
4. Backup and restore: what a restore of tables without their queues owes.
