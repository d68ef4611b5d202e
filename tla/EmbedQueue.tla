------------------------------ MODULE EmbedQueue ------------------------------
(***************************************************************************)
(* The embed queue of kEngram: captures and `kengram chunk enqueue' put    *)
(* rows into pending_embeddings, workers and `kengram embed-backfill'      *)
(* claim them in batches and turn them into vectors, and `kengram          *)
(* ingest-hygiene' takes rows and vectors away.  Every statement commits   *)
(* on its own, but for the claim, whose row locks make another claim skip. *)
(***************************************************************************)
EXTENDS Integers, FiniteSets

CONSTANTS
  Thoughts,     \* thoughts and chunks are numbers in the order of created_at
  Chunks,       \* artifact chunks
  Parent,       \* source_thought_id of each chunk
  Models,       \* embedding models that rows of the queue may name
  Active,       \* the model that is configured now
  Workers,      \* `kengram worker' processes
  Backfills,    \* `kengram embed-backfill' runs, each of them once
  Hygiene,      \* [search] ingest_hygiene_enabled, with full_pipeline_enabled
  BatchSize,    \* [worker] batch_size; a backfill's BATCH
  Limit,        \* --limit of a backfill
  AttemptCap,   \* --max-failed-attempts of ingest-hygiene
  MaxRows,      \* bound: rows ever queued
  MaxFaults     \* bound: storage and embedder failures, crashes

Targets == Thoughts \cup Chunks

ASSUME QueueAssumption ==
  /\ Targets \subseteq Nat /\ Thoughts \cap Chunks = {}
  /\ Parent \in [Chunks -> Thoughts]
  /\ Active \in Models
  /\ Workers \cap Backfills = {}
  /\ IsFiniteSet(Targets) /\ IsFiniteSet(Workers)
  /\ Hygiene \in BOOLEAN
  /\ {BatchSize, AttemptCap} \subseteq Nat \ {0}
  /\ {Limit, MaxRows, MaxFaults} \subseteq Nat

VARIABLES
  thought,   \* thoughts: not captured yet, active or retracted
  chunks,    \* the chunks there are
  vectors,   \* the targets with a vector of the active model
  queue,     \* pending_embeddings; ids are numbers in the order of enqueued_at
  rows,      \* how many rows were ever queued
  at,        \* where each process is in its drain
  batch,     \* the rows it has claimed and not finished
  gained,    \* whether the drain has embedded anything
  budget,    \* what is left of a backfill's limit
  faults,
  owed,      \* history: targets queued or embedded, but for rows hygiene gave up
  late       \* history: vectors that workers wrote for a target already denied

corpus == <<thought, chunks>>
procs == <<at, batch, gained, budget>>
vars == <<corpus, vectors, queue, rows, procs, faults, owed, late>>

Processes == Workers \cup Backfills

Rows == [id: 1..MaxRows, target: Targets, model: Models, attempts: 0..AttemptCap,
         failed: BOOLEAN]

TypeOK ==
  /\ thought \in [Thoughts -> {"absent", "active", "retracted"}]
  /\ chunks \subseteq {c \in Chunks : thought[Parent[c]] # "absent"}
  /\ vectors \subseteq Targets
  /\ queue \subseteq Rows
  /\ \A x, y \in queue : x.id = y.id \/ <<x.target, x.model>> = <<y.target, y.model>> => x = y
  /\ rows \in 0..MaxRows
  /\ at \in [Processes -> {"start", "idle", "claim", "read", "embed", "mark", "fail", "done"}]
  /\ batch \in [Processes -> SUBSET Rows]
  /\ \A p \in Processes : batch[p] = {} <=> at[p] \in {"start", "idle", "done"}
  /\ gained \in [Processes -> BOOLEAN]
  /\ budget \in [Backfills -> 0..Limit]
  /\ faults \in 0..MaxFaults
  /\ owed \subseteq Targets
  /\ late \in [Targets -> Nat]

Init ==
  /\ thought = [t \in Thoughts |-> "absent"]
  /\ chunks = {}
  /\ vectors = {}
  /\ queue = {}
  /\ rows = 0
  /\ at = [p \in Processes |-> IF p \in Backfills THEN "start" ELSE "idle"]
  /\ batch = [p \in Processes |-> {}]
  /\ gained = [p \in Processes |-> FALSE]
  /\ budget = [b \in Backfills |-> Limit]
  /\ faults = 0
  /\ owed = {}
  /\ late = [x \in Targets |-> 0]

------------------------------------------------------------------------------
\* A batch is worked off in the order of the ids.
Earliest(S) == CHOOSE row \in S : \A x \in S : row.id <= x.id
Job(p) == Earliest(batch[p])
GoTo(p, label) == at' = [at EXCEPT ![p] = label]
Fault == faults < MaxFaults /\ faults' = faults + 1

\* thought_index_denial_reason, chunk_index_denial_reason: of these, retraction.
Denied(x) == thought[IF x \in Chunks THEN Parent[x] ELSE x] = "retracted"

Locked(row) == \E p \in Processes : at[p] = "claim" /\ \E x \in batch[p] : x.id = row.id

\* ORDER BY enqueued_at LIMIT n
Oldest(S, n) == {row \in S : Cardinality({x \in S : x.id < row.id}) < n}

\* ON CONFLICT (target_kind, target_id, model_id) DO NOTHING
New(S, m) == {x \in S : \A row \in queue : row.target # x \/ row.model # m}

\* The older target first.
Enqueued(S, m) ==
  {[id |-> rows + Cardinality({y \in New(S, m) : y <= x}), target |-> x, model |-> m,
    attempts |-> 0, failed |-> FALSE] : x \in New(S, m)}

Enqueue(S, m) ==
  /\ rows + Cardinality(New(S, m)) <= MaxRows
  /\ queue' = queue \cup Enqueued(S, m)
  /\ rows' = rows + Cardinality(New(S, m))
  /\ owed' = owed \cup S

------------------------------------------------------------------------------
Take(p) == IF p \in Workers \/ budget[p] > BatchSize THEN BatchSize ELSE budget[p]

\* Mutant: rows with a last_error are left where they are.
ClaimFresh(p) ==
  /\ at[p] = "idle"
  /\ LET free == {row \in queue : ~Locked(row) /\ ~row.failed}
     IN free # {} /\ batch' = [batch EXCEPT ![p] = Oldest(free, Take(p))]
  /\ GoTo(p, "claim")
  /\ UNCHANGED <<corpus, vectors, queue, rows, gained, budget, faults, owed, late>>

\* The UPDATE of claim_pending locks the oldest rows that are not locked ...
Claim(p) ==
  /\ at[p] = "idle"
  /\ LET free == {row \in queue : ~Locked(row)}
     IN free # {} /\ batch' = [batch EXCEPT ![p] = Oldest(free, Take(p))]
  /\ GoTo(p, "claim")
  /\ UNCHANGED <<corpus, vectors, queue, rows, gained, budget, faults, owed, late>>

\* ... and its commit counts an attempt, and lets the locks go before anything is done.
CommitClaim(p) ==
  /\ at[p] = "claim"
  /\ queue' = {IF \E x \in batch[p] : x.id = row.id /\ row.attempts < AttemptCap
               THEN [row EXCEPT !.attempts = @ + 1] ELSE row : row \in queue}
  /\ budget' = IF p \in Backfills THEN [budget EXCEPT ![p] = @ - Cardinality(batch[p])] ELSE budget
  /\ gained' = [gained EXCEPT ![p] = FALSE]
  /\ GoTo(p, "read")
  /\ UNCHANGED <<corpus, vectors, rows, batch, faults, owed, late>>

\* The process is through with the row; a backfill goes on while it gets on.
NextJob(p, embedded) ==
  /\ batch' = [batch EXCEPT ![p] = @ \ {Job(p)}]
  /\ gained' = [gained EXCEPT ![p] = @ \/ embedded]
  /\ GoTo(p, IF batch[p] # {Job(p)} THEN "read"
             ELSE IF p \in Workers \/ (gained'[p] /\ budget[p] > 0) THEN "idle"
             ELSE "done")
  /\ UNCHANGED budget

\* mark_embedded, which waits for a claim that has locked the row.
Delete(p) ==
  /\ ~Locked(Job(p))
  /\ queue' = {row \in queue : row.id # Job(p).id}

\* Mutant: a chunk is judged by itself, not by its parent.
DeniesThoughts(p) ==
  Hygiene /\ p \in Workers /\ Job(p).target \in Thoughts /\ Denied(Job(p).target)

\* Only the worker's drain asks; a backfill's goes without the fence.
Denies(p) == Hygiene /\ p \in Workers /\ Denied(Job(p).target)

Skip(p) ==
  /\ at[p] = "read"
  /\ Job(p).model = Active /\ Denies(p)
  /\ Delete(p)
  /\ NextJob(p, FALSE)
  /\ UNCHANGED <<corpus, vectors, rows, faults, owed, late>>

\* Mutant: the row is deleted before the embedder is asked.
ReadDeletes(p) ==
  /\ at[p] = "read"
  /\ Job(p).model = Active /\ ~Denies(p)
  /\ Delete(p)
  /\ GoTo(p, "embed")
  /\ UNCHANGED <<corpus, vectors, rows, batch, gained, budget, faults, owed, late>>

\* The text is at hand and the embedder is called.
Read(p) ==
  /\ at[p] = "read"
  /\ Job(p).model = Active /\ ~Denies(p)
  /\ GoTo(p, "embed")
  /\ UNCHANGED <<corpus, vectors, queue, rows, batch, gained, budget, faults, owed, late>>

ModelMismatch(p) ==
  /\ at[p] = "read"
  /\ Job(p).model # Active
  /\ GoTo(p, "fail")
  /\ UNCHANGED <<corpus, vectors, queue, rows, batch, gained, budget, faults, owed, late>>

\* insert_embedding asks nobody whether the target is denied by now.
Write(p) ==
  /\ vectors' = vectors \cup {Job(p).target}
  /\ late' = IF p \in Workers /\ Denied(Job(p).target)
             THEN [late EXCEPT ![Job(p).target] = @ + 1] ELSE late

Insert(p) ==
  /\ at[p] = "embed"
  /\ Write(p)
  /\ GoTo(p, "mark")
  /\ UNCHANGED <<corpus, queue, rows, batch, gained, budget, faults, owed>>

Mark(p) ==
  /\ at[p] = "mark"
  /\ Delete(p)
  /\ NextJob(p, TRUE)
  /\ UNCHANGED <<corpus, vectors, rows, faults, owed, late>>

\* The embedder or a statement fails, or the statement's answer is lost.
StepFails(p) ==
  /\ at[p] \in {"read", "embed", "mark"}
  /\ Fault
  /\ \/ UNCHANGED <<vectors, queue, late>>
     \/ at[p] = "embed" /\ Write(p) /\ UNCHANGED queue
     \/ at[p] = "mark" /\ Delete(p) /\ UNCHANGED <<vectors, late>>
  /\ GoTo(p, "fail")
  /\ UNCHANGED <<corpus, rows, batch, gained, budget, owed>>

\* mark_failed; its own failure is ignored, and the row keeps its place in the queue.
Fail(p) ==
  /\ at[p] = "fail"
  /\ \/ /\ ~Locked(Job(p))
        /\ queue' = {IF row.id = Job(p).id THEN [row EXCEPT !.failed = TRUE] ELSE row :
                       row \in queue}
        /\ UNCHANGED faults
     \/ Fault /\ UNCHANGED queue
  /\ NextJob(p, FALSE)
  /\ UNCHANGED <<corpus, vectors, rows, owed, late>>

Crash(p) ==
  /\ at[p] \notin {"start", "idle", "done"}
  /\ Fault
  /\ GoTo(p, IF p \in Workers THEN "idle" ELSE "done")
  /\ batch' = [batch EXCEPT ![p] = {}]
  /\ UNCHANGED <<corpus, vectors, queue, rows, gained, budget, owed, late>>

------------------------------------------------------------------------------
\* enqueue_unembedded_thoughts, the oldest Limit of them, then the drain loop.
Heal(b) ==
  /\ at[b] = "start"
  /\ LET found == {t \in Thoughts : thought[t] = "active" /\ t \notin vectors}
     IN Enqueue({t \in found : Cardinality({u \in found : u < t}) < Limit}, Active)
  /\ GoTo(b, IF Limit > 0 THEN "idle" ELSE "done")
  /\ UNCHANGED <<corpus, vectors, batch, gained, budget, faults, late>>

\* The drain finds nothing to claim.
Finish(b) ==
  /\ at[b] = "idle"
  /\ \A row \in queue : Locked(row)
  /\ GoTo(b, "done")
  /\ UNCHANGED <<corpus, vectors, queue, rows, batch, gained, budget, faults, owed, late>>

\* capture_thought_gated: the vector or the row, in the capture's own transaction;
\* the server that captures may have been configured for another model.
Capture(t) ==
  /\ thought[t] = "absent"
  /\ thought' = [thought EXCEPT ![t] = "active"]
  /\ \E m \in Models :
       \/ Enqueue({t}, m) /\ UNCHANGED vectors
       \/ /\ LET written == IF m = Active THEN {t} ELSE {}
             IN vectors' = vectors \cup written /\ owed' = owed \cup written
          /\ UNCHANGED <<queue, rows>>
  /\ UNCHANGED <<chunks, procs, faults, late>>

\* `kengram chunk apply'; the parents were selected before its transaction began.
Chunk(c) ==
  /\ c \notin chunks
  /\ thought[Parent[c]] # "absent"
  /\ chunks' = chunks \cup {c}
  /\ UNCHANGED <<thought, vectors, queue, rows, procs, faults, owed, late>>

\* enqueue_unembedded_artifact_chunks
EnqueueChunks ==
  /\ LET found == {c \in chunks \ vectors : ~Denied(c)}
     IN New(found, Active) # {} /\ Enqueue(found, Active)
  /\ UNCHANGED <<corpus, vectors, procs, faults, late>>

Retract(t) ==
  /\ thought[t] = "active"
  /\ thought' = [thought EXCEPT ![t] = "retracted"]
  /\ UNCHANGED <<chunks, vectors, queue, rows, procs, faults, owed, late>>

\* delete_denied_pending_embeddings: denied targets, failed rows that are old, and
\* rows at the attempt cap, whether or not somebody is at work on them.
SweepRows ==
  /\ \E S \in SUBSET {row \in queue : ~Locked(row)} :
       /\ S # {}
       /\ \A row \in S : Denied(row.target) \/ row.failed \/ row.attempts = AttemptCap
       /\ queue' = queue \ S
       /\ owed' = owed \ {row.target : row \in S}
  /\ UNCHANGED <<corpus, vectors, rows, procs, faults, late>>

\* delete_denied_thought_dense_sidecars, delete_denied_chunk_dense_sidecars
SweepVectors ==
  /\ \E S \in SUBSET {x \in vectors : Denied(x)} : S # {} /\ vectors' = vectors \ S
  /\ UNCHANGED <<corpus, queue, rows, procs, faults, owed, late>>

Work(p) == Claim(p) \/ CommitClaim(p) \/ Skip(p) \/ Read(p) \/ ModelMismatch(p)
             \/ Insert(p) \/ Mark(p) \/ Fail(p)

Next ==
  \/ \E p \in Processes : Work(p) \/ StepFails(p) \/ Crash(p)
  \/ \E b \in Backfills : Heal(b) \/ Finish(b)
  \/ \E t \in Thoughts : Capture(t) \/ Retract(t)
  \/ \E c \in Chunks : Chunk(c)
  \/ EnqueueChunks \/ SweepRows \/ SweepVectors

Spec == Init /\ [][Next]_vars

(***************************************************************************)
(* The worker's ticker fires again and again and awaits what it started,   *)
(* and a claim is one statement, which ends whoever sent it.  Nobody has   *)
(* to run a backfill, a sweep or a chunker, or to go on with a backfill.   *)
(***************************************************************************)
FairSpec == /\ Spec
            /\ \A w \in Workers : WF_vars(Work(w))
            /\ \A b \in Backfills : WF_vars(CommitClaim(b))

------------------------------------------------------------------------------
Queued(x) == \E row \in queue : row.target = x

(***************************************************************************)
(* A target that was queued or embedded keeps its row or its vector until  *)
(* it is denied or hygiene gives it up: rival processes on one row, swept  *)
(* and requeued rows, failures and crashes lose none.                      *)
(***************************************************************************)
NothingLost == \A x \in owed : ~Denied(x) => x \in vectors \/ Queued(x)

(***************************************************************************)
(* "Retrieval-denied targets are dequeued without calling the embedder":   *)
(* once a target is denied each worker writes its vector at most once more,*)
(* for the text it had read before.                                        *)
(***************************************************************************)
LateVectorsBounded == Hygiene => \A x \in Targets : late[x] <= Cardinality(Workers)

(***************************************************************************)
(* Whatever is owed is embedded in the end, if it is not denied or given   *)
(* up, and older rows that cannot be embedded do not fill every batch: a   *)
(* failed row keeps its place.                                             *)
(***************************************************************************)
Stuck == {row \in queue : row.model # Active}
Starved(x) ==
  \E row \in queue : /\ row.target = x
                     /\ Cardinality({y \in Stuck : y.id < row.id}) >= BatchSize

VectorsArrive ==
  \A x \in Targets :
    x \in owed ~> \/ x \in vectors \/ x \notin owed \/ Denied(x) \/ Starved(x)
                  \/ \E row \in Stuck : row.target = x
==============================================================================
