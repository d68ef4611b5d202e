-------------------------------- MODULE AnnProjection --------------------------------
(***************************************************************************)
(* The indexed copy of vectors that are too long for an index: every write *)
(* of a vector writes its projection too, processes fill gaps, count and   *)
(* build the index when they start, a worker counts now and then, and a    *)
(* search takes the copy only if it misses nothing the search asks for.    *)
(***************************************************************************)
EXTENDS Naturals, FiniteSets

CONSTANTS
  Targets,     \* thoughts
  Processes,   \* servers and workers, which something starts again when they end
  Workers,     \* those of them that count now and then
  Asked,       \* thoughts in the scope a search asks for
  MaxFaults,   \* bound: crashes, and builds that wait too long for others
  MaxOld,      \* bound: vectors a binary from before the projections writes
  Nobody       \* no process

VARIABLES
  raw,         \* targets in embeddings
  projected,   \* targets in embedding_ann_projections
  coverage,    \* the row of embedding_ann_projection_coverage
  index,       \* the HNSW index of the projection
  lock,        \* who holds the advisory lock of the index
  at,          \* where each process is
  counted,     \* what it counted and has not written yet
  audit,       \* whether it counts as a running worker
  older,       \* whose statements a build waits for
  search, found, asked,   \* a search; history: what it had to find
  faults, old

rows == <<raw, projected>>
starting == <<at, counted, audit, older>>
searching == <<search, found, asked>>
vars == <<rows, coverage, index, lock, starting, searching, faults, old>>

Places ==
  {"down", "reconcile", "count", "write", "lock", "check", "create", "building", "waiting",
   "recheck", "serving"}

TypeOK ==
  /\ projected \subseteq raw /\ raw \subseteq Targets
  /\ coverage \in {"none", "ok", "diverged"} /\ index \in {"absent", "invalid", "ready"}
  /\ lock \in Processes \cup {Nobody}
  /\ at \in [Processes -> Places] /\ counted \in [Processes -> {"none", "ok", "diverged"}]
  /\ audit \in [Processes -> BOOLEAN] /\ older \in [Processes -> SUBSET Processes]
  /\ search \in {"idle", "covered", "gaps", "copy", "raw", "done"}
  /\ asked \subseteq raw \cap Asked /\ found \subseteq raw \cap Asked
  /\ faults \in 0..MaxFaults /\ old \in 0..MaxOld

\* After the migration that made the tables, or with a model that has no rows in them yet.
Init ==
  /\ \/ raw \in SUBSET Targets /\ projected = raw /\ coverage = "ok" /\ index = "ready"
     \/ raw = {} /\ projected = {} /\ coverage = "none" /\ index = "absent"
  /\ lock = Nobody /\ at = [p \in Processes |-> "down"]
  /\ counted = [p \in Processes |-> "none"] /\ audit = [p \in Processes |-> FALSE]
  /\ older = [p \in Processes |-> {}]
  /\ search = "idle" /\ found = {} /\ asked = {} /\ faults = 0 /\ old = 0

GoTo(p, place) == at' = [at EXCEPT ![p] = place]
Idle == UNCHANGED <<searching, faults, old>>

---------------------------------------------------------------------------------
\* Writes.

\* A projection of the vector that is there, in place of an older one.
InsertProjection(t) == projected' = projected \cup {t}

\* The vector, unless there is one, and its projection in one transaction.
InsertEmbedding(t) ==
  /\ raw' = raw \cup {t} /\ InsertProjection(t)
  /\ UNCHANGED <<coverage, index, lock, starting, searching, faults, old>>

\* A process of the release before writes the vector alone.
InsertOld(t) ==
  /\ t \notin raw /\ old < MaxOld /\ old' = old + 1 /\ raw' = raw \cup {t}
  /\ UNCHANGED <<projected, coverage, index, lock, starting, searching, faults>>

---------------------------------------------------------------------------------
\* A start, and the periodic count of a worker.

Start(p) ==
  /\ at[p] = "down" /\ GoTo(p, "reconcile")
  /\ UNCHANGED <<rows, coverage, index, lock, counted, audit, older>> /\ Idle

Reconcile(p) ==
  /\ at[p] = "reconcile" /\ GoTo(p, "count")
  /\ projected' = raw
  /\ UNCHANGED <<raw, coverage, index, lock, counted, audit, older>> /\ Idle

Audit(p) ==
  /\ p \in Workers /\ at[p] = "serving" /\ GoTo(p, "count")
  /\ audit' = [audit EXCEPT ![p] = TRUE]
  /\ UNCHANGED <<rows, coverage, index, lock, counted, older>> /\ Idle

Status ==
  IF raw \subseteq projected /\ Cardinality(projected) = Cardinality(raw) THEN "ok" ELSE "diverged"

Count(p) ==
  /\ at[p] = "count" /\ GoTo(p, "write")
  /\ counted' = [counted EXCEPT ![p] = Status]
  /\ UNCHANGED <<rows, coverage, index, lock, audit, older>> /\ Idle

\* What was counted is written by a statement of its own, over whatever is there by now.
RecordCoverage(p) ==
  /\ at[p] = "write"
  /\ coverage' = counted[p] /\ counted' = [counted EXCEPT ![p] = "none"]
  /\ GoTo(p, IF audit[p] THEN "serving" ELSE IF counted[p] = "ok" THEN "lock" ELSE "down")
  /\ audit' = [audit EXCEPT ![p] = FALSE]
  /\ UNCHANGED <<rows, index, lock, older>> /\ Idle

LockIndex(p) ==
  /\ at[p] = "lock" /\ lock = Nobody
  /\ lock' = p /\ GoTo(p, "check")
  /\ UNCHANGED <<rows, coverage, index, counted, audit, older>> /\ Idle

\* lock_timeout
LockTimesOut(p) ==
  /\ at[p] = "lock" /\ lock # Nobody /\ GoTo(p, "down")
  /\ UNCHANGED <<rows, coverage, index, lock, counted, audit, older>> /\ Idle

CheckIndex(p) ==
  /\ at[p] = "check" /\ GoTo(p, IF index = "ready" THEN "recheck" ELSE "create")
  /\ UNCHANGED <<rows, coverage, index, lock, counted, audit, older>> /\ Idle

\* CREATE INDEX CONCURRENTLY IF NOT EXISTS: an invalid index exists.
CreateIndex(p) ==
  /\ at[p] = "create"
  /\ IF index = "absent" THEN index' = "invalid" /\ GoTo(p, "building")
     ELSE GoTo(p, "recheck") /\ UNCHANGED index
  /\ UNCHANGED <<rows, coverage, lock, counted, audit, older>> /\ Idle

\* When the rows are in the index, the build waits for the statements that are under way.
BuildWaits(p) ==
  /\ at[p] = "building" /\ GoTo(p, "waiting")
  /\ older' = [older EXCEPT ![p] = {q \in Processes : at[q] = "lock"}]
  /\ UNCHANGED <<rows, coverage, index, lock, counted, audit>> /\ Idle

StillThere(p) == {q \in older[p] : at[q] = "lock"}

BuildDone(p) ==
  /\ at[p] = "waiting" /\ StillThere(p) = {}
  /\ index' = "ready" /\ older' = [older EXCEPT ![p] = {}] /\ GoTo(p, "recheck")
  /\ UNCHANGED <<rows, coverage, lock, counted, audit>> /\ Idle

Unlock(p) == lock' = IF lock = p THEN Nobody ELSE lock
Ends(p) ==
  /\ GoTo(p, "down") /\ Unlock(p) /\ older' = [older EXCEPT ![p] = {}]
  /\ counted' = [counted EXCEPT ![p] = "none"] /\ audit' = [audit EXCEPT ![p] = FALSE]
  /\ UNCHANGED <<rows, coverage, searching, old>>

\* A process that waits for the lock and is waited for by who holds it: a deadlock.
BuildDeadlocks(p) ==
  at[p] = "waiting" /\ StillThere(p) # {} /\ Ends(p) /\ UNCHANGED <<index, faults>>

\* A build that waits for a transaction of somebody else is ended by its lock_timeout.
BuildTimesOut(p) ==
  /\ at[p] = "waiting" /\ faults < MaxFaults /\ faults' = faults + 1
  /\ Ends(p) /\ UNCHANGED index

\* Mutant: the advisory lock is kept.
RecheckLocked(p) ==
  /\ at[p] = "recheck" /\ GoTo(p, IF index = "ready" THEN "serving" ELSE "down")
  /\ UNCHANGED <<rows, coverage, index, lock, counted, audit, older>> /\ Idle

Recheck(p) ==
  /\ at[p] = "recheck" /\ lock' = Nobody
  /\ GoTo(p, IF index = "ready" THEN "serving" ELSE "down")
  /\ UNCHANGED <<rows, coverage, index, counted, audit, older>> /\ Idle

\* The process dies or loses its connection, and the locks of its session go with it; the
\* session may end a build first.
Crash(p) ==
  /\ at[p] # "down" /\ faults < MaxFaults /\ faults' = faults + 1 /\ Ends(p)
  /\ index' \in IF at[p] \in {"building", "waiting"} THEN {"invalid", "ready"} ELSE {index}

---------------------------------------------------------------------------------
\* A search with a vector of such a model.

SearchGoes(s) ==
  /\ search' = s
  /\ UNCHANGED <<rows, coverage, index, lock, starting, faults, old>>

Search ==
  /\ search = "idle" /\ SearchGoes("covered")
  /\ asked' = raw \cap Asked /\ found' = {}

\* ann_projection_search_ready
ReadCoverage ==
  /\ search = "covered" /\ SearchGoes(IF coverage = "ok" THEN "gaps" ELSE "raw")
  /\ UNCHANGED <<found, asked>>

\* Mutant: the count is believed.
BelieveCoverage == search = "gaps" /\ SearchGoes("copy") /\ UNCHANGED <<found, asked>>

\* ann_projection_filter_has_missing_rows
LookForGaps ==
  /\ search = "gaps" /\ SearchGoes(IF raw \cap Asked \subseteq projected THEN "copy" ELSE "raw")
  /\ UNCHANGED <<found, asked>>

Query ==
  /\ search \in {"copy", "raw"} /\ SearchGoes("done")
  /\ found' = (IF search = "copy" THEN projected ELSE raw) \cap Asked
  /\ UNCHANGED asked

Answered == search = "done" /\ SearchGoes("idle") /\ found' = {} /\ asked' = {}

---------------------------------------------------------------------------------

Step(p) ==
  \/ Reconcile(p) \/ Count(p) \/ RecordCoverage(p) \/ LockIndex(p) \/ CheckIndex(p)
  \/ CreateIndex(p) \/ BuildWaits(p) \/ BuildDone(p) \/ BuildDeadlocks(p) \/ Recheck(p)

Next ==
  \/ \E t \in Targets : InsertEmbedding(t) \/ InsertOld(t)
  \/ \E p \in Processes :
       Start(p) \/ Step(p) \/ Audit(p) \/ LockTimesOut(p) \/ BuildTimesOut(p) \/ Crash(p)
  \/ Search \/ ReadCoverage \/ LookForGaps \/ Query \/ Answered

\* What a process does next it does, and one that has ended is started again.
Fairness == \A p \in Processes : WF_vars(Start(p)) /\ WF_vars(Step(p))

Spec == Init /\ [][Next]_vars /\ Fairness

---------------------------------------------------------------------------------

\* A search finds every vector that was there when it began, although the row that says
\* the copy is whole may be older than the last count and older than the gap
\* (search_vector_knn).
FindsWhatWasThere == search = "done" => asked \subseteq found

\* However starts collide, each process serves in the end, again after each crash, unless
\* a build that was broken off has left its index, which nothing here drops.
StartsSucceed ==
  \A p \in Processes : []<>(at[p] = "serving" \/ (index = "invalid" /\ lock = Nobody))
=====================================================================================
