------------------------------- MODULE TagDrain -------------------------------
(***************************************************************************)
(* The tag queue of kEngram: captures enqueue a job, the worker drains     *)
(* jobs in batches through the tagger into thoughts.tags and thought_links,*)
(* and `kengram tag' does the same for existing thoughts past the queue.   *)
(* Relation mutations are RelationService's atomic ones (RelationLedger    *)
(* implements them); every other statement here commits on its own.        *)
(***************************************************************************)
EXTENDS RelationService

CONSTANTS
  Workers,         \* the worker tasks of `kengram serve' processes
  Runs,            \* `kengram tag' runs, each of them once
  Emissions,       \* the outputs the tagger may give: their relations
  MaxTagAttempts,  \* MAX_TAG_ATTEMPTS, 5 in the code
  BatchSize,       \* [worker] batch_size
  MaxFaults        \* bound: storage failures, lost answers and crashes

ASSUME DrainAssumption ==
  /\ Emissions \subseteq [edges: SUBSET Edges, repeated: BOOLEAN]
  /\ \A x \in Emissions : \A e \in x.edges : e.to \in Externals
  /\ Workers \cap Runs = {}
  /\ "job" \notin Runs
  /\ {MaxTagAttempts, BatchSize} \subseteq Nat \ {0}
  /\ MaxFaults \in Nat
  /\ IsFiniteSet(Workers)

\* What link_thoughts and unlink_thoughts send is one operation,
\* and never the tagger's.
ASSUME AgentAssumption ==
  \A r \in Requests : Len(r.ops) = 1 /\ r.ops[1].action # "replace_tagger_set"

VARIABLES
  tags,      \* thoughts.tags, as the tagger output they were taken from
  pending,   \* the thoughts with a row in pending_tags
  attempts,  \* pending_tags.attempts; more than MaxTagAttempts is counted no further
  at,        \* where each process is in process_tag_job; "absent" if it does not run
  batch,     \* its jobs still to do, as they were when it fetched them
  output,    \* the tagger's answer for the job at hand
  faults,
  failures,  \* history: failed tagger calls for each job, up to one past its bound
  givenUp    \* history: jobs dropped after tagger errors

jobs == <<pending, attempts>>
vars == <<thought, edges, ledger, tags, pending, attempts, at, batch, output,
          faults, failures, givenUp>>

Processes == Workers \cup Runs

NoTags == [none |-> TRUE]

\* Thoughts are numbered in the order of created_at and enqueued_at.
Job(p) == Head(batch[p])
Place(ts, t) == Cardinality({u \in ts : u <= t})
Nth(ts, i) == CHOOSE t \in ts : Place(ts, t) = i
JobsOf(ts) ==
  [i \in 1..Cardinality(ts) |-> [thought |-> Nth(ts, i), attempts |-> attempts[Nth(ts, i)]]]

EmissionsOf(t) == {x \in Emissions : \A e \in x.edges : e.from = t}

TypeOK ==
  /\ thought \in [Thoughts -> {"absent", "active", "retracted"}]
  /\ edges \in [Edges -> EdgeStates]
  /\ tags \in [Thoughts -> Emissions \cup {NoTags}]
  /\ pending \subseteq {t \in Thoughts : thought[t] # "absent"}
  /\ attempts \in [Thoughts -> 0..MaxTagAttempts]
  /\ at \in [Processes -> {"absent", "idle", "tag", "write", "relate", "complete", "done"}]
  /\ batch \in [Processes -> Seq([thought: Thoughts, attempts: 0..MaxTagAttempts])]
  /\ \A p \in Processes : batch[p] = <<>> <=> at[p] \in {"absent", "idle", "done"}
  /\ output \in [Processes -> Emissions \cup {NoTags}]
  /\ faults \in 0..MaxFaults
  /\ givenUp \subseteq Thoughts

\* Some processes are there, some thoughts were dealt with long ago, some faults are past.
StartWith(present, settled, spent) ==
  /\ thought = [t \in Thoughts |-> IF t \in settled THEN "retracted" ELSE "absent"]
  /\ edges = [e \in Edges |-> "never"]
  /\ ledger = {}
  /\ tags = [t \in Thoughts |-> NoTags]
  /\ pending = {}
  /\ attempts = [t \in Thoughts |-> 0]
  /\ at = [p \in Processes |-> IF p \in present THEN "idle" ELSE "absent"]
  /\ batch = [p \in Processes |-> <<>>]
  /\ output = [p \in Processes |-> NoTags]
  /\ faults = spent
  /\ failures = [t \in Thoughts |-> 0]
  /\ givenUp = settled

Init ==
  \E present \in SUBSET Processes, settled \in SUBSET Thoughts, spent \in 0..MaxFaults :
    present \cap Workers # {} /\ StartWith(present, settled, spent)

------------------------------------------------------------------------------
GoTo(p, label) == at' = [at EXCEPT ![p] = label]

Rest(p) == IF p \in Runs THEN "done" ELSE "idle"

\* The process is through with the job at hand and turns to the next one.
NextJob(p) ==
  /\ batch' = [batch EXCEPT ![p] = Tail(@)]
  /\ output' = [output EXCEPT ![p] = NoTags]
  /\ GoTo(p, IF Len(batch[p]) = 1 THEN Rest(p) ELSE "tag")

Fault == faults < MaxFaults /\ faults' = faults + 1

\* Mutant: a retry counts no attempt.
NothingCounted(p) == UNCHANGED attempts

\* increment_tag_job_attempts; a run has no row to count on.
CountAttempt(p) ==
  attempts' = [attempts EXCEPT ![Job(p).thought] =
                 IF p \in Workers /\ Job(p).thought \in pending /\ @ < MaxTagAttempts
                 THEN @ + 1 ELSE @]

\* The job stays queued and counts an attempt, unless that write fails (`let _').
Postpone(p) ==
  /\ NextJob(p)
  /\ \/ CountAttempt(p) /\ UNCHANGED faults
     \/ Fault /\ UNCHANGED attempts

\* The same after a storage failure, which may or may not take the count too.
PostponeAfterFault(p) ==
  /\ NextJob(p)
  /\ Fault
  /\ CountAttempt(p) \/ UNCHANGED attempts

Dequeue(p) == pending' = pending \ {Job(p).thought}

------------------------------------------------------------------------------
\* fetch_pending_tag_jobs: the oldest rows, neither claimed nor locked.
Fetch(w) ==
  /\ at[w] = "idle"
  /\ pending # {}
  /\ LET all == JobsOf(pending) IN
     batch' = [batch EXCEPT ![w] =
                 SubSeq(all, 1, IF Len(all) < BatchSize THEN Len(all) ELSE BatchSize)]
  /\ GoTo(w, "tag")
  /\ UNCHANGED <<serviceVars, tags, jobs, output, faults, failures, givenUp>>

\* find_untagged_or_stale_thoughts, with and without --force.
StartRun(c) ==
  /\ at[c] = "idle"
  /\ \E force \in BOOLEAN :
       LET found == {t \in Thoughts : thought[t] = "active" /\ (force \/ tags[t] = NoTags)} IN
       /\ batch' = [batch EXCEPT ![c] = JobsOf(found)]
       /\ GoTo(c, IF found = {} THEN "done" ELSE "tag")
  /\ UNCHANGED <<serviceVars, tags, jobs, output, faults, failures, givenUp>>

\* The thought or the vocabulary of its scope cannot be read.
ReadFails(w) ==
  /\ at[w] = "tag"
  /\ PostponeAfterFault(w)
  /\ UNCHANGED <<serviceVars, tags, pending, failures, givenUp>>

Tagged(p) ==
  /\ at[p] = "tag"
  /\ \E x \in EmissionsOf(Job(p).thought) : output' = [output EXCEPT ![p] = x]
  /\ GoTo(p, "write")
  /\ UNCHANGED <<serviceVars, tags, jobs, batch, faults, failures, givenUp>>

\* With two workers each may call once more on a row it fetched before the last count.
CallsAllowed == MaxTagAttempts + 2 * (Cardinality({w \in Workers : at[w] # "absent"}) - 1)

CountFailure(p) ==
  failures' = [failures EXCEPT ![Job(p).thought] =
                 IF p \in Workers /\ @ <= CallsAllowed + MaxFaults THEN @ + 1 ELSE @]

\* Mutant: the cap is one attempt late.
LastAttemptLate(job) == job.attempts + 1 > MaxTagAttempts

LastAttempt(job) == job.attempts + 1 >= MaxTagAttempts

\* A transient tagger error with attempts to spare, or any error in a run.
TaggerFails(p) ==
  /\ at[p] = "tag"
  /\ p \in Runs \/ ~LastAttempt(Job(p))
  /\ CountFailure(p)
  /\ Postpone(p)
  /\ UNCHANGED <<serviceVars, tags, pending, givenUp>>

\* A permanent tagger error, or the last attempt: the row is deleted, if it can be.
GiveUp(w) ==
  /\ at[w] = "tag"
  /\ CountFailure(w)
  /\ \/ /\ Dequeue(w)
        /\ givenUp' = givenUp \cup {Job(w).thought}
        /\ UNCHANGED faults
     \/ Fault /\ UNCHANGED <<pending, givenUp>>
  /\ NextJob(w)
  /\ UNCHANGED <<serviceVars, tags, attempts>>

------------------------------------------------------------------------------
TagsWritten(p) == [tags EXCEPT ![Job(p).thought] = output[p]]

WriteTags(p) ==
  /\ at[p] = "write"
  /\ tags' = TagsWritten(p)
  /\ GoTo(p, "relate")
  /\ UNCHANGED <<serviceVars, jobs, batch, output, faults, failures, givenUp>>

WriteFails(p) ==
  /\ at[p] = "write"
  /\ tags' \in {tags, TagsWritten(p)}
  /\ PostponeAfterFault(p)
  /\ UNCHANGED <<serviceVars, pending, failures, givenUp>>

TaggerRequest(key, t, x) ==
  [key |-> <<t, key>>,
   ops |-> <<[action |-> "replace_tagger_set", from |-> t, edges |-> x.edges,
              repeated |-> x.repeated]>>]

\* The replay key is the job's generation, the same in every retry ...
JobRequest(t, x) == TaggerRequest("job", t, x)

\* ... and a run draws a new one for every thought.
Request(p) == TaggerRequest(IF p \in Workers THEN "job" ELSE p, Job(p).thought, output[p])

Accepts(r) == Acceptable(r) /\ \A op \in OpsOf(r) : ~Raises(op, edges)

\* Mutant: the key alone decides, whatever set was published under it.
ReplaysKey(r) == \E row \in ledger : row.req.key = r.key

Replays(r) == \E row \in ledger : row.req = r

Related(p) ==
  /\ IF p \in Workers THEN GoTo(p, "complete") /\ UNCHANGED <<batch, output>> ELSE NextJob(p)
  /\ UNCHANGED <<tags, jobs, faults, failures, givenUp>>

Relate(p) ==
  /\ at[p] = "relate"
  /\ \/ Accepts(Request(p)) /\ Perform(Request(p))
     \/ Replays(Request(p)) /\ UNCHANGED serviceVars
  /\ Related(p)

\* Mutant: a relation set that is refused is skipped and the job completes.
RefusalSkipped(p) ==
  /\ at[p] = "relate"
  /\ ~Accepts(Request(p)) /\ ~Replays(Request(p))
  /\ Related(p)
  /\ UNCHANGED serviceVars

\* source_event_conflict, a retracted thought or an edge that is already live.
RelateRefused(p) ==
  /\ at[p] = "relate"
  /\ ~Accepts(Request(p)) /\ ~Replays(Request(p))
  /\ Postpone(p)
  /\ UNCHANGED <<serviceVars, tags, pending, failures, givenUp>>

RelateFails(p) ==
  /\ at[p] = "relate"
  /\ \/ Accepts(Request(p)) /\ Perform(Request(p))
     \/ UNCHANGED serviceVars
  /\ PostponeAfterFault(p)
  /\ UNCHANGED <<tags, pending, failures, givenUp>>

Complete(w) ==
  /\ at[w] = "complete"
  /\ Dequeue(w)
  /\ NextJob(w)
  /\ UNCHANGED <<serviceVars, tags, attempts, faults, failures, givenUp>>

\* The row stays; the job is reported completed all the same.
CompleteFails(w) ==
  /\ at[w] = "complete"
  /\ Fault
  /\ NextJob(w)
  /\ UNCHANGED <<serviceVars, tags, jobs, failures, givenUp>>

\* The process is killed, or stopped by the end of the shutdown deadline.
Crash(p) ==
  /\ at[p] \notin {"absent", "idle", "done"}
  /\ Fault
  /\ GoTo(p, Rest(p))
  /\ batch' = [batch EXCEPT ![p] = <<>>]
  /\ output' = [output EXCEPT ![p] = NoTags]
  /\ UNCHANGED <<serviceVars, tags, jobs, failures, givenUp>>

------------------------------------------------------------------------------
\* capture_thought_gated inserts the thought and its job in one transaction.
Capture(t) ==
  /\ Arrive(t)
  /\ pending' = pending \cup {t}
  /\ UNCHANGED <<tags, attempts, at, batch, output, faults, failures, givenUp>>

\* What agents do meanwhile: link, unlink, retract.
Agents ==
  /\ \/ \E r \in Requests : Accepts(r) /\ Perform(r)
     \/ \E t \in Retractable : Retract(t)
  /\ UNCHANGED <<tags, jobs, at, batch, output, faults, failures, givenUp>>

Step(p) == Tagged(p) \/ TaggerFails(p) \/ WriteTags(p) \/ WriteFails(p)
             \/ Relate(p) \/ RelateRefused(p) \/ RelateFails(p)

Work(w) == Fetch(w) \/ Step(w) \/ ReadFails(w) \/ GiveUp(w) \/ Complete(w) \/ CompleteFails(w)

Next ==
  \/ \E w \in Workers : Work(w)
  \/ \E c \in Runs : StartRun(c) \/ Step(c)
  \/ \E p \in Processes : Crash(p)
  \/ \E t \in Thoughts : Capture(t)
  \/ Agents

Spec == Init /\ [][Next]_vars

(***************************************************************************)
(* The worker's ticker fires again and again and awaits what it started,   *)
(* and a tagger call ends, by its timeout if not otherwise.                *)
(***************************************************************************)
FairSpec == Spec /\ \A w \in Workers : WF_vars(Work(w))

------------------------------------------------------------------------------
(***************************************************************************)
(* A job leaves the queue only when the thought's tags are written and its *)
(* relations published, or after the tagger itself has failed: storage     *)
(* failures, lost answers, crashes, refusals, retractions, and rival       *)
(* workers and runs lose no thought.                                       *)
(***************************************************************************)
JobsEndPublished ==
  \A t \in Thoughts : thought[t] # "absent" /\ t \notin pending /\ t \notin givenUp =>
    /\ tags[t] # NoTags
    /\ \E row \in ledger : row.req.key = <<t, "job">>

TaggerEdges(t) == {e \in Edges : e.from = t /\ edges[e] = "tagger"}

\* One worker and nothing else.
Alone == \E w \in Workers : \A p \in Processes \ {w} : at[p] = "absent"

(***************************************************************************)
(* Tags and relations of a completed thought come from the same answer of  *)
(* the tagger, although they are written apart and the tagger may answer a *)
(* retry differently (one worker, no `kengram tag' alongside it).          *)
(***************************************************************************)
TagsAgreeWithEdges ==
  Alone => \A t \in Thoughts : thought[t] # "absent" /\ t \notin pending /\ t \notin givenUp =>
             TaggerEdges(t) \subseteq tags[t].edges

(***************************************************************************)
(* MAX_TAG_ATTEMPTS counts from the first call: no job's tagger calls fail *)
(* more often, but for the attempts whose count was lost and, as rows are  *)
(* fetched without a claim, two calls for every further worker.            *)
(***************************************************************************)
FailedCallsBounded == \A t \in Thoughts : failures[t] <= CallsAllowed + faults

(***************************************************************************)
(* "A retry can never publish a partial generation": whoever tags a        *)
(* thought, and however often, its tagger edges are part of one answer.    *)
(***************************************************************************)
OneSetPublished ==
  \A t \in Thoughts : TaggerEdges(t) # {} =>
    \E row \in ledger : \E op \in OpsOf(row.req) :
      op.action = "replace_tagger_set" /\ op.from = t /\ TaggerEdges(t) \subseteq op.edges

(***************************************************************************)
(* "Agent-supplied edges are untouched" by a re-tag, whose answer knows    *)
(* nothing of them: a row an agent owns is neither taken over nor deleted. *)
(* (A tagger's row that an agent asserts again stays the tagger's.)        *)
(***************************************************************************)
RetagKeepsAgentRows ==
  [][(\E p \in Processes : Relate(p)) =>
       \A e \in Edges : edges[e] = "agent" => edges'[e] = "agent"]_vars

(***************************************************************************)
(* Every job leaves the queue in the end, unless an answer the tagger may  *)
(* give is one the relation ledger refuses (on that path no attempt is the *)
(* last one), or older jobs of that kind fill every batch.                 *)
(***************************************************************************)
Refusable(t) ==
  \E x \in EmissionsOf(t) : LET r == JobRequest(t, x) IN ~Accepts(r) /\ ~Replays(r)

Starved(t) == Cardinality({u \in pending : u < t /\ Refusable(u)}) >= BatchSize

JobsLeave ==
  \A t \in Thoughts : t \in pending ~> t \notin pending \/ Refusable(t) \/ Starved(t)
==============================================================================
