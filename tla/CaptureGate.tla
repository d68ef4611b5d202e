------------------------------ MODULE CaptureGate ------------------------------
(***************************************************************************)
(* Capture: a call runs capture_thought_gated in one READ COMMITTED        *)
(* transaction.  MCP calls bring no vector and have a deadline of one      *)
(* second; a call that misses it probes the ledgers to tell its client     *)
(* whether it landed.  The Argus consumer calls the function directly,     *)
(* with a vector if it got one.  A dropped call may leave a transaction    *)
(* behind: it rolls back, unless its COMMIT was on its way.  Clients send  *)
(* the same request again.  The gate's mode is `enforce'.                  *)
(***************************************************************************)
EXTENDS Naturals, FiniteSets

CONSTANTS
  Contents,    \* texts, as their fingerprints
  Sources,     \* argus_source_event identities: namespace and source_ref
  Hashes,      \* payload hashes
  Intents,     \* non-empty relation intents, canonical
  Families,    \* agent keys of agents/<key> and sessions/<key> scopes
  None,        \* no source event, no intents, no family, no thought, no gate row
  Near,        \* pairs of texts whose vectors are above semantic_threshold
  Safe,        \* those whose atoms, polarity and novelty let one stand for the other
  Requests, Clients,
  Hygiene,     \* denied thoughts get no vector, and ingest-hygiene is run
  MaxCalls     \* bound: how often a client sends its request

RequestType ==
  [via: {"mcp", "consumer"}, content: Contents, source: Sources \cup {None}, hash: Hashes,
   intents: Intents \cup {None}, family: Families \cup {None}, vector: BOOLEAN]

ASSUME GateAssumption ==
  /\ Requests \subseteq RequestType
  /\ \A r \in Requests : r.source = None => r.intents = None
  /\ \A r \in Requests : IF r.via = "mcp" THEN ~r.vector
                         ELSE r.source # None /\ r.intents = None
  /\ None \notin Contents \cup Sources \cup Intents \cup Families \cup Requests
  /\ Near \subseteq Contents \X Contents /\ Safe \subseteq Near
  /\ Hygiene \in BOOLEAN /\ MaxCalls \in Nat

Calls == Clients \X (1..MaxCalls)

VARIABLES
  thought,   \* thoughts and their embeddings, one row for a content
  queued,    \* pending_embeddings: the contents of its thoughts
  givenUp,   \* history: jobs ingest-hygiene deleted because they kept failing
  event,     \* argus_source_events
  gate,      \* thought_ingest_gate_events; a call writes at most one
  request,   \* what each client asks
  pc,        \* where the transaction of each call is
  draft,     \* what it has decided to write and to answer
  locked,    \* it holds the advisory lock of its family
  client,    \* where the call itself is: waiting for its transaction, probing, over
  retries,   \* how often its fingerprint race sent it back to the start
  replies    \* what each call was told

tables == <<thought, queued, givenUp, event, gate>>
txn == <<pc, draft, locked>>
vars == <<tables, request, txn, client, retries, replies>>

Absent == [state |-> "absent"]
NoEvent == [status |-> "missing"]
NoDraft == [action |-> "none"]

R(a) == request[a[1]]

Actions ==
  {"inserted", "fail_open_insert", "out_of_family_insert", "exact_duplicate",
   "semantic_duplicate", "source_event_conflict"}

\* From claim to sent the transaction is open; from lookup it holds its source event.
OpenPcs == {"claim", "lookup", "family", "compare", "insert", "commit", "sent"}
Open(a) == pc[a] \in OpenPcs

DraftType ==
  [action: Actions, thought: Contents \cup {None}, inserts: BOOLEAN, vector: BOOLEAN,
   ledger: {"new", "replay", "conflict"}, gate: Calls \cup {None}]

ReplyType ==
  [kind: {"answered", "recovered"}, action: Actions \cup {"stored"},
   thought: Contents \cup {None}, gate: Calls \cup {None}]
Failure == [kind: {"not_persisted", "unknown", "error", "rejected"}]

TypeOK ==
  /\ thought \in [Contents -> {Absent} \cup
                    [state: {"active", "retracted"}, family: Families \cup {None}, vector: BOOLEAN]]
  /\ queued \cup givenUp \subseteq {c \in Contents : thought[c] # Absent}
  /\ event \in [Sources -> {NoEvent} \cup
                  [status: {"stored", "skipped", "conflict"}, hash: Hashes,
                   thought: Contents, intents: Intents \cup {None}, gate: Calls]]
  /\ gate \subseteq [call: Calls, action: Actions]
  /\ request \in [Clients -> Requests \cup {None}]
  /\ pc \in [Calls -> {"unused", "landed", "over"} \cup OpenPcs]
  /\ draft \in [Calls -> {NoDraft} \cup DraftType]
  /\ \A a \in Calls : pc[a] \in {"insert", "commit", "sent", "landed"} => draft[a] # NoDraft
  /\ locked \in [Calls -> BOOLEAN]
  /\ client \in [Calls -> {"unused", "waiting", "probing", "over"}]
  /\ replies \in [Calls -> {None} \cup ReplyType \cup Failure]

Init ==
  /\ thought = [c \in Contents |-> Absent]
  /\ queued = {}
  /\ givenUp = {}
  /\ event = [s \in Sources |-> NoEvent]
  /\ gate = {}
  /\ request = [c \in Clients |-> None]
  /\ pc = [a \in Calls |-> "unused"]
  /\ draft = [a \in Calls |-> NoDraft]
  /\ locked = [a \in Calls |-> FALSE]
  /\ client = [a \in Calls |-> "unused"]
  /\ retries = [a \in Calls |-> 0]
  /\ replies = [a \in Calls |-> None]

------------------------------------------------------------------------------
GoTo(a, label) == pc' = [pc EXCEPT ![a] = label]

Decision(action, c, ledger, row) ==
  [action |-> action, thought |-> c, inserts |-> FALSE, vector |-> FALSE,
   ledger |-> ledger, gate |-> row]

\* The thought exists: nothing is left but the ledgers.
Decide(a, decision) ==
  /\ draft' = [draft EXCEPT ![a] = decision]
  /\ GoTo(a, "commit")

\* A row is to be inserted, with the vector of the request if it may be trusted.
Keep(a, action, vector) ==
  /\ draft' = [draft EXCEPT ![a] =
       [Decision(action, R(a).content, "new", a) EXCEPT !.inserts = TRUE, !.vector = vector]]
  /\ GoTo(a, "insert")

Reply(a, x) ==
  /\ client' = [client EXCEPT ![a] = "over"]
  /\ replies' = [replies EXCEPT ![a] = x]

Fail(kind) == [kind |-> kind]

\* The transaction rolls back: its claim, its locks and its rows are gone.
RollBackTo(a, label) ==
  /\ GoTo(a, label)
  /\ draft' = [draft EXCEPT ![a] = NoDraft]
  /\ locked' = [locked EXCEPT ![a] = FALSE]
  /\ UNCHANGED tables

Running(a, label) == pc[a] = label /\ client[a] = "waiting"
InDatabase == UNCHANGED <<tables, request, client, retries, replies>>

\* Failures after which a client sends its request again, not those the gate decided.
Retried(x) == x \in Failure /\ x.kind # "rejected"

\* A client sends its request, for the first time or again after a failure.
Call(c, n) ==
  /\ pc[<<c, n>>] = "unused"
  /\ n > 1 => client[<<c, n - 1>>] = "over" /\ Retried(replies[<<c, n - 1>>])
  /\ \E r \in IF n = 1 THEN Requests ELSE {request[c]} : request' = [request EXCEPT ![c] = r]
  /\ GoTo(<<c, n>>, "claim")
  /\ client' = [client EXCEPT ![<<c, n>>] = "waiting"]
  /\ UNCHANGED <<tables, draft, locked, retries, replies>>

------------------------------------------------------------------------------
HoldsSource(b, s) == pc[b] \in OpenPcs \ {"claim"} /\ R(b).source = s

\* Mutant: the identity is looked up in the committed rows only.
ClaimsAtOnce(a) == R(a).source # None

\* INSERT ... ON CONFLICT DO NOTHING or SELECT FOR UPDATE of the identity's row.
ClaimsSource(a) ==
  /\ R(a).source # None
  /\ \A b \in Calls : ~HoldsSource(b, R(a).source)

\* Mutant: the recorded intents keep the from_thought_id that the request lacks.
IntentsNeverMatch(a, row) == R(a).intents # None \/ row.intents # None

IntentsDiffer(a, row) == row.intents # R(a).intents

Unclaimed(a) ==
  /\ Running(a, "claim")
  /\ \/ R(a).source = None
     \/ ClaimsSource(a) /\ event[R(a).source] = NoEvent
  /\ GoTo(a, "lookup")
  /\ UNCHANGED <<draft, locked>> /\ InDatabase

\* The identity is taken: the same request is a replay, any other a conflict.
Replayed(a) ==
  /\ Running(a, "claim")
  /\ ClaimsSource(a)
  /\ event[R(a).source] # NoEvent
  /\ LET row == event[R(a).source]
         conflict == Decision("source_event_conflict", row.thought, "conflict", None)
     IN Decide(a,
          IF row.hash # R(a).hash THEN conflict
          ELSE IF IntentsDiffer(a, row) THEN [conflict EXCEPT !.ledger = "replay"]
          ELSE Decision(IF row.status = "skipped" THEN "semantic_duplicate"
                                                  ELSE "exact_duplicate",
                        row.thought, "replay", row.gate))
  /\ UNCHANGED locked /\ InDatabase

ExactDuplicate(a) == Decision("exact_duplicate", R(a).content, "new", a)

\* Mutant: only active thoughts are looked up, as the deadline probe does.
LookupActive(a) ==
  /\ Running(a, "lookup")
  /\ IF thought[R(a).content].state = "active"
     THEN R(a).intents = None /\ Decide(a, ExactDuplicate(a))
     ELSE GoTo(a, "family") /\ UNCHANGED draft
  /\ UNCHANGED locked /\ InDatabase

\* The fingerprint lookup, which does not ask whether the thought is retracted.
Lookup(a) ==
  /\ Running(a, "lookup")
  /\ IF thought[R(a).content] # Absent
     THEN R(a).intents = None /\ Decide(a, ExactDuplicate(a))
     ELSE GoTo(a, "family") /\ UNCHANGED draft
  /\ UNCHANGED locked /\ InDatabase

\* exact_content_requires_adjudication
RequiresAdjudication(a) ==
  /\ Running(a, "lookup")
  /\ thought[R(a).content] # Absent
  /\ R(a).intents # None
  /\ RollBackTo(a, "over")
  /\ Reply(a, Fail("rejected"))
  /\ UNCHANGED <<request, retries>>

FamilyBusy(a) == \E b \in Calls : locked[b] /\ R(b).family = R(a).family

\* Mutant: the family is compared without its lock.
EnterUnlocked(a) ==
  /\ Running(a, "family")
  /\ R(a).family # None
  /\ IF thought[R(a).content] # Absent THEN Decide(a, ExactDuplicate(a))
     ELSE IF R(a).vector THEN GoTo(a, "compare") /\ UNCHANGED draft
     ELSE Keep(a, "fail_open_insert", FALSE)
  /\ UNCHANGED locked /\ InDatabase

\* pg_try_advisory_xact_lock, and the second fingerprint lookup under it.
EnterFamily(a) ==
  /\ Running(a, "family")
  /\ R(a).family # None /\ ~FamilyBusy(a)
  /\ locked' = [locked EXCEPT ![a] = TRUE]
  /\ IF thought[R(a).content] # Absent THEN Decide(a, ExactDuplicate(a))
     ELSE IF R(a).vector THEN GoTo(a, "compare") /\ UNCHANGED draft
     ELSE Keep(a, "fail_open_insert", FALSE)
  /\ InDatabase

NotCompared(a) ==
  /\ Running(a, "family")
  /\ \/ R(a).family = None /\ Keep(a, "out_of_family_insert", R(a).vector)
     \/ R(a).family # None /\ FamilyBusy(a) /\ Keep(a, "fail_open_insert", FALSE)
  /\ UNCHANGED locked /\ InDatabase

\* The nearest active and embedded thoughts of the family.
Matches(a) ==
  LET family == {c \in Contents : /\ thought[c] # Absent
                                  /\ thought[c].state = "active" /\ thought[c].vector
                                  /\ thought[c].family = R(a).family}
      near == {c \in family : <<R(a).content, c>> \in Near}
  IN IF near = {} THEN family ELSE near

\* Only the best match is looked at; the comparison may fail, and the thought is kept.
Compare(a) ==
  /\ Running(a, "compare")
  /\ \/ Matches(a) = {} /\ Keep(a, "inserted", TRUE)
     \/ \E m \in Matches(a) :
          IF <<R(a).content, m>> \in Safe
          THEN Decide(a, Decision("semantic_duplicate", m, "new", a))
          ELSE Keep(a, "inserted", TRUE)
     \/ Keep(a, "fail_open_insert", FALSE)
  /\ UNCHANGED locked /\ InDatabase

\* The unique index on the fingerprint: an insert waits for a rival's.
RivalInserts(a) ==
  \E b \in Calls \ {a} : pc[b] \in {"commit", "sent"} /\ draft[b].inserts
                           /\ draft[b].thought = R(a).content

Insert(a) ==
  /\ Running(a, "insert")
  /\ ~RivalInserts(a) /\ thought[R(a).content] = Absent
  /\ GoTo(a, "commit")
  /\ UNCHANGED <<draft, locked>> /\ InDatabase

Conflicts(a) ==
  /\ Running(a, "insert")
  /\ ~RivalInserts(a) /\ thought[R(a).content] # Absent

\* Mutant: the statement is sent again in the transaction that has failed.
RaceStays(a) ==
  /\ Conflicts(a)
  /\ retries[a] < 2
  /\ retries' = [retries EXCEPT ![a] = @ + 1]
  /\ UNCHANGED <<tables, request, txn, client, replies>>

\* thoughts_content_fingerprint_unique: the transaction starts afresh ...
LosesRace(a) ==
  /\ Conflicts(a)
  /\ R(a).via = "mcp"
  /\ retries' = [retries EXCEPT ![a] = @ + 1]
  /\ RollBackTo(a, "claim")
  /\ UNCHANGED <<request, client, replies>>

\* ... but for the consumer it is one more error of the gate, and not a transient one.
ConsumerRejects(a) ==
  /\ Conflicts(a)
  /\ R(a).via = "consumer"
  /\ RollBackTo(a, "over")
  /\ Reply(a, Fail("rejected"))
  /\ UNCHANGED <<request, retries>>

\* The relation mutation of the intents raises (see RelationService.Acceptable).
IntentsRefused(a) ==
  /\ Running(a, "commit")
  /\ R(a).intents # None /\ draft[a].ledger = "new"
  /\ RollBackTo(a, "over")
  /\ Reply(a, Fail("rejected"))
  /\ UNCHANGED <<request, retries>>

SendCommit(a) ==
  /\ Running(a, "commit")
  /\ GoTo(a, "sent")
  /\ UNCHANGED <<draft, locked>> /\ InDatabase

------------------------------------------------------------------------------
EventRow(a) ==
  [status |-> IF draft[a].action = "semantic_duplicate" THEN "skipped" ELSE "stored",
   hash |-> R(a).hash, thought |-> draft[a].thought, intents |-> R(a).intents, gate |-> a]

\* Mutant: the job is enqueued only for a request that came without a vector.
QueuedUnlessGiven(a) == draft[a].inserts /\ ~R(a).vector

NeedsVector(a) == draft[a].inserts /\ ~draft[a].vector

\* The COMMIT takes effect, whether or not anyone is waiting for it still.
Land(a) ==
  /\ pc[a] = "sent"
  /\ thought' = IF draft[a].inserts
                THEN [thought EXCEPT ![draft[a].thought] =
                        [state |-> "active", family |-> R(a).family, vector |-> draft[a].vector]]
                ELSE thought
  /\ queued' = IF NeedsVector(a) THEN queued \cup {draft[a].thought} ELSE queued
  /\ event' = IF R(a).source = None \/ draft[a].ledger = "replay" THEN event
              ELSE IF draft[a].ledger = "new" THEN [event EXCEPT ![R(a).source] = EventRow(a)]
              ELSE [event EXCEPT ![R(a).source].status = "conflict"]
  /\ gate' = IF draft[a].ledger = "new" THEN gate \cup {[call |-> a, action |-> draft[a].action]}
             ELSE gate
  /\ GoTo(a, "landed")
  /\ locked' = [locked EXCEPT ![a] = FALSE]
  /\ UNCHANGED <<givenUp, request, draft, client, retries, replies>>

Answer(a) ==
  /\ Running(a, "landed")
  /\ GoTo(a, "over")
  /\ Reply(a, [kind |-> "answered", action |-> draft[a].action,
               thought |-> draft[a].thought, gate |-> draft[a].gate])
  /\ draft' = [draft EXCEPT ![a] = NoDraft]
  /\ UNCHANGED <<tables, request, locked, retries>>

\* The connection is lost, or the race budget of two seconds runs out.
LoseConnection(a) ==
  /\ client[a] = "waiting"
  /\ Reply(a, Fail("error"))
  /\ UNCHANGED <<tables, request, txn, retries>>

\* The deadline drops the call.
Deadline(a) ==
  /\ client[a] = "waiting" /\ R(a).via = "mcp"
  /\ client' = [client EXCEPT ![a] = "probing"]
  /\ UNCHANGED <<tables, request, txn, retries, replies>>

\* A transaction nobody waits for ends, unless its COMMIT was sent: then it may land.
Abandon(a) ==
  /\ Open(a) /\ client[a] # "waiting"
  /\ RollBackTo(a, "over")
  /\ UNCHANGED <<request, client, retries, replies>>

------------------------------------------------------------------------------
GateRows(a) == {row \in gate : row.call = a}

Recovered(action, c, row) ==
  [kind |-> "recovered", action |-> action, thought |-> c, gate |-> row]

\* Mutant: any thought of this content is taken for the call's own.
ProbeContent(a) ==
  IF thought[R(a).content] = Absent THEN Fail("not_persisted")
  ELSE Recovered("stored", R(a).content, None)

\* By the source event where there is one; its gate row only if this call wrote it.
ProbeSource(a) ==
  LET row == event[R(a).source] IN
  IF row = NoEvent THEN Fail("not_persisted")
  ELSE IF row.hash # R(a).hash THEN Recovered("source_event_conflict", row.thought, None)
  ELSE IF GateRows(a) = {} THEN Recovered("stored", row.thought, None)
  ELSE Recovered((CHOOSE g \in GateRows(a) : TRUE).action, row.thought, a)

\* By this call's gate row; the thought must be active, or the row name a match.
ProbeCall(a) ==
  IF \E row \in GateRows(a) : row.action = "exact_duplicate"
                               \/ thought[R(a).content].state = "active"
  THEN Recovered((CHOOSE row \in GateRows(a) : TRUE).action, R(a).content, a)
  ELSE Fail("not_persisted")

Probe(a) ==
  /\ client[a] = "probing"
  /\ \/ Reply(a, IF R(a).source = None THEN ProbeCall(a) ELSE ProbeSource(a))
     \/ Reply(a, Fail("unknown"))
  /\ UNCHANGED <<tables, request, txn, retries>>

------------------------------------------------------------------------------
\* What becomes of a thought; EmbedQueue has it in detail.
Row(c, state) == thought[c] # Absent /\ thought[c].state = state

Retract(c) ==
  /\ Row(c, "active")
  /\ thought' = [thought EXCEPT ![c].state = "retracted"]
  /\ UNCHANGED <<queued, givenUp>>

\* A drain inserts the vector, whatever became of the thought and its job meanwhile.
Embed(c) ==
  /\ thought[c] # Absent /\ ~thought[c].vector
  /\ thought' = [thought EXCEPT ![c].vector = TRUE]
  /\ UNCHANGED <<queued, givenUp>>

\* The job goes when the vector is there, or when the thought is denied one:
\* by the drain, without asking the embedder, or by ingest-hygiene.
Dequeue(c) ==
  /\ c \in queued
  /\ thought[c].vector \/ (Hygiene /\ Row(c, "retracted"))
  /\ queued' = queued \ {c}
  /\ UNCHANGED <<thought, givenUp>>

\* ingest-hygiene deletes a job that has failed too often or too long.
GiveUp(c) ==
  /\ Hygiene /\ c \in queued
  /\ ~thought[c].vector /\ Row(c, "active")
  /\ queued' = queued \ {c}
  /\ givenUp' = givenUp \cup {c}
  /\ UNCHANGED thought

\* ingest-hygiene deletes the vector of a denied thought.
Unembed(c) ==
  /\ Hygiene /\ Row(c, "retracted") /\ thought[c].vector
  /\ thought' = [thought EXCEPT ![c].vector = FALSE]
  /\ UNCHANGED <<queued, givenUp>>

Afterwards(c) ==
  /\ Retract(c) \/ Embed(c) \/ Dequeue(c) \/ GiveUp(c) \/ Unembed(c)
  /\ UNCHANGED <<event, gate, request, txn, client, retries, replies>>

Statement(a) ==
  \/ Unclaimed(a) \/ Replayed(a) \/ Lookup(a) \/ RequiresAdjudication(a)
  \/ EnterFamily(a) \/ NotCompared(a) \/ Compare(a) \/ Insert(a)
  \/ LosesRace(a) \/ ConsumerRejects(a)
  \/ IntentsRefused(a) \/ SendCommit(a) \/ Land(a) \/ Answer(a) \/ Abandon(a)

Next ==
  \/ \E a \in Calls : \/ Statement(a) \/ Probe(a)
                      \/ LoseConnection(a) \/ Deadline(a)
                      \/ Call(a[1], a[2])
  \/ \E c \in Contents : Afterwards(c)

Spec == Init /\ [][Next]_vars

(***************************************************************************)
(* The database runs what can run, and rolls back what was abandoned; no   *)
(* deadline has to fire and no connection to break.                        *)
(***************************************************************************)
FairSpec == Spec /\ \A a \in Calls : WF_vars(Statement(a))

------------------------------------------------------------------------------
Success(a) == replies[a] # None /\ replies[a] \notin Failure
Conflict(a) == Success(a) /\ replies[a].action = "source_event_conflict"

(***************************************************************************)
(* Every receipt names rows that are there: the thought, the gate event if *)
(* it has one, and the source event, bound to that thought and payload.    *)
(* "Never claim success for a pre-existing content match when this         *)
(* request's argus_source_event identity did not land."                    *)
(***************************************************************************)
ReceiptsAreDurable ==
  \A a \in Calls : Success(a) =>
    LET x == replies[a] IN
    /\ thought[x.thought] # Absent
    /\ x.gate # None => \E row \in gate : row.call = x.gate
    /\ R(a).source # None /\ ~Conflict(a) =>
         /\ event[R(a).source] # NoEvent
         /\ event[R(a).source].hash = R(a).hash
         /\ event[R(a).source].thought = x.thought

(***************************************************************************)
(* Captures keep what SourceLedger promises of source events: bound once,  *)
(* whatever races, retries and late commits there are, and every receipt   *)
(* tells of a binding: whoever sends the same source event and payload is  *)
(* told of the same thought, answered, replayed or recovered.              *)
(***************************************************************************)
LedgerRow(s) ==
  IF event[s] = NoEvent THEN NoEvent
  ELSE [disputed |-> event[s].status = "conflict", hash |-> event[s].hash,
        thought |-> event[s].thought]

Binding(s, h, t) == [source |-> s, hash |-> h, thought |-> t]

Ledger == INSTANCE SourceLedger WITH
  row   <- [s \in Sources |-> LedgerRow(s)],
  bound <- {Binding(s, event[s].hash, event[s].thought) :
              s \in {x \in Sources : event[x] # NoEvent}},
  told  <- {Binding(R(a).source, R(a).hash, replies[a].thought) :
              a \in {x \in Calls : Success(x) /\ ~Conflict(x) /\ R(x).source # None}}
ImplementsLedger == Ledger!LedgerSpec

(***************************************************************************)
(* "Safe to retry the exact request": a request sent again conflicts with  *)
(* nothing, its own earlier calls and their late commits included, unless  *)
(* another client uses its source event for another payload or intent.     *)
(***************************************************************************)
RetriesNeverConflict ==
  \A a \in Calls : Conflict(a) =>
    \E c \in Clients : /\ request[c] # None
                       /\ request[c].source = R(a).source
                       /\ \/ request[c].hash # R(a).hash
                          \/ request[c].intents # R(a).intents

(***************************************************************************)
(* The fingerprint race, which capture.rs retries without a cap, is over   *)
(* after one retry: a loser finds the winner's thought.                    *)
(***************************************************************************)
RaceEndsInOneRetry == \A a \in Calls : retries[a] <= 1

(***************************************************************************)
(* The family lock: of two texts that may stand for each other the gate    *)
(* lets only one in after comparing, however the captures overlap.  (What  *)
(* it kept because it could not compare is marked fail_open_insert.)       *)
(***************************************************************************)
Compared(c) ==
  \E row \in gate : row.action = "inserted" /\ R(row.call).content = c

SemanticGateHolds ==
  \A c, d \in Contents :
    /\ c # d /\ Compared(c) /\ Compared(d)
    /\ \A x \in Contents : <<c, x>> \in Near => <<c, x>> \in Safe
    /\ \A x \in Contents : <<d, x>> \in Near => <<d, x>> \in Safe
    /\ {<<c, d>>, <<d, c>>} \subseteq Near
    => \/ thought[c].family # thought[d].family
       \/ "retracted" \in {thought[c].state, thought[d].state}

(***************************************************************************)
(* Every active thought has its embedding or a job that will make it, also *)
(* when the gate drops the vector it was given (lock contended, nothing    *)
(* compared), until ingest-hygiene gives the job up.  A retracted thought  *)
(* loses both.                                                             *)
(***************************************************************************)
EveryThoughtGetsVector ==
  \A c \in Contents :
    Row(c, "active") /\ c \notin givenUp => thought[c].vector \/ c \in queued

(***************************************************************************)
(* No capture waits for ever: claims, advisory locks and index entries are *)
(* taken in an order that leaves no circle, and none outlives its call.    *)
(***************************************************************************)
TransactionsEnd == \A a \in Calls : Open(a) ~> ~Open(a)
==============================================================================
