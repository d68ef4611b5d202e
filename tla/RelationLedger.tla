---------------------------- MODULE RelationLedger ----------------------------
(***************************************************************************)
(* The relation mutations and retractions of kEngram as the PostgreSQL     *)
(* transactions they are, in READ COMMITTED isolation: a session claims    *)
(* the replay key, locks the endpoint rows one at a time in id order,      *)
(* applies the operations of its request, and commits.  Its writes are     *)
(* its own until then, and a crash before the commit undoes them.          *)
(***************************************************************************)
EXTENDS RelationOps

CONSTANTS
  Sessions,      \* database sessions: one transaction each at a time
  Retractable,   \* the thoughts someone asks to retract
  MaxAttempts    \* bound: how often a client sends the same request

ASSUME LedgerAssumption == Retractable \subseteq Thoughts /\ MaxAttempts \in Nat

Retractions == [retract: Retractable]
Jobs == Requests \cup Retractions
NoJob == [idle |-> TRUE]

VARIABLES
  thought,    \* thoughts: not captured yet, active or retracted
  edges,      \* thought_links, committed
  ledger,     \* thought_relation_request_events, committed: request and recorded result
  pc,         \* where each session is
  job,        \* what it works on
  wanted,     \* the endpoint rows it has still to lock
  holds,      \* the rows it has locked FOR UPDATE
  draft,      \* the edges it has written and not committed
  outcomes,   \* the results of the operations it has applied
  attempts,   \* how often each job was sent
  replies     \* history: the results clients were given

durable == <<thought, edges, ledger>>
txn == <<wanted, holds, draft, outcomes>>
vars == <<thought, edges, ledger, pc, job, wanted, holds, draft, outcomes, attempts, replies>>

MutatePcs  == {"claim", "lock", "apply", "commit", "answer"}
RetractPcs == {"retract_lock", "retract_decide", "retract_commit"}

Unwritten == "unwritten"
NoDraft == [e \in Edges |-> Unwritten]

LedgerRows == [req: Requests, outcomes: Seq(Outcomes)]

\* What a statement of session s reads: committed rows under its own writes.
View(s) == [e \in Edges |-> IF draft[s][e] = Unwritten THEN edges[e] ELSE draft[s][e]]

RowFree(t) == \A s \in Sessions : t \notin holds[s]

\* A key that an uncommitted transaction has inserted: a second insert waits.
Claimed(key) == \E s \in Sessions : pc[s] \in {"lock", "apply", "commit"} /\ job[s].key = key

TypeOK ==
  /\ thought \in [Thoughts -> {"absent", "active", "retracted"}]
  /\ edges \in [Edges -> EdgeStates]
  /\ ledger \in SUBSET LedgerRows
  /\ pc \in [Sessions -> {"idle"} \cup MutatePcs \cup RetractPcs]
  /\ job \in [Sessions -> Jobs \cup {NoJob}]
  /\ \A s \in Sessions : /\ pc[s] \in MutatePcs => job[s] \in Requests
                         /\ pc[s] \in RetractPcs => job[s] \in Retractions
                         /\ pc[s] = "idle" => job[s] = NoJob
  /\ wanted \in [Sessions -> SUBSET Thoughts]
  /\ holds \in [Sessions -> SUBSET Thoughts]
  /\ draft \in [Sessions -> [Edges -> EdgeStates \cup {Unwritten}]]
  /\ outcomes \in [Sessions -> Seq(Outcomes)]
  /\ attempts \in [Jobs -> 0..MaxAttempts]
  /\ replies \in SUBSET LedgerRows

Init ==
  /\ thought \in [Thoughts -> {"absent", "active"}]
  /\ edges = [e \in Edges |-> "never"]
  /\ ledger = {}
  /\ pc = [s \in Sessions |-> "idle"]
  /\ job = [s \in Sessions |-> NoJob]
  /\ wanted = [s \in Sessions |-> {}]
  /\ holds = [s \in Sessions |-> {}]
  /\ draft = [s \in Sessions |-> NoDraft]
  /\ outcomes = [s \in Sessions |-> <<>>]
  /\ attempts = [j \in Jobs |-> 0]
  /\ replies = {}

------------------------------------------------------------------------------
GoTo(s, label) == pc' = [pc EXCEPT ![s] = label]

\* Locks go and uncommitted writes are forgotten.
EndTransaction(s) ==
  /\ wanted' = [wanted EXCEPT ![s] = {}]
  /\ holds' = [holds EXCEPT ![s] = {}]
  /\ draft' = [draft EXCEPT ![s] = NoDraft]

\* The session is free again; nothing it had not committed remains.
GoIdle(s) ==
  /\ GoTo(s, "idle")
  /\ job' = [job EXCEPT ![s] = NoJob]
  /\ outcomes' = [outcomes EXCEPT ![s] = <<>>]
  /\ EndTransaction(s)

(***************************************************************************)
(* An exception inside the function: the transaction rolls back, the claim *)
(* of the replay key with it, and the client is given an error.            *)
(***************************************************************************)
RollBack(s) == GoIdle(s) /\ UNCHANGED <<durable, attempts, replies>>

Send(s, j, label) ==
  /\ pc[s] = "idle"
  /\ attempts[j] < MaxAttempts
  /\ attempts' = [attempts EXCEPT ![j] = @ + 1]
  /\ job' = [job EXCEPT ![s] = j]
  /\ GoTo(s, label)
  /\ UNCHANGED <<durable, txn, replies>>

(***************************************************************************)
(* A client sends a request, for the first time or again.  link_thoughts   *)
(* looks the endpoints up before the transaction and refuses a missing one *)
(* at once: then nothing happens at all.                                   *)
(***************************************************************************)
Submit(s, r) ==
  /\ \A op \in OpsOf(r) : op.action = "create" =>
       \A t \in EndpointsOf(op, edges) : thought[t] # "absent"
  /\ Send(s, r, "claim")

\* Mutant: the key is looked up in the committed rows only, then inserted.
ClaimsUnlessCommitted(s) ==
  /\ pc[s] = "claim"
  /\ \A row \in ledger : row.req.key # job[s].key
  /\ wanted' = [wanted EXCEPT ![s] = EndpointsOfRequest(job[s], edges)]
  /\ GoTo(s, "lock")
  /\ UNCHANGED <<durable, job, holds, draft, outcomes, attempts, replies>>

(***************************************************************************)
(* INSERT ... ON CONFLICT DO NOTHING on the replay key, which waits for an *)
(* uncommitted claimant.  If the key is taken, an identical request gets   *)
(* the recorded result and any other one source_event_conflict.            *)
(***************************************************************************)
ClaimFresh(s) ==
  /\ pc[s] = "claim"
  /\ ~Claimed(job[s].key)
  /\ \A row \in ledger : row.req.key # job[s].key
  /\ wanted' = [wanted EXCEPT ![s] = EndpointsOfRequest(job[s], edges)]
  /\ GoTo(s, "lock")
  /\ UNCHANGED <<durable, job, holds, draft, outcomes, attempts, replies>>

Replay(s) ==
  /\ pc[s] = "claim"
  /\ \E row \in ledger :
       /\ row.req = job[s]
       /\ outcomes' = [outcomes EXCEPT ![s] = row.outcomes]
  /\ GoTo(s, "answer")
  /\ UNCHANGED <<durable, job, wanted, holds, draft, attempts, replies>>

SourceEventConflict(s) ==
  /\ pc[s] = "claim"
  /\ \E row \in ledger : row.req.key = job[s].key /\ row.req # job[s]
  /\ RollBack(s)

------------------------------------------------------------------------------
\* Mutant: the rows are locked in any order.
AnyRow(s, t) == t \in wanted[s]

\* The next row of lock_thought_relation_endpoints' loop: ORDER BY id.
NextRow(s, t) ==
  /\ t \in wanted[s]
  /\ \A u \in wanted[s] : t <= u

\* Mutant: a retracted endpoint is locked like any other.
OnlyMissingRefused(r, t) == thought[t] = "absent"

\* The row is missing, or retracted where the operation needs it active.
EndpointRefused(r, t) ==
  \/ thought[t] = "absent"
  \/ thought[t] = "retracted" /\ t \in ActiveRequiredOfRequest(r)

LockRow(s) ==
  /\ pc[s] = "lock"
  /\ \E t \in Thoughts :
       /\ NextRow(s, t)
       /\ RowFree(t)
       /\ ~EndpointRefused(job[s], t)
       /\ holds' = [holds EXCEPT ![s] = @ \cup {t}]
       /\ wanted' = [wanted EXCEPT ![s] = @ \ {t}]
       /\ GoTo(s, IF wanted[s] = {t} THEN "apply" ELSE "lock")
  /\ UNCHANGED <<durable, job, draft, outcomes, attempts, replies>>

RefuseEndpoint(s) ==
  /\ pc[s] = "lock"
  /\ \E t \in Thoughts : NextRow(s, t) /\ RowFree(t) /\ EndpointRefused(job[s], t)
  /\ RollBack(s)

CurrentOp(s) == job[s].ops[Len(outcomes[s]) + 1]

\* One pass of the loop over the operations.
Apply(s) ==
  /\ pc[s] = "apply"
  /\ Len(outcomes[s]) < Len(job[s].ops)
  /\ LET op == CurrentOp(s)
         new == After(op, View(s))
     IN /\ ~Raises(op, View(s))
        /\ draft' = [draft EXCEPT ![s] = [e \in Edges |->
                       IF new[e] = View(s)[e] THEN draft[s][e] ELSE new[e]]]
        /\ outcomes' = [outcomes EXCEPT ![s] = Append(@, Outcome(op, View(s)))]
        /\ GoTo(s, IF Len(outcomes[s]) + 1 = Len(job[s].ops) THEN "commit" ELSE "apply")
  /\ UNCHANGED <<durable, job, wanted, holds, attempts, replies>>

ApplyRaises(s) ==
  /\ pc[s] = "apply"
  /\ Len(outcomes[s]) < Len(job[s].ops)
  /\ Raises(CurrentOp(s), View(s))
  /\ RollBack(s)

Commit(s) ==
  /\ pc[s] = "commit"
  /\ edges' = View(s)
  /\ ledger' = ledger \cup {[req |-> job[s], outcomes |-> outcomes[s]]}
  /\ EndTransaction(s)
  /\ GoTo(s, "answer")
  /\ UNCHANGED <<thought, job, outcomes, attempts, replies>>

Answer(s) ==
  /\ pc[s] = "answer"
  /\ replies' = replies \cup {[req |-> job[s], outcomes |-> outcomes[s]]}
  /\ GoIdle(s)
  /\ UNCHANGED <<durable, attempts>>

------------------------------------------------------------------------------
AskRetract(s, t) == Send(s, [retract |-> t], "retract_lock")

\* Mutant: the row is read, not locked.
RetractReads(s) ==
  /\ pc[s] = "retract_lock"
  /\ thought[job[s].retract] # "absent"
  /\ GoTo(s, "retract_decide")
  /\ UNCHANGED <<durable, job, txn, attempts, replies>>

\* retract_thought_serialized locks the row whatever its state ...
RetractLock(s) ==
  /\ pc[s] = "retract_lock"
  /\ LET t == job[s].retract IN
       /\ RowFree(t)
       /\ thought[t] # "absent"
       /\ holds' = [holds EXCEPT ![s] = @ \cup {t}]
  /\ GoTo(s, "retract_decide")
  /\ UNCHANGED <<durable, job, wanted, draft, outcomes, attempts, replies>>

HeadsChain(t) ==
  \E e \in ChainEdges : e.from = t /\ edges[e] \in LiveStates

\* ... and refuses one already retracted or at the head of a live chain edge.
RetractDecide(s) ==
  /\ pc[s] = "retract_decide"
  /\ thought[job[s].retract] = "active"
  /\ ~HeadsChain(job[s].retract)
  /\ GoTo(s, "retract_commit")
  /\ UNCHANGED <<durable, job, txn, attempts, replies>>

RetractRefused(s) ==
  /\ \/ pc[s] = "retract_lock" /\ thought[job[s].retract] = "absent"
     \/ /\ pc[s] = "retract_decide"
        /\ thought[job[s].retract] # "active" \/ HeadsChain(job[s].retract)
  /\ RollBack(s)

RetractCommit(s) ==
  /\ pc[s] = "retract_commit"
  /\ thought' = [thought EXCEPT ![job[s].retract] = "retracted"]
  /\ GoIdle(s)
  /\ UNCHANGED <<edges, ledger, attempts, replies>>

------------------------------------------------------------------------------
\* A capture commits a new thought (see CaptureGate).
Capture(t) ==
  /\ thought[t] = "absent"
  /\ thought' = [thought EXCEPT ![t] = "active"]
  /\ UNCHANGED <<edges, ledger, pc, job, txn, attempts, replies>>

(***************************************************************************)
(* The connection, the server process or the client goes away: an open     *)
(* transaction rolls back; after the commit only the answer is lost.       *)
(***************************************************************************)
Crash(s) == pc[s] # "idle" /\ RollBack(s)

Advance(s) ==
  \/ ClaimFresh(s) \/ Replay(s) \/ SourceEventConflict(s)
  \/ LockRow(s) \/ RefuseEndpoint(s)
  \/ Apply(s) \/ ApplyRaises(s) \/ Commit(s) \/ Answer(s)
  \/ RetractLock(s) \/ RetractDecide(s) \/ RetractRefused(s) \/ RetractCommit(s)

Next ==
  \/ \E s \in Sessions :
       \/ Advance(s)
       \/ Crash(s)
       \/ \E r \in Requests : Submit(s, r)
       \/ \E t \in Retractable : AskRetract(s, t)
  \/ \E t \in Thoughts : Capture(t)

Spec == Init /\ [][Next]_vars

(***************************************************************************)
(* The database keeps running a transaction that can go on; nothing makes  *)
(* a client send, a thought be captured or a session crash.                *)
(***************************************************************************)
FairSpec == Spec /\ \A s \in Sessions : WF_vars(Advance(s))

------------------------------------------------------------------------------
(***************************************************************************)
(* A thought at the head of a live replaces or refines edge is not         *)
(* retracted: the guard of retract_thought_serialized and the active check *)
(* of lock_thought_relation_endpoints hold against each other although     *)
(* each reads what the other writes.                                       *)
(***************************************************************************)
LiveChainHeadsActive ==
  \A e \in ChainEdges : edges[e] \in LiveStates => thought[e.from] = "active"

(***************************************************************************)
(* However often a request is sent, and by however many sessions at once,  *)
(* its replay key is executed once, and every client that is answered gets *)
(* that one execution's recorded result.                                   *)
(***************************************************************************)
OneExecutionPerKey ==
  /\ \A x, y \in ledger : x.req.key = y.req.key => x = y
  /\ replies \subseteq ledger

(***************************************************************************)
(* An edge comes alive only from an active thought, and only to an active  *)
(* one unless it is a supersession edge, as of the commit and not only of  *)
(* the check: the locks carry the check's verdict to the commit.           *)
(***************************************************************************)
NewEdgesJoinLiveThoughts ==
  [][\A e \in Edges :
       edges[e] \notin LiveStates /\ edges'[e] \in LiveStates =>
         /\ thought'[e.from] = "active"
         /\ e.to \in Thoughts /\ e.relation \notin Supersession => thought'[e.to] = "active"]_vars

(***************************************************************************)
(* No two or three thoughts replace or refine each other in a circle: two  *)
(* edges of so short a cycle share a thought, so the row locks put their   *)
(* creations in an order and the second one's walk sees the first.         *)
(***************************************************************************)
NoShortChainCycle ==
  \A a, b, c \in Thoughts :
    /\ ~(ChainLink(edges, a, b) /\ ChainLink(edges, b, a))
    /\ ~(ChainLink(edges, a, b) /\ ChainLink(edges, b, c) /\ ChainLink(edges, c, a))

(***************************************************************************)
(* What relation_cycle_detected is there to keep: no live chain returns to *)
(* the thought it started from.                                            *)
(***************************************************************************)
NoChainCycle == \A t \in Thoughts : ~Walks(edges, t, t)

(***************************************************************************)
(* The transactions implement the service: a commit is the request it      *)
(* performs, everything before and after it changes nothing.               *)
(***************************************************************************)
Service == INSTANCE RelationService
ImplementsService == Service!ServiceSpec

(***************************************************************************)
(* Every transaction that starts ends: sessions that lock rows in id order *)
(* after claiming their key never wait for one another in a circle, so     *)
(* none is left to the database's deadlock detector.                       *)
(***************************************************************************)
SessionsFinish == \A s \in Sessions : pc[s] # "idle" ~> pc[s] = "idle"
==============================================================================
