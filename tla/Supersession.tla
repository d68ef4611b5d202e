------------------------------ MODULE Supersession ------------------------------
(***************************************************************************)
(* Source-event supersession: when a source event was delivered again with *)
(* another payload and stands in conflict, an operator may replace what it *)
(* is bound to.  supersede_argus_source_event is one READ COMMITTED        *)
(* transaction that locks the request id, the event and the old thought,   *)
(* captures the new text, retracts the old one, links the two and writes a *)
(* receipt.  It is one statement that commits itself: a client that breaks *)
(* off may send it again while the first call still runs.  Deliveries,     *)
(* retractions, unlinks and other supersessions go on meanwhile.           *)
(***************************************************************************)
EXTENDS Naturals, FiniteSets

CONSTANTS
  Sources,     \* argus_source_events identities: namespace and source_ref
  Hashes,      \* payload hashes
  Contents,    \* texts; a thought is named by its text, which is unique
  TextOf,      \* the text a payload is rendered to
  Payloads,    \* <<event, payload>>: what producers deliver, rightly or not
  Ids,         \* request ids
  Requests,    \* supersessions that operators ask for
  Clients,
  MaxCalls     \* bound: how often a client sends its request

RequestType ==
  [id: Ids, source: Sources, oldHash: Hashes, oldThought: Contents,
   hash: Hashes, content: Contents]

\* The last conjunct is the operator's doing: the function does not compare the two.
ASSUME SupersessionAssumption ==
  /\ TextOf \in [Hashes -> Contents]
  /\ Payloads \subseteq Sources \X Hashes
  /\ Requests \subseteq RequestType
  /\ \A r \in Requests : r.oldHash # r.hash
  /\ MaxCalls \in Nat
  /\ \A r \in Requests : r.content = TextOf[r.hash]

Calls == Clients \X (1..MaxCalls)

VARIABLES
  thought,   \* thoughts: not captured, active or retracted
  event,     \* argus_source_events
  links,     \* live `replaces' links, <<new, old>>
  receipts,  \* argus_source_event_supersession_receipts
  request,   \* what each client asks
  pc,        \* where the transaction of each call is
  draft,     \* the receipt it has decided to write
  replies,   \* what each call was told; an unanswered call is being waited for
  told       \* history: what deliveries were told of their event

tables == <<thought, event, links, receipts>>
txn == <<pc, draft>>
vars == <<tables, request, txn, replies, told>>

NoEvent == [status |-> "missing"]
NoRequest == [asked |-> FALSE]
NoReceipt == [outcome |-> "none"]
NoReply == [kind |-> "none"]

R(a) == request[a[1]]

EventRows == [status: {"stored", "conflict", "resolved"}, hash: Hashes, thought: Contents]
Outcomes == {"applied", "refused_expected_state", "refused_exact_content_duplicate"}
Receipts == [req: Requests, outcome: Outcomes, observed: EventRows \cup {NoEvent}]

OpenPcs == {"begin", "row", "thought", "lookup", "insert", "retract", "commit"}
Open(a) == pc[a] \in OpenPcs

TypeOK ==
  /\ thought \in [Contents -> {"absent", "active", "retracted"}]
  /\ event \in [Sources -> EventRows \cup {NoEvent}]
  /\ links \subseteq Contents \X Contents
  /\ receipts \subseteq Receipts
  /\ request \in [Clients -> Requests \cup {NoRequest}]
  /\ pc \in [Calls -> {"unused", "over"} \cup OpenPcs]
  /\ draft \in [Calls -> Receipts \cup {NoReceipt}]
  /\ \A a \in Calls : /\ pc[a] # "unused" => R(a) # NoRequest
                      /\ IF pc[a] = "commit" THEN draft[a] # NoReceipt /\ draft[a].req = R(a)
                                             ELSE draft[a] = NoReceipt
  /\ replies \in [Calls -> [kind: {"receipt"}, receipt: Receipts]
                             \cup [kind: {"refused", "error"}] \cup {NoReply}]
  /\ told \subseteq [source: Sources, hash: Hashes, thought: Contents]

Init ==
  /\ thought = [c \in Contents |-> "absent"]
  /\ event = [s \in Sources |-> NoEvent]
  /\ links = {}
  /\ receipts = {}
  /\ request = [c \in Clients |-> NoRequest]
  /\ pc = [a \in Calls |-> "unused"]
  /\ draft = [a \in Calls |-> NoReceipt]
  /\ replies = [a \in Calls |-> NoReply]
  /\ told = {}

------------------------------------------------------------------------------
GoTo(a, label) == pc' = [pc EXCEPT ![a] = label]

InDatabase == UNCHANGED <<tables, request, replies, told>>

Receipt(a, outcome, row) == [req |-> R(a), outcome |-> outcome, observed |-> row]

\* The receipt is all that is left to be done.
Decide(a, receipt) ==
  /\ draft' = [draft EXCEPT ![a] = receipt]
  /\ GoTo(a, "commit")

\* The answer reaches the client, if it is still there, or is lost on the way.
Answered(a, reply) ==
  replies' \in IF replies[a] = NoReply
               THEN {[replies EXCEPT ![a] = r] : r \in {reply, [kind |-> "error"]}}
               ELSE {replies}

Over(a) ==
  /\ GoTo(a, "over")
  /\ draft' = [draft EXCEPT ![a] = NoReceipt]

\* An exception leaves the function: everything is rolled back, no receipt is written.
Raise(a) ==
  /\ Over(a) /\ Answered(a, [kind |-> "refused"])
  /\ UNCHANGED <<tables, request, told>>

(***************************************************************************)
(* What an open transaction holds: its request id, the row of its event if *)
(* it found one, the row of the old thought and, from its insert on, the   *)
(* index entry of the new text.                                            *)
(***************************************************************************)
HoldsId(b, id) == pc[b] \in OpenPcs \ {"begin"} /\ R(b).id = id

HoldsEvent(b, s) ==
  /\ pc[b] # "unused" /\ R(b).source = s
  /\ \/ pc[b] \in {"thought", "lookup", "insert", "retract"}
     \/ pc[b] = "commit" /\ draft[b].observed # NoEvent

HoldsThought(b, t) ==
  /\ pc[b] # "unused" /\ R(b).oldThought = t
  /\ \/ pc[b] \in {"lookup", "insert", "retract"}
     \/ pc[b] = "commit" /\ draft[b].outcome # "refused_expected_state"

HoldsText(b, c) ==
  /\ pc[b] # "unused" /\ R(b).content = c
  /\ \/ pc[b] = "retract"
     \/ pc[b] = "commit" /\ draft[b].outcome = "applied"

EventFree(s)   == \A b \in Calls : ~HoldsEvent(b, s)
ThoughtFree(t) == \A b \in Calls : ~HoldsThought(b, t)
TextFree(c)    == \A b \in Calls : ~HoldsText(b, c)

\* A client sends its request, for the first time or once more.
Call(c, n) ==
  /\ pc[<<c, n>>] = "unused"
  /\ n > 1 => replies[<<c, n - 1>>] # NoReply
  /\ \E r \in IF n = 1 THEN Requests ELSE {request[c]} : request' = [request EXCEPT ![c] = r]
  /\ GoTo(<<c, n>>, "begin")
  /\ UNCHANGED <<tables, draft, replies, told>>

IdFree(a) == \A b \in Calls : ~HoldsId(b, R(a).id)

\* Mutant: any receipt under the request id answers the call.
AnyReceipt(a, x) == x.req.id = R(a).id

SameRequest(a, x) == x.req = R(a)

\* pg_advisory_xact_lock on the request id, and no receipt under it.
Begin(a) ==
  /\ pc[a] = "begin"
  /\ IdFree(a)
  /\ \A x \in receipts : x.req.id # R(a).id
  /\ GoTo(a, "row")
  /\ UNCHANGED draft /\ InDatabase

\* The receipt is returned as it was written.
Replayed(a) ==
  /\ pc[a] = "begin"
  /\ IdFree(a)
  /\ \E x \in receipts : SameRequest(a, x) /\ Answered(a, [kind |-> "receipt", receipt |-> x])
  /\ Over(a)
  /\ UNCHANGED <<tables, request, told>>

\* supersession_request_id_reuse
IdReused(a) ==
  /\ pc[a] = "begin"
  /\ IdFree(a)
  /\ \E x \in receipts : x.req.id = R(a).id /\ x.req # R(a)
  /\ Raise(a)

------------------------------------------------------------------------------
AsExpected(a, row) ==
  /\ row # NoEvent
  /\ row.status = "conflict" /\ row.hash = R(a).oldHash /\ row.thought = R(a).oldThought

LockEvent(a) ==
  /\ pc[a] = "row"
  /\ EventFree(R(a).source)
  /\ LET row == event[R(a).source] IN
     IF AsExpected(a, row)
     THEN GoTo(a, "thought") /\ UNCHANGED draft
     ELSE Decide(a, Receipt(a, "refused_expected_state", row))
  /\ InDatabase

\* The thought must be there and active; its row stays locked.
LockThought(a) ==
  /\ pc[a] = "thought"
  /\ ThoughtFree(R(a).oldThought)
  /\ thought[R(a).oldThought] = "active"
  /\ GoTo(a, "lookup")
  /\ UNCHANGED draft /\ InDatabase

\* supersession_old_thought_unavailable
ThoughtUnavailable(a) ==
  /\ pc[a] = "thought"
  /\ ThoughtFree(R(a).oldThought)
  /\ thought[R(a).oldThought] # "active"
  /\ Raise(a)

(***************************************************************************)
(* capture_thought_gated of the new text, without source event or vector:  *)
(* an existing text is refused, and the block that captured it undone.     *)
(***************************************************************************)
Lookup(a) ==
  /\ pc[a] = "lookup"
  /\ IF thought[R(a).content] # "absent"
     THEN Decide(a, Receipt(a, "refused_exact_content_duplicate", event[R(a).source]))
     ELSE GoTo(a, "insert") /\ UNCHANGED draft
  /\ InDatabase

Insert(a) ==
  /\ pc[a] = "insert"
  /\ TextFree(R(a).content) /\ thought[R(a).content] = "absent"
  /\ GoTo(a, "retract")
  /\ UNCHANGED draft /\ InDatabase

\* 23505: the text was committed since the lookup; only ZSD01 is caught.
InsertRaises(a) ==
  /\ pc[a] = "insert"
  /\ TextFree(R(a).content) /\ thought[R(a).content] # "absent"
  /\ Raise(a)

HeadsChain(t) == \E l \in links : l[1] = t

\* retract_thought_serialized, the link, and the UPDATE that compares once more.
Supersede(a) ==
  /\ pc[a] = "retract"
  /\ ~HeadsChain(R(a).oldThought)
  /\ AsExpected(a, event[R(a).source])
  /\ Decide(a, Receipt(a, "applied", event[R(a).source]))
  /\ InDatabase

\* supersession_retract_failed, supersession_stable_row_update_count
SupersedeRaises(a) ==
  /\ pc[a] = "retract"
  /\ HeadsChain(R(a).oldThought) \/ ~AsExpected(a, event[R(a).source])
  /\ Raise(a)

\* Mutant: the event keeps its payload.
KeepsHash(a) == [status |-> "stored", hash |-> R(a).oldHash, thought |-> R(a).content]

NewRow(a) == [status |-> "stored", hash |-> R(a).hash, thought |-> R(a).content]

\* The transaction commits, whether or not anyone is waiting for it still.
Land(a) ==
  /\ pc[a] = "commit"
  /\ receipts' = receipts \cup {draft[a]}
  /\ IF draft[a].outcome = "applied"
     THEN /\ thought' = [thought EXCEPT ![R(a).content] = "active",
                                        ![R(a).oldThought] = "retracted"]
          /\ links' = links \cup {<<R(a).content, R(a).oldThought>>}
          /\ event' = [event EXCEPT ![R(a).source] = NewRow(a)]
     ELSE UNCHANGED <<thought, links, event>>
  /\ Over(a) /\ Answered(a, [kind |-> "receipt", receipt |-> draft[a]])
  /\ UNCHANGED <<request, told>>

\* The client breaks off, or the connection does; the statement runs on.
LoseConnection(a) ==
  /\ Open(a) /\ replies[a] = NoReply
  /\ replies' = [replies EXCEPT ![a] = [kind |-> "error"]]
  /\ UNCHANGED <<tables, request, txn, told>>

\* The server ends the transaction: a crash, a cancelled statement, a deadlock.
Abort(a) ==
  /\ Open(a)
  /\ Over(a) /\ Answered(a, [kind |-> "error"])
  /\ UNCHANGED <<tables, request, told>>

------------------------------------------------------------------------------
(***************************************************************************)
(* The consumer's capture of a record, a transaction that takes the event  *)
(* first and waits for nothing after the index entry of its text.          *)
(***************************************************************************)
Binding(s, h, t) == [source |-> s, hash |-> h, thought |-> t]

FirstDelivery(s, h) ==
  LET c == TextOf[h] IN
  /\ event[s] = NoEvent
  /\ IF thought[c] = "absent" THEN TextFree(c) ELSE ThoughtFree(c)
  /\ thought' = [thought EXCEPT ![c] = IF @ = "absent" THEN "active" ELSE @]
  /\ event' = [event EXCEPT ![s] = [status |-> "stored", hash |-> h, thought |-> c]]
  /\ told' = told \cup {Binding(s, h, c)}
  /\ UNCHANGED <<links, receipts, request, txn, replies>>

Redelivery(s, h) ==
  /\ event[s] # NoEvent /\ event[s].hash = h
  /\ EventFree(s)
  /\ told' = told \cup {Binding(s, h, event[s].thought)}
  /\ UNCHANGED <<tables, request, txn, replies>>

\* Mutant: the event is bound to the payload that came last.
LastPayloadWins(s, h) ==
  /\ event[s] # NoEvent /\ event[s].hash # h
  /\ EventFree(s)
  /\ event' = [event EXCEPT ![s] =
       [status |-> "conflict", hash |-> h,
        thought |-> IF thought[TextOf[h]] = "absent" THEN @.thought ELSE TextOf[h]]]
  /\ UNCHANGED <<thought, links, receipts, request, txn, replies, told>>

\* Whatever its status was.
ConflictingDelivery(s, h) ==
  /\ event[s] # NoEvent /\ event[s].hash # h
  /\ EventFree(s)
  /\ event' = [event EXCEPT ![s].status = "conflict"]
  /\ UNCHANGED <<thought, links, receipts, request, txn, replies, told>>

\* An operator closes a conflict by hand, in favour of what is stored.
Resolve(s) ==
  /\ event[s] # NoEvent /\ event[s].status = "conflict"
  /\ EventFree(s)
  /\ event' = [event EXCEPT ![s].status = "resolved"]
  /\ UNCHANGED <<thought, links, receipts, request, txn, replies, told>>

\* Mutant: the row of the thought is not locked.
RetractAtOnce(t) ==
  /\ thought[t] = "active" /\ ~HeadsChain(t)
  /\ thought' = [thought EXCEPT ![t] = "retracted"]
  /\ UNCHANGED <<event, links, receipts, request, txn, replies, told>>

\* retract_thought and unlink_thoughts of an agent (see RelationLedger).
Retract(t) ==
  /\ ThoughtFree(t)
  /\ thought[t] = "active" /\ ~HeadsChain(t)
  /\ thought' = [thought EXCEPT ![t] = "retracted"]
  /\ UNCHANGED <<event, links, receipts, request, txn, replies, told>>

Unlink(l) ==
  /\ ThoughtFree(l[1]) /\ ThoughtFree(l[2])
  /\ links' = links \ {l}
  /\ UNCHANGED <<thought, event, receipts, request, txn, replies, told>>

Statement(a) ==
  \/ Begin(a) \/ Replayed(a) \/ IdReused(a) \/ LockEvent(a)
  \/ LockThought(a) \/ ThoughtUnavailable(a) \/ Lookup(a) \/ Insert(a) \/ InsertRaises(a)
  \/ Supersede(a) \/ SupersedeRaises(a) \/ Land(a) \/ Abort(a)

Delivery(s, h) == FirstDelivery(s, h) \/ Redelivery(s, h) \/ ConflictingDelivery(s, h)

Next ==
  \/ \E a \in Calls : Statement(a) \/ LoseConnection(a) \/ Call(a[1], a[2])
  \/ \E s \in Sources : Resolve(s)
  \/ \E p \in Payloads : Delivery(p[1], p[2])
  \/ \E t \in Contents : Retract(t)
  \/ \E l \in links : Unlink(l)

Spec == Init /\ [][Next]_vars

------------------------------------------------------------------------------
Applied == {x \in receipts : x.outcome = "applied"}

(***************************************************************************)
(* A request id has one receipt, and whoever sends that request is given   *)
(* this receipt, however often and however late: also when deliveries,     *)
(* retractions or further supersessions have changed the event since.      *)
(***************************************************************************)
OneReceiptPerRequest ==
  /\ \A x, y \in receipts : x.req.id = y.req.id => x = y
  /\ \A a \in Calls : replies[a].kind = "receipt" =>
       replies[a].receipt \in receipts /\ replies[a].receipt.req = R(a)

(***************************************************************************)
(* A thought is superseded for an event once, and then for good: it stays  *)
(* retracted and the event is never bound to it again, whichever payloads  *)
(* are delivered late and whichever supersessions race.                    *)
(***************************************************************************)
SupersededForGood ==
  \A x \in Applied :
    /\ thought[x.req.oldThought] = "retracted"
    /\ event[x.req.source].thought # x.req.oldThought
    /\ \A y \in Applied :
         y.req.source = x.req.source /\ y.req.oldThought = x.req.oldThought => y = x

(***************************************************************************)
(* The source events keep what SourceLedger promises: a supersession binds *)
(* a disputed event anew, to what it never had, and all deliveries of a    *)
(* payload are told of one thought, before and after supersessions.        *)
(***************************************************************************)
LedgerRow(s) ==
  IF event[s] = NoEvent THEN NoEvent
  ELSE [disputed |-> event[s].status = "conflict", hash |-> event[s].hash,
        thought |-> event[s].thought]

Current == {Binding(s, event[s].hash, event[s].thought) : s \in {x \in Sources : event[x] # NoEvent}}
Superseded == {Binding(x.req.source, x.req.oldHash, x.req.oldThought) : x \in Applied}

Ledger == INSTANCE SourceLedger WITH
  row <- [s \in Sources |-> LedgerRow(s)], bound <- Current \cup Superseded
ImplementsLedger == Ledger!LedgerSpec

(***************************************************************************)
(* When a supersession lands, the event is as the operator approved it,    *)
(* the old thought is active and heads no chain, and the new text is new:  *)
(* what was checked at four moments is true at the fifth.                  *)
(***************************************************************************)
AppliedAsApproved ==
  [][\A a \in Calls :
       Land(a) /\ draft[a].outcome = "applied" =>
         /\ AsExpected(a, event[R(a).source])
         /\ thought[R(a).oldThought] = "active" /\ ~HeadsChain(R(a).oldThought)
         /\ thought[R(a).content] = "absent"]_vars
==============================================================================
