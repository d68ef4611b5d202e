--------------------------- MODULE CaptureGateProofs ---------------------------
(***************************************************************************)
(* Proofs about CaptureGate, for any texts, events, requests, clients and  *)
(* number of attempts.                                                     *)
(***************************************************************************)
EXTENDS CaptureGate, TLAPS

ConflictAction == "source_event_conflict"

LEMMA RequestFields ==
  ASSUME NEW r \in Requests
  PROVE  /\ r.content \in Contents /\ r.source \in Sources \cup {None}
         /\ r.hash \in Hashes /\ r.intents \in Intents \cup {None}
         /\ r.family \in Families \cup {None} /\ r.vector \in BOOLEAN
         /\ r.source = None => r.intents = None
         /\ r # None
BY GateAssumption DEF RequestType

\* A call that was made was made by a client, whose earlier calls had been made.
CallsInOrder ==
  /\ \A a \in Calls : client[a] # "unused" \/ replies[a] # None => pc[a] # "unused"
  /\ \A a \in Calls : replies[a] # None => client[a] = "over"
  /\ \A a \in Calls : pc[a] # "unused" => R(a) \in Requests
  /\ \A a \in Calls : a[2] = 1 /\ pc[a] = "unused" => R(a) = None
  /\ \A c \in Clients : \A m, n \in 1..MaxCalls :
       m < n /\ pc[<<c, n>>] # "unused" => pc[<<c, m>>] # "unused"

SourcesExclusive ==
  \A a, b \in Calls : a # b => \A s \in Sources : ~(HoldsSource(a, s) /\ HoldsSource(b, s))

\* A transaction that is to write its event's row has found none.
WillBind(a) ==
  \/ pc[a] \in {"lookup", "family", "compare", "insert"}
  \/ pc[a] \in {"commit", "sent"} /\ draft[a].ledger = "new"

EventsAsClaimed ==
  \A a \in Calls : WillBind(a) /\ R(a).source # None => event[R(a).source] = NoEvent

BoundTo(a, t) ==
  /\ event[R(a).source] # NoEvent
  /\ event[R(a).source].hash = R(a).hash
  /\ event[R(a).source].thought = t

HasGateRow(b) == \E row \in gate : row.call = b

\* Somebody uses the source event of the call for something else.
HasRival(a) ==
  \E c \in Clients : /\ request[c] # None
                     /\ request[c].source = R(a).source
                     /\ \/ request[c].hash # R(a).hash
                        \/ request[c].intents # R(a).intents

\* What a transaction has decided, from its decision on ...
Decided(a) == pc[a] \in {"insert", "commit", "sent", "landed"}

FromLedger(a) ==
  /\ R(a).source # None /\ event[R(a).source] # NoEvent
  /\ draft[a].gate # None => HasGateRow(draft[a].gate)
  /\ draft[a].action # ConflictAction => BoundTo(a, draft[a].thought)
  /\ draft[a].action = ConflictAction => HasRival(a)

DraftCovered(a) ==
  /\ draft[a] \in DraftType /\ draft[a].thought \in Contents
  /\ pc[a] = "insert" => draft[a].ledger = "new" /\ draft[a].inserts
  /\ draft[a].inserts => draft[a].thought = R(a).content /\ draft[a].action # "exact_duplicate"
  /\ draft[a].action = "exact_duplicate" /\ draft[a].ledger = "new" =>
       draft[a].thought = R(a).content
  /\ draft[a].ledger = "new" => draft[a].gate = a /\ draft[a].action # ConflictAction
  /\ ~draft[a].inserts => thought[draft[a].thought] # Absent
  /\ draft[a].ledger # "new" => FromLedger(a)

\* ... and what is there when it has landed.
IsThere(a) ==
  /\ thought[draft[a].thought] # Absent
  /\ draft[a].gate # None => HasGateRow(draft[a].gate)
  /\ R(a).source # None /\ draft[a].action # ConflictAction => BoundTo(a, draft[a].thought)

DraftsCovered ==
  \A a \in Calls : /\ Decided(a) => DraftCovered(a)
                   /\ pc[a] = "landed" => IsThere(a)

EventsCovered ==
  \A s \in Sources : event[s] # NoEvent =>
    LET b == event[s].gate IN
    /\ thought[event[s].thought] # Absent
    /\ HasGateRow(b)
    /\ b \in Calls /\ pc[b] # "unused"
    /\ R(b).source = s /\ R(b).hash = event[s].hash /\ R(b).intents = event[s].intents

GateCovered ==
  \A row \in gate :
    /\ pc[row.call] # "unused"
    /\ row.action # ConflictAction
    /\ row.action = "exact_duplicate" => thought[R(row.call).content] # Absent

\* A call that lost a race finds the thought from then on.
RetriesCovered ==
  /\ retries \in [Calls -> {0, 1}]
  /\ \A a \in Calls :
       retries[a] = 1 => /\ pc[a] # "unused" /\ thought[R(a).content] # Absent
                         /\ pc[a] \notin {"family", "compare", "insert"}

\* What a reply says is true of the tables.
TrueReply(a, x) ==
  /\ thought[x.thought] # Absent /\ x.thought \in Contents
  /\ x.gate # None => HasGateRow(x.gate)
  /\ R(a).source # None /\ x.action # ConflictAction => BoundTo(a, x.thought)
  /\ x.action = ConflictAction => HasRival(a)

RepliesTrue == \A a \in Calls : Success(a) => TrueReply(a, replies[a])

Inv ==
  /\ TypeOK /\ CallsInOrder /\ SourcesExclusive
  /\ EventsAsClaimed /\ DraftsCovered
  /\ EventsCovered /\ GateCovered /\ RetriesCovered
  /\ RepliesTrue /\ EveryThoughtGetsVector

LEMMA Distinct ==
  /\ \A r \in [status: {"stored", "skipped", "conflict"}, hash: Hashes,
               thought: Contents, intents: Intents \cup {None}, gate: Calls] : r # NoEvent
  /\ \A r \in [state: {"active", "retracted"}, family: Families \cup {None}, vector: BOOLEAN] :
       r # Absent
  /\ \A d \in DraftType : d # NoDraft
  /\ Absent.state = "absent"
BY DEF NoEvent, Absent, NoDraft, DraftType, Actions

LEMMA InitInv == Init => Inv
<1>. SUFFICES ASSUME Init PROVE Inv
  OBVIOUS
<1>1. TypeOK BY DEF Init, TypeOK
<1>2. CallsInOrder
  <2>1. \A a \in Calls : a[1] \in Clients BY DEF Calls
  <2>2. \A c \in Clients, n \in 1..MaxCalls : <<c, n>> \in Calls BY DEF Calls
  <2>3. QED BY <2>1, <2>2 DEF Init, CallsInOrder, R
<1>3. SourcesExclusive /\ EventsAsClaimed
  BY DEF Init, SourcesExclusive, EventsAsClaimed, HoldsSource, WillBind, OpenPcs
<1>4. DraftsCovered
  BY DEF Init, DraftsCovered, Decided
<1>5. EventsCovered /\ GateCovered /\ RetriesCovered
  BY DEF Init, EventsCovered, GateCovered, RetriesCovered
<1>6. RepliesTrue BY DEF Init, RepliesTrue, Success
<1>7. EveryThoughtGetsVector BY DEF Init, EveryThoughtGetsVector, Row
<1>8. QED BY <1>1, <1>2, <1>3, <1>4, <1>5, <1>6, <1>7 DEF Inv

------------------------------------------------------------------------------
(***************************************************************************)
(* One step: whose it is.                                                  *)
(***************************************************************************)
\* A step of one call, after its first.
StepOf(a) ==
  Statement(a) \/ Probe(a) \/ LoseConnection(a) \/ Deadline(a)

LEMMA NextKinds ==
  ASSUME Next
  PROVE  \/ \E a \in Calls : StepOf(a)
         \/ \E c \in Clients, n \in 1..MaxCalls : Call(c, n)
         \/ \E c \in Contents : Afterwards(c)
<1>1. \A a \in Calls : a[1] \in Clients /\ a[2] \in 1..MaxCalls BY DEF Calls
<1>2. QED BY <1>1 DEF Next, StepOf

\* The other calls are where they were; only Land writes to the tables.
LEMMA StepMoves ==
  ASSUME TypeOK, CallsInOrder, RetriesCovered, NEW a \in Calls, StepOf(a)
  PROVE  /\ pc[a] # "unused" /\ R(a) \in Requests /\ request' = request
         /\ \A b \in Calls : R(b)' = R(b)
         /\ pc' = [pc EXCEPT ![a] = pc'[a]] /\ pc'[a] # "unused"
         /\ draft' = [draft EXCEPT ![a] = draft'[a]]
         /\ locked' = [locked EXCEPT ![a] = locked'[a]] /\ locked'[a] \in BOOLEAN
         /\ client' = [client EXCEPT ![a] = client'[a]]
         /\ retries' = [retries EXCEPT ![a] = retries'[a]]
         /\ replies' = [replies EXCEPT ![a] = replies'[a]]
         /\ Land(a) \/ UNCHANGED tables
<1>1. pc[a] # "unused"
  BY DEF StepOf, Statement, Unclaimed, Replayed, Lookup, RequiresAdjudication, EnterFamily,
         NotCompared, Compare, Insert, LosesRace, ConsumerRejects, IntentsRefused, SendCommit,
         Land, Answer, Abandon, Probe, LoseConnection, Deadline, Running, Conflicts, Open,
         OpenPcs, CallsInOrder
<1>2. request' = request /\ (Land(a) \/ UNCHANGED tables)
  BY DEF StepOf, Statement, Unclaimed, Replayed, Lookup, RequiresAdjudication, EnterFamily,
         NotCompared, Compare, Insert, LosesRace, ConsumerRejects, IntentsRefused, SendCommit,
         Land, Answer, Abandon, Probe, LoseConnection, Deadline, InDatabase, RollBackTo
<1>3. /\ pc' = [pc EXCEPT ![a] = pc'[a]] /\ pc'[a] # "unused"
      /\ locked' = [locked EXCEPT ![a] = locked'[a]] /\ locked'[a] \in BOOLEAN
  BY <1>1
     DEF StepOf, Statement, Unclaimed, Replayed, Lookup, RequiresAdjudication, EnterFamily,
         NotCompared, Compare, Insert, LosesRace, ConsumerRejects, IntentsRefused, SendCommit,
         Land, Answer, Abandon, Probe, LoseConnection, Deadline, InDatabase, RollBackTo,
         GoTo, Decide, Keep, txn, TypeOK
<1>4. draft' = [draft EXCEPT ![a] = draft'[a]]
  BY DEF StepOf, Statement, Unclaimed, Replayed, Lookup, RequiresAdjudication, EnterFamily,
         NotCompared, Compare, Insert, LosesRace, ConsumerRejects, IntentsRefused, SendCommit,
         Land, Answer, Abandon, Probe, LoseConnection, Deadline, InDatabase, RollBackTo,
         GoTo, Decide, Keep, txn, TypeOK
<1>5. client' = [client EXCEPT ![a] = client'[a]]
  BY DEF StepOf, Statement, Unclaimed, Replayed, Lookup, RequiresAdjudication, EnterFamily,
         NotCompared, Compare, Insert, LosesRace, ConsumerRejects, IntentsRefused, SendCommit,
         Land, Answer, Abandon, Probe, LoseConnection, Deadline, InDatabase, Reply, TypeOK
<1>6. retries' = [retries EXCEPT ![a] = retries'[a]]
  BY DEF StepOf, Statement, Unclaimed, Replayed, Lookup, RequiresAdjudication, EnterFamily,
         NotCompared, Compare, Insert, LosesRace, ConsumerRejects, IntentsRefused, SendCommit,
         Land, Answer, Abandon, Probe, LoseConnection, Deadline, InDatabase, RetriesCovered
<1>7. replies' = [replies EXCEPT ![a] = replies'[a]]
  BY DEF StepOf, Statement, Unclaimed, Replayed, Lookup, RequiresAdjudication, EnterFamily,
         NotCompared, Compare, Insert, LosesRace, ConsumerRejects, IntentsRefused, SendCommit,
         Land, Answer, Abandon, Probe, LoseConnection, Deadline, InDatabase, Reply, TypeOK
<1>8. QED BY <1>1, <1>2, <1>3, <1>4, <1>5, <1>6, <1>7 DEF CallsInOrder, R

(***************************************************************************)
(* What no step takes back.                                                *)
(***************************************************************************)
Grows ==
  /\ \A c \in Contents : thought[c] # Absent => thought'[c] # Absent
  /\ gate \subseteq gate'
  /\ \A s \in Sources : event[s] # NoEvent =>
       /\ event'[s] # NoEvent /\ event'[s].hash = event[s].hash
       /\ event'[s].thought = event[s].thought /\ event'[s].intents = event[s].intents
       /\ event'[s].gate = event[s].gate
  /\ \A a \in Calls : pc[a] # "unused" => pc'[a] # "unused" /\ R(a)' = R(a)
  /\ \A c \in Clients : request[c] # None => request'[c] = request[c]

EventRows == [status: {"stored", "skipped", "conflict"}, hash: Hashes,
              thought: Contents, intents: Intents \cup {None}, gate: Calls]
ThoughtRows == [state: {"active", "retracted"}, family: Families \cup {None}, vector: BOOLEAN]

\* What comes after a capture: one row changes, and the calls stay as they are.
LEMMA AfterRow ==
  ASSUME TypeOK, NEW c \in Contents, Afterwards(c)
  PROVE  /\ thought[c] \in ThoughtRows /\ thought'[c] \in ThoughtRows
         /\ thought'[c].family = thought[c].family
         /\ thought[c].state = "retracted" => thought'[c].state = "retracted"
         /\ thought[c].vector => thought'[c].vector \/ thought'[c].state = "retracted"
         /\ thought' = [d \in Contents |-> thought'[d]]
         /\ \A d \in Contents : d # c => thought'[d] = thought[d]
         /\ queued' \subseteq queued /\ queued \subseteq queued' \cup {c}
         /\ givenUp \subseteq givenUp' /\ givenUp' \subseteq givenUp \cup {c}
         /\ thought[c].vector \/ c \in queued =>
              \/ thought'[c].vector \/ thought'[c].state = "retracted"
              \/ c \in queued' \cup givenUp'
         /\ UNCHANGED <<event, gate, request, txn, client, retries, replies>>
<1>0. UNCHANGED <<event, gate, request, txn, client, retries, replies>> BY DEF Afterwards
<1>1. thought[c] # Absent => thought[c] \in ThoughtRows BY DEF TypeOK, ThoughtRows
<1>2. ASSUME thought[c] # Absent, UNCHANGED <<queued, givenUp>>,
             NEW s \in {"active", "retracted"}, NEW v \in BOOLEAN,
             thought' = [thought EXCEPT ![c] = [thought[c] EXCEPT !.state = s, !.vector = v]]
      PROVE  /\ thought[c] \in ThoughtRows /\ thought'[c] \in ThoughtRows
             /\ thought'[c].family = thought[c].family
             /\ thought'[c].state = s /\ thought'[c].vector = v
             /\ thought' = [d \in Contents |-> thought'[d]]
             /\ \A d \in Contents : d # c => thought'[d] = thought[d]
  <2>1. thought'[c] = [thought[c] EXCEPT !.state = s, !.vector = v] BY <1>2 DEF TypeOK
  <2>2. /\ thought' = [d \in Contents |-> thought'[d]]
        /\ \A d \in Contents : d # c => thought'[d] = thought[d]
    BY <1>2 DEF TypeOK
  <2>3. QED BY <1>1, <1>2, <2>1, <2>2 DEF ThoughtRows
<1>3. CASE Retract(c)
  <2>1. /\ thought[c] # Absent /\ thought[c] \in ThoughtRows
        /\ thought[c].vector \in BOOLEAN /\ UNCHANGED <<queued, givenUp>>
    BY <1>1, <1>3 DEF Retract, Row, ThoughtRows
  <2>2. thought' = [thought EXCEPT ![c] =
                      [thought[c] EXCEPT !.state = "retracted", !.vector = thought[c].vector]]
    BY <1>3, <2>1 DEF Retract, ThoughtRows
  <2>3. QED BY <1>0, <1>2, <2>1, <2>2
<1>4. CASE Embed(c)
  <2>1. /\ thought[c] # Absent /\ thought[c] \in ThoughtRows
        /\ thought[c].state \in {"active", "retracted"} /\ UNCHANGED <<queued, givenUp>>
    BY <1>1, <1>4 DEF Embed, ThoughtRows
  <2>2. thought' = [thought EXCEPT ![c] =
                      [thought[c] EXCEPT !.state = thought[c].state, !.vector = TRUE]]
    BY <1>4, <2>1 DEF Embed, ThoughtRows
  <2>3. QED BY <1>0, <1>2, <2>1, <2>2
<1>5. CASE Unembed(c)
  <2>1. /\ thought[c] # Absent /\ thought[c] \in ThoughtRows
        /\ thought[c].state = "retracted" /\ UNCHANGED <<queued, givenUp>>
    BY <1>1, <1>5 DEF Unembed, Row, ThoughtRows
  <2>2. thought' = [thought EXCEPT ![c] =
                      [thought[c] EXCEPT !.state = "retracted", !.vector = FALSE]]
    BY <1>5, <2>1 DEF Unembed, ThoughtRows
  <2>3. QED BY <1>0, <1>2, <2>1, <2>2
<1>6. CASE Dequeue(c)
  <2>1. /\ UNCHANGED <<thought, givenUp>> /\ queued' = queued \ {c} /\ c \in queued
        /\ thought[c].vector \/ thought[c].state = "retracted"
    BY <1>6 DEF Dequeue, Row
  <2>2. thought[c] \in ThoughtRows BY <1>1, <2>1 DEF TypeOK
  <2>3. thought = [d \in Contents |-> thought[d]] BY DEF TypeOK
  <2>4. QED BY <1>0, <2>1, <2>2, <2>3
<1>7. CASE GiveUp(c)
  <2>1. UNCHANGED thought /\ queued' = queued \ {c} /\ c \in queued /\ givenUp' = givenUp \cup {c}
    BY <1>7 DEF GiveUp
  <2>2. thought[c] \in ThoughtRows BY <1>1, <2>1 DEF TypeOK
  <2>3. thought = [d \in Contents |-> thought[d]] BY DEF TypeOK
  <2>4. QED BY <1>0, <2>1, <2>2, <2>3
<1>8. QED BY <1>3, <1>4, <1>5, <1>6, <1>7 DEF Afterwards

\* A landing: the thought, the job, the event and the gate row of the call.
LEMMA LandWrites ==
  ASSUME Inv, NEW a \in Calls, Land(a)
  PROVE  /\ DraftCovered(a) /\ R(a) \in Requests
         /\ givenUp' = givenUp
         /\ ~draft[a].inserts => thought' = thought /\ queued' = queued
         /\ draft[a].inserts =>
              /\ thought'[R(a).content] \in ThoughtRows
              /\ thought'[R(a).content].vector \/ R(a).content \in queued'
              /\ \A c \in Contents : c # R(a).content => thought'[c] = thought[c]
              /\ queued \subseteq queued' /\ queued' \subseteq queued \cup {R(a).content}
         /\ R(a).source = None \/ draft[a].ledger = "replay" => event' = event
         /\ R(a).source # None => \A s \in Sources : s # R(a).source => event'[s] = event[s]
         /\ R(a).source # None /\ draft[a].ledger = "new" =>
              /\ event[R(a).source] = NoEvent /\ event'[R(a).source] = EventRow(a)
              /\ EventRow(a) \in EventRows
         /\ R(a).source # None /\ draft[a].ledger = "conflict" =>
              /\ event[R(a).source] \in EventRows /\ event'[R(a).source] \in EventRows
              /\ event' = [event EXCEPT ![R(a).source].status = "conflict"]
              /\ event'[R(a).source].hash = event[R(a).source].hash
              /\ event'[R(a).source].thought = event[R(a).source].thought
              /\ event'[R(a).source].intents = event[R(a).source].intents
              /\ event'[R(a).source].gate = event[R(a).source].gate
         /\ draft[a].ledger = "new" => gate' = gate \cup {[call |-> a, action |-> draft[a].action]}
         /\ draft[a].ledger # "new" => gate' = gate /\ R(a).source # None
<1>1. DraftCovered(a) BY DEF Inv, DraftsCovered, Decided, Land
<1>2. R(a) \in Requests BY DEF Inv, CallsInOrder, Land
<1>3. /\ draft[a] \in DraftType /\ draft[a].thought \in Contents /\ draft[a].vector \in BOOLEAN
      /\ draft[a].ledger \in {"new", "replay", "conflict"} /\ draft[a].inserts \in BOOLEAN
  BY <1>1 DEF DraftCovered, DraftType
<1>4. R(a).family \in Families \cup {None} /\ R(a).source \in Sources \cup {None}
      /\ R(a).hash \in Hashes /\ R(a).intents \in Intents \cup {None}
      /\ R(a).content \in Contents
  BY <1>2, RequestFields
<1>5. /\ givenUp' = givenUp
      /\ ~draft[a].inserts => thought' = thought /\ queued' = queued
  BY DEF Land, NeedsVector
<1>6. ASSUME draft[a].inserts
      PROVE  /\ thought'[R(a).content] \in ThoughtRows
             /\ thought'[R(a).content].vector \/ R(a).content \in queued'
             /\ \A c \in Contents : c # R(a).content => thought'[c] = thought[c]
             /\ queued \subseteq queued' /\ queued' \subseteq queued \cup {R(a).content}
  <2>1. draft[a].thought = R(a).content BY <1>1, <1>6 DEF DraftCovered
  <2>2. thought' = [thought EXCEPT ![R(a).content] =
                      [state |-> "active", family |-> R(a).family, vector |-> draft[a].vector]]
    BY <1>6, <2>1 DEF Land
  <2>3. queued' = IF draft[a].vector THEN queued ELSE queued \cup {R(a).content}
    BY <1>6, <2>1 DEF Land, NeedsVector
  <2>4. thought'[R(a).content] =
          [state |-> "active", family |-> R(a).family, vector |-> draft[a].vector]
    BY <1>4, <2>2 DEF Inv, TypeOK
  <2>5. \A c \in Contents : c # R(a).content => thought'[c] = thought[c]
    BY <2>2 DEF Inv, TypeOK
  <2>6. QED BY <1>3, <1>4, <2>3, <2>4, <2>5 DEF ThoughtRows
<1>7. R(a).source = None \/ draft[a].ledger = "replay" => event' = event BY DEF Land
<1>8. R(a).source # None => \A s \in Sources : s # R(a).source => event'[s] = event[s]
  BY <1>3 DEF Land, Inv, TypeOK
<1>9. ASSUME R(a).source # None, draft[a].ledger = "new"
      PROVE  /\ event[R(a).source] = NoEvent /\ event'[R(a).source] = EventRow(a)
             /\ EventRow(a) \in EventRows
  <2>1. WillBind(a) BY <1>9 DEF WillBind, Land
  <2>2. event[R(a).source] = NoEvent BY <1>9, <2>1 DEF Inv, EventsAsClaimed
  <2>3. event'[R(a).source] = EventRow(a) BY <1>4, <1>9 DEF Land, Inv, TypeOK
  <2>4. EventRow(a) \in EventRows BY <1>3, <1>4 DEF EventRow, EventRows
  <2>5. QED BY <2>2, <2>3, <2>4
<1>10. ASSUME R(a).source # None, draft[a].ledger = "conflict"
       PROVE  /\ event[R(a).source] \in EventRows /\ event'[R(a).source] \in EventRows
              /\ event' = [event EXCEPT ![R(a).source].status = "conflict"]
              /\ event'[R(a).source].hash = event[R(a).source].hash
              /\ event'[R(a).source].thought = event[R(a).source].thought
              /\ event'[R(a).source].intents = event[R(a).source].intents
              /\ event'[R(a).source].gate = event[R(a).source].gate
  <2>1. event[R(a).source] # NoEvent BY <1>1, <1>10 DEF DraftCovered, FromLedger
  <2>2. event[R(a).source] \in EventRows BY <1>4, <1>10, <2>1 DEF Inv, TypeOK, EventRows
  <2>3. event' = [event EXCEPT ![R(a).source].status = "conflict"] BY <1>10 DEF Land
  <2>4. event'[R(a).source] = [event[R(a).source] EXCEPT !.status = "conflict"]
    BY <1>4, <1>10, <2>3 DEF Inv, TypeOK
  <2>5. QED BY <2>2, <2>3, <2>4 DEF EventRows
<1>11. draft[a].ledger = "new" => gate' = gate \cup {[call |-> a, action |-> draft[a].action]}
  BY DEF Land
<1>12. draft[a].ledger # "new" => gate' = gate /\ R(a).source # None
  BY <1>1 DEF Land, DraftCovered, FromLedger
<1>13. QED BY <1>1, <1>2, <1>5, <1>6, <1>7, <1>8, <1>9, <1>10, <1>11, <1>12

LEMMA CallType == \A c \in Clients, n \in 1..MaxCalls : <<c, n>> \in Calls
BY DEF Calls

LEMMA CallParts == \A a \in Calls : /\ a = <<a[1], a[2]>>
                                     /\ a[1] \in Clients /\ a[2] \in 1..MaxCalls
BY DEF Calls

\* A call that starts is new to everyone.
LEMMA CallMoves ==
  ASSUME TypeOK, CallsInOrder, NEW c \in Clients, NEW n \in 1..MaxCalls, Call(c, n)
  PROVE  \E a \in Calls :
           /\ a = <<c, n>> /\ pc[a] = "unused" /\ pc' = [pc EXCEPT ![a] = "claim"]
           /\ client' = [client EXCEPT ![a] = "waiting"]
           /\ R(a)' \in Requests
           /\ UNCHANGED <<tables, draft, locked, retries, replies>>
           /\ request' \in [Clients -> Requests \cup {None}]
           /\ \A b \in Calls : pc[b] # "unused" => R(b)' = R(b)
           /\ \A d \in Clients : request[d] # None => request'[d] = request[d]
           /\ \A b \in Calls : b[1] # c => R(b)' = R(b)
<1>. DEFINE a == <<c, n>>
<1>1. a \in Calls /\ a[1] = c /\ a[2] = n BY CallType
<1>2. /\ pc[a] = "unused" /\ pc' = [pc EXCEPT ![a] = "claim"]
      /\ client' = [client EXCEPT ![a] = "waiting"]
      /\ UNCHANGED <<tables, draft, locked, retries, replies>>
  BY DEF Call, GoTo
<1>3. PICK r \in IF n = 1 THEN Requests ELSE {request[c]} : request' = [request EXCEPT ![c] = r]
  BY DEF Call
<1>4. /\ request'[c] = r
      /\ \A d \in Clients : d # c => request'[d] = request[d]
  BY <1>3 DEF TypeOK
<1>5. CASE n = 1
  <2>1. r \in Requests BY <1>3, <1>5
  <2>2. request[c] = None BY <1>1, <1>2, <1>5 DEF CallsInOrder, R
  <2>3. ASSUME NEW b \in Calls, pc[b] # "unused" PROVE b[1] # c
    <3>1. SUFFICES ASSUME b[1] = c PROVE FALSE
      OBVIOUS
    <3>2. b = <<c, b[2]>> /\ b[2] \in 1..MaxCalls BY <3>1, CallParts
    <3>3. b[2] # 1 BY <1>2, <1>5, <2>3, <3>2
    <3>4. 1 \in 1..MaxCalls /\ 1 < b[2] BY <1>5, <3>2, <3>3
    <3>5. pc[<<c, 1>>] # "unused" BY <2>3, <3>2, <3>4 DEF CallsInOrder
    <3>6. QED BY <1>2, <1>5, <3>5
  <2>4. R(a)' \in Requests BY <1>1, <1>4, <2>1 DEF R
  <2>5. request' \in [Clients -> Requests \cup {None}] BY <1>3, <2>1 DEF TypeOK
  <2>6. \A b \in Calls : b[1] \in Clients BY CallParts
  <2>7. \A b \in Calls : b[1] # c => R(b)' = R(b) BY <1>4, <2>6 DEF R
  <2>8. QED BY <1>1, <1>2, <1>4, <2>2, <2>3, <2>4, <2>5, <2>7
<1>6. CASE n # 1
  <2>1. request' = request BY <1>3, <1>6 DEF TypeOK
  <2>2. \A b \in Calls : R(b)' = R(b) BY <2>1 DEF R
  <2>3. n - 1 \in 1..MaxCalls /\ n > 1 BY <1>6, GateAssumption
  <2>4. client[<<c, n - 1>>] = "over" BY <2>3 DEF Call
  <2>5. pc[<<c, n - 1>>] # "unused" BY <2>3, <2>4, CallType DEF CallsInOrder
  <2>6. R(<<c, n - 1>>) \in Requests BY <2>3, <2>5, CallType DEF CallsInOrder
  <2>7. R(a) \in Requests BY <1>1, <2>6 DEF R
  <2>8. QED BY <1>1, <1>2, <2>1, <2>2, <2>7 DEF TypeOK
<1>7. QED BY <1>5, <1>6

LEMMA QuietGrows ==
  ASSUME UNCHANGED tables,
         \A a \in Calls : pc[a] # "unused" => pc'[a] # "unused" /\ R(a)' = R(a),
         \A c \in Clients : request[c] # None => request'[c] = request[c]
  PROVE  Grows
BY DEF tables, Grows

LEMMA LandGrows ==
  ASSUME Inv, NEW a \in Calls, Land(a)
  PROVE  Grows
<1>1. /\ pc' = [pc EXCEPT ![a] = "landed"] /\ request' = request
  BY DEF Land, GoTo
<1>2. \A b \in Calls : pc[b] # "unused" => pc'[b] # "unused" /\ R(b)' = R(b)
  BY <1>1 DEF Inv, TypeOK, R
<1>3. \A c \in Contents : thought[c] # Absent => thought'[c] # Absent
  <2>1. draft[a].inserts \in BOOLEAN BY LandWrites DEF DraftCovered, DraftType
  <2>2. thought'[R(a).content] \in ThoughtRows => thought'[R(a).content] # Absent
    BY Distinct DEF ThoughtRows
  <2>3. CASE draft[a].inserts BY <2>2, <2>3, LandWrites
  <2>4. CASE ~draft[a].inserts BY <2>4, LandWrites
  <2>5. QED BY <2>3, <2>4
<1>4. gate \subseteq gate'
  BY LandWrites
<1>5. ASSUME NEW s \in Sources, event[s] # NoEvent
      PROVE  /\ event'[s] # NoEvent /\ event'[s].hash = event[s].hash
             /\ event'[s].thought = event[s].thought /\ event'[s].intents = event[s].intents
             /\ event'[s].gate = event[s].gate
  <2>0. draft[a].ledger \in {"new", "replay", "conflict"}
    BY LandWrites DEF DraftCovered, DraftType
  <2>1. CASE s # R(a).source BY <1>5, <2>1, LandWrites
  <2>2. CASE s = R(a).source /\ draft[a].ledger = "conflict"
    BY <1>5, <2>2, LandWrites, Distinct, GateAssumption DEF EventRows
  <2>3. CASE s = R(a).source /\ draft[a].ledger # "conflict"
    BY <1>5, <2>0, <2>3, LandWrites, GateAssumption
  <2>4. QED BY <2>1, <2>2, <2>3
<1>6. QED BY <1>1, <1>2, <1>3, <1>4, <1>5 DEF Grows

LEMMA NextGrows == Inv /\ Next => Grows
<1>. SUFFICES ASSUME Inv, Next PROVE Grows
  OBVIOUS
<1>0. TypeOK /\ CallsInOrder /\ RetriesCovered BY DEF Inv
<1>1. ASSUME NEW a \in Calls, StepOf(a) PROVE Grows
  <2>1. CASE Land(a) BY <2>1, LandGrows
  <2>2. CASE ~Land(a)
    <3>1. /\ UNCHANGED tables /\ request' = request
          /\ pc' = [pc EXCEPT ![a] = pc'[a]] /\ pc'[a] # "unused"
          /\ \A b \in Calls : R(b)' = R(b)
      BY <1>0, <1>1, <2>2, StepMoves
    <3>2. \A b \in Calls : pc[b] # "unused" => pc'[b] # "unused"
      BY <1>0, <3>1 DEF TypeOK
    <3>3. QED BY <3>1, <3>2, QuietGrows
  <2>3. QED BY <2>1, <2>2
<1>2. ASSUME NEW c \in Clients, NEW n \in 1..MaxCalls, Call(c, n) PROVE Grows
  <2>1. PICK a \in Calls : /\ pc' = [pc EXCEPT ![a] = "claim"] /\ UNCHANGED tables
                           /\ \A b \in Calls : pc[b] # "unused" => R(b)' = R(b)
                           /\ \A d \in Clients : request[d] # None => request'[d] = request[d]
    BY <1>0, <1>2, CallMoves
  <2>2. \A b \in Calls : pc[b] # "unused" => pc'[b] # "unused" BY <1>0, <2>1 DEF TypeOK
  <2>3. QED BY <2>1, <2>2, QuietGrows
<1>3. ASSUME NEW c \in Contents, Afterwards(c) PROVE Grows
  <2>1. /\ UNCHANGED <<event, gate, request, pc>> /\ thought'[c] \in ThoughtRows
        /\ \A d \in Contents : d # c => thought'[d] = thought[d]
    BY <1>0, <1>3, AfterRow DEF txn
  <2>2. \A d \in Contents : thought[d] # Absent => thought'[d] # Absent
    BY <2>1, Distinct DEF ThoughtRows
  <2>3. QED BY <2>1, <2>2 DEF Grows, R
<1>4. QED BY <1>1, <1>2, <1>3, NextKinds

\* What holds of a call goes on holding while the call does not move.
LEMMA DraftStays ==
  ASSUME Inv, Grows, NEW a \in Calls, pc[a] # "unused", R(a) \in Requests,
         draft'[a] = draft[a], DraftCovered(a), pc'[a] = "insert" => pc[a] = "insert"
  PROVE  DraftCovered(a)'
<1>1. R(a)' = R(a) /\ R(a).source \in Sources \cup {None} BY RequestFields DEF Grows
<1>2. draft[a].thought \in Contents /\ draft[a] \in DraftType BY DEF DraftCovered
<1>3. ~draft[a].inserts => thought'[draft[a].thought] # Absent
  BY <1>2 DEF DraftCovered, Grows
<1>4. ASSUME FromLedger(a) PROVE FromLedger(a)'
  <2>1. /\ R(a).source \in Sources /\ event[R(a).source] # NoEvent
        /\ event'[R(a).source] # NoEvent
        /\ event'[R(a).source].hash = event[R(a).source].hash
        /\ event'[R(a).source].thought = event[R(a).source].thought
    BY <1>1, <1>4 DEF FromLedger, Grows
  <2>2. draft[a].gate # None => HasGateRow(draft[a].gate)'
    BY <1>4 DEF FromLedger, HasGateRow, Grows
  <2>3. draft[a].action # ConflictAction => BoundTo(a, draft[a].thought)'
    BY <1>1, <1>4, <2>1 DEF FromLedger, BoundTo
  <2>4. HasRival(a) => HasRival(a)' BY <1>1 DEF HasRival, Grows
  <2>5. QED BY <1>1, <1>4, <2>1, <2>2, <2>3, <2>4 DEF FromLedger, BoundTo
<1>5. QED BY <1>1, <1>2, <1>3, <1>4 DEF DraftCovered

LEMMA IsThereStays ==
  ASSUME Grows, NEW a \in Calls, pc[a] # "unused", R(a) \in Requests,
         draft'[a] = draft[a], draft[a].thought \in Contents, IsThere(a)
  PROVE  IsThere(a)'
<1>1. R(a)' = R(a) /\ R(a).source \in Sources \cup {None} BY RequestFields DEF Grows
<1>2. thought'[draft[a].thought] # Absent BY DEF IsThere, Grows
<1>3. draft[a].gate # None => HasGateRow(draft[a].gate)' BY DEF IsThere, HasGateRow, Grows
<1>4. BoundTo(a, draft[a].thought) /\ R(a).source # None => BoundTo(a, draft[a].thought)'
  BY <1>1 DEF BoundTo, Grows
<1>5. QED BY <1>1, <1>2, <1>3, <1>4 DEF IsThere

------------------------------------------------------------------------------
(***************************************************************************)
(* What a statement decides.                                               *)
(***************************************************************************)
LEMMA KeepCovered ==
  ASSUME Inv, Grows, NEW a \in Calls, pc[a] # "unused", R(a) \in Requests,
         NEW action \in {"inserted", "fail_open_insert", "out_of_family_insert"},
         NEW v \in BOOLEAN, Keep(a, action, v)
  PROVE  pc'[a] = "insert" /\ DraftCovered(a)'
<1>1. R(a)' = R(a) /\ R(a).content \in Contents BY RequestFields DEF Grows
<1>2. pc'[a] = "insert" BY DEF Keep, GoTo, Inv, TypeOK
<1>3. draft'[a] = [action |-> action, thought |-> R(a).content, inserts |-> TRUE,
                   vector |-> v, ledger |-> "new", gate |-> a]
  BY DEF Keep, Decision, Inv, TypeOK
<1>4. draft'[a] \in DraftType BY <1>1, <1>3 DEF DraftType, Actions
<1>5. QED BY <1>1, <1>2, <1>3, <1>4 DEF DraftCovered, ConflictAction

LEMMA DuplicateCovered ==
  ASSUME Inv, Grows, NEW a \in Calls, pc[a] # "unused", R(a) \in Requests,
         NEW action \in {"exact_duplicate", "semantic_duplicate"}, NEW c \in Contents,
         action = "exact_duplicate" => c = R(a).content, thought[c] # Absent,
         Decide(a, Decision(action, c, "new", a))
  PROVE  pc'[a] = "commit" /\ DraftCovered(a)'
<1>1. R(a)' = R(a) /\ thought'[c] # Absent BY DEF Grows
<1>2. pc'[a] = "commit" BY DEF Decide, GoTo, Inv, TypeOK
<1>3. draft'[a] = [action |-> action, thought |-> c, inserts |-> FALSE,
                   vector |-> FALSE, ledger |-> "new", gate |-> a]
  BY DEF Decide, Decision, Inv, TypeOK
<1>4. draft'[a] \in DraftType BY <1>3 DEF DraftType, Actions
<1>5. QED BY <1>1, <1>2, <1>3, <1>4 DEF DraftCovered, ConflictAction

\* Who bound the event bound it with another payload or other intents.
LEMMA RivalFound ==
  ASSUME Inv, NEW a \in Calls, R(a).source \in Sources, event[R(a).source] # NoEvent,
         event[R(a).source].hash # R(a).hash \/ event[R(a).source].intents # R(a).intents
  PROVE  HasRival(a)
<1>. DEFINE b == event[R(a).source].gate
<1>1. /\ b \in Calls /\ pc[b] # "unused" /\ R(b).source = R(a).source
      /\ R(b).hash = event[R(a).source].hash /\ R(b).intents = event[R(a).source].intents
  BY DEF Inv, EventsCovered
<1>2. R(b) \in Requests BY <1>1 DEF Inv, CallsInOrder
<1>3. b[1] \in Clients /\ request[b[1]] = R(b) /\ R(b) # None
  BY <1>1, <1>2, CallParts, RequestFields DEF R
<1>4. QED BY <1>1, <1>3 DEF HasRival

LEMMA ReplayedCovered ==
  ASSUME Inv, Grows, NEW a \in Calls, pc[a] # "unused", R(a) \in Requests, Replayed(a)
  PROVE  pc'[a] = "commit" /\ DraftCovered(a)' /\ draft'[a].ledger # "new"
<1>. DEFINE row == event[R(a).source]
            clash == row.hash # R(a).hash \/ row.intents # R(a).intents
<1>1. /\ R(a)' = R(a) /\ R(a).source \in Sources /\ row # NoEvent
  BY RequestFields DEF Grows, Replayed, ClaimsSource
<1>2. /\ row \in EventRows /\ row.thought \in Contents /\ row.gate \in Calls
      /\ thought[row.thought] # Absent /\ HasGateRow(row.gate)
  BY <1>1 DEF Inv, TypeOK, EventsCovered, EventRows
<1>3. /\ event'[R(a).source] # NoEvent
      /\ event'[R(a).source].hash = row.hash /\ event'[R(a).source].thought = row.thought
  BY <1>1 DEF Grows
<1>4. thought'[row.thought] # Absent BY <1>2 DEF Grows
<1>5. \E x \in gate' : x.call = row.gate BY <1>2 DEF HasGateRow, Grows
<1>6. HasRival(a) => HasRival(a)' BY <1>1 DEF HasRival, Grows
<1>7. pc'[a] = "commit" BY DEF Replayed, Decide, GoTo, Inv, TypeOK
<1>8. PICK action \in Actions, ledger \in {"replay", "conflict"}, g \in Calls \cup {None} :
        /\ draft'[a] = Decision(action, row.thought, ledger, g)
        /\ IF clash THEN action = ConflictAction /\ g = None
                    ELSE action # ConflictAction /\ action \in Actions /\ g = row.gate
  <2>0. ConflictAction \in Actions BY DEF ConflictAction, Actions
  <2>1. CASE row.hash # R(a).hash
    <3>1. draft'[a] = Decision(ConflictAction, row.thought, "conflict", None)
      BY <2>1 DEF Replayed, Decide, Inv, TypeOK, ConflictAction
    <3>2. QED BY <2>0, <2>1, <3>1
  <2>2. CASE row.hash = R(a).hash /\ row.intents # R(a).intents
    <3>1. draft'[a] = [Decision(ConflictAction, row.thought, "conflict", None)
                         EXCEPT !.ledger = "replay"]
      BY <2>2 DEF Replayed, Decide, Inv, TypeOK, ConflictAction, IntentsDiffer
    <3>2. draft'[a] = Decision(ConflictAction, row.thought, "replay", None)
      BY <3>1 DEF Decision
    <3>3. QED BY <2>0, <2>2, <3>2
  <2>3. CASE ~clash
    <3>. DEFINE act == IF row.status = "skipped" THEN "semantic_duplicate" ELSE "exact_duplicate"
    <3>1. draft'[a] = Decision(act, row.thought, "replay", row.gate)
      BY <2>3 DEF Replayed, Decide, Inv, TypeOK, IntentsDiffer
    <3>2. act \in Actions /\ act # ConflictAction BY DEF Actions, ConflictAction
    <3>3. QED BY <1>2, <2>3, <3>1, <3>2
  <2>4. QED BY <2>1, <2>2, <2>3
<1>9. draft'[a] = [action |-> action, thought |-> row.thought, inserts |-> FALSE,
                   vector |-> FALSE, ledger |-> ledger, gate |-> g]
  BY <1>8 DEF Decision
<1>10. draft'[a] \in DraftType BY <1>2, <1>8, <1>9 DEF DraftType
<1>11. clash => HasRival(a) BY <1>1, RivalFound
<1>. HIDE DEF clash
<1>12. FromLedger(a)'
  <2>1. R(a)'.source # None /\ (event[R(a).source] # NoEvent)'
    BY <1>1, <1>3, GateAssumption
  <2>2. draft'[a].gate # None => HasGateRow(draft[a].gate)'
    BY <1>5, <1>8, <1>9 DEF HasGateRow
  <2>3. draft'[a].action # ConflictAction => BoundTo(a, draft[a].thought)'
    BY <1>1, <1>3, <1>8, <1>9 DEF BoundTo, clash
  <2>4. draft'[a].action = ConflictAction => HasRival(a)' BY <1>6, <1>8, <1>9, <1>11
  <2>5. QED BY <1>1, <1>3, <2>1, <2>2, <2>3, <2>4 DEF FromLedger
<1>13. QED BY <1>1, <1>2, <1>4, <1>7, <1>9, <1>10, <1>12 DEF DraftCovered, ConflictAction

LEMMA LandCovered ==
  ASSUME Inv, Grows, NEW a \in Calls, Land(a)
  PROVE  pc'[a] = "landed" /\ DraftCovered(a)' /\ IsThere(a)'
<1>1. /\ pc' = [pc EXCEPT ![a] = "landed"] /\ draft' = draft /\ pc[a] # "unused"
  BY DEF Land, GoTo
<1>2. pc'[a] = "landed" BY <1>1 DEF Inv, TypeOK
<1>3. DraftCovered(a) /\ R(a) \in Requests BY LandWrites
<1>4. DraftCovered(a)' BY <1>1, <1>2, <1>3, DraftStays
<1>5. /\ R(a)' = R(a) /\ draft[a].thought \in Contents /\ R(a).source \in Sources \cup {None}
      /\ draft[a].ledger \in {"new", "replay", "conflict"} /\ draft[a].inserts \in BOOLEAN
  BY <1>1, <1>3, RequestFields DEF Grows, DraftCovered, DraftType
<1>6. thought'[draft[a].thought] # Absent
  <2>1. CASE draft[a].inserts
    <3>1. draft[a].thought = R(a).content BY <1>3, <2>1 DEF DraftCovered
    <3>2. thought'[R(a).content] \in ThoughtRows BY <2>1, LandWrites
    <3>3. QED BY <3>1, <3>2, Distinct DEF ThoughtRows
  <2>2. CASE ~draft[a].inserts BY <1>3, <1>5, <2>2 DEF DraftCovered, Grows
  <2>3. QED BY <2>1, <2>2
<1>7. draft[a].gate # None => HasGateRow(draft[a].gate)'
  <2>1. CASE draft[a].ledger = "new"
    <3>1. draft[a].gate = a BY <1>3, <2>1 DEF DraftCovered
    <3>2. [call |-> a, action |-> draft[a].action] \in gate' BY <2>1, LandWrites
    <3>3. QED BY <1>1, <3>1, <3>2 DEF HasGateRow
  <2>2. CASE draft[a].ledger # "new"
    <3>1. draft[a].gate # None => HasGateRow(draft[a].gate)
      BY <1>3, <2>2 DEF DraftCovered, FromLedger
    <3>2. QED BY <1>1, <3>1 DEF HasGateRow, Grows
  <2>3. QED BY <2>1, <2>2
<1>8. ASSUME R(a).source # None, draft[a].action # ConflictAction
      PROVE  BoundTo(a, draft[a].thought)'
  <2>1. CASE draft[a].ledger = "new"
    <3>1. event'[R(a).source] = EventRow(a) /\ EventRow(a) \in EventRows
      BY <1>8, <2>1, LandWrites
    <3>2. EventRow(a).hash = R(a).hash /\ EventRow(a).thought = draft[a].thought
      BY DEF EventRow
    <3>3. event'[R(a).source] # NoEvent BY <3>1, Distinct DEF EventRows
    <3>4. QED BY <1>1, <1>5, <3>1, <3>2, <3>3 DEF BoundTo
  <2>2. CASE draft[a].ledger # "new"
    <3>1. BoundTo(a, draft[a].thought)
      BY <1>3, <1>8, <2>2 DEF DraftCovered, FromLedger
    <3>2. QED BY <1>1, <1>5, <1>8, <3>1 DEF BoundTo, Grows
  <2>3. QED BY <2>1, <2>2
<1>9. IsThere(a)' BY <1>1, <1>5, <1>6, <1>7, <1>8 DEF IsThere
<1>10. QED BY <1>2, <1>4, <1>9

PcType == {"unused", "landed", "over"} \cup OpenPcs

\* Where a call goes and what it has decided by then.
LEMMA OwnDraft ==
  ASSUME Inv, Grows, NEW a \in Calls, StepOf(a)
  PROVE  /\ pc'[a] \in PcType
         /\ Decided(a)' => DraftCovered(a)'
         /\ pc'[a] = "landed" => IsThere(a)'
         /\ ~Decided(a)' => draft'[a] = NoDraft \/ draft'[a] = draft[a]
<1>0. TypeOK /\ CallsInOrder /\ RetriesCovered BY DEF Inv
<1>1. pc[a] # "unused" /\ R(a) \in Requests BY <1>0, StepMoves
<1>2. Decided(a) => DraftCovered(a) BY DEF Inv, DraftsCovered
<1>3. pc[a] = "landed" => IsThere(a) BY DEF Inv, DraftsCovered
<1>. DEFINE P == /\ pc'[a] \in PcType
                 /\ Decided(a)' => DraftCovered(a)'
                 /\ pc'[a] = "landed" => IsThere(a)'
                 /\ ~Decided(a)' => draft'[a] = NoDraft \/ draft'[a] = draft[a]
<1>4. ASSUME pc'[a] \in PcType, ~Decided(a)', draft'[a] = NoDraft \/ draft'[a] = draft[a]
      PROVE  P
  BY <1>4 DEF Decided
<1>5. ASSUME pc'[a] \in {"insert", "commit"}, DraftCovered(a)' PROVE P
  BY <1>5 DEF Decided, PcType, OpenPcs
<1>6. ASSUME draft'[a] = draft[a], pc'[a] = pc[a] PROVE P
  <2>1. pc[a] \in PcType BY <1>0 DEF TypeOK, PcType
  <2>2. Decided(a) => DraftCovered(a)' BY <1>1, <1>2, <1>6, DraftStays
  <2>3. pc[a] = "landed" => IsThere(a)'
    BY <1>1, <1>2, <1>3, <1>6, IsThereStays DEF Decided, DraftCovered
  <2>4. QED BY <1>6, <2>1, <2>2, <2>3 DEF Decided
<1>7. CASE Unclaimed(a)
  BY <1>0, <1>4, <1>7 DEF Unclaimed, GoTo, TypeOK, Decided, PcType, OpenPcs
<1>8. CASE Replayed(a) BY <1>1, <1>5, <1>8, ReplayedCovered
<1>9. CASE Lookup(a)
  <2>1. CASE thought[R(a).content] # Absent
    <3>1. Decide(a, Decision("exact_duplicate", R(a).content, "new", a))
      BY <1>9, <2>1 DEF Lookup, ExactDuplicate
    <3>2. QED BY <1>1, <1>5, <2>1, <3>1, RequestFields, DuplicateCovered
  <2>2. CASE thought[R(a).content] = Absent
    BY <1>0, <1>4, <1>9, <2>2 DEF Lookup, GoTo, TypeOK, Decided, PcType, OpenPcs
  <2>3. QED BY <2>1, <2>2
<1>10. CASE EnterFamily(a)
  <2>1. CASE thought[R(a).content] # Absent
    <3>1. Decide(a, Decision("exact_duplicate", R(a).content, "new", a))
      BY <1>10, <2>1 DEF EnterFamily, ExactDuplicate
    <3>2. QED BY <1>1, <1>5, <2>1, <3>1, RequestFields, DuplicateCovered
  <2>2. CASE thought[R(a).content] = Absent /\ R(a).vector
    BY <1>0, <1>4, <1>10, <2>2 DEF EnterFamily, GoTo, TypeOK, Decided, PcType, OpenPcs
  <2>3. CASE thought[R(a).content] = Absent /\ ~R(a).vector
    <3>1. Keep(a, "fail_open_insert", FALSE) BY <1>10, <2>3 DEF EnterFamily
    <3>2. QED BY <1>1, <1>5, <3>1, KeepCovered
  <2>4. QED BY <2>1, <2>2, <2>3
<1>11. CASE NotCompared(a)
  <2>1. R(a).vector \in BOOLEAN BY <1>1, RequestFields
  <2>2. CASE Keep(a, "out_of_family_insert", R(a).vector)
    BY <1>1, <1>5, <2>1, <2>2, KeepCovered
  <2>3. CASE Keep(a, "fail_open_insert", FALSE) BY <1>1, <1>5, <2>3, KeepCovered
  <2>4. QED BY <1>11, <2>2, <2>3 DEF NotCompared
<1>12. CASE Compare(a)
  <2>1. CASE Keep(a, "inserted", TRUE) BY <1>1, <1>5, <2>1, KeepCovered
  <2>2. CASE Keep(a, "fail_open_insert", FALSE) BY <1>1, <1>5, <2>2, KeepCovered
  <2>3. ASSUME NEW m \in Matches(a), Decide(a, Decision("semantic_duplicate", m, "new", a))
        PROVE  P
    <3>1. m \in Contents /\ thought[m] # Absent BY <2>3 DEF Matches
    <3>2. QED BY <1>1, <1>5, <2>3, <3>1, DuplicateCovered
  <2>4. QED BY <1>12, <2>1, <2>2, <2>3 DEF Compare
<1>13. CASE Insert(a)
  <2>1. pc[a] = "insert" /\ pc'[a] = "commit" /\ draft'[a] = draft[a]
    BY <1>0, <1>13 DEF Insert, Running, GoTo, TypeOK
  <2>2. DraftCovered(a)' BY <1>1, <1>2, <2>1, DraftStays DEF Decided
  <2>3. QED BY <1>5, <2>1, <2>2
<1>14. CASE SendCommit(a)
  <2>1. pc[a] = "commit" /\ pc'[a] = "sent" /\ draft'[a] = draft[a]
    BY <1>0, <1>14 DEF SendCommit, Running, GoTo, TypeOK
  <2>2. DraftCovered(a)' BY <1>1, <1>2, <2>1, DraftStays DEF Decided
  <2>3. QED BY <2>1, <2>2 DEF Decided, PcType, OpenPcs
<1>15. CASE Land(a) BY <1>15, LandCovered DEF Decided, PcType
<1>16. CASE \E label \in {"claim", "over"} : RollBackTo(a, label)
  BY <1>0, <1>4, <1>16 DEF RollBackTo, GoTo, TypeOK, Decided, PcType, OpenPcs
<1>17. CASE \/ RequiresAdjudication(a) \/ LosesRace(a) \/ ConsumerRejects(a)
            \/ IntentsRefused(a) \/ Abandon(a)
  BY <1>16, <1>17 DEF RequiresAdjudication, LosesRace, ConsumerRejects, IntentsRefused, Abandon
<1>18. CASE Answer(a)
  BY <1>0, <1>4, <1>18 DEF Answer, GoTo, TypeOK, Decided, PcType
<1>19. CASE Probe(a) \/ LoseConnection(a) \/ Deadline(a)
  BY <1>6, <1>19 DEF Probe, LoseConnection, Deadline, txn
<1>20. QED BY <1>7, <1>8, <1>9, <1>10, <1>11, <1>12, <1>13, <1>14, <1>15, <1>17, <1>18, <1>19
           DEF StepOf, Statement

(***************************************************************************)
(* Steps keep the invariant, conjunct by conjunct.                         *)
(***************************************************************************)
LEMMA NextDrafts == Inv /\ [Next]_vars => DraftsCovered'
<1>. SUFFICES ASSUME Inv, [Next]_vars PROVE DraftsCovered'
  OBVIOUS
<1>0. TypeOK /\ CallsInOrder /\ RetriesCovered /\ DraftsCovered BY DEF Inv
<1>1. ASSUME NEW b \in Calls, Grows, pc'[b] = pc[b], draft'[b] = draft[b]
      PROVE  /\ Decided(b)' => DraftCovered(b)'
             /\ pc'[b] = "landed" => IsThere(b)'
  <2>1. SUFFICES ASSUME Decided(b)
                 PROVE  /\ DraftCovered(b)'
                        /\ pc'[b] = "landed" => IsThere(b)'
    BY <1>1 DEF Decided
  <2>2. pc[b] # "unused" /\ R(b) \in Requests BY <1>0, <2>1 DEF Decided, CallsInOrder
  <2>3. DraftCovered(b) /\ (pc[b] = "landed" => IsThere(b)) BY <1>0, <2>1 DEF DraftsCovered
  <2>4. DraftCovered(b)' BY <1>1, <2>2, <2>3, DraftStays
  <2>5. pc[b] = "landed" => IsThere(b)' BY <1>1, <2>2, <2>3, IsThereStays DEF DraftCovered
  <2>6. QED BY <1>1, <2>4, <2>5
<1>2. CASE \E a \in Calls : StepOf(a)
  <2>1. PICK a \in Calls : StepOf(a) BY <1>2
  <2>2. Grows BY <2>1, NextGrows DEF Next, StepOf
  <2>3. \A b \in Calls : b # a => pc'[b] = pc[b] /\ draft'[b] = draft[b]
    BY <1>0, <2>1, StepMoves DEF TypeOK
  <2>4. QED BY <1>1, <2>1, <2>2, <2>3, OwnDraft DEF DraftsCovered
<1>3. CASE \E c \in Clients, n \in 1..MaxCalls : Call(c, n)
  <2>1. PICK a \in Calls : /\ pc' = [pc EXCEPT ![a] = "claim"] /\ draft' = draft
    BY <1>0, <1>3, CallMoves
  <2>2. Grows BY <1>3, NextGrows, CallType DEF Next
  <2>3. \A b \in Calls : b # a => pc'[b] = pc[b] BY <1>0, <2>1 DEF TypeOK
  <2>4. ~Decided(a)' BY <1>0, <2>1 DEF TypeOK, Decided
  <2>5. QED BY <1>1, <2>1, <2>2, <2>3, <2>4 DEF DraftsCovered, Decided
<1>4. CASE \E c \in Contents : Afterwards(c)
  <2>1. Grows BY <1>4, NextGrows DEF Next
  <2>2. pc' = pc /\ draft' = draft BY <1>4 DEF Afterwards, txn
  <2>3. QED BY <1>1, <2>1, <2>2 DEF DraftsCovered
<1>5. CASE UNCHANGED vars
  <2>1. Grows BY <1>5 DEF vars, tables, txn, Grows, R
  <2>2. pc' = pc /\ draft' = draft BY <1>5 DEF vars, txn
  <2>3. QED BY <1>1, <2>1, <2>2 DEF DraftsCovered
<1>6. QED BY <1>2, <1>3, <1>4, <1>5, NextKinds

\* A call is answered once.
LEMMA OwnClient ==
  ASSUME TypeOK, CallsInOrder, NEW a \in Calls, StepOf(a)
  PROVE  /\ replies'[a] # None => client'[a] = "over"
         /\ replies'[a] # replies[a] => replies[a] = None
<1>1. CASE replies' = replies /\ client' = client BY <1>1 DEF CallsInOrder
<1>2. CASE Deadline(a) BY <1>2 DEF Deadline, CallsInOrder, TypeOK
<1>3. CASE client[a] \in {"waiting", "probing"} /\ (\E x : Reply(a, x))
  BY <1>3 DEF Reply, CallsInOrder, TypeOK
<1>4. CASE RequiresAdjudication(a) \/ ConsumerRejects(a) \/ IntentsRefused(a)
  BY <1>3, <1>4 DEF RequiresAdjudication, ConsumerRejects, IntentsRefused, Running, Conflicts
<1>5. CASE Answer(a) BY <1>3, <1>5 DEF Answer, Running
<1>6. CASE LoseConnection(a) BY <1>3, <1>6 DEF LoseConnection
<1>7. CASE Probe(a) BY <1>3, <1>7 DEF Probe
<1>8. CASE ~(\/ Deadline(a) \/ RequiresAdjudication(a) \/ ConsumerRejects(a)
             \/ IntentsRefused(a) \/ Answer(a) \/ LoseConnection(a) \/ Probe(a))
  BY <1>1, <1>8 DEF StepOf, Statement, Unclaimed, Replayed, Lookup, EnterFamily, NotCompared,
       Compare, Insert, LosesRace, SendCommit, Land, Abandon, InDatabase
<1>9. QED BY <1>2, <1>4, <1>5, <1>6, <1>7, <1>8

LEMMA NextOrder == Inv /\ [Next]_vars => CallsInOrder'
<1>. SUFFICES ASSUME Inv, [Next]_vars PROVE CallsInOrder'
  OBVIOUS
<1>0. TypeOK /\ CallsInOrder /\ RetriesCovered BY DEF Inv
<1>1. CASE \E a \in Calls : StepOf(a)
  <2>1. PICK a \in Calls : StepOf(a) BY <1>1
  <2>2. /\ pc[a] # "unused" /\ pc' = [pc EXCEPT ![a] = pc'[a]] /\ pc'[a] # "unused"
        /\ client' = [client EXCEPT ![a] = client'[a]]
        /\ replies' = [replies EXCEPT ![a] = replies'[a]]
        /\ \A b \in Calls : R(b)' = R(b)
    BY <1>0, <2>1, StepMoves
  <2>3. \A b \in Calls :
          /\ pc'[b] = "unused" <=> pc[b] = "unused"
          /\ b # a => client'[b] = client[b] /\ replies'[b] = replies[b]
    BY <1>0, <2>2 DEF TypeOK
  <2>4. replies'[a] # None => client'[a] = "over" BY <1>0, <2>1, OwnClient
  <2>5. \A b \in Calls : replies'[b] # None => client'[b] = "over"
    BY <1>0, <2>3, <2>4 DEF CallsInOrder
  <2>6. QED BY <1>0, <2>2, <2>3, <2>5, CallType DEF CallsInOrder
<1>2. CASE \E c \in Clients, n \in 1..MaxCalls : Call(c, n)
  <2>1. PICK c \in Clients, n \in 1..MaxCalls : Call(c, n) BY <1>2
  <2>2. PICK a \in Calls :
          /\ a = <<c, n>> /\ pc[a] = "unused" /\ pc' = [pc EXCEPT ![a] = "claim"]
          /\ client' = [client EXCEPT ![a] = "waiting"] /\ replies' = replies
          /\ R(a)' \in Requests
          /\ \A b \in Calls : pc[b] # "unused" => R(b)' = R(b)
          /\ \A b \in Calls : b[1] # c => R(b)' = R(b)
    BY <1>0, <2>1, CallMoves
  <2>3. \A b \in Calls :
          /\ pc'[b] = "unused" <=> pc[b] = "unused" /\ b # a
          /\ b # a => client'[b] = client[b]
    BY <1>0, <2>2 DEF TypeOK
  <2>4. \A b \in Calls : client'[b] # "unused" \/ replies'[b] # None => pc'[b] # "unused"
    BY <1>0, <2>2, <2>3 DEF CallsInOrder
  <2>5. \A b \in Calls : pc'[b] # "unused" => R(b)' \in Requests
    BY <1>0, <2>2, <2>3 DEF CallsInOrder
  <2>6. \A m \in 1..MaxCalls : m < n => pc[<<c, m>>] # "unused"
    <3>1. SUFFICES ASSUME NEW m \in 1..MaxCalls, m < n PROVE pc[<<c, m>>] # "unused"
      OBVIOUS
    <3>2. n - 1 \in 1..MaxCalls /\ n > 1 BY <3>1, GateAssumption
    <3>3. client[<<c, n - 1>>] = "over" BY <2>1, <3>2 DEF Call
    <3>4. pc[<<c, n - 1>>] # "unused" BY <1>0, <3>2, <3>3, CallType DEF CallsInOrder
    <3>5. m = n - 1 \/ m < n - 1 BY <3>1
    <3>6. QED BY <1>0, <3>1, <3>2, <3>4, <3>5 DEF CallsInOrder
  <2>7. ASSUME NEW b \in Calls, b[2] = 1, pc'[b] = "unused" PROVE R(b)' = None
    <3>1. pc[b] = "unused" /\ b # a BY <2>3, <2>7
    <3>2. R(b) = None BY <1>0, <2>7, <3>1 DEF CallsInOrder
    <3>3. b[1] # c
      <4>1. SUFFICES ASSUME b[1] = c PROVE FALSE
        OBVIOUS
      <4>2. b = <<c, 1>> /\ 1 \in 1..MaxCalls BY <2>7, <4>1, CallParts
      <4>3. n # 1 BY <2>2, <3>1, <4>2
      <4>4. 1 < n BY <4>3
      <4>5. QED BY <2>6, <3>1, <4>2, <4>4
    <3>4. QED BY <2>2, <3>2, <3>3
  <2>8. ASSUME NEW d \in Clients, NEW m \in 1..MaxCalls, NEW k \in 1..MaxCalls,
               m < k, pc'[<<d, k>>] # "unused"
        PROVE  pc'[<<d, m>>] # "unused"
    <3>1. <<d, k>> \in Calls /\ <<d, m>> \in Calls BY CallType
    <3>2. CASE <<d, k>> = a
      <4>1. d = c /\ k = n BY <2>2, <3>2
      <4>2. pc[<<d, m>>] # "unused" BY <2>6, <2>8, <4>1
      <4>3. QED BY <2>3, <3>1, <4>2
    <3>3. CASE <<d, k>> # a
      <4>1. pc[<<d, k>>] # "unused" BY <2>3, <2>8, <3>1, <3>3
      <4>2. pc[<<d, m>>] # "unused" BY <1>0, <2>8, <4>1 DEF CallsInOrder
      <4>3. QED BY <2>3, <3>1, <4>2
    <3>4. QED BY <3>2, <3>3
  <2>9. \A b \in Calls : replies'[b] # None => client'[b] = "over"
    BY <1>0, <2>2, <2>3 DEF CallsInOrder
  <2>10. QED BY <2>4, <2>5, <2>7, <2>8, <2>9 DEF CallsInOrder
<1>3. CASE \E c \in Contents : Afterwards(c)
  BY <1>0, <1>3 DEF Afterwards, txn, CallsInOrder, R
<1>4. CASE UNCHANGED vars
  BY <1>0, <1>4 DEF vars, tables, txn, CallsInOrder, R
<1>5. QED BY <1>1, <1>2, <1>3, <1>4, NextKinds

\* A source event is claimed when nobody holds it, and bound by who found it unbound.
LEMMA OwnClaim ==
  ASSUME Inv, NEW a \in Calls, StepOf(a)
  PROVE  /\ \A s \in Sources : HoldsSource(a, s)' =>
               HoldsSource(a, s) \/ \A b \in Calls : ~HoldsSource(b, s)
         /\ WillBind(a)' /\ R(a).source # None => event[R(a).source] = NoEvent /\ ~Land(a)
<1>0. TypeOK /\ CallsInOrder /\ RetriesCovered BY DEF Inv
<1>1. R(a)' = R(a) /\ R(a) \in Requests /\ pc[a] # "unused" BY <1>0, StepMoves
<1>2. Grows BY NextGrows DEF Next, StepOf
<1>. DEFINE Holds == \A s \in Sources : HoldsSource(a, s)' =>
                        HoldsSource(a, s) \/ \A b \in Calls : ~HoldsSource(b, s)
            Binds == WillBind(a)' /\ R(a).source # None => event[R(a).source] = NoEvent /\ ~Land(a)
<1>3. WillBind(a) /\ R(a).source # None => event[R(a).source] = NoEvent
  BY DEF Inv, EventsAsClaimed
<1>4. ASSUME pc'[a] \in {"claim", "over", "landed"} PROVE Holds /\ Binds
  BY <1>4 DEF HoldsSource, WillBind, OpenPcs
<1>5. ASSUME pc[a] \in OpenPcs \ {"claim"} PROVE Holds
  BY <1>1, <1>5 DEF HoldsSource
<1>6. CASE Unclaimed(a)
  <2>1. pc'[a] = "lookup" BY <1>0, <1>6 DEF Unclaimed, GoTo, TypeOK
  <2>2. Holds BY <1>1, <1>6, GateAssumption DEF Unclaimed, ClaimsSource, HoldsSource
  <2>3. R(a).source # None => event[R(a).source] = NoEvent BY <1>6 DEF Unclaimed
  <2>4. ~Land(a) BY <1>6 DEF Unclaimed, Running, Land
  <2>5. QED BY <2>2, <2>3, <2>4
<1>7. CASE Replayed(a)
  <2>1. Holds BY <1>1, <1>7 DEF Replayed, ClaimsSource, HoldsSource
  <2>2. pc'[a] = "commit" /\ draft'[a].ledger # "new" BY <1>1, <1>2, <1>7, ReplayedCovered
  <2>3. ~WillBind(a)' BY <2>2 DEF WillBind
  <2>4. QED BY <2>1, <2>3
<1>8. CASE Lookup(a) \/ EnterFamily(a) \/ NotCompared(a) \/ Compare(a) \/ Insert(a)
  <2>1. pc[a] \in {"lookup", "family", "compare", "insert"}
    BY <1>8 DEF Lookup, EnterFamily, NotCompared, Compare, Insert, Running
  <2>2. Holds BY <1>5, <2>1 DEF OpenPcs
  <2>3. WillBind(a) BY <2>1 DEF WillBind
  <2>4. ~Land(a) BY <2>1 DEF Land
  <2>5. QED BY <1>3, <2>2, <2>3, <2>4
<1>9. CASE SendCommit(a)
  <2>1. pc[a] = "commit" /\ pc'[a] = "sent" /\ draft'[a] = draft[a]
    BY <1>0, <1>9 DEF SendCommit, Running, GoTo, TypeOK
  <2>2. Holds BY <1>5, <2>1 DEF OpenPcs
  <2>3. WillBind(a)' => WillBind(a) BY <2>1 DEF WillBind
  <2>4. ~Land(a) BY <2>1 DEF Land
  <2>5. QED BY <1>3, <2>2, <2>3, <2>4
<1>10. CASE Land(a)
  BY <1>0, <1>4, <1>10 DEF Land, GoTo, TypeOK
<1>11. CASE \/ RequiresAdjudication(a) \/ LosesRace(a) \/ ConsumerRejects(a)
            \/ IntentsRefused(a) \/ Abandon(a) \/ Answer(a)
  BY <1>0, <1>4, <1>11 DEF RequiresAdjudication, LosesRace, ConsumerRejects, IntentsRefused,
                           Abandon, Answer, RollBackTo, GoTo, TypeOK
<1>12. CASE Probe(a) \/ LoseConnection(a) \/ Deadline(a)
  <2>1. pc' = pc /\ draft' = draft BY <1>12 DEF Probe, LoseConnection, Deadline, txn
  <2>2. Holds BY <1>1, <2>1 DEF HoldsSource
  <2>3. WillBind(a)' => WillBind(a) BY <2>1 DEF WillBind
  <2>4. WillBind(a)' => ~Land(a) BY <1>0, <2>1 DEF Land, GoTo, TypeOK, WillBind
  <2>5. QED BY <1>3, <2>2, <2>3, <2>4
<1>13. QED BY <1>6, <1>7, <1>8, <1>9, <1>10, <1>11, <1>12 DEF StepOf, Statement

LEMMA NextSources == Inv /\ [Next]_vars => SourcesExclusive' /\ EventsAsClaimed'
<1>. SUFFICES ASSUME Inv, [Next]_vars PROVE SourcesExclusive' /\ EventsAsClaimed'
  OBVIOUS
<1>0. /\ TypeOK /\ CallsInOrder /\ RetriesCovered /\ SourcesExclusive /\ EventsAsClaimed
  BY DEF Inv
<1>1. CASE \E a \in Calls : StepOf(a)
  <2>1. PICK a \in Calls : StepOf(a) BY <1>1
  <2>2. /\ \A b \in Calls : R(b)' = R(b)
        /\ \A b \in Calls : b # a => pc'[b] = pc[b] /\ draft'[b] = draft[b]
        /\ Land(a) \/ UNCHANGED tables
        /\ R(a) \in Requests
    BY <1>0, <2>1, StepMoves DEF TypeOK
  <2>3. \A b \in Calls : b # a => \A s \in Sources : HoldsSource(b, s)' = HoldsSource(b, s)
    BY <2>2 DEF HoldsSource
  <2>4. SourcesExclusive' BY <1>0, <2>1, <2>3, OwnClaim DEF SourcesExclusive
  <2>5. ASSUME NEW b \in Calls, WillBind(b)', R(b)'.source # None
        PROVE  event'[R(b).source] = NoEvent
    <3>1. CASE b = a
      BY <2>1, <2>2, <2>5, <3>1, OwnClaim DEF tables
    <3>2. CASE b # a
      <4>1. WillBind(b) BY <2>2, <2>5, <3>2 DEF WillBind
      <4>2. event[R(b).source] = NoEvent /\ R(b).source # None BY <1>0, <2>2, <2>5, <4>1 DEF EventsAsClaimed
      <4>3. pc[b] # "unused" BY <4>1 DEF WillBind
      <4>4. R(b).source \in Sources
        BY <1>0, <4>2, <4>3, RequestFields DEF CallsInOrder
      <4>5. CASE ~Land(a) BY <2>2, <4>2, <4>5 DEF tables
      <4>6. CASE Land(a)
        <5>1. HoldsSource(b, R(b).source) BY <4>1 DEF HoldsSource, WillBind, OpenPcs
        <5>2. pc[a] = "sent" BY <4>6 DEF Land
        <5>3. R(a).source # R(b).source
          BY <1>0, <3>2, <4>4, <5>1, <5>2 DEF SourcesExclusive, HoldsSource, OpenPcs
        <5>4. event'[R(b).source] = event[R(b).source]
          BY <4>4, <4>6, <5>3, LandWrites
        <5>5. QED BY <4>2, <5>4
      <4>7. QED BY <4>5, <4>6
    <3>3. QED BY <3>1, <3>2
  <2>6. QED BY <2>2, <2>4, <2>5 DEF EventsAsClaimed
<1>2. CASE \E c \in Clients, n \in 1..MaxCalls : Call(c, n)
  <2>1. PICK a \in Calls :
          /\ pc[a] = "unused" /\ pc' = [pc EXCEPT ![a] = "claim"]
          /\ UNCHANGED <<tables, draft>>
          /\ \A b \in Calls : pc[b] # "unused" => R(b)' = R(b)
    BY <1>0, <1>2, CallMoves
  <2>2. \A b \in Calls : b # a => pc'[b] = pc[b] BY <1>0, <2>1 DEF TypeOK
  <2>3. pc'[a] = "claim" BY <1>0, <2>1 DEF TypeOK
  <2>4. \A b \in Calls : \A s \in Sources : HoldsSource(b, s)' => HoldsSource(b, s)
    BY <2>1, <2>2, <2>3 DEF HoldsSource, OpenPcs
  <2>5. \A b \in Calls : WillBind(b)' => WillBind(b) /\ R(b)' = R(b)
    BY <2>1, <2>2, <2>3 DEF WillBind
  <2>6. SourcesExclusive' BY <1>0, <2>4 DEF SourcesExclusive
  <2>7. EventsAsClaimed' BY <1>0, <2>1, <2>5 DEF EventsAsClaimed, tables
  <2>8. QED BY <2>6, <2>7
<1>3. CASE \E c \in Contents : Afterwards(c)
  BY <1>0, <1>3 DEF Afterwards, txn, SourcesExclusive, EventsAsClaimed, HoldsSource, WillBind, R
<1>4. CASE UNCHANGED vars
  BY <1>0, <1>4 DEF vars, tables, txn, SourcesExclusive, EventsAsClaimed, HoldsSource, WillBind, R
<1>5. QED BY <1>1, <1>2, <1>3, <1>4, NextKinds

LEMMA NextRows == Inv /\ [Next]_vars => EventsCovered' /\ GateCovered'
<1>. SUFFICES ASSUME Inv, [Next]_vars PROVE EventsCovered' /\ GateCovered'
  OBVIOUS
<1>0. /\ TypeOK /\ CallsInOrder /\ RetriesCovered /\ EventsCovered /\ GateCovered
  BY DEF Inv
<1>1. ASSUME Grows, UNCHANGED <<event, gate>> PROVE EventsCovered' /\ GateCovered'
  <2>1. ASSUME NEW s \in Sources, event'[s] # NoEvent
        PROVE  /\ thought'[event'[s].thought] # Absent /\ HasGateRow(event[s].gate)'
               /\ event'[s].gate \in Calls /\ pc'[event'[s].gate] # "unused"
               /\ (R(event[s].gate).source = s)' /\ (R(event[s].gate).hash = event[s].hash)'
               /\ (R(event[s].gate).intents = event[s].intents)'
    <3>1. event[s] # NoEvent /\ event'[s] = event[s] BY <1>1, <2>1
    <3>2. event[s].thought \in Contents BY <1>0, <3>1 DEF TypeOK
    <3>3. PICK b \in Calls : b = event[s].gate BY <1>0, <3>1 DEF EventsCovered
    <3>4. /\ pc[b] # "unused" /\ R(b).source = s /\ R(b).hash = event[s].hash
          /\ R(b).intents = event[s].intents /\ HasGateRow(b)
          /\ thought[event[s].thought] # Absent
      BY <1>0, <3>1, <3>3 DEF EventsCovered
    <3>5. R(b)' = R(b) /\ pc'[b] # "unused" /\ thought'[event[s].thought] # Absent
      BY <1>1, <3>2, <3>4 DEF Grows
    <3>6. HasGateRow(b)' BY <1>1, <3>4 DEF HasGateRow
    <3>7. QED BY <3>1, <3>3, <3>4, <3>5, <3>6
  <2>2. ASSUME NEW row \in gate
        PROVE  /\ pc'[row.call] # "unused" /\ row.action # ConflictAction
               /\ row.action = "exact_duplicate" => (thought[R(row.call).content] # Absent)'
    <3>1. row.call \in Calls BY <1>0 DEF TypeOK
    <3>2. /\ pc[row.call] # "unused" /\ row.action # ConflictAction
          /\ row.action = "exact_duplicate" => thought[R(row.call).content] # Absent
      BY <1>0 DEF GateCovered
    <3>3. R(row.call)' = R(row.call) /\ pc'[row.call] # "unused" BY <1>1, <3>1, <3>2 DEF Grows
    <3>4. R(row.call).content \in Contents
      BY <1>0, <3>1, <3>2, RequestFields DEF CallsInOrder
    <3>5. QED BY <1>1, <3>2, <3>3, <3>4 DEF Grows
  <2>3. QED BY <1>1, <2>1, <2>2 DEF EventsCovered, GateCovered
<1>2. ASSUME NEW a \in Calls, Land(a) PROVE EventsCovered' /\ GateCovered'
  <2>0. Grows BY <1>2, LandGrows
  <2>1. /\ pc'[a] = "landed" /\ R(a)' = R(a) /\ request' = request /\ pc[a] = "sent"
        /\ draft' = draft
    BY <1>0, <1>2 DEF Land, GoTo, TypeOK, R
  <2>2. DraftCovered(a) /\ R(a) \in Requests /\ IsThere(a)' BY <1>2, <2>0, LandWrites, LandCovered
  <2>3. /\ draft[a].thought \in Contents /\ draft[a].ledger \in {"new", "replay", "conflict"}
        /\ R(a).source \in Sources \cup {None}
    BY <2>2, RequestFields DEF DraftCovered, DraftType
  <2>4. ASSUME NEW s \in Sources, event'[s] # NoEvent
        PROVE  /\ thought'[event'[s].thought] # Absent /\ HasGateRow(event[s].gate)'
               /\ event'[s].gate \in Calls /\ pc'[event'[s].gate] # "unused"
               /\ (R(event[s].gate).source = s)' /\ (R(event[s].gate).hash = event[s].hash)'
               /\ (R(event[s].gate).intents = event[s].intents)'
    <3>1. CASE event[s] # NoEvent
      <4>1. /\ event'[s].hash = event[s].hash /\ event'[s].thought = event[s].thought
            /\ event'[s].intents = event[s].intents /\ event'[s].gate = event[s].gate
        BY <2>0, <3>1 DEF Grows
      <4>2. event[s].thought \in Contents BY <1>0, <3>1 DEF TypeOK
      <4>3. PICK b \in Calls : b = event[s].gate BY <1>0, <3>1 DEF EventsCovered
      <4>4. /\ pc[b] # "unused" /\ R(b).source = s /\ R(b).hash = event[s].hash
            /\ R(b).intents = event[s].intents /\ HasGateRow(b)
            /\ thought[event[s].thought] # Absent
        BY <1>0, <3>1, <4>3 DEF EventsCovered
      <4>5. R(b)' = R(b) /\ pc'[b] # "unused" /\ thought'[event[s].thought] # Absent
        BY <2>0, <4>2, <4>4 DEF Grows
      <4>6. HasGateRow(b)' BY <2>0, <4>4 DEF HasGateRow, Grows
      <4>7. QED BY <4>1, <4>3, <4>4, <4>5, <4>6
    <3>2. CASE event[s] = NoEvent
      <4>1. s = R(a).source /\ R(a).source # None
        BY <1>2, <2>4, <3>2, LandWrites, GateAssumption
      <4>2. draft[a].ledger = "new"
        BY <1>2, <2>2, <2>3, <2>4, <3>2, <4>1 DEF DraftCovered, FromLedger
      <4>3. event'[s] = EventRow(a) BY <1>2, <4>1, <4>2, LandWrites
      <4>4. /\ event'[s].thought = draft[a].thought /\ event'[s].gate = a
            /\ event'[s].hash = R(a).hash /\ event'[s].intents = R(a).intents
        BY <4>3 DEF EventRow
      <4>5. [call |-> a, action |-> draft[a].action] \in gate' BY <1>2, <4>2, LandWrites
      <4>6. HasGateRow(a)' BY <4>5 DEF HasGateRow
      <4>7. thought'[draft[a].thought] # Absent BY <2>1, <2>2 DEF IsThere
      <4>8. QED BY <2>1, <4>1, <4>4, <4>6, <4>7
    <3>3. QED BY <3>1, <3>2
  <2>5. ASSUME NEW row \in gate'
        PROVE  /\ pc'[row.call] # "unused" /\ row.action # ConflictAction
               /\ row.action = "exact_duplicate" => (thought[R(row.call).content] # Absent)'
    <3>1. CASE row \in gate
      <4>1. row.call \in Calls BY <1>0, <3>1 DEF TypeOK
      <4>2. /\ pc[row.call] # "unused" /\ row.action # ConflictAction
            /\ row.action = "exact_duplicate" => thought[R(row.call).content] # Absent
        BY <1>0, <3>1 DEF GateCovered
      <4>3. R(row.call)' = R(row.call) /\ pc'[row.call] # "unused" BY <2>0, <4>1, <4>2 DEF Grows
      <4>4. R(row.call).content \in Contents
        BY <1>0, <4>1, <4>2, RequestFields DEF CallsInOrder
      <4>5. QED BY <2>0, <4>2, <4>3, <4>4 DEF Grows
    <3>2. CASE row \notin gate
      <4>1. row = [call |-> a, action |-> draft[a].action] /\ draft[a].ledger = "new"
        BY <1>2, <2>3, <2>5, <3>2, LandWrites
      <4>2. draft[a].action # ConflictAction
            /\ (draft[a].action = "exact_duplicate" => draft[a].thought = R(a).content)
        BY <2>2, <4>1 DEF DraftCovered
      <4>3. thought'[draft[a].thought] # Absent BY <2>1, <2>2 DEF IsThere
      <4>4. row.call = a /\ row.action = draft[a].action BY <4>1
      <4>5. QED BY <2>1, <4>2, <4>3, <4>4
    <3>3. QED BY <3>1, <3>2
  <2>6. QED BY <2>4, <2>5 DEF EventsCovered, GateCovered
<1>3. CASE \E a \in Calls : StepOf(a) /\ ~Land(a)
  <2>1. Grows BY <1>3, NextGrows DEF Next, StepOf
  <2>2. UNCHANGED <<event, gate>> BY <1>0, <1>3, StepMoves DEF tables
  <2>3. QED BY <1>1, <2>1, <2>2
<1>4. CASE \E c \in Clients, n \in 1..MaxCalls : Call(c, n)
  <2>1. Grows BY <1>4, NextGrows, CallType DEF Next
  <2>2. UNCHANGED <<event, gate>> BY <1>4 DEF Call, tables
  <2>3. QED BY <1>1, <2>1, <2>2
<1>5. CASE \E c \in Contents : Afterwards(c)
  <2>1. Grows BY <1>5, NextGrows DEF Next
  <2>2. UNCHANGED <<event, gate>> BY <1>5 DEF Afterwards
  <2>3. QED BY <1>1, <2>1, <2>2
<1>6. CASE UNCHANGED vars
  BY <1>0, <1>6 DEF vars, tables, txn, EventsCovered, GateCovered, HasGateRow, R
<1>7. QED BY <1>2, <1>3, <1>4, <1>5, <1>6, NextKinds

LEMMA NextRetries == Inv /\ [Next]_vars => RetriesCovered'
<1>. SUFFICES ASSUME Inv, [Next]_vars PROVE RetriesCovered'
  OBVIOUS
<1>0. TypeOK /\ CallsInOrder /\ RetriesCovered BY DEF Inv
<1>1. ASSUME NEW b \in Calls, Grows, pc'[b] = pc[b], retries'[b] = retries[b], retries'[b] = 1
      PROVE  /\ pc'[b] # "unused" /\ (thought[R(b).content] # Absent)'
             /\ pc'[b] \notin {"family", "compare", "insert"}
  <2>1. /\ pc[b] # "unused" /\ thought[R(b).content] # Absent
        /\ pc[b] \notin {"family", "compare", "insert"}
    BY <1>0, <1>1 DEF RetriesCovered
  <2>2. R(b)' = R(b) /\ R(b).content \in Contents
    BY <1>0, <1>1, <2>1, RequestFields DEF Grows, CallsInOrder
  <2>3. QED BY <1>1, <2>1, <2>2 DEF Grows
<1>2. CASE \E a \in Calls : StepOf(a)
  <2>1. PICK a \in Calls : StepOf(a) BY <1>2
  <2>2. Grows BY <2>1, NextGrows DEF Next, StepOf
  <2>3. /\ pc[a] # "unused" /\ R(a) \in Requests /\ R(a)' = R(a) /\ pc'[a] # "unused"
        /\ retries' = [retries EXCEPT ![a] = retries'[a]]
        /\ \A b \in Calls : b # a => pc'[b] = pc[b] /\ retries'[b] = retries[b]
    BY <1>0, <2>1, StepMoves DEF TypeOK, RetriesCovered
  <2>4. R(a).content \in Contents BY <2>3, RequestFields
  <2>5. retries'[a] \in {0, 1} /\
        (retries'[a] = 1 => /\ (thought[R(a).content] # Absent)'
                            /\ pc'[a] \notin {"family", "compare", "insert"})
    <3>1. CASE LosesRace(a)
      <4>1. pc[a] = "insert" /\ thought[R(a).content] # Absent
        BY <3>1 DEF LosesRace, Conflicts, Running
      <4>2. retries[a] = 0 BY <1>0, <4>1 DEF RetriesCovered
      <4>3. retries'[a] = 1 BY <1>0, <3>1, <4>2 DEF LosesRace, RetriesCovered
      <4>4. pc'[a] = "claim" BY <1>0, <3>1 DEF LosesRace, RollBackTo, GoTo, TypeOK
      <4>5. (thought[R(a).content] # Absent)' BY <2>2, <2>3, <2>4, <4>1 DEF Grows
      <4>6. QED BY <4>3, <4>4, <4>5
    <3>2. CASE ~LosesRace(a)
      <4>1. retries' = retries
        BY <2>1, <3>2 DEF StepOf, Statement, Unclaimed, Replayed, Lookup, RequiresAdjudication,
          EnterFamily, NotCompared, Compare, Insert, ConsumerRejects, IntentsRefused,
          SendCommit, Land, Answer, Abandon, Probe, LoseConnection, Deadline, InDatabase
      <4>2. retries'[a] \in {0, 1} BY <1>0, <4>1 DEF RetriesCovered
      <4>3. ASSUME retries'[a] = 1
            PROVE  (thought[R(a).content] # Absent)' /\ pc'[a] \notin {"family", "compare", "insert"}
        <5>1. /\ thought[R(a).content] # Absent
              /\ pc[a] \notin {"family", "compare", "insert"}
          BY <1>0, <4>1, <4>3 DEF RetriesCovered
        <5>2. (thought[R(a).content] # Absent)' BY <2>2, <2>3, <2>4, <5>1 DEF Grows
        <5>3. CASE Unclaimed(a) BY <1>0, <5>2, <5>3 DEF Unclaimed, GoTo, TypeOK
        <5>4. CASE Replayed(a) BY <1>0, <5>2, <5>4 DEF Replayed, Decide, GoTo, TypeOK
        <5>5. CASE Lookup(a) BY <1>0, <5>1, <5>2, <5>5 DEF Lookup, Decide, GoTo, TypeOK
        <5>6. ~(EnterFamily(a) \/ NotCompared(a) \/ Compare(a) \/ Insert(a))
          BY <5>1 DEF EnterFamily, NotCompared, Compare, Insert, Running
        <5>7. CASE SendCommit(a) \/ Land(a) \/ Answer(a)
          BY <1>0, <5>2, <5>7 DEF SendCommit, Land, Answer, GoTo, TypeOK
        <5>8. CASE \/ RequiresAdjudication(a) \/ ConsumerRejects(a)
                   \/ IntentsRefused(a) \/ Abandon(a)
          BY <1>0, <5>2, <5>8 DEF RequiresAdjudication, ConsumerRejects, IntentsRefused, Abandon,
                                  RollBackTo, GoTo, TypeOK
        <5>9. CASE Probe(a) \/ LoseConnection(a) \/ Deadline(a)
          BY <5>1, <5>2, <5>9 DEF Probe, LoseConnection, Deadline, txn
        <5>10. QED BY <2>1, <3>2, <5>3, <5>4, <5>5, <5>6, <5>7, <5>8, <5>9 DEF StepOf, Statement
      <4>4. QED BY <4>2, <4>3
    <3>3. QED BY <3>1, <3>2
  <2>6. retries' \in [Calls -> {0, 1}] BY <1>0, <2>3, <2>5 DEF RetriesCovered
  <2>7. QED BY <1>1, <2>2, <2>3, <2>5, <2>6 DEF RetriesCovered
<1>3. CASE \E c \in Clients, n \in 1..MaxCalls : Call(c, n)
  <2>1. PICK a \in Calls :
          /\ pc[a] = "unused" /\ pc' = [pc EXCEPT ![a] = "claim"] /\ retries' = retries
    BY <1>0, <1>3, CallMoves
  <2>2. Grows BY <1>3, NextGrows, CallType DEF Next
  <2>3. \A b \in Calls : b # a => pc'[b] = pc[b] BY <1>0, <2>1 DEF TypeOK
  <2>4. retries'[a] # 1 BY <1>0, <2>1 DEF RetriesCovered
  <2>5. QED BY <1>0, <1>1, <2>1, <2>2, <2>3, <2>4 DEF RetriesCovered
<1>4. CASE \E c \in Contents : Afterwards(c)
  <2>1. Grows BY <1>4, NextGrows DEF Next
  <2>2. pc' = pc /\ retries' = retries BY <1>4 DEF Afterwards, txn
  <2>3. QED BY <1>0, <1>1, <2>1, <2>2 DEF RetriesCovered
<1>5. CASE UNCHANGED vars
  BY <1>0, <1>5 DEF vars, tables, txn, RetriesCovered, R
<1>6. QED BY <1>2, <1>3, <1>4, <1>5, NextKinds

LEMMA ProbeTrue ==
  ASSUME Inv, NEW a \in Calls, R(a) \in Requests, pc[a] # "unused",
         NEW x, x = IF R(a).source = None THEN ProbeCall(a) ELSE ProbeSource(a)
  PROVE  x \in Failure \/ (x \in ReplyType /\ TrueReply(a, x))
<1>0. /\ TypeOK /\ EventsCovered /\ GateCovered BY DEF Inv
<1>1. R(a).content \in Contents /\ R(a).source \in Sources \cup {None} BY RequestFields
<1>2. \A row \in GateRows(a) : /\ row \in gate /\ row.call = a /\ row.action \in Actions
                                /\ row.action # ConflictAction
  BY <1>0 DEF GateRows, TypeOK, GateCovered
<1>3. GateRows(a) # {} => HasGateRow(a) BY <1>2 DEF HasGateRow
<1>4. GateRows(a) # {} => (CHOOSE g \in GateRows(a) : TRUE) \in GateRows(a) OBVIOUS
<1>5. CASE R(a).source = None
  <2>1. x = ProbeCall(a) BY <1>5
  <2>2. CASE \E row \in GateRows(a) : row.action = "exact_duplicate"
                                        \/ thought[R(a).content].state = "active"
    <3>. DEFINE act == (CHOOSE row \in GateRows(a) : TRUE).action
    <3>1. x = [kind |-> "recovered", action |-> act, thought |-> R(a).content, gate |-> a]
      BY <2>1, <2>2 DEF ProbeCall, Recovered
    <3>2. act \in Actions /\ act # ConflictAction BY <1>2, <1>4, <2>2
    <3>3. thought[R(a).content] # Absent
      BY <1>0, <1>2, <2>2, Distinct DEF GateCovered
    <3>4. HasGateRow(a) BY <1>3, <2>2
    <3>5. x \in ReplyType BY <1>1, <3>1, <3>2 DEF ReplyType
    <3>6. QED BY <1>1, <1>5, <3>1, <3>2, <3>3, <3>4, <3>5 DEF TrueReply
  <2>3. CASE ~(\E row \in GateRows(a) : row.action = "exact_duplicate"
                                          \/ thought[R(a).content].state = "active")
    BY <2>1, <2>3 DEF ProbeCall, Fail, Failure
  <2>4. QED BY <2>2, <2>3
<1>6. CASE R(a).source # None
  <2>. DEFINE row == event[R(a).source]
  <2>1. x = ProbeSource(a) BY <1>6
  <2>2. CASE row = NoEvent BY <2>1, <2>2 DEF ProbeSource, Fail, Failure
  <2>3. ASSUME row # NoEvent
        PROVE  row.thought \in Contents /\ thought[row.thought] # Absent
    BY <1>0, <1>1, <1>6, <2>3 DEF TypeOK, EventsCovered
  <2>4. CASE row # NoEvent /\ row.hash # R(a).hash
    <3>1. x = [kind |-> "recovered", action |-> ConflictAction, thought |-> row.thought,
               gate |-> None]
      BY <2>1, <2>4 DEF ProbeSource, Recovered, ConflictAction
    <3>2. HasRival(a) BY <1>1, <1>6, <2>4, RivalFound
    <3>3. x \in ReplyType BY <2>3, <2>4, <3>1 DEF ReplyType, Actions, ConflictAction
    <3>4. QED BY <2>3, <2>4, <3>1, <3>2, <3>3 DEF TrueReply
  <2>5. CASE row # NoEvent /\ row.hash = R(a).hash /\ GateRows(a) = {}
    <3>1. x = [kind |-> "recovered", action |-> "stored", thought |-> row.thought, gate |-> None]
      BY <2>1, <2>5 DEF ProbeSource, Recovered
    <3>2. BoundTo(a, row.thought) BY <2>5 DEF BoundTo
    <3>3. x \in ReplyType BY <2>3, <2>5, <3>1 DEF ReplyType
    <3>4. QED BY <2>3, <2>5, <3>1, <3>2, <3>3 DEF TrueReply, ConflictAction
  <2>6. CASE row # NoEvent /\ row.hash = R(a).hash /\ GateRows(a) # {}
    <3>. DEFINE act == (CHOOSE g \in GateRows(a) : TRUE).action
    <3>1. x = [kind |-> "recovered", action |-> act, thought |-> row.thought, gate |-> a]
      BY <2>1, <2>6 DEF ProbeSource, Recovered
    <3>2. act \in Actions /\ act # ConflictAction BY <1>2, <1>4, <2>6
    <3>3. BoundTo(a, row.thought) BY <2>6 DEF BoundTo
    <3>4. x \in ReplyType BY <2>3, <2>6, <3>1, <3>2 DEF ReplyType
    <3>5. QED BY <1>3, <2>3, <2>6, <3>1, <3>2, <3>3, <3>4 DEF TrueReply
  <2>7. QED BY <2>2, <2>4, <2>5, <2>6
<1>7. QED BY <1>5, <1>6

LEMMA AnswerTrue ==
  ASSUME Inv, NEW a \in Calls, R(a) \in Requests, pc[a] = "landed",
         NEW x, x = [kind |-> "answered", action |-> draft[a].action,
                     thought |-> draft[a].thought, gate |-> draft[a].gate]
  PROVE  x \in ReplyType /\ TrueReply(a, x)
<1>1. DraftCovered(a) /\ IsThere(a) BY DEF Inv, DraftsCovered, Decided
<1>2. /\ draft[a].action \in Actions /\ draft[a].thought \in Contents
      /\ draft[a].gate \in Calls \cup {None}
  BY <1>1 DEF DraftCovered, DraftType
<1>3. x \in ReplyType BY <1>2 DEF ReplyType
<1>4. draft[a].action = ConflictAction => HasRival(a)
  BY <1>1 DEF DraftCovered, FromLedger
<1>5. QED BY <1>1, <1>2, <1>3, <1>4 DEF TrueReply, IsThere

\* A step answers with a failure, or with what is true.
LEMMA OwnReply ==
  ASSUME Inv, NEW a \in Calls, StepOf(a), replies'[a] # replies[a]
  PROVE  \/ replies'[a] \in Failure
         \/ replies'[a] \in ReplyType /\ TrueReply(a, replies'[a]) /\ UNCHANGED tables
<1>0. TypeOK /\ CallsInOrder /\ RetriesCovered BY DEF Inv
<1>1. pc[a] # "unused" /\ R(a) \in Requests BY <1>0, StepMoves
<1>2. \A k \in {"rejected", "error", "unknown"} : Fail(k) \in Failure BY DEF Fail, Failure
<1>3. CASE RequiresAdjudication(a) \/ ConsumerRejects(a) \/ IntentsRefused(a) \/ LoseConnection(a)
  BY <1>0, <1>2, <1>3 DEF RequiresAdjudication, ConsumerRejects, IntentsRefused, LoseConnection,
                          Reply, TypeOK
<1>4. CASE Answer(a)
  <2>1. /\ replies'[a] = [kind |-> "answered", action |-> draft[a].action,
                          thought |-> draft[a].thought, gate |-> draft[a].gate]
        /\ pc[a] = "landed" /\ UNCHANGED tables
    BY <1>0, <1>4 DEF Answer, Running, Reply, TypeOK
  <2>2. QED BY <1>1, <2>1, AnswerTrue
<1>5. CASE Probe(a)
  <2>1. UNCHANGED tables BY <1>5 DEF Probe
  <2>2. \/ replies'[a] = IF R(a).source = None THEN ProbeCall(a) ELSE ProbeSource(a)
        \/ replies'[a] = Fail("unknown")
    BY <1>0, <1>5 DEF Probe, Reply, TypeOK
  <2>3. QED BY <1>1, <1>2, <2>1, <2>2, ProbeTrue
<1>6. CASE ~(RequiresAdjudication(a) \/ ConsumerRejects(a) \/ IntentsRefused(a)
             \/ LoseConnection(a) \/ Answer(a) \/ Probe(a))
  <2>1. replies' = replies
    BY <1>6 DEF StepOf, Statement, Unclaimed, Replayed, Lookup, EnterFamily, NotCompared, Compare,
          Insert, LosesRace, SendCommit, Land, Abandon, Deadline, InDatabase
  <2>2. QED BY <2>1
<1>7. QED BY <1>3, <1>4, <1>5, <1>6

LEMMA TrueReplyStays ==
  ASSUME Grows, NEW a \in Calls, pc[a] # "unused", R(a) \in Requests, NEW x, TrueReply(a, x)
  PROVE  /\ thought'[x.thought] # Absent
         /\ x.gate # None => \E row \in gate' : row.call = x.gate
         /\ R(a)'.source # None /\ x.action # ConflictAction =>
              /\ (event[R(a).source] # NoEvent)'
              /\ (event[R(a).source].hash = R(a).hash)'
              /\ (event[R(a).source])'.thought = x.thought
         /\ x.action = ConflictAction => HasRival(a)'
<1>1. R(a)' = R(a) /\ R(a).source \in Sources \cup {None} BY RequestFields DEF Grows
<1>2. thought'[x.thought] # Absent BY DEF TrueReply, Grows
<1>3. x.gate # None => \E row \in gate' : row.call = x.gate
  BY DEF TrueReply, HasGateRow, Grows
<1>4. R(a).source # None /\ x.action # ConflictAction =>
        /\ event'[R(a).source] # NoEvent
        /\ event'[R(a).source].hash = R(a).hash
        /\ event'[R(a).source].thought = x.thought
  BY <1>1 DEF TrueReply, BoundTo, Grows
<1>5. x.action = ConflictAction => HasRival(a)' BY <1>1 DEF TrueReply, HasRival, Grows
<1>6. QED BY <1>1, <1>2, <1>3, <1>4, <1>5

LEMMA TrueReplyStill ==
  ASSUME Grows, NEW a \in Calls, pc[a] # "unused", R(a) \in Requests,
         replies'[a] = replies[a], TrueReply(a, replies[a])
  PROVE  TrueReply(a, replies[a])'
<1>1. replies[a].thought \in Contents BY DEF TrueReply
<1>2. QED BY <1>1, TrueReplyStays DEF TrueReply, HasGateRow, BoundTo

LEMMA NextReplies == Inv /\ [Next]_vars => RepliesTrue'
<1>. SUFFICES ASSUME Inv, [Next]_vars PROVE RepliesTrue'
  OBVIOUS
<1>0. TypeOK /\ CallsInOrder /\ RetriesCovered /\ RepliesTrue BY DEF Inv
<1>1. ASSUME NEW b \in Calls, Grows, replies'[b] = replies[b], Success(b)'
      PROVE  TrueReply(b, replies[b])'
  <2>1. Success(b) BY <1>1 DEF Success
  <2>2. TrueReply(b, replies[b]) BY <1>0, <2>1 DEF RepliesTrue
  <2>3. pc[b] # "unused" /\ R(b) \in Requests BY <1>0, <2>1 DEF CallsInOrder, Success
  <2>4. QED BY <1>1, <2>2, <2>3, TrueReplyStill
<1>2. CASE \E a \in Calls : StepOf(a)
  <2>1. PICK a \in Calls : StepOf(a) BY <1>2
  <2>2. Grows BY <2>1, NextGrows DEF Next, StepOf
  <2>3. \A b \in Calls : b # a => replies'[b] = replies[b]
    BY <1>0, <2>1, StepMoves DEF TypeOK
  <2>4. pc[a] # "unused" /\ R(a) \in Requests /\ request' = request BY <1>0, <2>1, StepMoves
  <2>5. ASSUME Success(a)' PROVE TrueReply(a, replies[a])'
    <3>1. CASE replies'[a] = replies[a] BY <1>1, <2>2, <2>5, <3>1
    <3>2. CASE replies'[a] # replies[a]
      <4>1. TrueReply(a, replies'[a]) /\ UNCHANGED tables
        BY <2>1, <2>5, <3>2, OwnReply DEF Success
      <4>2. QED BY <2>4, <4>1 DEF TrueReply, tables, HasGateRow, BoundTo, HasRival, R
    <3>3. QED BY <3>1, <3>2
  <2>6. QED BY <1>1, <2>2, <2>3, <2>5 DEF RepliesTrue
<1>3. CASE \E c \in Clients, n \in 1..MaxCalls : Call(c, n)
  <2>1. Grows BY <1>3, NextGrows, CallType DEF Next
  <2>2. replies' = replies BY <1>3 DEF Call
  <2>3. QED BY <1>1, <2>1, <2>2 DEF RepliesTrue
<1>4. CASE \E c \in Contents : Afterwards(c)
  <2>1. Grows BY <1>4, NextGrows DEF Next
  <2>2. replies' = replies BY <1>4 DEF Afterwards
  <2>3. QED BY <1>1, <2>1, <2>2 DEF RepliesTrue
<1>5. CASE UNCHANGED vars
  BY <1>0, <1>5 DEF vars, tables, txn, RepliesTrue, Success, TrueReply, HasGateRow, BoundTo,
                    HasRival, R
<1>6. QED BY <1>2, <1>3, <1>4, <1>5, NextKinds

LEMMA NextVectors == Inv /\ [Next]_vars => EveryThoughtGetsVector'
<1>. SUFFICES ASSUME Inv, [Next]_vars PROVE EveryThoughtGetsVector'
  OBVIOUS
<1>0. TypeOK /\ CallsInOrder /\ RetriesCovered /\ EveryThoughtGetsVector BY DEF Inv
<1>1. ASSUME UNCHANGED <<thought, queued, givenUp>> PROVE EveryThoughtGetsVector'
  BY <1>0, <1>1 DEF EveryThoughtGetsVector, Row
<1>2. ASSUME NEW a \in Calls, Land(a) PROVE EveryThoughtGetsVector'
  <2>1. draft[a].inserts \in BOOLEAN BY <1>2, LandWrites DEF DraftCovered, DraftType
  <2>2. CASE ~draft[a].inserts BY <1>1, <1>2, <2>2, LandWrites
  <2>3. CASE draft[a].inserts
    <3>1. /\ thought'[R(a).content].vector \/ R(a).content \in queued'
          /\ \A c \in Contents : c # R(a).content => thought'[c] = thought[c]
          /\ queued \subseteq queued' /\ givenUp' = givenUp
      BY <1>2, <2>3, LandWrites
    <3>2. QED BY <1>0, <3>1 DEF EveryThoughtGetsVector, Row
  <2>4. QED BY <2>1, <2>2, <2>3
<1>3. CASE \E a \in Calls : StepOf(a) /\ ~Land(a)
  BY <1>0, <1>1, <1>3, StepMoves DEF tables
<1>4. CASE \E c \in Clients, n \in 1..MaxCalls : Call(c, n)
  BY <1>1, <1>4 DEF Call, tables
<1>5. ASSUME NEW c \in Contents, Afterwards(c) PROVE EveryThoughtGetsVector'
  <2>1. /\ thought[c] \in ThoughtRows
        /\ thought[c].state = "retracted" => thought'[c].state = "retracted"
        /\ thought'[c].vector \/ thought'[c].state = "retracted" \/ c \in queued' \cup givenUp'
              \/ ~(thought[c].vector \/ c \in queued)
        /\ \A d \in Contents : d # c => thought'[d] = thought[d]
        /\ queued \subseteq queued' \cup {c} /\ givenUp \subseteq givenUp'
    BY <1>0, <1>5, AfterRow
  <2>2. thought[c] # Absent BY <2>1, Distinct DEF ThoughtRows
  <2>3. thought[c].state = "active" /\ c \notin givenUp => thought[c].vector \/ c \in queued
    BY <1>0, <2>2 DEF EveryThoughtGetsVector, Row
  <2>4. thought[c].state \in {"active", "retracted"} BY <2>1 DEF ThoughtRows
  <2>5. Row(c, "active")' /\ c \notin givenUp' => thought'[c].vector \/ c \in queued'
    BY <2>1, <2>3, <2>4 DEF Row
  <2>6. ASSUME NEW d \in Contents, d # c, Row(d, "active")', d \notin givenUp'
        PROVE  thought'[d].vector \/ d \in queued'
    BY <1>0, <2>1, <2>6 DEF EveryThoughtGetsVector, Row
  <2>7. QED BY <2>5, <2>6 DEF EveryThoughtGetsVector
<1>7. CASE UNCHANGED vars BY <1>1, <1>7 DEF vars, tables
<1>8. QED BY <1>2, <1>3, <1>4, <1>5, <1>7, NextKinds

LEMMA NextType == Inv /\ [Next]_vars => TypeOK'
<1>. SUFFICES ASSUME Inv, [Next]_vars PROVE TypeOK'
  OBVIOUS
<1>0. TypeOK /\ CallsInOrder /\ RetriesCovered /\ DraftsCovered BY DEF Inv
<1>1. CASE \E a \in Calls : StepOf(a)
  <2>1. PICK a \in Calls : StepOf(a) BY <1>1
  <2>2. Grows BY <2>1, NextGrows DEF Next, StepOf
  <2>3. /\ R(a) \in Requests /\ request' = request /\ pc[a] # "unused"
        /\ pc' = [pc EXCEPT ![a] = pc'[a]] /\ draft' = [draft EXCEPT ![a] = draft'[a]]
        /\ locked' = [locked EXCEPT ![a] = locked'[a]] /\ locked'[a] \in BOOLEAN
        /\ client' = [client EXCEPT ![a] = client'[a]]
        /\ replies' = [replies EXCEPT ![a] = replies'[a]]
        /\ Land(a) \/ UNCHANGED tables
    BY <1>0, <2>1, StepMoves
  <2>4. /\ pc'[a] \in PcType /\ (Decided(a)' => DraftCovered(a)')
        /\ ~Decided(a)' => draft'[a] = NoDraft \/ draft'[a] = draft[a]
    BY <2>1, <2>2, OwnDraft
  <2>5. pc' \in [Calls -> {"unused", "landed", "over"} \cup OpenPcs]
    BY <1>0, <2>3, <2>4 DEF TypeOK, PcType
  <2>6. Decided(a)' => draft'[a] \in DraftType /\ draft'[a] # NoDraft
    BY <2>4, Distinct DEF DraftCovered
  <2>7. draft' \in [Calls -> {NoDraft} \cup DraftType] BY <1>0, <2>3, <2>4, <2>6 DEF TypeOK
  <2>8. \A b \in Calls : pc'[b] \in {"insert", "commit", "sent", "landed"} => draft'[b] # NoDraft
    BY <1>0, <2>3, <2>6 DEF TypeOK, Decided
  <2>9. locked' \in [Calls -> BOOLEAN] BY <1>0, <2>3 DEF TypeOK
  <2>10. client'[a] \in {"waiting", "probing", "over"} \/ client'[a] = client[a]
    <3>1. CASE \E x : Reply(a, x) BY <1>0, <3>1 DEF Reply, TypeOK
    <3>2. CASE Deadline(a) BY <1>0, <3>2 DEF Deadline, TypeOK
    <3>3. CASE ~(\E x : Reply(a, x)) /\ ~Deadline(a)
      <4>1. client' = client
        BY <2>1, <3>3 DEF StepOf, Statement, Unclaimed, Replayed, Lookup, RequiresAdjudication,
             EnterFamily, NotCompared, Compare, Insert, LosesRace, ConsumerRejects, IntentsRefused,
             SendCommit, Land, Answer, Abandon, Probe, LoseConnection, InDatabase
      <4>2. QED BY <4>1
    <3>4. QED BY <3>1, <3>2, <3>3
  <2>11. client' \in [Calls -> {"unused", "waiting", "probing", "over"}]
    BY <1>0, <2>3, <2>10 DEF TypeOK
  <2>12. replies' \in [Calls -> {None} \cup ReplyType \cup Failure]
    <3>1. replies'[a] \in {None} \cup ReplyType \cup Failure
      BY <1>0, <2>1, OwnReply DEF TypeOK
    <3>2. QED BY <1>0, <2>3, <3>1 DEF TypeOK
  <2>13. /\ thought' \in [Contents -> {Absent} \cup ThoughtRows]
         /\ queued' \cup givenUp' \subseteq {c \in Contents : thought'[c] # Absent}
         /\ event' \in [Sources -> {NoEvent} \cup EventRows]
         /\ gate' \subseteq [call: Calls, action: Actions]
    <3>1. CASE UNCHANGED tables
      BY <1>0, <3>1 DEF tables, TypeOK, ThoughtRows, EventRows
    <3>2. CASE Land(a)
      <4>1. DraftCovered(a) BY <3>2, LandWrites
      <4>2. /\ draft[a].inserts \in BOOLEAN /\ draft[a].action \in Actions
            /\ draft[a].ledger \in {"new", "replay", "conflict"} /\ R(a).content \in Contents
            /\ R(a).source \in Sources \cup {None}
        BY <2>3, <4>1, RequestFields DEF DraftCovered, DraftType
      <4>3. /\ thought \in [Contents -> {Absent} \cup ThoughtRows]
            /\ queued \cup givenUp \subseteq {c \in Contents : thought[c] # Absent}
            /\ event \in [Sources -> {NoEvent} \cup EventRows]
            /\ gate \subseteq [call: Calls, action: Actions]
        BY <1>0 DEF TypeOK, ThoughtRows, EventRows
      <4>4. /\ DOMAIN thought' = Contents /\ thought' = [c \in Contents |-> thought'[c]]
            /\ DOMAIN event' = Sources /\ event' = [s \in Sources |-> event'[s]]
        BY <3>2, <4>3 DEF Land
      <4>5. ASSUME draft[a].inserts
            PROVE  /\ thought' \in [Contents -> {Absent} \cup ThoughtRows]
                   /\ queued' \cup givenUp' \subseteq {c \in Contents : thought'[c] # Absent}
        <5>1. /\ thought'[R(a).content] \in ThoughtRows
              /\ \A c \in Contents : c # R(a).content => thought'[c] = thought[c]
              /\ queued' \subseteq queued \cup {R(a).content} /\ givenUp' = givenUp
          BY <3>2, <4>5, LandWrites
        <5>2. thought'[R(a).content] # Absent BY <5>1, Distinct DEF ThoughtRows
        <5>3. \A c \in Contents : thought'[c] \in {Absent} \cup ThoughtRows BY <4>3, <5>1
        <5>4. thought' \in [Contents -> {Absent} \cup ThoughtRows] BY <4>4, <5>3
        <5>5. queued' \cup givenUp' \subseteq {c \in Contents : thought'[c] # Absent}
          BY <4>2, <4>3, <5>1, <5>2
        <5>6. QED BY <5>4, <5>5
      <4>6. ASSUME ~draft[a].inserts
            PROVE  /\ thought' \in [Contents -> {Absent} \cup ThoughtRows]
                   /\ queued' \cup givenUp' \subseteq {c \in Contents : thought'[c] # Absent}
        <5>1. thought' = thought /\ queued' = queued /\ givenUp' = givenUp BY <3>2, <4>6, LandWrites
        <5>2. QED BY <4>3, <5>1
      <4>7. \A s \in Sources : event'[s] \in {NoEvent} \cup EventRows
        <5>1. CASE R(a).source = None \/ draft[a].ledger = "replay"
          BY <3>2, <4>3, <5>1, LandWrites
        <5>2. CASE R(a).source # None /\ draft[a].ledger \in {"new", "conflict"}
          <6>1. \A s \in Sources : s # R(a).source => event'[s] = event[s]
            BY <3>2, <5>2, LandWrites
          <6>2. event'[R(a).source] \in EventRows BY <3>2, <5>2, LandWrites
          <6>3. QED BY <4>3, <6>1, <6>2
        <5>3. QED BY <4>2, <5>1, <5>2
      <4>8. event' \in [Sources -> {NoEvent} \cup EventRows] BY <4>4, <4>7
      <4>9. gate' \subseteq [call: Calls, action: Actions]
        <5>1. gate' \subseteq gate \cup {[call |-> a, action |-> draft[a].action]}
          BY <3>2, LandWrites
        <5>2. [call |-> a, action |-> draft[a].action] \in [call: Calls, action: Actions] BY <4>2
        <5>3. QED BY <4>3, <5>1, <5>2
      <4>10. QED BY <4>2, <4>5, <4>6, <4>8, <4>9
    <3>3. QED BY <2>3, <3>1, <3>2
  <2>14. request' \in [Clients -> Requests \cup {None}] BY <1>0, <2>3 DEF TypeOK
  <2>15. QED BY <2>5, <2>7, <2>8, <2>9, <2>11, <2>12, <2>13, <2>14
             DEF TypeOK, ThoughtRows, EventRows
<1>2. CASE \E c \in Clients, n \in 1..MaxCalls : Call(c, n)
  <2>1. PICK a \in Calls :
          /\ pc' = [pc EXCEPT ![a] = "claim"] /\ client' = [client EXCEPT ![a] = "waiting"]
          /\ UNCHANGED <<tables, draft, locked, retries, replies>>
          /\ request' \in [Clients -> Requests \cup {None}]
    BY <1>0, <1>2, CallMoves
  <2>2. /\ pc' \in [Calls -> {"unused", "landed", "over"} \cup OpenPcs]
        /\ client' \in [Calls -> {"unused", "waiting", "probing", "over"}]
    BY <1>0, <2>1 DEF TypeOK, OpenPcs
  <2>3. \A b \in Calls : pc'[b] \in {"insert", "commit", "sent", "landed"} => pc'[b] = pc[b]
    BY <1>0, <2>1 DEF TypeOK
  <2>4. QED BY <1>0, <2>1, <2>2, <2>3 DEF TypeOK, tables
<1>3. CASE \E c \in Contents : Afterwards(c)
  <2>1. PICK c \in Contents : Afterwards(c) BY <1>3
  <2>2. Grows BY <1>3, NextGrows DEF Next
  <2>3. /\ thought[c] \in ThoughtRows /\ thought'[c] \in ThoughtRows
        /\ \A d \in Contents : d # c => thought'[d] = thought[d]
        /\ thought' = [d \in Contents |-> thought'[d]]
        /\ queued' \subseteq queued /\ givenUp' \subseteq givenUp \cup {c}
        /\ UNCHANGED <<event, gate, request, txn, client, retries, replies>>
    BY <1>0, <2>1, AfterRow
  <2>4. \A d \in Contents : thought'[d] \in {Absent} \cup ThoughtRows
    BY <1>0, <2>3 DEF TypeOK, ThoughtRows
  <2>5. thought' \in [Contents -> {Absent} \cup ThoughtRows] BY <2>3, <2>4
  <2>6. thought'[c] # Absent BY <2>3, Distinct DEF ThoughtRows
  <2>7. queued' \cup givenUp' \subseteq {d \in Contents : thought'[d] # Absent}
    BY <1>0, <2>2, <2>3, <2>6 DEF TypeOK, Grows
  <2>8. QED BY <1>0, <2>3, <2>5, <2>7 DEF TypeOK, ThoughtRows, txn
<1>4. CASE UNCHANGED vars
  BY <1>0, <1>4 DEF vars, tables, txn, TypeOK
<1>5. QED BY <1>1, <1>2, <1>3, <1>4, NextKinds

LEMMA NextInv == Inv /\ [Next]_vars => Inv'
BY NextType, NextOrder, NextSources, NextDrafts, NextRows, NextRetries, NextReplies, NextVectors
   DEF Inv

(***************************************************************************)
(* Every statement of capture_thought_gated leaves rows, drafts and        *)
(* replies of their types; jobs are for thoughts that are there.           *)
(***************************************************************************)
THEOREM CaptureTypeCorrect == Spec => []TypeOK
<1>1. Inv => TypeOK BY DEF Inv
<1>2. QED BY <1>1, InitInv, NextInv, PTL DEF Spec

(***************************************************************************)
(* What a call was told stays true: its thought, its gate row, and the     *)
(* binding of its source event, whether it was answered or recovered by    *)
(* the probe after its deadline.                                           *)
(***************************************************************************)
THEOREM CaptureReceiptsAreDurable == Spec => []ReceiptsAreDurable
<1>1. Inv => ReceiptsAreDurable
  BY DEF Inv, RepliesTrue, TrueReply, BoundTo, HasGateRow, ReceiptsAreDurable, Conflict, ConflictAction
<1>2. QED BY <1>1, InitInv, NextInv, PTL DEF Spec

(***************************************************************************)
(* Clients of one source event and payload are told of one thought,        *)
(* whether they are answered, replayed or have probed for their call, and  *)
(* whatever other payloads and intents the event was sent with: between    *)
(* two deliveries nothing re-binds it (capture_thought_gated).             *)
(***************************************************************************)
CallersAgree ==
  \A a, b \in Calls :
    /\ Success(a) /\ ~Conflict(a) /\ Success(b) /\ ~Conflict(b)
    /\ R(a).source # None /\ R(a).source = R(b).source /\ R(a).hash = R(b).hash
    => replies[a].thought = replies[b].thought

THEOREM CaptureCallersAgree == Spec => []CallersAgree
<1>1. Inv => CallersAgree
  BY DEF Inv, RepliesTrue, TrueReply, BoundTo, Conflict, ConflictAction, CallersAgree
<1>2. QED BY <1>1, InitInv, NextInv, PTL DEF Spec

(***************************************************************************)
(* A call meets a conflict only where somebody asks for its source event   *)
(* with another payload or other intents: never because of its own retries *)
(* and late commits.                                                       *)
(***************************************************************************)
THEOREM CaptureRetriesNeverConflict == Spec => []RetriesNeverConflict
<1>1. Inv => RetriesNeverConflict
  BY DEF Inv, RepliesTrue, TrueReply, HasRival, RetriesNeverConflict, Conflict, ConflictAction
<1>2. QED BY <1>1, InitInv, NextInv, PTL DEF Spec

(***************************************************************************)
(* The loop of capture.rs around the fingerprint race needs no cap: a      *)
(* loser finds the winner's thought, however many captures there are.      *)
(***************************************************************************)
THEOREM FingerprintRaceEndsInOneRetry == Spec => []RaceEndsInOneRetry
<1>1. Inv => RaceEndsInOneRetry BY DEF Inv, RetriesCovered, RaceEndsInOneRetry
<1>2. QED BY <1>1, InitInv, NextInv, PTL DEF Spec

(***************************************************************************)
(* Vector or job: the gate never leaves an active thought with neither,    *)
(* also when it drops the vector that it was given; only ingest-hygiene    *)
(* takes a job away before its time.                                       *)
(***************************************************************************)
THEOREM ThoughtsGetVectors == Spec => []EveryThoughtGetsVector
<1>1. Inv => EveryThoughtGetsVector BY DEF Inv
<1>2. QED BY <1>1, InitInv, NextInv, PTL DEF Spec

------------------------------------------------------------------------------
(***************************************************************************)
(* The family lock.  What a transaction saw when it compared stays true    *)
(* until it lands, because whoever could add a compared text to the family *)
(* needs the lock.                                                         *)
(***************************************************************************)
Inserting(a) == pc[a] \in {"insert", "commit", "sent"} /\ draft[a].action = "inserted"

LocksCovered ==
  /\ \A a \in Calls : locked[a] => pc[a] \in OpenPcs \ {"claim", "lookup"}
  /\ \A a, b \in Calls : locked[a] /\ locked[b] /\ R(a).family = R(b).family => a = b
  /\ \A a \in Calls : pc[a] = "compare" \/ Inserting(a) => locked[a]
  /\ \A a \in Calls : Inserting(a) => draft[a].inserts /\ draft[a].vector

\* An insert that is past the unique index adds what is not there.
Adds(a) == pc[a] \in {"commit", "sent"} /\ draft[a].inserts

AddsCovered ==
  /\ \A a \in Calls : Adds(a) => thought[R(a).content] = Absent
  /\ \A a, b \in Calls : Adds(a) /\ Adds(b) /\ R(a).content = R(b).content => a = b

\* The texts that the gate takes for one another whenever it compares them.
Stands(c) == \A x \in Contents : <<c, x>> \in Near => <<c, x>> \in Safe

Apart(c, f) == thought[c].family # f \/ thought[c].state = "retracted"

ComparedCovered ==
  /\ \A c \in Contents : Compared(c) =>
       thought[c] # Absent /\ (thought[c].vector \/ thought[c].state = "retracted")
  /\ \A a \in Calls : Inserting(a) /\ Stands(R(a).content) =>
       \A d \in Contents : Compared(d) /\ <<R(a).content, d>> \in Near => Apart(d, R(a).family)
  /\ \A c, d \in Contents : c # d /\ Compared(c) /\ Compared(d) /\ Stands(c) /\ Stands(d)
       /\ <<c, d>> \in Near /\ <<d, c>> \in Near =>
       thought[c].family # thought[d].family \/ "retracted" \in {thought[c].state, thought[d].state}

GateInv == Inv /\ LocksCovered /\ AddsCovered /\ ComparedCovered

LEMMA InitGate == Init => GateInv
<1>. SUFFICES ASSUME Init PROVE GateInv
  OBVIOUS
<1>1. LocksCovered BY DEF Init, LocksCovered, Inserting
<1>2. AddsCovered BY DEF Init, AddsCovered, Adds
<1>3. \A c : ~Compared(c) BY DEF Init, Compared
<1>4. \A a \in Calls : ~Inserting(a) BY DEF Init, Inserting
<1>5. ComparedCovered BY <1>3, <1>4 DEF ComparedCovered
<1>6. QED BY <1>1, <1>2, <1>5, InitInv DEF GateInv

\* Where a call gets its lock and where it decides to insert.
LEMMA OwnLock ==
  ASSUME GateInv, NEW a \in Calls, StepOf(a)
  PROVE  /\ locked'[a] => pc'[a] \in OpenPcs \ {"claim", "lookup"}
         /\ locked'[a] => locked[a] \/ \A b \in Calls : locked[b] => R(b).family # R(a).family
         /\ pc'[a] = "compare" \/ Inserting(a)' => locked'[a]
         /\ Inserting(a)' => draft'[a].inserts /\ draft'[a].vector
         /\ Inserting(a)' => Inserting(a) \/ Compare(a)
         /\ Adds(a)' => Adds(a) \/ Insert(a)
<1>0. TypeOK /\ CallsInOrder /\ RetriesCovered /\ LocksCovered /\ DraftsCovered
  BY DEF GateInv, Inv
<1>. DEFINE P == /\ locked'[a] => pc'[a] \in OpenPcs \ {"claim", "lookup"}
                 /\ locked'[a] => locked[a] \/ \A b \in Calls : locked[b] => R(b).family # R(a).family
                 /\ pc'[a] = "compare" \/ Inserting(a)' => locked'[a]
                 /\ Inserting(a)' => draft'[a].inserts /\ draft'[a].vector
                 /\ Inserting(a)' => Inserting(a) \/ Compare(a)
                 /\ Adds(a)' => Adds(a) \/ Insert(a)
<1>1. /\ locked[a] => pc[a] \in OpenPcs \ {"claim", "lookup"}
      /\ pc[a] = "compare" \/ Inserting(a) => locked[a]
      /\ Inserting(a) => draft[a].inserts /\ draft[a].vector
  BY <1>0 DEF LocksCovered
<1>2. ASSUME NEW action, NEW v, Keep(a, action, v)
      PROVE  /\ pc'[a] = "insert" /\ draft'[a].action = action
             /\ draft'[a].inserts /\ draft'[a].vector = v
  BY <1>0, <1>2 DEF Keep, Decision, GoTo, TypeOK
<1>3. ASSUME NEW action, NEW c, NEW row, NEW ledger, Decide(a, Decision(action, c, ledger, row))
      PROVE  pc'[a] = "commit" /\ draft'[a].action = action /\ ~draft'[a].inserts
  BY <1>0, <1>3 DEF Decide, Decision, GoTo, TypeOK
<1>4. CASE Unclaimed(a)
  BY <1>0, <1>1, <1>4 DEF Unclaimed, Running, GoTo, TypeOK, Inserting, Adds, OpenPcs
<1>5. CASE Replayed(a)
  <2>1. pc[a] = "claim" /\ locked' = locked /\ pc'[a] = "commit"
    BY <1>0, <1>5 DEF Replayed, Running, Decide, GoTo, TypeOK
  <2>2. ~locked[a] BY <1>1, <2>1
  <2>3. draft'[a].action # "inserted" /\ ~draft'[a].inserts
    BY <1>0, <1>5 DEF Replayed, Decide, Decision, TypeOK
  <2>4. QED BY <2>1, <2>2, <2>3 DEF Inserting, Adds
<1>6. CASE Lookup(a)
  <2>1. pc[a] = "lookup" /\ locked' = locked BY <1>6 DEF Lookup, Running
  <2>2. ~locked[a] BY <1>1, <2>1
  <2>3. CASE Decide(a, ExactDuplicate(a))
    BY <1>3, <2>1, <2>2, <2>3 DEF ExactDuplicate, Inserting, Adds
  <2>4. CASE GoTo(a, "family") BY <1>0, <2>1, <2>2, <2>4 DEF GoTo, TypeOK, Inserting, Adds
  <2>5. QED BY <1>6, <2>3, <2>4 DEF Lookup
<1>7. CASE EnterFamily(a)
  <2>1. /\ locked'[a] /\ \A b \in Calls : locked[b] => R(b).family # R(a).family
    BY <1>0, <1>7 DEF EnterFamily, FamilyBusy, TypeOK
  <2>2. CASE Decide(a, ExactDuplicate(a))
    BY <1>3, <2>1, <2>2 DEF ExactDuplicate, Inserting, Adds, OpenPcs
  <2>3. CASE GoTo(a, "compare") BY <1>0, <2>1, <2>3 DEF GoTo, TypeOK, Inserting, Adds, OpenPcs
  <2>4. CASE Keep(a, "fail_open_insert", FALSE)
    <3>1. pc'[a] = "insert" /\ draft'[a].action = "fail_open_insert" BY <1>2, <2>4
    <3>2. QED BY <2>1, <3>1 DEF Inserting, Adds, OpenPcs
  <2>5. QED BY <1>7, <2>2, <2>3, <2>4 DEF EnterFamily
<1>8. CASE NotCompared(a)
  <2>1. locked' = locked BY <1>8 DEF NotCompared
  <2>2. \E action \in {"out_of_family_insert", "fail_open_insert"} : \E v : Keep(a, action, v)
    BY <1>8 DEF NotCompared
  <2>3. QED BY <1>2, <2>1, <2>2 DEF Inserting, Adds, OpenPcs
<1>9. CASE Compare(a)
  <2>1. locked' = locked /\ pc[a] = "compare" BY <1>9 DEF Compare, Running
  <2>2. CASE Keep(a, "inserted", TRUE) BY <1>1, <1>2, <1>9, <2>1, <2>2 DEF Inserting, Adds, OpenPcs
  <2>3. CASE Keep(a, "fail_open_insert", FALSE)
    BY <1>1, <1>2, <2>1, <2>3 DEF Inserting, Adds, OpenPcs
  <2>4. CASE \E m \in Matches(a) : Decide(a, Decision("semantic_duplicate", m, "new", a))
    BY <1>1, <1>3, <2>1, <2>4 DEF Inserting, Adds, OpenPcs
  <2>5. QED BY <1>9, <2>2, <2>3, <2>4 DEF Compare
<1>10. CASE Insert(a)
  <2>1. pc[a] = "insert" /\ pc'[a] = "commit" /\ UNCHANGED <<draft, locked>>
    BY <1>0, <1>10 DEF Insert, Running, GoTo, TypeOK
  <2>2. QED BY <1>1, <1>10, <2>1 DEF Inserting, Adds, OpenPcs
<1>11. CASE SendCommit(a)
  <2>1. pc[a] = "commit" /\ pc'[a] = "sent" /\ UNCHANGED <<draft, locked>>
    BY <1>0, <1>11 DEF SendCommit, Running, GoTo, TypeOK
  <2>2. QED BY <1>1, <2>1 DEF Inserting, Adds, OpenPcs
<1>12. CASE Land(a)
  <2>1. pc'[a] = "landed" /\ ~locked'[a] BY <1>0, <1>12 DEF Land, GoTo, TypeOK
  <2>2. QED BY <2>1 DEF Inserting, Adds
<1>13. CASE \E label \in {"claim", "over"} : RollBackTo(a, label)
  <2>1. pc'[a] \in {"claim", "over"} /\ ~locked'[a]
    BY <1>0, <1>13 DEF RollBackTo, GoTo, TypeOK
  <2>2. QED BY <2>1 DEF Inserting, Adds
<1>14. CASE \/ RequiresAdjudication(a) \/ LosesRace(a) \/ ConsumerRejects(a)
            \/ IntentsRefused(a) \/ Abandon(a)
  BY <1>13, <1>14 DEF RequiresAdjudication, LosesRace, ConsumerRejects, IntentsRefused, Abandon
<1>15. CASE Answer(a)
  <2>1. pc'[a] = "over" /\ pc[a] = "landed" /\ locked' = locked
    BY <1>0, <1>15 DEF Answer, Running, GoTo, TypeOK
  <2>2. QED BY <1>1, <2>1 DEF Inserting, Adds, OpenPcs
<1>16. CASE Probe(a) \/ LoseConnection(a) \/ Deadline(a)
  <2>1. UNCHANGED <<pc, draft, locked>> BY <1>16 DEF Probe, LoseConnection, Deadline, txn
  <2>2. QED BY <1>1, <2>1 DEF Inserting, Adds
<1>17. QED BY <1>4, <1>5, <1>6, <1>7, <1>8, <1>9, <1>10, <1>11, <1>12, <1>14, <1>15, <1>16
           DEF StepOf, Statement

LEMMA NextLocks == GateInv /\ [Next]_vars => LocksCovered'
<1>. SUFFICES ASSUME GateInv, [Next]_vars PROVE LocksCovered'
  OBVIOUS
<1>0. TypeOK /\ CallsInOrder /\ RetriesCovered /\ LocksCovered BY DEF GateInv, Inv
<1>1. CASE \E a \in Calls : StepOf(a)
  <2>1. PICK a \in Calls : StepOf(a) BY <1>1
  <2>2. /\ \A b \in Calls : R(b)' = R(b)
        /\ \A b \in Calls : b # a => /\ pc'[b] = pc[b] /\ draft'[b] = draft[b]
                                      /\ locked'[b] = locked[b]
    BY <1>0, <2>1, StepMoves DEF TypeOK
  <2>3. \A b \in Calls : b # a => Inserting(b)' = Inserting(b) BY <2>2 DEF Inserting
  <2>4. QED BY <1>0, <2>1, <2>2, <2>3, OwnLock DEF LocksCovered
<1>2. CASE \E c \in Clients, n \in 1..MaxCalls : Call(c, n)
  <2>1. PICK a \in Calls :
          /\ pc[a] = "unused" /\ pc' = [pc EXCEPT ![a] = "claim"]
          /\ UNCHANGED <<draft, locked>>
          /\ \A b \in Calls : pc[b] # "unused" => R(b)' = R(b)
    BY <1>0, <1>2, CallMoves
  <2>2. pc'[a] = "claim" /\ \A b \in Calls : b # a => pc'[b] = pc[b] BY <1>0, <2>1 DEF TypeOK
  <2>3. \A b \in Calls : Inserting(b)' => Inserting(b) /\ b # a BY <2>1, <2>2 DEF Inserting
  <2>4. \A b \in Calls : locked[b] => b # a /\ R(b)' = R(b)
    BY <1>0, <2>1 DEF LocksCovered, OpenPcs
  <2>5. QED BY <1>0, <2>1, <2>2, <2>3, <2>4 DEF LocksCovered
<1>3. CASE \E c \in Contents : Afterwards(c)
  BY <1>0, <1>3 DEF Afterwards, txn, LocksCovered, Inserting, R
<1>4. CASE UNCHANGED vars
  BY <1>0, <1>4 DEF vars, tables, txn, LocksCovered, Inserting, R
<1>5. QED BY <1>1, <1>2, <1>3, <1>4, NextKinds

LEMMA NextAdds == GateInv /\ [Next]_vars => AddsCovered'
<1>. SUFFICES ASSUME GateInv, [Next]_vars PROVE AddsCovered'
  OBVIOUS
<1>0. TypeOK /\ CallsInOrder /\ RetriesCovered /\ DraftsCovered /\ AddsCovered /\ Inv
  BY DEF GateInv, Inv
<1>1. \A b \in Calls : Adds(b) => /\ pc[b] # "unused" /\ draft[b].thought = R(b).content
                                  /\ R(b).content \in Contents
  BY <1>0, RequestFields DEF Adds, DraftsCovered, Decided, DraftCovered, CallsInOrder
<1>2. CASE \E a \in Calls : StepOf(a)
  <2>1. PICK a \in Calls : StepOf(a) BY <1>2
  <2>2. /\ \A b \in Calls : R(b)' = R(b)
        /\ \A b \in Calls : b # a => pc'[b] = pc[b] /\ draft'[b] = draft[b]
        /\ Land(a) \/ UNCHANGED tables
    BY <1>0, <2>1, StepMoves DEF TypeOK
  <2>3. \A b \in Calls : b # a => Adds(b)' = Adds(b) BY <2>2 DEF Adds
  <2>4. CASE Land(a)
    <3>1. ~Adds(a)' BY <1>0, <2>4 DEF Land, GoTo, TypeOK, Adds
    <3>2. ASSUME NEW b \in Calls, b # a, Adds(b) PROVE thought'[R(b).content] = Absent
      <4>1. thought[R(b).content] = Absent BY <1>0, <3>2 DEF AddsCovered
      <4>2. CASE draft[a].inserts
        <5>1. Adds(a) BY <2>4, <4>2 DEF Land, Adds
        <5>2. R(b).content # R(a).content BY <1>0, <3>2, <5>1 DEF AddsCovered
        <5>3. QED BY <1>0, <1>1, <2>4, <3>2, <4>1, <4>2, <5>2, LandWrites
      <4>3. CASE ~draft[a].inserts BY <1>0, <2>4, <4>1, <4>3, LandWrites
      <4>4. QED BY <4>2, <4>3
    <3>3. QED BY <1>0, <2>2, <2>3, <3>1, <3>2 DEF AddsCovered
  <2>5. CASE Insert(a)
    <3>1. /\ thought[R(a).content] = Absent /\ UNCHANGED tables
          /\ \A b \in Calls \ {a} : ~(Adds(b) /\ draft[b].thought = R(a).content)
      BY <2>5 DEF Insert, RivalInserts, InDatabase, Adds
    <3>2. \A b \in Calls : b # a /\ Adds(b) => R(b).content # R(a).content BY <1>1, <3>1
    <3>3. QED BY <1>0, <2>2, <2>3, <3>1, <3>2 DEF AddsCovered, tables
  <2>6. CASE ~Land(a) /\ ~Insert(a)
    <3>1. Adds(a)' => Adds(a) BY <2>1, <2>6, OwnLock
    <3>2. QED BY <1>0, <2>2, <2>3, <2>6, <3>1 DEF AddsCovered, tables
  <2>7. QED BY <2>4, <2>5, <2>6
<1>3. CASE \E c \in Clients, n \in 1..MaxCalls : Call(c, n)
  <2>1. PICK a \in Calls :
          /\ pc[a] = "unused" /\ pc' = [pc EXCEPT ![a] = "claim"]
          /\ UNCHANGED <<tables, draft>>
          /\ \A b \in Calls : pc[b] # "unused" => R(b)' = R(b)
    BY <1>0, <1>3, CallMoves
  <2>2. pc'[a] = "claim" /\ \A b \in Calls : b # a => pc'[b] = pc[b] BY <1>0, <2>1 DEF TypeOK
  <2>3. \A b \in Calls : Adds(b)' => Adds(b) BY <2>1, <2>2 DEF Adds
  <2>4. QED BY <1>0, <1>1, <2>1, <2>3 DEF AddsCovered, tables
<1>4. CASE \E c \in Contents : Afterwards(c)
  <2>1. PICK c \in Contents : Afterwards(c) BY <1>4
  <2>2. thought[c] # Absent BY <1>0, <2>1, AfterRow, Distinct DEF ThoughtRows
  <2>3. \A d \in Contents : d # c => thought'[d] = thought[d] BY <1>0, <2>1, AfterRow
  <2>4. UNCHANGED <<request, pc, draft>> BY <1>0, <2>1, AfterRow DEF txn
  <2>5. \A b \in Calls : Adds(b)' = Adds(b) /\ R(b)' = R(b) BY <2>4 DEF Adds, R
  <2>6. QED BY <1>0, <1>1, <2>2, <2>3, <2>5 DEF AddsCovered
<1>5. CASE UNCHANGED vars
  BY <1>0, <1>5 DEF vars, tables, txn, AddsCovered, Adds, R
<1>6. QED BY <1>2, <1>3, <1>4, <1>5, NextKinds

\* Steps other than a landing let in no text and bring no thought back.
Settled ==
  /\ gate' = gate
  /\ \A c \in Contents : thought[c] # Absent =>
       /\ thought'[c].family = thought[c].family
       /\ thought[c].state = "retracted" => thought'[c].state = "retracted"
       /\ thought[c].vector => thought'[c].vector \/ thought'[c].state = "retracted"

LEMMA OnlyLandsUnsettle ==
  Inv /\ [Next]_vars => Settled \/ \E a \in Calls : Land(a)
<1>. SUFFICES ASSUME Inv, [Next]_vars PROVE Settled \/ \E a \in Calls : Land(a)
  OBVIOUS
<1>0. TypeOK /\ CallsInOrder /\ RetriesCovered BY DEF Inv
<1>1. CASE UNCHANGED <<gate, thought>> BY <1>1 DEF Settled
<1>2. ASSUME NEW c \in Contents, Afterwards(c) PROVE Settled
  <2>1. /\ gate' = gate
        /\ \A d \in Contents : d # c => thought'[d] = thought[d]
        /\ thought'[c].family = thought[c].family
        /\ thought[c].state = "retracted" => thought'[c].state = "retracted"
        /\ thought[c].vector => thought'[c].vector \/ thought'[c].state = "retracted"
    BY <1>0, <1>2, AfterRow
  <2>2. QED BY <2>1 DEF Settled
<1>3. CASE \E a \in Calls : StepOf(a) BY <1>0, <1>1, <1>3, StepMoves DEF tables
<1>4. CASE \E c \in Clients, n \in 1..MaxCalls : Call(c, n) BY <1>1, <1>4 DEF Call, tables
<1>5. CASE UNCHANGED vars BY <1>1, <1>5 DEF vars, tables
<1>6. QED BY <1>2, <1>3, <1>4, <1>5, NextKinds

LEMMA ComparedStays ==
  ASSUME Inv, Grows
  PROVE  /\ \A c : Compared(c) => Compared(c)'
         /\ gate' = gate => \A c : Compared(c)' => Compared(c)
<1>1. \A row \in gate : R(row.call)' = R(row.call) BY DEF Inv, TypeOK, GateCovered, Grows
<1>2. QED BY <1>1 DEF Compared, Grows

LEMMA MovedGrows == Inv /\ [Next]_vars => Grows
<1>1. UNCHANGED vars => Grows BY DEF vars, tables, txn, Grows, R
<1>2. QED BY <1>1, NextGrows

\* The decision to insert after comparing: no compared text of the family is near.
LEMMA CompareApart ==
  ASSUME GateInv, NEW a \in Calls, Compare(a), draft'[a].action = "inserted",
         Stands(R(a).content), NEW d \in Contents, Compared(d), <<R(a).content, d>> \in Near
  PROVE  Apart(d, R(a).family)
<1>0. TypeOK /\ ComparedCovered BY DEF GateInv, Inv
<1>. SUFFICES ASSUME ~Apart(d, R(a).family) PROVE FALSE
  OBVIOUS
<1>1. thought[d] # Absent /\ thought[d].vector BY <1>0 DEF ComparedCovered, Apart
<1>2. thought[d].state = "active" /\ thought[d].family = R(a).family
  BY <1>0, <1>1 DEF TypeOK, Apart
<1>3. /\ Matches(a) # {} /\ \A m \in Matches(a) : m \in Contents /\ <<R(a).content, m>> \in Near
  BY <1>1, <1>2 DEF Matches
<1>4. CASE \E m \in Matches(a) : Decide(a, Decision("semantic_duplicate", m, "new", a))
  <2>1. draft'[a].action = "semantic_duplicate" BY <1>0, <1>4 DEF Decide, Decision, TypeOK
  <2>2. QED BY <2>1
<1>5. CASE Keep(a, "fail_open_insert", FALSE)
  <2>1. draft'[a].action = "fail_open_insert" BY <1>0, <1>5 DEF Keep, Decision, TypeOK
  <2>2. QED BY <2>1
<1>6. QED BY <1>3, <1>4, <1>5 DEF Compare, Stands

\* The row a landing that adds a thought puts there.
LEMMA LandAddsRow ==
  ASSUME Inv, NEW a \in Calls, Land(a), draft[a].inserts
  PROVE  thought'[R(a).content] =
           [state |-> "active", family |-> R(a).family, vector |-> draft[a].vector]
<1>1. DraftCovered(a) /\ R(a) \in Requests BY LandWrites
<1>2. draft[a].thought = R(a).content BY <1>1 DEF DraftCovered
<1>3. R(a).content \in Contents BY <1>1, RequestFields
<1>4. QED BY <1>2, <1>3 DEF Land, Inv, TypeOK

\* What a landing adds, if it compared.
LEMMA LandCompares ==
  ASSUME GateInv, NEW a \in Calls, Land(a)
  PROVE  /\ \A c \in Contents : Compared(c)' => Compared(c) \/ (c = R(a).content /\ Inserting(a))
         /\ \A c \in Contents : Compared(c) => thought'[c] = thought[c]
         /\ Inserting(a) =>
              /\ thought'[R(a).content] # Absent /\ thought'[R(a).content].vector
              /\ thought'[R(a).content].family = R(a).family
<1>0. TypeOK /\ LocksCovered /\ AddsCovered /\ ComparedCovered /\ Inv BY DEF GateInv, Inv
<1>1. /\ pc[a] = "sent" /\ request' = request /\ DraftCovered(a)
  BY <1>0, LandWrites DEF Land
<1>2. draft[a].ledger \in {"new", "replay", "conflict"} /\ draft[a].inserts \in BOOLEAN
  BY <1>1 DEF DraftCovered, DraftType
<1>3. ASSUME NEW c \in Contents, Compared(c)'
      PROVE  Compared(c) \/ (c = R(a).content /\ Inserting(a))
  <2>1. PICK row \in gate' : row.action = "inserted" /\ R(row.call)'.content = c
    BY <1>3 DEF Compared
  <2>2. R(row.call)'.content = R(row.call).content BY <1>1 DEF R
  <2>3. CASE row \in gate BY <2>1, <2>2, <2>3 DEF Compared
  <2>4. CASE row \notin gate
    <3>1. row = [call |-> a, action |-> draft[a].action] BY <1>0, <1>2, <2>1, <2>4, LandWrites
    <3>2. row.call = a /\ row.action = draft[a].action BY <3>1
    <3>3. QED BY <1>1, <2>1, <2>2, <3>2 DEF Inserting
  <2>5. QED BY <2>3, <2>4
<1>4. ASSUME NEW c \in Contents, Compared(c) PROVE thought'[c] = thought[c]
  <2>1. thought[c] # Absent BY <1>0, <1>4 DEF ComparedCovered
  <2>2. draft[a].inserts => thought[R(a).content] = Absent
    BY <1>0, <1>1 DEF AddsCovered, Adds
  <2>3. QED BY <1>0, <1>2, <2>1, <2>2, LandWrites
<1>5. ASSUME Inserting(a)
      PROVE  /\ thought'[R(a).content] # Absent /\ thought'[R(a).content].vector
             /\ thought'[R(a).content].family = R(a).family
  <2>1. draft[a].inserts /\ draft[a].vector BY <1>0, <1>5 DEF LocksCovered
  <2>2. /\ thought'[R(a).content] \in ThoughtRows
        /\ thought'[R(a).content] =
             [state |-> "active", family |-> R(a).family, vector |-> draft[a].vector]
    BY <1>0, <2>1, LandWrites, LandAddsRow
  <2>3. QED BY <2>1, <2>2, Distinct DEF ThoughtRows
<1>6. QED BY <1>3, <1>4, <1>5

LEMMA NextCompared == GateInv /\ [Next]_vars => ComparedCovered'
<1>. SUFFICES ASSUME GateInv, [Next]_vars PROVE ComparedCovered'
  OBVIOUS
<1>0. TypeOK /\ CallsInOrder /\ RetriesCovered /\ LocksCovered /\ ComparedCovered /\ Inv
  BY DEF GateInv, Inv
<1>1. Grows BY <1>0, MovedGrows
<1>2. ASSUME NEW a \in Calls, Inserting(a) PROVE R(a)' = R(a)
  BY <1>1, <1>2 DEF Inserting, Grows
<1>3. CASE Settled
  <2>1. \A c : Compared(c)' = Compared(c) BY <1>0, <1>1, <1>3, ComparedStays DEF Settled, Compared
  <2>2. \A c \in Contents : Compared(c)' =>
          thought'[c] # Absent /\ (thought'[c].vector \/ thought'[c].state = "retracted")
    BY <1>0, <1>1, <1>3, <2>1 DEF ComparedCovered, Settled, Grows
  <2>3. ASSUME NEW d \in Contents, NEW f, Compared(d), Apart(d, f) PROVE Apart(d, f)'
    BY <1>0, <1>3, <2>3 DEF ComparedCovered, Settled, Apart
  <2>4. ASSUME NEW a \in Calls, Inserting(a)', Stands(R(a).content)', NEW d \in Contents,
               Compared(d), (<<R(a).content, d>> \in Near)'
        PROVE  Apart(d, R(a).family)'
    <3>1. CASE Inserting(a)
      <4>1. R(a)' = R(a) BY <1>2, <3>1
      <4>2. Apart(d, R(a).family) BY <1>0, <2>4, <3>1, <4>1 DEF ComparedCovered, Stands
      <4>3. QED BY <2>3, <2>4, <4>1, <4>2 DEF Apart
    <3>2. CASE ~Inserting(a)
      <4>1. StepOf(a) /\ Compare(a)
        <5>1. CASE \E b \in Calls : StepOf(b)
          <6>1. PICK b \in Calls : StepOf(b) BY <5>1
          <6>2. \A x \in Calls : x # b => pc'[x] = pc[x] /\ draft'[x] = draft[x]
            BY <1>0, <6>1, StepMoves DEF TypeOK
          <6>3. a = b BY <2>4, <3>2, <6>2 DEF Inserting
          <6>4. QED BY <2>4, <3>2, <6>1, <6>3, OwnLock
        <5>2. CASE \E c \in Clients, n \in 1..MaxCalls : Call(c, n)
          <6>1. PICK b \in Calls : pc' = [pc EXCEPT ![b] = "claim"] /\ draft' = draft
            BY <1>0, <5>2, CallMoves
          <6>2. QED BY <1>0, <2>4, <3>2, <6>1 DEF Inserting, TypeOK
        <5>3. CASE \E c \in Contents : Afterwards(c)
          BY <2>4, <3>2, <5>3 DEF Afterwards, txn, Inserting
        <5>4. CASE UNCHANGED vars BY <2>4, <3>2, <5>4 DEF vars, txn, Inserting
        <5>5. QED BY <5>1, <5>2, <5>3, <5>4, NextKinds
      <4>2. R(a)' = R(a) BY <1>0, <4>1, StepMoves
      <4>3. Apart(d, R(a).family) BY <2>4, <4>1, <4>2, CompareApart DEF Inserting, Stands
      <4>4. QED BY <2>3, <2>4, <4>2, <4>3 DEF Apart
    <3>3. QED BY <3>1, <3>2
  <2>5. ASSUME NEW c \in Contents, NEW d \in Contents, c # d, Compared(c), Compared(d),
               Stands(c), Stands(d), <<c, d>> \in Near, <<d, c>> \in Near
        PROVE  \/ thought'[c].family # thought'[d].family
               \/ "retracted" \in {thought'[c].state, thought'[d].state}
    BY <1>0, <1>3, <2>5 DEF ComparedCovered, Settled
  <2>6. QED BY <2>1, <2>2, <2>4, <2>5 DEF ComparedCovered, Stands
<1>4. CASE \E a \in Calls : Land(a)
  <2>1. PICK a \in Calls : Land(a) BY <1>4
  <2>2. /\ pc'[a] = "landed" /\ request' = request
        /\ \A b \in Calls : b # a => pc'[b] = pc[b] /\ draft'[b] = draft[b]
    BY <1>0, <2>1 DEF Land, GoTo, TypeOK
  <2>3. \A b \in Calls : (Inserting(b)' => Inserting(b) /\ b # a) /\ R(b)' = R(b)
    BY <2>2 DEF Inserting, R
  <2>4. \A c \in Contents : Compared(c)' =>
          thought'[c] # Absent /\ (thought'[c].vector \/ thought'[c].state = "retracted")
    BY <1>0, <2>1, LandCompares DEF ComparedCovered
  <2>5. ASSUME NEW b \in Calls, Inserting(b), b # a, Stands(R(b).content), NEW d \in Contents,
               Compared(d)', <<R(b).content, d>> \in Near
        PROVE  Apart(d, R(b).family)'
    <3>1. CASE Compared(d)
      <4>1. Apart(d, R(b).family) BY <1>0, <2>5, <3>1 DEF ComparedCovered
      <4>2. thought'[d] = thought[d] BY <2>1, <3>1, LandCompares
      <4>3. QED BY <2>3, <4>1, <4>2 DEF Apart
    <3>2. CASE ~Compared(d)
      <4>1. d = R(a).content /\ Inserting(a) BY <2>1, <2>5, <3>2, LandCompares
      <4>2. R(a).family # R(b).family BY <1>0, <2>5, <4>1 DEF LocksCovered
      <4>3. thought'[d].family = R(a).family BY <2>1, <4>1, LandCompares
      <4>4. QED BY <2>3, <4>2, <4>3 DEF Apart
    <3>3. QED BY <3>1, <3>2
  <2>6. ASSUME NEW c \in Contents, NEW d \in Contents, c # d, Compared(c)', Compared(d)',
               Stands(c), Stands(d), <<c, d>> \in Near, <<d, c>> \in Near
        PROVE  \/ thought'[c].family # thought'[d].family
               \/ "retracted" \in {thought'[c].state, thought'[d].state}
    <3>1. CASE Compared(c) /\ Compared(d)
      BY <1>0, <2>1, <2>6, <3>1, LandCompares DEF ComparedCovered
    <3>2. CASE ~Compared(c)
      <4>1. c = R(a).content /\ Inserting(a) BY <2>1, <2>6, <3>2, LandCompares
      <4>2. Compared(d) /\ thought'[d] = thought[d] BY <2>1, <2>6, <4>1, LandCompares
      <4>3. Apart(d, R(a).family) BY <1>0, <2>6, <4>1, <4>2 DEF ComparedCovered
      <4>4. thought'[c].family = R(a).family BY <2>1, <4>1, LandCompares
      <4>5. QED BY <4>2, <4>3, <4>4 DEF Apart
    <3>3. CASE ~Compared(d)
      <4>1. d = R(a).content /\ Inserting(a) BY <2>1, <2>6, <3>3, LandCompares
      <4>2. Compared(c) /\ thought'[c] = thought[c] BY <2>1, <2>6, <4>1, LandCompares
      <4>3. Apart(c, R(a).family) BY <1>0, <2>6, <4>1, <4>2 DEF ComparedCovered
      <4>4. thought'[d].family = R(a).family BY <2>1, <4>1, LandCompares
      <4>5. QED BY <4>2, <4>3, <4>4 DEF Apart
    <3>4. QED BY <3>1, <3>2, <3>3
  <2>7. QED BY <2>3, <2>4, <2>5, <2>6 DEF ComparedCovered, Stands
<1>5. QED BY <1>0, <1>3, <1>4, OnlyLandsUnsettle

(***************************************************************************)
(* The family lock does what it is for, with any number of captures and    *)
(* any relation of nearness: two texts that stand for one another are not  *)
(* both let in by comparison.                                              *)
(***************************************************************************)
THEOREM FamilyLockHolds == Spec => []SemanticGateHolds
<1>1. GateInv => SemanticGateHolds
  BY DEF GateInv, ComparedCovered, SemanticGateHolds, Stands
<1>2. GateInv /\ [Next]_vars => GateInv'
  BY NextInv, NextLocks, NextAdds, NextCompared DEF GateInv
<1>3. QED BY <1>1, <1>2, InitGate, PTL DEF Spec
------------------------------------------------------------------------------
(***************************************************************************)
(* The refinement: a landing binds its event or disputes it, an answer or  *)
(* a probe tells of a binding, and nothing else is seen by SourceLedger.   *)
(***************************************************************************)
LedgerRows == [s \in Sources |-> LedgerRow(s)]
Bound == {Binding(s, event[s].hash, event[s].thought) : s \in {x \in Sources : event[x] # NoEvent}}
Tells(a) == Success(a) /\ ~Conflict(a) /\ R(a).source # None
Told == {Binding(R(a).source, R(a).hash, replies[a].thought) : a \in {x \in Calls : Tells(x)}}

LEMMA InitLedger == Init => Ledger!Init
<1>. SUFFICES ASSUME Init PROVE Ledger!Init
  OBVIOUS
<1>1. \A s \in Sources : LedgerRow(s) = Ledger!Unbound /\ event[s] = NoEvent
  BY DEF Init, LedgerRow, NoEvent, Ledger!Unbound
<1>2. Bound = {} BY <1>1 DEF Bound
<1>3. Told = {} BY DEF Init, Told, Tells, Success
<1>4. QED BY <1>1, <1>2, <1>3 DEF Ledger!Init, Bound, Told, Tells

LEMMA SameTold ==
  ASSUME CallsInOrder, replies' = replies, \A a \in Calls : pc[a] # "unused" => R(a)' = R(a)
  PROVE  Told' = Told
<1>1. \A a \in Calls : Success(a) => pc[a] # "unused" BY DEF Success, CallsInOrder
<1>2. \A a \in Calls : Success(a)' = Success(a) /\ Conflict(a)' = Conflict(a)
  BY DEF Success, Conflict
<1>3. \A a \in Calls : Tells(a)' = Tells(a) BY <1>1, <1>2 DEF Tells
<1>4. \A a \in Calls : Tells(a) =>
        Binding(R(a).source, R(a).hash, replies[a].thought)'
          = Binding(R(a).source, R(a).hash, replies[a].thought)
  BY <1>1 DEF Tells, Binding
<1>5. QED BY <1>3, <1>4 DEF Told

LEMMA SameLedger ==
  ASSUME event' = event
  PROVE  LedgerRows' = LedgerRows /\ Bound' = Bound
BY DEF LedgerRows, LedgerRow, Bound

LEMMA LandBinds ==
  ASSUME Inv, NEW a \in Calls, Land(a), R(a).source # None, draft[a].ledger = "new"
  PROVE  \E s \in Sources, h \in Hashes, t \in Contents : Ledger!Bind(s, h, t)
<1>0. TypeOK /\ CallsInOrder BY DEF Inv
<1>1. PICK s \in Sources, h \in Hashes, t \in Contents :
        s = R(a).source /\ h = R(a).hash /\ t = draft[a].thought
  BY LandWrites, RequestFields DEF DraftCovered
<1>2. /\ event[s] = NoEvent /\ event'[s] = EventRow(a) /\ EventRow(a) \in EventRows
      /\ \A r \in Sources : r # s => event'[r] = event[r]
  BY <1>1, LandWrites
<1>3. /\ event'[s].hash = h /\ event'[s].thought = t /\ event'[s].status # "conflict"
  BY <1>1, <1>2 DEF EventRow
<1>4. event'[s] # NoEvent BY <1>2, Distinct DEF EventRows
<1>5. LedgerRow(s)' = Ledger!Row(h, t) BY <1>3, <1>4 DEF LedgerRow, Ledger!Row
<1>6. \A r \in Sources : r # s => LedgerRow(r)' = LedgerRow(r) BY <1>2 DEF LedgerRow
<1>7. LedgerRows' = [LedgerRows EXCEPT ![s] = Ledger!Row(h, t)]
  BY <1>5, <1>6 DEF LedgerRows
<1>8. LedgerRows[s] = Ledger!Unbound
  BY <1>2 DEF LedgerRows, LedgerRow, NoEvent, Ledger!Unbound
<1>9. Bound' = Bound \cup {Binding(s, h, t)} BY <1>2, <1>3, <1>4 DEF Bound
<1>10. Binding(s, h, t) = Ledger!Binding(s, h, t) BY DEF Binding, Ledger!Binding
<1>11. replies' = replies /\ request' = request BY DEF Land
<1>12. Told' = Told BY <1>0, <1>11, SameTold DEF R
<1>13. Ledger!Bind(s, h, t)
  BY <1>7, <1>8, <1>9, <1>10, <1>12 DEF Ledger!Bind, LedgerRows, Bound, Told, Tells
<1>14. QED BY <1>13

LEMMA LandDisputes ==
  ASSUME Inv, NEW a \in Calls, Land(a), R(a).source # None, draft[a].ledger = "conflict"
  PROVE  \E s \in Sources, disputed \in BOOLEAN : Ledger!Dispute(s, disputed)
<1>0. TypeOK /\ CallsInOrder BY DEF Inv
<1>1. PICK s \in Sources : s = R(a).source BY LandWrites, RequestFields
<1>2. /\ event[s] \in EventRows /\ event'[s] \in EventRows
      /\ event' = [event EXCEPT ![s].status = "conflict"]
      /\ event'[s].hash = event[s].hash /\ event'[s].thought = event[s].thought
      /\ \A r \in Sources : r # s => event'[r] = event[r]
  BY <1>1, LandWrites
<1>3. event'[s] # NoEvent /\ event[s] # NoEvent BY <1>2, Distinct DEF EventRows
<1>4. LedgerRow(s) = [disputed |-> event[s].status = "conflict", hash |-> event[s].hash,
                      thought |-> event[s].thought]
  BY <1>3 DEF LedgerRow
<1>5. LedgerRow(s)' = [disputed |-> event'[s].status = "conflict", hash |-> event[s].hash,
                       thought |-> event[s].thought]
  BY <1>2, <1>3 DEF LedgerRow
<1>6. LedgerRow(s)' = [LedgerRow(s) EXCEPT !.disputed = (event'[s].status = "conflict")]
  BY <1>4, <1>5
<1>7. \A r \in Sources : r # s => LedgerRow(r)' = LedgerRow(r) BY <1>2 DEF LedgerRow
<1>8. LedgerRows' = [LedgerRows EXCEPT ![s].disputed = (event'[s].status = "conflict")]
  BY <1>6, <1>7 DEF LedgerRows
<1>9. LedgerRows[s] # Ledger!Unbound BY <1>4 DEF LedgerRows, Ledger!Unbound
<1>10. Bound' = Bound
  <2>1. \A r \in Sources : (event'[r] = NoEvent <=> event[r] = NoEvent)
                         /\ event'[r].hash = event[r].hash /\ event'[r].thought = event[r].thought
    BY <1>2, <1>3
  <2>2. QED BY <2>1 DEF Bound
<1>11. replies' = replies /\ request' = request BY DEF Land
<1>12. Told' = Told BY <1>0, <1>11, SameTold DEF R
<1>13. Ledger!Dispute(s, event'[s].status = "conflict")
  BY <1>8, <1>9, <1>10, <1>12 DEF Ledger!Dispute, LedgerRows, Bound, Told, Tells
<1>14. (event'[s].status = "conflict") \in BOOLEAN OBVIOUS
<1>15. QED BY <1>13, <1>14

\* An answer or a recovery: what it tells of is bound.
LEMMA ReplyTells ==
  ASSUME Inv, NEW a \in Calls, StepOf(a), ~Land(a)
  PROVE  (\E x \in Bound : Ledger!Tell(x)) \/ UNCHANGED <<LedgerRows, Bound, Told>>
<1>0. TypeOK /\ CallsInOrder /\ RetriesCovered BY DEF Inv
<1>1. /\ UNCHANGED tables /\ request' = request /\ R(a) \in Requests /\ pc[a] # "unused"
      /\ replies' = [replies EXCEPT ![a] = replies'[a]] /\ \A b \in Calls : R(b)' = R(b)
  BY <1>0, StepMoves
<1>2. LedgerRows' = LedgerRows /\ Bound' = Bound BY <1>1, SameLedger DEF tables
<1>3. \A b \in Calls : b # a => replies'[b] = replies[b] BY <1>0, <1>1 DEF TypeOK
<1>4. \A b \in Calls : b # a => Tells(b)' = Tells(b)
  BY <1>1, <1>3 DEF Tells, Success, Conflict
<1>5. CASE replies'[a] = replies[a]
  <2>1. replies' = replies BY <1>0, <1>1, <1>5 DEF TypeOK
  <2>2. QED BY <1>0, <1>1, <1>2, <2>1, SameTold
<1>6. CASE replies'[a] # replies[a] /\ Tells(a)'
  <2>. DEFINE x == Binding(R(a).source, R(a).hash, replies'[a].thought)
  <2>1. ~Tells(a) BY <1>0, <1>6, OwnClient DEF Tells, Success
  <2>2. Told' = Told \cup {x}
    BY <1>1, <1>3, <1>4, <1>6, <2>1 DEF Told, Binding
  <2>3. TrueReply(a, replies'[a]) BY <1>6, OwnReply DEF Tells, Success
  <2>4. /\ R(a).source \in Sources /\ BoundTo(a, replies'[a].thought)
    BY <1>1, <1>6, <2>3, RequestFields DEF Tells, Conflict, TrueReply, ConflictAction
  <2>5. x \in Bound BY <2>4 DEF BoundTo, Bound
  <2>. HIDE DEF x
  <2>6. Ledger!Tell(x)
    BY <1>2, <2>2, <2>5 DEF Ledger!Tell, LedgerRows, Bound, Told, Tells
  <2>7. QED BY <2>5, <2>6
<1>7. CASE replies'[a] # replies[a] /\ ~Tells(a)'
  <2>1. ~Tells(a) BY <1>0, <1>7, OwnClient DEF Tells, Success
  <2>2. Told' = Told BY <1>1, <1>3, <1>4, <1>7, <2>1 DEF Told, Binding
  <2>3. QED BY <1>2, <2>2
<1>8. QED BY <1>5, <1>6, <1>7

LEMMA NextLedger == Inv /\ [Next]_vars => [Ledger!LedgerNext]_<<LedgerRows, Bound, Told>>
<1>. SUFFICES ASSUME Inv, [Next]_vars
              PROVE  Ledger!LedgerNext \/ UNCHANGED <<LedgerRows, Bound, Told>>
  OBVIOUS
<1>0. TypeOK /\ CallsInOrder /\ RetriesCovered BY DEF Inv
<1>1. ASSUME event' = event, replies' = replies, Grows
      PROVE  UNCHANGED <<LedgerRows, Bound, Told>>
  BY <1>0, <1>1, SameLedger, SameTold DEF Grows
<1>2. CASE \E a \in Calls : StepOf(a)
  <2>1. PICK a \in Calls : StepOf(a) BY <1>2
  <2>2. CASE ~Land(a) BY <2>1, <2>2, ReplyTells DEF Ledger!LedgerNext, Bound
  <2>3. CASE Land(a)
    <3>1. draft[a].ledger \in {"new", "replay", "conflict"}
      BY <2>3, LandWrites DEF DraftCovered, DraftType
    <3>2. CASE R(a).source # None /\ draft[a].ledger = "new"
      BY <2>3, <3>2, LandBinds DEF Ledger!LedgerNext
    <3>3. CASE R(a).source # None /\ draft[a].ledger = "conflict"
      BY <2>3, <3>3, LandDisputes DEF Ledger!LedgerNext
    <3>4. CASE R(a).source = None \/ draft[a].ledger = "replay"
      BY <1>1, <2>3, <3>4, LandWrites, LandGrows DEF Land
    <3>5. QED BY <3>1, <3>2, <3>3, <3>4
  <2>4. QED BY <2>2, <2>3
<1>3. CASE \E c \in Clients, n \in 1..MaxCalls : Call(c, n)
  <2>1. Grows BY <1>3, NextGrows, CallType DEF Next
  <2>2. event' = event /\ replies' = replies BY <1>3 DEF Call, tables
  <2>3. QED BY <1>1, <2>1, <2>2
<1>4. CASE \E c \in Contents : Afterwards(c)
  <2>1. Grows BY <1>4, NextGrows DEF Next
  <2>2. event' = event /\ replies' = replies BY <1>4 DEF Afterwards
  <2>3. QED BY <1>1, <2>1, <2>2
<1>5. CASE UNCHANGED vars
  <2>1. event' = event /\ replies' = replies /\ \A a \in Calls : R(a)' = R(a)
    BY <1>5 DEF vars, tables, R
  <2>2. QED BY <1>0, <2>1, SameLedger, SameTold
<1>6. QED BY <1>2, <1>3, <1>4, <1>5, NextKinds

(***************************************************************************)
(* Captures implement SourceLedger: whatever races, deadlines, lost        *)
(* answers and retries there are, an event is bound once by the first      *)
(* capture that lands, a differing payload only disputes it, and every     *)
(* caller is told of a binding that was made.                              *)
(***************************************************************************)
THEOREM CapturesImplementLedger == Spec => ImplementsLedger
<1>1. Inv /\ [Next]_vars =>
        [Ledger!LedgerNext]_<<[s \in Sources |-> LedgerRow(s)],
          {Binding(s, event[s].hash, event[s].thought) : s \in {x \in Sources : event[x] # NoEvent}},
          {Binding(R(a).source, R(a).hash, replies[a].thought) :
             a \in {x \in Calls : Success(x) /\ ~Conflict(x) /\ R(x).source # None}}>>
  BY NextLedger DEF LedgerRows, Bound, Told, Tells
<1>2. QED BY <1>1, InitInv, NextInv, InitLedger, PTL DEF Spec, ImplementsLedger, Ledger!LedgerSpec
==============================================================================
