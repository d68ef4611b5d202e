----------------------------- MODULE IngestConsumer -----------------------------
(***************************************************************************)
(* argus-kengram-consumer --once: a run takes a batch of the session lane  *)
(* and then one of the a2a lane, asks the capture gate about each message  *)
(* and tells JetStream what became of it: acked, sent back or terminated.  *)
(* What is not acked is delivered again, at most MaxDeliver times.         *)
(***************************************************************************)
EXTENDS IngestStream, FiniteSetsExt

CONSTANTS
  Batch,      \* messages in a fetch
  MaxDeliver  \* deliveries of a message

ASSUME DeliveryAssumption == Batch \in Nat \ {0} /\ MaxDeliver \in Nat \ {0}

VARIABLES
  outcome,  \* what JetStream was told of a message in the end
  count,    \* its deliveries
  due,      \* no delivery of it is pending: ack_wait or the backoff is over
  lane,     \* the lane the run is at, 0 between runs
  batch,    \* the messages it has fetched and not handled
  answer,   \* what the gate said of the oldest of them
  bound,    \* argus_source_events: lane, source and payload hash
  rows,     \* the DLQ files: a message and a reason
  deaths    \* history: consumer runs that did not end

consumer == <<outcome, count, due, lane, batch, answer, bound, rows, deaths>>

MessageIds == 1..MaxMessages

ConsumerTypeOK ==
  /\ outcome \in [MessageIds -> {"open", "acked", "termed"}]
  /\ count \in [MessageIds -> 0..MaxDeliver] /\ due \in [MessageIds -> BOOLEAN]
  /\ lane \in 0..2 /\ batch \subseteq DOMAIN stream /\ Cardinality(batch) <= Batch
  /\ answer \in {"none", "stored", "conflict", "transient", "permanent"}
  /\ bound \subseteq {"session", "a2a"} \X (Nat \X Nat) \X Summaries
  /\ rows \subseteq MessageIds \X {"invalid", "held", "unpublishable", "conflict"}
  /\ deaths \in 0..MaxFaults
  /\ lane = 0 => batch = {}
  /\ batch = {} => answer = "none"

ConsumerInit ==
  /\ outcome = [m \in MessageIds |-> "open"]
  /\ count = [m \in MessageIds |-> 0] /\ due = [m \in MessageIds |-> TRUE]
  /\ lane = 0 /\ batch = {} /\ answer = "none"
  /\ bound = {} /\ rows = {} /\ deaths = 0

Deliverable(l) ==
  {m \in DOMAIN stream : /\ stream[m].lane = Lanes[l] /\ outcome[m] = "open"
                         /\ due[m] /\ count[m] < MaxDeliver}

\* JetStream delivers the oldest ones.
Fetch(l) ==
  LET taken == {m \in Deliverable(l) : Cardinality({n \in Deliverable(l) : n < m}) < Batch}
  IN /\ lane' = l /\ batch' = taken
     /\ count' = [m \in MessageIds |-> IF m \in taken THEN count[m] + 1 ELSE count[m]]
     /\ due' = [m \in MessageIds |-> due[m] /\ m \notin taken]

StartRun ==
  /\ lane = 0 /\ Fetch(1)
  /\ UNCHANGED <<outcome, answer, bound, rows, deaths, stream, faults>>

NextLane ==
  /\ lane = 1 /\ batch = {} /\ Fetch(2)
  /\ UNCHANGED <<outcome, answer, bound, rows, deaths, stream, faults>>

EndRun ==
  /\ lane = 2 /\ batch = {}
  /\ lane' = 0
  /\ UNCHANGED <<outcome, count, due, batch, answer, bound, rows, deaths, stream, faults>>

\* A batch is handled in the order of the stream.
Msg == Min(batch)
Event(m) == <<stream[m].lane, stream[m].source, stream[m].hash>>
OtherHash(m) ==
  \E e \in bound : e[1] = stream[m].lane /\ e[2] = stream[m].source /\ e[3] # stream[m].hash

\* The last word on the oldest message, which the server may not hear.
Tell(told) ==
  /\ batch' = batch \ {Msg} /\ answer' = "none"
  /\ \/ outcome' = [outcome EXCEPT ![Msg] = told] /\ UNCHANGED faults
     \/ told # "open" /\ Fault /\ UNCHANGED outcome
  /\ UNCHANGED <<count, due, lane, bound, deaths, stream>>

Note(reason) == rows' = rows \cup {<<Msg, reason>>}

Unasked(kind) == batch # {} /\ answer = "none" /\ stream[Msg].kind = kind

\* Not parseable, on the wrong subject, or not an envelope.
Invalid == Unasked("invalid") /\ Note("invalid") /\ Tell("termed")

\* Marked not to be ingested, or nothing in it worth remembering.
Skip == Unasked("skip") /\ UNCHANGED rows /\ Tell("acked")

GateAnswers(said) ==
  /\ answer' = said
  /\ UNCHANGED <<outcome, count, due, lane, batch, rows, deaths, stream>>

Bind == bound' = IF OtherHash(Msg) THEN bound ELSE bound \cup {Event(Msg)}
Classified == IF OtherHash(Msg) THEN "conflict" ELSE "stored"

\* The gate knows the source, or takes the record in.
GateLands ==
  /\ Unasked("record") /\ Bind /\ GateAnswers(Classified)
  /\ UNCHANGED faults

\* It refuses the record, a constraint of its own or an error nobody classed.
GateRefuses ==
  /\ Unasked("record") /\ Fault /\ GateAnswers("permanent")
  /\ UNCHANGED bound

\* No connection, a timeout, a deadlock; or its answer is not readable.
GateFails ==
  /\ Unasked("record") /\ Fault /\ GateAnswers("transient")
  /\ Bind \/ UNCHANGED bound

\* Mutant: what is sent back leaves no row.
SendBackUnnoted == answer = "transient" /\ UNCHANGED rows /\ Tell("open")

Stored == answer = "stored" /\ UNCHANGED rows /\ Tell("acked")
Conflict == answer = "conflict" /\ Note("conflict") /\ Tell("acked")
SendBack == answer = "transient" /\ Note("held") /\ Tell("open")
Terminate == answer = "permanent" /\ Note("unpublishable") /\ Tell("termed")

\* ack_wait or the backoff runs out, after the run that had the message.
Due(m) ==
  /\ ~due[m] /\ outcome[m] = "open" /\ m \notin batch
  /\ due' = [due EXCEPT ![m] = TRUE]
  /\ UNCHANGED <<outcome, count, lane, batch, answer, bound, rows, deaths, stream, faults>>

\* The watchdog, a crash, a DLQ file that cannot be written.
RunDies ==
  /\ lane # 0 /\ Fault
  /\ lane' = 0 /\ batch' = {} /\ answer' = "none" /\ deaths' = deaths + 1
  /\ \/ UNCHANGED bound
     \/ batch # {} /\ Unasked("record") /\ Bind
  /\ UNCHANGED <<outcome, count, due, rows, stream>>

Handle == Invalid \/ Skip \/ Stored \/ Conflict \/ SendBack \/ Terminate

ConsumerNext ==
  \/ StartRun \/ NextLane \/ EndRun \/ Handle
  \/ GateLands \/ GateRefuses \/ GateFails \/ RunDies
  \/ \E m \in MessageIds : Due(m)
==============================================================================
