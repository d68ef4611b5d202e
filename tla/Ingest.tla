----------------------------------- MODULE Ingest -----------------------------------
(***************************************************************************)
(* The way of a session's lines into kEngram: the producer that reads and  *)
(* summarises them, the streams, the consumer that hands the summaries and *)
(* the agents' own messages to the capture gate.  The parts meet in the    *)
(* streams only.                                                           *)
(***************************************************************************)
EXTENDS SessionProducer, IngestConsumer

CONSTANT AgentMessages  \* what may be published on the agents' subjects

ASSUME AgentAssumption == AgentMessages \subseteq MessageType

ingest == <<stream, faults, producer, consumer>>

IngestInit ==
  /\ stream = <<>> /\ faults = 0
  /\ ProducerInit /\ ConsumerInit

\* An agent writes to another one, or sends again what it has sent.
Publishes(m) ==
  /\ Room /\ stream' = Append(stream, m)
  /\ UNCHANGED <<faults, producer, consumer>>

IngestNext ==
  \/ ProducerNext /\ UNCHANGED consumer
  \/ ConsumerNext /\ UNCHANGED producer
  \/ \E m \in AgentMessages : Publishes(m)

\* launchd starts the runs and a run goes on; ack_wait and backoffs run out.
Fairness ==
  /\ WF_ingest(Produce /\ UNCHANGED consumer)
  /\ WF_ingest((StartRun \/ NextLane \/ EndRun \/ Handle \/ GateLands) /\ UNCHANGED producer)
  /\ \A m \in MessageIds : WF_ingest(Due(m) /\ UNCHANGED producer)

IngestSpec == IngestInit /\ [][IngestNext]_ingest /\ Fairness

IngestTypeOK == StreamTypeOK /\ ProducerTypeOK /\ ConsumerTypeOK

---------------------------------------------------------------------------------

Covers(m, i) ==
  stream[m].lane = "session" /\ stream[m].source[1] <= i /\ i <= stream[m].source[2]

Reasons(m) == {row[2] : row \in {r \in rows : r[1] = m}}
Spent(m) == outcome[m] = "open" /\ due[m] /\ count[m] = MaxDeliver

\* What became of a line: passed with a new file, nothing to tell, rejected, or in a summary
\* that was published.
Dealt(i) ==
  \/ i <= seeded
  \/ Lines[i] = "blank" \/ i \in noise \cup rejected
  \/ \E m \in DOMAIN stream : Covers(m, i)

\* What JetStream is told of a message agrees with what the gate has or a DLQ file shows:
\* acked is captured, skipped or noted as a conflict; terminated has its row; and a
\* message that is delivered no more, and that nobody has a trace of, was lost to runs
\* that died, one for each delivery (processSessionMessage, processA2AMessage, max_deliver).
Traced(m) ==
  /\ outcome[m] = "acked" =>
       \/ stream[m].kind = "skip" \/ Event(m) \in bound
       \/ "conflict" \in Reasons(m) /\ OtherHash(m)
  /\ outcome[m] = "termed" => Reasons(m) \cap {"invalid", "unpublishable"} # {}
  /\ Spent(m) /\ stream[m].kind # "skip" /\ Event(m) \notin bound /\ Reasons(m) = {} =>
       deaths >= MaxDeliver

\* No line and no message vanishes on its way: but for those a file had when it was first
\* seen, without --backfill, the offset that is kept never passes a line nothing became of,
\* whatever fails and whenever a run ends (processRecordWindow, processFile, runOnce), and
\* what was published is traced.
NothingVanishes == (\A i \in 1..saved : Dealt(i)) /\ (\A m \in DOMAIN stream : Traced(m))

\* A line the producer can read ends in kEngram, among the noise, or in a DLQ file,
\* unless the runs that had it died, or it was passed with a new file.
Readable(i) == \A j \in 1..i : Lines[j] # "long"
Ends(m) == \/ outcome[m] # "open" \/ Event(m) \in bound
           \/ Spent(m) /\ (stream[m].kind = "skip" \/ Reasons(m) # {} \/ deaths >= MaxDeliver)
EveryLineEnds ==
  \A i \in LineNos :
    Readable(i) /\ i <= size ~>
      \/ i <= seeded \/ Lines[i] = "blank" \/ i \in noise \cup rejected
      \/ \E m \in DOMAIN stream : Covers(m, i) /\ Ends(m)
==============================================================================
