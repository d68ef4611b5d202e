---------------------------------- MODULE MCIngest ----------------------------------
EXTENDS Ingest

MCLines == <<"plain", "bad">>

MCMessages == {Message("a2a", kind, <<1, 1>>, "h1") : kind \in {"record", "skip", "invalid"}}

\* Bounds what agents publish: one message.
MCPublishes(m) ==
  (\A i \in DOMAIN stream : stream[i].lane # "a2a") /\ Publishes(m)

MCNext ==
  \/ ProducerNext /\ UNCHANGED consumer
  \/ ConsumerNext /\ UNCHANGED producer
  \/ \E m \in AgentMessages : MCPublishes(m)

MCSpec == IngestInit /\ [][MCNext]_ingest /\ Fairness
==============================================================================
