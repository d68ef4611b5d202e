------------------------------ MODULE IngestStream ------------------------------
(***************************************************************************)
(* What the Argus producers and their consumer share: JetStream streams    *)
(* that keep every message, here as one sequence, and a bound on what may  *)
(* go wrong.  A session message is about a range of lines of a file and    *)
(* its summary, an a2a message about itself.                               *)
(***************************************************************************)
EXTENDS Naturals, Sequences, FiniteSets

CONSTANTS
  Summaries,    \* what the summarizer may make of a range, as payload hashes
  Signalless,   \* the ones with no fact, decision or the like in them
  MaxMessages,  \* bound: messages in the streams
  MaxFaults     \* bound: crashes, failed calls and lost answers

ASSUME StreamAssumption ==
  MaxMessages \in Nat /\ MaxFaults \in Nat /\ Signalless \subseteq Summaries

VARIABLES
  stream,  \* the messages, in the order of their arrival
  faults   \* history: how much has gone wrong

Lanes == <<"session", "a2a">>

Fault == faults < MaxFaults /\ faults' = faults + 1

Room == Len(stream) < MaxMessages

\* source identifies what a message is about: the ends of its range, for a session.
Message(lane, kind, source, hash) ==
  [lane |-> lane, kind |-> kind, source |-> source, hash |-> hash]

MessageType ==
  [lane: {"session", "a2a"}, kind: {"record", "skip", "invalid"},
   source: (Nat \X Nat), hash: Summaries]

StreamTypeOK == /\ stream \in Seq(MessageType) /\ Len(stream) <= MaxMessages
                /\ faults \in 0..MaxFaults
==============================================================================
