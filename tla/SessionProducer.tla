----------------------------- MODULE SessionProducer -----------------------------
(***************************************************************************)
(* argus-session-nats-producer: a run reads the lines of a session file    *)
(* from the saved offset on, summarises them, publishes the summary and    *)
(* moves the offset; a range that is rejected for good is halved until the *)
(* rejected lines stand alone.  Offsets are saved when the run is over.    *)
(* launchd starts one run after the other; what a file held when the first *)
(* of them saw it is read only if that run was started with --backfill.    *)
(***************************************************************************)
EXTENDS IngestStream, FiniteSetsExt

CONSTANTS
  Lines,    \* what the file will hold, line by line
  MaxLines  \* maxLinesPerBatch

\* A blank line is no record; a bad one has no usable time; a long one is longer
\* than a read.
ASSUME LinesAssumption ==
  /\ Lines \in Seq({"plain", "blank", "bad", "long"})
  /\ MaxLines \in Nat \ {0}

VARIABLES
  size,      \* lines in the file so far
  known,     \* the file has an entry in the state file
  saved,     \* its offset
  seeded,    \* history: lines the file had when it was first seen, and which are passed
  pass,      \* where the run is
  offset,    \* state[key].offset
  ahead,     \* where the pass would leave the offset
  todo,      \* the windows it has still to process: the lines of their records
  noise,     \* history: lines that were found to be noise
  rejected   \* lines with a permanent_reject row in the DLQ file

entry == <<known, saved, seeded>>
producer == <<size, entry, pass, offset, ahead, todo, noise, rejected>>

LineNos == 1..Len(Lines)

ProducerTypeOK ==
  /\ {size, saved, seeded} \subseteq 0..Len(Lines) /\ known \in BOOLEAN
  /\ pass \in {"none", "window", "save"}
  /\ offset \in 0..Len(Lines) /\ ahead \in 0..Len(Lines)
  /\ todo \in Seq((SUBSET LineNos) \ {{}})
  /\ pass = "window" => todo # <<>>
  /\ noise \subseteq LineNos /\ rejected \subseteq LineNos

ProducerInit ==
  /\ size = 0 /\ known = FALSE /\ saved = 0 /\ seeded = 0
  /\ pass = "none" /\ offset = 0 /\ ahead = 0 /\ todo = <<>>
  /\ noise = {} /\ rejected = {}

\* The session goes on.
AppendLine ==
  /\ size < Len(Lines)
  /\ size' = size + 1
  /\ UNCHANGED <<entry, pass, offset, ahead, todo, noise, rejected, stream, faults>>

\* Whole lines, as many as a batch may have; a long line is never whole.
NextOffset ==
  LET Whole(n) == /\ n <= size /\ n - saved <= MaxLines
                  /\ \A i \in saved + 1 .. n : Lines[i] # "long"
  IN CHOOSE n \in saved..size : Whole(n) /\ ~Whole(n + 1)

Records(lo, hi) == {i \in (lo + 1)..hi : Lines[i] # "blank"}

\* A file that is seen for the first time is passed by.
Seed ==
  /\ pass = "none" /\ ~known
  /\ pass' = "save" /\ offset' = size /\ seeded' = size
  /\ UNCHANGED <<size, known, saved, ahead, todo, noise, rejected, stream, faults>>

\* One that is known is read on, and with --backfill a new one from its first line.
StartPass ==
  /\ pass = "none"
  /\ ahead' = NextOffset
  /\ LET records == Records(saved, NextOffset) IN
     IF records = {}
     THEN pass' = "save" /\ offset' = NextOffset /\ UNCHANGED todo
     ELSE pass' = "window" /\ todo' = <<records>> /\ offset' = saved
  /\ UNCHANGED <<size, entry, noise, rejected, stream, faults>>

Window == Head(todo)
First == Min(Window)
Last == Max(Window)

\* The offset moves past the window, after the last one past the lines that were read.
Advance ==
  /\ todo' = Tail(todo)
  /\ offset' = IF Len(todo) = 1 THEN ahead ELSE Last
  /\ pass' = IF Len(todo) = 1 THEN "save" ELSE "window"
  /\ UNCHANGED <<size, entry, ahead>>

\* The error leaves processFile; what was advanced stays advanced.
FileError ==
  /\ pass' = "save" /\ todo' = <<>>
  /\ UNCHANGED <<size, entry, offset, ahead, noise, rejected>>

HasBadTime == \E i \in Window : Lines[i] = "bad"

IsNoise ==
  /\ pass = "window" /\ ~HasBadTime
  /\ noise' = noise \cup Window
  /\ Advance
  /\ UNCHANGED <<rejected, stream, faults>>

\* The msgID of a message is its source and hash: the stream may know it still.
Kept(m) ==
  \/ Room /\ stream' = Append(stream, m)
  \/ (\E i \in DOMAIN stream : stream[i] = m) /\ UNCHANGED stream

Summary(h) ==
  Message("session", IF h \in Signalless THEN "skip" ELSE "record", <<First, Last>>, h)

Publish(h) ==
  /\ pass = "window" /\ ~HasBadTime
  /\ Kept(Summary(h))
  /\ Advance
  /\ UNCHANGED <<noise, rejected, faults>>

\* Mutant: the run goes on with the next window, as if nothing had happened.
PublishIgnored(h) ==
  /\ pass = "window" /\ ~HasBadTime
  /\ Fault
  /\ UNCHANGED stream
  /\ Advance
  /\ UNCHANGED <<noise, rejected>>

\* No answer from the summarizer or the stream, which may have the message all the same.
PublishFails(h) ==
  /\ pass = "window" /\ ~HasBadTime
  /\ Fault
  /\ UNCHANGED stream \/ Kept(Summary(h))
  /\ FileError

LowerHalf(w) == {i \in w : Cardinality({j \in w : j < i}) < Cardinality(w) \div 2}

\* Rejected for its times, or because its summary holds what looks like a secret.
Split ==
  /\ pass = "window" /\ Cardinality(Window) > 1
  /\ todo' = <<LowerHalf(Window), Window \ LowerHalf(Window)>> \o Tail(todo)
  /\ UNCHANGED <<size, entry, pass, offset, ahead, noise, rejected, stream, faults>>

\* Mutant: a rejected record fails the file, like any other error.
RejectFails ==
  /\ pass = "window" /\ Cardinality(Window) = 1
  /\ UNCHANGED <<stream, faults>>
  /\ FileError

Reject ==
  /\ pass = "window" /\ Cardinality(Window) = 1
  /\ rejected' = rejected \cup {First}
  /\ Advance
  /\ UNCHANGED <<noise, stream, faults>>

SaveOffsets ==
  /\ pass = "save"
  /\ known' = TRUE /\ saved' = offset
  /\ pass' = "none" /\ offset' = 0 /\ ahead' = 0
  /\ UNCHANGED <<size, seeded, todo, noise, rejected, stream, faults>>

\* The run ends before it saves: a crash, or a drain that fails.  A new file stays new.
PassDies ==
  /\ pass # "none"
  /\ Fault
  /\ pass' = "none" /\ offset' = 0 /\ ahead' = 0 /\ todo' = <<>>
  /\ seeded' = IF known THEN seeded ELSE 0
  /\ UNCHANGED <<size, known, saved, noise, rejected, stream>>

Produce ==
  \/ Seed \/ StartPass \/ IsNoise \/ Split \/ Reject \/ SaveOffsets
  \/ \E h \in Summaries : Publish(h)

ProducerNext ==
  \/ Produce \/ AppendLine \/ PassDies
  \/ \E h \in Summaries : PublishFails(h)
==============================================================================
