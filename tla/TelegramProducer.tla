---------------------------- MODULE TelegramProducer ----------------------------
(***************************************************************************)
(* argus-telegram-direct-nats-producer: a run reads the rows of a capture  *)
(* file from the saved offset on, groups them into windows by chat and     *)
(* publishes a summary of each.  Three files outlive a run: the offset,    *)
(* the seen ledger (an envelope is kept there before it is published) and  *)
(* the failed attempts, of which a window has PoisonAttempts before it is  *)
(* quarantined.  A window that fails ends the file's turn, and the offset  *)
(* stays.                                                                  *)
(***************************************************************************)
EXTENDS Naturals, FiniteSets, SequencesExt

CONSTANTS
  Lines,           \* the rows the file will hold: [chat, kind, time]
  NoTime,          \* the time of a record with no usable source time
  Summaries,       \* what the summarizer may make of a window, as payload hashes
  MaxRows,         \* rows in a read (maxBytesPerPass)
  MaxRecords,      \* maxRecordsPerWindow
  PoisonAttempts,
  MaxDepth,        \* MAX_CONTEXT_SPLIT_DEPTH
  MaxCrashes       \* bound: runs that die

\* An invalid row is no record.  Records without a usable time sort behind all others.
ASSUME TelegramAssumption ==
  /\ Len(Lines) \in Nat /\ DOMAIN Lines = 1..Len(Lines) /\ NoTime \in Nat
  /\ \A i \in DOMAIN Lines :
       Lines[i].kind \in {"record", "invalid"} /\ Lines[i].time \in 0..NoTime
  /\ "none" \notin Summaries
  /\ {MaxRows, MaxRecords, PoisonAttempts} \subseteq Nat \ {0}
  /\ {MaxDepth, MaxCrashes} \subseteq Nat

VARIABLES
  size,      \* rows in the file so far
  saved,     \* the offset file
  seen,      \* the seen ledger: source_ref -> status and envelope
  attempts,  \* the attempts file: window -> failures
  pass,      \* where the run is
  offset,    \* state[key].offset
  ahead,     \* nextOffset of the read
  todo,      \* windows to process, with the depth of their splits
  step,      \* where processWindow is
  draft,     \* the envelope at hand: the rows it is of and its payload hash
  sent,      \* messages in the stream: source_ref, rows and payload hash
  noise,     \* history: rows found to be noise
  poison,    \* rows with a poison_window row in the poison file
  invalid,   \* rows with an invalid_capture_row in the DLQ file
  crashes    \* history: runs that died

files == <<saved, seen, attempts>>
run == <<pass, offset, ahead, todo, step, draft>>
history == <<noise, poison, invalid, crashes>>
vars == <<size, files, run, sent, history>>

Rows == DOMAIN Lines
SourceRefs == Rows \X Rows
Envelope(rows, hash) == [rows |-> rows, hash |-> hash]
NoEnvelope == Envelope({}, "none")
Entry(status, envelope) ==
  [status |-> status, rows |-> envelope.rows, hash |-> envelope.hash]

TypeOK ==
  /\ {size, saved, offset, ahead} \subseteq 0..Len(Lines)
  /\ DOMAIN seen \subseteq SourceRefs
  /\ \A ref \in DOMAIN seen :
       /\ seen[ref].status \in {"prepared", "published", "quarantined"}
       /\ seen[ref].status = "quarantined" <=> seen[ref].hash = "none"
  /\ \A w \in DOMAIN attempts : attempts[w] \in 1..(PoisonAttempts - 1)
  /\ pass \in {"none", "windows", "save"} /\ (pass = "windows") = (todo # <<>>)
  /\ \A k \in DOMAIN todo : todo[k].depth \in 0..MaxDepth /\ Len(todo[k].rows) \in 1..MaxRecords
  /\ step \in {"look", "publish", "record"} /\ (step = "look") = (draft = NoEnvelope)
  /\ {noise, poison, invalid} \subseteq SUBSET Rows /\ crashes \in 0..MaxCrashes

Init ==
  /\ size = 0 /\ saved = 0 /\ seen = <<>> /\ attempts = <<>>
  /\ pass = "none" /\ offset = 0 /\ ahead = 0 /\ todo = <<>>
  /\ step = "look" /\ draft = NoEnvelope
  /\ sent = {} /\ noise = {} /\ poison = {} /\ invalid = {} /\ crashes = 0

AppendLine ==
  /\ size < Len(Lines)
  /\ size' = size + 1
  /\ UNCHANGED <<files, run, sent, history>>

---------------------------------------------------------------------------------

FileOrder == {p \in SourceRefs : p[1] < p[2]}

\* By source time, and by message id where the times are the same.
TimeOrder ==
  {p \in SourceRefs :
     \/ Lines[p[1]].time < Lines[p[2]].time
     \/ Lines[p[1]].time = Lines[p[2]].time /\ p[1] < p[2]}

Sorted(S, before) ==
  [k \in 1..Cardinality(S) |-> CHOOSE i \in S : Cardinality({j \in S : <<j, i>> \in before}) = k - 1]

OfKind(kind, lo, hi) == {i \in (lo + 1)..hi : Lines[i].kind = kind}

Chunks(s) ==
  [k \in 1..((Len(s) + MaxRecords - 1) \div MaxRecords) |->
     SubSeq(s, (k - 1) * MaxRecords + 1, IF k * MaxRecords < Len(s) THEN k * MaxRecords ELSE Len(s))]

\* The chats in the order of their first records, the records of a chat in order of time.
WindowsOf == [lo \in 0..Len(Lines) |-> [hi \in 0..Len(Lines) |->
  LET records == OfKind("record", lo, hi)
      OfChat(i) == {j \in records : Lines[j].chat = Lines[i].chat}
      firsts == Sorted({i \in records : \A j \in OfChat(i) : i <= j}, FileOrder)
  IN FlattenSeq([k \in DOMAIN firsts |-> Chunks(Sorted(OfChat(firsts[k]), TimeOrder))])]]

Halves(w) ==
  LET mid == (Len(w) + 1) \div 2 IN <<SubSeq(w, 1, mid), SubSeq(w, mid + 1, Len(w))>>

\* The windows a pass may come to, halved ones too.
Pending(windows) ==
  LET halved[d \in 0..MaxDepth] ==
        IF d = 0 THEN ToSet(windows)
        ELSE halved[d - 1] \cup UNION {ToSet(Halves(w)) : w \in {v \in halved[d - 1] : Len(v) > 1}}
  IN halved[MaxDepth]

Forget(w) == [v \in DOMAIN attempts \ {w} |-> attempts[v]]

StartPass ==
  LET end == IF saved + MaxRows < size THEN saved + MaxRows ELSE size
      windows == WindowsOf[saved][end]
      bad == OfKind("invalid", saved, end)
  IN
  /\ pass = "none"
  /\ attempts' = [w \in DOMAIN attempts \cap Pending(windows) |-> attempts[w]]
  /\ ahead' = end
  /\ invalid' = invalid \cup bad
  /\ todo' = [k \in DOMAIN windows |-> [rows |-> windows[k], depth |-> 0]]
  /\ IF windows = <<>>
     THEN pass' = "save" /\ offset' = end
     ELSE pass' = "windows" /\ offset' = IF bad = {} THEN saved ELSE Max(bad)
  /\ UNCHANGED <<size, saved, seen, step, draft, sent, noise, poison, crashes>>

---------------------------------------------------------------------------------

W == Head(todo).rows
Ref == <<W[1], W[Len(W)]>>
Known == Ref \in DOMAIN seen
Status == IF Known THEN seen[Ref].status ELSE "none"
Timely == \A k \in DOMAIN W : Lines[W[k]].time < NoTime
Keep(status, envelope) ==
  seen' = [ref \in DOMAIN seen \cup {Ref} |-> IF ref = Ref THEN Entry(status, envelope) ELSE seen[ref]]

\* The window is done, and after the last one the rows that were read are.
Done ==
  /\ attempts' = Forget(W)
  /\ todo' = Tail(todo)
  /\ step' = "look" /\ draft' = NoEnvelope
  /\ IF Len(todo) = 1 THEN pass' = "save" /\ offset' = ahead ELSE UNCHANGED <<pass, offset>>
  /\ UNCHANGED <<size, saved, ahead, invalid, crashes>>

At(s) == pass = "windows" /\ step = s

SkipQuarantined ==
  /\ At("look") /\ Status = "quarantined" /\ Done
  /\ UNCHANGED <<seen, sent, noise, poison>>

SkipPublished ==
  /\ At("look") /\ Timely /\ Status = "published" /\ Done
  /\ UNCHANGED <<seen, sent, noise, poison>>

IsNoise ==
  /\ At("look") /\ Timely /\ ~Known /\ Done
  /\ noise' = noise \cup ToSet(W)
  /\ UNCHANGED <<seen, sent, poison>>

Goes(s, envelope) ==
  /\ step' = s /\ draft' = envelope
  /\ UNCHANGED <<size, saved, attempts, pass, offset, ahead, todo, history>>

\* Mutant: the envelope is not kept before it is published.
PrepareInMemory(h) ==
  /\ At("look") /\ Timely /\ ~Known /\ Goes("publish", Envelope(ToSet(W), h))
  /\ UNCHANGED <<seen, sent>>

\* Summarised, and kept before it is published.
Prepare(h) ==
  /\ At("look") /\ Timely /\ ~Known
  /\ Keep("prepared", Envelope(ToSet(W), h)) /\ Goes("publish", Envelope(ToSet(W), h))
  /\ UNCHANGED sent

\* Kept by a run that got no further, of the rows the window had then.
Resume ==
  /\ At("look") /\ Timely /\ Status = "prepared"
  /\ Goes("publish", Envelope(seen[Ref].rows, seen[Ref].hash))
  /\ UNCHANGED <<seen, sent>>

Message == [ref |-> Ref, rows |-> draft.rows, hash |-> draft.hash]

Publish ==
  /\ At("publish") /\ sent' = sent \cup {Message} /\ Goes("record", draft)
  /\ UNCHANGED seen

Record ==
  /\ At("record") /\ Keep("published", draft) /\ Done
  /\ UNCHANGED <<sent, noise, poison>>

\* The context error of a window of several records: its halves take its place.
Split ==
  /\ At("look") /\ Timely /\ ~Known /\ Len(W) > 1 /\ Head(todo).depth < MaxDepth
  /\ attempts' = Forget(W)
  /\ todo' = [k \in 1..2 |-> [rows |-> Halves(W)[k], depth |-> Head(todo).depth + 1]] \o Tail(todo)
  /\ UNCHANGED <<size, saved, seen, pass, offset, ahead, step, draft, sent, history>>

\* The error leaves processFile: the offset is where it was.
Abort ==
  /\ pass' = "save" /\ todo' = <<>> /\ step' = "look" /\ draft' = NoEnvelope
  /\ UNCHANGED <<size, saved, offset, ahead, noise, invalid, crashes>>

Quarantine ==
  /\ poison' = poison \cup ToSet(W)
  /\ Keep("quarantined", Envelope(ToSet(W), "none"))
  /\ attempts' = Forget(W)

Failures == 1 + IF W \in DOMAIN attempts THEN attempts[W] ELSE 0
Count == attempts' = [v \in DOMAIN attempts \cup {W} |-> IF v = W THEN Failures ELSE attempts[v]]

\* Mutant: the run goes on with the next window.
FailAndGoOn == Done /\ UNCHANGED <<seen, noise, poison>>

\* Mutant: failures are not counted.
FailUncounted == UNCHANGED <<seen, poison, attempts>> /\ Abort

\* A failure is counted, and the last one counted quarantines the window.
Fail ==
  /\ \/ Failures >= PoisonAttempts /\ Quarantine
     \/ Failures < PoisonAttempts /\ Count /\ UNCHANGED <<seen, poison>>
  /\ Abort

\* A record without a usable time, no answer from the summarizer, a secret.
WindowFails ==
  /\ At("look") /\ Status # "quarantined" /\ (~Timely \/ ~Known) /\ Fail
  /\ UNCHANGED sent

\* Too long for the summarizer, and not to be split or cut.
TooLong ==
  /\ At("look") /\ Timely /\ ~Known /\ (Len(W) = 1 \/ Head(todo).depth = MaxDepth)
  /\ Quarantine /\ Abort
  /\ UNCHANGED sent

\* No answer from the stream, which may have the message.
PublishFails ==
  /\ At("publish") /\ Fail
  /\ sent' \in {sent, sent \cup {Message}}

SaveOffset ==
  /\ pass = "save"
  /\ saved' = offset /\ pass' = "none" /\ offset' = 0 /\ ahead' = 0
  /\ UNCHANGED <<size, seen, attempts, todo, step, draft, sent, history>>

RunDies ==
  /\ pass # "none" /\ crashes < MaxCrashes
  /\ crashes' = crashes + 1
  /\ pass' = "none" /\ offset' = 0 /\ ahead' = 0 /\ todo' = <<>>
  /\ step' = "look" /\ draft' = NoEnvelope
  /\ UNCHANGED <<size, files, sent, noise, poison, invalid>>

Run ==
  \/ StartPass \/ SkipQuarantined \/ SkipPublished \/ IsNoise \/ Resume
  \/ \E h \in Summaries : Prepare(h)
  \/ Publish \/ Record \/ Split \/ WindowFails \/ TooLong \/ PublishFails \/ SaveOffset

Next == AppendLine \/ Run \/ RunDies

\* launchd starts the runs, and a run goes on.
Spec == Init /\ [][Next]_vars /\ WF_vars(Run)

---------------------------------------------------------------------------------

Settled(i) ==
  i \in noise \cup poison \cup invalid \/ \E m \in sent : i \in m.rows

\* A record of its chat was written before row i, sorts behind it, and is settled.
Overtaken(i) ==
  \E j \in 1..(i - 1) : /\ Lines[j].chat = Lines[i].chat /\ <<i, j>> \in TimeOrder
                        /\ Lines[j].kind = "record" /\ Settled(j)

\* A record that the saved offset has passed is in the stream, is noise or is in a quarantine
\* row, but for two: an invalid row that was read behind it moved the offset (processFile
\* sets it at the end of each invalid row), or it came late, and a window that it belongs in
\* was published or quarantined without it (processWindow knows windows by their source_ref,
\* the first and the last record in the order of time).
OffsetBehindOutcomes ==
  \A i \in 1..saved :
    Settled(i) \/ Overtaken(i) \/ \E j \in (i + 1)..saved : Lines[j].kind = "invalid"

\* What is published under one source_ref is one payload, whatever failed or died on the
\* way, and also when late records have changed the window that has the ref: the consumer's
\* gate has no conflict to report (processWindow's prepared entry).
OnePayloadPerRef == \A m, n \in sent : m.ref = n.ref => m = n

\* Every record comes to an end: a window that fails for ever is quarantined, although
\* new rows and splits change which window it is (recordWindowAttempt, pruneAttemptState).
EveryRecordSettles == \A i \in Rows : i <= size ~> (Settled(i) \/ i <= saved)

\* Of the code's comment on records without a time ("fail-closed timestamp errors enter
\* the existing attempt/DLQ/quarantine path"): a window they are in is quarantined with
\* all its records, so none is passed over without a row (processWindow).
NoRecordWithoutTrace == \A i \in 1..saved : Settled(i)
==============================================================================
