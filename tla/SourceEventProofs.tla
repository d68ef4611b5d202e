--------------------------- MODULE SourceEventProofs ---------------------------
(***************************************************************************)
(* Proofs about the way of a source event: from a session file over the    *)
(* streams to the gate (Ingest), how an operator replaces what it brought  *)
(* (Supersession), and what each of its deliveries is answered             *)
(* (SourceLedger).  For any files, messages, events, payloads, requests,   *)
(* clients and numbers of attempts and faults.                             *)
(***************************************************************************)
EXTENDS Supersession, Ingest, FiniteSetTheorems, SequenceTheorems, WellFoundedInduction, TLAPS

-----------------------------------------------------------------------------
\* The smallest and the largest of some numbers, and counting below one of them.

LEMMA LeastNat ==
  ASSUME NEW S \in SUBSET Nat, S # {}
  PROVE  \E k \in S : \A m \in S : k <= m
<1>1. PICK k \in S : \A m \in S : ~(<<m, k>> \in OpToRel(<, Nat))
  BY NatLessThanWellFounded, WFMin, Zenon
<1>2. \A m \in S : ~(m < k) BY <1>1 DEF OpToRel
<1> QED BY <1>2

LEMMA Lowest ==
  ASSUME NEW S \in SUBSET Nat, S # {}
  PROVE  Min(S) \in S /\ \A m \in S : Min(S) <= m
BY LeastNat, Zenon DEF Min

LEMMA Greatest ==
  ASSUME NEW n \in Nat, NEW S \in SUBSET (0..n), S # {}
  PROVE  Max(S) \in S /\ \A m \in S : m <= Max(S)
<1> DEFINE T == {n - m : m \in S}
<1>1. T \in SUBSET Nat /\ T # {}
  <2>1. \A m \in 0..n : n - m \in Nat OBVIOUS
  <2>2. T \subseteq Nat BY <2>1
  <2>3. PICK m \in S : TRUE OBVIOUS
  <2>4. n - m \in T BY <2>3
  <2> QED BY <2>2, <2>4
<1>2. PICK k \in T : \A m \in T : k <= m
  <2> HIDE DEF T
  <2> QED BY <1>1, LeastNat
<1>3. PICK g \in S : k = n - g BY <1>2
<1>4. \A m \in S : g >= m
  <2> SUFFICES ASSUME NEW m \in S PROVE g >= m OBVIOUS
  <2>1. k <= n - m BY <1>2
  <2>2. m \in 0..n /\ g \in 0..n OBVIOUS
  <2> QED BY <1>3, <2>1, <2>2
<1>5. Max(S) \in S /\ \A m \in S : Max(S) >= m BY <1>4, Zenon DEF Max
<1>6. \A m \in S : m <= Max(S)
  <2> DEFINE x == Max(S)
  <2>1. x \in S /\ \A m \in S : x >= m BY <1>5
  <2> HIDE DEF x
  <2>2. \A m \in S : m <= x BY <2>1
  <2> QED BY <2>2 DEF x
<1> QED BY <1>5, <1>6

\* The window halves as the code slices it: both are some of its lines, in order.
LEMMA HalvesInOrder ==
  ASSUME NEW n \in Nat, NEW w \in SUBSET (0..n), Cardinality(w) > 1
  PROVE  /\ LowerHalf(w) \subseteq w /\ LowerHalf(w) # {} /\ w \ LowerHalf(w) # {}
         /\ \A i \in LowerHalf(w), j \in w \ LowerHalf(w) : i < j
<1> DEFINE Below(i) == {j \in w : j < i}
           Half == Cardinality(w) \div 2
<1>0. \A j \in w : j \in Nat OBVIOUS
<1>1. IsFiniteSet(w) /\ Cardinality(w) \in Nat
  <2>1. IsFiniteSet(0..n) BY FS_Interval
  <2> QED BY <2>1, FS_Subset, FS_CardinalityType
<1>2. \A i \in w : IsFiniteSet(Below(i)) /\ Cardinality(Below(i)) \in Nat
  BY <1>1, FS_Subset, FS_CardinalityType
<1>3. Half \in Nat /\ 0 < Half /\ Half <= Cardinality(w) - 1
  <2> DEFINE c == Cardinality(w)
  <2>1. c \in Nat /\ c > 1 BY <1>1
  <2> HIDE DEF c
  <2>2. c \div 2 \in Nat /\ 0 < c \div 2 /\ c \div 2 <= c - 1 BY <2>1
  <2> QED BY <2>2 DEF c
<1>4. w # {} BY <1>1, FS_EmptySet
<1>5. Min(w) \in LowerHalf(w)
  <2>1. Min(w) \in w /\ \A m \in w : Min(w) <= m BY <1>4, Lowest
  <2> DEFINE x == Min(w)
  <2>2. x \in w /\ \A m \in w : x <= m BY <2>1
  <2> HIDE DEF x
  <2>3. Below(x) = {}
    <3> SUFFICES ASSUME NEW j \in w, j < x PROVE FALSE OBVIOUS
    <3>1. x \in Nat /\ j \in Nat /\ x <= j BY <1>0, <2>2
    <3> QED BY <3>1
  <2>4. Cardinality(Below(x)) = 0 BY <2>3, FS_EmptySet
  <2>5. x \in LowerHalf(w) BY <1>3, <2>2, <2>4 DEF LowerHalf
  <2> QED BY <2>5 DEF x
<1>6. Max(w) \in w \ LowerHalf(w)
  <2>1. Max(w) \in w /\ \A m \in w : m <= Max(w) BY <1>4, Greatest
  <2> DEFINE x == Max(w)
  <2>2. x \in w /\ \A m \in w : m <= x BY <2>1
  <2> HIDE DEF x
  <2>3. Below(x) = w \ {x}
    <3>1. \A j \in w : j < x <=> j # x
      <4> SUFFICES ASSUME NEW j \in w PROVE j < x <=> j # x OBVIOUS
      <4>1. x \in Nat /\ j \in Nat /\ j <= x BY <1>0, <2>2
      <4> QED BY <4>1
    <3> QED BY <3>1
  <2>4. Cardinality(Below(x)) = Cardinality(w) - 1 BY <1>1, <2>2, <2>3, FS_RemoveElement
  <2>5. x \notin LowerHalf(w) BY <1>1, <1>3, <2>4 DEF LowerHalf
  <2> QED BY <2>2, <2>5 DEF x
<1>7. ASSUME NEW i \in LowerHalf(w), NEW j \in w \ LowerHalf(w) PROVE i < j
  <2>1. i \in w /\ j \in w /\ Cardinality(Below(i)) < Half /\ ~(Cardinality(Below(j)) < Half)
    BY DEF LowerHalf
  <2>2. SUFFICES ASSUME ~(i < j) PROVE FALSE OBVIOUS
  <2>3. Below(j) \subseteq Below(i)
    <3> SUFFICES ASSUME NEW k \in w, k < j PROVE k < i OBVIOUS
    <3>1. i \in Nat /\ j \in Nat /\ k \in Nat BY <1>0, <2>1
    <3> QED BY <2>2, <3>1
  <2>4. Cardinality(Below(j)) <= Cardinality(Below(i)) BY <1>2, <2>1, <2>3, FS_Subset
  <2> QED BY <1>2, <1>3, <2>1, <2>4
<1> QED BY <1>5, <1>6, <1>7 DEF LowerHalf

\* A fetch takes no more than a batch.
LEMMA FetchIsABatch ==
  ASSUME NEW n \in Nat, NEW D \in SUBSET (1..n), NEW b \in Nat \ {0}
  PROVE  Cardinality({m \in D : Cardinality({k \in D : k < m}) < b}) <= b
<1> DEFINE Below(m) == {k \in D : k < m}
           taken == {m \in D : Cardinality(Below(m)) < b}
<1>0. \A m \in D : m \in Nat /\ m \in 0..n OBVIOUS
<1>1. IsFiniteSet(D)
  <2>1. IsFiniteSet(1..n) BY FS_Interval
  <2> QED BY <2>1, FS_Subset
<1>2. IsFiniteSet(taken) /\ Cardinality(taken) \in Nat BY <1>1, FS_Subset, FS_CardinalityType
<1>3. CASE taken = {}
  <2>1. Cardinality(taken) <= b
    <3> HIDE DEF taken
    <3> QED BY <1>3, FS_EmptySet
  <2> QED BY <2>1
<1>4. CASE taken # {}
  <2>1. taken \in SUBSET (0..n) BY <1>0
  <2>2. PICK x \in taken : \A m \in taken : m <= x
    <3> HIDE DEF taken
    <3> QED BY <1>4, <2>1, Greatest
  <2>3. taken \ {x} \subseteq Below(x)
    <3> SUFFICES ASSUME NEW m \in taken \ {x} PROVE m < x /\ m \in D OBVIOUS
    <3>1. m \in Nat /\ x \in Nat /\ m <= x /\ m # x BY <1>0, <2>2
    <3> QED BY <3>1
  <2>4. IsFiniteSet(Below(x)) /\ Cardinality(Below(x)) \in Nat /\ Cardinality(Below(x)) < b
    BY <1>1, FS_Subset, FS_CardinalityType
  <2>5. Cardinality(taken \ {x}) <= Cardinality(Below(x)) BY <2>3, <2>4, FS_Subset
  <2>6. Cardinality(taken \ {x}) = Cardinality(taken) - 1
    <3> HIDE DEF taken
    <3> QED BY <1>2, FS_RemoveElement
  <2>7. Cardinality(taken) <= b
    <3> HIDE DEF taken, Below
    <3> QED BY <1>2, <2>4, <2>5, <2>6
  <2> QED BY <2>7
<1> QED BY <1>3, <1>4

-----------------------------------------------------------------------------
\* What the invariants are made of.

\* The stream only grows, and so do the histories of the lines.
Grows ==
  /\ stream' \in Seq(MessageType) /\ Len(stream) <= Len(stream')
  /\ \A m \in DOMAIN stream : stream'[m] = stream[m]
  /\ noise \subseteq noise' /\ rejected \subseteq rejected'

TypedInv == IngestTypeOK /\ deaths <= faults

\* The offset and the lines behind it, and what the windows of a pass still hold.
InWindow(i) == \E k \in DOMAIN todo : i \in todo[k]

LinesInv ==
  /\ saved <= size /\ offset <= size /\ ahead <= size
  /\ ~known => saved = 0
  /\ \A i \in 1..saved : Dealt(i)
  /\ \A i \in 1..offset : Dealt(i)
  /\ pass = "window" => \A i \in (offset + 1)..ahead : Dealt(i) \/ InWindow(i)
  /\ pass # "window" => todo = <<>>
  /\ \A k \in DOMAIN todo : \A i \in todo[k] : i <= ahead
  /\ \A j, k \in DOMAIN todo : j < k => \A x \in todo[j], y \in todo[k] : x < y

\* A message is not yet sent, or its answer is on record, or each of its deliveries
\* but the one at hand was lost to a run that died.
Untraced(m) == stream[m].kind # "skip" /\ Event(m) \notin bound /\ Reasons(m) = {}
AtHand(m) == IF m \in batch THEN 1 ELSE 0

OnRecord(m) ==
  /\ outcome[m] = "acked" =>
       \/ stream[m].kind = "skip" \/ Event(m) \in bound
       \/ "conflict" \in Reasons(m) /\ OtherHash(m)
  /\ outcome[m] = "termed" => Reasons(m) \cap {"invalid", "unpublishable"} # {}

MessagesInv ==
  /\ \A m \in MessageIds \ DOMAIN stream : outcome[m] = "open" /\ count[m] = 0
  /\ answer = "stored" => Event(Msg) \in bound
  /\ answer = "conflict" => OtherHash(Msg)
  /\ \A m \in batch : ~due[m]
  /\ \A m \in DOMAIN stream : OnRecord(m)
  /\ \A m \in DOMAIN stream : Untraced(m) => count[m] <= deaths + AtHand(m)

IngestInv == TypedInv /\ LinesInv /\ MessagesInv

-----------------------------------------------------------------------------
\* The stream and what a step leaves alone.

LEMMA Parameters ==
  /\ MaxMessages \in Nat /\ MaxFaults \in Nat /\ MaxDeliver \in Nat /\ MaxDeliver > 0
  /\ Batch \in Nat \ {0} /\ MaxLines \in Nat /\ MaxLines > 0
  /\ Len(Lines) \in Nat /\ LineNos = 1..Len(Lines)
  /\ AgentMessages \subseteq MessageType
BY StreamAssumption, LinesAssumption, DeliveryAssumption, AgentAssumption DEF LineNos

LEMMA StreamFacts ==
  ASSUME TypedInv
  PROVE  /\ stream \in Seq(MessageType) /\ Len(stream) \in Nat /\ DOMAIN stream = 1..Len(stream)
         /\ DOMAIN stream \subseteq MessageIds
         /\ \A m \in DOMAIN stream : stream[m] \in MessageType
<1>1. stream \in Seq(MessageType) /\ Len(stream) <= MaxMessages
  BY DEF TypedInv, IngestTypeOK, StreamTypeOK
<1>2. Len(stream) \in Nat /\ DOMAIN stream = 1..Len(stream)
      /\ \A m \in 1..Len(stream) : stream[m] \in MessageType
  BY <1>1, LenProperties, ElementOfSeq
<1> QED BY <1>1, <1>2, Parameters DEF MessageIds

\* A message the stream takes is there then, and what was there stays.
LEMMA Appended ==
  ASSUME TypedInv, NEW x \in MessageType, Room, stream' = Append(stream, x)
  PROVE  /\ stream' \in Seq(MessageType) /\ Len(stream') = Len(stream) + 1
         /\ Len(stream') <= MaxMessages
         /\ \A m \in DOMAIN stream : m \in DOMAIN stream' /\ stream'[m] = stream[m]
         /\ \E m \in DOMAIN stream' : stream'[m] = x
<1> DEFINE s == Append(stream, x)
<1>1. /\ s \in Seq(MessageType) /\ Len(s) = Len(stream) + 1
      /\ \A i \in 1..Len(stream) : s[i] = stream[i]
      /\ s[Len(stream) + 1] = x
  BY StreamFacts, AppendProperties
<1>2. DOMAIN s = 1..(Len(stream) + 1) BY <1>1, LenProperties
<1>3. Len(stream) \in Nat /\ DOMAIN stream = 1..Len(stream) BY StreamFacts
<1> HIDE DEF s
<1>4. stream' = s BY DEF s
<1>5. Len(s) <= MaxMessages BY <1>1, <1>3, Parameters DEF Room
<1>6. Len(stream) + 1 \in DOMAIN s BY <1>2, <1>3
<1> QED BY <1>1, <1>2, <1>3, <1>4, <1>5, <1>6

LEMMA KeptThere ==
  ASSUME TypedInv, NEW x \in MessageType, Kept(x)
  PROVE  /\ stream' \in Seq(MessageType) /\ Len(stream) <= Len(stream')
         /\ Len(stream') <= MaxMessages
         /\ \A m \in DOMAIN stream : m \in DOMAIN stream' /\ stream'[m] = stream[m]
         /\ \E m \in DOMAIN stream' : stream'[m] = x
<1>1. CASE Room /\ stream' = Append(stream, x)
  <2>1. Len(stream) \in Nat BY StreamFacts
  <2> QED BY <1>1, <2>1, Appended
<1>2. CASE (\E i \in DOMAIN stream : stream[i] = x) /\ UNCHANGED stream
  <2>1. Len(stream) \in Nat /\ Len(stream) <= MaxMessages /\ stream \in Seq(MessageType)
    BY StreamFacts DEF TypedInv, IngestTypeOK, StreamTypeOK
  <2> QED BY <1>2, <2>1
<1> QED BY <1>1, <1>2 DEF Kept

\* What became of a line stays so.
LEMMA DealtForGood ==
  ASSUME TypedInv, NEW i, Dealt(i),
         \A m \in DOMAIN stream : m \in DOMAIN stream' /\ stream'[m] = stream[m],
         noise \subseteq noise', rejected \subseteq rejected', UNCHANGED seeded
  PROVE  Dealt(i)'
<1>1. CASE i <= seeded \/ Lines[i] = "blank" \/ i \in noise \cup rejected BY <1>1 DEF Dealt
<1>2. CASE \E m \in DOMAIN stream : Covers(m, i)
  <2>1. PICK m \in DOMAIN stream : Covers(m, i) BY <1>2
  <2>2. m \in DOMAIN stream' /\ Covers(m, i)' BY <2>1 DEF Covers
  <2> QED BY <2>2 DEF Dealt
<1> QED BY <1>1, <1>2 DEF Dealt

\* New messages have no history.
LEMMA StreamGrows ==
  ASSUME TypedInv, MessagesInv, UNCHANGED consumer, Len(stream') \in Nat,
         Len(stream') <= MaxMessages, DOMAIN stream' = 1..Len(stream'),
         \A m \in DOMAIN stream : m \in DOMAIN stream' /\ stream'[m] = stream[m]
  PROVE  MessagesInv'
<1> USE DEF consumer
<1>1. DOMAIN stream \subseteq MessageIds /\ DOMAIN stream' \subseteq MessageIds
  BY StreamFacts, Parameters DEF MessageIds
<1>2. batch \subseteq DOMAIN stream /\ (batch = {} => answer = "none") /\ deaths \in Nat
  BY DEF TypedInv, IngestTypeOK, ConsumerTypeOK
<1>3. \A m \in DOMAIN stream : /\ Event(m)' = Event(m) /\ OtherHash(m)' = OtherHash(m)
                               /\ Reasons(m)' = Reasons(m)
  BY DEF Event, OtherHash, Reasons
<1>4. \A m \in DOMAIN stream : OnRecord(m)' = OnRecord(m) /\ Untraced(m)' = Untraced(m)
  BY <1>3 DEF OnRecord, Untraced
<1>5. Msg' = Msg BY DEF Msg
<1>6. batch # {} => Msg \in DOMAIN stream
  <2> SUFFICES ASSUME batch # {} PROVE Msg \in batch BY <1>2
  <2>1. batch \in SUBSET Nat BY <1>2, StreamFacts
  <2> QED BY <2>1, Lowest DEF Msg
<1>7. \A m \in DOMAIN stream' \ DOMAIN stream : outcome[m] = "open" /\ count[m] = 0
  BY <1>1 DEF MessagesInv
<1>8. \A m \in MessageIds \ DOMAIN stream' : outcome'[m] = "open" /\ count'[m] = 0
  BY <1>1 DEF MessagesInv
<1>9. (answer' = "stored" => Event(Msg)' \in bound') /\ (answer' = "conflict" => OtherHash(Msg)')
  <2>1. CASE batch = {} BY <1>2, <2>1
  <2>2. CASE batch # {}
    <3>1. Event(Msg)' = Event(Msg) BY <1>3, <1>5, <1>6, <2>2 DEF Event
    <3>2. OtherHash(Msg)' = OtherHash(Msg) BY <1>3, <1>5, <1>6, <2>2 DEF OtherHash
    <3> QED BY <3>1, <3>2 DEF MessagesInv
  <2> QED BY <2>1, <2>2
<1>10. \A m \in batch' : ~due'[m] BY DEF MessagesInv
<1>11. ASSUME NEW m \in DOMAIN stream'
       PROVE  OnRecord(m)' /\ (Untraced(m)' => count'[m] <= deaths' + AtHand(m)')
  <2>1. CASE m \in DOMAIN stream BY <1>4, <2>1 DEF MessagesInv, AtHand
  <2>2. CASE m \notin DOMAIN stream
    <3>1. outcome'[m] = "open" /\ count'[m] = 0 BY <1>7, <2>2
    <3>2. deaths' + AtHand(m)' \in Nat BY <1>2 DEF AtHand
    <3> QED BY <3>1, <3>2 DEF OnRecord
  <2> QED BY <2>1, <2>2
<1> QED BY <1>8, <1>9, <1>10, <1>11 DEF MessagesInv

-----------------------------------------------------------------------------
\* The producer.

WindowSets == (SUBSET LineNos) \ {{}}

LEMMA ProducerFacts ==
  ASSUME TypedInv
  PROVE  /\ size \in 0..Len(Lines) /\ saved \in 0..Len(Lines)
         /\ seeded \in 0..Len(Lines) /\ known \in BOOLEAN
         /\ offset \in 0..Len(Lines) /\ ahead \in 0..Len(Lines)
         /\ todo \in Seq(WindowSets) /\ Len(todo) \in Nat /\ DOMAIN todo = 1..Len(todo)
         /\ \A k \in 1..Len(todo) : todo[k] \in WindowSets
         /\ noise \subseteq LineNos /\ rejected \subseteq LineNos
         /\ pass \in {"none", "window", "save"}
<1>1. todo \in Seq(WindowSets) BY DEF TypedInv, IngestTypeOK, ProducerTypeOK, WindowSets
<1>2. Len(todo) \in Nat /\ DOMAIN todo = 1..Len(todo) /\ \A k \in 1..Len(todo) : todo[k] \in WindowSets
  BY <1>1, LenProperties, ElementOfSeq
<1> QED BY <1>1, <1>2 DEF TypedInv, IngestTypeOK, ProducerTypeOK

LEMMA AtAWindow ==
  ASSUME TypedInv, pass = "window"
  PROVE  /\ Len(todo) > 0 /\ Window = todo[1]
         /\ Window \in SUBSET (0..Len(Lines)) /\ Window \in SUBSET LineNos /\ Window # {}
         /\ First \in Window /\ Last \in Window
         /\ \A i \in Window : First <= i /\ i <= Last
         /\ First \in Nat /\ Last \in Nat
         /\ Tail(todo) \in Seq(WindowSets) /\ Len(Tail(todo)) = Len(todo) - 1
         /\ DOMAIN Tail(todo) = 1..(Len(todo) - 1)
         /\ \A k \in 1..(Len(todo) - 1) : Tail(todo)[k] = todo[k + 1]
<1>1. todo # <<>> BY DEF TypedInv, IngestTypeOK, ProducerTypeOK
<1>2. todo \in Seq(WindowSets) BY ProducerFacts
<1>3. Len(todo) \in Nat /\ Len(todo) > 0 BY <1>1, <1>2, EmptySeq, LenProperties
<1>4. Window = todo[1] /\ Window \in WindowSets
  <2>1. Head(todo) = todo[1] BY <1>2, HeadTailProperties
  <2>2. todo[1] \in WindowSets BY <1>3, ProducerFacts
  <2> QED BY <2>1, <2>2 DEF Window
<1>5. Window \in SUBSET LineNos /\ Window # {} BY <1>4 DEF WindowSets
<1>6. Window \in SUBSET (0..Len(Lines)) /\ Window \in SUBSET Nat BY <1>5, Parameters
<1>7. First \in Window /\ \A i \in Window : First <= i BY <1>5, <1>6, Lowest DEF First
<1>8. Last \in Window /\ \A i \in Window : i <= Last BY <1>5, <1>6, Parameters, Greatest DEF Last
<1>9. Tail(todo) \in Seq(WindowSets) /\ Len(Tail(todo)) = Len(todo) - 1
      /\ \A k \in 1..(Len(todo) - 1) : Tail(todo)[k] = todo[k + 1]
  <2>1. Tail(todo) \in Seq(WindowSets) /\ Len(Tail(todo)) = Len(todo) - 1
    BY <1>1, <1>2, HeadTailProperties
  <2>2. \A k \in 1..Len(Tail(todo)) : Tail(todo)[k] = todo[k + 1]
    BY <1>1, <1>2, HeadTailProperties
  <2> QED BY <2>1, <2>2
<1>10. DOMAIN Tail(todo) = 1..(Len(todo) - 1) BY <1>9, LenProperties
<1> QED BY <1>3, <1>4, <1>5, <1>6, <1>7, <1>8, <1>9, <1>10

\* Moving past a window something became of.
LEMMA AdvanceLines ==
  ASSUME TypedInv, LinesInv, pass = "window", Advance,
         noise' \subseteq LineNos, rejected' \subseteq LineNos,
         \A i : Dealt(i) => Dealt(i)',
         \A i \in Window : Dealt(i)'
  PROVE  ProducerTypeOK' /\ LinesInv'
<1>1. /\ todo' = Tail(todo) /\ size' = size /\ saved' = saved /\ ahead' = ahead
      /\ known' = known /\ seeded' = seeded
      /\ offset' = IF Len(todo) = 1 THEN ahead ELSE Last
      /\ pass' = IF Len(todo) = 1 THEN "save" ELSE "window"
  BY DEF Advance, entry
<1>2. /\ size \in Nat /\ saved \in Nat /\ offset \in Nat /\ ahead \in Nat
      /\ Len(todo) \in Nat /\ DOMAIN todo = 1..Len(todo)
      /\ ahead <= size /\ saved <= size /\ size <= Len(Lines)
  BY ProducerFacts, Parameters DEF LinesInv
<1>3. Last \in Window /\ Last <= ahead /\ Last \in Nat
  <2>1. 1 \in DOMAIN todo /\ todo[1] = Window /\ Last \in Window /\ Last \in Nat BY <1>2, AtAWindow
  <2> QED BY <2>1 DEF LinesInv
<1>4. ProducerTypeOK'
  <2>1. offset' \in 0..Len(Lines) BY <1>1, <1>2, <1>3, Parameters
  <2>2. pass' = "window" => todo' # <<>>
    <3> SUFFICES ASSUME Len(todo) # 1 PROVE Tail(todo) # <<>> BY <1>1
    <3>1. Len(Tail(todo)) > 0 BY <1>2, AtAWindow
    <3> QED BY <3>1, EmptySeq
  <2>3. todo' \in Seq((SUBSET LineNos) \ {{}}) BY <1>1, AtAWindow DEF WindowSets
  <2> QED BY <1>1, <2>1, <2>2, <2>3, ProducerFacts DEF ProducerTypeOK
<1>5. saved' <= size' /\ offset' <= size' /\ ahead' <= size' BY <1>1, <1>2, <1>3
<1>6. (~known' => saved' = 0) /\ \A i \in 1..saved' : Dealt(i)' BY <1>1 DEF LinesInv
<1>7. ASSUME NEW i \in 1..ahead, ~Dealt(i)'
      PROVE  i > offset /\ i \in Nat /\ \E k \in 2..Len(todo) : i \in todo[k]
  <2>1. i \in Nat /\ i \notin 1..offset BY <1>2, <1>7 DEF LinesInv
  <2>2. i \in (offset + 1)..ahead BY <1>2, <2>1
  <2>3. PICK k \in DOMAIN todo : i \in todo[k] BY <1>7, <2>2 DEF LinesInv, InWindow
  <2>4. k # 1 BY <1>7, <2>3, AtAWindow
  <2> QED BY <1>2, <2>1, <2>2, <2>3, <2>4
<1>8. ASSUME NEW k \in 2..Len(todo), NEW i \in todo[k] PROVE ~(i <= Last)
  <2>1. 1 \in DOMAIN todo /\ k \in DOMAIN todo /\ 1 < k BY <1>2
  <2>2. Last < i BY <1>3, <1>8, <2>1, AtAWindow DEF LinesInv
  <2>3. i \in Nat
    <3>1. todo[k] \in SUBSET LineNos BY <1>2, <2>1, ProducerFacts DEF WindowSets
    <3> QED BY <1>8, <3>1, Parameters
  <2> QED BY <1>3, <2>2, <2>3
<1>9. \A i \in 1..offset' : Dealt(i)'
  <2> SUFFICES ASSUME NEW i \in 1..offset', ~Dealt(i)' PROVE FALSE OBVIOUS
  <2>1. i \in 1..ahead BY <1>1, <1>2, <1>3
  <2>2. PICK k \in 2..Len(todo) : i \in todo[k] BY <1>7, <2>1
  <2>3. Len(todo) # 1 BY <1>2
  <2> QED BY <1>1, <1>8, <2>2, <2>3
<1>10. pass' = "window" => \A i \in (offset' + 1)..ahead' : Dealt(i)' \/ InWindow(i)'
  <2> SUFFICES ASSUME NEW i \in (offset' + 1)..ahead', pass' = "window", ~Dealt(i)' PROVE InWindow(i)'
    OBVIOUS
  <2>1. i \in 1..ahead BY <1>1, <1>2, <1>3
  <2>2. PICK k \in 2..Len(todo) : i \in todo[k] BY <1>7, <2>1
  <2>3. k - 1 \in 1..(Len(todo) - 1) BY <1>2
  <2>4. (k - 1) + 1 = k BY <1>2
  <2>5. Tail(todo)[k - 1] = todo[k] /\ k - 1 \in DOMAIN Tail(todo) BY <2>3, <2>4, AtAWindow
  <2> QED BY <1>1, <2>2, <2>5 DEF InWindow
<1>11. pass' # "window" => todo' = <<>>
  <2> SUFFICES ASSUME Len(todo) = 1 PROVE Tail(todo) = <<>> BY <1>1
  <2>1. Len(Tail(todo)) = 0 BY <1>2, AtAWindow
  <2> QED BY <2>1, AtAWindow, EmptySeq
<1>12. \A k \in DOMAIN todo' : k + 1 \in DOMAIN todo /\ todo'[k] = todo[k + 1] /\ k \in Nat
  BY <1>1, <1>2, AtAWindow
<1>13. \A k \in DOMAIN todo' : \A i \in todo'[k] : i <= ahead' BY <1>1, <1>12 DEF LinesInv
<1>14. \A j, k \in DOMAIN todo' : j < k => \A x \in todo'[j], y \in todo'[k] : x < y
  <2> SUFFICES ASSUME NEW j \in DOMAIN todo', NEW k \in DOMAIN todo', j < k,
                      NEW x \in todo'[j], NEW y \in todo'[k]
               PROVE  x < y
    OBVIOUS
  <2>1. j + 1 < k + 1 BY <1>12
  <2> QED BY <1>12, <2>1 DEF LinesInv
<1> QED BY <1>4, <1>5, <1>6, <1>9, <1>10, <1>11, <1>13, <1>14 DEF LinesInv

\* A rejected window of several lines.
LEMMA SplitLines ==
  ASSUME TypedInv, LinesInv, Split, \A i : Dealt(i) => Dealt(i)'
  PROVE  ProducerTypeOK' /\ LinesInv'
<1> DEFINE A == LowerHalf(Window)
           B == Window \ LowerHalf(Window)
           t == <<A, B>> \o Tail(todo)
<1>1. /\ pass = "window" /\ Cardinality(Window) > 1 /\ todo' = t
      /\ UNCHANGED <<size, known, saved, seeded, pass, offset, ahead, noise, rejected>>
  BY DEF Split, entry
<1>2. Len(todo) \in Nat /\ DOMAIN todo = 1..Len(todo) BY ProducerFacts
<1>3. /\ A \subseteq Window /\ A # {} /\ B # {} /\ B \subseteq Window /\ A \cup B = Window
      /\ \A i \in A, j \in B : i < j
  <2>1. Window \in SUBSET (0..Len(Lines)) /\ Len(Lines) \in Nat BY <1>1, AtAWindow, Parameters
  <2>2. A \subseteq Window /\ A # {} /\ B # {} /\ \A i \in A, j \in B : i < j
    BY <1>1, <2>1, HalvesInOrder
  <2> QED BY <2>2
<1>4. A \in WindowSets /\ B \in WindowSets BY <1>1, <1>3, AtAWindow DEF WindowSets
<1> HIDE DEF A, B
<1>5. <<A, B>> \in Seq(WindowSets) /\ Len(<<A, B>>) = 2 BY <1>4
<1>6. t \in Seq(WindowSets) /\ Len(t) = Len(todo) + 1
  <2>1. Tail(todo) \in Seq(WindowSets) /\ Len(Tail(todo)) = Len(todo) - 1 BY <1>1, AtAWindow
  <2>2. t \in Seq(WindowSets) /\ Len(t) = 2 + Len(Tail(todo)) BY <1>5, <2>1, ConcatProperties
  <2> QED BY <1>2, <2>1, <2>2
<1>7. t[1] = A /\ t[2] = B /\ \A k \in 2..Len(todo) : t[k + 1] = todo[k]
  <2>1. Tail(todo) \in Seq(WindowSets) /\ Len(Tail(todo)) = Len(todo) - 1 BY <1>1, AtAWindow
  <2>2. \A i \in 1..(Len(<<A, B>>) + Len(Tail(todo))) :
          t[i] = IF i <= Len(<<A, B>>) THEN <<A, B>>[i] ELSE Tail(todo)[i - Len(<<A, B>>)]
    BY <1>5, <2>1, ConcatProperties
  <2>3. \A i \in 1..(Len(todo) + 1) : t[i] = IF i <= 2 THEN <<A, B>>[i] ELSE Tail(todo)[i - 2]
    <3> HIDE DEF t
    <3>1. 2 + (Len(todo) - 1) = Len(todo) + 1 BY <1>2
    <3> QED BY <1>5, <2>1, <2>2, <3>1
  <2> HIDE DEF t
  <2>4. Len(todo) > 0 BY <1>1, AtAWindow
  <2>5. t[1] = A /\ t[2] = B BY <1>2, <2>3, <2>4
  <2>6. ASSUME NEW k \in 2..Len(todo) PROVE t[k + 1] = todo[k]
    <3>1. k + 1 \in 1..(Len(todo) + 1) /\ ~(k + 1 <= 2) /\ (k + 1) - 2 = k - 1 BY <1>2
    <3>2. k - 1 \in 1..(Len(todo) - 1) /\ (k - 1) + 1 = k BY <1>2
    <3>3. Tail(todo)[k - 1] = todo[k] BY <1>1, <3>2, AtAWindow
    <3> QED BY <2>3, <3>1, <3>3
  <2> QED BY <2>5, <2>6
<1> HIDE DEF t
<1>8. DOMAIN t = 1..(Len(todo) + 1) BY <1>6, LenProperties
<1>9. todo[1] = Window /\ 1 \in DOMAIN todo /\ Len(todo) > 0 BY <1>1, <1>2, AtAWindow
<1>10. ASSUME NEW k \in DOMAIN t
       PROVE  \E n \in DOMAIN todo : /\ t[k] \subseteq todo[n] /\ (k <= 2 => n = 1)
                                     /\ (k > 2 => n = k - 1)
  <2>1. CASE k = 1 BY <1>3, <1>7, <1>9, <2>1
  <2>2. CASE k = 2 BY <1>3, <1>7, <1>9, <2>2
  <2>3. CASE k # 1 /\ k # 2
    <3>1. k \in Nat /\ k > 2 /\ k - 1 \in 2..Len(todo) /\ (k - 1) + 1 = k BY <1>2, <1>8, <2>3
    <3>2. t[k] = todo[k - 1] BY <1>7, <3>1
    <3> QED BY <1>2, <3>1, <3>2
  <2> QED BY <2>1, <2>2, <2>3
<1>11. ProducerTypeOK'
  <2>1. t # <<>> BY <1>6, <1>2, EmptySeq
  <2>2. t \in Seq((SUBSET LineNos) \ {{}}) BY <1>6 DEF WindowSets
  <2> QED BY <1>1, <2>1, <2>2, ProducerFacts DEF ProducerTypeOK
<1>12. \A i : InWindow(i) => InWindow(i)'
  <2> SUFFICES ASSUME NEW i, NEW n \in DOMAIN todo, i \in todo[n]
               PROVE  \E k \in DOMAIN t : i \in t[k]
    BY <1>1 DEF InWindow
  <2>1. CASE n = 1
    <3>1. i \in A \/ i \in B BY <1>3, <1>9, <2>1
    <3>2. 1 \in DOMAIN t /\ 2 \in DOMAIN t BY <1>2, <1>8, <1>9
    <3> QED BY <1>7, <3>1, <3>2
  <2>2. CASE n # 1
    <3>1. n \in 2..Len(todo) /\ n + 1 \in DOMAIN t BY <1>2, <1>8, <2>2
    <3> QED BY <1>7, <3>1
  <2> QED BY <2>1, <2>2
<1>13. \A k \in DOMAIN t : \A i \in t[k] : i <= ahead BY <1>10 DEF LinesInv
<1>14. \A j, k \in DOMAIN t : j < k => \A x \in t[j], y \in t[k] : x < y
  <2> SUFFICES ASSUME NEW j \in DOMAIN t, NEW k \in DOMAIN t, j < k, NEW x \in t[j], NEW y \in t[k]
               PROVE  x < y
    OBVIOUS
  <2>1. CASE k <= 2
    <3>1. j = 1 /\ k = 2 BY <1>2, <1>8, <2>1
    <3> QED BY <1>3, <1>7, <3>1
  <2>2. CASE k > 2
    <3>1. PICK m \in DOMAIN todo : x \in todo[m] /\ (j <= 2 => m = 1) /\ (j > 2 => m = j - 1) BY <1>10
    <3>2. PICK n \in DOMAIN todo : y \in todo[n] /\ n = k - 1 BY <1>10, <2>2
    <3>3. m < n BY <1>2, <1>8, <2>2, <3>1, <3>2
    <3> QED BY <3>1, <3>2, <3>3 DEF LinesInv
  <2> QED BY <1>2, <1>8, <2>1, <2>2
<1>15. LinesInv'
  BY <1>1, <1>12, <1>13, <1>14 DEF LinesInv
<1> QED BY <1>11, <1>15

LEMMA SummaryIsAMessage ==
  ASSUME TypedInv, pass = "window", NEW h \in Summaries
  PROVE  /\ Summary(h) \in MessageType /\ Summary(h).lane = "session"
         /\ Summary(h).source[1] = First /\ Summary(h).source[2] = Last
BY AtAWindow DEF Summary, Message, MessageType

\* Whatever a pass reads and leaves unread, it has whole lines from the saved offset on.
LEMMA ReadsOn ==
  ASSUME TypedInv, saved <= size
  PROVE  NextOffset \in saved..size
<1> DEFINE Whole(n) == /\ n <= size /\ n - saved <= MaxLines
                       /\ \A i \in saved + 1 .. n : Lines[i] # "long"
           Broken == {n \in saved..size : ~Whole(n + 1)}
<1>1. size \in Nat /\ saved \in Nat /\ MaxLines \in Nat BY ProducerFacts, Parameters
<1>2. size \in Broken /\ Broken \in SUBSET Nat BY <1>1
<1>3. PICK n \in Broken : \A m \in Broken : n <= m
  <2> HIDE DEF Broken
  <2> QED BY <1>2, LeastNat
<1>4. Whole(n)
  <2>1. CASE n = saved
    <3>1. saved + 1 .. saved = {} BY <1>1
    <3>2. saved <= size /\ saved - saved <= MaxLines BY <1>1
    <3> QED BY <2>1, <3>1, <3>2
  <2>2. CASE n # saved
    <3>1. n - 1 \in saved..size /\ (n - 1) + 1 = n BY <1>1, <2>2
    <3>2. ~(n <= n - 1) BY <1>1
    <3>3. n - 1 \notin Broken
      <4> HIDE DEF Broken
      <4> QED BY <1>3, <3>2
    <3> QED BY <3>1, <3>3
  <2> QED BY <2>1, <2>2
<1>5. n \in saved..size /\ Whole(n) /\ ~Whole(n + 1) BY <1>4
<1>6. NextOffset = CHOOSE m \in saved..size : Whole(m) /\ ~Whole(m + 1) BY DEF NextOffset
<1> HIDE DEF Whole, Broken
<1> QED BY <1>5, <1>6, Zenon

LEMMA StartLines ==
  ASSUME TypedInv, LinesInv, StartPass, \A i : Dealt(i) => Dealt(i)'
  PROVE  ProducerTypeOK' /\ LinesInv'
<1> DEFINE end == NextOffset
           records == Records(saved, end)
<1>1. /\ size \in Nat /\ saved \in Nat /\ size <= Len(Lines) /\ saved <= size
      /\ pass = "none" /\ todo = <<>> /\ Len(Lines) \in Nat
  BY ProducerFacts, Parameters DEF LinesInv, StartPass
<1>2. end \in saved..size BY <1>1, ReadsOn
<1>3. /\ ahead' = end /\ UNCHANGED <<size, known, saved, seeded, noise, rejected>>
      /\ \/ records = {} /\ pass' = "save" /\ offset' = end /\ todo' = todo
         \/ records # {} /\ pass' = "window" /\ todo' = <<records>> /\ offset' = saved
  BY DEF StartPass, entry
<1>4. \A i \in (saved + 1)..end : i \in records \/ Dealt(i)' BY DEF Records, Dealt
<1>5. records \in SUBSET LineNos /\ \A i \in records : i <= end
  <2>1. records \subseteq (saved + 1)..end BY DEF Records
  <2> HIDE DEF records, end
  <2> QED BY <1>1, <1>2, <2>1, Parameters
<1>6. \A i \in 1..saved : Dealt(i)' BY DEF LinesInv
<1> HIDE DEF end, records
<1>7. /\ saved' <= size' /\ offset' <= size' /\ ahead' <= size' /\ \A i \in 1..saved' : Dealt(i)'
      /\ ~known' => saved' = 0
  BY <1>1, <1>2, <1>3, <1>6 DEF LinesInv
<1>8. CASE records = {} /\ pass' = "save" /\ offset' = end /\ todo' = todo
  <2>1. \A i \in 1..offset' : Dealt(i)'
    <3> SUFFICES ASSUME NEW i \in 1..end PROVE Dealt(i)' BY <1>8
    <3>1. i \in 1..saved \/ i \in (saved + 1)..end BY <1>1, <1>2
    <3> QED BY <1>4, <1>6, <1>8, <3>1
  <2>2. ProducerTypeOK'
    BY <1>1, <1>2, <1>3, <1>8, ProducerFacts DEF ProducerTypeOK, WindowSets
  <2>3. DOMAIN todo' = {} BY <1>1, <1>8
  <2> QED BY <1>1, <1>7, <1>8, <2>1, <2>2, <2>3 DEF LinesInv
<1>9. CASE records # {} /\ pass' = "window" /\ todo' = <<records>> /\ offset' = saved
  <2>1. ProducerTypeOK'
    <3>1. <<records>> \in Seq((SUBSET LineNos) \ {{}}) BY <1>5, <1>9
    <3>2. <<records>> # <<>> OBVIOUS
    <3> QED BY <1>1, <1>2, <1>3, <1>9, <3>1, <3>2, ProducerFacts DEF ProducerTypeOK
  <2>2. DOMAIN todo' = {1} /\ todo'[1] = records BY <1>9
  <2>3. \A i \in (offset' + 1)..ahead' : Dealt(i)' \/ InWindow(i)'
    BY <1>3, <1>4, <1>9, <2>2 DEF InWindow
  <2>4. \A j, k \in DOMAIN todo' : ~(j < k) BY <2>2
  <2>5. \A k \in DOMAIN todo' : \A i \in todo'[k] : i <= ahead' BY <1>3, <1>5, <2>2
  <2>6. \A i \in 1..offset' : Dealt(i)' BY <1>6, <1>9
  <2> QED BY <1>7, <1>9, <2>1, <2>3, <2>4, <2>5, <2>6 DEF LinesInv
<1> QED BY <1>3, <1>8, <1>9

\* A step that leaves no pass, or only a pass to be saved.
LEMMA NoPass ==
  ASSUME TypedInv, LinesInv,
         size' \in 0..Len(Lines), size <= size', noise' \subseteq LineNos, rejected' \subseteq LineNos,
         known' \in BOOLEAN, seeded' \in 0..Len(Lines), ~known' => saved' = 0,
         saved' \in {saved, offset}, offset' \in {0, offset, size}, ahead' \in {0, ahead},
         \A i \in 1..saved' : Dealt(i)', \A i \in 1..offset' : Dealt(i)',
         pass' \in {"none", "save"}, todo' = <<>>
  PROVE  ProducerTypeOK' /\ LinesInv'
<1>1. /\ size \in Nat /\ saved \in Nat /\ offset \in Nat /\ ahead \in Nat /\ Len(Lines) \in Nat
      /\ saved <= size /\ offset <= size /\ ahead <= size
  BY ProducerFacts, Parameters DEF LinesInv
<1>2. size' \in Nat BY <1>1
<1>3. saved' <= size' /\ offset' <= size' /\ ahead' <= size' BY <1>1, <1>2
<1>4. saved' \in 0..Len(Lines) /\ offset' \in 0..Len(Lines) /\ ahead' \in 0..Len(Lines)
  BY <1>1, ProducerFacts
<1>5. todo' \in Seq((SUBSET LineNos) \ {{}}) /\ DOMAIN todo' = {} BY EmptySeq
<1>6. ProducerTypeOK' BY <1>4, <1>5 DEF ProducerTypeOK
<1> QED BY <1>3, <1>5, <1>6 DEF LinesInv

\* One that leaves alone what was passed with a new file.
LEMMA PassOver ==
  ASSUME TypedInv, LinesInv, \A i : Dealt(i) => Dealt(i)',
         UNCHANGED <<size, seeded>>, noise' \subseteq LineNos, rejected' \subseteq LineNos,
         known' \in BOOLEAN, ~known' => saved' = 0,
         saved' \in {saved, offset}, offset' \in {0, offset}, ahead' \in {0, ahead},
         pass' \in {"none", "save"}, todo' = <<>>
  PROVE  ProducerTypeOK' /\ LinesInv'
<1>1. (\A i \in 1..saved' : Dealt(i)') /\ \A i \in 1..offset' : Dealt(i)'
  <2>1. (\A i \in 1..saved : Dealt(i)') /\ \A i \in 1..offset : Dealt(i)' BY DEF LinesInv
  <2>2. \A i \in 1..0 : FALSE OBVIOUS
  <2> QED BY <2>1, <2>2
<1>2. size' \in 0..Len(Lines) /\ size <= size' /\ seeded' \in 0..Len(Lines)
  BY ProducerFacts, Parameters
<1> QED BY <1>1, <1>2, NoPass

\* What the stream gets from a step, and what became of the lines stays.
StreamOf ==
  /\ stream' \in Seq(MessageType) /\ Len(stream) <= Len(stream') /\ Len(stream') <= MaxMessages
  /\ \A m \in DOMAIN stream : m \in DOMAIN stream' /\ stream'[m] = stream[m]

LEMMA SameStream ==
  ASSUME TypedInv, UNCHANGED stream
  PROVE  StreamOf
<1>1. Len(stream) \in Nat /\ Len(stream) <= MaxMessages /\ stream \in Seq(MessageType)
  BY StreamFacts DEF TypedInv, IngestTypeOK, StreamTypeOK
<1> QED BY <1>1 DEF StreamOf

LEMMA ProducerKeeps ==
  ASSUME IngestInv, ProducerNext
  PROVE  /\ StreamOf /\ (UNCHANGED faults \/ Fault)
         /\ ProducerTypeOK' /\ LinesInv'
<1> USE DEF IngestInv
<1>0. /\ known \in BOOLEAN /\ seeded \in 0..Len(Lines) /\ (~known => saved = 0)
  BY ProducerFacts DEF LinesInv
<1>1. size \in 0..Len(Lines) /\ saved \in 0..Len(Lines) /\ offset \in 0..Len(Lines)
      /\ noise \subseteq LineNos /\ rejected \subseteq LineNos /\ Len(Lines) \in Nat /\ size \in Nat
  BY ProducerFacts, Parameters
<1>2. ASSUME StreamOf, noise \subseteq noise', rejected \subseteq rejected', UNCHANGED seeded,
             NEW i, Dealt(i)
      PROVE  Dealt(i)'
  BY <1>2, DealtForGood DEF StreamOf
<1>12. CASE Seed
  <2>1. /\ pass = "none" /\ ~known /\ pass' = "save" /\ offset' = size /\ seeded' = size
        /\ UNCHANGED <<size, known, saved, ahead, todo, noise, rejected, stream, faults>>
    BY <1>12 DEF Seed
  <2>2. StreamOf BY <2>1, SameStream
  <2>3. \A i \in 1..offset' : Dealt(i)' BY <1>1, <2>1 DEF Dealt
  <2>4. \A i \in 1..saved' : Dealt(i)'
    <3>1. saved' = 0 BY <1>0, <2>1
    <3>2. \A i \in 1..0 : FALSE OBVIOUS
    <3> QED BY <3>1, <3>2
  <2>5. size' \in 0..Len(Lines) /\ size <= size' /\ todo' = <<>> BY <1>1, <2>1 DEF LinesInv
  <2>6. /\ noise' \subseteq LineNos /\ rejected' \subseteq LineNos
        /\ known' \in BOOLEAN /\ seeded' \in 0..Len(Lines) /\ (~known' => saved' = 0)
        /\ saved' \in {saved, offset} /\ offset' \in {0, offset, size} /\ ahead' \in {0, ahead}
        /\ pass' \in {"none", "save"}
    BY <1>0, <1>1, <2>1
  <2>7. ProducerTypeOK' /\ LinesInv' BY <2>3, <2>4, <2>5, <2>6, NoPass
  <2> QED BY <2>1, <2>2, <2>7
<1>3. CASE StartPass
  <2>1. StreamOf /\ UNCHANGED <<faults, noise, rejected, seeded>>
    BY <1>3, SameStream DEF StartPass, entry
  <2> QED BY <1>2, <1>3, <2>1, StartLines
<1>4. CASE IsNoise
  <2>1. pass = "window" /\ Advance /\ noise' = noise \cup Window
        /\ UNCHANGED <<rejected, stream, faults, seeded>>
    BY <1>4 DEF IsNoise, Advance, entry
  <2>2. StreamOf BY <2>1, SameStream
  <2>3. \A i \in Window : Dealt(i)' BY <2>1 DEF Dealt
  <2>4. noise' \subseteq LineNos BY <1>1, <2>1, AtAWindow
  <2> QED BY <1>1, <1>2, <2>1, <2>2, <2>3, <2>4, AdvanceLines
<1>5. CASE Split
  <2>1. StreamOf /\ UNCHANGED <<faults, noise, rejected, seeded>>
    BY <1>5, SameStream DEF Split, entry
  <2> QED BY <1>2, <1>5, <2>1, SplitLines
<1>6. CASE Reject
  <2>1. pass = "window" /\ Cardinality(Window) = 1 /\ Advance /\ rejected' = rejected \cup {First}
        /\ UNCHANGED <<noise, stream, faults, seeded>>
    BY <1>6 DEF Reject, Advance, entry
  <2>2. StreamOf BY <2>1, SameStream
  <2>3. First \in Window /\ Window \subseteq LineNos BY <2>1, AtAWindow
  <2>4. Window = {First}
    <3>1. IsFiniteSet(Window)
      <4>1. Window \in SUBSET (0..Len(Lines)) /\ IsFiniteSet(0..Len(Lines))
        BY <1>1, <2>1, AtAWindow, FS_Interval
      <4> QED BY <4>1, FS_Subset
    <3>2. \E x : Window = {x} BY <2>1, <3>1, FS_Singleton
    <3> QED BY <2>3, <3>2
  <2>5. \A i \in Window : Dealt(i)'
    <3>1. First \in rejected' BY <2>1
    <3>2. \A i \in Window : i = First BY <2>4
    <3> QED BY <3>1, <3>2 DEF Dealt
  <2>6. rejected' \subseteq LineNos BY <1>1, <2>1, <2>3
  <2> QED BY <1>1, <1>2, <2>1, <2>2, <2>5, <2>6, AdvanceLines
<1>7. CASE SaveOffsets
  <2>1. /\ pass = "save" /\ saved' = offset /\ pass' = "none" /\ offset' = 0 /\ ahead' = 0
        /\ known' = TRUE /\ UNCHANGED <<size, seeded, todo, noise, rejected, stream, faults>>
    BY <1>7 DEF SaveOffsets
  <2>2. StreamOf BY <2>1, SameStream
  <2>3. todo' = <<>> BY <2>1 DEF LinesInv
  <2> QED BY <1>1, <1>2, <2>1, <2>2, <2>3, PassOver
<1>8. ASSUME NEW h \in Summaries, Publish(h)
      PROVE  /\ StreamOf /\ (UNCHANGED faults \/ Fault) /\ ProducerTypeOK' /\ LinesInv'
  <2>1. pass = "window" /\ Kept(Summary(h)) /\ Advance
        /\ UNCHANGED <<noise, rejected, faults, seeded>>
    BY <1>8 DEF Publish, Advance, entry
  <2>2. Summary(h) \in MessageType BY <2>1, SummaryIsAMessage
  <2>3. StreamOf BY <2>1, <2>2, KeptThere DEF StreamOf
  <2>4. PICK m \in DOMAIN stream' : stream'[m] = Summary(h) BY <2>1, <2>2, KeptThere
  <2>5. ASSUME NEW i \in Window PROVE Dealt(i)'
    <3>1. stream'[m].lane = "session" /\ stream'[m].source[1] = First /\ stream'[m].source[2] = Last
      BY <2>1, <2>4, SummaryIsAMessage
    <3>2. First <= i /\ i <= Last BY <2>1, AtAWindow
    <3>3. Covers(m, i)' BY <3>1, <3>2 DEF Covers
    <3> QED BY <3>3 DEF Dealt
  <2> QED BY <1>1, <1>2, <2>1, <2>3, <2>5, AdvanceLines
<1>9. CASE AppendLine
  <2>1. /\ size < Len(Lines) /\ size' = size + 1
        /\ UNCHANGED <<known, saved, seeded, pass, offset, ahead, todo, noise, rejected, stream,
                       faults>>
    BY <1>9 DEF AppendLine, entry
  <2>2. StreamOf BY <2>1, SameStream
  <2>3. \A i : Dealt(i) => Dealt(i)' BY <1>2, <2>1, <2>2
  <2>4. ProducerTypeOK'
    BY <1>1, <2>1, ProducerFacts DEF ProducerTypeOK, TypedInv, IngestTypeOK, WindowSets
  <2>5. saved' <= size' /\ offset' <= size' /\ ahead' <= size'
    BY <1>1, <2>1, ProducerFacts DEF LinesInv
  <2>6. LinesInv' BY <2>1, <2>3, <2>5 DEF LinesInv, InWindow
  <2> QED BY <2>1, <2>2, <2>4, <2>6
<1>10. CASE PassDies
  <2>1. /\ Fault /\ pass' = "none" /\ offset' = 0 /\ ahead' = 0 /\ todo' = <<>>
        /\ seeded' = IF known THEN seeded ELSE 0
        /\ UNCHANGED <<size, known, saved, noise, rejected, stream>>
    BY <1>10 DEF PassDies
  <2>2. StreamOf BY <2>1, SameStream
  <2>3. CASE known BY <1>0, <1>1, <1>2, <2>1, <2>2, <2>3, PassOver
  <2>4. CASE ~known
    <3>1. /\ saved' = 0 /\ offset' = 0 /\ size' \in 0..Len(Lines) /\ size <= size'
          /\ noise' \subseteq LineNos /\ rejected' \subseteq LineNos
          /\ known' \in BOOLEAN /\ seeded' \in 0..Len(Lines) /\ (~known' => saved' = 0)
          /\ saved' \in {saved, offset} /\ offset' \in {0, offset, size} /\ ahead' \in {0, ahead}
          /\ pass' \in {"none", "save"} /\ todo' = <<>>
      <4>1. 0 \in 0..Len(Lines) /\ size <= size BY <1>1
      <4> QED BY <1>0, <1>1, <2>1, <2>4, <4>1
    <3>2. (\A i \in 1..saved' : Dealt(i)') /\ \A i \in 1..offset' : Dealt(i)'
      <4>1. \A i \in 1..0 : FALSE OBVIOUS
      <4> QED BY <3>1, <4>1
    <3>3. ProducerTypeOK' /\ LinesInv' BY <3>1, <3>2, NoPass
    <3> QED BY <2>1, <2>2, <3>3
  <2> QED BY <2>3, <2>4
<1>11. ASSUME NEW h \in Summaries, PublishFails(h)
       PROVE  /\ StreamOf /\ (UNCHANGED faults \/ Fault) /\ ProducerTypeOK' /\ LinesInv'
  <2>1. /\ pass = "window" /\ Fault /\ (UNCHANGED stream \/ Kept(Summary(h)))
        /\ pass' = "save" /\ todo' = <<>>
        /\ UNCHANGED <<size, known, saved, seeded, offset, ahead, noise, rejected>>
    BY <1>11 DEF PublishFails, FileError, entry
  <2>2. StreamOf
    <3>1. Summary(h) \in MessageType BY <2>1, SummaryIsAMessage
    <3> QED BY <2>1, <3>1, SameStream, KeptThere DEF StreamOf
  <2> QED BY <1>0, <1>1, <1>2, <2>1, <2>2, PassOver
<1> QED
  BY <1>3, <1>4, <1>5, <1>6, <1>7, <1>8, <1>9, <1>10, <1>11, <1>12 DEF ProducerNext, Produce

-----------------------------------------------------------------------------
\* The consumer.

EventsOf == {"session", "a2a"} \X (Nat \X Nat) \X Summaries
Reason == {"invalid", "held", "unpublishable", "conflict"}

LEMMA ConsumerFacts ==
  ASSUME TypedInv
  PROVE  /\ outcome \in [MessageIds -> {"open", "acked", "termed"}]
         /\ count \in [MessageIds -> 0..MaxDeliver] /\ due \in [MessageIds -> BOOLEAN]
         /\ lane \in 0..2 /\ batch \subseteq DOMAIN stream /\ batch \subseteq MessageIds
         /\ IsFiniteSet(batch) /\ Cardinality(batch) \in Nat /\ Cardinality(batch) <= Batch
         /\ answer \in {"none", "stored", "conflict", "transient", "permanent"}
         /\ bound \subseteq EventsOf /\ rows \subseteq MessageIds \X Reason
         /\ deaths \in Nat /\ faults \in Nat /\ deaths <= faults /\ faults <= MaxFaults
         /\ (lane = 0 => batch = {}) /\ (batch = {} => answer = "none")
<1>1. ConsumerTypeOK /\ faults \in 0..MaxFaults /\ deaths <= faults
  BY DEF TypedInv, IngestTypeOK, StreamTypeOK
<1>2. batch \subseteq 1..Len(stream) /\ Len(stream) \in Nat
  BY <1>1, StreamFacts DEF ConsumerTypeOK
<1>3. IsFiniteSet(1..Len(stream)) BY <1>2, FS_Interval
<1>4. IsFiniteSet(batch) /\ Cardinality(batch) \in Nat BY <1>2, <1>3, FS_Subset, FS_CardinalityType
<1>5. batch \subseteq MessageIds BY <1>1, StreamFacts DEF ConsumerTypeOK
<1> QED BY <1>1, <1>4, <1>5, Parameters DEF ConsumerTypeOK, EventsOf, Reason

LEMMA OldestOfBatch ==
  ASSUME TypedInv, batch # {}
  PROVE  /\ Msg \in batch /\ Msg \in DOMAIN stream /\ Msg \in MessageIds
         /\ Event(Msg) \in EventsOf
<1>1. batch \subseteq DOMAIN stream /\ batch \subseteq MessageIds /\ batch \in SUBSET Nat
  BY ConsumerFacts, Parameters DEF MessageIds
<1>2. Msg \in batch BY <1>1, Lowest DEF Msg
<1>3. stream[Msg] \in MessageType BY <1>1, <1>2, StreamFacts
<1>4. Event(Msg) \in EventsOf BY <1>3 DEF MessageType, Event, EventsOf
<1> QED BY <1>1, <1>2, <1>4

\* What is bound stays bound, what is noted stays noted.
LEMMA TraceForGood ==
  ASSUME UNCHANGED stream, bound \subseteq bound', rows \subseteq rows', NEW m
  PROVE  /\ Event(m)' = Event(m) /\ (OtherHash(m) => OtherHash(m)')
         /\ Reasons(m) \subseteq Reasons(m)' /\ (Untraced(m)' => Untraced(m))
         /\ (OnRecord(m) /\ outcome'[m] = outcome[m] => OnRecord(m)')
<1>1. Event(m)' = Event(m) /\ (OtherHash(m) => OtherHash(m)') BY DEF Event, OtherHash
<1>2. Reasons(m) \subseteq Reasons(m)' BY DEF Reasons
<1>3. Untraced(m)' => Untraced(m) BY <1>1, <1>2 DEF Untraced
<1> QED BY <1>1, <1>2, <1>3 DEF OnRecord

\* The gate binds an event of the first payload it is told of.
LEMMA BindFacts ==
  ASSUME TypedInv, batch # {}, UNCHANGED stream, Bind
  PROVE  /\ bound \subseteq bound' /\ bound' \subseteq EventsOf
         /\ (Classified = "stored" => Event(Msg) \in bound')
         /\ (Classified = "conflict" => OtherHash(Msg))
         /\ Classified \in {"stored", "conflict"}
BY OldestOfBatch, ConsumerFacts DEF Bind, Classified

LEMMA TypedStep ==
  ASSUME TypedInv, UNCHANGED <<producer, stream>>,
         faults' \in 0..MaxFaults, deaths' <= faults', ConsumerTypeOK'
  PROVE  TypedInv'
BY DEF TypedInv, IngestTypeOK, StreamTypeOK, ProducerTypeOK, producer, entry

\* A run gets its messages: one more delivery of each, which is the one at hand.
LEMMA FetchKeeps ==
  ASSUME IngestInv, NEW l \in 1..2, batch = {}, Fetch(l),
         UNCHANGED <<outcome, answer, bound, rows, deaths, stream, faults>>
  PROVE  ConsumerTypeOK' /\ MessagesInv'
<1> DEFINE taken == {m \in Deliverable(l) : Cardinality({n \in Deliverable(l) : n < m}) < Batch}
<1> USE DEF IngestInv
<1>1. /\ lane' = l /\ batch' = taken
      /\ count' = [m \in MessageIds |-> IF m \in taken THEN count[m] + 1 ELSE count[m]]
      /\ due' = [m \in MessageIds |-> due[m] /\ m \notin taken]
  BY DEF Fetch
<1>2. Deliverable(l) \subseteq DOMAIN stream /\ taken \subseteq Deliverable(l) BY DEF Deliverable
<1>3. Cardinality(taken) <= Batch
  <2>1. Len(stream) \in Nat /\ Deliverable(l) \in SUBSET (1..Len(stream)) BY <1>2, StreamFacts
  <2> QED BY <2>1, FetchIsABatch, Parameters
<1>4. \A m \in taken : m \in DOMAIN stream /\ m \in MessageIds /\ count[m] < MaxDeliver
  BY <1>2, StreamFacts DEF Deliverable
<1> HIDE DEF taken
<1>5. count' \in [MessageIds -> 0..MaxDeliver]
  <2> SUFFICES ASSUME NEW m \in MessageIds
               PROVE  (IF m \in taken THEN count[m] + 1 ELSE count[m]) \in 0..MaxDeliver
    BY <1>1
  <2>1. count[m] \in 0..MaxDeliver BY ConsumerFacts
  <2> QED BY <1>4, <2>1, Parameters
<1>6. due' \in [MessageIds -> BOOLEAN] BY <1>1, ConsumerFacts
<1>7. answer = "none" BY ConsumerFacts
<1>8. ConsumerTypeOK'
  <2>1. batch' \subseteq DOMAIN stream' BY <1>1, <1>4
  <2>2. lane' \in 0..2 /\ lane' # 0 BY <1>1
  <2>3. deaths \in 0..MaxFaults BY ConsumerFacts, Parameters
  <2> QED BY <1>1, <1>3, <1>5, <1>6, <1>7, <2>1, <2>2, <2>3, ConsumerFacts
          DEF ConsumerTypeOK, EventsOf, Reason
<1>9. \A m \in DOMAIN stream : /\ OnRecord(m)' /\ (Untraced(m)' => Untraced(m))
  BY TraceForGood DEF MessagesInv
<1>10. ASSUME NEW m \in DOMAIN stream, Untraced(m)'
       PROVE  count'[m] <= deaths' + AtHand(m)'
  <2>1. m \in MessageIds /\ count[m] \in Nat /\ deaths \in Nat BY StreamFacts, ConsumerFacts
  <2>2. count[m] <= deaths BY <1>9, <1>10, <2>1 DEF MessagesInv, AtHand
  <2> QED BY <1>1, <2>1, <2>2 DEF AtHand
<1>11. \A m \in MessageIds \ DOMAIN stream : outcome'[m] = "open" /\ count'[m] = 0
  BY <1>1, <1>4 DEF MessagesInv
<1>12. \A m \in batch' : ~due'[m] BY <1>1, <1>4
<1> QED BY <1>7, <1>8, <1>9, <1>10, <1>11, <1>12 DEF MessagesInv

\* JetStream is told of the oldest message of a batch, whether or not it hears.
LEMMA TellKeeps ==
  ASSUME IngestInv, batch # {}, NEW x, x = Msg, NEW word \in {"open", "acked", "termed"}, Tell(word),
         rows \subseteq rows', rows' \subseteq MessageIds \X Reason,
         \/ stream[x].kind = "skip" \/ Event(x) \in bound \/ Reasons(x)' # {},
         word = "acked" => \/ stream[x].kind = "skip" \/ Event(x) \in bound
                           \/ "conflict" \in Reasons(x)' /\ OtherHash(x),
         word = "termed" => Reasons(x)' \cap {"invalid", "unpublishable"} # {}
  PROVE  ConsumerTypeOK' /\ MessagesInv' /\ (UNCHANGED faults \/ Fault)
<1> USE DEF IngestInv
<1>1. /\ batch' = batch \ {x} /\ answer' = "none"
      /\ UNCHANGED <<count, due, lane, bound, deaths, stream>>
      /\ (UNCHANGED faults \/ Fault)
      /\ outcome' = [outcome EXCEPT ![x] = word] \/ outcome' = outcome
  BY DEF Tell
<1>2. x \in batch /\ x \in DOMAIN stream /\ x \in MessageIds BY OldestOfBatch
<1>3. outcome' \in [MessageIds -> {"open", "acked", "termed"}]
      /\ \A m \in MessageIds : m # x => outcome'[m] = outcome[m]
  BY <1>1, <1>2, ConsumerFacts
<1>4. ConsumerTypeOK'
  <2>1. batch' \subseteq batch /\ Cardinality(batch') <= Batch
    <3>1. Cardinality(batch \ {x}) = Cardinality(batch) - 1 BY <1>2, ConsumerFacts, FS_RemoveElement
    <3> QED BY <1>1, <3>1, ConsumerFacts, Parameters
  <2>2. deaths \in 0..MaxFaults BY ConsumerFacts, Parameters
  <2> QED BY <1>1, <1>3, <2>1, <2>2, ConsumerFacts DEF ConsumerTypeOK, EventsOf, Reason
<1>5. \A m : /\ Event(m)' = Event(m) /\ (OtherHash(m) => OtherHash(m)')
             /\ (Untraced(m)' => Untraced(m))
             /\ (OnRecord(m) /\ outcome'[m] = outcome[m] => OnRecord(m)')
  BY <1>1, TraceForGood
<1>6. ~Untraced(x)' BY <1>1, <1>5 DEF Untraced
<1>7. OnRecord(x)'
  <2>1. CASE outcome' = outcome BY <1>2, <1>5, <2>1 DEF MessagesInv
  <2>2. CASE outcome' = [outcome EXCEPT ![x] = word]
    <3>1. outcome'[x] = word BY <1>2, <2>2, ConsumerFacts
    <3> QED BY <1>1, <1>5, <3>1 DEF OnRecord
  <2> QED BY <1>1, <2>1, <2>2
<1>8. ASSUME NEW m \in DOMAIN stream
      PROVE  OnRecord(m)' /\ (Untraced(m)' => count'[m] <= deaths' + AtHand(m)')
  <2>1. CASE m = x BY <1>6, <1>7, <2>1
  <2>2. CASE m # x
    <3>1. m \in MessageIds BY StreamFacts
    <3>2. OnRecord(m)' BY <1>3, <1>5, <2>2, <3>1 DEF MessagesInv
    <3>3. AtHand(m)' = AtHand(m) BY <1>1, <2>2 DEF AtHand
    <3> QED BY <1>1, <1>5, <3>2, <3>3 DEF MessagesInv
  <2> QED BY <2>1, <2>2
<1>9. \A m \in MessageIds \ DOMAIN stream : outcome'[m] = "open" /\ count'[m] = 0
  <2>1. \A m \in MessageIds \ DOMAIN stream : m # x BY <1>2
  <2> QED BY <1>1, <1>3, <2>1 DEF MessagesInv
<1>10. \A m \in batch' : ~due'[m] BY <1>1 DEF MessagesInv
<1> QED BY <1>1, <1>4, <1>8, <1>9, <1>10 DEF MessagesInv

\* The gate answers, or does not.
LEMMA GateKeeps ==
  ASSUME IngestInv, batch # {}, answer = "none",
         NEW said \in {"stored", "conflict", "transient", "permanent"}, GateAnswers(said),
         bound \subseteq bound', bound' \subseteq EventsOf,
         said = "stored" => Event(Msg) \in bound', said = "conflict" => OtherHash(Msg)
  PROVE  ConsumerTypeOK' /\ MessagesInv'
<1> USE DEF IngestInv
<1>1. answer' = said /\ UNCHANGED <<outcome, count, due, lane, batch, rows, deaths, stream>>
  BY DEF GateAnswers
<1>2. ConsumerTypeOK'
  <2>1. deaths \in 0..MaxFaults BY ConsumerFacts, Parameters
  <2> QED BY <1>1, <2>1, ConsumerFacts DEF ConsumerTypeOK, EventsOf, Reason
<1>3. \A m : /\ Event(m)' = Event(m) /\ (OtherHash(m) => OtherHash(m)')
             /\ (Untraced(m)' => Untraced(m)) /\ (OnRecord(m) => OnRecord(m)')
  BY <1>1, TraceForGood
<1>4. Msg' = Msg BY <1>1 DEF Msg
<1>5. (answer' = "stored" => Event(Msg)' \in bound') /\ (answer' = "conflict" => OtherHash(Msg)')
  BY <1>1, <1>3, <1>4 DEF Event, OtherHash
<1>6. \A m \in DOMAIN stream : AtHand(m)' = AtHand(m) BY <1>1 DEF AtHand
<1> QED BY <1>1, <1>2, <1>3, <1>5, <1>6 DEF MessagesInv

\* A run that dies: the deliveries it had at hand are spent on it.
LEMMA DeathKeeps ==
  ASSUME IngestInv, RunDies
  PROVE  ConsumerTypeOK' /\ MessagesInv' /\ deaths' = deaths + 1
<1> USE DEF IngestInv
<1>1. /\ lane' = 0 /\ batch' = {} /\ answer' = "none" /\ deaths' = deaths + 1 /\ Fault
      /\ UNCHANGED <<outcome, count, due, rows, stream>>
      /\ UNCHANGED bound \/ (batch # {} /\ Bind)
  BY DEF RunDies
<1>2. bound \subseteq bound' /\ bound' \subseteq EventsOf BY <1>1, BindFacts, ConsumerFacts
<1>3. ConsumerTypeOK'
  <2>1. deaths' \in 0..MaxFaults BY <1>1, ConsumerFacts, Parameters DEF Fault
  <2>2. Cardinality(batch') <= Batch BY <1>1, FS_EmptySet, Parameters
  <2> QED BY <1>1, <1>2, <2>1, <2>2, ConsumerFacts DEF ConsumerTypeOK, EventsOf, Reason
<1>4. \A m : (Untraced(m)' => Untraced(m)) /\ (OnRecord(m) => OnRecord(m)')
  BY <1>1, <1>2, TraceForGood
<1>5. ASSUME NEW m \in DOMAIN stream, Untraced(m)' PROVE count'[m] <= deaths' + AtHand(m)'
  <2>1. m \in MessageIds /\ count[m] \in Nat /\ deaths \in Nat BY StreamFacts, ConsumerFacts
  <2>2. count[m] <= deaths + AtHand(m) BY <1>4, <1>5 DEF MessagesInv
  <2> QED BY <1>1, <2>1, <2>2 DEF AtHand
<1> QED BY <1>1, <1>3, <1>4, <1>5 DEF MessagesInv

LEMMA DueKeeps ==
  ASSUME IngestInv, NEW d \in MessageIds, Due(d)
  PROVE  ConsumerTypeOK' /\ MessagesInv' /\ UNCHANGED <<faults, deaths>>
<1> USE DEF IngestInv
<1>1. /\ d \notin batch /\ due' = [due EXCEPT ![d] = TRUE]
      /\ UNCHANGED <<outcome, count, lane, batch, answer, bound, rows, deaths, stream, faults>>
  BY DEF Due
<1>2. ConsumerTypeOK' BY <1>1 DEF TypedInv, IngestTypeOK, ConsumerTypeOK
<1>3. \A m : (Untraced(m)' => Untraced(m)) /\ (OnRecord(m) => OnRecord(m)')
  BY <1>1, TraceForGood
<1>4. Msg' = Msg BY <1>1 DEF Msg
<1>5. Event(Msg)' = Event(Msg) /\ OtherHash(Msg)' = OtherHash(Msg)
  BY <1>1, <1>4 DEF Event, OtherHash
<1>6. \A m \in batch' : ~due'[m]
  <2>1. batch \subseteq MessageIds BY ConsumerFacts
  <2> QED BY <1>1, <2>1, ConsumerFacts DEF MessagesInv
<1>7. \A m \in DOMAIN stream : AtHand(m)' = AtHand(m) BY <1>1 DEF AtHand
<1> QED BY <1>1, <1>2, <1>3, <1>5, <1>6, <1>7 DEF MessagesInv

\* The first message of a batch is handled.
LEMMA HandleKeeps ==
  ASSUME IngestInv, Handle
  PROVE  ConsumerTypeOK' /\ MessagesInv' /\ (UNCHANGED faults \/ Fault) /\ UNCHANGED <<deaths, stream>>
<1> USE DEF IngestInv
<1>1. batch # {} BY ConsumerFacts
  DEF Handle, Invalid, Skip, Stored, Conflict, SendBack, Terminate, Unasked
<1>2. Msg \in MessageIds /\ rows \subseteq MessageIds \X Reason BY <1>1, OldestOfBatch, ConsumerFacts
<1>3. UNCHANGED <<deaths, stream>>
  BY DEF Handle, Invalid, Skip, Stored, Conflict, SendBack, Terminate, Tell
<1>4. ASSUME NEW reason \in Reason, Note(reason), NEW x, x = Msg
      PROVE  /\ rows \subseteq rows' /\ rows' \subseteq MessageIds \X Reason
             /\ reason \in Reasons(x)'
  <2>1. rows' = rows \cup {<<x, reason>>} BY <1>4 DEF Note
  <2>2. <<x, reason>> \in rows' /\ <<x, reason>>[1] = x /\ <<x, reason>>[2] = reason BY <2>1
  <2> QED BY <1>2, <1>4, <2>1, <2>2 DEF Reasons
<1>5. PICK x : x = Msg OBVIOUS
<1>6. CASE Invalid
  <2>1. Note("invalid") /\ Tell("termed") BY <1>6 DEF Invalid
  <2> QED BY <1>1, <1>3, <1>4, <1>5, <2>1, TellKeeps DEF Reason
<1>7. CASE Skip
  <2>1. stream[x].kind = "skip" /\ rows' = rows /\ Tell("acked") BY <1>5, <1>7 DEF Skip, Unasked
  <2> QED BY <1>1, <1>2, <1>3, <1>5, <2>1, TellKeeps
<1>8. CASE Stored
  <2>1. Event(x) \in bound /\ rows' = rows /\ Tell("acked") BY <1>5, <1>8 DEF Stored, MessagesInv
  <2> QED BY <1>1, <1>2, <1>3, <1>5, <2>1, TellKeeps
<1>9. CASE Conflict
  <2>1. OtherHash(x) /\ Note("conflict") /\ Tell("acked") BY <1>5, <1>9 DEF Conflict, MessagesInv
  <2> QED BY <1>1, <1>3, <1>4, <1>5, <2>1, TellKeeps DEF Reason
<1>10. CASE SendBack
  <2>1. Note("held") /\ Tell("open") BY <1>10 DEF SendBack
  <2> QED BY <1>1, <1>3, <1>4, <1>5, <2>1, TellKeeps DEF Reason
<1>11. CASE Terminate
  <2>1. Note("unpublishable") /\ Tell("termed") BY <1>11 DEF Terminate
  <2> QED BY <1>1, <1>3, <1>4, <1>5, <2>1, TellKeeps DEF Reason
<1> QED BY <1>6, <1>7, <1>8, <1>9, <1>10, <1>11 DEF Handle

LEMMA ConsumerKeeps ==
  ASSUME IngestInv, ConsumerNext
  PROVE  /\ ConsumerTypeOK' /\ MessagesInv' /\ UNCHANGED stream
         /\ faults' \in 0..MaxFaults /\ deaths' <= faults'
<1> USE DEF IngestInv
<1>1. deaths \in Nat /\ faults \in Nat /\ deaths <= faults /\ faults <= MaxFaults /\ MaxFaults \in Nat
  BY ConsumerFacts, Parameters
<1>2. ASSUME UNCHANGED faults \/ Fault PROVE faults' \in 0..MaxFaults /\ faults <= faults'
  BY <1>1, <1>2 DEF Fault
<1>3. CASE StartRun
  <2>1. lane = 0 /\ Fetch(1) /\ UNCHANGED <<outcome, answer, bound, rows, deaths, stream, faults>>
    BY <1>3 DEF StartRun
  <2>2. batch = {} BY <2>1, ConsumerFacts
  <2> QED BY <1>1, <2>1, <2>2, FetchKeeps
<1>4. CASE NextLane
  <2>1. batch = {} /\ Fetch(2) /\ UNCHANGED <<outcome, answer, bound, rows, deaths, stream, faults>>
    BY <1>4 DEF NextLane
  <2> QED BY <1>1, <2>1, FetchKeeps
<1>5. CASE EndRun
  <2>1. /\ batch = {} /\ lane' = 0
        /\ UNCHANGED <<outcome, count, due, batch, answer, bound, rows, deaths, stream, faults>>
    BY <1>5 DEF EndRun
  <2>2. ConsumerTypeOK' BY <2>1 DEF TypedInv, IngestTypeOK, ConsumerTypeOK
  <2>3. MessagesInv'
    BY <2>1 DEF MessagesInv, Event, Msg, OtherHash, OnRecord, Untraced, Reasons, AtHand
  <2> QED BY <1>1, <2>1, <2>2, <2>3
<1>6. CASE Handle BY <1>1, <1>2, <1>6, HandleKeeps
<1>7. CASE GateLands
  <2>1. batch # {} /\ answer = "none" /\ Bind /\ GateAnswers(Classified) /\ UNCHANGED <<faults, stream, deaths>>
    BY <1>7 DEF GateLands, Unasked, GateAnswers
  <2>2. PICK said : said = Classified OBVIOUS
  <2>3. /\ bound \subseteq bound' /\ bound' \subseteq EventsOf /\ said \in {"stored", "conflict"}
        /\ (said = "stored" => Event(Msg) \in bound') /\ (said = "conflict" => OtherHash(Msg))
    BY <2>1, <2>2, BindFacts
  <2>4. GateAnswers(said) BY <2>1, <2>2 DEF GateAnswers
  <2> QED BY <1>1, <2>1, <2>3, <2>4, GateKeeps
<1>8. CASE GateRefuses
  <2>1. /\ batch # {} /\ answer = "none" /\ Fault /\ GateAnswers("permanent")
        /\ UNCHANGED <<bound, stream, deaths>>
    BY <1>8 DEF GateRefuses, Unasked, GateAnswers
  <2>2. bound' \subseteq EventsOf /\ bound \subseteq bound' BY <2>1, ConsumerFacts
  <2> QED BY <1>1, <1>2, <2>1, <2>2, GateKeeps
<1>9. CASE GateFails
  <2>1. /\ batch # {} /\ answer = "none" /\ Fault /\ GateAnswers("transient")
        /\ UNCHANGED <<stream, deaths>> /\ (Bind \/ UNCHANGED bound)
    BY <1>9 DEF GateFails, Unasked, GateAnswers
  <2>2. bound' \subseteq EventsOf /\ bound \subseteq bound' BY <2>1, BindFacts, ConsumerFacts
  <2> QED BY <1>1, <1>2, <2>1, <2>2, GateKeeps
<1>10. CASE RunDies
  <2>1. Fault /\ UNCHANGED stream BY <1>10 DEF RunDies
  <2>2. ConsumerTypeOK' /\ MessagesInv' /\ deaths' = deaths + 1 BY <1>10, DeathKeeps
  <2>3. faults' = faults + 1 BY <2>1 DEF Fault
  <2> QED BY <1>1, <1>2, <2>1, <2>2, <2>3
<1>11. ASSUME NEW m \in MessageIds, Due(m)
       PROVE  /\ ConsumerTypeOK' /\ MessagesInv' /\ UNCHANGED stream
              /\ faults' \in 0..MaxFaults /\ deaths' <= faults'
  <2>1. UNCHANGED stream BY <1>11 DEF Due
  <2> QED BY <1>1, <1>11, <2>1, DueKeeps
<1> QED BY <1>3, <1>4, <1>5, <1>6, <1>7, <1>8, <1>9, <1>10, <1>11 DEF ConsumerNext

-----------------------------------------------------------------------------
\* The whole.

LEMMA IngestStarts == IngestInit => IngestInv
<1> SUFFICES ASSUME IngestInit PROVE IngestInv OBVIOUS
<1> USE DEF IngestInit, ProducerInit, ConsumerInit
<1>1. stream \in Seq(MessageType) /\ Len(stream) = 0 /\ DOMAIN stream = {} BY EmptySeq
<1>2. todo \in Seq((SUBSET LineNos) \ {{}}) /\ DOMAIN todo = {} BY EmptySeq
<1>3. StreamTypeOK BY <1>1, Parameters DEF StreamTypeOK
<1>4. ProducerTypeOK
  <2>1. 0 \in 0..Len(Lines) BY Parameters
  <2> QED BY <1>2, <2>1 DEF ProducerTypeOK
<1>5. ConsumerTypeOK BY FS_EmptySet, Parameters DEF ConsumerTypeOK
<1>6. TypedInv BY <1>3, <1>4, <1>5 DEF TypedInv, IngestTypeOK
<1>7. \A i \in 1..0 : FALSE OBVIOUS
<1>8. LinesInv BY <1>2, <1>7 DEF LinesInv
<1>9. MessagesInv BY <1>1 DEF MessagesInv
<1> QED BY <1>6, <1>8, <1>9 DEF IngestInv

\* A step of the producer: the consumer sees a longer stream at most.
LEMMA ProducerSteps ==
  ASSUME IngestInv, ProducerNext, UNCHANGED consumer
  PROVE  IngestInv'
<1>1. StreamOf /\ (UNCHANGED faults \/ Fault) /\ ProducerTypeOK' /\ LinesInv' BY ProducerKeeps
<1>2. /\ stream' \in Seq(MessageType) /\ Len(stream') <= MaxMessages
      /\ Len(stream') \in Nat /\ DOMAIN stream' = 1..Len(stream')
      /\ \A m \in DOMAIN stream : m \in DOMAIN stream' /\ stream'[m] = stream[m]
  BY <1>1, LenProperties DEF StreamOf
<1>3. MessagesInv' BY <1>2, StreamGrows DEF IngestInv
<1>4. /\ deaths \in Nat /\ faults \in Nat /\ deaths <= faults /\ faults <= MaxFaults
      /\ MaxFaults \in Nat /\ batch \subseteq DOMAIN stream
  BY ConsumerFacts, Parameters DEF IngestInv
<1>5. faults' \in 0..MaxFaults /\ deaths' <= faults' BY <1>1, <1>4 DEF Fault, consumer
<1>6. StreamTypeOK' BY <1>2, <1>5 DEF StreamTypeOK
<1>7. ConsumerTypeOK'
  <2>1. batch' \subseteq DOMAIN stream' BY <1>2, <1>4 DEF consumer
  <2> QED BY <2>1 DEF IngestInv, TypedInv, IngestTypeOK, ConsumerTypeOK, consumer
<1> QED BY <1>1, <1>3, <1>5, <1>6, <1>7 DEF IngestInv, TypedInv, IngestTypeOK

\* A step of the consumer: the producer's state and the stream are as they were.
LEMMA ConsumerSteps ==
  ASSUME IngestInv, ConsumerNext, UNCHANGED producer
  PROVE  IngestInv'
<1>1. /\ ConsumerTypeOK' /\ MessagesInv' /\ UNCHANGED stream
      /\ faults' \in 0..MaxFaults /\ deaths' <= faults'
  BY ConsumerKeeps
<1>2. TypedInv' BY <1>1, TypedStep DEF IngestInv
<1>3. LinesInv' BY <1>1 DEF IngestInv, LinesInv, InWindow, Dealt, Covers, producer, entry
<1> QED BY <1>1, <1>2, <1>3 DEF IngestInv

LEMMA AgentSteps ==
  ASSUME IngestInv, NEW x \in AgentMessages, Publishes(x)
  PROVE  IngestInv'
<1>1. Room /\ stream' = Append(stream, x) /\ UNCHANGED <<faults, producer, consumer>>
  BY DEF Publishes
<1>2. x \in MessageType BY Parameters
<1>3. /\ stream' \in Seq(MessageType) /\ Len(stream') <= MaxMessages
      /\ \A m \in DOMAIN stream : m \in DOMAIN stream' /\ stream'[m] = stream[m]
  BY <1>1, <1>2, Appended DEF IngestInv
<1>4. Len(stream') \in Nat /\ DOMAIN stream' = 1..Len(stream') BY <1>3, LenProperties
<1>5. MessagesInv' BY <1>1, <1>3, <1>4, StreamGrows DEF IngestInv
<1>6. batch \subseteq DOMAIN stream /\ faults \in 0..MaxFaults
  BY DEF IngestInv, TypedInv, IngestTypeOK, ConsumerTypeOK, StreamTypeOK
<1>7. StreamTypeOK' BY <1>1, <1>3, <1>6 DEF StreamTypeOK
<1>8. ConsumerTypeOK'
  <2>1. batch' \subseteq DOMAIN stream' BY <1>1, <1>3, <1>6 DEF consumer
  <2> QED BY <1>1, <2>1 DEF IngestInv, TypedInv, IngestTypeOK, ConsumerTypeOK, consumer
<1>9. ProducerTypeOK' /\ deaths' <= faults'
  BY <1>1 DEF IngestInv, TypedInv, IngestTypeOK, ProducerTypeOK, producer, entry, consumer
<1>10. \A i : Dealt(i) => Dealt(i)'
  <2> SUFFICES ASSUME NEW i, Dealt(i) PROVE Dealt(i)' OBVIOUS
  <2> QED BY <1>1, <1>3, DealtForGood DEF IngestInv, producer, entry
<1>11. LinesInv' BY <1>1, <1>10 DEF IngestInv, LinesInv, InWindow, producer, entry
<1> QED BY <1>5, <1>7, <1>8, <1>9, <1>11 DEF IngestInv, TypedInv, IngestTypeOK

LEMMA IngestSteps == IngestInv /\ [IngestNext]_ingest => IngestInv'
<1> SUFFICES ASSUME IngestInv, [IngestNext]_ingest PROVE IngestInv' OBVIOUS
<1>1. CASE ProducerNext /\ UNCHANGED consumer BY <1>1, ProducerSteps
<1>2. CASE ConsumerNext /\ UNCHANGED producer BY <1>2, ConsumerSteps
<1>3. ASSUME NEW m \in AgentMessages, Publishes(m) PROVE IngestInv' BY <1>3, AgentSteps
<1>4. CASE UNCHANGED ingest
  <2>1. TypedInv'
    BY <1>4 DEF ingest, producer, entry, consumer, IngestInv, TypedInv, IngestTypeOK, StreamTypeOK,
       ProducerTypeOK, ConsumerTypeOK
  <2>2. LinesInv'
    BY <1>4 DEF ingest, producer, entry, IngestInv, LinesInv, InWindow, Dealt, Covers
  <2>3. MessagesInv'
    <3>1. \A m \in DOMAIN stream : (OnRecord(m) => OnRecord(m)') /\ (Untraced(m)' => Untraced(m))
      BY <1>4 DEF ingest, consumer, OnRecord, Untraced, Event, OtherHash, Reasons
    <3>2. (Event(Msg) \in bound)' = (Event(Msg) \in bound) /\ OtherHash(Msg)' = OtherHash(Msg)
      BY <1>4 DEF ingest, consumer, Event, Msg, OtherHash
    <3>3. \A m : AtHand(m)' = AtHand(m) BY <1>4 DEF ingest, consumer, AtHand
    <3> QED BY <1>4, <3>1, <3>2, <3>3 DEF ingest, consumer, IngestInv, MessagesInv
  <2> QED BY <2>1, <2>2, <2>3 DEF IngestInv
<1> QED BY <1>1, <1>2, <1>3, <1>4 DEF IngestNext

(***************************************************************************)
(* The types of what producer, streams and consumer keep.                  *)
(***************************************************************************)
THEOREM IngestTyped == IngestSpec => []IngestTypeOK
<1>1. IngestInv => IngestTypeOK BY DEF IngestInv, TypedInv
<1>2. QED BY <1>1, IngestStarts, IngestSteps, PTL DEF IngestSpec

(***************************************************************************)
(* No line and no message vanishes, for any file, any agents' messages and *)
(* any number of faults: the saved offset passes no line nothing became    *)
(* of, but for those the file had when it was first seen without           *)
(* --backfill, and a message that is delivered no more left its trace or   *)
(* was lost to a run that died at each of its deliveries.                  *)
(***************************************************************************)
THEOREM LinesLeaveTraces == IngestSpec => []NothingVanishes
<1>1. IngestInv => NothingVanishes
  <2> SUFFICES ASSUME IngestInv PROVE NothingVanishes OBVIOUS
  <2>1. \A i \in 1..saved : Dealt(i) BY DEF IngestInv, LinesInv
  <2>2. ASSUME NEW m \in DOMAIN stream PROVE Traced(m)
    <3>1. OnRecord(m) BY DEF IngestInv, MessagesInv
    <3>2. ASSUME Spent(m), Untraced(m) PROVE deaths >= MaxDeliver
      <4>1. m \notin batch BY <3>2 DEF IngestInv, MessagesInv, Spent
      <4>2. count[m] <= deaths + 0 BY <3>2, <4>1 DEF IngestInv, MessagesInv, AtHand
      <4>3. count[m] = MaxDeliver BY <3>2 DEF Spent
      <4>4. deaths \in Nat BY ConsumerFacts DEF IngestInv
      <4> QED BY <4>2, <4>3, <4>4, Parameters
    <3> QED BY <3>1, <3>2 DEF OnRecord, Traced, Untraced
  <2> QED BY <2>1, <2>2 DEF NothingVanishes
<1>2. QED BY <1>1, IngestStarts, IngestSteps, PTL DEF IngestSpec

-----------------------------------------------------------------------------
(***************************************************************************)
(* The supersession of an event.                                           *)
(***************************************************************************)

LEMMA RequestFields ==
  ASSUME NEW r \in Requests
  PROVE  /\ r \in RequestType
         /\ r.id \in Ids /\ r.source \in Sources
         /\ r.oldHash \in Hashes /\ r.hash \in Hashes /\ r.oldHash # r.hash
         /\ r.oldThought \in Contents /\ r.content \in Contents
         /\ r.content = TextOf[r.hash]
         /\ r # NoRequest
BY SupersessionAssumption DEF RequestType, NoRequest

LEMMA Distinct ==
  /\ NoEvent \notin EventRows
  /\ NoReceipt \notin Receipts
BY DEF NoEvent, EventRows, NoReceipt, Receipts, Outcomes

\* A call that was made was made by a client, whose earlier calls were answered.
CallsInOrder ==
  /\ \A a \in Calls : replies[a] # NoReply => pc[a] # "unused"
  /\ \A c \in Clients : \A m, n \in 1..MaxCalls :
       m < n /\ pc[<<c, n>>] # "unused" => pc[<<c, m>>] # "unused"

LocksExclusive ==
  \A a, b \in Calls : a # b =>
    /\ \A id \in Ids : ~(HoldsId(a, id) /\ HoldsId(b, id))
    /\ \A s \in Sources : ~(HoldsEvent(a, s) /\ HoldsEvent(b, s))
    /\ \A t \in Contents : ~(HoldsThought(a, t) /\ HoldsThought(b, t))
    /\ \A c \in Contents : ~(HoldsText(a, c) /\ HoldsText(b, c))

\* What a call has checked holds for as long as it relies on it.
Applying(a) == pc[a] = "commit" /\ draft[a].outcome = "applied"

ChecksHold(a) ==
  /\ pc[a] \in {"thought", "lookup", "insert", "retract"} \/ Applying(a) =>
       AsExpected(a, event[R(a).source])
  /\ pc[a] \in {"lookup", "insert", "retract"} \/ Applying(a) =>
       thought[R(a).oldThought] = "active"
  /\ pc[a] = "retract" \/ Applying(a) => thought[R(a).content] = "absent"
  /\ Applying(a) => ~HeadsChain(R(a).oldThought) /\ draft[a].observed # NoEvent

ReceiptsFinal ==
  /\ OneReceiptPerRequest
  /\ \A a \in Calls : pc[a] \in OpenPcs \ {"begin"} => \A x \in receipts : x.req.id # R(a).id

\* An event is bound to the text of its payload, also one that was superseded.
BoundToText ==
  /\ \A s \in Sources : event[s] # NoEvent => event[s].thought = TextOf[event[s].hash]
  /\ \A x \in Applied : x.req.oldThought = TextOf[x.req.oldHash]
  /\ \A x \in Applied : event[x.req.source] # NoEvent

Inv ==
  /\ TypeOK /\ CallsInOrder
  /\ LocksExclusive
  /\ \A a \in Calls : ChecksHold(a)
  /\ ReceiptsFinal
  /\ BoundToText
  /\ SupersededForGood

LEMMA CallType ==
  ASSUME TypeOK, NEW a \in Calls, pc[a] # "unused"
  PROVE  R(a) \in Requests
<1>1. a[1] \in Clients BY DEF Calls
<1>2. QED BY <1>1 DEF TypeOK, R

------------------------------------------------------------------------------
LEMMA InitInv == Init => Inv
<1>. SUFFICES ASSUME Init PROVE Inv
  OBVIOUS
<1>1. TypeOK BY DEF Init, TypeOK, NoReply
<1>2. CallsInOrder BY DEF Init, CallsInOrder, Calls
<1>3. LocksExclusive
  BY DEF Init, LocksExclusive, HoldsId, HoldsEvent, HoldsThought, HoldsText, OpenPcs
<1>4. \A a \in Calls : ChecksHold(a)
  BY DEF Init, ChecksHold, Applying
<1>5. ReceiptsFinal
  BY DEF Init, ReceiptsFinal, OneReceiptPerRequest, OpenPcs, NoReply
<1>6. BoundToText /\ SupersededForGood
  BY DEF Init, BoundToText, SupersededForGood, Applied
<1>7. QED BY <1>1, <1>2, <1>3, <1>4, <1>5, <1>6 DEF Inv

------------------------------------------------------------------------------
(***************************************************************************)
(* One step: types and the order of calls.                                 *)
(***************************************************************************)
LEMMA ReceiptType ==
  ASSUME TypeOK, NEW a \in Calls, pc[a] # "unused", NEW verdict \in Outcomes
  PROVE  /\ Receipt(a, verdict, event[R(a).source]) \in Receipts
         /\ Receipt(a, verdict, event[R(a).source]).req = R(a)
         /\ Receipt(a, verdict, event[R(a).source]).outcome = verdict
         /\ Receipt(a, verdict, event[R(a).source]).observed = event[R(a).source]
<1>1. R(a) \in Requests /\ R(a).source \in Sources BY CallType, RequestFields
<1>2. event[R(a).source] \in EventRows \cup {NoEvent} BY <1>1 DEF TypeOK
<1>3. QED BY <1>1, <1>2 DEF Receipt, Receipts

\* The calls whose statement it is, and nothing else, move.
LEMMA StatementMoves ==
  ASSUME TypeOK, NEW a \in Calls, Statement(a)
  PROVE  /\ pc[a] \in OpenPcs
         /\ R(a) \in Requests
         /\ request' = request
         /\ pc' = [pc EXCEPT ![a] = pc'[a]]
         /\ draft' = [draft EXCEPT ![a] = draft'[a]]
         /\ pc'[a] \in {"over"} \cup (OpenPcs \ {"begin"})
         /\ replies' = [replies EXCEPT ![a] = replies'[a]]
         /\ replies'[a] = replies[a] \/ replies'[a].kind \in {"refused", "error", "receipt"}
<1>1. pc[a] \in OpenPcs /\ R(a) \in Requests
  <2>1. pc[a] \in OpenPcs
    BY DEF Statement, Begin, Replayed, IdReused, LockEvent, LockThought, ThoughtUnavailable,
           Lookup, Insert, InsertRaises, Supersede, SupersedeRaises, Land, Abort, Open, OpenPcs
  <2>2. QED BY <2>1, CallType DEF OpenPcs
<1>2. request' = request /\ pc' = [pc EXCEPT ![a] = pc'[a]]
      /\ draft' = [draft EXCEPT ![a] = draft'[a]]
      /\ pc'[a] \in {"over"} \cup (OpenPcs \ {"begin"})
  BY DEF Statement, Begin, Replayed, IdReused, LockEvent, LockThought, ThoughtUnavailable,
         Lookup, Insert, InsertRaises, Supersede, SupersedeRaises, Land, Abort, Raise, Over,
         Decide, GoTo, InDatabase, TypeOK, OpenPcs
<1>3. /\ replies' = [replies EXCEPT ![a] = replies'[a]]
      /\ replies'[a] = replies[a] \/ replies'[a].kind \in {"refused", "error", "receipt"}
  BY DEF Statement, Begin, Replayed, IdReused, LockEvent, LockThought, ThoughtUnavailable,
         Lookup, Insert, InsertRaises, Supersede, SupersedeRaises, Land, Abort, Raise, Answered,
         InDatabase, TypeOK
<1>4. QED BY <1>1, <1>2, <1>3

\* A call that decides has its receipt, every other call it makes has none.
LEMMA DraftMoves ==
  ASSUME TypeOK, NEW a \in Calls, Statement(a)
  PROVE  IF pc'[a] = "commit"
         THEN draft'[a] \in Receipts /\ draft'[a].req = R(a)
         ELSE draft'[a] = NoReceipt
<1>1. pc[a] \in OpenPcs /\ R(a) \in Requests BY StatementMoves
<1>2. CASE Land(a) \/ Replayed(a) \/ Abort(a) \/ IdReused(a) \/ ThoughtUnavailable(a)
           \/ InsertRaises(a) \/ SupersedeRaises(a)
  BY <1>2 DEF Land, Replayed, Abort, IdReused, ThoughtUnavailable, InsertRaises,
              SupersedeRaises, Raise, Over, GoTo, TypeOK
<1>3. CASE Begin(a) \/ LockThought(a) \/ Insert(a)
  BY <1>3 DEF Begin, LockThought, Insert, GoTo, TypeOK
<1>4. CASE LockEvent(a) \/ Lookup(a) \/ Supersede(a)
  BY <1>1, <1>4, ReceiptType DEF LockEvent, Lookup, Supersede, Decide, GoTo, TypeOK, OpenPcs, Outcomes
<1>5. QED BY <1>2, <1>3, <1>4 DEF Statement

LEMMA ReplyMoves ==
  ASSUME TypeOK, NEW a \in Calls, Statement(a)
  PROVE  replies'[a] \in [kind: {"receipt"}, receipt: Receipts]
                          \cup [kind: {"refused", "error"}] \cup {replies[a]}
<1>1. CASE Land(a)
  BY <1>1 DEF Land, Answered, TypeOK, NoReply
<1>2. CASE Replayed(a)
  BY <1>2 DEF Replayed, Answered, TypeOK, NoReply
<1>3. CASE ~Land(a) /\ ~Replayed(a)
  BY <1>3 DEF Statement, Begin, IdReused, LockEvent, LockThought, ThoughtUnavailable,
         Lookup, Insert, InsertRaises, Supersede, SupersedeRaises, Abort, Raise, Answered,
         InDatabase, TypeOK
<1>4. QED BY <1>1, <1>2, <1>3

LEMMA TableMoves ==
  ASSUME TypeOK, NEW a \in Calls, Statement(a)
  PROVE  IF Land(a) /\ draft[a].outcome = "applied"
         THEN /\ thought' \in [Contents -> {"absent", "active", "retracted"}]
              /\ event' \in [Sources -> EventRows \cup {NoEvent}]
              /\ links' \subseteq Contents \X Contents
              /\ receipts' \subseteq Receipts
         ELSE UNCHANGED <<thought, event, links>> /\ receipts' \subseteq Receipts
<1>1. R(a) \in Requests BY StatementMoves
<1>2. CASE Land(a)
  <2>1. NewRow(a) \in EventRows BY <1>1, RequestFields DEF NewRow, EventRows
  <2>2. receipts' \subseteq Receipts BY <1>2 DEF Land, TypeOK
  <2>3. CASE draft[a].outcome = "applied"
    BY <1>1, <1>2, <2>1, <2>2, <2>3, RequestFields DEF Land, TypeOK
  <2>4. QED BY <1>2, <2>2, <2>3 DEF Land
<1>3. CASE ~Land(a)
  BY <1>3 DEF Statement, Begin, Replayed, IdReused, LockEvent, LockThought, ThoughtUnavailable,
         Lookup, Insert, InsertRaises, Supersede, SupersedeRaises, Abort, Raise, InDatabase,
         tables, TypeOK
<1>4. QED BY <1>2, <1>3

\* The steps of others: they do not touch the calls, and rows keep their types.
Others ==
  \/ \E s \in Sources : Resolve(s) \/ \E h \in Hashes : Delivery(s, h)
  \/ \E t \in Contents : Retract(t)
  \/ \E l \in links : Unlink(l)

LEMMA OthersMove ==
  ASSUME TypeOK, Others
  PROVE  /\ UNCHANGED <<receipts, request, pc, draft, replies>>
         /\ thought' \in [Contents -> {"absent", "active", "retracted"}]
         /\ event' \in [Sources -> EventRows \cup {NoEvent}]
         /\ links' \subseteq links
         /\ told' \subseteq [source: Sources, hash: Hashes, thought: Contents]
<1>1. ASSUME NEW s \in Sources, Resolve(s)
      PROVE  /\ UNCHANGED <<thought, links, receipts, request, pc, draft, replies, told>>
             /\ event' \in [Sources -> EventRows \cup {NoEvent}]
  BY <1>1 DEF Resolve, txn, TypeOK, EventRows, NoEvent
<1>2. ASSUME NEW s \in Sources, NEW h \in Hashes, FirstDelivery(s, h)
      PROVE  /\ UNCHANGED <<links, receipts, request, pc, draft, replies>>
             /\ thought' \in [Contents -> {"absent", "active", "retracted"}]
             /\ event' \in [Sources -> EventRows \cup {NoEvent}]
             /\ told' \subseteq [source: Sources, hash: Hashes, thought: Contents]
  <2>1. TextOf[h] \in Contents BY SupersessionAssumption
  <2>2. [status |-> "stored", hash |-> h, thought |-> TextOf[h]] \in EventRows
    BY <2>1 DEF EventRows
  <2>3. Binding(s, h, TextOf[h]) \in [source: Sources, hash: Hashes, thought: Contents]
    BY <2>1 DEF Binding
  <2>4. QED BY <1>2, <2>1, <2>2, <2>3 DEF FirstDelivery, txn, TypeOK
<1>3. ASSUME NEW s \in Sources, NEW h \in Hashes, Redelivery(s, h)
      PROVE  /\ UNCHANGED <<thought, event, links, receipts, request, pc, draft, replies>>
             /\ told' \subseteq [source: Sources, hash: Hashes, thought: Contents]
  <2>1. event[s].thought \in Contents BY <1>3 DEF Redelivery, TypeOK, EventRows
  <2>2. QED BY <1>3, <2>1 DEF Redelivery, Binding, tables, txn, TypeOK
<1>4. ASSUME NEW s \in Sources, NEW h \in Hashes, ConflictingDelivery(s, h)
      PROVE  /\ UNCHANGED <<thought, links, receipts, request, pc, draft, replies, told>>
             /\ event' \in [Sources -> EventRows \cup {NoEvent}]
  BY <1>4 DEF ConflictingDelivery, txn, TypeOK, EventRows, NoEvent
<1>5. ASSUME NEW t \in Contents, Retract(t)
      PROVE  /\ UNCHANGED <<event, links, receipts, request, pc, draft, replies, told>>
             /\ thought' \in [Contents -> {"absent", "active", "retracted"}]
  BY <1>5 DEF Retract, txn, TypeOK
<1>6. ASSUME NEW l \in links, Unlink(l)
      PROVE  /\ UNCHANGED <<thought, event, receipts, request, pc, draft, replies, told>>
             /\ links' \subseteq links
  BY <1>6 DEF Unlink, txn
<1>7. QED BY <1>1, <1>2, <1>3, <1>4, <1>5, <1>6 DEF Others, Delivery, TypeOK

\* A new call has a request and, when it is the first, no later one was made.
LEMMA CallMoves ==
  ASSUME TypeOK, CallsInOrder, NEW c \in Clients, NEW n \in 1..MaxCalls, Call(c, n)
  PROVE  /\ UNCHANGED <<thought, event, links, receipts, draft, replies, told>>
         /\ pc' = [pc EXCEPT ![<<c, n>>] = "begin"]
         /\ pc[<<c, n>>] = "unused"
         /\ request' \in [Clients -> Requests \cup {NoRequest}]
         /\ request'[c] \in Requests
         /\ \A b \in Calls : pc[b] # "unused" => R(b)' = R(b)
         /\ \A m \in 1..MaxCalls : m < n => pc[<<c, m>>] # "unused"
<1>1. PICK r \in IF n = 1 THEN Requests ELSE {request[c]} :
        request' = [request EXCEPT ![c] = r]
  BY DEF Call
<1>2. n > 1 => n - 1 \in 1..MaxCalls /\ pc[<<c, n - 1>>] # "unused"
  <2>. SUFFICES ASSUME n > 1 PROVE n - 1 \in 1..MaxCalls /\ pc[<<c, n - 1>>] # "unused"
    OBVIOUS
  <2>1. n - 1 \in 1..MaxCalls BY SupersessionAssumption
  <2>2. replies[<<c, n - 1>>] # NoReply BY DEF Call
  <2>3. <<c, n - 1>> \in Calls BY <2>1 DEF Calls
  <2>4. QED BY <2>1, <2>2, <2>3 DEF CallsInOrder
<1>3. \A m \in 1..MaxCalls : m < n => pc[<<c, m>>] # "unused"
  <2>. SUFFICES ASSUME NEW m \in 1..MaxCalls, m < n PROVE pc[<<c, m>>] # "unused"
    OBVIOUS
  <2>1. n > 1 /\ (m = n - 1 \/ m < n - 1) BY SupersessionAssumption
  <2>2. QED BY <1>2, <2>1 DEF CallsInOrder
<1>4. r \in Requests
  <2>1. CASE n = 1 BY <1>1, <2>1
  <2>2. CASE n > 1
    <3>1. <<c, n - 1>> \in Calls /\ R(<<c, n - 1>>) = request[c] BY <1>2, <2>2 DEF Calls, R
    <3>2. QED BY <1>1, <1>2, <2>2, <3>1, CallType
  <2>3. QED BY <2>1, <2>2, SupersessionAssumption
<1>5. \A b \in Calls : pc[b] # "unused" => R(b)' = R(b)
  <2>. SUFFICES ASSUME NEW b \in Calls, pc[b] # "unused" PROVE R(b)' = R(b)
    OBVIOUS
  <2>1. PICK d \in Clients, m \in 1..MaxCalls : b = <<d, m>> BY DEF Calls
  <2>2. R(b) = request[d] /\ R(b)' = request'[d] BY <2>1 DEF R
  <2>3. CASE d # c BY <1>1, <2>2, <2>3 DEF TypeOK
  <2>4. CASE d = c /\ n > 1 BY <1>1, <2>2, <2>4 DEF TypeOK
  <2>5. CASE d = c /\ n = 1
    <3>1. m # 1 BY <2>1, <2>5 DEF Call
    <3>2. n < m BY <2>5, <3>1, SupersessionAssumption
    <3>3. QED BY <2>1, <2>5, <3>2 DEF CallsInOrder, Call
  <2>6. QED BY <2>3, <2>4, <2>5, SupersessionAssumption
<1>6. QED BY <1>1, <1>3, <1>4, <1>5 DEF Call, GoTo, tables, TypeOK

LEMMA NextKinds ==
  ASSUME Next
  PROVE  \/ \E a \in Calls : Statement(a)
         \/ \E a \in Calls : LoseConnection(a)
         \/ \E c \in Clients, n \in 1..MaxCalls : Call(c, n)
         \/ Others
<1>1. \A a \in Calls : a[1] \in Clients /\ a[2] \in 1..MaxCalls BY DEF Calls
<1>2. \A p \in Payloads : p[1] \in Sources /\ p[2] \in Hashes BY SupersessionAssumption
<1>3. QED BY <1>1, <1>2 DEF Next, Others

LEMMA NextType == TypeOK /\ CallsInOrder /\ [Next]_vars => TypeOK' /\ CallsInOrder'
<1>. SUFFICES ASSUME TypeOK, CallsInOrder, [Next]_vars PROVE TypeOK' /\ CallsInOrder'
  OBVIOUS
<1>1. CASE \E a \in Calls : Statement(a)
  <2>1. PICK a \in Calls : Statement(a) BY <1>1
  <2>2. \A b \in Calls : R(b)' = R(b) BY <2>1, StatementMoves DEF R
  <2>3. \A b \in Calls : b # a => pc'[b] = pc[b] /\ draft'[b] = draft[b] /\ replies'[b] = replies[b]
    BY <2>1, StatementMoves DEF TypeOK
  <2>4. /\ pc[a] # "unused" /\ pc'[a] # "unused"
        /\ pc' \in [Calls -> {"unused", "over"} \cup OpenPcs]
        /\ request' \in [Clients -> Requests \cup {NoRequest}]
    BY <2>1, StatementMoves DEF TypeOK, OpenPcs
  <2>5. /\ thought' \in [Contents -> {"absent", "active", "retracted"}]
        /\ event' \in [Sources -> EventRows \cup {NoEvent}]
        /\ links' \subseteq Contents \X Contents
        /\ receipts' \subseteq Receipts
    BY <2>1, TableMoves DEF TypeOK
  <2>6. told' = told
    BY <2>1 DEF Statement, Begin, Replayed, IdReused, LockEvent, LockThought, ThoughtUnavailable,
         Lookup, Insert, InsertRaises, Supersede, SupersedeRaises, Land, Abort, Raise, InDatabase
  <2>7. draft' \in [Calls -> Receipts \cup {NoReceipt}]
    BY <2>1, StatementMoves, DraftMoves DEF TypeOK
  <2>8. replies' \in [Calls -> [kind: {"receipt"}, receipt: Receipts]
                             \cup [kind: {"refused", "error"}] \cup {NoReply}]
    BY <2>1, StatementMoves, ReplyMoves DEF TypeOK
  <2>9. \A b \in Calls : /\ pc'[b] # "unused" => R(b)' # NoRequest
                         /\ IF pc'[b] = "commit" THEN draft'[b] # NoReceipt /\ draft'[b].req = R(b)'
                                                ELSE draft'[b] = NoReceipt
    BY <2>1, <2>2, <2>3, <2>4, DraftMoves, Distinct DEF TypeOK
  <2>10. TypeOK' BY <2>4, <2>5, <2>6, <2>7, <2>8, <2>9 DEF TypeOK
  <2>11. CallsInOrder'
    BY <2>3, <2>4 DEF CallsInOrder, Calls
  <2>12. QED BY <2>10, <2>11
<1>2. CASE \E a \in Calls : LoseConnection(a)
  <2>1. PICK a \in Calls : LoseConnection(a) BY <1>2
  <2>2. UNCHANGED <<thought, event, links, receipts, request, pc, draft, told>>
        /\ replies' = [replies EXCEPT ![a] = [kind |-> "error"]] /\ pc[a] \in OpenPcs
    BY <2>1 DEF LoseConnection, tables, txn, Open
  <2>3. TypeOK' BY <2>2 DEF TypeOK, R
  <2>4. CallsInOrder' BY <2>2 DEF CallsInOrder, Calls, OpenPcs, TypeOK
  <2>5. QED BY <2>3, <2>4
<1>3. CASE \E c \in Clients, n \in 1..MaxCalls : Call(c, n)
  <2>1. PICK c \in Clients, n \in 1..MaxCalls : Call(c, n) BY <1>3
  <2>2. /\ UNCHANGED <<thought, event, links, receipts, draft, replies, told>>
        /\ pc' = [pc EXCEPT ![<<c, n>>] = "begin"]
        /\ pc[<<c, n>>] = "unused"
        /\ request' \in [Clients -> Requests \cup {NoRequest}]
        /\ request'[c] \in Requests
        /\ \A b \in Calls : pc[b] # "unused" => R(b)' = R(b)
        /\ \A m \in 1..MaxCalls : m < n => pc[<<c, m>>] # "unused"
    BY <2>1, CallMoves
  <2>3. <<c, n>> \in Calls /\ R(<<c, n>>)' = request'[c] BY DEF Calls, R
  <2>4. \A b \in Calls : b # <<c, n>> => pc'[b] = pc[b] BY <2>2 DEF TypeOK
  <2>5. pc'[<<c, n>>] = "begin" BY <2>2, <2>3 DEF TypeOK
  <2>6. request'[c] # NoRequest BY <2>2, RequestFields
  <2>7. \A b \in Calls : /\ pc'[b] # "unused" => R(b)' # NoRequest
                         /\ IF pc'[b] = "commit" THEN draft'[b] # NoReceipt /\ draft'[b].req = R(b)'
                                                ELSE draft'[b] = NoReceipt
    BY <2>2, <2>3, <2>4, <2>5, <2>6 DEF TypeOK
  <2>8. TypeOK' BY <2>2, <2>3, <2>7 DEF TypeOK, OpenPcs
  <2>9. CallsInOrder'
    <3>1. \A b \in Calls : replies'[b] # NoReply => pc'[b] # "unused"
      BY <2>2, <2>4, <2>5 DEF CallsInOrder
    <3>2. ASSUME NEW d \in Clients, NEW m \in 1..MaxCalls, NEW k \in 1..MaxCalls,
                 m < k, pc'[<<d, k>>] # "unused"
          PROVE  pc'[<<d, m>>] # "unused"
      <4>1. <<d, m>> \in Calls /\ <<d, k>> \in Calls BY DEF Calls
      <4>2. CASE <<d, k>> = <<c, n>> BY <2>2, <2>4, <2>5, <3>2, <4>1, <4>2
      <4>3. CASE <<d, k>> # <<c, n>>
        <5>1. pc[<<d, k>>] # "unused" BY <2>4, <3>2, <4>1, <4>3
        <5>2. pc[<<d, m>>] # "unused" BY <3>2, <5>1 DEF CallsInOrder
        <5>3. QED BY <2>4, <2>5, <4>1, <5>2
      <4>4. QED BY <4>2, <4>3
    <3>3. QED BY <3>1, <3>2 DEF CallsInOrder
  <2>10. QED BY <2>8, <2>9
<1>4. CASE Others
  BY <1>4, OthersMove DEF TypeOK, R, CallsInOrder
<1>5. CASE UNCHANGED vars
  BY <1>5 DEF vars, tables, txn, TypeOK, R, CallsInOrder
<1>6. QED BY <1>1, <1>2, <1>3, <1>4, <1>5, NextKinds

------------------------------------------------------------------------------
(***************************************************************************)
(* One step: the locks.  Whatever a statement holds it held before, or     *)
(* nobody did.                                                             *)
(***************************************************************************)
LEMMA StatementLocks ==
  ASSUME TypeOK, NEW a \in Calls, Statement(a)
  PROVE  /\ \A id \in Ids : HoldsId(a, id)' => HoldsId(a, id) \/ \A b \in Calls : ~HoldsId(b, id)
         /\ \A s \in Sources : HoldsEvent(a, s)' => HoldsEvent(a, s) \/ EventFree(s)
         /\ \A t \in Contents : HoldsThought(a, t)' => HoldsThought(a, t) \/ ThoughtFree(t)
         /\ \A c \in Contents : HoldsText(a, c)' => HoldsText(a, c) \/ TextFree(c)
<1>1. pc[a] \in OpenPcs /\ pc'[a] # "unused" /\ R(a)' = R(a)
  BY StatementMoves DEF R, OpenPcs
<1>2. CASE pc'[a] = "over"
  BY <1>2 DEF HoldsId, HoldsEvent, HoldsThought, HoldsText, OpenPcs
<1>3. CASE Begin(a)
  BY <1>1, <1>3 DEF Begin, IdFree, GoTo, TypeOK, HoldsId, HoldsEvent, HoldsThought, HoldsText
<1>4. CASE LockEvent(a)
  <2>1. pc[a] = "row" /\ EventFree(R(a).source) BY <1>4 DEF LockEvent
  <2>2. \/ pc'[a] = "thought"
        \/ pc'[a] = "commit" /\ draft'[a] = Receipt(a, "refused_expected_state", event[R(a).source])
    BY <1>4 DEF LockEvent, Decide, GoTo, TypeOK
  <2>3. Receipt(a, "refused_expected_state", event[R(a).source]).outcome = "refused_expected_state"
    BY DEF Receipt
  <2>4. QED BY <1>1, <2>1, <2>2, <2>3 DEF HoldsId, HoldsEvent, HoldsThought, HoldsText, OpenPcs
<1>5. CASE LockThought(a)
  <2>1. pc[a] = "thought" /\ pc'[a] = "lookup" /\ ThoughtFree(R(a).oldThought)
    BY <1>5 DEF LockThought, GoTo, TypeOK
  <2>2. QED BY <1>1, <2>1 DEF HoldsId, HoldsEvent, HoldsThought, HoldsText, OpenPcs
<1>6. CASE Lookup(a)
  <2>1. /\ pc[a] = "lookup"
        /\ \/ pc'[a] = "insert"
           \/ /\ pc'[a] = "commit"
              /\ draft'[a] = Receipt(a, "refused_exact_content_duplicate", event[R(a).source])
    BY <1>6 DEF Lookup, Decide, GoTo, TypeOK
  <2>2. Receipt(a, "refused_exact_content_duplicate", event[R(a).source]).outcome
          = "refused_exact_content_duplicate"
    BY DEF Receipt
  <2>3. QED BY <1>1, <2>1, <2>2 DEF HoldsId, HoldsEvent, HoldsThought, HoldsText, OpenPcs
<1>7. CASE Insert(a)
  <2>1. pc[a] = "insert" /\ pc'[a] = "retract" /\ TextFree(R(a).content)
    BY <1>7 DEF Insert, GoTo, TypeOK
  <2>2. QED BY <1>1, <2>1 DEF HoldsId, HoldsEvent, HoldsThought, HoldsText, OpenPcs
<1>8. CASE Supersede(a)
  <2>1. pc[a] = "retract" /\ pc'[a] = "commit"
    BY <1>8 DEF Supersede, Decide, GoTo, TypeOK
  <2>2. QED BY <1>1, <2>1 DEF HoldsId, HoldsEvent, HoldsThought, HoldsText, OpenPcs
<1>9. CASE Replayed(a) \/ IdReused(a) \/ ThoughtUnavailable(a) \/ InsertRaises(a)
           \/ SupersedeRaises(a) \/ Land(a) \/ Abort(a)
  <2>1. pc'[a] = "over"
    BY <1>9 DEF Replayed, IdReused, ThoughtUnavailable, InsertRaises, SupersedeRaises, Land,
                Abort, Raise, Over, GoTo, TypeOK
  <2>2. QED BY <1>2, <2>1
<1>10. QED BY <1>3, <1>4, <1>5, <1>6, <1>7, <1>8, <1>9 DEF Statement

\* A call that does not move holds what it held.
LEMMA SameLocks ==
  ASSUME NEW b, pc'[b] = pc[b], draft'[b] = draft[b], pc[b] # "unused" => R(b)' = R(b)
  PROVE  /\ \A id : HoldsId(b, id)' <=> HoldsId(b, id)
         /\ \A s : HoldsEvent(b, s)' <=> HoldsEvent(b, s)
         /\ \A t : HoldsThought(b, t)' <=> HoldsThought(b, t)
         /\ \A c : HoldsText(b, c)' <=> HoldsText(b, c)
BY DEF HoldsId, HoldsEvent, HoldsThought, HoldsText, OpenPcs

\* The step of a call leaves the others where they are.
LEMMA OtherCallsStay ==
  ASSUME TypeOK, NEW a \in Calls, Statement(a), NEW b \in Calls, b # a
  PROVE  pc'[b] = pc[b] /\ draft'[b] = draft[b] /\ replies'[b] = replies[b] /\ R(b)' = R(b)
BY StatementMoves DEF TypeOK, R

\* Every step that is not a statement leaves the calls that hold anything alone.
LEMMA QuietCalls ==
  ASSUME TypeOK, CallsInOrder, [Next]_vars, ~(\E a \in Calls : Statement(a))
  PROVE  /\ receipts' = receipts
         /\ \A b \in Calls : \/ /\ pc'[b] = pc[b] /\ draft'[b] = draft[b]
                                /\ pc[b] # "unused" => R(b)' = R(b)
                             \/ pc[b] = "unused" /\ pc'[b] = "begin"
<1>1. CASE \E a \in Calls : LoseConnection(a)
  BY <1>1 DEF LoseConnection, txn, tables, R
<1>2. CASE \E c \in Clients, n \in 1..MaxCalls : Call(c, n)
  <2>1. PICK c \in Clients, n \in 1..MaxCalls : Call(c, n) BY <1>2
  <2>2. /\ UNCHANGED <<receipts, draft>>
        /\ pc' = [pc EXCEPT ![<<c, n>>] = "begin"] /\ pc[<<c, n>>] = "unused"
        /\ \A b \in Calls : pc[b] # "unused" => R(b)' = R(b)
    BY <2>1, CallMoves
  <2>3. <<c, n>> \in Calls BY DEF Calls
  <2>4. QED BY <2>2, <2>3 DEF TypeOK
<1>3. CASE Others BY <1>3, OthersMove DEF R
<1>4. CASE UNCHANGED vars BY <1>4 DEF vars, tables, txn, R
<1>5. QED BY <1>1, <1>2, <1>3, <1>4, NextKinds

LEMMA NextLocks ==
  TypeOK /\ CallsInOrder /\ LocksExclusive /\ [Next]_vars => LocksExclusive'
<1>. SUFFICES ASSUME TypeOK, CallsInOrder, LocksExclusive, [Next]_vars,
                     NEW b \in Calls, NEW d \in Calls, b # d
              PROVE  /\ \A id \in Ids : ~(HoldsId(b, id) /\ HoldsId(d, id))'
                     /\ \A s \in Sources : ~(HoldsEvent(b, s) /\ HoldsEvent(d, s))'
                     /\ \A t \in Contents : ~(HoldsThought(b, t) /\ HoldsThought(d, t))'
                     /\ \A c \in Contents : ~(HoldsText(b, c) /\ HoldsText(d, c))'
  BY DEF LocksExclusive
<1>1. CASE \E a \in Calls : Statement(a)
  <2>1. PICK a \in Calls : Statement(a) BY <1>1
  <2>2. ASSUME NEW x \in Calls, x # a, NEW y \in Calls, y = a
        PROVE  /\ \A id \in Ids : ~(HoldsId(x, id) /\ HoldsId(y, id))'
               /\ \A s \in Sources : ~(HoldsEvent(x, s) /\ HoldsEvent(y, s))'
               /\ \A t \in Contents : ~(HoldsThought(x, t) /\ HoldsThought(y, t))'
               /\ \A c \in Contents : ~(HoldsText(x, c) /\ HoldsText(y, c))'
    BY <2>1, <2>2, StatementLocks, OtherCallsStay, SameLocks
       DEF LocksExclusive, EventFree, ThoughtFree, TextFree
  <2>3. CASE b # a /\ d # a
    BY <2>1, <2>3, OtherCallsStay, SameLocks DEF LocksExclusive
  <2>4. QED BY <2>2, <2>3
<1>2. CASE ~(\E a \in Calls : Statement(a))
  <2>1. \A x \in Calls : /\ \A id : HoldsId(x, id)' => HoldsId(x, id)
                         /\ \A s : HoldsEvent(x, s)' => HoldsEvent(x, s)
                         /\ \A t : HoldsThought(x, t)' => HoldsThought(x, t)
                         /\ \A c : HoldsText(x, c)' => HoldsText(x, c)
    <3>. SUFFICES ASSUME NEW x \in Calls
                  PROVE  /\ \A id : HoldsId(x, id)' => HoldsId(x, id)
                         /\ \A s : HoldsEvent(x, s)' => HoldsEvent(x, s)
                         /\ \A t : HoldsThought(x, t)' => HoldsThought(x, t)
                         /\ \A c : HoldsText(x, c)' => HoldsText(x, c)
      OBVIOUS
    <3>1. CASE pc'[x] = "begin"
      BY <3>1 DEF HoldsId, HoldsEvent, HoldsThought, HoldsText
    <3>2. CASE pc'[x] # "begin"
      BY <1>2, <3>2, QuietCalls, SameLocks
    <3>3. QED BY <3>1, <3>2
  <2>2. QED BY <2>1 DEF LocksExclusive
<1>3. QED BY <1>1, <1>2

------------------------------------------------------------------------------
(***************************************************************************)
(* One step: what was checked stays true.                                  *)
(***************************************************************************)
LEMMA OnlyLandWrites ==
  ASSUME NEW a \in Calls, Statement(a), ~Land(a)
  PROVE  UNCHANGED <<thought, event, links, receipts, told>>
BY DEF Statement, Begin, Replayed, IdReused, LockEvent, LockThought, ThoughtUnavailable,
       Lookup, Insert, InsertRaises, Supersede, SupersedeRaises, Abort, Raise, InDatabase, tables

LEMMA OwnChecks ==
  ASSUME Inv, NEW a \in Calls, Statement(a)
  PROVE  ChecksHold(a)'
<1>1. TypeOK /\ ChecksHold(a) /\ R(a)' = R(a) BY StatementMoves DEF Inv, R
<1>2. CASE pc'[a] = "over" BY <1>2 DEF ChecksHold, Applying
<1>3. CASE pc'[a] # "over"
  <2>1. ~Land(a) BY <1>1, <1>3 DEF Land, Over, GoTo, TypeOK
  <2>2. UNCHANGED <<thought, event, links>> BY <2>1, OnlyLandWrites
  <2>3. /\ \A row : AsExpected(a, row)' <=> AsExpected(a, row)
        /\ \A t : HeadsChain(t)' <=> HeadsChain(t)
    BY <1>1, <2>2 DEF AsExpected, HeadsChain
  <2>4. CASE Begin(a)
    BY <1>1, <2>4 DEF Begin, GoTo, TypeOK, ChecksHold, Applying
  <2>5. CASE LockEvent(a)
    <3>1. \/ pc'[a] = "thought" /\ AsExpected(a, event[R(a).source])
          \/ pc'[a] = "commit" /\ draft'[a] = Receipt(a, "refused_expected_state", event[R(a).source])
      BY <1>1, <2>5 DEF LockEvent, Decide, GoTo, TypeOK
    <3>2. Receipt(a, "refused_expected_state", event[R(a).source]).outcome # "applied"
      BY DEF Receipt
    <3>3. QED BY <1>1, <2>2, <2>3, <3>1, <3>2 DEF ChecksHold, Applying
  <2>6. CASE LockThought(a)
    <3>1. pc[a] = "thought" /\ pc'[a] = "lookup" /\ thought[R(a).oldThought] = "active"
      BY <1>1, <2>6 DEF LockThought, GoTo, TypeOK
    <3>2. QED BY <1>1, <2>2, <2>3, <3>1 DEF ChecksHold, Applying
  <2>7. CASE Lookup(a)
    <3>1. pc[a] = "lookup"
          /\ \/ pc'[a] = "insert"
             \/ /\ pc'[a] = "commit"
                /\ draft'[a] = Receipt(a, "refused_exact_content_duplicate", event[R(a).source])
      BY <1>1, <2>7 DEF Lookup, Decide, GoTo, TypeOK
    <3>2. Receipt(a, "refused_exact_content_duplicate", event[R(a).source]).outcome # "applied"
      BY DEF Receipt
    <3>3. QED BY <1>1, <2>2, <2>3, <3>1, <3>2 DEF ChecksHold, Applying
  <2>8. CASE Insert(a)
    <3>1. pc[a] = "insert" /\ pc'[a] = "retract" /\ thought[R(a).content] = "absent"
      BY <1>1, <2>8 DEF Insert, GoTo, TypeOK
    <3>2. QED BY <1>1, <2>2, <2>3, <3>1 DEF ChecksHold, Applying
  <2>9. CASE Supersede(a)
    <3>1. /\ pc[a] = "retract" /\ pc'[a] = "commit"
          /\ draft'[a] = Receipt(a, "applied", event[R(a).source])
          /\ ~HeadsChain(R(a).oldThought)
      BY <1>1, <2>9 DEF Supersede, Decide, GoTo, TypeOK
    <3>2. draft'[a].observed = event[R(a).source] BY <3>1 DEF Receipt
    <3>3. QED BY <1>1, <2>2, <2>3, <3>1, <3>2 DEF ChecksHold, Applying, AsExpected
  <2>10. QED BY <1>1, <1>3, <2>1, <2>4, <2>5, <2>6, <2>7, <2>8, <2>9
     DEF Statement, Replayed, IdReused, ThoughtUnavailable, InsertRaises, SupersedeRaises, Abort,
         Raise, Over, GoTo, TypeOK
<1>4. QED BY <1>2, <1>3

\* What a supersession that lands does to the tables.
LEMMA LandWrites ==
  ASSUME Inv, NEW a \in Calls, Land(a), draft[a].outcome = "applied"
  PROVE  /\ R(a) \in Requests /\ Applying(a) /\ draft[a].req = R(a)
         /\ R(a).content # R(a).oldThought
         /\ thought[R(a).content] = "absent" /\ thought[R(a).oldThought] = "active"
         /\ AsExpected(a, event[R(a).source])
         /\ thought' = [thought EXCEPT ![R(a).content] = "active", ![R(a).oldThought] = "retracted"]
         /\ event' = [event EXCEPT ![R(a).source] = NewRow(a)]
         /\ links' = links \cup {<<R(a).content, R(a).oldThought>>}
         /\ receipts' = receipts \cup {draft[a]}
         /\ UNCHANGED told
         /\ HoldsEvent(a, R(a).source) /\ HoldsThought(a, R(a).oldThought)
         /\ HoldsText(a, R(a).content)
<1>1. pc[a] = "commit" /\ Applying(a) BY DEF Land, Applying
<1>2. R(a) \in Requests /\ draft[a].req = R(a) BY <1>1, CallType DEF Inv, TypeOK
<1>3. /\ thought[R(a).content] = "absent" /\ thought[R(a).oldThought] = "active"
      /\ AsExpected(a, event[R(a).source]) /\ draft[a].observed # NoEvent
  BY <1>1 DEF Inv, ChecksHold
<1>4. HoldsEvent(a, R(a).source) /\ HoldsThought(a, R(a).oldThought) /\ HoldsText(a, R(a).content)
  BY <1>1, <1>3 DEF HoldsEvent, HoldsThought, HoldsText, Applying
<1>5. QED BY <1>1, <1>2, <1>3, <1>4 DEF Land

\* Two supersessions that both hold what they need share none of it.
LEMMA LandKeepsChecks ==
  ASSUME Inv, NEW a \in Calls, Land(a), NEW b \in Calls, b # a
  PROVE  ChecksHold(b)'
<1>1. TypeOK /\ ChecksHold(b) BY DEF Inv
<1>2. Statement(a) BY DEF Statement
<1>3. pc'[b] = pc[b] /\ draft'[b] = draft[b] /\ R(b)' = R(b)
  BY <1>1, <1>2, OtherCallsStay
<1>4. CASE draft[a].outcome # "applied"
  BY <1>1, <1>3, <1>4 DEF Land, ChecksHold, Applying, AsExpected, HeadsChain
<1>5. CASE draft[a].outcome = "applied" /\ pc[b] # "unused"
  <2>1. R(b) \in Requests /\ R(a) \in Requests BY <1>1, <1>5, CallType, LandWrites
  <2>2. /\ R(a).source \in Sources /\ R(a).oldThought \in Contents /\ R(a).content \in Contents
        /\ R(b).source \in Sources /\ R(b).oldThought \in Contents /\ R(b).content \in Contents
    BY <2>1, RequestFields
  <2>3. ASSUME pc[b] \in {"thought", "lookup", "insert", "retract"} \/ Applying(b)
        PROVE  AsExpected(b, event[R(b).source])'
    <3>1. HoldsEvent(b, R(b).source)
      BY <1>1, <1>5, <2>3 DEF HoldsEvent, ChecksHold, Applying
    <3>2. R(a).source # R(b).source
      BY <1>5, <2>2, <3>1, LandWrites DEF Inv, LocksExclusive
    <3>3. event'[R(b).source] = event[R(b).source]
      BY <1>1, <1>5, <2>2, <3>2, LandWrites DEF TypeOK
    <3>4. QED BY <1>1, <1>3, <2>3, <3>3 DEF ChecksHold, AsExpected
  <2>4. ASSUME pc[b] \in {"lookup", "insert", "retract"} \/ Applying(b)
        PROVE  thought'[R(b).oldThought] = "active" /\ R(b).oldThought # R(a).content
    <3>1. HoldsThought(b, R(b).oldThought) /\ thought[R(b).oldThought] = "active"
      BY <1>1, <1>5, <2>4 DEF HoldsThought, ChecksHold, Applying
    <3>2. R(a).oldThought # R(b).oldThought
      BY <1>5, <2>2, <3>1, LandWrites DEF Inv, LocksExclusive
    <3>3. QED BY <1>1, <1>5, <2>2, <3>1, <3>2, LandWrites DEF TypeOK
  <2>5. ASSUME pc[b] = "retract" \/ Applying(b)
        PROVE  thought'[R(b).content] = "absent"
    <3>1. HoldsText(b, R(b).content) /\ thought[R(b).content] = "absent"
      BY <1>1, <1>5, <2>5 DEF HoldsText, ChecksHold, Applying
    <3>2. R(a).content # R(b).content
      BY <1>5, <2>2, <3>1, LandWrites DEF Inv, LocksExclusive
    <3>3. QED BY <1>1, <1>5, <2>2, <3>1, <3>2, LandWrites DEF TypeOK
  <2>6. ASSUME Applying(b)
        PROVE  ~HeadsChain(R(b).oldThought)' /\ draft'[b].observed # NoEvent
    <3>1. ~HeadsChain(R(b).oldThought) BY <1>1, <2>6 DEF ChecksHold
    <3>2. R(b).oldThought # R(a).content BY <2>4, <2>6
    <3>3. links' = links \cup {<<R(a).content, R(a).oldThought>>} BY <1>5, LandWrites
    <3>4. QED BY <1>1, <1>3, <2>6, <3>1, <3>2, <3>3 DEF HeadsChain, ChecksHold
  <2>7. QED BY <1>3, <2>3, <2>4, <2>5, <2>6 DEF ChecksHold, Applying
<1>6. CASE pc[b] = "unused" BY <1>3, <1>6 DEF ChecksHold, Applying
<1>7. QED BY <1>4, <1>5, <1>6

\* The rows a delivery, a retraction or an unlink changes are free, or as they should not be.
LEMMA OthersWrite ==
  ASSUME TypeOK, Others
  PROVE  /\ \A s \in Sources : event'[s] # event[s] => event[s] = NoEvent \/ EventFree(s)
         /\ \A t \in Contents : thought'[t] # thought[t] =>
              \/ thought[t] = "absent" /\ thought'[t] = "active" /\ TextFree(t)
              \/ thought[t] = "active" /\ thought'[t] = "retracted" /\ ThoughtFree(t)
         /\ links' \subseteq links
<1>1. ASSUME NEW s \in Sources, Resolve(s)
      PROVE  EventFree(s) /\ UNCHANGED <<thought, links>> /\ \A r \in Sources : r # s => event'[r] = event[r]
  BY <1>1 DEF Resolve, TypeOK
<1>2. ASSUME NEW s \in Sources, NEW h \in Hashes, FirstDelivery(s, h)
      PROVE  /\ event[s] = NoEvent /\ \A r \in Sources : r # s => event'[r] = event[r]
             /\ \A t \in Contents : thought'[t] # thought[t] =>
                  thought[t] = "absent" /\ thought'[t] = "active" /\ TextFree(t)
             /\ UNCHANGED links
  BY <1>2 DEF FirstDelivery, TypeOK
<1>3. ASSUME NEW s \in Sources, NEW h \in Hashes, Redelivery(s, h)
      PROVE  UNCHANGED <<thought, event, links>>
  BY <1>3 DEF Redelivery, tables
<1>4. ASSUME NEW s \in Sources, NEW h \in Hashes, ConflictingDelivery(s, h)
      PROVE  EventFree(s) /\ UNCHANGED <<thought, links>> /\ \A r \in Sources : r # s => event'[r] = event[r]
  BY <1>4 DEF ConflictingDelivery, TypeOK
<1>5. ASSUME NEW t \in Contents, Retract(t)
      PROVE  /\ UNCHANGED <<event, links>>
             /\ ThoughtFree(t) /\ thought[t] = "active" /\ thought'[t] = "retracted"
             /\ \A u \in Contents : u # t => thought'[u] = thought[u]
  BY <1>5 DEF Retract, TypeOK
<1>6. ASSUME NEW l \in links, Unlink(l)
      PROVE  UNCHANGED <<event, thought>> /\ links' \subseteq links
  BY <1>6 DEF Unlink
<1>7. CASE \E s \in Sources : Resolve(s) BY <1>1, <1>7
<1>8. CASE \E s \in Sources, h \in Hashes : FirstDelivery(s, h) BY <1>2, <1>8
<1>9. CASE \E s \in Sources, h \in Hashes : Redelivery(s, h) BY <1>3, <1>9
<1>10. CASE \E s \in Sources, h \in Hashes : ConflictingDelivery(s, h) BY <1>4, <1>10
<1>11. CASE \E t \in Contents : Retract(t) BY <1>5, <1>11
<1>12. CASE \E l \in links : Unlink(l) BY <1>6, <1>12
<1>13. QED BY <1>7, <1>8, <1>9, <1>10, <1>11, <1>12 DEF Others, Delivery

LEMMA OthersKeepChecks ==
  ASSUME Inv, Others, NEW b \in Calls
  PROVE  ChecksHold(b)'
<1>1. TypeOK /\ ChecksHold(b) BY DEF Inv
<1>2. pc'[b] = pc[b] /\ draft'[b] = draft[b] /\ R(b)' = R(b) BY <1>1, OthersMove DEF R
<1>3. CASE pc[b] # "unused"
  <2>1. R(b).source \in Sources /\ R(b).oldThought \in Contents /\ R(b).content \in Contents
    BY <1>1, <1>3, CallType, RequestFields
  <2>2. ASSUME pc[b] \in {"thought", "lookup", "insert", "retract"} \/ Applying(b)
        PROVE  AsExpected(b, event[R(b).source])'
    <3>1. HoldsEvent(b, R(b).source) /\ AsExpected(b, event[R(b).source])
      BY <1>1, <1>3, <2>2 DEF HoldsEvent, ChecksHold, Applying
    <3>2. event'[R(b).source] = event[R(b).source]
      BY <1>1, <2>1, <3>1, OthersWrite DEF EventFree, AsExpected
    <3>3. QED BY <1>2, <3>1, <3>2 DEF AsExpected
  <2>3. ASSUME pc[b] \in {"lookup", "insert", "retract"} \/ Applying(b)
        PROVE  thought'[R(b).oldThought] = "active"
    <3>1. HoldsThought(b, R(b).oldThought) /\ thought[R(b).oldThought] = "active"
      BY <1>1, <1>3, <2>3 DEF HoldsThought, ChecksHold, Applying
    <3>2. QED BY <1>1, <2>1, <3>1, OthersWrite DEF ThoughtFree
  <2>4. ASSUME pc[b] = "retract" \/ Applying(b)
        PROVE  thought'[R(b).content] = "absent"
    <3>1. HoldsText(b, R(b).content) /\ thought[R(b).content] = "absent"
      BY <1>1, <1>3, <2>4 DEF HoldsText, ChecksHold, Applying
    <3>2. QED BY <1>1, <2>1, <3>1, OthersWrite DEF TextFree
  <2>5. ASSUME Applying(b)
        PROVE  ~HeadsChain(R(b).oldThought)' /\ draft'[b].observed # NoEvent
    <3>1. links' \subseteq links BY <1>1, OthersWrite
    <3>2. QED BY <1>1, <1>2, <2>5, <3>1 DEF HeadsChain, ChecksHold
  <2>6. QED BY <1>2, <2>2, <2>3, <2>4, <2>5 DEF ChecksHold, Applying
<1>4. CASE pc[b] = "unused" BY <1>2, <1>4 DEF ChecksHold, Applying
<1>5. QED BY <1>3, <1>4

LEMMA NextChecks == Inv /\ [Next]_vars => \A b \in Calls : ChecksHold(b)'
<1>. SUFFICES ASSUME Inv, [Next]_vars, NEW b \in Calls PROVE ChecksHold(b)'
  OBVIOUS
<1>0. TypeOK /\ CallsInOrder /\ ChecksHold(b) BY DEF Inv
<1>1. CASE \E a \in Calls : Statement(a)
  <2>1. PICK a \in Calls : Statement(a) BY <1>1
  <2>2. CASE b = a BY <2>1, <2>2, OwnChecks
  <2>3. CASE b # a /\ Land(a) BY <2>3, LandKeepsChecks
  <2>4. CASE b # a /\ ~Land(a)
    <3>1. pc'[b] = pc[b] /\ draft'[b] = draft[b] /\ R(b)' = R(b)
      BY <1>0, <2>1, <2>4, OtherCallsStay
    <3>2. UNCHANGED <<thought, event, links>> BY <2>1, <2>4, OnlyLandWrites
    <3>3. QED BY <1>0, <3>1, <3>2 DEF ChecksHold, Applying, AsExpected, HeadsChain
  <2>5. QED BY <2>2, <2>3, <2>4
<1>2. CASE Others BY <1>2, OthersKeepChecks
<1>3. CASE ~(\E a \in Calls : Statement(a)) /\ ~Others
  <2>1. UNCHANGED <<thought, event, links>>
    BY <1>3, NextKinds DEF LoseConnection, Call, vars, tables
  <2>2. CASE pc'[b] = pc[b] /\ draft'[b] = draft[b] /\ (pc[b] # "unused" => R(b)' = R(b))
    BY <1>0, <2>1, <2>2 DEF ChecksHold, Applying, AsExpected, HeadsChain
  <2>3. CASE pc'[b] = "begin" BY <2>3 DEF ChecksHold, Applying
  <2>4. QED BY <1>0, <1>3, <2>2, <2>3, QuietCalls
<1>4. QED BY <1>1, <1>2, <1>3

------------------------------------------------------------------------------
(***************************************************************************)
(* One step: receipts, bindings, and what is superseded.                   *)
(***************************************************************************)
LEMMA NextReceipts == Inv /\ [Next]_vars => ReceiptsFinal'
<1>. SUFFICES ASSUME Inv, [Next]_vars PROVE ReceiptsFinal'
  OBVIOUS
<1>0. TypeOK /\ CallsInOrder /\ LocksExclusive /\ ReceiptsFinal BY DEF Inv
<1>1. CASE \E a \in Calls : Statement(a)
  <2>1. PICK a \in Calls : Statement(a) BY <1>1
  <2>2. R(a) \in Requests /\ R(a).id \in Ids BY <1>0, <2>1, StatementMoves, RequestFields
  <2>3. \A b \in Calls : b # a => pc'[b] = pc[b] /\ replies'[b] = replies[b] /\ R(b)' = R(b)
    BY <1>0, <2>1, OtherCallsStay
  <2>4. R(a)' = R(a) BY <1>0, <2>1, StatementMoves DEF R
  <2>5. CASE Land(a)
    <3>1. /\ pc[a] = "commit" /\ draft[a].req = R(a) /\ pc'[a] = "over"
          /\ receipts' = receipts \cup {draft[a]}
          /\ \/ replies'[a] = replies[a] 
             \/ replies'[a] = [kind |-> "error"]
             \/ replies'[a] = [kind |-> "receipt", receipt |-> draft[a]]
      BY <1>0, <2>5 DEF Land, Over, GoTo, Answered, TypeOK
    <3>2. \A x \in receipts : x.req.id # R(a).id BY <1>0, <3>1 DEF ReceiptsFinal, OpenPcs
    <3>3. \A x, y \in receipts' : x.req.id = y.req.id => x = y
      BY <1>0, <3>1, <3>2 DEF ReceiptsFinal, OneReceiptPerRequest
    <3>4. \A b \in Calls : replies'[b].kind = "receipt" =>
            replies'[b].receipt \in receipts' /\ replies'[b].receipt.req = R(b)'
      BY <1>0, <2>3, <2>4, <3>1 DEF ReceiptsFinal, OneReceiptPerRequest
    <3>5. ASSUME NEW b \in Calls, pc'[b] \in OpenPcs \ {"begin"}, NEW x \in receipts'
          PROVE  x.req.id # (R(b).id)'
      <4>1. b # a /\ pc[b] = pc'[b] BY <2>3, <3>1, <3>5 DEF OpenPcs
      <4>2. R(b).id \in Ids BY <1>0, <3>5, <4>1, CallType, RequestFields DEF OpenPcs
      <4>3. HoldsId(b, R(b).id) /\ HoldsId(a, R(a).id)
        BY <3>1, <3>5, <4>1 DEF HoldsId, OpenPcs
      <4>4. R(b).id # R(a).id BY <1>0, <4>1, <4>2, <4>3 DEF LocksExclusive
      <4>5. QED BY <1>0, <2>3, <3>1, <3>5, <4>1, <4>4 DEF ReceiptsFinal
    <3>6. QED BY <3>3, <3>4, <3>5 DEF ReceiptsFinal, OneReceiptPerRequest
  <2>6. CASE ~Land(a)
    <3>1. receipts' = receipts BY <2>1, <2>6, OnlyLandWrites
    <3>2. \/ replies'[a] = replies[a]
          \/ replies'[a].kind \in {"refused", "error"}
          \/ \E x \in receipts : x.req = R(a) /\ replies'[a] = [kind |-> "receipt", receipt |-> x]
      BY <1>0, <2>1, <2>6
         DEF Statement, Begin, Replayed, IdReused, LockEvent, LockThought, ThoughtUnavailable,
             Lookup, Insert, InsertRaises, Supersede, SupersedeRaises, Abort, Raise, Answered,
             InDatabase, SameRequest, TypeOK
    <3>3. pc'[a] \in OpenPcs \ {"begin"} => \A x \in receipts : x.req.id # R(a).id
      BY <1>0, <2>1, <2>6
         DEF Statement, Begin, Replayed, IdReused, LockEvent, LockThought, ThoughtUnavailable,
             Lookup, Insert, InsertRaises, Supersede, SupersedeRaises, Abort, Raise, Over, Decide,
             GoTo, ReceiptsFinal, OpenPcs, TypeOK
    <3>4. \A b \in Calls : replies'[b].kind = "receipt" =>
            replies'[b].receipt \in receipts' /\ replies'[b].receipt.req = R(b)'
      <4>. SUFFICES ASSUME NEW b \in Calls, replies'[b].kind = "receipt"
                    PROVE  replies'[b].receipt \in receipts /\ replies'[b].receipt.req = R(b)
        BY <2>3, <2>4, <3>1
      <4>1. CASE b # a BY <1>0, <2>3, <4>1 DEF ReceiptsFinal, OneReceiptPerRequest
      <4>2. CASE b = a
        <5>1. CASE replies'[a] = replies[a]
          BY <1>0, <4>2, <5>1 DEF ReceiptsFinal, OneReceiptPerRequest
        <5>2. CASE \E x \in receipts :
                     x.req = R(a) /\ replies'[a] = [kind |-> "receipt", receipt |-> x]
          BY <4>2, <5>2
        <5>3. QED BY <3>2, <4>2, <5>1, <5>2
      <4>3. QED BY <4>1, <4>2
    <3>5. \A b \in Calls : pc'[b] \in OpenPcs \ {"begin"} => \A x \in receipts' : x.req.id # (R(b).id)'
      <4>. SUFFICES ASSUME NEW b \in Calls, pc'[b] \in OpenPcs \ {"begin"}
                    PROVE  \A x \in receipts : x.req.id # R(b).id
        BY <2>3, <2>4, <3>1
      <4>1. CASE b # a BY <1>0, <2>3, <4>1 DEF ReceiptsFinal
      <4>2. CASE b = a BY <3>3, <4>2
      <4>3. QED BY <4>1, <4>2
    <3>6. QED BY <1>0, <3>1, <3>4, <3>5 DEF ReceiptsFinal, OneReceiptPerRequest
  <2>7. QED BY <2>5, <2>6
<1>2. CASE ~(\E a \in Calls : Statement(a))
  <2>1. receipts' = receipts BY <1>0, <1>2, QuietCalls
  <2>2. \A b \in Calls : replies'[b] = replies[b] \/ replies'[b].kind = "error"
    <3>1. CASE \E a \in Calls : LoseConnection(a)
      BY <1>0, <3>1 DEF LoseConnection, TypeOK
    <3>2. CASE \E c \in Clients, n \in 1..MaxCalls : Call(c, n) BY <3>2 DEF Call
    <3>3. CASE Others BY <1>0, <3>3, OthersMove
    <3>4. CASE UNCHANGED vars BY <3>4 DEF vars
    <3>5. QED BY <1>2, <3>1, <3>2, <3>3, <3>4, NextKinds
  <2>3. \A b \in Calls : pc[b] # "unused" => R(b)' = R(b)
    BY <1>0, <1>2, QuietCalls, CallMoves, NextKinds, OthersMove DEF LoseConnection, vars, R
  <2>4. \A b \in Calls : replies[b].kind = "receipt" => pc[b] # "unused"
    BY <1>0 DEF CallsInOrder, NoReply
  <2>5. \A b \in Calls : pc'[b] \in OpenPcs \ {"begin"} => pc[b] = pc'[b] /\ R(b)' = R(b)
    BY <1>0, <1>2, <2>3, QuietCalls DEF OpenPcs
  <2>6. QED BY <1>0, <2>1, <2>2, <2>3, <2>4, <2>5 DEF ReceiptsFinal, OneReceiptPerRequest
<1>3. QED BY <1>1, <1>2

LEMMA NextBindings ==
  Inv /\ [Next]_vars => BoundToText' /\ SupersededForGood'
<1>. SUFFICES ASSUME Inv, [Next]_vars PROVE BoundToText' /\ SupersededForGood'
  OBVIOUS
<1>0. TypeOK /\ BoundToText /\ SupersededForGood BY DEF Inv
<1>1. ASSUME NEW x \in Applied
      PROVE  /\ x.req \in Requests /\ x.req.source \in Sources
             /\ x.req.oldThought \in Contents /\ x.req.oldHash \in Hashes
  BY <1>0, RequestFields DEF Applied, TypeOK, Receipts
<1>2. CASE \E a \in Calls : Land(a) /\ draft[a].outcome = "applied"
  <2>1. PICK a \in Calls : Land(a) /\ draft[a].outcome = "applied" BY <1>2
  <2>. DEFINE s == R(a).source
              c == R(a).content
              o == R(a).oldThought
  <2>2. /\ s \in Sources /\ c \in Contents /\ o \in Contents /\ R(a).hash \in Hashes
        /\ c = TextOf[R(a).hash] /\ draft[a].req = R(a)
    BY <2>1, LandWrites, RequestFields
  <2>3. /\ c # o /\ thought[c] = "absent" /\ thought[o] = "active"
        /\ thought' = [thought EXCEPT ![c] = "active", ![o] = "retracted"]
        /\ event' = [event EXCEPT ![s] = NewRow(a)]
        /\ receipts' = receipts \cup {draft[a]}
        /\ event[s] # NoEvent /\ event[s].hash = R(a).oldHash /\ event[s].thought = o
    BY <2>1, LandWrites DEF AsExpected
  <2>. HIDE DEF s, c, o
  <2>4. Applied' = Applied \cup {draft[a]} BY <2>1, <2>3 DEF Applied
  <2>5. NewRow(a) \in EventRows /\ NewRow(a).hash = R(a).hash /\ NewRow(a).thought = c
    BY <2>2 DEF NewRow, EventRows, c
  <2>6. \A r \in Sources : event'[r] = IF r = s THEN NewRow(a) ELSE event[r]
    BY <1>0, <2>2, <2>3 DEF TypeOK
  <2>7. \A t \in Contents : thought'[t] = IF t = o THEN "retracted"
                                          ELSE IF t = c THEN "active" ELSE thought[t]
    BY <1>0, <2>2, <2>3 DEF TypeOK
  <2>8. NewRow(a) # NoEvent BY <2>5, Distinct
  <2>9. o = TextOf[R(a).oldHash] BY <1>0, <2>2, <2>3 DEF BoundToText
  <2>10. draft[a].req.source = s /\ draft[a].req.oldThought = o /\ draft[a].req.oldHash = R(a).oldHash
    BY <2>2 DEF s, o
  <2>11. BoundToText'
    BY <1>0, <1>1, <2>2, <2>4, <2>5, <2>6, <2>8, <2>9, <2>10 DEF BoundToText
  <2>12. \A x \in Applied : /\ thought'[x.req.oldThought] = "retracted"
                            /\ event'[x.req.source].thought # x.req.oldThought
                            /\ x.req.oldThought # o
    <3>. SUFFICES ASSUME NEW x \in Applied
                  PROVE  /\ thought'[x.req.oldThought] = "retracted"
                         /\ event'[x.req.source].thought # x.req.oldThought
                         /\ x.req.oldThought # o
      OBVIOUS
    <3>1. /\ thought[x.req.oldThought] = "retracted" /\ event[x.req.source].thought # x.req.oldThought
          /\ x.req.oldThought \in Contents /\ x.req.source \in Sources
      BY <1>0, <1>1 DEF SupersededForGood
    <3>2. x.req.oldThought # o /\ x.req.oldThought # c BY <2>3, <3>1
    <3>3. QED BY <2>5, <2>6, <2>7, <3>1, <3>2
  <2>13. thought'[o] = "retracted" /\ event'[s].thought # o
    BY <2>2, <2>3, <2>5, <2>6, <2>7
  <2>14. SupersededForGood'
    BY <1>0, <2>4, <2>10, <2>12, <2>13 DEF SupersededForGood
  <2>15. QED BY <2>11, <2>14
<1>3. CASE (\E a \in Calls : Statement(a)) /\ ~(\E a \in Calls : Land(a) /\ draft[a].outcome = "applied")
  <2>1. PICK a \in Calls : Statement(a) BY <1>3
  <2>2. UNCHANGED <<thought, event>> /\ Applied' = Applied
    BY <1>3, <2>1, OnlyLandWrites DEF Land, Applied
  <2>3. QED BY <1>0, <2>2 DEF BoundToText, SupersededForGood
<1>4. CASE Others
  <2>1. Applied' = Applied BY <1>0, <1>4, OthersMove DEF Applied
  <2>2. \A t \in Contents : thought[t] = "retracted" => thought'[t] = "retracted"
    BY <1>0, <1>4, OthersWrite
  <2>3. \A r \in Sources :
          \/ event'[r] = event[r]
          \/ event[r] = NoEvent /\ event'[r] # NoEvent /\ event'[r].thought = TextOf[event'[r].hash]
          \/ /\ event[r] # NoEvent /\ event'[r] # NoEvent
             /\ event'[r].thought = event[r].thought /\ event'[r].hash = event[r].hash
    <3>1. ASSUME NEW r \in Sources, event[r] # NoEvent, NEW status \in {"conflict", "resolved"},
                 event' = [event EXCEPT ![r].status = status]
          PROVE  /\ \A q \in Sources : q # r => event'[q] = event[q]
                 /\ event'[r] # NoEvent
                 /\ event'[r].thought = event[r].thought /\ event'[r].hash = event[r].hash
      <4>1. event[r] \in EventRows BY <1>0, <3>1 DEF TypeOK
      <4>2. event'[r] = [event[r] EXCEPT !.status = status] BY <1>0, <3>1 DEF TypeOK
      <4>3. event'[r] \in EventRows /\ event'[r].thought = event[r].thought
            /\ event'[r].hash = event[r].hash
        BY <4>1, <4>2 DEF EventRows
      <4>4. QED BY <1>0, <3>1, <4>3, Distinct DEF TypeOK
    <3>2. ASSUME NEW r \in Sources, Resolve(r)
          PROVE  event' = [event EXCEPT ![r].status = "resolved"] /\ event[r] # NoEvent
      BY <3>2 DEF Resolve
    <3>3. ASSUME NEW r \in Sources, NEW h \in Hashes, ConflictingDelivery(r, h)
          PROVE  event' = [event EXCEPT ![r].status = "conflict"] /\ event[r] # NoEvent
      BY <3>3 DEF ConflictingDelivery
    <3>4. ASSUME NEW r \in Sources, NEW h \in Hashes, FirstDelivery(r, h)
          PROVE  /\ \A q \in Sources : q # r => event'[q] = event[q]
                 /\ event[r] = NoEvent /\ event'[r] # NoEvent
                 /\ event'[r].thought = TextOf[event'[r].hash]
      BY <1>0, <3>4 DEF FirstDelivery, NoEvent, TypeOK
    <3>5. CASE \E r \in Sources : Resolve(r) BY <3>1, <3>2, <3>5
    <3>6. CASE \E r \in Sources, h \in Hashes : ConflictingDelivery(r, h) BY <3>1, <3>3, <3>6
    <3>7. CASE \E r \in Sources, h \in Hashes : FirstDelivery(r, h) BY <3>4, <3>7
    <3>8. CASE \E r \in Sources, h \in Hashes : Redelivery(r, h) BY <3>8 DEF Redelivery, tables
    <3>9. CASE (\E t \in Contents : Retract(t)) \/ (\E l \in links : Unlink(l))
      BY <3>9 DEF Retract, Unlink
    <3>10. QED BY <1>4, <3>5, <3>6, <3>7, <3>8, <3>9 DEF Others, Delivery
  <2>4. \A x \in Applied : /\ event[x.req.source] # NoEvent
                           /\ event'[x.req.source] # NoEvent
                           /\ event'[x.req.source].thought = event[x.req.source].thought
    BY <1>0, <1>1, <2>3 DEF BoundToText
  <2>5. BoundToText' BY <1>0, <2>1, <2>3, <2>4 DEF BoundToText
  <2>6. SupersededForGood' BY <1>0, <1>1, <2>1, <2>2, <2>4 DEF SupersededForGood
  <2>7. QED BY <2>5, <2>6
<1>5. CASE ~(\E a \in Calls : Statement(a)) /\ ~Others
  <2>1. UNCHANGED <<thought, event, receipts>>
    BY <1>5, NextKinds DEF LoseConnection, Call, vars, tables
  <2>2. QED BY <1>0, <2>1 DEF BoundToText, SupersededForGood, Applied
<1>6. QED BY <1>2, <1>3, <1>4, <1>5

LEMMA NextInv == Inv /\ [Next]_vars => Inv'
BY NextType, NextLocks, NextChecks, NextReceipts, NextBindings DEF Inv

(***************************************************************************)
(* Every step of Supersession leaves rows, receipts and calls of their     *)
(* types: NewRow is one of the statuses that the table knows.              *)
(***************************************************************************)
THEOREM SupersessionTypeCorrect == Spec => []TypeOK
<1>1. Inv => TypeOK BY DEF Inv
<1>2. QED BY <1>1, InitInv, NextInv, PTL DEF Spec

(***************************************************************************)
(* A request id has one receipt for good, and every caller is given it:    *)
(* the advisory lock and the lookup under it, for any number of callers.   *)
(***************************************************************************)
THEOREM ReceiptsAnswerForGood == Spec => []OneReceiptPerRequest
<1>1. Inv => OneReceiptPerRequest BY DEF Inv, ReceiptsFinal
<1>2. QED BY <1>1, InitInv, NextInv, PTL DEF Spec

(***************************************************************************)
(* A superseded thought stays retracted, its event never returns to it and *)
(* it is superseded for an event once.                                     *)
(***************************************************************************)
THEOREM SupersessionIsFinal == Spec => []SupersededForGood
<1>1. Inv => SupersededForGood BY DEF Inv
<1>2. QED BY <1>1, InitInv, NextInv, PTL DEF Spec

(***************************************************************************)
(* What the call checked of event, thoughts and links holds when it lands. *)
(***************************************************************************)
THEOREM ChecksHoldAtCommit == Spec => AppliedAsApproved
<1>1. ASSUME Inv, NEW a \in Calls, Land(a), draft[a].outcome = "applied"
      PROVE  /\ AsExpected(a, event[R(a).source])
             /\ thought[R(a).oldThought] = "active" /\ ~HeadsChain(R(a).oldThought)
             /\ thought[R(a).content] = "absent"
  BY <1>1, LandWrites DEF Inv, ChecksHold
<1>2. Inv /\ [Next]_vars =>
        [\A a \in Calls :
           Land(a) /\ draft[a].outcome = "applied" =>
             /\ AsExpected(a, event[R(a).source])
             /\ thought[R(a).oldThought] = "active" /\ ~HeadsChain(R(a).oldThought)
             /\ thought[R(a).content] = "absent"]_vars
  BY <1>1
<1>3. QED BY <1>2, InitInv, NextInv, PTL DEF Spec, AppliedAsApproved

------------------------------------------------------------------------------
(***************************************************************************)
(* The refinement: each step of Supersession is a step of SourceLedger, or *)
(* leaves its rows, bindings and answers as they are.                      *)
(***************************************************************************)
LedgerRows == [s \in Sources |-> LedgerRow(s)]
Bound == Current \cup Superseded

LEMMA InitLedger == Init => Ledger!Init
<1>. SUFFICES ASSUME Init PROVE Ledger!Init
  OBVIOUS
<1>1. \A s \in Sources : LedgerRow(s) = Ledger!Unbound
  BY DEF Init, LedgerRow, NoEvent, Ledger!Unbound
<1>2. Current = {} /\ Superseded = {} BY DEF Init, Current, Superseded, Applied
<1>3. QED BY <1>1, <1>2 DEF Init, Ledger!Init

\* What an event is bound to, of every step that changes only its status or another event.
LEMMA SameBindings ==
  ASSUME receipts' = receipts,
         \A s \in Sources : (event'[s] = NoEvent <=> event[s] = NoEvent)
                         /\ event'[s].hash = event[s].hash /\ event'[s].thought = event[s].thought
  PROVE  Bound' = Bound
<1>1. \A s \in Sources : Binding(s, event'[s].hash, event'[s].thought)
                          = Binding(s, event[s].hash, event[s].thought)
  OBVIOUS
<1>2. Current' = Current BY <1>1 DEF Current
<1>3. QED BY <1>2 DEF Bound, Superseded, Applied

LEMMA StatusStep ==
  ASSUME TypeOK, NEW s \in Sources, NEW status \in {"conflict", "resolved"}, event[s] # NoEvent,
         event' = [event EXCEPT ![s].status = status], UNCHANGED <<receipts, told>>
  PROVE  \E disputed \in BOOLEAN : Ledger!Dispute(s, disputed)
<1>1. event[s] \in EventRows BY DEF TypeOK
<1>2. /\ event'[s] \in EventRows /\ event'[s].status = status
      /\ event'[s].hash = event[s].hash /\ event'[s].thought = event[s].thought
      /\ \A r \in Sources : r # s => event'[r] = event[r]
  BY <1>1 DEF TypeOK, EventRows
<1>3. event'[s] # NoEvent BY <1>2, Distinct
<1>4. Bound' = Bound BY <1>2, <1>3, SameBindings
<1>5. LedgerRow(s) = [disputed |-> event[s].status = "conflict", hash |-> event[s].hash,
                      thought |-> event[s].thought]
  BY DEF LedgerRow
<1>6. LedgerRow(s)' = [disputed |-> status = "conflict", hash |-> event[s].hash,
                       thought |-> event[s].thought]
  BY <1>2, <1>3 DEF LedgerRow
<1>7. LedgerRow(s)' = [LedgerRow(s) EXCEPT !.disputed = (status = "conflict")]
  BY <1>5, <1>6
<1>8. \A r \in Sources : r # s => LedgerRow(r)' = LedgerRow(r) BY <1>2 DEF LedgerRow
<1>9. LedgerRows' = [LedgerRows EXCEPT ![s].disputed = (status = "conflict")]
  BY <1>7, <1>8 DEF LedgerRows
<1>10. LedgerRows[s] # Ledger!Unbound
  BY <1>5 DEF LedgerRows, Ledger!Unbound
<1>11. Ledger!Dispute(s, status = "conflict")
  BY <1>4, <1>9, <1>10 DEF Ledger!Dispute, LedgerRows, Bound
<1>12. (status = "conflict") \in BOOLEAN OBVIOUS
<1>13. QED BY <1>11, <1>12

LEMMA FirstDeliveryBinds ==
  ASSUME TypeOK, NEW s \in Sources, NEW h \in Hashes, FirstDelivery(s, h)
  PROVE  Ledger!Bind(s, h, TextOf[h])
<1>. DEFINE c == TextOf[h]
<1>1. /\ event[s] = NoEvent /\ event'[s] = [status |-> "stored", hash |-> h, thought |-> c]
      /\ \A r \in Sources : r # s => event'[r] = event[r]
      /\ UNCHANGED receipts /\ told' = told \cup {Binding(s, h, c)}
  BY DEF FirstDelivery, TypeOK
<1>. HIDE DEF c
<1>2. event'[s] # NoEvent /\ event'[s].status # "conflict" /\ event'[s].hash = h
      /\ event'[s].thought = c
  BY <1>1 DEF NoEvent
<1>3. LedgerRow(s)' = Ledger!Row(h, c) BY <1>2 DEF LedgerRow, Ledger!Row
<1>4. \A r \in Sources : r # s => LedgerRow(r)' = LedgerRow(r) BY <1>1 DEF LedgerRow
<1>5. LedgerRows' = [LedgerRows EXCEPT ![s] = Ledger!Row(h, c)]
  BY <1>3, <1>4 DEF LedgerRows
<1>6. LedgerRows[s] = Ledger!Unbound
  BY <1>1 DEF LedgerRows, LedgerRow, NoEvent, Ledger!Unbound
<1>7. Current' = Current \cup {Binding(s, h, c)}
  BY <1>1, <1>2 DEF Current
<1>8. Superseded' = Superseded BY <1>1 DEF Superseded, Applied
<1>9. Bound' = Bound \cup {Binding(s, h, c)} BY <1>7, <1>8 DEF Bound
<1>10. Binding(s, h, c) = Ledger!Binding(s, h, c) BY DEF Binding, Ledger!Binding
<1>11. QED BY <1>1, <1>5, <1>6, <1>9, <1>10 DEF Ledger!Bind, LedgerRows, Bound, c

LEMMA RedeliveryTells ==
  ASSUME NEW s \in Sources, NEW h \in Hashes, Redelivery(s, h)
  PROVE  \E x \in Bound : Ledger!Tell(x)
<1>. DEFINE x == Binding(s, h, event[s].thought)
<1>1. x \in Current BY DEF Redelivery, Current
<1>2. UNCHANGED <<event, receipts>> /\ told' = told \cup {x} BY DEF Redelivery, tables
<1>3. LedgerRows' = LedgerRows /\ Bound' = Bound
  BY <1>2 DEF LedgerRows, LedgerRow, Bound, Current, Superseded, Applied
<1>. HIDE DEF x
<1>4. Ledger!Tell(x) BY <1>1, <1>2, <1>3 DEF Ledger!Tell, LedgerRows, Bound
<1>5. QED BY <1>1, <1>4 DEF Bound

LEMMA LandSupersedes ==
  ASSUME Inv, NEW a \in Calls, Land(a), draft[a].outcome = "applied"
  PROVE  Ledger!Supersede(R(a).source, R(a).hash, R(a).content)
<1>. SUFFICES ASSUME NEW s, NEW h, NEW c, NEW o, NEW p,
                     s = R(a).source, h = R(a).hash, c = R(a).content,
                     o = R(a).oldThought, p = R(a).oldHash
              PROVE  Ledger!Supersede(s, h, c)
  OBVIOUS
<1>1. /\ s \in Sources /\ h \in Hashes /\ c \in Contents /\ c = TextOf[h] /\ p # h /\ c # o
      /\ thought[c] = "absent"
      /\ event[s] # NoEvent /\ event[s].status = "conflict"
      /\ event[s].hash = p /\ event[s].thought = o
      /\ event' = [event EXCEPT ![s] = NewRow(a)]
      /\ receipts' = receipts \cup {draft[a]} /\ UNCHANGED told
      /\ NewRow(a) = [status |-> "stored", hash |-> h, thought |-> c]
      /\ draft[a].req = R(a)
  BY LandWrites, RequestFields DEF AsExpected, NewRow
<1>2. /\ event'[s] = [status |-> "stored", hash |-> h, thought |-> c]
      /\ \A r \in Sources : r # s => event'[r] = event[r]
  BY <1>1 DEF Inv, TypeOK
<1>3. event'[s] # NoEvent /\ event'[s].status # "conflict" /\ event'[s].hash = h
      /\ event'[s].thought = c
  BY <1>2 DEF NoEvent
<1>4. LedgerRow(s)' = Ledger!Row(h, c) BY <1>3 DEF LedgerRow, Ledger!Row
<1>5. \A r \in Sources : r # s => LedgerRow(r)' = LedgerRow(r) BY <1>2 DEF LedgerRow
<1>6. LedgerRows' = [LedgerRows EXCEPT ![s] = Ledger!Row(h, c)]
  BY <1>4, <1>5 DEF LedgerRows
<1>7. LedgerRows[s] = [disputed |-> TRUE, hash |-> p, thought |-> o]
  BY <1>1 DEF LedgerRows, LedgerRow
<1>8. LedgerRows[s] # Ledger!Unbound /\ LedgerRows[s].disputed
  BY <1>7 DEF Ledger!Unbound
<1>9. Superseded' = Superseded \cup {Binding(s, p, o)}
  BY <1>1 DEF Superseded, Applied
<1>10. Current' \cup {Binding(s, p, o)} = Current \cup {Binding(s, h, c)}
  BY <1>1, <1>2, <1>3 DEF Current
<1>11. Bound' = Bound \cup {Binding(s, h, c)} BY <1>9, <1>10 DEF Bound
<1>12. ASSUME NEW x \in Bound, x.source = s PROVE x.hash # h /\ x.thought # c
  <2>1. CASE x \in Current
    <3>1. PICK r \in Sources : x = Binding(r, event[r].hash, event[r].thought)
      BY <2>1 DEF Current
    <3>2. r = s /\ x.hash = event[s].hash /\ x.thought = event[s].thought
      BY <1>12, <3>1 DEF Binding
    <3>3. QED BY <1>1, <3>2
  <2>2. CASE x \in Superseded
    <3>1. PICK y \in Applied : x = Binding(y.req.source, y.req.oldHash, y.req.oldThought)
      BY <2>2 DEF Superseded
    <3>2. x.hash = y.req.oldHash /\ x.thought = y.req.oldThought BY <3>1 DEF Binding
    <3>3. thought[y.req.oldThought] = "retracted" /\ y.req.oldThought = TextOf[y.req.oldHash]
      BY DEF Inv, SupersededForGood, BoundToText
    <3>4. QED BY <1>1, <3>2, <3>3
  <2>3. QED BY <2>1, <2>2 DEF Bound
<1>13. Binding(s, h, c) = Ledger!Binding(s, h, c) BY DEF Binding, Ledger!Binding
<1>14. QED BY <1>1, <1>6, <1>8, <1>11, <1>12, <1>13
       DEF Ledger!Supersede, LedgerRows, Bound

\* Everything else is no step of the ledger.
LEMMA LedgerStutters ==
  ASSUME UNCHANGED <<event, told>>, Applied' = Applied
  PROVE  UNCHANGED <<LedgerRows, Bound, told>>
BY DEF LedgerRows, LedgerRow, Bound, Current, Superseded

LEMMA NextLedger ==
  Inv /\ [Next]_vars => [Ledger!LedgerNext]_<<LedgerRows, Bound, told>>
<1>. SUFFICES ASSUME Inv, [Next]_vars
              PROVE  Ledger!LedgerNext \/ UNCHANGED <<LedgerRows, Bound, told>>
  OBVIOUS
<1>0. TypeOK BY DEF Inv
<1>1. CASE \E a \in Calls : Statement(a)
  <2>1. PICK a \in Calls : Statement(a) BY <1>1
  <2>2. CASE Land(a) /\ draft[a].outcome = "applied"
    <3>1. R(a).source \in Sources /\ R(a).hash \in Hashes /\ R(a).content \in Contents
      BY <2>2, LandWrites, RequestFields
    <3>2. QED BY <2>2, <3>1, LandSupersedes DEF Ledger!LedgerNext
  <2>3. CASE Land(a) /\ draft[a].outcome # "applied"
    <3>1. UNCHANGED <<event, told>> /\ Applied' = Applied BY <2>3 DEF Land, Applied
    <3>2. QED BY <3>1, LedgerStutters
  <2>4. CASE ~Land(a)
    <3>1. UNCHANGED <<event, told>> /\ Applied' = Applied
      BY <2>1, <2>4, OnlyLandWrites DEF Applied
    <3>2. QED BY <3>1, LedgerStutters
  <2>5. QED BY <2>2, <2>3, <2>4
<1>2. CASE \E s \in Sources : Resolve(s)
  <2>1. PICK s \in Sources : Resolve(s) BY <1>2
  <2>2. \E disputed \in BOOLEAN : Ledger!Dispute(s, disputed)
    BY <1>0, <2>1, StatusStep DEF Resolve
  <2>3. QED BY <2>2 DEF Ledger!LedgerNext
<1>3. CASE \E s \in Sources, h \in Hashes : Delivery(s, h)
  <2>1. PICK s \in Sources, h \in Hashes : Delivery(s, h) BY <1>3
  <2>2. CASE FirstDelivery(s, h)
    <3>1. TextOf[h] \in Contents BY SupersessionAssumption
    <3>2. QED BY <1>0, <2>2, <3>1, FirstDeliveryBinds DEF Ledger!LedgerNext
  <2>3. CASE Redelivery(s, h)
    BY <2>3, RedeliveryTells DEF Ledger!LedgerNext, Bound
  <2>4. CASE ConflictingDelivery(s, h)
    <3>1. \E disputed \in BOOLEAN : Ledger!Dispute(s, disputed)
      BY <1>0, <2>4, StatusStep DEF ConflictingDelivery
    <3>2. QED BY <3>1 DEF Ledger!LedgerNext
  <2>5. QED BY <2>1, <2>2, <2>3, <2>4 DEF Delivery
<1>4. CASE (\E t \in Contents : Retract(t)) \/ (\E l \in links : Unlink(l))
  <2>1. UNCHANGED <<event, told, receipts>> BY <1>4 DEF Retract, Unlink
  <2>2. QED BY <2>1, LedgerStutters DEF Applied
<1>5. CASE ~(\E a \in Calls : Statement(a)) /\ ~Others
  <2>1. UNCHANGED <<event, told, receipts>>
    BY <1>5, NextKinds DEF LoseConnection, Call, vars, tables
  <2>2. QED BY <2>1, LedgerStutters DEF Applied
<1>6. QED BY <1>1, <1>2, <1>3, <1>4, <1>5 DEF Others

(***************************************************************************)
(* Supersession implements SourceLedger: with deliveries, conflicts and    *)
(* racing supersessions, an event is bound anew only when it is disputed,  *)
(* to a payload and a thought it never had, and answers are true of it.    *)
(***************************************************************************)
THEOREM SupersessionImplementsLedger == Spec => ImplementsLedger
<1>1. Inv /\ [Next]_vars => [Ledger!LedgerNext]_<<[s \in Sources |-> LedgerRow(s)],
                                                  Current \cup Superseded, told>>
  BY NextLedger DEF LedgerRows, Bound
<1>2. QED BY <1>1, InitInv, NextInv, InitLedger, PTL DEF Spec, ImplementsLedger, Ledger!LedgerSpec

-----------------------------------------------------------------------------------
(***************************************************************************)
(* What follows from the promise of SourceLedger alone, for whoever keeps  *)
(* it: Supersession, CaptureGate, or the two together.                     *)
(***************************************************************************)
VARIABLES promisedRow, everBound, everTold

Promise == INSTANCE SourceLedger WITH row <- promisedRow, bound <- everBound, told <- everTold

BoundRows == [disputed: BOOLEAN, hash: Hashes, thought: Contents]
Bindings == [source: Sources, hash: Hashes, thought: Contents]

\* A payload binds an event once, and only what is bound is told.
PromiseInv ==
  /\ promisedRow \in [Sources -> BoundRows \cup {Promise!Unbound}]
  /\ everBound \subseteq Bindings
  /\ everTold \subseteq everBound
  /\ \A s \in Sources : promisedRow[s] = Promise!Unbound => \A x \in everBound : x.source # s
  /\ \A x, y \in everBound : x.source = y.source /\ x.hash = y.hash => x = y

LEMMA UnboundIsNoRow == Promise!Unbound \notin BoundRows
BY DEF Promise!Unbound, BoundRows

LEMMA PromiseStep == PromiseInv /\ [Promise!LedgerNext]_<<promisedRow, everBound, everTold>> => PromiseInv'
<1>. SUFFICES ASSUME PromiseInv, [Promise!LedgerNext]_<<promisedRow, everBound, everTold>> PROVE PromiseInv'
  OBVIOUS
<1>1. ASSUME NEW s \in Sources, NEW h \in Hashes, NEW t \in Contents
      PROVE  Promise!Row(h, t) \in BoundRows /\ Promise!Binding(s, h, t) \in Bindings
             /\ Promise!Binding(s, h, t).source = s /\ Promise!Binding(s, h, t).hash = h
  BY DEF Promise!Row, BoundRows, Promise!Binding, Bindings
<1>2. ASSUME NEW s \in Sources, NEW h \in Hashes, NEW t \in Contents, Promise!Bind(s, h, t)
      PROVE  PromiseInv'
  BY <1>1, <1>2, UnboundIsNoRow DEF Promise!Bind, PromiseInv
<1>3. ASSUME NEW s \in Sources, NEW h \in Hashes, NEW t \in Contents, Promise!Supersede(s, h, t)
      PROVE  PromiseInv'
  BY <1>1, <1>3, UnboundIsNoRow DEF Promise!Supersede, PromiseInv
<1>4. ASSUME NEW s \in Sources, NEW disputed \in BOOLEAN, Promise!Dispute(s, disputed)
      PROVE  PromiseInv'
  <2>1. promisedRow[s] \in BoundRows BY <1>4 DEF Promise!Dispute, PromiseInv
  <2>2. [promisedRow[s] EXCEPT !.disputed = disputed] \in BoundRows BY <2>1 DEF BoundRows
  <2>3. /\ promisedRow' \in [Sources -> BoundRows \cup {Promise!Unbound}]
        /\ promisedRow'[s] # Promise!Unbound
        /\ \A r \in Sources : r # s => promisedRow'[r] = promisedRow[r]
    BY <1>4, <2>2, UnboundIsNoRow DEF Promise!Dispute, PromiseInv
  <2>4. QED BY <1>4, <2>3 DEF Promise!Dispute, PromiseInv
<1>5. ASSUME NEW x \in everBound, Promise!Tell(x) PROVE PromiseInv'
  BY <1>5 DEF Promise!Tell, PromiseInv
<1>6. CASE UNCHANGED <<promisedRow, everBound, everTold>> BY <1>6 DEF PromiseInv
<1>7. QED BY <1>2, <1>3, <1>4, <1>5, <1>6 DEF Promise!LedgerNext

(***************************************************************************)
(* Whoever implements SourceLedger answers all deliveries of a payload     *)
(* alike: also those before a dispute, after it, and after a supersession. *)
(***************************************************************************)
THEOREM DeliveriesAgree == Promise!LedgerSpec => []Promise!AnswersAgree
<1>1. Promise!Init => PromiseInv BY DEF Promise!Init, PromiseInv
<1>2. PromiseInv => Promise!AnswersAgree BY DEF PromiseInv, Promise!AnswersAgree
<1>3. QED BY <1>1, <1>2, PromiseStep, PTL DEF Promise!LedgerSpec
=============================================================================
