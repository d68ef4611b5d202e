------------------------------ MODULE SourceLedger ------------------------------
(***************************************************************************)
(* What argus_source_events promises to whoever delivers a source event:   *)
(* the event is bound to the first payload that lands, a differing payload *)
(* only puts it in dispute, nothing but an approved supersession of a      *)
(* disputed event binds it anew, and then to a payload and a thought it    *)
(* never had.  CaptureGate and Supersession implement it.                  *)
(***************************************************************************)
CONSTANTS Sources, Hashes, Contents

VARIABLES
  row,    \* what each event is bound to now
  bound,  \* every binding there ever was
  told    \* the bindings that clients were told of

Unbound == [status |-> "missing"]

Binding(s, h, t) == [source |-> s, hash |-> h, thought |-> t]
Row(h, t) == [disputed |-> FALSE, hash |-> h, thought |-> t]

Init ==
  /\ row = [s \in Sources |-> Unbound]
  /\ bound = {}
  /\ told = {}

\* The first payload to land binds the event; its client may be told at once.
Bind(s, h, t) ==
  /\ row[s] = Unbound
  /\ row' = [row EXCEPT ![s] = Row(h, t)]
  /\ bound' = bound \cup {Binding(s, h, t)}
  /\ told' = told \/ told' = told \cup {Binding(s, h, t)}

\* A differing payload puts the event in dispute, a decision for what is stored ends it.
Dispute(s, disputed) ==
  /\ row[s] # Unbound
  /\ row' = [row EXCEPT ![s].disputed = disputed]
  /\ UNCHANGED <<bound, told>>

Supersede(s, h, t) ==
  /\ row[s] # Unbound /\ row[s].disputed
  /\ \A x \in bound : x.source = s => x.hash # h /\ x.thought # t
  /\ row' = [row EXCEPT ![s] = Row(h, t)]
  /\ bound' = bound \cup {Binding(s, h, t)}
  /\ UNCHANGED told

Tell(x) ==
  /\ x \in bound
  /\ told' = told \cup {x}
  /\ UNCHANGED <<row, bound>>

LedgerNext ==
  \/ \E s \in Sources, h \in Hashes, t \in Contents : Bind(s, h, t) \/ Supersede(s, h, t)
  \/ \E s \in Sources, disputed \in BOOLEAN : Dispute(s, disputed)
  \/ \E x \in bound : Tell(x)

LedgerSpec == Init /\ [][LedgerNext]_<<row, bound, told>>

(***************************************************************************)
(* All who were told of a payload of a source event were told of the same  *)
(* thought.                                                                *)
(***************************************************************************)
AnswersAgree ==
  \A x, y \in told : x.source = y.source /\ x.hash = y.hash => x.thought = y.thought
==============================================================================
