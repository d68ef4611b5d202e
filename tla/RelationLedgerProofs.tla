------------------------- MODULE RelationLedgerProofs -------------------------
(***************************************************************************)
(* Proofs about RelationLedger, for any thoughts, requests and sessions.   *)
(***************************************************************************)
EXTENDS RelationLedger, FiniteSetTheorems, FunctionTheorems, WellFoundedInduction, TLAPS

------------------------------------------------------------------------------
(***************************************************************************)
(* Lemmas about the operations on edges.                                   *)
(***************************************************************************)

LEMMA EdgeFields ==
  ASSUME NEW e \in Edges
  PROVE  e.from \in Thoughts /\ e.to \in Targets /\ e.from # e.to
BY DEF Edges

\* A request's operations are well-formed operations.
LEMMA RequestOps ==
  ASSUME NEW r \in Requests
  PROVE  /\ r.key \in Keys
         /\ r.ops \in Seq(Ops)
         /\ \A i \in DOMAIN r.ops : WellFormed(r.ops[i])
         /\ \A op \in OpsOf(r) : WellFormed(op)
BY RelationAssumption DEF OpsOf

LEMMA OpFields ==
  ASSUME NEW op, WellFormed(op)
  PROVE  /\ op.from \in Thoughts
         /\ op.edges \subseteq Edges
         /\ op.action \in {"create", "delete", "replace_tagger_set"}
         /\ \A e \in op.edges : e.from = op.from
         /\ op.action = "replace_tagger_set" => \A e \in op.edges : e.to \in Externals
BY DEF WellFormed, Ops

\* Operations keep the edges well typed.
LEMMA AfterType ==
  ASSUME NEW op, WellFormed(op), NEW view \in [Edges -> EdgeStates]
  PROVE  /\ After(op, view) \in [Edges -> EdgeStates]
         /\ Outcome(op, view) \in Outcomes
<1>1. After(op, view) \in [Edges -> EdgeStates]
  BY OpFields DEF After, Created, Deleted, TaggerSetReplaced, EdgeStates, LiveStates
<1>2. Outcome(op, view) \in Outcomes
  BY OpFields DEF Outcome, Outcomes
<1>3. QED BY <1>1, <1>2

LEMMA EndpointsType ==
  ASSUME NEW r \in Requests, NEW view
  PROVE  /\ EndpointsOfRequest(r, view) \subseteq Thoughts
         /\ \A op \in OpsOf(r) : op.from \in EndpointsOfRequest(r, view)
         /\ \A op \in OpsOf(r) : \A e \in op.edges :
              e.to \in Thoughts => e.to \in EndpointsOfRequest(r, view)
<1>1. \A op \in OpsOf(r) : EndpointsOf(op, view) \subseteq Thoughts
  BY RequestOps, OpFields DEF EndpointsOf
<1>2. \A op \in OpsOf(r) : op.from \in EndpointsOf(op, view)
  BY DEF EndpointsOf
<1>3. \A op \in OpsOf(r) : \A e \in op.edges :
        e.to \in Thoughts => e.to \in EndpointsOf(op, view)
  BY DEF EndpointsOf
<1>4. QED BY <1>1, <1>2, <1>3 DEF EndpointsOfRequest

\* The operation a session is about to apply is one of its request's.
LEMMA CurrentOpType ==
  ASSUME TypeOK, NEW s \in Sessions, pc[s] = "apply",
         Len(outcomes[s]) < Len(job[s].ops)
  PROVE  /\ job[s] \in Requests
         /\ CurrentOp(s) \in OpsOf(job[s])
         /\ WellFormed(CurrentOp(s))
<1>1. job[s] \in Requests
  BY DEF TypeOK, MutatePcs
<1>2. job[s].ops \in Seq(Ops) /\ outcomes[s] \in Seq(Outcomes)
  BY <1>1, RequestOps DEF TypeOK
<1>3. Len(outcomes[s]) + 1 \in DOMAIN job[s].ops
  BY <1>2
<1>4. QED BY <1>1, <1>3, RequestOps DEF CurrentOp, OpsOf

LEMMA ViewType ==
  ASSUME TypeOK, NEW s \in Sessions
  PROVE  View(s) \in [Edges -> EdgeStates]
<1>1. \A e \in Edges : draft[s][e] \in EdgeStates \cup {Unwritten} /\ edges[e] \in EdgeStates
  BY DEF TypeOK
<1>2. QED BY <1>1 DEF View

------------------------------------------------------------------------------
(***************************************************************************)
(* Type correctness.                                                       *)
(***************************************************************************)

LEMMA InitType == Init => TypeOK
BY LedgerAssumption DEF Init, TypeOK, NoDraft, EdgeStates, Unwritten, MutatePcs, RetractPcs

LEMMA GoIdleType ==
  ASSUME TypeOK, NEW s \in Sessions, GoIdle(s),
         thought' \in [Thoughts -> {"absent", "active", "retracted"}],
         edges' \in [Edges -> EdgeStates], ledger' \in SUBSET LedgerRows,
         attempts' \in [Jobs -> 0..MaxAttempts], replies' \in SUBSET LedgerRows
  PROVE  TypeOK'
BY DEF GoIdle, GoTo, EndTransaction, TypeOK, NoDraft, MutatePcs, RetractPcs

LEMMA RollBackType ==
  ASSUME TypeOK, NEW s \in Sessions, RollBack(s)
  PROVE  TypeOK'
<1>1. UNCHANGED <<thought, edges, ledger, attempts, replies>> /\ GoIdle(s)
  BY DEF RollBack, durable
<1>2. QED BY <1>1, GoIdleType DEF TypeOK

LEMMA SendType ==
  ASSUME TypeOK, NEW s \in Sessions, NEW j \in Jobs, NEW label,
         \/ j \in Requests /\ label = "claim"
         \/ j \in Retractions /\ label = "retract_lock",
         Send(s, j, label)
  PROVE  TypeOK'
<1>1. attempts' \in [Jobs -> 0..MaxAttempts]
  BY LedgerAssumption DEF Send, TypeOK
<1>2. QED BY <1>1 DEF Send, GoTo, TypeOK, durable, txn, MutatePcs, RetractPcs

LEMMA AdvanceType ==
  ASSUME TypeOK, NEW s \in Sessions, Advance(s)
  PROVE  TypeOK'
<1>1. CASE ClaimFresh(s)
  <2>1. EndpointsOfRequest(job[s], edges) \subseteq Thoughts
    BY <1>1, EndpointsType DEF ClaimFresh, TypeOK, MutatePcs
  <2>2. QED BY <1>1, <2>1 DEF ClaimFresh, GoTo, TypeOK, durable, MutatePcs, RetractPcs
<1>2. CASE Replay(s)
  <2>1. \A row \in ledger : row.outcomes \in Seq(Outcomes)
    BY DEF TypeOK, LedgerRows
  <2>2. QED BY <1>2, <2>1 DEF Replay, GoTo, TypeOK, durable, MutatePcs, RetractPcs
<1>3. CASE SourceEventConflict(s) BY <1>3, RollBackType DEF SourceEventConflict
<1>4. CASE LockRow(s)
  BY <1>4 DEF LockRow, GoTo, TypeOK, durable, MutatePcs, RetractPcs
<1>5. CASE RefuseEndpoint(s) BY <1>5, RollBackType DEF RefuseEndpoint
<1>6. CASE Apply(s)
  <2> DEFINE op == CurrentOp(s)
             new == After(op, View(s))
  <2>1. WellFormed(op) BY <1>6, CurrentOpType DEF Apply
  <2>2. new \in [Edges -> EdgeStates] /\ Outcome(op, View(s)) \in Outcomes
    BY <2>1, AfterType, ViewType
  <2>3. draft' \in [Sessions -> [Edges -> EdgeStates \cup {Unwritten}]]
    <3>1. draft' = [draft EXCEPT ![s] = [e \in Edges |->
                       IF new[e] = View(s)[e] THEN draft[s][e] ELSE new[e]]]
      BY <1>6 DEF Apply
    <3>2. \A e \in Edges : new[e] \in EdgeStates /\ draft[s][e] \in EdgeStates \cup {Unwritten}
      BY <2>2 DEF TypeOK
    <3>. HIDE DEF new
    <3>3. QED BY <3>1, <3>2 DEF TypeOK
  <2>4. outcomes' \in [Sessions -> Seq(Outcomes)]
    <3>1. outcomes' = [outcomes EXCEPT ![s] = Append(@, Outcome(op, View(s)))]
      BY <1>6 DEF Apply
    <3>. HIDE DEF op
    <3>2. QED BY <2>2, <3>1 DEF TypeOK
  <2>5. /\ pc' \in [Sessions -> {"idle"} \cup MutatePcs \cup RetractPcs]
        /\ pc[s] = "apply" /\ pc'[s] \in {"apply", "commit"}
        /\ \A u \in Sessions \ {s} : pc'[u] = pc[u]
        /\ UNCHANGED <<thought, edges, ledger, job, wanted, holds, attempts, replies>>
    BY <1>6 DEF Apply, GoTo, TypeOK, durable, MutatePcs, RetractPcs
  <2>6. QED
    <3>. HIDE DEF new, op
    <3>. QED BY <2>3, <2>4, <2>5 DEF TypeOK, MutatePcs, RetractPcs
<1>7. CASE ApplyRaises(s) BY <1>7, RollBackType DEF ApplyRaises
<1>8. CASE Commit(s)
  <2>1. View(s) \in [Edges -> EdgeStates] BY ViewType
  <2>2. [req |-> job[s], outcomes |-> outcomes[s]] \in LedgerRows
    BY <1>8 DEF Commit, TypeOK, LedgerRows, MutatePcs
  <2>3. QED
    BY <1>8, <2>1, <2>2
    DEF Commit, EndTransaction, GoTo, TypeOK, NoDraft, MutatePcs, RetractPcs
<1>9. CASE Answer(s)
  <2>1. [req |-> job[s], outcomes |-> outcomes[s]] \in LedgerRows
    BY <1>9 DEF Answer, TypeOK, LedgerRows, MutatePcs
  <2>2. QED BY <1>9, <2>1, GoIdleType DEF Answer, durable, TypeOK
<1>10. CASE RetractLock(s)
  <2>1. job[s].retract \in Thoughts
    BY <1>10, LedgerAssumption DEF RetractLock, TypeOK, RetractPcs, Retractions
  <2>2. QED BY <1>10, <2>1 DEF RetractLock, GoTo, TypeOK, durable, MutatePcs, RetractPcs
<1>11. CASE RetractDecide(s)
  BY <1>11 DEF RetractDecide, GoTo, TypeOK, durable, txn, MutatePcs, RetractPcs
<1>12. CASE RetractRefused(s) BY <1>12, RollBackType DEF RetractRefused
<1>13. CASE RetractCommit(s)
  <2>1. thought' \in [Thoughts -> {"absent", "active", "retracted"}]
    BY <1>13 DEF RetractCommit, TypeOK
  <2>2. QED BY <1>13, <2>1, GoIdleType DEF RetractCommit, TypeOK
<1>14. QED
  BY <1>1, <1>2, <1>3, <1>4, <1>5, <1>6, <1>7, <1>8, <1>9, <1>10, <1>11, <1>12, <1>13
  DEF Advance

LEMMA NextType == TypeOK /\ [Next]_vars => TypeOK'
<1>. SUFFICES ASSUME TypeOK, [Next]_vars PROVE TypeOK'
  OBVIOUS
<1>1. CASE \E s \in Sessions : Advance(s) BY <1>1, AdvanceType
<1>2. CASE \E s \in Sessions : Crash(s) BY <1>2, RollBackType DEF Crash
<1>3. CASE \E s \in Sessions, r \in Requests : Submit(s, r)
  BY <1>3, SendType DEF Submit, Jobs
<1>4. CASE \E s \in Sessions, t \in Retractable : AskRetract(s, t)
  BY <1>4, SendType DEF AskRetract, Jobs, Retractions
<1>5. CASE \E t \in Thoughts : Capture(t)
  BY <1>5 DEF Capture, TypeOK, txn
<1>6. CASE UNCHANGED vars BY <1>6 DEF vars, TypeOK
<1>7. QED BY <1>1, <1>2, <1>3, <1>4, <1>5, <1>6 DEF Next

(***************************************************************************)
(* Every state of every transaction interleaving is well typed: locked and *)
(* wanted rows are thoughts, drafts and recorded results are of the kinds  *)
(* the schema's checks allow, and a session at work has the job its        *)
(* position in the code needs.                                             *)
(***************************************************************************)
THEOREM LedgerTypeCorrect == Spec => []TypeOK
BY InitType, NextType, PTL DEF Spec

------------------------------------------------------------------------------
(***************************************************************************)
(* The inductive invariant of the row locks.  What a transaction has       *)
(* checked under its locks stays true until it commits, because whoever    *)
(* could falsify it needs one of those locks.                              *)
(***************************************************************************)
InTransaction(s) == pc[s] \in {"lock", "apply", "commit"}
HoldsRow(s) == pc[s] \in {"retract_decide", "retract_commit"}

\* No row is locked twice, and only by a session inside a transaction.
LocksExclusive ==
  /\ \A s, u \in Sessions : s # u => holds[s] \cap holds[u] = {}
  /\ \A s \in Sessions : holds[s] # {} => InTransaction(s) \/ HoldsRow(s)

\* Past the locking loop every endpoint is locked.
EndpointsLocked ==
  \A s \in Sessions :
    /\ InTransaction(s) => \A op \in OpsOf(job[s]) :
         /\ op.from \in wanted[s] \cup holds[s]
         /\ \A e \in op.edges : e.to \in Thoughts => e.to \in wanted[s] \cup holds[s]
    /\ pc[s] \in {"apply", "commit"} => wanted[s] = {}

\* A locked row that had to be active still is.
LockedStayActive ==
  \A s \in Sessions : InTransaction(s) =>
    \A t \in holds[s] : t \in ActiveRequiredOfRequest(job[s]) => thought[t] = "active"

\* Uncommitted writes: edges from locked rows, live ones between checked thoughts.
DraftsCovered ==
  \A s \in Sessions : \A e \in Edges : draft[s][e] # Unwritten =>
    /\ pc[s] \in {"apply", "commit"}
    /\ e.from \in holds[s]
    /\ draft[s][e] \in LiveStates =>
         /\ e.from \in ActiveRequiredOfRequest(job[s])
         /\ e.to \in Thoughts => e.to \in holds[s]
         /\ e.to \in Thoughts /\ e.relation \notin Supersession
              => e.to \in ActiveRequiredOfRequest(job[s])

\* A retraction past its check holds a row at the head of no live chain edge.
RetractionsCovered ==
  \A s \in Sessions :
    /\ HoldsRow(s) => job[s].retract \in holds[s]
    /\ pc[s] = "retract_commit" => ~HeadsChain(job[s].retract)

LockInv ==
  /\ TypeOK
  /\ LocksExclusive
  /\ EndpointsLocked
  /\ LockedStayActive
  /\ DraftsCovered
  /\ RetractionsCovered
  /\ LiveChainHeadsActive

LEMMA InitLock == Init => LockInv
<1>. SUFFICES ASSUME Init PROVE LockInv
  OBVIOUS
<1>1. TypeOK BY InitType
<1>2. \A s \in Sessions : pc[s] = "idle" /\ holds[s] = {} /\ draft[s] = NoDraft
  BY DEF Init
<1>3. \A e \in Edges : edges[e] \notin LiveStates
  BY DEF Init, LiveStates
<1>4. QED
  BY <1>1, <1>2, <1>3
  DEF LockInv, LocksExclusive, EndpointsLocked, LockedStayActive, DraftsCovered,
      RetractionsCovered, LiveChainHeadsActive, InTransaction, HoldsRow, NoDraft, ChainEdges

\* The session has left its transaction, and the committed state is as it was
\* but for thoughts that were captured or were retracted under a lock it held.
LEMMA GoIdleLock ==
  ASSUME LockInv, NEW s \in Sessions, GoIdle(s), TypeOK', UNCHANGED edges,
         \A t \in Thoughts : thought'[t] # thought[t] => t \in holds[s],
         \A e \in ChainEdges : edges[e] \in LiveStates => thought'[e.from] = "active"
  PROVE  LockInv'
<1>. USE DEF LockInv, InTransaction, HoldsRow
<1>1. /\ \A u \in Sessions \ {s} : /\ pc'[u] = pc[u] /\ job'[u] = job[u]
                                   /\ wanted'[u] = wanted[u] /\ holds'[u] = holds[u]
                                   /\ draft'[u] = draft[u]
      /\ pc'[s] = "idle" /\ holds'[s] = {} /\ draft'[s] = NoDraft
  BY DEF GoIdle, GoTo, EndTransaction, TypeOK
<1>2. LocksExclusive' BY <1>1 DEF LocksExclusive
<1>3. EndpointsLocked' BY <1>1 DEF EndpointsLocked
<1>4. LockedStayActive'
  <2>. SUFFICES ASSUME NEW u \in Sessions \ {s}, InTransaction(u), NEW t \in holds[u],
                       t \in ActiveRequiredOfRequest(job[u])
                PROVE  thought'[t] = "active"
    BY <1>1 DEF LockedStayActive
  <2>1. t \in Thoughts /\ t \notin holds[s] BY DEF LocksExclusive, TypeOK
  <2>2. QED BY <2>1 DEF LockedStayActive
<1>5. DraftsCovered' BY <1>1 DEF DraftsCovered, NoDraft
<1>6. RetractionsCovered' BY <1>1 DEF RetractionsCovered, HeadsChain
<1>7. LiveChainHeadsActive' BY DEF LiveChainHeadsActive
<1>8. QED BY <1>2, <1>3, <1>4, <1>5, <1>6, <1>7

LEMMA RollBackLock ==
  ASSUME LockInv, NEW s \in Sessions, RollBack(s)
  PROVE  LockInv'
<1>1. TypeOK' BY RollBackType DEF LockInv
<1>2. GoIdle(s) /\ UNCHANGED <<edges, thought>> BY DEF RollBack, durable
<1>3. QED BY <1>1, <1>2, GoIdleLock DEF LockInv, LiveChainHeadsActive

\* A session that holds nothing moves to another label that allows no locks.
LEMMA QuietLock ==
  ASSUME LockInv, NEW s \in Sessions, TypeOK', UNCHANGED <<edges, thought, wanted, holds, draft>>,
         ~InTransaction(s), ~HoldsRow(s), ~InTransaction(s)', ~HoldsRow(s)',
         \A u \in Sessions \ {s} : pc'[u] = pc[u] /\ job'[u] = job[u]
  PROVE  LockInv'
<1>. USE DEF LockInv, InTransaction, HoldsRow
<1>1. LocksExclusive' BY DEF LocksExclusive
<1>2. EndpointsLocked' BY DEF EndpointsLocked
<1>3. LockedStayActive' BY DEF LockedStayActive
<1>4. DraftsCovered' BY DEF DraftsCovered
<1>5. RetractionsCovered' BY DEF RetractionsCovered, HeadsChain
<1>6. LiveChainHeadsActive' BY DEF LiveChainHeadsActive
<1>7. QED BY <1>1, <1>2, <1>3, <1>4, <1>5, <1>6

LEMMA SendLock ==
  ASSUME LockInv, NEW s \in Sessions, NEW j, NEW label \in {"claim", "retract_lock"},
         TypeOK', Send(s, j, label)
  PROVE  LockInv'
<1>1. /\ pc[s] = "idle" /\ pc'[s] = label
      /\ \A u \in Sessions \ {s} : pc'[u] = pc[u] /\ job'[u] = job[u]
      /\ UNCHANGED <<edges, thought, wanted, holds, draft>>
  BY DEF Send, GoTo, durable, txn, LockInv, TypeOK
<1>2. ~InTransaction(s) /\ ~HoldsRow(s) /\ ~InTransaction(s)' /\ ~HoldsRow(s)'
  BY <1>1 DEF InTransaction, HoldsRow
<1>3. QED BY <1>1, <1>2, QuietLock

LEMMA ClaimFreshLock ==
  ASSUME LockInv, NEW s \in Sessions, TypeOK', ClaimFresh(s)
  PROVE  LockInv'
<1>. USE DEF LockInv, InTransaction, HoldsRow
<1>1. /\ pc[s] = "claim" /\ pc'[s] = "lock" /\ job[s] \in Requests
      /\ wanted'[s] = EndpointsOfRequest(job[s], edges)
      /\ \A u \in Sessions \ {s} : pc'[u] = pc[u] /\ wanted'[u] = wanted[u]
      /\ UNCHANGED <<edges, thought, job, holds, draft>>
  BY DEF ClaimFresh, GoTo, durable, TypeOK, MutatePcs
<1>2. holds[s] = {} BY <1>1 DEF LocksExclusive
<1>3. LocksExclusive' BY <1>1 DEF LocksExclusive
<1>4. EndpointsLocked'
  <2>1. \A op \in OpsOf(job[s]) :
          /\ op.from \in wanted'[s]
          /\ \A e \in op.edges : e.to \in Thoughts => e.to \in wanted'[s]
    BY <1>1, EndpointsType
  <2>2. QED BY <1>1, <2>1 DEF EndpointsLocked
<1>5. LockedStayActive' BY <1>1, <1>2 DEF LockedStayActive
<1>6. DraftsCovered' BY <1>1 DEF DraftsCovered
<1>7. RetractionsCovered' BY <1>1 DEF RetractionsCovered, HeadsChain
<1>8. LiveChainHeadsActive' BY <1>1 DEF LiveChainHeadsActive
<1>9. QED BY <1>3, <1>4, <1>5, <1>6, <1>7, <1>8

LEMMA LockRowLock ==
  ASSUME LockInv, NEW s \in Sessions, TypeOK', LockRow(s)
  PROVE  LockInv'
<1>. USE DEF LockInv, InTransaction, HoldsRow
<1>1. PICK t \in Thoughts :
        /\ t \in wanted[s] /\ RowFree(t) /\ ~EndpointRefused(job[s], t)
        /\ holds' = [holds EXCEPT ![s] = @ \cup {t}]
        /\ wanted' = [wanted EXCEPT ![s] = @ \ {t}]
        /\ pc' = [pc EXCEPT ![s] = IF wanted[s] = {t} THEN "apply" ELSE "lock"]
  BY DEF LockRow, NextRow, GoTo
<1>2. /\ pc[s] = "lock" /\ pc'[s] = (IF wanted[s] = {t} THEN "apply" ELSE "lock")
      /\ \A u \in Sessions \ {s} : /\ pc'[u] = pc[u] /\ wanted'[u] = wanted[u]
                                   /\ holds'[u] = holds[u]
      /\ holds'[s] = holds[s] \cup {t} /\ wanted'[s] = wanted[s] \ {t}
      /\ UNCHANGED <<edges, thought, job, draft>>
  BY <1>1 DEF LockRow, TypeOK, durable
<1>3. LocksExclusive'
  <2>1. \A u \in Sessions : t \notin holds[u] BY <1>1 DEF RowFree
  <2>2. QED BY <1>2, <2>1 DEF LocksExclusive
<1>4. EndpointsLocked' BY <1>2 DEF EndpointsLocked
<1>5. LockedStayActive'
  <2>1. t \in ActiveRequiredOfRequest(job[s]) => thought[t] = "active"
    BY <1>1 DEF EndpointRefused, TypeOK
  <2>2. QED BY <1>2, <2>1 DEF LockedStayActive
<1>6. DraftsCovered' BY <1>2 DEF DraftsCovered
<1>7. RetractionsCovered' BY <1>2 DEF RetractionsCovered, HeadsChain
<1>8. LiveChainHeadsActive' BY <1>2 DEF LiveChainHeadsActive
<1>9. QED BY <1>3, <1>4, <1>5, <1>6, <1>7, <1>8

LEMMA ApplyLock ==
  ASSUME LockInv, NEW s \in Sessions, TypeOK', Apply(s)
  PROVE  LockInv'
<1>. USE DEF LockInv, InTransaction, HoldsRow
<1>. DEFINE op == CurrentOp(s)
            new == After(op, View(s))
<1>1. /\ pc[s] = "apply" /\ pc'[s] \in {"apply", "commit"}
      /\ \A u \in Sessions \ {s} : pc'[u] = pc[u] /\ draft'[u] = draft[u]
      /\ draft'[s] = [e \in Edges |-> IF new[e] = View(s)[e] THEN draft[s][e] ELSE new[e]]
      /\ UNCHANGED <<edges, thought, job, wanted, holds>>
  BY DEF Apply, GoTo, durable, TypeOK
<1>2. op \in OpsOf(job[s]) /\ WellFormed(op) BY CurrentOpType DEF Apply
<1>3. LocksExclusive' BY <1>1 DEF LocksExclusive
<1>4. EndpointsLocked' BY <1>1 DEF EndpointsLocked
<1>5. LockedStayActive' BY <1>1 DEF LockedStayActive
<1>6. DraftsCovered'
  <2>1. ASSUME NEW e \in Edges, draft'[s][e] # draft[s][e]
        PROVE  /\ e.from \in holds[s]
               /\ draft'[s][e] \in LiveStates =>
                    /\ e.from \in ActiveRequiredOfRequest(job[s])
                    /\ e.to \in Thoughts => e.to \in holds[s]
                    /\ e.to \in Thoughts /\ e.relation \notin Supersession
                         => e.to \in ActiveRequiredOfRequest(job[s])
    <3>1. new[e] # View(s)[e] /\ draft'[s][e] = new[e]
      <4>. HIDE DEF new
      <4>. QED BY <1>1, <2>1
    <3>2. /\ e.from = op.from
          /\ new[e] \in LiveStates => e \in op.edges /\ op.action # "delete"
      BY <1>2, <3>1, OpFields DEF After, Created, Deleted, TaggerSetReplaced, LiveStates
    <3>3. wanted[s] = {} /\ op.from \in holds[s]
          /\ \A d \in op.edges : d.to \in Thoughts => d.to \in holds[s]
      BY <1>1, <1>2 DEF EndpointsLocked
    <3>4. new[e] \in LiveStates =>
            /\ op.from \in ActiveRequiredOfRequest(job[s])
            /\ e.to \in Thoughts /\ e.relation \notin Supersession
                 => e.to \in ActiveRequiredOfRequest(job[s])
      BY <1>2, <3>2 DEF ActiveRequiredOfRequest, ActiveRequiredOf
    <3>. HIDE DEF new, op
    <3>5. QED BY <3>1, <3>2, <3>3, <3>4
  <2>. HIDE DEF new, op
  <2>2. QED BY <1>1, <2>1 DEF DraftsCovered
<1>7. RetractionsCovered' BY <1>1 DEF RetractionsCovered, HeadsChain
<1>8. LiveChainHeadsActive' BY <1>1 DEF LiveChainHeadsActive
<1>9. QED BY <1>3, <1>4, <1>5, <1>6, <1>7, <1>8

\* What a commit brings to life starts, and if need be ends, at active thoughts.
LEMMA CommittedEdges ==
  ASSUME LockInv, NEW s \in Sessions, Commit(s),
         NEW e \in Edges, edges[e] \notin LiveStates, edges'[e] \in LiveStates
  PROVE  /\ e.from \in holds[s]
         /\ e.to \in Thoughts => e.to \in holds[s]
         /\ thought[e.from] = "active"
         /\ e.to \in Thoughts /\ e.relation \notin Supersession => thought[e.to] = "active"
<1>. USE DEF LockInv, InTransaction
<1>1. pc[s] = "commit" /\ edges'[e] = View(s)[e] BY DEF Commit
<1>2. draft[s][e] # Unwritten /\ draft[s][e] \in LiveStates BY <1>1 DEF View
<1>3. /\ e.from \in holds[s] /\ e.from \in ActiveRequiredOfRequest(job[s])
      /\ e.to \in Thoughts => e.to \in holds[s]
      /\ e.to \in Thoughts /\ e.relation \notin Supersession
           => e.to \in ActiveRequiredOfRequest(job[s])
  BY <1>2 DEF DraftsCovered
<1>4. QED BY <1>1, <1>3 DEF LockedStayActive

LEMMA CommitLock ==
  ASSUME LockInv, NEW s \in Sessions, TypeOK', Commit(s)
  PROVE  LockInv'
<1>. USE DEF LockInv, InTransaction, HoldsRow
<1>1. /\ pc[s] = "commit" /\ pc'[s] = "answer"
      /\ \A u \in Sessions \ {s} : /\ pc'[u] = pc[u] /\ wanted'[u] = wanted[u]
                                   /\ holds'[u] = holds[u] /\ draft'[u] = draft[u]
      /\ wanted'[s] = {} /\ holds'[s] = {} /\ draft'[s] = NoDraft
      /\ UNCHANGED <<thought, job>>
  BY DEF Commit, GoTo, EndTransaction, TypeOK
<1>2. LocksExclusive' BY <1>1 DEF LocksExclusive
<1>3. EndpointsLocked' BY <1>1 DEF EndpointsLocked
<1>4. LockedStayActive' BY <1>1 DEF LockedStayActive
<1>5. DraftsCovered' BY <1>1 DEF DraftsCovered, NoDraft
<1>6. RetractionsCovered'
  <2>. SUFFICES ASSUME NEW u \in Sessions, pc'[u] = "retract_commit",
                       NEW e \in ChainEdges, e.from = job'[u].retract, edges'[e] \in LiveStates
                PROVE  FALSE
    BY <1>1 DEF RetractionsCovered, HeadsChain
  <2>1. u # s /\ pc[u] = "retract_commit" /\ e.from \in holds[u] /\ e \in Edges
    BY <1>1 DEF RetractionsCovered, ChainEdges
  <2>2. edges[e] \notin LiveStates
    BY <1>1, <2>1 DEF RetractionsCovered, HeadsChain
  <2>3. e.from \in holds[s] BY <2>1, <2>2, CommittedEdges
  <2>4. QED BY <2>1, <2>3 DEF LocksExclusive
<1>7. LiveChainHeadsActive'
  BY <1>1, CommittedEdges DEF LiveChainHeadsActive, ChainEdges
<1>8. QED BY <1>2, <1>3, <1>4, <1>5, <1>6, <1>7

LEMMA RetractLockLock ==
  ASSUME LockInv, NEW s \in Sessions, TypeOK', RetractLock(s)
  PROVE  LockInv'
<1>. USE DEF LockInv, InTransaction, HoldsRow
<1>. DEFINE t == job[s].retract
<1>1. t \in Thoughts BY LedgerAssumption DEF RetractLock, TypeOK, RetractPcs, Retractions
<1>2. /\ pc[s] = "retract_lock" /\ pc'[s] = "retract_decide"
      /\ \A u \in Sessions \ {s} : pc'[u] = pc[u] /\ holds'[u] = holds[u]
      /\ holds'[s] = holds[s] \cup {t}
      /\ \A u \in Sessions : t \notin holds[u]
      /\ UNCHANGED <<edges, thought, job, wanted, draft>>
  BY DEF RetractLock, GoTo, RowFree, durable, TypeOK
<1>3. LocksExclusive' BY <1>1, <1>2 DEF LocksExclusive
<1>4. EndpointsLocked' BY <1>2 DEF EndpointsLocked
<1>5. LockedStayActive' BY <1>2 DEF LockedStayActive
<1>6. DraftsCovered' BY <1>2 DEF DraftsCovered
<1>7. RetractionsCovered' BY <1>2 DEF RetractionsCovered, HeadsChain
<1>8. LiveChainHeadsActive' BY <1>2 DEF LiveChainHeadsActive
<1>9. QED BY <1>3, <1>4, <1>5, <1>6, <1>7, <1>8

LEMMA RetractDecideLock ==
  ASSUME LockInv, NEW s \in Sessions, TypeOK', RetractDecide(s)
  PROVE  LockInv'
<1>. USE DEF LockInv, InTransaction, HoldsRow
<1>1. /\ pc[s] = "retract_decide" /\ pc'[s] = "retract_commit"
      /\ \A u \in Sessions \ {s} : pc'[u] = pc[u]
      /\ ~HeadsChain(job[s].retract)
      /\ UNCHANGED <<edges, thought, job, wanted, holds, draft>>
  BY DEF RetractDecide, GoTo, durable, txn, TypeOK
<1>2. LocksExclusive' BY <1>1 DEF LocksExclusive
<1>3. EndpointsLocked' BY <1>1 DEF EndpointsLocked
<1>4. LockedStayActive' BY <1>1 DEF LockedStayActive
<1>5. DraftsCovered' BY <1>1 DEF DraftsCovered
<1>6. RetractionsCovered' BY <1>1 DEF RetractionsCovered, HeadsChain
<1>7. LiveChainHeadsActive' BY <1>1 DEF LiveChainHeadsActive
<1>8. QED BY <1>2, <1>3, <1>4, <1>5, <1>6, <1>7

LEMMA RetractCommitLock ==
  ASSUME LockInv, NEW s \in Sessions, TypeOK', RetractCommit(s)
  PROVE  LockInv'
<1>. USE DEF LockInv, HoldsRow
<1>. DEFINE t == job[s].retract
<1>1. /\ GoIdle(s) /\ UNCHANGED edges
      /\ t \in holds[s] /\ ~HeadsChain(t)
      /\ \A u \in Thoughts : u # t => thought'[u] = thought[u]
  BY DEF RetractCommit, RetractionsCovered, TypeOK
<1>2. \A e \in ChainEdges : edges[e] \in LiveStates => thought'[e.from] = "active"
  BY <1>1, EdgeFields DEF HeadsChain, LiveChainHeadsActive, ChainEdges
<1>3. QED BY <1>1, <1>2, GoIdleLock

LEMMA CaptureLock ==
  ASSUME LockInv, TypeOK', NEW t \in Thoughts, Capture(t)
  PROVE  LockInv'
<1>. USE DEF LockInv, InTransaction, HoldsRow
<1>1. /\ \A u \in Thoughts : thought[u] = "active" => thought'[u] = "active"
      /\ UNCHANGED <<edges, pc, job, wanted, holds, draft>>
  BY DEF Capture, txn, TypeOK
<1>2. LocksExclusive' BY <1>1 DEF LocksExclusive
<1>3. EndpointsLocked' BY <1>1 DEF EndpointsLocked
<1>4. LockedStayActive'
  <2>. SUFFICES ASSUME NEW s \in Sessions, InTransaction(s), NEW u \in holds[s],
                       u \in ActiveRequiredOfRequest(job[s])
                PROVE  thought'[u] = "active"
    BY <1>1 DEF LockedStayActive
  <2>1. u \in Thoughts /\ thought[u] = "active" BY DEF LockedStayActive, TypeOK
  <2>2. QED BY <1>1, <2>1
<1>5. DraftsCovered' BY <1>1 DEF DraftsCovered
<1>6. RetractionsCovered' BY <1>1 DEF RetractionsCovered, HeadsChain
<1>7. LiveChainHeadsActive' BY <1>1, EdgeFields DEF LiveChainHeadsActive, ChainEdges
<1>8. QED BY <1>2, <1>3, <1>4, <1>5, <1>6, <1>7

LEMMA AdvanceLock ==
  ASSUME LockInv, NEW s \in Sessions, TypeOK', Advance(s)
  PROVE  LockInv'
<1>1. CASE ClaimFresh(s) BY <1>1, ClaimFreshLock
<1>2. CASE Replay(s)
  <2>1. /\ pc[s] = "claim" /\ pc'[s] = "answer"
        /\ \A u \in Sessions \ {s} : pc'[u] = pc[u] /\ job'[u] = job[u]
        /\ UNCHANGED <<edges, thought, wanted, holds, draft>>
    BY <1>2 DEF Replay, GoTo, durable, LockInv, TypeOK
  <2>2. ~InTransaction(s) /\ ~HoldsRow(s) /\ ~InTransaction(s)' /\ ~HoldsRow(s)'
    BY <2>1 DEF InTransaction, HoldsRow
  <2>3. QED BY <2>1, <2>2, QuietLock
<1>3. CASE SourceEventConflict(s) BY <1>3, RollBackLock DEF SourceEventConflict
<1>4. CASE LockRow(s) BY <1>4, LockRowLock
<1>5. CASE RefuseEndpoint(s) BY <1>5, RollBackLock DEF RefuseEndpoint
<1>6. CASE Apply(s) BY <1>6, ApplyLock
<1>7. CASE ApplyRaises(s) BY <1>7, RollBackLock DEF ApplyRaises
<1>8. CASE Commit(s) BY <1>8, CommitLock
<1>9. CASE Answer(s)
  BY <1>9, GoIdleLock DEF Answer, durable, LockInv, LiveChainHeadsActive
<1>10. CASE RetractLock(s) BY <1>10, RetractLockLock
<1>11. CASE RetractDecide(s) BY <1>11, RetractDecideLock
<1>12. CASE RetractRefused(s) BY <1>12, RollBackLock DEF RetractRefused
<1>13. CASE RetractCommit(s) BY <1>13, RetractCommitLock
<1>14. QED
  BY <1>1, <1>2, <1>3, <1>4, <1>5, <1>6, <1>7, <1>8, <1>9, <1>10, <1>11, <1>12, <1>13
  DEF Advance

LEMMA NextLock == LockInv /\ [Next]_vars => LockInv'
<1>. SUFFICES ASSUME LockInv, [Next]_vars PROVE LockInv'
  OBVIOUS
<1>1. TypeOK' BY NextType DEF LockInv
<1>2. CASE \E s \in Sessions : Advance(s) BY <1>1, <1>2, AdvanceLock
<1>3. CASE \E s \in Sessions : Crash(s) BY <1>3, RollBackLock DEF Crash
<1>4. CASE \E s \in Sessions, r \in Requests : Submit(s, r)
  BY <1>1, <1>4, SendLock DEF Submit
<1>5. CASE \E s \in Sessions, t \in Retractable : AskRetract(s, t)
  BY <1>1, <1>5, SendLock DEF AskRetract
<1>6. CASE \E t \in Thoughts : Capture(t) BY <1>1, <1>6, CaptureLock
<1>7. CASE UNCHANGED vars
  BY <1>1, <1>7
  DEF vars, LockInv, LocksExclusive, EndpointsLocked, LockedStayActive, DraftsCovered,
      RetractionsCovered, LiveChainHeadsActive, InTransaction, HoldsRow, HeadsChain
<1>8. QED BY <1>2, <1>3, <1>4, <1>5, <1>6, <1>7 DEF Next

THEOREM LockInvariant == Spec => []LockInv
BY InitLock, NextLock, PTL DEF Spec

(***************************************************************************)
(* No interleaving of links, unlinks, re-tags, retractions and crashes     *)
(* leaves a live supersession edge starting at a retracted thought         *)
(* (migrations 0033 and 0034).                                             *)
(***************************************************************************)
THEOREM ChainHeadsStayActive == Spec => []LiveChainHeadsActive
<1>1. LockInv => LiveChainHeadsActive BY DEF LockInv
<1>2. QED BY <1>1, LockInvariant, PTL

(***************************************************************************)
(* Whatever commits, the edges it brings to life join thoughts that are    *)
(* active at the commit, not only at the check some statements earlier.    *)
(***************************************************************************)
THEOREM EdgesJoinLiveThoughts == Spec => NewEdgesJoinLiveThoughts
<1>1. LockInv /\ [Next]_vars =>
        [\A e \in Edges :
           edges[e] \notin LiveStates /\ edges'[e] \in LiveStates =>
             /\ thought'[e.from] = "active"
             /\ e.to \in Thoughts /\ e.relation \notin Supersession
                  => thought'[e.to] = "active"]_vars
  <2>. SUFFICES ASSUME LockInv, [Next]_vars
                PROVE  \A e \in Edges :
                         edges[e] \notin LiveStates /\ edges'[e] \in LiveStates =>
                           /\ thought'[e.from] = "active"
                           /\ e.to \in Thoughts /\ e.relation \notin Supersession
                                => thought'[e.to] = "active"
    OBVIOUS
  <2>1. CASE \E s \in Sessions : Commit(s)
    BY <2>1, CommittedEdges DEF Commit
  <2>2. CASE ~\E s \in Sessions : Commit(s)
    <3>1. UNCHANGED edges
      BY <2>2
      DEF Next, Advance, vars, ClaimFresh, Replay, SourceEventConflict, LockRow, RefuseEndpoint,
          Apply, ApplyRaises, Answer, RetractLock, RetractDecide, RetractRefused,
          RetractCommit, RollBack, Crash, Submit, AskRetract, Send, Capture, durable
    <3>2. QED BY <3>1
  <2>3. QED BY <2>1, <2>2
<1>2. QED BY <1>1, LockInvariant, PTL DEF Spec, NewEdgesJoinLiveThoughts

------------------------------------------------------------------------------
(***************************************************************************)
(* The inductive invariant of the replay keys: a key belongs to one open   *)
(* transaction or to one row, and a session about to answer has its row.   *)
(***************************************************************************)
KeyInv ==
  /\ TypeOK
  /\ OneExecutionPerKey
  /\ \A s \in Sessions : InTransaction(s) => \A row \in ledger : row.req.key # job[s].key
  /\ \A s, u \in Sessions : s # u /\ InTransaction(s) /\ InTransaction(u)
                              => job[s].key # job[u].key
  /\ \A s \in Sessions : pc[s] = "answer" => [req |-> job[s], outcomes |-> outcomes[s]] \in ledger

\* A step that commits nothing and puts no session inside a transaction.
LEMMA QuietKey ==
  ASSUME KeyInv, TypeOK', UNCHANGED <<ledger, replies>>,
         \A s \in Sessions : /\ InTransaction(s)' => InTransaction(s) /\ job'[s] = job[s]
                             /\ pc'[s] = "answer" =>
                                  /\ pc[s] = "answer"
                                  /\ job'[s] = job[s] /\ outcomes'[s] = outcomes[s]
  PROVE  KeyInv'
BY DEF KeyInv, OneExecutionPerKey

LEMMA GoIdleKey ==
  ASSUME KeyInv, TypeOK', NEW s \in Sessions, GoIdle(s), UNCHANGED <<ledger, replies>>
  PROVE  KeyInv'
<1>1. /\ pc'[s] = "idle"
      /\ \A u \in Sessions \ {s} : /\ pc'[u] = pc[u] /\ job'[u] = job[u]
                                   /\ outcomes'[u] = outcomes[u]
  BY DEF GoIdle, GoTo, KeyInv, TypeOK
<1>2. QED BY <1>1, QuietKey DEF InTransaction

LEMMA RollBackKey ==
  ASSUME KeyInv, TypeOK', NEW s \in Sessions, RollBack(s)
  PROVE  KeyInv'
BY GoIdleKey DEF RollBack, durable

LEMMA AdvanceKey ==
  ASSUME KeyInv, TypeOK', NEW s \in Sessions, Advance(s)
  PROVE  KeyInv'
<1>. USE DEF InTransaction
<1>1. CASE ClaimFresh(s)
  <2>1. /\ \A u \in Sessions \ {s} : pc'[u] = pc[u]
        /\ pc'[s] = "lock" /\ UNCHANGED <<job, outcomes, ledger, replies>>
    BY <1>1 DEF ClaimFresh, GoTo, durable, KeyInv, TypeOK
  <2>2. /\ \A u \in Sessions : InTransaction(u) => job[u].key # job[s].key
        /\ \A row \in ledger : row.req.key # job[s].key
    BY <1>1 DEF ClaimFresh, Claimed
  <2>3. QED BY <2>1, <2>2 DEF KeyInv, OneExecutionPerKey
<1>2. CASE Replay(s)
  <2>1. PICK row \in ledger : row.req = job[s] /\ outcomes' = [outcomes EXCEPT ![s] = row.outcomes]
    BY <1>2 DEF Replay
  <2>2. row = [req |-> job[s], outcomes |-> row.outcomes]
    BY <2>1 DEF KeyInv, TypeOK, LedgerRows
  <2>3. /\ \A u \in Sessions \ {s} : pc'[u] = pc[u] /\ outcomes'[u] = outcomes[u]
        /\ pc'[s] = "answer" /\ outcomes'[s] = row.outcomes
        /\ UNCHANGED <<job, ledger, replies>>
    BY <1>2, <2>1 DEF Replay, GoTo, durable, KeyInv, TypeOK
  <2>4. QED BY <2>2, <2>3 DEF KeyInv, OneExecutionPerKey
<1>3. CASE SourceEventConflict(s) BY <1>3, RollBackKey DEF SourceEventConflict
<1>4. CASE LockRow(s)
  <2>1. /\ pc[s] = "lock" /\ pc'[s] \in {"apply", "lock"}
        /\ \A u \in Sessions \ {s} : pc'[u] = pc[u]
        /\ UNCHANGED <<job, outcomes, ledger, replies>>
    BY <1>4 DEF LockRow, GoTo, durable, KeyInv, TypeOK
  <2>2. QED BY <2>1, QuietKey
<1>5. CASE RefuseEndpoint(s) BY <1>5, RollBackKey DEF RefuseEndpoint
<1>6. CASE Apply(s)
  <2>1. /\ pc[s] = "apply" /\ pc'[s] \in {"apply", "commit"}
        /\ \A u \in Sessions \ {s} : pc'[u] = pc[u] /\ outcomes'[u] = outcomes[u]
        /\ UNCHANGED <<job, ledger, replies>>
    BY <1>6 DEF Apply, GoTo, durable, KeyInv, TypeOK
  <2>2. QED BY <2>1, QuietKey
<1>7. CASE ApplyRaises(s) BY <1>7, RollBackKey DEF ApplyRaises
<1>8. CASE Commit(s)
  <2>. DEFINE new == [req |-> job[s], outcomes |-> outcomes[s]]
  <2>1. /\ pc[s] = "commit" /\ pc'[s] = "answer"
        /\ \A u \in Sessions \ {s} : pc'[u] = pc[u]
        /\ ledger' = ledger \cup {new}
        /\ UNCHANGED <<job, outcomes, replies>>
    BY <1>8 DEF Commit, GoTo, KeyInv, TypeOK
  <2>2. new.req = job[s] OBVIOUS
  <2>3. \A row \in ledger : row.req.key # job[s].key BY <2>1 DEF KeyInv
  <2>4. \A u \in Sessions : u # s /\ InTransaction(u) => job[u].key # job[s].key
    BY <2>1 DEF KeyInv
  <2>5. OneExecutionPerKey'
    <3>. HIDE DEF new
    <3>. QED BY <2>1, <2>2, <2>3 DEF KeyInv, OneExecutionPerKey
  <2>6. QED BY <2>1, <2>2, <2>3, <2>4, <2>5 DEF KeyInv
<1>9. CASE Answer(s)
  <2>1. /\ pc[s] = "answer" /\ pc'[s] = "idle"
        /\ \A u \in Sessions \ {s} : /\ pc'[u] = pc[u] /\ job'[u] = job[u]
                                     /\ outcomes'[u] = outcomes[u]
        /\ replies' = replies \cup {[req |-> job[s], outcomes |-> outcomes[s]]}
        /\ UNCHANGED ledger
    BY <1>9 DEF Answer, GoIdle, GoTo, durable, KeyInv, TypeOK
  <2>2. QED BY <2>1 DEF KeyInv, OneExecutionPerKey
<1>10. CASE RetractLock(s)
  <2>1. /\ pc'[s] = "retract_decide" /\ \A u \in Sessions \ {s} : pc'[u] = pc[u]
        /\ UNCHANGED <<job, outcomes, ledger, replies>>
    BY <1>10 DEF RetractLock, GoTo, durable, KeyInv, TypeOK
  <2>2. QED BY <2>1, QuietKey
<1>11. CASE RetractDecide(s)
  <2>1. /\ pc'[s] = "retract_commit" /\ \A u \in Sessions \ {s} : pc'[u] = pc[u]
        /\ UNCHANGED <<job, outcomes, ledger, replies>>
    BY <1>11 DEF RetractDecide, GoTo, durable, txn, KeyInv, TypeOK
  <2>2. QED BY <2>1, QuietKey
<1>12. CASE RetractRefused(s) BY <1>12, RollBackKey DEF RetractRefused
<1>13. CASE RetractCommit(s) BY <1>13, GoIdleKey DEF RetractCommit
<1>14. QED
  BY <1>1, <1>2, <1>3, <1>4, <1>5, <1>6, <1>7, <1>8, <1>9, <1>10, <1>11, <1>12, <1>13
  DEF Advance

LEMMA SendKey ==
  ASSUME KeyInv, TypeOK', NEW s \in Sessions, NEW j, NEW label \in {"claim", "retract_lock"},
         Send(s, j, label)
  PROVE  KeyInv'
<1>1. /\ pc'[s] = label /\ \A u \in Sessions \ {s} : pc'[u] = pc[u] /\ job'[u] = job[u]
      /\ UNCHANGED <<ledger, replies, outcomes>>
  BY DEF Send, GoTo, durable, txn, KeyInv, TypeOK
<1>2. QED BY <1>1, QuietKey DEF InTransaction

LEMMA InitKey == Init => KeyInv
BY InitType DEF Init, KeyInv, OneExecutionPerKey, InTransaction

LEMMA NextKey == KeyInv /\ [Next]_vars => KeyInv'
<1>. SUFFICES ASSUME KeyInv, [Next]_vars PROVE KeyInv'
  OBVIOUS
<1>1. TypeOK' BY NextType DEF KeyInv
<1>2. CASE \E s \in Sessions : Advance(s) BY <1>1, <1>2, AdvanceKey
<1>3. CASE \E s \in Sessions : Crash(s) BY <1>1, <1>3, RollBackKey DEF Crash
<1>4. CASE \E s \in Sessions, r \in Requests : Submit(s, r)
  BY <1>1, <1>4, SendKey DEF Submit
<1>5. CASE \E s \in Sessions, t \in Retractable : AskRetract(s, t)
  BY <1>1, <1>5, SendKey DEF AskRetract
<1>6. CASE \E t \in Thoughts : Capture(t)
  BY <1>1, <1>6, QuietKey DEF Capture, txn, InTransaction
<1>7. CASE UNCHANGED vars BY <1>1, <1>7, QuietKey DEF vars, InTransaction
<1>8. QED BY <1>2, <1>3, <1>4, <1>5, <1>6, <1>7 DEF Next

(***************************************************************************)
(* A replay key is executed at most once, and every answer is that one     *)
(* execution's recorded result: the insert that claims the key and the row *)
(* it becomes at the commit leave no moment in which the key is free.      *)
(***************************************************************************)
THEOREM ReplayKeysExecuteOnce == Spec => []OneExecutionPerKey
<1>1. KeyInv => OneExecutionPerKey BY DEF KeyInv
<1>2. QED BY <1>1, InitKey, NextKey, PTL DEF Spec

------------------------------------------------------------------------------
(***************************************************************************)
(* Cycles of two and three thoughts.  The invariant is about what each     *)
(* transaction sees, its own writes included: any two edges of so short a  *)
(* cycle share a thought, and a drafted edge has both of its ends locked,  *)
(* so two transactions cannot draft two edges of the same cycle.           *)
(***************************************************************************)
NoShortCycleIn(view) ==
  \A a, b, c \in Thoughts :
    /\ ~(ChainLink(view, a, b) /\ ChainLink(view, b, a))
    /\ ~(ChainLink(view, a, b) /\ ChainLink(view, b, c) /\ ChainLink(view, c, a))

CycleInv ==
  /\ LockInv
  /\ NoShortCycleIn(edges)
  /\ \A s \in Sessions : NoShortCycleIn(View(s))

LEMMA ShortWalks ==
  ASSUME NEW view, NEW a \in Thoughts, NEW b \in Thoughts, NEW c \in Thoughts
  PROVE  /\ ChainLink(view, a, b) => Walks(view, a, b)
         /\ ChainLink(view, a, b) /\ ChainLink(view, b, c) => Walks(view, a, c)
BY DEF Walks

\* The walk that precedes an insert sees every cycle of two or three edges.
LEMMA AfterNoShortCycle ==
  ASSUME NEW op, WellFormed(op), NEW view \in [Edges -> EdgeStates],
         NoShortCycleIn(view), ~Raises(op, view)
  PROVE  NoShortCycleIn(After(op, view))
<1>. DEFINE new == After(op, view)
<1>1. CASE op.action = "create"
  <2>1. PICK d \in Edges : op.edges = {d} BY <1>1 DEF WellFormed
  <2>2. d.from # d.to /\ d.from \in Thoughts BY EdgeFields
  <2>3. \A x, y \in Thoughts : ChainLink(new, x, y) =>
          ChainLink(view, x, y) \/ (IsChainEdge(d) /\ x = d.from /\ y = d.to)
    BY <1>1, <2>1 DEF ChainLink, ChainEdges, After, Created
  <2>4. IsChainEdge(d) => ~Walks(view, d.to, d.from)
    BY <1>1, <2>1 DEF Raises
  <2>5. IsChainEdge(d) => \A x \in Thoughts :
          /\ ~ChainLink(view, d.to, d.from)
          /\ ~(ChainLink(view, d.to, x) /\ ChainLink(view, x, d.from))
    BY <2>2, <2>4, ShortWalks DEF IsChainEdge
  <2>. HIDE DEF new
  <2>6. NoShortCycleIn(new) BY <2>2, <2>3, <2>5 DEF NoShortCycleIn
  <2>7. QED BY <2>6 DEF new
<1>2. CASE op.action # "create"
  <2>1. \A e \in ChainEdges : new[e] \in LiveStates => view[e] \in LiveStates
    BY <1>2, OpFields, RelationAssumption
    DEF After, Deleted, TaggerSetReplaced, LiveStates, ChainEdges, IsChainEdge, WellFormed
  <2>2. \A x, y \in Thoughts : ChainLink(new, x, y) => ChainLink(view, x, y)
    BY <2>1 DEF ChainLink
  <2>. HIDE DEF new
  <2>3. NoShortCycleIn(new) BY <2>2 DEF NoShortCycleIn
  <2>4. QED BY <2>3 DEF new
<1>3. QED BY <1>1, <1>2

\* After s commits, an edge that u sees is u's own, s's own or older than both.
LEMMA MergedLink ==
  ASSUME LockInv, NEW s \in Sessions, NEW u \in Sessions, Commit(s), s # u,
         NEW a \in Thoughts, NEW b \in Thoughts, ChainLink(View(u)', a, b)
  PROVE  \/ ChainLink(View(u), a, b) /\ a \in holds[u] /\ b \in holds[u]
         \/ ChainLink(View(s), a, b) /\ a \in holds[s] /\ b \in holds[s]
         \/ ChainLink(View(u), a, b) /\ ChainLink(View(s), a, b)
<1>1. PICK e \in ChainEdges : e.from = a /\ e.to = b /\ View(u)'[e] \in LiveStates
  BY DEF ChainLink
<1>2. e \in Edges /\ e.to \in Thoughts BY <1>1 DEF ChainEdges
<1>3. draft'[u] = draft[u] /\ edges' = View(s)
  BY DEF Commit, EndTransaction, LockInv, TypeOK
<1>4. View(u)'[e] = IF draft[u][e] = Unwritten THEN View(s)[e] ELSE draft[u][e]
  BY <1>2, <1>3 DEF View
<1>5. CASE draft[u][e] # Unwritten
  <2>1. View(u)[e] \in LiveStates /\ draft[u][e] \in LiveStates
    BY <1>1, <1>2, <1>4, <1>5 DEF View
  <2>2. QED BY <1>1, <1>2, <1>5, <2>1 DEF ChainLink, LockInv, DraftsCovered
<1>6. CASE draft[u][e] = Unwritten /\ draft[s][e] # Unwritten
  <2>1. View(s)[e] \in LiveStates /\ draft[s][e] \in LiveStates
    BY <1>1, <1>2, <1>4, <1>6 DEF View
  <2>2. QED BY <1>1, <1>2, <1>6, <2>1 DEF ChainLink, LockInv, DraftsCovered
<1>7. CASE draft[u][e] = Unwritten /\ draft[s][e] = Unwritten
  <2>1. View(s)[e] \in LiveStates /\ View(u)[e] \in LiveStates
    BY <1>1, <1>2, <1>4, <1>7 DEF View
  <2>2. QED BY <1>1, <2>1 DEF ChainLink
<1>8. QED BY <1>5, <1>6, <1>7

LEMMA CommitCycle ==
  ASSUME CycleInv, LockInv', NEW s \in Sessions, Commit(s)
  PROVE  CycleInv'
<1>1. NoShortCycleIn(edges)' BY DEF Commit, CycleInv, NoShortCycleIn, ChainLink
<1>2. ASSUME NEW u \in Sessions PROVE NoShortCycleIn(View(u)')
  <2>1. CASE u = s
    <3>1. draft'[s] = NoDraft /\ edges' = View(s)
      BY DEF Commit, EndTransaction, CycleInv, LockInv, TypeOK
    <3>2. \A e \in Edges : View(s)'[e] = View(s)[e] BY <3>1 DEF View, NoDraft
    <3>3. \A a, b \in Thoughts : ChainLink(View(s)', a, b) => ChainLink(View(s), a, b)
      BY <3>2 DEF ChainLink, ChainEdges
    <3>4. QED BY <2>1, <3>3 DEF CycleInv, NoShortCycleIn
  <2>2. CASE u # s
    <3>. DEFINE Own(v, a, b) == ChainLink(View(v), a, b) /\ a \in holds[v] /\ b \in holds[v]
                Old(a, b) == ChainLink(View(u), a, b) /\ ChainLink(View(s), a, b)
    <3>1. \A a, b \in Thoughts : ChainLink(View(u)', a, b) => Own(u, a, b) \/ Own(s, a, b) \/ Old(a, b)
      BY <2>2, MergedLink DEF CycleInv
    <3>2. holds[s] \cap holds[u] = {} BY <2>2 DEF CycleInv, LockInv, LocksExclusive
    <3>3. NoShortCycleIn(View(u)) /\ NoShortCycleIn(View(s)) BY DEF CycleInv
    <3>4. \A a, b \in Thoughts : ~(ChainLink(View(u)', a, b) /\ ChainLink(View(u)', b, a))
      BY <3>1, <3>2, <3>3 DEF NoShortCycleIn
    <3>5. \A a, b, c \in Thoughts :
            ~(ChainLink(View(u)', a, b) /\ ChainLink(View(u)', b, c) /\ ChainLink(View(u)', c, a))
      BY <3>1, <3>2, <3>3 DEF NoShortCycleIn
    <3>6. QED BY <3>4, <3>5 DEF NoShortCycleIn
  <2>3. QED BY <2>1, <2>2
<1>3. QED BY <1>1, <1>2 DEF CycleInv, NoShortCycleIn, ChainLink

LEMMA ApplyCycle ==
  ASSUME CycleInv, LockInv', NEW s \in Sessions, Apply(s)
  PROVE  CycleInv'
<1>. DEFINE op == CurrentOp(s)
            new == After(op, View(s))
<1>1. WellFormed(op) BY CurrentOpType DEF Apply, CycleInv, LockInv
<1>2. View(s) \in [Edges -> EdgeStates] BY ViewType DEF CycleInv, LockInv
<1>3. new \in [Edges -> EdgeStates] BY <1>1, <1>2, AfterType
<1>4. /\ \A u \in Sessions \ {s} : draft'[u] = draft[u]
      /\ draft'[s] = [e \in Edges |-> IF new[e] = View(s)[e] THEN draft[s][e] ELSE new[e]]
      /\ UNCHANGED edges
  BY DEF Apply, durable, CycleInv, LockInv, TypeOK
<1>5. NoShortCycleIn(new)
  BY <1>1, <1>2, AfterNoShortCycle DEF Apply, CycleInv
<1>6. \A e \in Edges : View(s)'[e] = new[e]
  <2>1. \A e \in Edges : new[e] # Unwritten BY <1>3 DEF EdgeStates, LiveStates, Unwritten
  <2>2. \A e \in Edges : View(s)[e] = IF draft[s][e] = Unwritten THEN edges[e] ELSE draft[s][e]
    BY DEF View
  <2>3. \A e \in Edges : View(s)'[e] = IF draft'[s][e] = Unwritten THEN edges'[e] ELSE draft'[s][e]
    BY DEF View
  <2>. HIDE DEF new
  <2>4. QED BY <1>4, <2>1, <2>2, <2>3
<1>7. NoShortCycleIn(View(s)')
  <2>. HIDE DEF new
  <2>1. \A a, b \in Thoughts : ChainLink(View(s)', a, b) => ChainLink(new, a, b)
    BY <1>6 DEF ChainLink, ChainEdges
  <2>2. QED BY <1>5, <2>1 DEF NoShortCycleIn
<1>8. \A u \in Sessions \ {s} : View(u)' = View(u) BY <1>4 DEF View
<1>9. QED BY <1>4, <1>7, <1>8 DEF CycleInv, NoShortCycleIn, ChainLink

\* A step that leaves the edges alone and at most forgets some drafts.
LEMMA ForgetfulCycle ==
  ASSUME CycleInv, LockInv', UNCHANGED edges,
         \A s \in Sessions : draft'[s] = draft[s] \/ draft'[s] = NoDraft
  PROVE  CycleInv'
<1>1. ASSUME NEW s \in Sessions PROVE NoShortCycleIn(View(s)')
  <2>1. CASE draft'[s] = draft[s]
    <3>1. View(s)' = View(s) BY <2>1 DEF View
    <3>2. QED BY <3>1 DEF CycleInv
  <2>2. CASE draft'[s] = NoDraft
    <3>1. \A e \in Edges : View(s)'[e] = edges[e] BY <2>2 DEF View, NoDraft
    <3>2. \A a, b \in Thoughts : ChainLink(View(s)', a, b) => ChainLink(edges, a, b)
      BY <3>1 DEF ChainLink, ChainEdges
    <3>3. QED BY <3>2 DEF CycleInv, NoShortCycleIn
  <2>3. QED BY <2>1, <2>2
<1>2. NoShortCycleIn(edges)' BY DEF CycleInv, NoShortCycleIn, ChainLink
<1>3. QED BY <1>1, <1>2 DEF CycleInv, NoShortCycleIn, ChainLink

LEMMA NextCycle == CycleInv /\ [Next]_vars => CycleInv'
<1>. SUFFICES ASSUME CycleInv, [Next]_vars PROVE CycleInv'
  OBVIOUS
<1>1. LockInv' BY NextLock DEF CycleInv
<1>2. CASE \E s \in Sessions : Commit(s) BY <1>1, <1>2, CommitCycle
<1>3. CASE \E s \in Sessions : Apply(s) BY <1>1, <1>3, ApplyCycle
<1>4. CASE ~(\E s \in Sessions : Commit(s)) /\ ~(\E s \in Sessions : Apply(s))
  <2>1. UNCHANGED edges /\ \A s \in Sessions : draft'[s] = draft[s] \/ draft'[s] = NoDraft
    BY <1>4
    DEF Next, Advance, vars, ClaimFresh, Replay, SourceEventConflict, LockRow, RefuseEndpoint,
        ApplyRaises, Answer, RetractLock, RetractDecide, RetractRefused, RetractCommit,
        RollBack, Crash, Submit, AskRetract, Send, Capture, durable, txn, GoIdle,
        EndTransaction, CycleInv, LockInv, TypeOK
  <2>2. QED BY <1>1, <2>1, ForgetfulCycle
<1>5. QED BY <1>2, <1>3, <1>4

(***************************************************************************)
(* relation_cycle_detected does keep chains of two and three thoughts      *)
(* acyclic, whatever runs concurrently.  Four thoughts are beyond it: see  *)
(* NoChainCycle.                                                           *)
(***************************************************************************)
THEOREM NoShortCycles == Spec => []NoShortChainCycle
<1>1. Init => CycleInv
  <2>. SUFFICES ASSUME Init PROVE CycleInv
    OBVIOUS
  <2>1. \A e \in Edges : edges[e] \notin LiveStates /\ \A s \in Sessions : View(s)[e] \notin LiveStates
    BY DEF Init, View, NoDraft, LiveStates
  <2>2. \A a, b \in Thoughts : ~ChainLink(edges, a, b) /\ \A s \in Sessions : ~ChainLink(View(s), a, b)
    BY <2>1 DEF ChainLink, ChainEdges
  <2>3. QED BY <2>2, InitLock DEF CycleInv, NoShortCycleIn
<1>2. CycleInv => NoShortChainCycle
  BY DEF CycleInv, NoShortCycleIn, NoShortChainCycle
<1>3. QED BY <1>1, <1>2, NextCycle, PTL DEF Spec

------------------------------------------------------------------------------
(***************************************************************************)
(* Cycles of any length.  The walk is complete: it finds every chain that  *)
(* an insert would close, as far as its transaction sees.  So a cycle      *)
(* takes two transactions that both create chain edges and overlap, like   *)
(* those of run `square'.                                                  *)
(***************************************************************************)
NoCycleIn(view) == \A t \in Thoughts : ~Walks(view, t, t)

Closed(view, a, S) ==
  \A x, y \in Thoughts : ChainLink(view, x, y) /\ (x = a \/ x \in S) => y \in S

Reach(view, a) == {y \in Thoughts : Walks(view, a, y)}

LEMMA ReachClosed ==
  ASSUME NEW view, NEW a \in Thoughts
  PROVE  Closed(view, a, Reach(view, a))
<1> SUFFICES ASSUME NEW x \in Thoughts, NEW y \in Thoughts, ChainLink(view, x, y),
                    x = a \/ x \in Reach(view, a),
                    NEW S \in SUBSET Thoughts, Closed(view, a, S)
             PROVE  y \in S
  BY DEF Closed, Reach, Walks
<1>1. x = a \/ x \in S BY DEF Reach, Walks, Closed
<1> QED BY <1>1 DEF Closed

\* A set that is closed and leaves a thought out shows that no chain leads there.
LEMMA LeftOut ==
  ASSUME NEW view, NEW a \in Thoughts, NEW b \in Thoughts,
         NEW S \in SUBSET Thoughts, Closed(view, a, S), b \notin S
  PROVE  ~Walks(view, a, b)
BY DEF Walks, Closed

LEMMA WalksOn ==
  ASSUME NEW view, NEW a \in Thoughts, NEW b \in Thoughts, NEW c \in Thoughts,
         Walks(view, a, b), Walks(view, b, c)
  PROVE  Walks(view, a, c)
<1> SUFFICES ASSUME NEW S \in SUBSET Thoughts, Closed(view, a, S) PROVE c \in S
  BY DEF Walks, Closed
<1>1. b \in S BY DEF Walks, Closed
<1>2. Closed(view, b, S) BY <1>1 DEF Closed
<1> QED BY <1>2 DEF Walks, Closed

LEMMA FewerLinks ==
  ASSUME NEW view, NEW new, NoCycleIn(view),
         \A x, y \in Thoughts : ChainLink(new, x, y) => ChainLink(view, x, y)
  PROVE  NoCycleIn(new)
<1> SUFFICES ASSUME NEW t \in Thoughts PROVE ~Walks(new, t, t) BY DEF NoCycleIn
<1>1. Reach(view, t) \in SUBSET Thoughts /\ t \notin Reach(view, t) BY DEF Reach, NoCycleIn
<1>2. Closed(new, t, Reach(view, t)) BY ReachClosed DEF Closed
<1> QED BY <1>1, <1>2, LeftOut

\* One link more, from a to b, where no chain led from b to a.
LEMMA OneLinkMore ==
  ASSUME NEW view, NEW new, NoCycleIn(view), NEW a \in Thoughts, NEW b \in Thoughts, a # b,
         ~Walks(view, b, a),
         \A x, y \in Thoughts :
           ChainLink(new, x, y) => ChainLink(view, x, y) \/ (x = a /\ y = b)
  PROVE  NoCycleIn(new)
<1> SUFFICES ASSUME NEW t \in Thoughts PROVE ~Walks(new, t, t) BY DEF NoCycleIn
<1> DEFINE S == Reach(view, t)
           T == Reach(view, b)
<1>1. S \in SUBSET Thoughts /\ T \in SUBSET Thoughts BY DEF Reach
<1>2. t \notin S /\ a \notin T BY DEF Reach, NoCycleIn
<1>3. Closed(view, t, S) /\ Closed(view, b, T) BY ReachClosed
<1>4. CASE a # t /\ a \notin S
  <2>1. Closed(new, t, S) BY <1>3, <1>4 DEF Closed
  <2> QED BY <1>1, <1>2, <2>1, LeftOut
<1>5. CASE a = t \/ a \in S
  <2>1. Closed(new, t, S \cup {b} \cup T)
    <3> HIDE DEF S, T
    <3> QED BY <1>3 DEF Closed
  <2>2. t \notin S \cup {b} \cup T
    <3>1. CASE a = t
      <4> HIDE DEF S, T
      <4> QED BY <1>2, <3>1
    <3>2. CASE a # t
      <4>1. a \in S BY <1>5, <3>2
      <4>2. Walks(view, t, a) BY <4>1 DEF Reach
      <4>3. t # b BY <4>2
      <4>4. ~Walks(view, b, t) BY <4>2, WalksOn
      <4>5. t \notin T BY <4>4 DEF Reach
      <4> HIDE DEF S, T
      <4> QED BY <1>2, <4>3, <4>5
    <3> QED BY <3>1, <3>2
  <2>3. S \cup {b} \cup T \in SUBSET Thoughts
    <3> HIDE DEF S, T
    <3> QED BY <1>1
  <2> HIDE DEF S, T
  <2> QED BY <2>1, <2>2, <2>3, LeftOut
<1> QED BY <1>4, <1>5

\* The walk that precedes an insert sees every cycle.
LEMMA AfterNoCycle ==
  ASSUME NEW op, WellFormed(op), NEW view \in [Edges -> EdgeStates],
         NoCycleIn(view), ~Raises(op, view)
  PROVE  NoCycleIn(After(op, view))
<1> DEFINE new == After(op, view)
<1>1. CASE op.action = "create"
  <2>1. PICK d \in Edges : op.edges = {d} BY <1>1 DEF WellFormed
  <2>2. d.from # d.to /\ d.from \in Thoughts BY EdgeFields
  <2>3. \A x, y \in Thoughts : ChainLink(new, x, y) =>
          ChainLink(view, x, y) \/ (IsChainEdge(d) /\ x = d.from /\ y = d.to)
    BY <1>1, <2>1 DEF ChainLink, ChainEdges, After, Created
  <2> HIDE DEF new
  <2>4. CASE IsChainEdge(d)
    <3>1. ~Walks(view, d.to, d.from) /\ d.to \in Thoughts
      BY <1>1, <2>1, <2>4 DEF Raises, IsChainEdge
    <3>2. NoCycleIn(new) BY <2>2, <2>3, <3>1, OneLinkMore
    <3> QED BY <3>2 DEF new
  <2>5. CASE ~IsChainEdge(d)
    <3>1. NoCycleIn(new) BY <2>3, <2>5, FewerLinks
    <3> QED BY <3>1 DEF new
  <2> QED BY <2>4, <2>5
<1>2. CASE op.action # "create"
  <2>1. \A e \in ChainEdges : new[e] \in LiveStates => view[e] \in LiveStates
    BY <1>2, OpFields, RelationAssumption
    DEF After, Deleted, TaggerSetReplaced, LiveStates, ChainEdges, IsChainEdge, WellFormed
  <2>2. \A x, y \in Thoughts : ChainLink(new, x, y) => ChainLink(view, x, y)
    BY <2>1 DEF ChainLink
  <2> HIDE DEF new
  <2>3. NoCycleIn(new) BY <2>2, FewerLinks
  <2> QED BY <2>3 DEF new
<1> QED BY <1>1, <1>2

\* A request that creates an edge of a chain.
Chains(r) == \E op \in OpsOf(r) : op.action = "create" /\ \E e \in op.edges : IsChainEdge(e)

\* No two transactions that do so overlap (what one lock for them all would give).
LinksSerialized ==
  \A s, u \in Sessions :
    InTransaction(s) /\ InTransaction(u) /\ Chains(job[s]) /\ Chains(job[u]) => s = u

DraftsNoChain(s) == \A e \in ChainEdges : draft[s][e] \notin LiveStates

AcyclicFor(s) == IF Chains(job[s]) THEN NoCycleIn(View(s)) ELSE DraftsNoChain(s)

SerialInv ==
  /\ LockInv
  /\ NoCycleIn(edges)
  /\ \A s \in Sessions : InTransaction(s) => AcyclicFor(s)

LEMMA CommitSerial ==
  ASSUME SerialInv, LinksSerialized, LockInv', NEW s \in Sessions, Commit(s)
  PROVE  SerialInv'
<1>1. /\ pc[s] = "commit" /\ pc'[s] = "answer" /\ edges' = View(s)
      /\ \A u \in Sessions \ {s} : /\ pc'[u] = pc[u] /\ job'[u] = job[u]
                                   /\ draft'[u] = draft[u]
  BY DEF Commit, GoTo, EndTransaction, SerialInv, LockInv, TypeOK
<1>2. InTransaction(s) /\ AcyclicFor(s) BY <1>1 DEF SerialInv, InTransaction
<1>3. ASSUME DraftsNoChain(s) PROVE \A e \in ChainEdges : edges'[e] \in LiveStates => edges[e] \in LiveStates
  BY <1>1, <1>3 DEF View, DraftsNoChain, ChainEdges
<1>4. NoCycleIn(edges')
  <2>1. CASE Chains(job[s]) BY <1>1, <1>2, <2>1 DEF AcyclicFor
  <2>2. CASE ~Chains(job[s])
    <3>1. DraftsNoChain(s) BY <1>2, <2>2 DEF AcyclicFor
    <3>2. \A x, y \in Thoughts : ChainLink(edges', x, y) => ChainLink(edges, x, y)
      BY <1>3, <3>1 DEF ChainLink
    <3> QED BY <3>2, FewerLinks DEF SerialInv
  <2> QED BY <2>1, <2>2
<1>5. ASSUME NEW u \in Sessions, InTransaction(u)' PROVE AcyclicFor(u)'
  <2>1. u # s /\ InTransaction(u) /\ job'[u] = job[u] /\ draft'[u] = draft[u]
    BY <1>1, <1>5 DEF InTransaction
  <2>2. AcyclicFor(u) BY <2>1 DEF SerialInv
  <2>3. CASE Chains(job[u])
    <3>1. ~Chains(job[s]) BY <1>2, <2>1, <2>3 DEF LinksSerialized
    <3>2. DraftsNoChain(s) BY <1>2, <3>1 DEF AcyclicFor
    <3>3. \A e \in ChainEdges : View(u)'[e] \in LiveStates => View(u)[e] \in LiveStates
      BY <1>3, <2>1, <3>2 DEF View, ChainEdges
    <3>4. \A x, y \in Thoughts : ChainLink(View(u)', x, y) => ChainLink(View(u), x, y)
      BY <3>3 DEF ChainLink
    <3>5. NoCycleIn(View(u)) BY <2>2, <2>3 DEF AcyclicFor
    <3>6. NoCycleIn(View(u)') BY <3>4, <3>5, FewerLinks
    <3> QED BY <2>1, <2>3, <3>6 DEF AcyclicFor, NoCycleIn, Chains
  <2>4. CASE ~Chains(job[u])
    BY <2>1, <2>2, <2>4 DEF AcyclicFor, DraftsNoChain, Chains
  <2> QED BY <2>3, <2>4
<1> QED BY <1>4, <1>5 DEF SerialInv, NoCycleIn

LEMMA ApplySerial ==
  ASSUME SerialInv, LockInv', NEW s \in Sessions, Apply(s)
  PROVE  SerialInv'
<1> DEFINE op == CurrentOp(s)
           new == After(op, View(s))
<1>1. WellFormed(op) /\ op \in OpsOf(job[s]) BY CurrentOpType DEF Apply, SerialInv, LockInv
<1>2. View(s) \in [Edges -> EdgeStates] BY ViewType DEF SerialInv, LockInv
<1>3. new \in [Edges -> EdgeStates] BY <1>1, <1>2, AfterType
<1>4. /\ pc[s] = "apply" /\ ~Raises(op, View(s))
      /\ \A u \in Sessions \ {s} : pc'[u] = pc[u] /\ draft'[u] = draft[u]
      /\ draft'[s] = [e \in Edges |-> IF new[e] = View(s)[e] THEN draft[s][e] ELSE new[e]]
      /\ UNCHANGED <<edges, job>>
  BY DEF Apply, GoTo, durable, SerialInv, LockInv, TypeOK
<1>5. InTransaction(s) /\ AcyclicFor(s) BY <1>4 DEF SerialInv, InTransaction
<1>6. AcyclicFor(s)'
  <2>1. CASE Chains(job[s])
    <3>1. NoCycleIn(View(s)) BY <1>5, <2>1 DEF AcyclicFor
    <3>2. NoCycleIn(new) BY <1>1, <1>2, <1>4, <3>1, AfterNoCycle
    <3>3. \A e \in Edges : View(s)'[e] = new[e]
      <4>1. \A e \in Edges : new[e] # Unwritten BY <1>3 DEF EdgeStates, LiveStates, Unwritten
      <4>2. \A e \in Edges : View(s)[e] = IF draft[s][e] = Unwritten THEN edges[e] ELSE draft[s][e]
        BY DEF View
      <4>3. \A e \in Edges : View(s)'[e] = IF draft'[s][e] = Unwritten THEN edges'[e] ELSE draft'[s][e]
        BY DEF View
      <4> HIDE DEF new
      <4> QED BY <1>4, <4>1, <4>2, <4>3
    <3> HIDE DEF new
    <3>4. \A x, y \in Thoughts : ChainLink(View(s)', x, y) => ChainLink(new, x, y)
      BY <3>3 DEF ChainLink, ChainEdges
    <3>5. NoCycleIn(View(s)') BY <3>2, <3>4, FewerLinks
    <3> QED BY <1>4, <2>1, <3>5 DEF AcyclicFor, NoCycleIn, Chains
  <2>2. CASE ~Chains(job[s])
    <3>1. ASSUME NEW e \in ChainEdges, new[e] # View(s)[e] PROVE new[e] \notin LiveStates
      <4>1. e \in op.edges => op.action # "create" BY <1>1, <2>2, <3>1 DEF Chains, ChainEdges
      <4>2. e \in op.edges => op.action # "replace_tagger_set"
        BY <1>1, <3>1, OpFields, RelationAssumption DEF ChainEdges, IsChainEdge
      <4> QED
        BY <1>1, <3>1, <4>1, <4>2, OpFields
        DEF After, Created, Deleted, TaggerSetReplaced, LiveStates, ChainEdges
    <3>2. DraftsNoChain(s) BY <1>5, <2>2 DEF AcyclicFor
    <3>3. \A e \in ChainEdges : draft'[s][e] \notin LiveStates
      <4> HIDE DEF new
      <4> QED BY <1>4, <3>1, <3>2 DEF DraftsNoChain, ChainEdges
    <3> QED BY <1>4, <2>2, <3>3 DEF AcyclicFor, DraftsNoChain, Chains
  <2> QED BY <2>1, <2>2
<1>7. ASSUME NEW u \in Sessions \ {s}, InTransaction(u)' PROVE AcyclicFor(u)'
  <2> HIDE DEF new
  <2>1. AcyclicFor(u) BY <1>4, <1>7 DEF SerialInv, InTransaction
  <2>2. draft'[u] = draft[u] /\ View(u)' = View(u) BY <1>4 DEF View
  <2> QED BY <1>4, <2>1, <2>2 DEF AcyclicFor, DraftsNoChain, NoCycleIn, Chains
<1>8. NoCycleIn(edges)' BY <1>4 DEF SerialInv, NoCycleIn
<1> QED BY <1>6, <1>7, <1>8 DEF SerialInv

\* A step that leaves the edges alone; who is in a transaction then has what it had.
LEMMA QuietSerial ==
  ASSUME SerialInv, LockInv', UNCHANGED edges,
         \A u \in Sessions : InTransaction(u)' =>
           /\ InTransaction(u) \/ pc[u] = "claim"
           /\ job'[u] = job[u] /\ draft'[u] = draft[u]
  PROVE  SerialInv'
<1>1. NoCycleIn(edges)' BY DEF SerialInv, NoCycleIn
<1>2. ASSUME NEW u \in Sessions, InTransaction(u)' PROVE AcyclicFor(u)'
  <2>1. job'[u] = job[u] /\ draft'[u] = draft[u] BY <1>2
  <2>2. View(u)' = View(u) BY <2>1 DEF View
  <2>3. AcyclicFor(u)
    <3>1. CASE InTransaction(u) BY <3>1 DEF SerialInv
    <3>2. CASE pc[u] = "claim"
      <4>1. \A e \in Edges : draft[u][e] = Unwritten
        BY <3>2 DEF SerialInv, LockInv, DraftsCovered
      <4>2. DraftsNoChain(u) BY <4>1 DEF DraftsNoChain, ChainEdges, LiveStates, Unwritten
      <4>3. \A x, y \in Thoughts : ChainLink(View(u), x, y) => ChainLink(edges, x, y)
        BY <4>1 DEF ChainLink, ChainEdges, View
      <4>4. NoCycleIn(View(u)) BY <4>3, FewerLinks DEF SerialInv
      <4> QED BY <4>2, <4>4 DEF AcyclicFor
    <3> QED BY <1>2, <3>1, <3>2
  <2> QED BY <2>1, <2>2, <2>3 DEF AcyclicFor, DraftsNoChain, NoCycleIn, Chains
<1> QED BY <1>1, <1>2 DEF SerialInv

LEMMA NextSerial == SerialInv /\ LinksSerialized /\ [Next]_vars => SerialInv'
<1> SUFFICES ASSUME SerialInv, LinksSerialized, [Next]_vars PROVE SerialInv'
  OBVIOUS
<1>1. LockInv' BY NextLock DEF SerialInv
<1>2. CASE \E s \in Sessions : Commit(s) BY <1>1, <1>2, CommitSerial
<1>3. CASE \E s \in Sessions : Apply(s) BY <1>1, <1>3, ApplySerial
<1>4. ASSUME NEW s \in Sessions, GoIdle(s), UNCHANGED edges PROVE SerialInv'
  <2>1. pc'[s] = "idle" /\ \A u \in Sessions \ {s} : /\ pc'[u] = pc[u] /\ job'[u] = job[u]
                                                     /\ draft'[u] = draft[u]
    BY <1>4 DEF GoIdle, GoTo, EndTransaction, SerialInv, LockInv, TypeOK
  <2> QED BY <1>1, <1>4, <2>1, QuietSerial DEF InTransaction
<1>5. ASSUME NEW s \in Sessions, Advance(s), ~Commit(s), ~Apply(s) PROVE SerialInv'
  <2>1. CASE GoIdle(s)
    <3>1. UNCHANGED edges
      BY <1>5
      DEF Advance, ClaimFresh, Replay, SourceEventConflict, LockRow, RefuseEndpoint,
          ApplyRaises, Answer, RetractLock, RetractDecide, RetractRefused, RetractCommit,
          RollBack, durable
    <3> QED BY <1>4, <2>1, <3>1
  <2>2. CASE ~GoIdle(s)
    <3>1. ClaimFresh(s) \/ Replay(s) \/ LockRow(s) \/ RetractLock(s) \/ RetractDecide(s)
      BY <1>5, <2>2
      DEF Advance, SourceEventConflict, RefuseEndpoint, ApplyRaises, Answer, RetractRefused,
          RetractCommit, RollBack
    <3>2. /\ UNCHANGED <<edges, job, draft>>
          /\ \A u \in Sessions \ {s} : pc'[u] = pc[u]
          /\ InTransaction(s)' => InTransaction(s) \/ pc[s] = "claim"
      BY <3>1
      DEF ClaimFresh, Replay, LockRow, RetractLock, RetractDecide, GoTo, durable, txn,
          InTransaction, SerialInv, LockInv, TypeOK
    <3> QED BY <1>1, <3>2, QuietSerial DEF InTransaction
  <2> QED BY <2>1, <2>2
<1>6. CASE \E s \in Sessions : Crash(s) BY <1>4, <1>6 DEF Crash, RollBack, durable
<1>7. ASSUME NEW s \in Sessions, NEW j, NEW label \in {"claim", "retract_lock"}, Send(s, j, label)
      PROVE  SerialInv'
  <2>1. /\ pc'[s] = label /\ UNCHANGED <<edges, draft>>
        /\ \A u \in Sessions \ {s} : pc'[u] = pc[u] /\ job'[u] = job[u]
    BY <1>7 DEF Send, GoTo, durable, txn, SerialInv, LockInv, TypeOK
  <2> QED BY <1>1, <2>1, QuietSerial DEF InTransaction
<1>8. CASE \E s \in Sessions, r \in Requests : Submit(s, r) BY <1>7, <1>8 DEF Submit
<1>9. CASE \E s \in Sessions, t \in Retractable : AskRetract(s, t) BY <1>7, <1>9 DEF AskRetract
<1>10. CASE \E t \in Thoughts : Capture(t)
  BY <1>1, <1>10, QuietSerial DEF Capture, txn, InTransaction
<1>11. CASE UNCHANGED vars BY <1>1, <1>11, QuietSerial DEF vars, txn, InTransaction
<1> QED BY <1>2, <1>3, <1>5, <1>6, <1>8, <1>9, <1>10, <1>11 DEF Next

(***************************************************************************)
(* Were the transactions that create replaces and refines links run one at *)
(* a time, no chain of any length would close: the recursive walk of       *)
(* migration 0033 is right, and the circle of run `square' is owed to its  *)
(* not seeing what another transaction has not committed, nothing else.    *)
(* (Unlinks, re-tags, retractions and other links may overlap with it.)    *)
(***************************************************************************)
THEOREM SerialLinksMakeNoCycle == Spec /\ []LinksSerialized => []NoChainCycle
<1>1. Init => SerialInv
  <2> SUFFICES ASSUME Init PROVE SerialInv OBVIOUS
  <2>1. \A e \in Edges : edges[e] \notin LiveStates BY DEF Init, LiveStates
  <2>2. \A x, y \in Thoughts : ~ChainLink(edges, x, y) BY <2>1 DEF ChainLink, ChainEdges
  <2>3. \A t \in Thoughts : Closed(edges, t, {}) BY <2>2 DEF Closed
  <2>4. NoCycleIn(edges) BY <2>3, LeftOut DEF NoCycleIn
  <2>5. \A s \in Sessions : ~InTransaction(s) BY DEF Init, InTransaction
  <2> QED BY <2>4, <2>5, InitLock DEF SerialInv
<1>2. SerialInv => NoChainCycle BY DEF SerialInv, NoCycleIn, NoChainCycle
<1>3. QED BY <1>1, <1>2, NextSerial, PTL DEF Spec

------------------------------------------------------------------------------
(***************************************************************************)
(* Operations one after the other (the loop of                             *)
(* mutate_thought_relations_serialized): what they come to, and that it    *)
(* depends on edges of the thoughts they start from alone.                 *)
(***************************************************************************)

LEMMA LeastNat ==
  ASSUME NEW S \in SUBSET Nat, S # {}
  PROVE  \E k \in S : \A m \in S : k <= m
<1>1. PICK k \in S : \A m \in S : ~(<<m, k>> \in OpToRel(<, Nat))
  BY NatLessThanWellFounded, WFMin, Zenon
<1>2. \A m \in S : ~(m < k) BY <1>1 DEF OpToRel
<1> QED BY <1>2

\* Induction up to a bound.
LEMMA UpTo ==
  ASSUME NEW N \in Nat, NEW S, 0 \in S, \A n \in 1..N : n - 1 \in S => n \in S
  PROVE  0..N \subseteq S
<1> DEFINE T == (0..N) \ S
<1> SUFFICES ASSUME T # {} PROVE FALSE OBVIOUS
<1>1. PICK k \in T : \A m \in T : k <= m
  <2>1. T \in SUBSET Nat OBVIOUS
  <2> HIDE DEF T
  <2> QED BY <2>1, LeastNat
<1>2. k \in 1..N /\ k - 1 \in 0..N OBVIOUS
<1>3. k - 1 \notin T
  <2>1. ~(k <= k - 1) BY <1>2
  <2> HIDE DEF T
  <2> QED BY <1>1, <2>1
<1> QED BY <1>2, <1>3

\* What is done up to an operation is what was done before it, and the operation.
LEMMA AppliedSteps ==
  ASSUME NEW r \in Requests, NEW view
  PROVE  /\ Len(r.ops) \in Nat
         /\ Applied(r, view)[0] = [view |-> view, outcomes |-> <<>>]
         /\ \A n \in 1..Len(r.ops) :
              Applied(r, view)[n] =
                [view |-> After(r.ops[n], Applied(r, view)[n - 1].view),
                 outcomes |-> Append(Applied(r, view)[n - 1].outcomes,
                                     Outcome(r.ops[n], Applied(r, view)[n - 1].view))]
<1> DEFINE N == Len(r.ops)
           base == [view |-> view, outcomes |-> <<>>]
           step(acc, n) == [view |-> After(r.ops[n], acc.view),
                            outcomes |-> Append(acc.outcomes, Outcome(r.ops[n], acc.view))]
           Upto(g, k) == g = [n \in 0..k |-> IF n = 0 THEN base ELSE step(g[n - 1], n)]
           Defined == {k \in 0..N : \E g : Upto(g, k)}
<1>1. N \in Nat BY RelationAssumption
<1>2. Applied(r, view) = CHOOSE g : Upto(g, N) BY Zenon DEF Applied
<1> HIDE DEF base, step
<1>3. 0 \in Defined
  <2>1. Upto([n \in 0..0 |-> base], 0) OBVIOUS
  <2> HIDE DEF Upto
  <2> QED BY <1>1, <2>1
<1>4. ASSUME NEW k \in 1..N, k - 1 \in Defined PROVE k \in Defined
  <2>1. PICK h : Upto(h, k - 1) BY <1>4
  <2> DEFINE g == [n \in 0..k |-> IF n = k THEN step(h[k - 1], k) ELSE h[n]]
  <2>2. Upto(g, k)
    <3> SUFFICES ASSUME NEW n \in 0..k
                 PROVE  g[n] = IF n = 0 THEN base ELSE step(g[n - 1], n)
      OBVIOUS
    <3>1. k \in Nat /\ k > 0 OBVIOUS
    <3>2. CASE n = k
      <4>1. k - 1 \in 0..k /\ k - 1 # k BY <3>1
      <4>2. g[k - 1] = h[k - 1] BY <4>1
      <4>3. g[k] = step(h[k - 1], k) BY <3>1
      <4> HIDE DEF g
      <4> QED BY <3>1, <3>2, <4>2, <4>3
    <3>3. CASE n # k
      <4>1. n \in 0..(k - 1) BY <3>1, <3>3
      <4>2. h[n] = IF n = 0 THEN base ELSE step(h[n - 1], n) BY <2>1, <4>1
      <4>3. g[n] = h[n] BY <3>3
      <4>4. n # 0 => g[n - 1] = h[n - 1] BY <3>1, <3>3
      <4> HIDE DEF g
      <4> QED BY <4>2, <4>3, <4>4
    <3> QED BY <3>2, <3>3
  <2> HIDE DEF Upto
  <2> QED BY <1>1, <2>2
<1>5. \E g : Upto(g, N)
  <2>1. 0..N \subseteq Defined
    <3> HIDE DEF Defined, N
    <3> QED BY <1>1, <1>3, <1>4, UpTo
  <2>2. N \in Defined
    <3>1. N \in 0..N BY <1>1
    <3> HIDE DEF Defined, N
    <3> QED BY <2>1, <3>1
  <2> HIDE DEF Upto, N
  <2> QED BY <2>2
<1>6. Upto(Applied(r, view), N) BY <1>2, <1>5, Zenon
<1>7. Applied(r, view)[0] = base BY <1>1, <1>6
<1>8. \A n \in 1..N : Applied(r, view)[n] = step(Applied(r, view)[n - 1], n) BY <1>1, <1>6
<1> QED BY <1>1, <1>7, <1>8 DEF base, step

LEMMA AppliedNext ==
  ASSUME NEW r \in Requests, NEW view, NEW n \in 0..(Len(r.ops) - 1)
  PROVE  /\ Applied(r, view)[n + 1].view = After(r.ops[n + 1], Applied(r, view)[n].view)
         /\ Applied(r, view)[n + 1].outcomes =
              Append(Applied(r, view)[n].outcomes, Outcome(r.ops[n + 1], Applied(r, view)[n].view))
<1> DEFINE A == Applied(r, view)
           m == n + 1
<1>1. /\ Len(r.ops) \in Nat
      /\ \A k \in 1..Len(r.ops) :
           A[k] = [view |-> After(r.ops[k], A[k - 1].view),
                   outcomes |-> Append(A[k - 1].outcomes, Outcome(r.ops[k], A[k - 1].view))]
  BY AppliedSteps
<1>2. m \in 1..Len(r.ops) /\ m - 1 = n BY <1>1
<1> HIDE DEF A, m
<1>3. A[m] = [view |-> After(r.ops[m], A[n].view),
              outcomes |-> Append(A[n].outcomes, Outcome(r.ops[m], A[n].view))]
  BY <1>1, <1>2
<1>4. /\ A[m].view = After(r.ops[m], A[n].view)
      /\ A[m].outcomes = Append(A[n].outcomes, Outcome(r.ops[m], A[n].view))
  BY <1>3
<1> QED BY <1>4 DEF A, m

LEMMA AppliedType ==
  ASSUME NEW r \in Requests, NEW view \in [Edges -> EdgeStates], NEW n \in 0..Len(r.ops)
  PROVE  /\ Applied(r, view)[n].view \in [Edges -> EdgeStates]
         /\ Applied(r, view)[n].outcomes \in Seq(Outcomes)
         /\ Len(Applied(r, view)[n].outcomes) = n
<1> DEFINE N == Len(r.ops)
           A == Applied(r, view)
           Typed == {k \in 0..N : /\ A[k].view \in [Edges -> EdgeStates]
                                  /\ A[k].outcomes \in Seq(Outcomes)
                                  /\ Len(A[k].outcomes) = k}
<1>1. N \in Nat BY AppliedSteps
<1>2. 0 \in Typed
  <2>1. A[0] = [view |-> view, outcomes |-> <<>>] BY AppliedSteps
  <2> HIDE DEF A
  <2>2. A[0].view = view /\ A[0].outcomes = <<>> BY <2>1
  <2>3. A[0].view \in [Edges -> EdgeStates] BY <2>2
  <2>4. A[0].outcomes \in Seq(Outcomes) /\ Len(A[0].outcomes) = 0 BY <2>2
  <2>5. 0 \in 0..N BY <1>1
  <2> HIDE DEF N
  <2> QED BY <2>3, <2>4, <2>5
<1>3. ASSUME NEW k \in 1..N, k - 1 \in Typed PROVE k \in Typed
  <2> DEFINE op == r.ops[k]
  <2>1. WellFormed(op) BY <1>1, RequestOps
  <2>2. A[k - 1].view \in [Edges -> EdgeStates] BY <1>3
  <2>3. /\ After(op, A[k - 1].view) \in [Edges -> EdgeStates]
        /\ Outcome(op, A[k - 1].view) \in Outcomes
    BY <2>1, <2>2, AfterType
  <2>4. A[k] = [view |-> After(op, A[k - 1].view),
                outcomes |-> Append(A[k - 1].outcomes, Outcome(op, A[k - 1].view))]
    BY AppliedSteps
  <2>5. A[k - 1].outcomes \in Seq(Outcomes) /\ Len(A[k - 1].outcomes) = k - 1 BY <1>3
  <2> HIDE DEF A, op, N
  <2>6. A[k].view \in [Edges -> EdgeStates] BY <2>3, <2>4
  <2>7. A[k].outcomes = Append(A[k - 1].outcomes, Outcome(op, A[k - 1].view)) BY <2>4
  <2>8. A[k].outcomes \in Seq(Outcomes) /\ Len(A[k].outcomes) = k
    <3> DEFINE x == Outcome(op, A[k - 1].view)
    <3> HIDE DEF x
    <3> QED BY <1>1, <2>3, <2>5, <2>7 DEF x
  <2> QED BY <1>1, <2>6, <2>8
<1>4. 0..N \subseteq Typed
  <2> HIDE DEF Typed, N
  <2> QED BY <1>1, <1>2, <1>3, UpTo
<1> QED BY <1>4

\* An operation reads and writes edges of its own thought alone.
LEMMA AfterLocal ==
  ASSUME NEW op, WellFormed(op),
         NEW a \in [Edges -> EdgeStates], NEW b \in [Edges -> EdgeStates],
         \A e \in Edges : e.from = op.from => a[e] = b[e]
  PROVE  /\ Outcome(op, a) = Outcome(op, b)
         /\ \A e \in Edges : /\ e.from = op.from => After(op, a)[e] = After(op, b)[e]
                             /\ e.from # op.from => After(op, a)[e] = a[e]
<1>1. /\ op.edges \subseteq Edges /\ \A e \in op.edges : e.from = op.from /\ a[e] = b[e]
  BY OpFields
<1>2. Outcome(op, a) = Outcome(op, b)
  <2>1. /\ (\E e \in op.edges : a[e] \in LiveStates) <=> (\E e \in op.edges : b[e] \in LiveStates)
        /\ (\E e \in op.edges : a[e] = "deleted") <=> (\E e \in op.edges : b[e] = "deleted")
    BY <1>1
  <2> QED BY <2>1, OpFields DEF Outcome
<1>3. \A e \in Edges : /\ e.from = op.from => After(op, a)[e] = After(op, b)[e]
                       /\ e.from # op.from => After(op, a)[e] = a[e]
  BY <1>1 DEF After, Created, Deleted, TaggerSetReplaced
<1> QED BY <1>2, <1>3

Owns(r, e) == \E op \in OpsOf(r) : e.from = op.from

\* A request does the same to its own edges whatever the others are, and leaves those alone.
LEMMA AppliedLocal ==
  ASSUME NEW r \in Requests,
         NEW a \in [Edges -> EdgeStates], NEW b \in [Edges -> EdgeStates],
         \A e \in Edges : Owns(r, e) => a[e] = b[e],
         NEW n \in 0..Len(r.ops)
  PROVE  /\ Applied(r, a)[n].outcomes = Applied(r, b)[n].outcomes
         /\ \A e \in Edges :
              /\ Owns(r, e) => Applied(r, a)[n].view[e] = Applied(r, b)[n].view[e]
              /\ ~Owns(r, e) => Applied(r, a)[n].view[e] = a[e]
<1> DEFINE N == Len(r.ops)
           A == Applied(r, a)
           B == Applied(r, b)
           Alike == {k \in 0..N :
                       /\ A[k].outcomes = B[k].outcomes
                       /\ \A e \in Edges : /\ Owns(r, e) => A[k].view[e] = B[k].view[e]
                                           /\ ~Owns(r, e) => A[k].view[e] = a[e]}
<1>1. N \in Nat BY AppliedSteps
<1>2. 0 \in Alike
  <2>1. /\ A[0] = [view |-> a, outcomes |-> <<>>]
        /\ B[0] = [view |-> b, outcomes |-> <<>>]
    BY AppliedSteps
  <2> HIDE DEF A, B
  <2> QED BY <1>1, <2>1
<1>3. ASSUME NEW k \in 1..N, k - 1 \in Alike PROVE k \in Alike
  <2> DEFINE op == r.ops[k]
  <2>1. WellFormed(op) /\ \A e \in Edges : e.from = op.from => Owns(r, e)
    BY <1>1, RequestOps DEF Owns, OpsOf
  <2>2. A[k - 1].view \in [Edges -> EdgeStates] /\ B[k - 1].view \in [Edges -> EdgeStates]
    BY <1>1, AppliedType
  <2>3. /\ A[k - 1].outcomes = B[k - 1].outcomes
        /\ \A e \in Edges : /\ Owns(r, e) => A[k - 1].view[e] = B[k - 1].view[e]
                            /\ ~Owns(r, e) => A[k - 1].view[e] = a[e]
    BY <1>3
  <2>4. A[k] = [view |-> After(op, A[k - 1].view),
                outcomes |-> Append(A[k - 1].outcomes, Outcome(op, A[k - 1].view))]
    BY AppliedSteps
  <2>5. B[k] = [view |-> After(op, B[k - 1].view),
                outcomes |-> Append(B[k - 1].outcomes, Outcome(op, B[k - 1].view))]
    BY AppliedSteps
  <2> HIDE DEF A, B, op, N
  <2>6. Outcome(op, A[k - 1].view) = Outcome(op, B[k - 1].view)
    BY <2>1, <2>2, <2>3, AfterLocal
  <2>7. \A e \in Edges : e.from = op.from => After(op, A[k - 1].view)[e] = After(op, B[k - 1].view)[e]
    BY <2>1, <2>2, <2>3, AfterLocal
  <2>8. \A e \in Edges : e.from # op.from =>
          After(op, A[k - 1].view)[e] = A[k - 1].view[e] /\ After(op, B[k - 1].view)[e] = B[k - 1].view[e]
    BY <2>1, <2>2, AfterLocal
  <2>9. /\ A[k].view = After(op, A[k - 1].view) /\ B[k].view = After(op, B[k - 1].view)
        /\ A[k].outcomes = B[k].outcomes
    BY <2>3, <2>4, <2>5, <2>6
  <2>10. \A e \in Edges : /\ Owns(r, e) => A[k].view[e] = B[k].view[e]
                          /\ ~Owns(r, e) => A[k].view[e] = a[e]
    BY <2>1, <2>3, <2>7, <2>8, <2>9
  <2> QED BY <1>1, <2>9, <2>10
<1>4. 0..N \subseteq Alike
  <2> HIDE DEF Alike, N
  <2> QED BY <1>1, <1>2, <1>3, UpTo
<1> QED BY <1>4

------------------------------------------------------------------------------
(***************************************************************************)
(* The inductive invariant of the refinement: what a transaction has done  *)
(* so far is what its operations would do to the edges as they are now,    *)
(* although others have committed since it began; what it found to be      *)
(* there and active under its locks still is.                              *)
(***************************************************************************)
AsApplied(s) ==
  LET n == Len(outcomes[s]) IN
  /\ n <= Len(job[s].ops) /\ (pc[s] = "commit" => n = Len(job[s].ops))
  /\ outcomes[s] = Applied(job[s], edges)[n].outcomes
  /\ View(s) = Applied(job[s], edges)[n].view

SessionInv(s) ==
  /\ pc[s] \in {"apply", "commit"} => AsApplied(s)
  /\ pc[s] \notin {"apply", "commit", "answer"} => outcomes[s] = <<>>
  /\ \A e \in Edges : draft[s][e] = "tagger" => e.to \in Externals
  /\ \A t \in holds[s] : thought[t] # "absent"
  /\ pc[s] = "retract_commit" => thought[job[s].retract] = "active"

ServiceInv ==
  /\ \A e \in Edges : edges[e] = "tagger" => e.to \in Externals
  /\ \A s \in Sessions : SessionInv(s)

LEMMA InitService == Init => ServiceInv
<1> SUFFICES ASSUME Init PROVE ServiceInv OBVIOUS
<1>1. \A e \in Edges : edges[e] = "never" BY DEF Init
<1>2. \A s \in Sessions : /\ pc[s] = "idle" /\ holds[s] = {} /\ outcomes[s] = <<>>
                          /\ \A e \in Edges : draft[s][e] = Unwritten
  BY DEF Init, NoDraft
<1> QED BY <1>1, <1>2 DEF ServiceInv, SessionInv, Unwritten

\* A step that leaves the edges alone, one session's business and the others' as they were.
LEMMA OneSession ==
  ASSUME LockInv, ServiceInv, NEW s \in Sessions, SessionInv(s)', UNCHANGED edges,
         \A u \in Sessions \ {s} :
           /\ pc'[u] = pc[u] /\ job'[u] = job[u] /\ outcomes'[u] = outcomes[u]
           /\ draft'[u] = draft[u] /\ holds'[u] = holds[u],
         \A u \in Sessions \ {s}, t \in Thoughts : t \in holds[u] => thought'[t] = thought[t]
  PROVE  ServiceInv'
<1> SUFFICES ASSUME NEW u \in Sessions \ {s} PROVE SessionInv(u)' BY DEF ServiceInv
<1>1. SessionInv(u) BY DEF ServiceInv
<1>2. AsApplied(u) => AsApplied(u)' BY DEF AsApplied, View
<1>3. holds[u] \subseteq Thoughts BY DEF LockInv, TypeOK
<1>4. pc[u] = "retract_commit" => job[u].retract \in holds[u]
  BY DEF LockInv, RetractionsCovered, HoldsRow
<1> QED BY <1>1, <1>2, <1>3, <1>4 DEF SessionInv

\* A session that is free has nothing of its own.
LEMMA GoIdleService ==
  ASSUME LockInv, ServiceInv, NEW s \in Sessions, GoIdle(s), UNCHANGED edges,
         \A t \in Thoughts : t \notin holds[s] => thought'[t] = thought[t]
  PROVE  ServiceInv'
<1>1. /\ \A u \in Sessions \ {s} :
           /\ pc'[u] = pc[u] /\ job'[u] = job[u] /\ outcomes'[u] = outcomes[u]
           /\ draft'[u] = draft[u] /\ holds'[u] = holds[u]
      /\ pc'[s] = "idle" /\ outcomes'[s] = <<>> /\ holds'[s] = {} /\ draft'[s] = NoDraft
  BY DEF GoIdle, GoTo, EndTransaction, LockInv, TypeOK
<1>2. SessionInv(s)' BY <1>1 DEF SessionInv, NoDraft, Unwritten
<1>3. \A u \in Sessions \ {s}, t \in Thoughts : t \in holds[u] => thought'[t] = thought[t]
  BY DEF LockInv, LocksExclusive
<1> QED BY <1>1, <1>2, <1>3, OneSession

LEMMA RollBackService ==
  ASSUME LockInv, ServiceInv, NEW s \in Sessions, RollBack(s)
  PROVE  ServiceInv'
BY GoIdleService DEF RollBack, durable

\* A session with nothing written goes on, and has found what it locks to be there.
LEMMA GoesOnService ==
  ASSUME LockInv, ServiceInv, NEW s \in Sessions, UNCHANGED <<thought, edges, outcomes, draft>>,
         \A u \in Sessions \ {s} : pc'[u] = pc[u] /\ job'[u] = job[u] /\ holds'[u] = holds[u],
         pc[s] \notin {"apply", "commit", "answer"}, pc'[s] \notin {"apply", "commit", "answer"},
         \A t \in holds'[s] : t \in holds[s] \/ thought[t] # "absent",
         pc'[s] = "retract_commit" => thought[job'[s].retract] = "active"
  PROVE  ServiceInv'
<1>1. SessionInv(s)' BY DEF ServiceInv, SessionInv
<1> QED BY <1>1, OneSession

LEMMA LockRowService ==
  ASSUME LockInv, LockInv', ServiceInv, NEW s \in Sessions, LockRow(s)
  PROVE  ServiceInv'
<1>1. PICK t \in Thoughts :
        /\ ~EndpointRefused(job[s], t)
        /\ holds' = [holds EXCEPT ![s] = @ \cup {t}]
        /\ pc' = [pc EXCEPT ![s] = IF wanted[s] = {t} THEN "apply" ELSE "lock"]
  BY DEF LockRow, GoTo
<1>2. /\ pc[s] = "lock" /\ pc'[s] = (IF wanted[s] = {t} THEN "apply" ELSE "lock")
      /\ \A u \in Sessions \ {s} : pc'[u] = pc[u] /\ holds'[u] = holds[u]
      /\ holds'[s] = holds[s] \cup {t} /\ thought[t] # "absent"
      /\ UNCHANGED <<edges, thought, job, draft, outcomes>>
  BY <1>1 DEF LockRow, LockInv, TypeOK, durable, EndpointRefused
<1>3. CASE pc'[s] = "lock" BY <1>2, <1>3, GoesOnService
<1>4. CASE pc'[s] = "apply"
  <2>1. SessionInv(s) BY DEF ServiceInv
  <2>2. outcomes[s] = <<>> BY <1>2, <2>1 DEF SessionInv
  <2>3. View(s) = edges
    <3>1. \A e \in Edges : draft[s][e] = Unwritten BY <1>2 DEF LockInv, DraftsCovered
    <3>2. edges = [e \in Edges |-> edges[e]] BY DEF LockInv, TypeOK
    <3> QED BY <3>1, <3>2 DEF View
  <2>4. View(s)' = View(s) BY <1>2 DEF View
  <2>5. job[s] \in Requests BY <1>2 DEF LockInv, TypeOK, MutatePcs
  <2>6. /\ Len(job[s].ops) \in Nat
        /\ Applied(job[s], edges)[0] = [view |-> edges, outcomes |-> <<>>]
    BY <2>5, AppliedSteps
  <2>7. AsApplied(s)'
    <3>1. Len(outcomes'[s]) = 0 BY <1>2, <2>2
    <3> QED BY <1>2, <1>4, <2>2, <2>3, <2>4, <2>6, <3>1 DEF AsApplied
  <2>8. SessionInv(s)' BY <1>2, <1>4, <2>1, <2>7 DEF SessionInv
  <2> QED BY <1>2, <2>8, OneSession
<1> QED BY <1>2, <1>3, <1>4

LEMMA ApplyService ==
  ASSUME LockInv, LockInv', ServiceInv, NEW s \in Sessions, Apply(s)
  PROVE  ServiceInv'
<1> DEFINE op == CurrentOp(s)
           new == After(op, View(s))
           n == Len(outcomes[s])
           A == Applied(job[s], edges)
<1>1. WellFormed(op) /\ job[s] \in Requests BY CurrentOpType DEF Apply, LockInv
<1>2. View(s) \in [Edges -> EdgeStates] BY ViewType DEF LockInv
<1>3. new \in [Edges -> EdgeStates] BY <1>1, <1>2, AfterType
<1>4. /\ \A u \in Sessions \ {s} : /\ pc'[u] = pc[u] /\ draft'[u] = draft[u]
                                   /\ outcomes'[u] = outcomes[u]
      /\ draft'[s] = [e \in Edges |-> IF new[e] = View(s)[e] THEN draft[s][e] ELSE new[e]]
      /\ outcomes'[s] = Append(outcomes[s], Outcome(op, View(s)))
      /\ pc[s] = "apply" /\ n < Len(job[s].ops)
      /\ pc'[s] = (IF n + 1 = Len(job[s].ops) THEN "commit" ELSE "apply")
      /\ UNCHANGED <<thought, edges, job, holds>>
  BY DEF Apply, GoTo, durable, LockInv, TypeOK
<1>5. View(s)' = new
  <2>1. \A e \in Edges : new[e] # Unwritten BY <1>3 DEF EdgeStates, LiveStates, Unwritten
  <2>2. \A e \in Edges : View(s)[e] = IF draft[s][e] = Unwritten THEN edges[e] ELSE draft[s][e]
    BY DEF View
  <2>3. View(s)' = [e \in Edges |-> IF draft'[s][e] = Unwritten THEN edges'[e] ELSE draft'[s][e]]
    BY DEF View
  <2> HIDE DEF new
  <2>4. \A e \in Edges : View(s)'[e] = new[e] BY <1>4, <2>1, <2>2, <2>3
  <2> QED BY <1>3, <2>3, <2>4
<1>6. SessionInv(s) /\ AsApplied(s) BY <1>4 DEF ServiceInv, SessionInv
<1>7. n \in Nat /\ outcomes[s] \in Seq(Outcomes) BY DEF LockInv, TypeOK
<1>8. Len(job[s].ops) \in Nat BY <1>1, AppliedSteps
<1>9. Len(outcomes'[s]) = n + 1
  <2>1. Outcome(op, View(s)) \in Outcomes BY <1>1, <1>2, AfterType
  <2> HIDE DEF op
  <2> QED BY <1>4, <1>7, <2>1
<1>10. AsApplied(s)'
  <2>1. n + 1 \in 1..Len(job[s].ops) BY <1>4, <1>7, <1>8
  <2>2. /\ A[n + 1].view = After(job[s].ops[n + 1], A[n].view)
        /\ A[n + 1].outcomes = Append(A[n].outcomes, Outcome(job[s].ops[n + 1], A[n].view))
    <3>1. n \in 0..(Len(job[s].ops) - 1) BY <1>4, <1>7, <1>8
    <3> HIDE DEF n
    <3> QED BY <1>1, <3>1, AppliedNext
  <2>4. op = job[s].ops[n + 1] BY DEF CurrentOp
  <2>5. outcomes[s] = A[n].outcomes /\ View(s) = A[n].view BY <1>6 DEF AsApplied
  <2>6. A[n + 1].view = new /\ A[n + 1].outcomes = outcomes'[s]
    <3> HIDE DEF op, A, n
    <3> QED BY <1>4, <2>2, <2>4, <2>5
  <2>7. A = Applied(job[s], edges)' BY <1>4
  <2> HIDE DEF op, A, n, new
  <2> QED BY <1>4, <1>5, <1>7, <1>8, <1>9, <2>6, <2>7 DEF AsApplied
<1>11. \A e \in Edges : draft'[s][e] = "tagger" => e.to \in Externals
  <2>1. ASSUME NEW e \in Edges, new[e] = "tagger", View(s)[e] # "tagger" PROVE e.to \in Externals
    BY <1>1, <2>1, OpFields DEF After, Created, Deleted, TaggerSetReplaced
  <2> HIDE DEF new
  <2> QED BY <1>4, <1>6, <2>1 DEF SessionInv
<1>12. SessionInv(s)' BY <1>4, <1>6, <1>10, <1>11 DEF SessionInv
<1> QED BY <1>4, <1>12, OneSession

\* What others have yet to commit, they would do as well after this commit.
LEMMA CommitService ==
  ASSUME LockInv, LockInv', ServiceInv, NEW s \in Sessions, Commit(s)
  PROVE  ServiceInv'
<1>1. /\ \A u \in Sessions \ {s} :
           /\ pc'[u] = pc[u] /\ holds'[u] = holds[u] /\ draft'[u] = draft[u]
      /\ pc'[s] = "answer" /\ holds'[s] = {} /\ draft'[s] = NoDraft
      /\ edges' = View(s) /\ UNCHANGED <<thought, job, outcomes>>
  BY DEF Commit, GoTo, EndTransaction, LockInv, TypeOK
<1>2. edges \in [Edges -> EdgeStates] /\ edges' \in [Edges -> EdgeStates]
  BY DEF LockInv, TypeOK
<1>3. \A e \in Edges : edges'[e] = IF draft[s][e] = Unwritten THEN edges[e] ELSE draft[s][e]
  BY <1>1 DEF View
<1>4. \A e \in Edges : edges'[e] = "tagger" => e.to \in Externals
  BY <1>3 DEF ServiceInv, SessionInv
<1>5. SessionInv(s)' BY <1>1 DEF SessionInv, NoDraft, Unwritten
<1>6. ASSUME NEW u \in Sessions \ {s}, pc[u] \in {"apply", "commit"}
      PROVE  AsApplied(u)'
  <2> DEFINE n == Len(outcomes[u])
             r == job[u]
             A == Applied(r, edges)
             B == Applied(r, edges')
  <2>1. r \in Requests BY <1>6 DEF LockInv, TypeOK, MutatePcs
  <2>2. AsApplied(u) BY <1>6 DEF ServiceInv, SessionInv
  <2>3. n \in 0..Len(r.ops)
    <3>1. outcomes[u] \in Seq(Outcomes) BY DEF LockInv, TypeOK
    <3>2. n \in Nat BY <3>1
    <3>3. n <= Len(r.ops) /\ Len(r.ops) \in Nat BY <2>1, <2>2, AppliedSteps DEF AsApplied
    <3> QED BY <3>2, <3>3
  <2>4. \A e \in Edges : e.from \in holds[u] => edges'[e] = edges[e]
    BY <1>3 DEF LockInv, DraftsCovered, LocksExclusive
  <2>5. \A e \in Edges : Owns(r, e) => e.from \in holds[u]
    BY <1>6 DEF Owns, LockInv, EndpointsLocked, InTransaction
  <2>6. \A e \in Edges : draft[u][e] # Unwritten => e.from \in holds[u]
    BY DEF LockInv, DraftsCovered
  <2>7. \A e \in Edges : Owns(r, e) => edges'[e] = edges[e] BY <2>4, <2>5
  <2>8. /\ B[n].outcomes = A[n].outcomes
        /\ \A e \in Edges : /\ Owns(r, e) => B[n].view[e] = A[n].view[e]
                            /\ ~Owns(r, e) => B[n].view[e] = edges'[e]
    <3> HIDE DEF n, r
    <3> QED BY <1>2, <2>1, <2>3, <2>7, AppliedLocal
  <2>9. \A e \in Edges : ~Owns(r, e) => A[n].view[e] = edges[e]
    <3> HIDE DEF n, r
    <3> QED BY <1>2, <2>1, <2>3, AppliedLocal
  <2>10. B[n].view \in [Edges -> EdgeStates]
    <3> HIDE DEF n, r
    <3> QED BY <1>2, <2>1, <2>3, AppliedType
  <2>11. /\ outcomes[u] = A[n].outcomes /\ View(u) = A[n].view
         /\ n <= Len(r.ops) /\ (pc[u] = "commit" => n = Len(r.ops))
    BY <2>2 DEF AsApplied
  <2>12. View(u)' = B[n].view
    <3>1. /\ View(u)' = [e \in Edges |-> IF draft[u][e] = Unwritten THEN edges'[e] ELSE draft[u][e]]
          /\ \A e \in Edges :
               View(u)[e] = IF draft[u][e] = Unwritten THEN edges[e] ELSE draft[u][e]
      BY <1>1 DEF View
    <3> HIDE DEF A, B, n, r
    <3>2. \A e \in Edges : View(u)'[e] = B[n].view[e]
      BY <2>4, <2>6, <2>7, <2>8, <2>9, <2>11, <3>1
    <3> QED BY <2>10, <3>1, <3>2
  <2>13. pc'[u] = pc[u] /\ outcomes'[u] = outcomes[u] /\ job'[u] = job[u] BY <1>1
  <2>14. B = Applied(job[u], edges)' BY <2>13
  <2> HIDE DEF A, B
  <2> QED BY <2>8, <2>11, <2>12, <2>13, <2>14 DEF AsApplied
<1>7. ASSUME NEW u \in Sessions \ {s} PROVE SessionInv(u)'
  BY <1>1, <1>6 DEF ServiceInv, SessionInv
<1> QED BY <1>4, <1>5, <1>7 DEF ServiceInv

LEMMA AdvanceService ==
  ASSUME LockInv, LockInv', ServiceInv, NEW s \in Sessions, Advance(s)
  PROVE  ServiceInv'
<1>1. CASE ClaimFresh(s)
  <2>1. /\ pc[s] = "claim" /\ pc'[s] = "lock"
        /\ \A u \in Sessions \ {s} : pc'[u] = pc[u]
        /\ UNCHANGED <<thought, edges, job, holds, draft, outcomes>>
    BY <1>1 DEF ClaimFresh, GoTo, durable, LockInv, TypeOK
  <2> QED BY <2>1, GoesOnService
<1>2. CASE Replay(s)
  <2>1. /\ pc'[s] = "answer"
        /\ \A u \in Sessions \ {s} : pc'[u] = pc[u] /\ outcomes'[u] = outcomes[u]
        /\ UNCHANGED <<thought, edges, job, holds, draft>>
    BY <1>2 DEF Replay, GoTo, durable, LockInv, TypeOK
  <2>2. SessionInv(s)' BY <2>1 DEF ServiceInv, SessionInv
  <2> QED BY <2>1, <2>2, OneSession
<1>3. CASE SourceEventConflict(s) BY <1>3, RollBackService DEF SourceEventConflict
<1>4. CASE LockRow(s) BY <1>4, LockRowService
<1>5. CASE RefuseEndpoint(s) BY <1>5, RollBackService DEF RefuseEndpoint
<1>6. CASE Apply(s) BY <1>6, ApplyService
<1>7. CASE ApplyRaises(s) BY <1>7, RollBackService DEF ApplyRaises
<1>8. CASE Commit(s) BY <1>8, CommitService
<1>9. CASE Answer(s) BY <1>9, GoIdleService DEF Answer, durable
<1>10. CASE RetractLock(s)
  <2>1. /\ pc[s] = "retract_lock" /\ pc'[s] = "retract_decide"
        /\ \A u \in Sessions \ {s} : pc'[u] = pc[u] /\ holds'[u] = holds[u]
        /\ holds'[s] = holds[s] \cup {job[s].retract} /\ thought[job[s].retract] # "absent"
        /\ UNCHANGED <<thought, edges, job, draft, outcomes>>
    BY <1>10 DEF RetractLock, GoTo, durable, LockInv, TypeOK
  <2> QED BY <2>1, GoesOnService
<1>11. CASE RetractDecide(s)
  <2>1. /\ pc[s] = "retract_decide" /\ pc'[s] = "retract_commit"
        /\ thought[job[s].retract] = "active"
        /\ \A u \in Sessions \ {s} : pc'[u] = pc[u]
        /\ UNCHANGED <<thought, edges, job, holds, draft, outcomes>>
    BY <1>11 DEF RetractDecide, GoTo, durable, txn, LockInv, TypeOK
  <2> QED BY <2>1, GoesOnService
<1>12. CASE RetractRefused(s) BY <1>12, RollBackService DEF RetractRefused
<1>13. CASE RetractCommit(s)
  <2>1. job[s].retract \in holds[s]
    BY <1>13 DEF RetractCommit, LockInv, RetractionsCovered, HoldsRow
  <2>2. \A t \in Thoughts : t \notin holds[s] => thought'[t] = thought[t]
    BY <1>13, <2>1 DEF RetractCommit, LockInv, TypeOK
  <2> QED BY <1>13, <2>2, GoIdleService DEF RetractCommit
<1> QED
  BY <1>1, <1>2, <1>3, <1>4, <1>5, <1>6, <1>7, <1>8, <1>9, <1>10, <1>11, <1>12, <1>13
  DEF Advance

LEMMA SendService ==
  ASSUME LockInv, ServiceInv, NEW s \in Sessions, NEW j, NEW label \in {"claim", "retract_lock"},
         Send(s, j, label)
  PROVE  ServiceInv'
<1>1. /\ pc[s] = "idle" /\ pc'[s] = label
      /\ \A u \in Sessions \ {s} : pc'[u] = pc[u] /\ job'[u] = job[u]
      /\ UNCHANGED <<thought, edges, holds, draft, outcomes>>
  BY DEF Send, GoTo, durable, txn, LockInv, TypeOK
<1> QED BY <1>1, GoesOnService

\* A thought that arrives is nobody's yet.
LEMMA CaptureService ==
  ASSUME LockInv, ServiceInv, NEW t \in Thoughts, Capture(t)
  PROVE  ServiceInv'
<1>1. /\ \A x \in Thoughts : thought[x] # "absent" => thought'[x] = thought[x]
      /\ UNCHANGED <<edges, pc, job, holds, draft, outcomes>>
  BY DEF Capture, txn, LockInv, TypeOK
<1>2. ASSUME NEW s \in Sessions PROVE SessionInv(s)'
  <2>1. SessionInv(s) BY DEF ServiceInv
  <2>2. holds[s] \subseteq Thoughts BY DEF LockInv, TypeOK
  <2>3. pc[s] = "retract_commit" => job[s].retract \in holds[s]
    BY DEF LockInv, RetractionsCovered, HoldsRow
  <2>4. AsApplied(s) => AsApplied(s)' BY <1>1 DEF AsApplied, View
  <2> QED BY <1>1, <2>1, <2>2, <2>3, <2>4 DEF SessionInv
<1> QED BY <1>1, <1>2 DEF ServiceInv

LEMMA NextService == LockInv /\ LockInv' /\ ServiceInv /\ [Next]_vars => ServiceInv'
<1> SUFFICES ASSUME LockInv, LockInv', ServiceInv, [Next]_vars PROVE ServiceInv'
  OBVIOUS
<1>1. CASE \E s \in Sessions : Advance(s) BY <1>1, AdvanceService
<1>2. CASE \E s \in Sessions : Crash(s) BY <1>2, RollBackService DEF Crash
<1>3. CASE \E s \in Sessions, r \in Requests : Submit(s, r) BY <1>3, SendService DEF Submit
<1>4. CASE \E s \in Sessions, t \in Retractable : AskRetract(s, t)
  BY <1>4, SendService DEF AskRetract
<1>5. CASE \E t \in Thoughts : Capture(t) BY <1>5, CaptureService
<1>6. CASE UNCHANGED vars
  BY <1>6 DEF vars, txn, ServiceInv, SessionInv, AsApplied, View
<1> QED BY <1>1, <1>2, <1>3, <1>4, <1>5, <1>6 DEF Next

------------------------------------------------------------------------------
(***************************************************************************)
(* The refinement, step by step.  A commit is the request it performs.     *)
(***************************************************************************)

\* The service and the transactions speak of the same operations.
LEMMA SameOps ==
  /\ Service!Edges = Edges /\ Service!LiveStates = LiveStates /\ Service!ChainEdges = ChainEdges
  /\ \A r : Service!Effect(r) = Applied(r, edges)[Len(r.ops)]
  /\ \A r, view : Service!EndpointsOfRequest(r, view) = EndpointsOfRequest(r, view)
  /\ \A r : Service!ActiveRequiredOfRequest(r) = ActiveRequiredOfRequest(r)
<1>1. Service!Edges = Edges /\ Service!LiveStates = LiveStates
  BY DEF Service!Edges, Edges, Service!Targets, Targets, Service!LiveStates, LiveStates
<1>2. Service!ChainEdges = ChainEdges
  BY <1>1 DEF Service!ChainEdges, ChainEdges, Service!IsChainEdge, IsChainEdge
<1>3. \A r : Service!Effect(r) = Applied(r, edges)[Len(r.ops)]
  BY Zenon
  DEF Service!Effect, Service!Applied, Applied, Service!After, After, Service!Created, Created,
      Service!Deleted, Deleted, Service!TaggerSetReplaced, TaggerSetReplaced, Service!Outcome,
      Outcome, Service!Edges, Edges, Service!Targets, Targets, Service!LiveStates, LiveStates
<1>4. \A r : Service!OpsOf(r) = OpsOf(r) BY DEF Service!OpsOf, OpsOf
<1>5. \A op, view : Service!EndpointsOf(op, view) = EndpointsOf(op, view)
  BY <1>1, Zenon DEF Service!EndpointsOf, EndpointsOf
<1>6. \A op : Service!ActiveRequiredOf(op) = ActiveRequiredOf(op)
  BY Zenon DEF Service!ActiveRequiredOf, ActiveRequiredOf
<1>7. \A r, view : Service!EndpointsOfRequest(r, view) = EndpointsOfRequest(r, view)
  BY <1>4, <1>5, Zenon DEF Service!EndpointsOfRequest, EndpointsOfRequest
<1>8. \A r : Service!ActiveRequiredOfRequest(r) = ActiveRequiredOfRequest(r)
  BY <1>4, <1>6, Zenon DEF Service!ActiveRequiredOfRequest, ActiveRequiredOfRequest
<1> QED BY <1>1, <1>2, <1>3, <1>7, <1>8

\* What the endpoints a request names come to, at its commit.
LEMMA EndpointsHeld ==
  ASSUME LockInv, ServiceInv, NEW s \in Sessions, pc[s] = "commit"
  PROVE  /\ EndpointsOfRequest(job[s], edges) \subseteq holds[s]
         /\ ActiveRequiredOfRequest(job[s]) \subseteq holds[s]
<1>1. \A op \in OpsOf(job[s]) :
        /\ op.from \in holds[s]
        /\ \A e \in op.edges : e.to \in Thoughts => e.to \in holds[s]
  BY DEF LockInv, EndpointsLocked, InTransaction
<1>2. \A e \in Edges : edges[e] = "tagger" => e.to \notin Thoughts
  BY RelationAssumption DEF ServiceInv
<1>3. \A op \in OpsOf(job[s]) : EndpointsOf(op, edges) \subseteq holds[s]
  BY <1>1, <1>2 DEF EndpointsOf
<1>4. \A op \in OpsOf(job[s]) : ActiveRequiredOf(op) \subseteq holds[s]
  BY <1>1 DEF ActiveRequiredOf
<1> QED BY <1>3, <1>4 DEF EndpointsOfRequest, ActiveRequiredOfRequest

LEMMA CommitPerforms ==
  ASSUME LockInv, KeyInv, ServiceInv, NEW s \in Sessions, Commit(s)
  PROVE  job[s] \in Requests /\ Service!Perform(job[s])
<1> DEFINE r == job[s]
<1>1. pc[s] = "commit" /\ r \in Requests BY DEF Commit, LockInv, TypeOK, MutatePcs
<1>2. Service!Acceptable(r)
  <2>1. \A row \in ledger : row.req.key # r.key BY <1>1 DEF KeyInv, InTransaction
  <2>2. \A t \in EndpointsOfRequest(r, edges) : thought[t] # "absent"
    BY <1>1, EndpointsHeld DEF ServiceInv, SessionInv
  <2>3. \A t \in ActiveRequiredOfRequest(r) : thought[t] = "active"
    BY <1>1, EndpointsHeld DEF LockInv, LockedStayActive, InTransaction
  <2> HIDE DEF r
  <2> QED BY <2>1, <2>2, <2>3, SameOps, Zenon DEF Service!Acceptable
<1>3. /\ View(s) = Service!Effect(r).view
      /\ outcomes[s] = Service!Effect(r).outcomes
  <2>1. /\ Len(outcomes[s]) = Len(r.ops)
        /\ outcomes[s] = Applied(r, edges)[Len(outcomes[s])].outcomes
        /\ View(s) = Applied(r, edges)[Len(outcomes[s])].view
    BY <1>1 DEF ServiceInv, SessionInv, AsApplied
  <2>2. Service!Effect(r) = Applied(r, edges)[Len(r.ops)] BY SameOps, Zenon
  <2> HIDE DEF r
  <2> QED BY <2>1, <2>2, Zenon
<1>4. /\ edges' = View(s) /\ UNCHANGED thought
      /\ ledger' = ledger \cup {[req |-> r, outcomes |-> outcomes[s]]}
  BY DEF Commit
<1> HIDE DEF r
<1>5. Service!Perform(r) BY <1>2, <1>3, <1>4, Zenon DEF Service!Perform
<1> QED BY <1>1, <1>5 DEF r

LEMMA RetractCommitRetracts ==
  ASSUME LockInv, ServiceInv, NEW s \in Sessions, RetractCommit(s)
  PROVE  \E t \in Retractable : Service!Retract(t)
<1> DEFINE t == job[s].retract
<1>1. pc[s] = "retract_commit" BY DEF RetractCommit
<1>2. t \in Retractable BY <1>1 DEF LockInv, TypeOK, RetractPcs, Retractions
<1>3. thought[t] = "active" BY <1>1 DEF ServiceInv, SessionInv
<1>4. \A e \in ChainEdges : e.from = t => edges[e] \notin LiveStates
  BY <1>1 DEF LockInv, RetractionsCovered, HeadsChain
<1>5. /\ thought' = [thought EXCEPT ![t] = "retracted"] /\ UNCHANGED <<edges, ledger>>
  BY DEF RetractCommit
<1> HIDE DEF t
<1>6. Service!Retract(t) BY <1>3, <1>4, <1>5, SameOps DEF Service!Retract
<1> QED BY <1>2, <1>6

\* Every step is a step of the service, or changes nothing it speaks of.
LEMMA NextImplements ==
  LockInv /\ KeyInv /\ ServiceInv /\ [Next]_vars => [Service!ServiceNext]_(Service!serviceVars)
<1> SUFFICES ASSUME LockInv, KeyInv, ServiceInv, [Next]_vars
             PROVE  [Service!ServiceNext]_(Service!serviceVars)
  OBVIOUS
<1>1. CASE \E s \in Sessions : Commit(s)
  BY <1>1, CommitPerforms DEF Service!ServiceNext
<1>2. CASE \E s \in Sessions : RetractCommit(s)
  BY <1>2, RetractCommitRetracts DEF Service!ServiceNext
<1>3. CASE \E t \in Thoughts : Capture(t)
  <2>1. \E t \in Thoughts : Service!Arrive(t) BY <1>3 DEF Capture, Service!Arrive
  <2> QED BY <2>1 DEF Service!ServiceNext
<1>4. CASE /\ ~\E s \in Sessions : Commit(s) \/ RetractCommit(s)
           /\ ~\E t \in Thoughts : Capture(t)
  <2>1. UNCHANGED <<thought, edges, ledger>>
    BY <1>4
    DEF Next, Advance, vars, ClaimFresh, Replay, SourceEventConflict, LockRow, RefuseEndpoint,
        Apply, ApplyRaises, Answer, RetractLock, RetractDecide, RetractRefused, RollBack,
        Crash, Submit, AskRetract, Send, durable
  <2> QED BY <2>1 DEF Service!serviceVars
<1> QED BY <1>1, <1>2, <1>3, <1>4

(***************************************************************************)
(* Whatever is sent, however the transactions interleave and whenever one  *)
(* is cut off, what the database shows changes only as the service says:   *)
(* all of a request's operations at one moment, in order, on the edges of  *)
(* that moment, on a fresh key and between thoughts fit for it then.  The  *)
(* results a transaction gathered one statement at a time are the ones the *)
(* whole request would give at its commit.                                 *)
(***************************************************************************)
THEOREM TransactionsImplementService == Spec => ImplementsService
<1>1. Init => Service!ServiceInit
  BY DEF Init, Service!ServiceInit, Service!Edges, Edges, Service!Targets, Targets
<1>2. Init => LockInv /\ KeyInv /\ ServiceInv
  BY InitLock, InitKey, InitService
<1>3. LockInv /\ KeyInv /\ ServiceInv /\ [Next]_vars => (LockInv /\ KeyInv /\ ServiceInv)'
  BY NextLock, NextKey, NextService
<1> QED
  BY <1>1, <1>2, <1>3, NextImplements, PTL
  DEF Spec, ImplementsService, Service!ServiceSpec
------------------------------------------------------------------------------
(***************************************************************************)
(* Who waits for whom.  A session waits for an insert of its key that is   *)
(* not yet committed, and for a row that another has locked; all that a    *)
(* session holds lies before all that it has still to lock (the ORDER BY   *)
(* of lock_thought_relation_endpoints), and while it waits for a key it    *)
(* holds no row.                                                           *)
(***************************************************************************)
WaitsFor(s, u) ==
  \/ pc[s] = "claim" /\ InTransaction(u) /\ job[u].key = job[s].key
  \/ pc[s] = "lock" /\ \E t \in Thoughts : NextRow(s, t) /\ t \in holds[u]
  \/ pc[s] = "retract_lock" /\ job[s].retract \in holds[u]

\* The guards of Advance: what the session has to do next, it can do at once.
CanGoOn(s) ==
  \/ pc[s] = "claim" /\ ~Claimed(job[s].key)
  \/ pc[s] = "lock" /\ \E t \in Thoughts : NextRow(s, t) /\ RowFree(t)
  \/ pc[s] = "apply" /\ Len(outcomes[s]) < Len(job[s].ops)
  \/ pc[s] = "retract_lock" /\ RowFree(job[s].retract)
  \/ pc[s] \in {"commit", "answer", "retract_decide", "retract_commit"}

NoCircleOfWaits ==
  \A S \in SUBSET Sessions :
    S # {} /\ IsFiniteSet(S) => \E s \in S : \A u \in S : ~WaitsFor(s, u)

SomeoneGoesOn ==
  (\E s \in Sessions : pc[s] # "idle") => \E s \in Sessions : pc[s] # "idle" /\ CanGoOn(s)

Busy == {s \in Sessions : pc[s] # "idle"}

\* The inductive invariant of the waits.
InOrder(s) ==
  /\ \A h \in holds[s], t \in wanted[s] : h < t
  /\ pc[s] = "lock" <=> wanted[s] # {}
  /\ pc[s] = "apply" => Len(outcomes[s]) < Len(job[s].ops)

WaitInv ==
  /\ IsFiniteSet(Busy)
  /\ \A s \in Sessions : InOrder(s)

LEMMA GreatestNat ==
  ASSUME NEW S \in SUBSET Nat, S # {}, IsFiniteSet(S)
  PROVE  \E k \in S : \A m \in S : m <= k
<1>0. PICK n \in Nat : ExistsSurjection(1..n, S) BY FS_NatSurjection
<1>1. PICK f \in Surjection(1..n, S) : TRUE BY <1>0 DEF ExistsSurjection
<1>2. f \in [1..n -> S] /\ \A x \in S : \E i \in 1..n : f[i] = x
  BY Fun_SurjectionProperties
<1> DEFINE Bounded == {k \in 0..n : \E b \in Nat : \A i \in 1..k : f[i] <= b}
<1>3. n \in Bounded
  <2>1. 0 \in Bounded OBVIOUS
  <2>2. ASSUME NEW k \in 1..n, k - 1 \in Bounded PROVE k \in Bounded
    <3>1. PICK b \in Nat : \A i \in 1..(k - 1) : f[i] <= b BY <2>2
    <3>2. f[k] \in Nat BY <1>2
    <3>3. \E c \in Nat : b <= c /\ f[k] <= c
      <4>1. CASE b <= f[k] BY <3>2, <4>1
      <4>2. CASE f[k] <= b BY <3>2, <4>2
      <4> QED BY <3>2, <4>1, <4>2
    <3>4. PICK c \in Nat : b <= c /\ f[k] <= c BY <3>3
    <3>5. \A i \in 1..k : i \in 1..n /\ f[i] \in Nat
      <4>1. \A i \in 1..k : i \in 1..n OBVIOUS
      <4> QED BY <1>2, <4>1
    <3>6. \A i \in 1..k : f[i] <= c BY <3>1, <3>4, <3>5
    <3> QED BY <3>6
  <2> HIDE DEF Bounded
  <2>3. 0..n \subseteq Bounded BY <2>1, <2>2, UpTo, Zenon
  <2> QED BY <2>3
<1> DEFINE Bounds == {b \in Nat : \A m \in S : m <= b}
<1>4. Bounds # {} BY <1>2, <1>3
<1>5. PICK b \in Bounds : \A c \in Bounds : b <= c
  <2>1. Bounds \in SUBSET Nat OBVIOUS
  <2> HIDE DEF Bounds
  <2> QED BY <1>4, <2>1, LeastNat
<1>6. b \in S
  <2> SUFFICES ASSUME b \notin S PROVE FALSE OBVIOUS
  <2>1. \A m \in S : m \in Nat /\ m <= b /\ m # b BY <1>5
  <2>2. PICK m \in S : m \in Nat /\ m < b
    <3>1. PICK m \in S : TRUE OBVIOUS
    <3>2. b \in Nat BY <1>5
    <3> HIDE DEF Bounds
    <3> QED BY <2>1, <3>1, <3>2
  <2>3. b \in Nat /\ b - 1 \in Nat /\ ~(b <= b - 1) BY <1>5, <2>2
  <2>4. \A x \in S : x <= b - 1 BY <2>1, <2>3
  <2>5. b - 1 \in Bounds BY <2>3, <2>4
  <2> HIDE DEF Bounds
  <2> QED BY <1>5, <2>3, <2>5
<1> QED BY <1>5, <1>6

LEMMA InitWait == Init => WaitInv
<1> SUFFICES ASSUME Init PROVE WaitInv OBVIOUS
<1>1. Busy = {} BY DEF Init, Busy
<1>2. IsFiniteSet(Busy) BY <1>1, FS_EmptySet
<1> QED BY <1>2 DEF Init, WaitInv, InOrder

\* One session's step, after which its own locks are in order.
LEMMA OneWaits ==
  ASSUME WaitInv, NEW s \in Sessions, InOrder(s)',
         \A u \in Sessions \ {s} :
           /\ pc'[u] = pc[u] /\ job'[u] = job[u] /\ outcomes'[u] = outcomes[u]
           /\ wanted'[u] = wanted[u] /\ holds'[u] = holds[u]
  PROVE  WaitInv'
<1>1. IsFiniteSet(Busy \cup {s}) BY FS_AddElement DEF WaitInv
<1>2. Busy' \in SUBSET (Busy \cup {s}) BY DEF Busy
<1>3. IsFiniteSet(Busy') BY <1>1, <1>2, FS_Subset
<1>4. \A u \in Sessions : InOrder(u)' BY DEF WaitInv, InOrder
<1> QED BY <1>3, <1>4 DEF WaitInv

LEMMA GoIdleWait ==
  ASSUME LockInv, WaitInv, NEW s \in Sessions, GoIdle(s)
  PROVE  WaitInv'
<1>1. /\ \A u \in Sessions \ {s} :
           /\ pc'[u] = pc[u] /\ job'[u] = job[u] /\ outcomes'[u] = outcomes[u]
           /\ wanted'[u] = wanted[u] /\ holds'[u] = holds[u]
      /\ pc'[s] = "idle" /\ holds'[s] = {} /\ wanted'[s] = {}
  BY DEF GoIdle, GoTo, EndTransaction, LockInv, TypeOK
<1>2. InOrder(s)' BY <1>1 DEF InOrder
<1> QED BY <1>1, <1>2, OneWaits

LEMMA RollBackWait ==
  ASSUME LockInv, WaitInv, NEW s \in Sessions, RollBack(s)
  PROVE  WaitInv'
BY GoIdleWait DEF RollBack

\* The rows of a request: none is missing for want of operations.
LEMMA SomeEndpoint ==
  ASSUME NEW r \in Requests, NEW view
  PROVE  EndpointsOfRequest(r, view) # {}
<1>1. r.ops \in Seq(Ops) /\ r.ops # <<>> BY RelationAssumption
<1>2. 1 \in DOMAIN r.ops BY <1>1
<1>3. r.ops[1] \in OpsOf(r) BY <1>2 DEF OpsOf
<1>4. r.ops[1].from \in EndpointsOf(r.ops[1], view) BY DEF EndpointsOf
<1> QED BY <1>3, <1>4 DEF EndpointsOfRequest

LEMMA LockRowWait ==
  ASSUME LockInv, ServiceInv, WaitInv, NEW s \in Sessions, LockRow(s)
  PROVE  WaitInv'
<1>1. PICK t \in Thoughts :
        /\ NextRow(s, t)
        /\ holds' = [holds EXCEPT ![s] = @ \cup {t}]
        /\ wanted' = [wanted EXCEPT ![s] = @ \ {t}]
        /\ pc' = [pc EXCEPT ![s] = IF wanted[s] = {t} THEN "apply" ELSE "lock"]
  BY DEF LockRow, GoTo
<1>2. /\ pc[s] = "lock" /\ pc'[s] = (IF wanted[s] = {t} THEN "apply" ELSE "lock")
      /\ \A u \in Sessions \ {s} : /\ pc'[u] = pc[u] /\ wanted'[u] = wanted[u]
                                   /\ holds'[u] = holds[u]
      /\ holds'[s] = holds[s] \cup {t} /\ wanted'[s] = wanted[s] \ {t}
      /\ UNCHANGED <<job, outcomes>>
  BY <1>1 DEF LockRow, LockInv, TypeOK, durable
<1>3. InOrder(s)'
  <2>1. \A h \in holds'[s], u \in wanted'[s] : h < u
    <3> SUFFICES ASSUME NEW h \in holds'[s], NEW u \in wanted'[s] PROVE h < u OBVIOUS
    <3>1. u \in wanted[s] /\ u # t /\ u \in Nat /\ t \in Nat
      BY <1>2, RelationAssumption DEF LockInv, TypeOK
    <3>2. CASE h = t BY <1>1, <3>1, <3>2 DEF NextRow
    <3>3. CASE h # t BY <1>2, <3>1, <3>3 DEF WaitInv, InOrder
    <3> QED BY <3>2, <3>3
  <2>2. pc'[s] = "lock" <=> wanted'[s] # {} BY <1>1, <1>2 DEF NextRow
  <2>3. pc'[s] = "apply" => Len(outcomes'[s]) < Len(job'[s].ops)
    <3>1. outcomes[s] = <<>> BY <1>2 DEF ServiceInv, SessionInv
    <3>2. job[s] \in Requests BY <1>2 DEF LockInv, TypeOK, MutatePcs
    <3>3. job[s].ops \in Seq(Ops) /\ job[s].ops # <<>> BY <3>2, RelationAssumption
    <3> QED BY <1>2, <3>1, <3>3
  <2> QED BY <2>1, <2>2, <2>3 DEF InOrder
<1> QED BY <1>2, <1>3, OneWaits

LEMMA AdvanceWait ==
  ASSUME LockInv, LockInv', ServiceInv, ServiceInv', WaitInv, NEW s \in Sessions, Advance(s)
  PROVE  WaitInv'
<1>1. CASE ClaimFresh(s)
  <2>1. /\ pc[s] = "claim" /\ pc'[s] = "lock"
        /\ wanted'[s] = EndpointsOfRequest(job[s], edges)
        /\ \A u \in Sessions \ {s} : pc'[u] = pc[u] /\ wanted'[u] = wanted[u]
        /\ UNCHANGED <<job, holds, outcomes>>
    BY <1>1 DEF ClaimFresh, GoTo, durable, LockInv, TypeOK
  <2>2. holds[s] = {} BY <2>1 DEF LockInv, LocksExclusive, InTransaction, HoldsRow
  <2>3. job[s] \in Requests BY <2>1 DEF LockInv, TypeOK, MutatePcs
  <2>4. wanted'[s] # {} BY <2>1, <2>3, SomeEndpoint
  <2>5. InOrder(s)' BY <2>1, <2>2, <2>4 DEF InOrder
  <2> QED BY <2>1, <2>5, OneWaits
<1>2. CASE Replay(s)
  <2>1. /\ pc[s] = "claim" /\ pc'[s] = "answer"
        /\ \A u \in Sessions \ {s} : pc'[u] = pc[u] /\ outcomes'[u] = outcomes[u]
        /\ UNCHANGED <<job, wanted, holds>>
    BY <1>2 DEF Replay, GoTo, durable, LockInv, TypeOK
  <2>2. InOrder(s)' BY <2>1 DEF WaitInv, InOrder
  <2> QED BY <2>1, <2>2, OneWaits
<1>3. CASE SourceEventConflict(s) BY <1>3, RollBackWait DEF SourceEventConflict
<1>4. CASE LockRow(s) BY <1>4, LockRowWait
<1>5. CASE RefuseEndpoint(s) BY <1>5, RollBackWait DEF RefuseEndpoint
<1>6. CASE Apply(s)
  <2>1. /\ pc[s] = "apply" /\ Len(outcomes[s]) < Len(job[s].ops)
        /\ Len(outcomes'[s]) = Len(outcomes[s]) + 1
        /\ pc'[s] = (IF Len(outcomes[s]) + 1 = Len(job[s].ops) THEN "commit" ELSE "apply")
        /\ \A u \in Sessions \ {s} : pc'[u] = pc[u] /\ outcomes'[u] = outcomes[u]
        /\ UNCHANGED <<job, wanted, holds>>
    BY <1>6 DEF Apply, GoTo, durable, LockInv, TypeOK
  <2>2. job[s] \in Requests BY <2>1 DEF LockInv, TypeOK, MutatePcs
  <2>3. Len(job[s].ops) \in Nat /\ Len(outcomes[s]) \in Nat
    BY <2>2, RequestOps DEF LockInv, TypeOK
  <2>4. pc'[s] = "apply" => Len(outcomes'[s]) < Len(job'[s].ops) BY <2>1, <2>3
  <2>5. wanted[s] = {} BY <2>1 DEF WaitInv, InOrder
  <2>6. pc'[s] # "lock" /\ wanted'[s] = {} BY <2>1, <2>5
  <2>7. InOrder(s)' BY <2>4, <2>6 DEF InOrder
  <2> QED BY <2>1, <2>7, OneWaits
<1>7. CASE ApplyRaises(s) BY <1>7, RollBackWait DEF ApplyRaises
<1>8. CASE Commit(s)
  <2>1. /\ pc'[s] = "answer" /\ wanted'[s] = {} /\ holds'[s] = {}
        /\ \A u \in Sessions \ {s} : /\ pc'[u] = pc[u] /\ wanted'[u] = wanted[u]
                                     /\ holds'[u] = holds[u]
        /\ UNCHANGED <<job, outcomes>>
    BY <1>8 DEF Commit, GoTo, EndTransaction, LockInv, TypeOK
  <2>2. InOrder(s)' BY <2>1 DEF InOrder
  <2> QED BY <2>1, <2>2, OneWaits
<1>9. CASE Answer(s) BY <1>9, GoIdleWait DEF Answer
<1>10. CASE RetractLock(s)
  <2>1. /\ pc[s] = "retract_lock" /\ pc'[s] = "retract_decide"
        /\ \A u \in Sessions \ {s} : pc'[u] = pc[u] /\ holds'[u] = holds[u]
        /\ UNCHANGED <<job, wanted, outcomes>>
    BY <1>10 DEF RetractLock, GoTo, durable, LockInv, TypeOK
  <2>2. wanted[s] = {} BY <2>1 DEF WaitInv, InOrder
  <2>3. InOrder(s)' BY <2>1, <2>2 DEF InOrder
  <2> QED BY <2>1, <2>3, OneWaits
<1>11. CASE RetractDecide(s)
  <2>1. /\ pc[s] = "retract_decide" /\ pc'[s] = "retract_commit"
        /\ \A u \in Sessions \ {s} : pc'[u] = pc[u]
        /\ UNCHANGED <<job, wanted, holds, outcomes>>
    BY <1>11 DEF RetractDecide, GoTo, durable, txn, LockInv, TypeOK
  <2>2. InOrder(s)' BY <2>1 DEF WaitInv, InOrder
  <2> QED BY <2>1, <2>2, OneWaits
<1>12. CASE RetractRefused(s) BY <1>12, RollBackWait DEF RetractRefused
<1>13. CASE RetractCommit(s) BY <1>13, GoIdleWait DEF RetractCommit
<1> QED
  BY <1>1, <1>2, <1>3, <1>4, <1>5, <1>6, <1>7, <1>8, <1>9, <1>10, <1>11, <1>12, <1>13
  DEF Advance

LEMMA NextWait ==
  LockInv /\ LockInv' /\ ServiceInv /\ ServiceInv' /\ WaitInv /\ [Next]_vars => WaitInv'
<1> SUFFICES ASSUME LockInv, LockInv', ServiceInv, ServiceInv', WaitInv, [Next]_vars
             PROVE  WaitInv'
  OBVIOUS
<1>1. CASE \E s \in Sessions : Advance(s) BY <1>1, AdvanceWait
<1>2. CASE \E s \in Sessions : Crash(s) BY <1>2, RollBackWait DEF Crash
<1>3. ASSUME NEW s \in Sessions, NEW j, NEW label \in {"claim", "retract_lock"}, Send(s, j, label)
      PROVE  WaitInv'
  <2>1. /\ pc[s] = "idle" /\ pc'[s] = label
        /\ \A u \in Sessions \ {s} : pc'[u] = pc[u] /\ job'[u] = job[u]
        /\ UNCHANGED <<wanted, holds, outcomes>>
    BY <1>3 DEF Send, GoTo, txn, LockInv, TypeOK
  <2>2. InOrder(s)' BY <2>1 DEF WaitInv, InOrder
  <2> QED BY <2>1, <2>2, OneWaits
<1>4. CASE \E s \in Sessions, r \in Requests : Submit(s, r) BY <1>3, <1>4 DEF Submit
<1>5. CASE \E s \in Sessions, t \in Retractable : AskRetract(s, t) BY <1>3, <1>5 DEF AskRetract
<1>6. CASE \E t \in Thoughts : Capture(t)
  BY <1>6 DEF Capture, txn, WaitInv, InOrder, Busy
<1>7. CASE UNCHANGED vars BY <1>7 DEF vars, txn, WaitInv, InOrder, Busy
<1> QED BY <1>1, <1>2, <1>4, <1>5, <1>6, <1>7 DEF Next

\* A session that another waits for and that waits itself is at its own rows,
\* and the row it waits for lies behind the one the other waits for.
LEMMA WaitsGoUp ==
  ASSUME LockInv, WaitInv, NEW s \in Sessions, NEW u \in Sessions, NEW v \in Sessions,
         WaitsFor(s, u), WaitsFor(u, v)
  PROVE  /\ pc[u] = "lock"
         /\ \A t, x \in Thoughts : pc[s] = "lock" /\ NextRow(s, t) /\ NextRow(u, x) => t < x
<1>1. pc[u] \in {"claim", "lock", "retract_lock"} BY DEF WaitsFor
<1>2. InTransaction(u) \/ holds[u] # {} BY DEF WaitsFor
<1>3. pc[u] = "lock" BY <1>1, <1>2 DEF LockInv, LocksExclusive, InTransaction, HoldsRow
<1>4. ASSUME NEW t \in Thoughts, NEW x \in Thoughts, pc[s] = "lock", NextRow(s, t), NextRow(u, x)
      PROVE  t < x
  <2>1. PICK y \in Thoughts : NextRow(s, y) /\ y \in holds[u] BY <1>4 DEF WaitsFor
  <2>2. y = t
    <3>1. y <= t /\ t <= y /\ y \in Nat /\ t \in Nat
      BY <1>4, <2>1, RelationAssumption DEF NextRow
    <3> QED BY <3>1
  <2> QED BY <1>4, <2>1, <2>2 DEF WaitInv, InOrder, NextRow
<1> QED BY <1>3, <1>4

LEMMA WaitsEnd == LockInv /\ WaitInv => NoCircleOfWaits
<1> SUFFICES ASSUME LockInv, WaitInv, NEW S \in SUBSET Sessions, S # {}, IsFiniteSet(S),
                    \A s \in S : \E u \in S : WaitsFor(s, u)
             PROVE  FALSE
  BY DEF NoCircleOfWaits
<1> DEFINE Q == {s \in S : pc[s] = "lock"}
           next(s) == CHOOSE t \in Thoughts : NextRow(s, t)
           Rows == {next(s) : s \in Q}
<1>1. Q # {}
  <2>1. PICK s \in S, u \in S : WaitsFor(s, u) OBVIOUS
  <2>2. PICK v \in S : WaitsFor(u, v) OBVIOUS
  <2>3. pc[u] = "lock" BY <2>1, <2>2, WaitsGoUp
  <2> QED BY <2>3
<1>2. \A s \in Q : next(s) \in Thoughts /\ NextRow(s, next(s))
  <2> SUFFICES ASSUME NEW s \in Q PROVE \E t \in Thoughts : NextRow(s, t) OBVIOUS
  <2> QED BY DEF WaitsFor
<1>3. IsFiniteSet(Rows)
  <2>1. IsFiniteSet(Q) BY FS_Subset
  <2> HIDE DEF Q, next
  <2>2. [s \in Q |-> next(s)] \in Surjection(Q, Rows) BY DEF Surjection
  <2> QED BY <2>1, <2>2, FS_Surjection
<1>4. Rows \in SUBSET Nat /\ Rows # {}
  <2>1. Thoughts \subseteq Nat BY RelationAssumption
  <2> HIDE DEF Q, next
  <2> QED BY <1>1, <1>2, <2>1
<1>5. PICK k \in Rows : \A m \in Rows : m <= k
  <2> HIDE DEF Rows
  <2> QED BY <1>3, <1>4, GreatestNat
<1>6. PICK s \in Q : k = next(s) OBVIOUS
<1>7. PICK u \in S : WaitsFor(s, u) OBVIOUS
<1>8. PICK v \in S : WaitsFor(u, v) OBVIOUS
<1>9. u \in Q BY <1>7, <1>8, WaitsGoUp
<1>10. next(s) < next(u)
  <2>1. pc[s] = "lock" OBVIOUS
  <2> HIDE DEF next
  <2> QED BY <1>2, <1>6, <1>7, <1>8, <1>9, <2>1, WaitsGoUp
<1>11. next(u) <= next(s) /\ next(u) \in Nat /\ next(s) \in Nat
  <2> HIDE DEF next, Q
  <2> QED BY <1>4, <1>5, <1>6, <1>9
<1> QED BY <1>10, <1>11

\* Whoever waits for nobody has nothing in its way.
LEMMA FreeGoOn ==
  ASSUME LockInv, WaitInv, NEW s \in Sessions, pc[s] # "idle",
         \A u \in Sessions : ~WaitsFor(s, u)
  PROVE  CanGoOn(s)
<1>1. CASE pc[s] = "claim"
  BY <1>1 DEF WaitsFor, CanGoOn, Claimed, InTransaction
<1>2. CASE pc[s] = "lock"
  <2>1. wanted[s] # {} /\ wanted[s] \subseteq Thoughts /\ Thoughts \subseteq Nat
    BY <1>2, RelationAssumption DEF WaitInv, InOrder, LockInv, TypeOK
  <2>2. PICK t \in wanted[s] : \A x \in wanted[s] : t <= x
    <3>1. wanted[s] \in SUBSET Nat BY <2>1
    <3> QED BY <2>1, <3>1, LeastNat
  <2>3. NextRow(s, t) /\ t \in Thoughts BY <2>1, <2>2 DEF NextRow
  <2>4. RowFree(t) BY <1>2, <2>3 DEF WaitsFor, RowFree
  <2> QED BY <1>2, <2>3, <2>4 DEF CanGoOn
<1>3. CASE pc[s] = "apply" BY <1>3 DEF WaitInv, InOrder, CanGoOn
<1>4. CASE pc[s] = "retract_lock" BY <1>4 DEF WaitsFor, RowFree, CanGoOn
<1>5. CASE pc[s] \in {"commit", "answer", "retract_decide", "retract_commit"}
  BY <1>5 DEF CanGoOn
<1>6. pc[s] \in MutatePcs \cup RetractPcs BY DEF LockInv, TypeOK
<1> QED BY <1>1, <1>2, <1>3, <1>4, <1>5, <1>6 DEF MutatePcs, RetractPcs

LEMMA WaitsEndSoGoOn == LockInv /\ WaitInv => SomeoneGoesOn
<1> SUFFICES ASSUME LockInv, WaitInv, Busy # {}
             PROVE  \E s \in Sessions : pc[s] # "idle" /\ CanGoOn(s)
  BY DEF SomeoneGoesOn, Busy
<1>1. Busy \in SUBSET Sessions /\ IsFiniteSet(Busy) BY DEF Busy, WaitInv
<1>2. PICK s \in Busy : \A u \in Busy : ~WaitsFor(s, u)
  BY <1>1, WaitsEnd DEF NoCircleOfWaits
<1>3. \A u \in Sessions \ Busy : holds[u] = {} /\ ~InTransaction(u)
  BY DEF Busy, LockInv, LocksExclusive, InTransaction, HoldsRow
<1>4. \A u \in Sessions : ~WaitsFor(s, u) BY <1>2, <1>3 DEF WaitsFor
<1> QED BY <1>1, <1>4, FreeGoOn DEF Busy

(***************************************************************************)
(* However many sessions link, unlink, re-tag and retract at once, no set  *)
(* of them waits in a circle, and as long as any is at work one of them    *)
(* can take its next statement: the claim before the locks and the locks   *)
(* in id order leave nothing to the deadlock detector (migration 0033).    *)
(***************************************************************************)
THEOREM NoSessionsDeadlock == Spec => [](NoCircleOfWaits /\ SomeoneGoesOn)
<1>1. LockInv /\ WaitInv => NoCircleOfWaits /\ SomeoneGoesOn BY WaitsEnd, WaitsEndSoGoOn
<1>2. QED
  BY <1>1, InitLock, NextLock, InitService, NextService, InitWait, NextWait, PTL DEF Spec
==============================================================================
