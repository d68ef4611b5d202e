--------------------------- MODULE RelationService ---------------------------
(***************************************************************************)
(* What the relation mutations promise, with no transactions in sight: a   *)
(* request happens at once, all its operations or none, at most once per   *)
(* replay key, and only between thoughts that are fit for it at that       *)
(* moment.  It says nothing of cycles: the walk that looks for them is not *)
(* atomic with the insert (see NoChainCycle in RelationLedger).            *)
(***************************************************************************)
EXTENDS RelationOps

CONSTANT Retractable

VARIABLES thought, edges, ledger

serviceVars == <<thought, edges, ledger>>

ServiceInit ==
  /\ thought \in [Thoughts -> {"absent", "active"}]
  /\ edges = [e \in Edges |-> "never"]
  /\ ledger = {}

\* The operations of a request one after the other, from the edges as they are.
Effect(r) == Applied(r, edges)[Len(r.ops)]

\* A fresh key, and endpoints that exist and are active where they must be.
Acceptable(r) ==
  /\ \A row \in ledger : row.req.key # r.key
  /\ \A t \in EndpointsOfRequest(r, edges) : thought[t] # "absent"
  /\ \A t \in ActiveRequiredOfRequest(r) : thought[t] = "active"

Perform(r) ==
  /\ Acceptable(r)
  /\ edges' = Effect(r).view
  /\ ledger' = ledger \cup {[req |-> r, outcomes |-> Effect(r).outcomes]}
  /\ UNCHANGED thought

Retract(t) ==
  /\ thought[t] = "active"
  /\ \A e \in ChainEdges : e.from = t => edges[e] \notin LiveStates
  /\ thought' = [thought EXCEPT ![t] = "retracted"]
  /\ UNCHANGED <<edges, ledger>>

Arrive(t) ==
  /\ thought[t] = "absent"
  /\ thought' = [thought EXCEPT ![t] = "active"]
  /\ UNCHANGED <<edges, ledger>>

ServiceNext ==
  \/ \E r \in Requests : Perform(r)
  \/ \E t \in Retractable : Retract(t)
  \/ \E t \in Thoughts : Arrive(t)

ServiceSpec == ServiceInit /\ [][ServiceNext]_serviceVars
==============================================================================
