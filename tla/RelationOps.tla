----------------------------- MODULE RelationOps -----------------------------
(***************************************************************************)
(* The relation graph of kEngram as data: the edges of thought_links and   *)
(* what one operation of mutate_thought_relations_serialized does to them  *)
(* (migrations/0033).  RelationService applies these operations at once,   *)
(* RelationLedger one statement at a time inside a transaction.            *)
(***************************************************************************)
EXTENDS Integers, Sequences, FiniteSets

CONSTANTS
  Thoughts,      \* thought ids; uuids in the code, ordered as the database orders them
  Externals,     \* entity, person and url targets
  Relations,     \* the relation vocabulary (or the part of it an instance uses)
  Supersession,  \* replaces and refines: the relations a chain is built from
  Keys,          \* replay keys (source_event_namespace, source_event_ref)
  Requests       \* the mutation requests that clients, captures and the tagger send

Targets == Thoughts \cup Externals

Edges == {e \in [from: Thoughts, relation: Relations, to: Targets] : e.from # e.to}

(***************************************************************************)
(* What the rows of thought_links say of one edge: no row at all, a live   *)
(* row (and which writer owns it), or only soft-deleted rows.  At most one *)
(* live row per edge: the partial unique index of migration 0010.          *)
(***************************************************************************)
LiveStates == {"agent", "tagger"}
EdgeStates == LiveStates \cup {"never", "deleted"}

Ops == [action: {"create", "delete", "replace_tagger_set"},
        from: Thoughts, edges: SUBSET Edges, repeated: BOOLEAN]

(***************************************************************************)
(* Requests that pass the argument checks: link_thoughts and               *)
(* unlink_thoughts name one edge, and the tagger's targets are never       *)
(* thoughts (ExtractedTarget has no such variant).  `repeated' says that   *)
(* the tagger emitted the same edge twice (with two notes, say).           *)
(***************************************************************************)
WellFormed(op) ==
  /\ op \in Ops
  /\ \A e \in op.edges : e.from = op.from
  /\ op.action # "replace_tagger_set" => \E e \in Edges : op.edges = {e}
  /\ op.action = "replace_tagger_set" => \A e \in op.edges : e.to \in Externals

ASSUME RelationAssumption ==
  /\ Thoughts \subseteq Nat
  /\ Thoughts \cap Externals = {}
  /\ Supersession \subseteq Relations
  /\ \A r \in Requests :
       /\ r \in [key: Keys, ops: Seq(Ops)]
       /\ r.ops # <<>>
       /\ \A i \in DOMAIN r.ops : WellFormed(r.ops[i])

------------------------------------------------------------------------------
OpsOf(r) == {r.ops[i] : i \in DOMAIN r.ops}

\* An edge of a supersession chain: replaces or refines, thought to thought.
IsChainEdge(e) == e.relation \in Supersession /\ e.to \in Thoughts

ChainEdges == {e \in Edges : IsChainEdge(e)}

ChainLink(view, a, b) ==
  \E e \in ChainEdges : e.from = a /\ e.to = b /\ view[e] \in LiveStates

(***************************************************************************)
(* b lies on a live chain that starts with an edge of a: the recursive     *)
(* query `walk', whose rows are the least set that holds the successors of *)
(* a and the successors of its own members.                                *)
(***************************************************************************)
Walks(view, a, b) ==
  \A S \in SUBSET Thoughts :
    (\A x, y \in Thoughts :
       ChainLink(view, x, y) /\ (x = a \/ x \in S) => y \in S)
    => b \in S

\* Mutant: only the row of the thought an edge starts from is locked.
LocksFromOnly(op, view) == {op.from}

\* The rows an operation locks: lock_thought_relation_endpoints takes them all.
EndpointsOf(op, view) ==
  {op.from} \cup
  (Thoughts \cap
     (IF op.action = "replace_tagger_set"
      THEN {e.to : e \in op.edges \cup {d \in Edges : d.from = op.from /\ view[d] = "tagger"}}
      ELSE {e.to : e \in op.edges}))

\* Mutant: no target has to be active, whatever the relation.
RequiresFromOnly(op) == IF op.action = "delete" THEN {} ELSE {op.from}

\* The thoughts that must not be retracted when the rows are locked.
ActiveRequiredOf(op) ==
  IF op.action = "delete" THEN {}
  ELSE {op.from} \cup {e.to : e \in {d \in op.edges : d.to \in Thoughts
                                                   /\ d.relation \notin Supersession}}

EndpointsOfRequest(r, view) == UNION {EndpointsOf(op, view) : op \in OpsOf(r)}
ActiveRequiredOfRequest(r)  == UNION {ActiveRequiredOf(op) : op \in OpsOf(r)}

(***************************************************************************)
(* An operation that raises, and so rolls its transaction back: a create   *)
(* that would close a chain into a cycle, or a tagger set with an edge     *)
(* that is already live (the unique index) or appears twice.               *)
(***************************************************************************)
Raises(op, view) ==
  \/ /\ op.action = "create"
     /\ \E e \in op.edges : IsChainEdge(e) /\ Walks(view, e.to, e.from)
  \/ /\ op.action = "replace_tagger_set"
     /\ op.repeated \/ \E e \in op.edges : view[e] = "agent"

Created(view, es) ==
  [e \in Edges |-> IF e \in es /\ view[e] \notin LiveStates THEN "agent" ELSE view[e]]

Deleted(view, es) ==
  [e \in Edges |-> IF e \in es /\ view[e] \in LiveStates THEN "deleted" ELSE view[e]]

\* Mutant: the edges of the set before stay.
TaggerSetAdded(view, from, es) ==
  [e \in Edges |-> IF e \in es THEN "tagger" ELSE view[e]]

\* Mutant: the old set is deleted whoever wrote it.
EveryRowReplaced(view, from, es) ==
  [e \in Edges |-> IF e \in es THEN "tagger"
                   ELSE IF e.from = from /\ view[e] \in LiveStates THEN "deleted"
                   ELSE view[e]]

TaggerSetReplaced(view, from, es) ==
  [e \in Edges |-> IF e \in es THEN "tagger"
                   ELSE IF e.from = from /\ view[e] = "tagger" THEN "deleted"
                   ELSE view[e]]

After(op, view) ==
  IF op.action = "create" THEN Created(view, op.edges)
  ELSE IF op.action = "delete" THEN Deleted(view, op.edges)
  ELSE TaggerSetReplaced(view, op.from, op.edges)

Outcome(op, view) ==
  CASE op.action = "replace_tagger_set" -> "replaced"
    [] op.action = "create" ->
         IF \E e \in op.edges : view[e] \in LiveStates THEN "already_live" ELSE "created"
    [] op.action = "delete" ->
         IF \E e \in op.edges : view[e] \in LiveStates THEN "deleted_now"
         ELSE IF \E e \in op.edges : view[e] = "deleted" THEN "already_deleted"
         ELSE "never_existed"

\* The first n operations of a request, one after the other.
Applied(r, view) ==
  LET upto[n \in 0..Len(r.ops)] ==
        IF n = 0 THEN [view |-> view, outcomes |-> <<>>]
        ELSE [view |-> After(r.ops[n], upto[n - 1].view),
              outcomes |-> Append(upto[n - 1].outcomes, Outcome(r.ops[n], upto[n - 1].view))]
  IN upto

Outcomes == {"replaced", "already_live", "created",
             "deleted_now", "already_deleted", "never_existed"}
==============================================================================
