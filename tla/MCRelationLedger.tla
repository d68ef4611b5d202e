--------------------------- MODULE MCRelationLedger ---------------------------
(***************************************************************************)
(* Small instances of RelationLedger.                                      *)
(***************************************************************************)
EXTENDS RelationLedger, TLC

CONSTANTS s1, s2, s3, k1, k2, k3, k4, k5, k6, url

Edge(from, relation, to) == [from |-> from, relation |-> relation, to |-> to]

Op(action, from, es) ==
  [action |-> action, from |-> from, edges |-> es, repeated |-> FALSE]

Link(from, relation, to)   == Op("create", from, {Edge(from, relation, to)})
Unlink(from, relation, to) == Op("delete", from, {Edge(from, relation, to)})
Retag(from, es)            == Op("replace_tagger_set", from, es)

Request(key, op) == [key |-> key, ops |-> <<op>>]

Two == {s1, s2}
Three == {s1, s2, s3}
FourKeys == {k1, k2, k3, k4}
SixKeys == {k1, k2, k3, k4, k5, k6}
Urls == {url}
Triple == 1..3
Quad == 1..4
Refines == {"refines"}
RefinesSupports == {"refines", "supports"}
NoThoughts == {}
First == {1}

\* Four links that would close a cycle whose edges need not share a thought.
SquareRequests ==
  {Request(k1, Link(1, "refines", 2)), Request(k2, Link(2, "refines", 3)),
   Request(k3, Link(3, "refines", 4)), Request(k4, Link(4, "refines", 1))}

\* A capture-like request with two operations, another intent under its key, a
\* rival unlink, and a re-tag.
MixedRequests ==
  {[key |-> k1, ops |-> <<Link(1, "refines", 2), Link(1, "supports", url)>>],
   Request(k1, Link(2, "supports", 1)),
   Request(k2, Unlink(1, "refines", 2)),
   Request(k3, Retag(1, {Edge(1, "supports", url)}))}

\* Three links that would close a cycle, in any order and any overlap.
Ring ==
  {Request(k4, Link(1, "refines", 2)), Request(k5, Link(2, "refines", 3)),
   Request(k6, Link(3, "refines", 1))}

MixedAndRing == MixedRequests \cup Ring

(***************************************************************************)
(* Two instances in one: two sessions send the mixed requests between two  *)
(* thoughts, again and again, or three sessions send each link of the ring *)
(* between three thoughts once.                                            *)
(***************************************************************************)
MaxSends == 5

Sent(rs) == \E r \in rs : attempts[r] > 0
Sends == Cardinality({x \in Jobs \X (1..MaxAttempts) : attempts[x[1]] >= x[2]})

OneInstance ==
  \/ ~Sent(Ring) /\ Sends <= MaxSends /\ pc[s3] = "idle" /\ thought[3] = "absent"
  \/ ~Sent(MixedRequests) /\ \A r \in Ring : attempts[r] <= 1

MCSpec ==
  Init /\ [][Next /\ OneInstance']_vars /\ \A s \in Sessions : WF_vars(Advance(s))

SessionSymmetry == Permutations(Two)
==============================================================================
