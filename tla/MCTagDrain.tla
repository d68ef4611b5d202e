------------------------------ MODULE MCTagDrain ------------------------------
(***************************************************************************)
(* Small instances of TagDrain.                                            *)
(***************************************************************************)
EXTENDS TagDrain, TLC

CONSTANTS w1, w2, c1, k1, k2, site, forum

Edge(from, to) == [from |-> from, relation |-> "supports", to |-> to]
Emission(es) == [edges |-> es, repeated |-> FALSE]
Change(key, action, e) ==
  [key |-> key, ops |-> <<[action |-> action, from |-> e.from, edges |-> {e},
                           repeated |-> FALSE]>>]

TwoWorkers == {w1, w2}
OneRun == {c1}
Nobody == {}
First == {1}
Pair == 1..2
Urls == {site, forum}
Supports == {"supports"}
TwoKeys == {k1, k2}

\* The emissions about the thoughts of this instance.
About(xs) == {x \in xs : x.edges \subseteq Edges}

\* The tagger changes its mind about the first thought, once and again.
Wavering ==
  About({Emission({Edge(1, site)}), Emission({Edge(1, forum)}), Emission({Edge(2, site)})})

\* An agent removes an edge the tagger emits, and asserts another one.
Corrections ==
  {Change(k1, "delete", Edge(1, site)), Change(k2, "create", Edge(1, forum))}

(***************************************************************************)
(* One worker and two thoughts; or one thought, and with the worker a run  *)
(* of `kengram tag' or a second worker, and one fault less.                *)
(***************************************************************************)
MCInit ==
  \/ StartWith({w1}, {}, 0)
  \/ \E rival \in {c1, w2} : StartWith({w1, rival}, {2}, 1)

MCSpec == MCInit /\ [][Next]_vars /\ \A w \in Workers : WF_vars(Work(w))
==============================================================================
