----------------------------- MODULE MCSupersession -----------------------------
(***************************************************************************)
(* A small instance of Supersession.                                       *)
(***************************************************************************)
EXTENDS Supersession, TLC

CONSTANTS c1, c2, src, src2, h1, h2, h3, text, twin, other, id1, id2

TwoSources == {src, src2}
ThreeHashes == {h1, h2, h3}
Texts == {text, twin, other}
Rendering == (h1 :> text) @@ (h2 :> twin) @@ (h3 :> other)
\* The event in conflict, and another one that is delivered with one of the new texts.
Delivered == {<<src, h1>>, <<src, h2>>, <<src2, h3>>}
TwoIds == {id1, id2}
TwoClients == {c1, c2}

Ask(id, old, new) ==
  [id |-> id, source |-> src, oldHash |-> old, oldThought |-> Rendering[old],
   hash |-> new, content |-> Rendering[new]]

\* Two rivals, and a supersession of what one of them made, under an id in use.
Asked == {Ask(id1, h1, h2), Ask(id2, h1, h3), Ask(id2, h2, h3)}

ClientSymmetry == Permutations(Clients)
==============================================================================
