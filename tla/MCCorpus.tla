---------------------------------- MODULE MCCorpus ----------------------------------
(***************************************************************************)
(* Instance of Corpus for TLC: a thought of seven words, the last one the  *)
(* first again, a marked one of three, and one that is archived.           *)
(***************************************************************************)
EXTENDS Corpus, TLC

CONSTANTS t1, t2, t3, a1, a2, g1, g2, h1, h2, good, better, bad

MCThoughts == {t1, t2, t3}
MCText ==
  t1 :> <<"one", "two.", "three", "four", "five.", "six", "one">>
    @@ t2 :> <<"KGR001", "eight", "nine.">> @@ t3 :> <<"ten">>
MCWords == UNION {{MCText[t][i] : i \in DOMAIN MCText[t]} : t \in MCThoughts}
MCStops == {"two.", "five.", "nine."}
MCMarkers == {"KGR001"}
MCArchived == {t3}

Limits(least, target, max, overlap) ==
  [least |-> least, target |-> target, max |-> max, overlap |-> overlap]

\* Cuts t1 in two; cuts it with overlaps; turns for ever on it; cuts both texts into words.
Halves == Limits(4, 3, 5, 0)
MCParams == {Halves, Limits(4, 3, 3, 1), Limits(4, 3, 4, 2), Limits(2, 1, 1, 0)}

(***************************************************************************)
(* Three instances in one: two chunkers cut thoughts; two generators work  *)
(* on the halves of t1; one generator and a sweeper do, while rows are     *)
(* written.                                                                *)
(***************************************************************************)
VARIABLE instance

Idle(run) == \A i \in DOMAIN run : run[i].pc = "idle"
Unswept == \A h \in Sweepers : status[h] = "none"

HalvesOnly ==
  /\ apply[a2].pc = "idle" /\ apply[a1].params \in {None, Halves}
  /\ chunks = {} => retracted = {} /\ rows = {} /\ Idle(generate) /\ Unswept
  /\ chunks # {} => Idle(apply) /\ Cardinality(chunks) = 2 /\ retracted \subseteq {t1}

Fits ==
  CASE instance = "cut" -> retracted \subseteq {t1}
    [] instance = "generate" ->
         HalvesOnly /\ Unswept /\ \A e \in rows : e.table = "context_dense"
    [] instance = "sweep" ->
         HalvesOnly /\ \A g \in Generators :
                          generate[g].pc # "idle" => g = g1 /\ generate[g].text # better

MCInit == Init /\ instance \in {"cut", "generate", "sweep"} /\ Fits
MCNext ==
  /\ \/ instance = "cut" /\ \/ \E a \in Appliers : Apply(a)
                            \/ \E t \in Thoughts : Retract(t)
     \/ instance # "cut" /\ Next
  /\ UNCHANGED instance /\ Fits'
MCSpec == MCInit /\ [][MCNext]_<<vars, instance>> /\ \A a \in Appliers : WF_vars(ApplyStep(a))
=====================================================================================
