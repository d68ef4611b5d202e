---------------------------------- MODULE MCSearch ----------------------------------
(***************************************************************************)
(* Two instances in one: a request that reads the vectors, and processes   *)
(* that keep the indexed copy of long vectors, with searches of it.        *)
(***************************************************************************)
EXTENDS SearchedCopy, TLC

CONSTANTS t1, t2, t3, t4, c1, c2, c3, c4, c5, server, worker

VARIABLE part

MCThoughts == {t1, t2, t3, t4}
MCChunks == {c1, c2, c3, c4, c5}
MCParent == (c1 :> t1) @@ (c2 :> t1) @@ (c3 :> t1) @@ (c4 :> t1) @@ (c5 :> t2)

\* t3 has no vector, and t4 is not to be met at all.
MCMatch ==
  [k \in ThoughtKinds \cup ChunkKinds |->
     IF k = "facets" THEN {t1}
     ELSE IF k \in {"aliased", "domain tag"} THEN {t2, t4}
     ELSE IF k = "words" THEN {t1, t2, t3}
     ELSE IF k \in ThoughtKinds THEN {t1, t2}
     ELSE IF k \in {"context dense", "context words", "context ready"} THEN {c5}
     ELSE MCChunks]
MCMarked == {t4}
MCInScope == {t1, t2, t3}
MCLinks == <<<<t1, t4>>, <<t3, t1>>, <<t2, t1>>, <<t2, t3>>>>
MCMayRetract == {t2}
MCFlags ==
  {{}, {"graph"}, {"sparse", "graph"}, {"routing", "graph"}, {"expansion", "graph"},
   {"chunks", "graph"}, {"chunks", "contexts"}}
MCOld == {t1}
MCMatching == {t1, t2, t3}

MCTargets == {t1, t2}
MCProcesses == {server, worker}
MCWorkers == {worker}
MCAsked == {t1}

copyVars ==
  <<raw, projected, coverage, index, lock, at, counted, audit, older, search, found, asked,
    faults, old>>

MCInit ==
  /\ Init /\ Copy!Init /\ part \in {"request", "projection"}
  /\ part = "request" => index = "absent"
  /\ part = "projection" => flags = {} /\ retracted = {}

MCNext ==
  /\ UNCHANGED part
  /\ \/ part = "request" /\ Next /\ UNCHANGED copyVars
     \/ part = "projection" /\ Copy!Next /\ UNCHANGED vars

MCSpec ==
  MCInit /\ [][MCNext]_<<vars, copyVars, part>> /\ (part = "projection" => Copy!Fairness)

StartsSucceed == part = "projection" => Copy!StartsSucceed
==============================================================================
