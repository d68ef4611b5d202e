-------------------------------- MODULE SearchedCopy --------------------------------
(***************************************************************************)
(* A request and, for models whose vectors are too long for an index, the  *)
(* indexed copy that its dense legs search.  They share no state but the   *)
(* vectors: what a leg gets from the copy is for Search any answer.        *)
(***************************************************************************)
EXTENDS Search

CONSTANTS Targets, Processes, Workers, Asked, MaxFaults, MaxOld, Nobody

VARIABLES raw, projected, coverage, index, lock, at, counted, audit, older, search, found,
          asked, faults, old

Copy == INSTANCE AnnProjection

\* A search of the copy finds what was there when it began (AnnProjection).
FindsWhatWasThere == Copy!FindsWhatWasThere
=====================================================================================
