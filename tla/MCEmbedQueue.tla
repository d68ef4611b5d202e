----------------------------- MODULE MCEmbedQueue -----------------------------
(***************************************************************************)
(* Small instances of EmbedQueue.                                          *)
(***************************************************************************)
EXTENDS EmbedQueue, TLC

CONSTANTS w1, b1, bge, qwen

OneWorker == {w1}
OneBackfill == {b1}
First == {1}
Third == {3}
OfFirst == [c \in Third |-> 1]
TwoModels == {bge, qwen}
==============================================================================
