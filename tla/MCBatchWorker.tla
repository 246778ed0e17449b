---------------------------- MODULE MCBatchWorker ----------------------------
(* An instance of BatchWorker for TLC.                                      *)
EXTENDS BatchWorker

CONSTANTS g1, w1

OneGroup == [w \in Workers |-> g1]
=============================================================================
