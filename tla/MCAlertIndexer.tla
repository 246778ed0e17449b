--------------------------- MODULE MCAlertIndexer ---------------------------
(* Instances of AlertIndexer for TLC.                                       *)
EXTENDS AlertIndexer

CONSTANTS w1, w2, a1

\* The last emission falls after midnight.
Midnight == [m \in Messages |-> IF m < MaxEmits THEN 1 ELSE 2]
=============================================================================
