---------------------------- MODULE MCBulkIndexer ----------------------------
(* An instance of BulkIndexer for TLC.                                      *)
EXTENDS BulkIndexer, TLC

CONSTANTS d1, d2

\* Two events, both normalized and scored, the first one scored twice; 6 has no index.
TwoEvents == (1 :> d1 @@ 2 :> d2 @@ 3 :> d1 @@ 4 :> d1 @@ 5 :> d2)
=============================================================================
