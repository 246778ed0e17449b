------------------------------- MODULE MCIngest -------------------------------
(* An instance of Ingest for TLC.                                           *)
EXTENDS Ingest

CONSTANTS w1, w2
=============================================================================
