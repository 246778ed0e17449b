------------------------------ MODULE MCAiTriage ------------------------------
(* An instance of AiTriage for TLC.                                         *)
EXTENDS AiTriage, TLC

CONSTANTS t1, t2, p1, r1, r2, r3, r4, e1, e2

\* Two events of the LLM tier, an event without an id, one of the classifier tier.
FourRequests == (r1 :> e1 @@ r2 :> e2 @@ r3 :> NoId @@ r4 :> e2)
=============================================================================
