----------------------------- MODULE MCCorrelator -----------------------------
(* An instance of Correlator for TLC.                                       *)
EXTENDS Correlator, TLC

CONSTANTS a1, a2, a3, k1, k2

\* Two alerts on one user, one of them on a device too, and one more on the user.
TwoEntities == (a1 :> <<k1, k2>> @@ a2 :> <<k1>> @@ a3 :> <<k1>>)

TwoTactics == (a1 :> "TA1" @@ a2 :> "TA2" @@ a3 :> "TA2")

\* a1 happened at 2: ahead of the clock, in time or late, as it is ingested.  a2 and
\* a3 have no usable time.
OutOfOrder == (a1 :> 2 @@ a2 :> 0 @@ a3 :> 0)

\* The replicas run the same code; a2 and a3 have the same legs, tactic and time.
Alike == Permutations(Workers) \cup Permutations({a2, a3})
=============================================================================
