------------------------------- MODULE MCDetector -------------------------------
(* One account attacked from two addresses: e1 and e2 come from one address     *)
(* together, e2 with a forged record time; e3 comes later from another, with a  *)
(* clock a little ahead.  Rule sib counts per address, comp, its companion, per *)
(* account; port counts distinct values per account and once is stateless.      *)
EXTENDS Detector, TLC

CONSTANTS p1, p2, e1, e2, e3, sib, comp, port, once, gA, gB, gU, v1, v2

MCEventTime == e1 :> 3 @@ e2 :> 7 @@ e3 :> 6
MCReceiptTime == e1 :> 4 @@ e2 :> 4 @@ e3 :> 5
MCMatching ==
    (Rules \X Events) \cap
        ({sib, comp} \X {e1, e2, e3} \cup {<<port, e1>>, <<port, e3>>, <<once, e3>>})

MCDeployments == {<<{p1}, {e1, e2, e3}>>, <<{p1, p2}, {e1, e2}>>}

BySource == e1 :> gA @@ e2 :> gA @@ e3 :> gB
ByAccount == [e \in {e1, e2, e3} |-> gU]
MCGroupOf == sib :> BySource @@ comp :> ByAccount @@ port :> ByAccount @@ once :> ByAccount
MCValueOf == e1 :> v1 @@ e2 :> v1 @@ e3 :> v2
MCCompanionOf == sib :> NoRule @@ comp :> sib @@ port :> NoRule @@ once :> NoRule
MCWindow == sib :> 2 @@ comp :> 5 @@ port :> 2 @@ once :> 0
MCThreshold == sib :> 2 @@ comp :> 2 @@ port :> 2 @@ once :> 1
MCWeight == sib :> 30 @@ comp :> 0 @@ port :> 0 @@ once :> 20
MCFloor == sib :> 70 @@ comp :> 40 @@ port :> 70 @@ once :> 0
================================================================================
