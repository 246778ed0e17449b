-------------------------- MODULE DeliveryContract --------------------------
(***************************************************************************)
(* What the bus and its workers promise a consumer group together,         *)
(* whatever carries it out: the at-least-once contract that bus.py and     *)
(* runner.py state and every handler of the pipeline relies on.            *)
(*                                                                         *)
(* A message is published once and then, in each group, goes from queued   *)
(* to pending to done.  It is done only once it has an outcome (handled,   *)
(* dead-lettered, or dropped as unparseable), it never goes back, and      *)
(* nothing is ever lost.                                                   *)
(***************************************************************************)
EXTENDS Naturals

CONSTANTS Members,  \* the consumer groups the contract is made with
          Messages  \* message ids, in the order they are published

VARIABLES status,   \* status[g][i]
          outcome   \* outcome[g]: messages with an outcome in group g

contractVars == <<status, outcome>>

Stages == {"absent", "queued", "pending", "done"}

Absent(i)  == \A g \in Members : status[g][i] = "absent"
Present(g) == {i \in Messages : status[g][i] # "absent"}
At(g, s)   == {i \in Messages : status[g][i] = s}

Move(g, S, s) ==
    status' = [status EXCEPT ![g] =
                  [i \in Messages |-> IF i \in S THEN s ELSE @[i]]]

Init ==
    /\ status = [g \in Members |-> [i \in Messages |-> "absent"]]
    /\ outcome = [g \in Members |-> {}]

\* A message reaches every group's queue at once.
Publish(i) ==
    /\ Absent(i)
    /\ status' = [g \in Members |-> [status[g] EXCEPT ![i] = "queued"]]
    /\ UNCHANGED outcome

\* The group is handed some of what is queued for it.
Deliver(g, S) ==
    /\ S \subseteq At(g, "queued")
    /\ Move(g, S, "pending")
    /\ UNCHANGED outcome

\* Work on messages C of the group ends, and those in S, all of which have an
\* outcome by now, are acknowledged.
Conclude(g, C, S) ==
    /\ C \subseteq Present(g)
    /\ outcome' = [outcome EXCEPT ![g] = @ \cup C]
    /\ S \subseteq At(g, "pending") \cap (outcome[g] \cup C)
    /\ Move(g, S, "done")

Next ==
    \/ \E i \in Messages : Publish(i)
    \/ \E g \in Members :
          \/ \E S \in SUBSET Messages : Deliver(g, S)
          \/ \E C, S \in SUBSET Messages : Conclude(g, C, S)

Spec == Init /\ [][Next]_contractVars
=============================================================================
