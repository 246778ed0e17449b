------------------------------ MODULE Delivery ------------------------------
(***************************************************************************)
(* What the two worker loops of services/shared/runner.py have in common:  *)
(* the workers of a topic, the redelivery cap, and what has become of each *)
(* entry in each group.  TopicWorker is the loop with a plain handler,     *)
(* BatchWorker the loop with a handler that exposes handle_batch.          *)
(***************************************************************************)
EXTENDS RedisBus

CONSTANTS
    Workers,         \* worker threads
    GroupOf,         \* GroupOf[w]: the consumer group of worker w
    MaxRedeliveries, \* max_redeliveries of serve()
    Corrupt          \* ids whose payload json.loads cannot parse

ASSUME DeliveryAssumption ==
    /\ IsFiniteSet(Workers)
    /\ GroupOf \in [Workers -> Groups]
    /\ MaxRedeliveries \in Nat
    /\ Corrupt \subseteq Ids

VARIABLES
    handled,  \* handled[g]: ids some handler run of group g completed
    dead,     \* dead[g]: ids with a copy in <topic>.deadletter
    dropped,  \* dropped[g]: unparseable ids acked after their copy failed
    runs      \* runs[g][i]: handler invocations of message i in group g

outcomeVars == <<handled, dead, dropped, runs>>

OutcomeInit ==
    /\ handled = [g \in Groups |-> {}]
    /\ dead = [g \in Groups |-> {}]
    /\ dropped = [g \in Groups |-> {}]
    /\ runs = [g \in Groups |-> [i \in Ids |-> 0]]

OutcomeTypeOK ==
    /\ handled \in [Groups -> SUBSET Ids]
    /\ dead \in [Groups -> SUBSET Ids]
    /\ dropped \in [Groups -> SUBSET Ids]
    /\ runs \in [Groups -> [Ids -> Nat]]

\* _decode_entry cannot parse entry i: copy the raw entry to the dead-letter
\* topic (best effort), then XACK it whether or not the copy was written.  A
\* failed XACK leaves it pending.
QuarantineEntry(g, i, wrote, acked) ==
    /\ i \in Corrupt
    /\ dead' = [dead EXCEPT ![g] = IF wrote THEN @ \cup {i} ELSE @]
    /\ dropped' = [dropped EXCEPT ![g] = IF ~wrote /\ acked THEN @ \cup {i} ELSE @]
    /\ XAck(g, IF acked THEN {i} ELSE {})
    /\ IF wrote /\ acked THEN UNCHANGED faults ELSE Fault
    /\ UNCHANGED <<handled, runs>>

-----------------------------------------------------------------------------
(* Properties both loops must have.                                        *)

\* What became of the messages of group g: handled, dead-lettered or, for an
\* unparseable entry whose dead-letter copy failed, dropped.
Outcome(g) == handled[g] \cup dead[g] \cup dropped[g]

\* Group g has been handed entry i and has acked it.
Settled(g, i) == i <= delivered[g] /\ i \notin pel[g]

\* At-least-once: whatever the interleaving of workers, crashes, lost acks and
\* trims, an entry has an outcome in every group that was there from the start
\* or it can still be delivered to that group (unread, or pending) from the
\* stream.
NothingLost ==
    \A g \in InitialGroups, i \in 1 .. last :
        \/ i \in Outcome(g)
        \/ i \in stream /\ ~Settled(g, i)

\* trim_acked removes only entries that every group registered at the moment of
\* the XTRIM has consumed and acked.
TrimRemovesOnlyFinished ==
    [][\A i \in stream \ stream', g \in groups : Settled(g, i)]_busVars

\* Every message is eventually settled in every group that has a worker: a
\* failing handler ends in the dead-letter topic, never in endless redelivery.
EverythingSettles ==
    \A w \in Workers, i \in Ids :
        (i <= last) ~> Settled(GroupOf[w], i)

(* The parts of the inductive invariant behind NothingLost.                *)

\* A registered group stays registered.
StillRegistered == InitialGroups \subseteq groups

\* Only what the group has been handed is pending in it.
PendingWasDelivered ==
    \A g \in Groups : pel[g] \subseteq 1 .. delivered[g]

\* The boundary trim_acked is computing, between its XINFO GROUPS snapshot and
\* its XTRIM, while producers and workers go on: a group already examined has
\* been handed everything below the boundary and has nothing below it pending,
\* and the snapshot of one still to be examined is behind what the group has
\* been handed since.
TrimBoundSafe ==
    rpc = "scan" =>
        \A g \in InitialGroups :
            IF g \in rSeen
            THEN rLast[g] <= delivered[g]
            ELSE /\ rBound \in 1 .. (delivered[g] + 1)
                 /\ \A i \in pel[g] : rBound <= i

\* How the stream and the groups read as the contract's state.
EntryStatus(g, i) ==
    CASE i > last -> "absent"
      [] i <= last /\ i \notin stream /\ ~Settled(g, i) -> "lost"
      [] i <= last /\ i \in stream /\ i > delivered[g] -> "queued"
      [] i <= last /\ i \in stream /\ i <= delivered[g] /\ i \in pel[g] -> "pending"
      [] i <= last /\ Settled(g, i) -> "done"

ContractStatus == [g \in InitialGroups |-> [i \in Ids |-> EntryStatus(g, i)]]

Contract ==
    INSTANCE DeliveryContract WITH
        Members <- InitialGroups,
        Messages <- Ids,
        status <- ContractStatus,
        outcome <- [g \in InitialGroups |-> Outcome(g)]

\* The Redis bus and its workers implement the at-least-once contract with every
\* group registered from the start.
KeepsContract == Contract!Spec
=============================================================================
