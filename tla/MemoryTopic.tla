----------------------------- MODULE MemoryTopic -----------------------------
(***************************************************************************)
(* One topic of the process-local bus (services/shared/bus.py, _MemoryBus) *)
(* as its consumer groups see it: the state they share and what the bus    *)
(* promises them.  MemoryBus says how threads move it.                     *)
(*                                                                         *)
(* An entry is its sequence number.                                        *)
(***************************************************************************)
EXTENDS Naturals, FiniteSets, Sequences

CONSTANTS
    Groups,          \* consumer groups
    Threads,         \* consuming threads
    GroupOf,         \* GroupOf[t]: the group thread t consumes for
    MaxMsgs,         \* bound on the number of messages produced
    PelCap           \* MEMORY_BUS_PEL_CAP

ASSUME MemoryTopicAssumption ==
    /\ GroupOf \in [Threads -> Groups]
    /\ MaxMsgs \in Nat
    /\ PelCap \in Nat

Ids == 1 .. MaxMsgs

VARIABLES
    seq,       \* _seq
    queue,     \* _streams[topic]: what is left of the stream, oldest first
    cursors,   \* _cursors[topic]: defined for the groups it has a key for
    pel,       \* _pel[topic][g]: {[id, at]}, the pending ids and their places in the dict
    evicted,   \* ids the cap has evicted from g's pending list
    pc,        \* pc[t]: "idle", "claimed" (between the two locks), "work", "flush"
    batch,     \* batch[t]: <<id, delivery count>> pairs handed to the thread
    handed,    \* history: handed[g], ids ever handed to group g
    outcome,   \* history: outcome[g], ids handled or dead-lettered in group g
    batchOf    \* history: batchOf[g][i], the consume() call that handed i to g

\* cursors.get(g, 0)
Cursor(g) == IF g \in DOMAIN cursors THEN cursors[g] ELSE 0

\* The ids pending in group g.
PelIds(g) == {x.id : x \in pel[g]}

\* The ids in the hands of thread t.
BatchIds(t) == {e[1] : e \in batch[t]}

\* Some thread of the group has entry i between the two locks of consume().
InTransit(g, i) ==
    \E t \in Threads : GroupOf[t] = g /\ pc[t] = "claimed" /\ i \in BatchIds(t)

\* The entry is still to come for the group.
Ahead(g, i) == \E k \in (Cursor(g) + 1) .. Len(queue) : queue[k] = i

\* The pending list is over its cap only with the entries of a single consume()
\* call: everything older has been evicted.
OverCapIsOneBatch ==
    \A g \in Groups :
        Cardinality(pel[g]) > PelCap =>
            \A i, k \in PelIds(g) : batchOf[g][i] = batchOf[g][k]

\* Where entry i is on its way through group g.
StatusOf(g, i) ==
    CASE i > seq -> "absent"
      [] i <= seq /\ i \notin handed[g] /\ Ahead(g, i) -> "queued"
      [] i <= seq /\ i \notin handed[g] /\ ~Ahead(g, i) -> "lost"
      [] i \in handed[g] /\ (i \in PelIds(g) \/ InTransit(g, i)) -> "pending"
      [] i \in handed[g] /\ i \notin PelIds(g) /\ ~InTransit(g, i) -> "done"

TopicStatus == [g \in Groups |-> [i \in Ids |-> StatusOf(g, i)]]

Topic ==
    INSTANCE DeliveryContract WITH
        Members <- Groups,
        Messages <- Ids,
        status <- TopicStatus,
        outcome <- [g \in Groups |-> outcome[g] \cup evicted[g]]

\* The in-memory bus keeps the contract of the Redis bus with a topic's one group,
\* an entry evicted by the cap counting as given up: in particular the trims of
\* another thread between the two locks of consume() lose nothing.
TopicKeepsContract == Topic!Spec
=============================================================================
