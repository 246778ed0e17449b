------------------------------ MODULE MemoryBus ------------------------------
(***************************************************************************)
(* One topic of the process-local bus: services/shared/bus.py, _MemoryBus, *)
(* with the threads that consume from it.                                  *)
(*                                                                         *)
(* The lock scopes are the atomic steps.  consume() is two of them: the    *)
(* cursor moves under _seq_lock, the pending list is filled under          *)
(* _pel_lock, and other threads run in between.  trim_acked holds          *)
(* _seq_lock throughout and is one step.  An entry is its sequence number. *)
(***************************************************************************)
EXTENDS MemoryTopic, FiniteSetsExt

CONSTANT MaxRedeliveries  \* max_redeliveries of the runner

ASSUME MemoryBusAssumption == MaxRedeliveries \in Nat

VARIABLES
    counts,    \* the delivery count stored with each pending id
    acks       \* acks[t]: pending_acks of the pass

busVars == <<seq, queue, cursors, pel, counts, evicted>>
threadVars == <<pc, batch, acks>>
historyVars == <<handed, outcome, batchOf>>
vars == <<busVars, threadVars, historyVars>>

\* _tail(q, n): the ids from index n on.
TailFrom(n) == {queue[k] : k \in (n + 1) .. Len(queue)}

Init ==
    /\ seq = 0
    /\ queue = << >>
    /\ cursors = << >>
    /\ pel = [g \in Groups |-> {}]
    /\ counts = [g \in Groups |-> [i \in Ids |-> 0]]
    /\ evicted = [g \in Groups |-> {}]
    /\ pc = [t \in Threads |-> "idle"]
    /\ batch = [t \in Threads |-> {}]
    /\ acks = [t \in Threads |-> {}]
    /\ handed = [g \in Groups |-> {}]
    /\ outcome = [g \in Groups |-> {}]
    /\ batchOf = [g \in Groups |-> [i \in Ids |-> 0]]

-----------------------------------------------------------------------------

Produce ==
    /\ seq < MaxMsgs
    /\ seq' = seq + 1
    /\ queue' = Append(queue, seq + 1)
    /\ UNCHANGED <<cursors, pel, counts, evicted, threadVars, historyVars>>

\* consume(), under _seq_lock: the batch is the tail, the cursor goes to the end.
ConsumeClaim(t) ==
    LET g == GroupOf[t]
        new == TailFrom(Cursor(g))
    IN
    /\ pc[t] = "idle"
    /\ Cursor(g) < Len(queue)
    /\ batch' = [batch EXCEPT ![t] = new \X {1}]
    /\ cursors' = [h \in DOMAIN cursors \cup {g} |->
                      IF h = g THEN Len(queue) ELSE cursors[h]]
    /\ pc' = [pc EXCEPT ![t] = "claimed"]
    /\ handed' = [handed EXCEPT ![g] = @ \cup new]
    /\ batchOf' = [batchOf EXCEPT ![g] =
                      [i \in Ids |-> IF i \in new THEN seq ELSE @[i]]]
    /\ UNCHANGED <<seq, queue, pel, counts, evicted, acks, outcome>>

\* The batch enters the dict behind what is there, in the order of its ids.
Filled(p, mine) ==
    LET top == Max({0} \cup {x.at : x \in p})
    IN  p \cup {[id |-> i, at |-> top + Cardinality({k \in mine : k <= i})] : i \in mine}

\* Faulty variant: one entry too few is evicted.
EvictCount_OffByOne(p) == IF Cardinality(p) > PelCap + 1 THEN Cardinality(p) - PelCap - 1 ELSE 0

\* The entries of the pending list p beyond the cap.
EvictCount(p) == IF Cardinality(p) > PelCap THEN Cardinality(p) - PelCap ELSE 0

\* Evict from the front, never an id of the batch, until the cap is met or only
\* the batch is left.
Evictees(p, mine) ==
    LET others == {x \in p : x.id \notin mine}
    IN  {x \in others : Cardinality({y \in others : y.at <= x.at}) <= EvictCount(p)}

\* consume(), under _pel_lock: enter the batch with count 1, then apply the cap.
ConsumePend(t) ==
    LET g == GroupOf[t]
        filled == Filled(pel[g], BatchIds(t))
        gone == Evictees(filled, BatchIds(t))
    IN
    /\ pc[t] = "claimed"
    /\ pel' = [pel EXCEPT ![g] = filled \ gone]
    /\ counts' = [counts EXCEPT ![g] =
                     [i \in Ids |-> IF i \in BatchIds(t) THEN 1 ELSE @[i]]]
    /\ evicted' = [evicted EXCEPT ![g] = @ \cup {x.id : x \in gone}]
    /\ pc' = [pc EXCEPT ![t] = "work"]
    /\ UNCHANGED <<seq, queue, cursors, batch, acks, historyVars>>

\* claim_pending(): the pending ids S that have been idle long enough, possibly
\* ones another thread still works on, are handed out again, their counts bumped.
ClaimPending(t, S) ==
    LET g == GroupOf[t] IN
    /\ pc[t] = "idle"
    /\ S # {}
    /\ S \subseteq PelIds(g)
    /\ counts' = [counts EXCEPT ![g] =
                     [i \in Ids |-> IF i \in S THEN @[i] + 1 ELSE @[i]]]
    /\ batch' = [batch EXCEPT ![t] = {<<i, counts[g][i] + 1>> : i \in S}]
    /\ pc' = [pc EXCEPT ![t] = "work"]
    /\ UNCHANGED <<seq, queue, cursors, pel, evicted, acks, historyVars>>

\* Faulty variant: failed messages are acked too.
Process_AcksAll(t, ok) ==
    LET g == GroupOf[t] IN
    /\ pc[t] = "work"
    /\ ok \subseteq BatchIds(t)
    /\ outcome' = [outcome EXCEPT ![g] = @ \cup ok]
    /\ acks' = [acks EXCEPT ![t] = BatchIds(t)]
    /\ batch' = [batch EXCEPT ![t] = {}]
    /\ pc' = [pc EXCEPT ![t] = "flush"]
    /\ UNCHANGED <<busVars, handed, batchOf>>

\* The runner's pass over the batch: ids over the redelivery cap are
\* dead-lettered, of the others ok are handled; both are to be acked.  The rest
\* failed or, at shutdown, were never reached.
Process(t, ok) ==
    LET g == GroupOf[t]
        exhausted == {e[1] : e \in {p \in batch[t] : p[2] > MaxRedeliveries}}
        done == ok \cup exhausted
    IN
    /\ pc[t] = "work"
    /\ ok \subseteq BatchIds(t) \ exhausted
    /\ outcome' = [outcome EXCEPT ![g] = @ \cup done]
    /\ acks' = [acks EXCEPT ![t] = done]
    /\ batch' = [batch EXCEPT ![t] = {}]
    /\ pc' = [pc EXCEPT ![t] = "flush"]
    /\ UNCHANGED <<busVars, handed, batchOf>>

\* ack_batch(): ids that are no longer pending are ignored.
AckBatch(t) ==
    LET g == GroupOf[t] IN
    /\ pc[t] = "flush"
    /\ pel' = [pel EXCEPT ![g] = {x \in @ : x.id \notin acks[t]}]
    /\ acks' = [acks EXCEPT ![t] = {}]
    /\ pc' = [pc EXCEPT ![t] = "idle"]
    /\ UNCHANGED <<seq, queue, cursors, counts, evicted, batch, historyVars>>

-----------------------------------------------------------------------------
(* trim_acked.                                                             *)

\* The first n entries are read and acked by group g.
AckedPrefix(g, n) ==
    /\ n <= cursors[g]
    /\ \A k \in 1 .. n : queue[k] \notin PelIds(g)

\* The longest such prefix over every group that has a cursor.
TrimCount ==
    CHOOSE n \in 0 .. Len(queue) :
        /\ \A g \in DOMAIN cursors : AckedPrefix(g, n)
        /\ \A m \in (n + 1) .. Len(queue) : \E g \in DOMAIN cursors : ~AckedPrefix(g, m)

\* Cursors move down with the stream; one that reaches 0 is deleted.
TrimAcked ==
    LET kept == {g \in DOMAIN cursors : cursors[g] > TrimCount} IN
    /\ DOMAIN cursors # {}
    /\ TrimCount > 0
    /\ queue' = SubSeq(queue, TrimCount + 1, Len(queue))
    /\ cursors' = [g \in kept |-> cursors[g] - TrimCount]
    /\ UNCHANGED <<seq, pel, counts, evicted, threadVars, historyVars>>

-----------------------------------------------------------------------------

Consumer(t) ==
    \/ ConsumeClaim(t)
    \/ ConsumePend(t)
    \/ \E S \in SUBSET Ids : ClaimPending(t, S)
    \/ \E ok \in SUBSET Ids : Process(t, ok)
    \/ AckBatch(t)

Next ==
    \/ Produce
    \/ TrimAcked
    \/ \E t \in Threads : Consumer(t)

Spec == Init /\ [][Next]_vars

-----------------------------------------------------------------------------
(* Properties.                                                             *)

TypeOK ==
    /\ seq \in 0 .. MaxMsgs
    /\ queue \in Seq(1 .. seq)
    /\ DOMAIN cursors \subseteq Groups
    /\ \A g \in DOMAIN cursors : cursors[g] \in 1 .. Len(queue)
    /\ \A g \in Groups : pel[g] \subseteq [id : Ids, at : Nat]
    /\ counts \in [Groups -> [Ids -> Nat]]
    /\ evicted \in [Groups -> SUBSET Ids]
    /\ pc \in [Threads -> {"idle", "claimed", "work", "flush"}]
    /\ batch \in [Threads -> SUBSET (Ids \X Nat)]
    /\ acks \in [Threads -> SUBSET Ids]
    /\ handed \in [Groups -> SUBSET (1 .. seq)]
    /\ outcome \in [Groups -> SUBSET (1 .. seq)]
=============================================================================
