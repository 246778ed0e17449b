----------------------------- MODULE BatchWorker -----------------------------
(***************************************************************************)
(* The consume loop of services/shared/runner.py for a handler that        *)
(* exposes handle_batch (the WS-3 indexer): _topic_worker with             *)
(* batched = True, _process_batch and _flush_gathered.                     *)
(*                                                                         *)
(* The messages of a pass are gathered and handed over together, batch_max *)
(* at a time and the remainder at the end; acks are deferred to the end of *)
(* the pass.  After a bus error the loop runs _flush_gathered, which       *)
(* processes the gathered list once more and acks best effort.             *)
(***************************************************************************)
EXTENDS Delivery

CONSTANT BatchMax   \* batch_max of the handler

\* Creating the group is TopicWorker's Register: here it exists from the start.
ASSUME BatchWorkerAssumption ==
    /\ BatchMax \in Nat \ {0}
    /\ InitialGroups = Groups

VARIABLES
    pc,       \* "claim", "consume", "gather", "flush", "rescue" or "rescueFlush"
    pass,     \* the pass being worked on
    inbox,    \* entries of the pass the generator has yet to yield
    batch,    \* batch_entries: gathered <<id, delivery count>> pairs
    acks      \* pending_acks of the pass

workerVars == <<pc, pass, inbox, batch, acks>>
vars == <<busVars, workerVars, outcomeVars>>

Init ==
    /\ BusInit
    /\ OutcomeInit
    /\ pc = [w \in Workers |-> "claim"]
    /\ pass = [w \in Workers |-> "claim"]
    /\ inbox = [w \in Workers |-> {}]
    /\ batch = [w \in Workers |-> {}]
    /\ acks = [w \in Workers |-> {}]

GoTo(w, label) == pc' = [pc EXCEPT ![w] = label]

NextPass(w) == IF pass[w] = "claim" THEN "consume" ELSE "claim"

-----------------------------------------------------------------------------
(* Reading, as in the plain loop.                                          *)

StartPass(w, p, entries) ==
    /\ GoTo(w, "gather")
    /\ pass' = [pass EXCEPT ![w] = p]
    /\ inbox' = [inbox EXCEPT ![w] = entries]
    /\ UNCHANGED <<faults, batch, acks, outcomeVars>>

ClaimPending(w, S) ==
    /\ pc[w] = "claim"
    /\ S # {}
    /\ AutoClaim(GroupOf[w], S)
    /\ StartPass(w, "claim", S \cap stream)

Consume(w, n) ==
    /\ pc[w] = "consume"
    /\ ReadGroup(GroupOf[w], n)
    /\ StartPass(w, "consume", Unread(GroupOf[w], n))

EmptyRead(w) ==
    /\ GroupOf[w] \in groups
    /\ \/ pc[w] = "claim" /\ GoTo(w, "consume")
       \/ pc[w] = "consume" /\ Unread(GroupOf[w], last) = {} /\ GoTo(w, "claim")
    /\ UNCHANGED <<busVars, pass, inbox, batch, acks, outcomeVars>>

-----------------------------------------------------------------------------
(* Gathering and processing.                                               *)

Yielded(w, i) ==
    /\ pc[w] = "gather"
    /\ Cardinality(batch[w]) < BatchMax
    /\ i \in inbox[w]
    /\ \A k \in inbox[w] : i <= k
    /\ inbox' = [inbox EXCEPT ![w] = @ \ {i}]

Gather(w, i) ==
    /\ Yielded(w, i)
    /\ i \notin Corrupt
    /\ LET delivery == IF pass[w] = "consume" THEN 1 ELSE TimesDelivered(GroupOf[w], i)
       IN  batch' = [batch EXCEPT ![w] = @ \cup {<<i, delivery>>}]
    /\ UNCHANGED <<busVars, pc, pass, acks, outcomeVars>>

Quarantine(w, i, wrote, acked) ==
    /\ Yielded(w, i)
    /\ QuarantineEntry(GroupOf[w], i, wrote, acked)
    /\ UNCHANGED <<pc, pass, batch, acks>>

Exhausted(w) == {e[1] : e \in {p \in batch[w] : p[2] > MaxRedeliveries}}
Live(w)      == {e[1] : e \in batch[w]} \ Exhausted(w)

\* Faulty variant: every message is acked, whatever its result.
ProcessBatch_AcksAll(w, ok) ==
    LET g == GroupOf[w] IN
    /\ batch[w] # {}
    /\ ok \subseteq Live(w)
    /\ dead' = [dead EXCEPT ![g] = @ \cup Exhausted(w)]
    /\ handled' = [handled EXCEPT ![g] = @ \cup ok]
    /\ runs' = [runs EXCEPT ![g] =
                   [i \in Ids |-> IF i \in Live(w) THEN @[i] + 1 ELSE @[i]]]
    /\ acks' = [acks EXCEPT ![w] = @ \cup Exhausted(w) \cup Live(w)]
    /\ UNCHANGED dropped

\* _process_batch: dead-letter the exhausted messages and hand the others to
\* handle_batch; ok are those whose result is None (none of them if handle_batch
\* itself raised).
ProcessBatch(w, ok) ==
    LET g == GroupOf[w] IN
    /\ batch[w] # {}
    /\ ok \subseteq Live(w)
    /\ dead' = [dead EXCEPT ![g] = @ \cup Exhausted(w)]
    /\ handled' = [handled EXCEPT ![g] = @ \cup ok]
    /\ runs' = [runs EXCEPT ![g] =
                   [i \in Ids |-> IF i \in Live(w) THEN @[i] + 1 ELSE @[i]]]
    /\ acks' = [acks EXCEPT ![w] = @ \cup Exhausted(w) \cup ok]
    /\ UNCHANGED dropped

\* A produce() to the dead-letter topic raised inside _process_batch, after the
\* exhausted messages X had been copied; handle_batch was not reached.
DeadLetterPart(w, X) ==
    /\ Exhausted(w) # {}
    /\ X \subseteq Exhausted(w)
    /\ dead' = [dead EXCEPT ![GroupOf[w]] = @ \cup X]
    /\ UNCHANGED <<handled, dropped, runs>>

\* batch_max reached inside the loop: process, then batch_entries = [].
ProcessFull(w, ok) ==
    /\ pc[w] = "gather"
    /\ Cardinality(batch[w]) = BatchMax
    /\ ProcessBatch(w, ok)
    /\ batch' = [batch EXCEPT ![w] = {}]
    /\ UNCHANGED <<busVars, pc, pass, inbox>>

\* The generator is exhausted: process what is left.  batch_entries keeps it.
ProcessRest(w, ok) ==
    /\ pc[w] = "gather"
    /\ inbox[w] = {}
    /\ Cardinality(batch[w]) < BatchMax
    /\ ProcessBatch(w, ok)
    /\ GoTo(w, "flush")
    /\ UNCHANGED <<busVars, pass, inbox, batch>>

\* Nothing (left) to process: on to the deferred acks.
NothingLeft(w) ==
    /\ pc[w] = "gather"
    /\ inbox[w] = {}
    /\ batch[w] = {}
    /\ GoTo(w, "flush")
    /\ UNCHANGED <<busVars, pass, inbox, batch, acks, outcomeVars>>

\* The next pass starts with empty lists.
EndPass(w) ==
    /\ GoTo(w, NextPass(w))
    /\ inbox' = [inbox EXCEPT ![w] = {}]
    /\ batch' = [batch EXCEPT ![w] = {}]
    /\ acks' = [acks EXCEPT ![w] = {}]
    /\ UNCHANGED pass

\* ack_batch at the end of the pass, or at the end of _flush_gathered.
Flush(w) ==
    /\ pc[w] \in {"flush", "rescueFlush"}
    /\ XAck(GroupOf[w], acks[w])
    /\ EndPass(w)
    /\ UNCHANGED <<faults, outcomeVars>>

\* _flush_gathered: process the gathered messages (again), then ack.
Rescue(w, ok) ==
    /\ pc[w] = "rescue"
    /\ ProcessBatch(w, ok)
    /\ GoTo(w, "rescueFlush")
    /\ UNCHANGED <<busVars, pass, inbox, batch>>

-----------------------------------------------------------------------------
(* Faults.                                                                 *)

\* The except branch, with the deferred acks kept so far: with gathered messages
\* _flush_gathered runs, without any it returns at once and the pass is over.
Except(w, kept) ==
    IF batch[w] = {}
    THEN EndPass(w)
    ELSE /\ GoTo(w, "rescue")
         /\ inbox' = [inbox EXCEPT ![w] = {}]
         /\ acks' = [acks EXCEPT ![w] = kept]
         /\ UNCHANGED <<pass, batch>>

\* XREADGROUP or XAUTOCLAIM was carried out but its answer lost: nothing has been
\* gathered yet, the entries are pending.
ReadLost(w, n) ==
    /\ pc[w] = "consume"
    /\ ReadGroup(GroupOf[w], n)
    /\ Fault
    /\ GoTo(w, "claim")
    /\ UNCHANGED <<pass, inbox, batch, acks, outcomeVars>>

ClaimLost(w, S) ==
    /\ pc[w] = "claim"
    /\ S # {}
    /\ AutoClaim(GroupOf[w], S)
    /\ Fault
    /\ GoTo(w, "consume")
    /\ UNCHANGED <<pass, inbox, batch, acks, outcomeVars>>

\* The read generator raised between two messages.
ReadError(w) ==
    /\ pc[w] = "gather"
    /\ Fault
    /\ Except(w, acks[w])
    /\ UNCHANGED <<streamVars, reaperVars, outcomeVars>>

\* Dead-lettering raised: of the copies X, all but possibly the last were
\* followed by their deferred ack Y.  The gathered list is still complete.
ProcessError(w, X, Y) ==
    /\ pc[w] = "gather"
    /\ Cardinality(batch[w]) = BatchMax \/ inbox[w] = {}
    /\ DeadLetterPart(w, X)
    /\ Y \subseteq X /\ Y # Exhausted(w) /\ Cardinality(X \ Y) <= 1
    /\ Fault
    /\ Except(w, acks[w] \cup Y)
    /\ UNCHANGED <<streamVars, reaperVars>>

\* ack_batch raised after the part A of the pipeline had been applied.
FlushError(w, A) ==
    /\ pc[w] = "flush"
    /\ acks[w] # {}
    /\ A \subseteq acks[w]
    /\ XAck(GroupOf[w], A)
    /\ Fault
    /\ Except(w, acks[w])
    /\ UNCHANGED outcomeVars

\* An exception inside _flush_gathered, in dead-lettering or in the acks, is
\* printed and swallowed.
RescueError(w, X, A) ==
    /\ \/ /\ pc[w] = "rescue"
          /\ A = {}
          /\ DeadLetterPart(w, X)
       \/ /\ pc[w] = "rescueFlush"
          /\ A \subseteq acks[w]
          /\ X = {}
          /\ UNCHANGED outcomeVars
    /\ XAck(GroupOf[w], A)
    /\ Fault
    /\ EndPass(w)

\* shutdown seen between two messages: the rest of the pass is abandoned.
Break(w) ==
    /\ pc[w] = "gather"
    /\ inbox[w] # {}
    /\ inbox' = [inbox EXCEPT ![w] = {}]
    /\ Fault
    /\ UNCHANGED <<streamVars, reaperVars, pc, pass, batch, acks, outcomeVars>>

\* The process dies and is restarted.
Crash(w) ==
    /\ pc[w] \notin {"claim", "consume"}
    /\ Fault
    /\ GoTo(w, "claim")
    /\ pass' = [pass EXCEPT ![w] = "claim"]
    /\ inbox' = [inbox EXCEPT ![w] = {}]
    /\ batch' = [batch EXCEPT ![w] = {}]
    /\ acks' = [acks EXCEPT ![w] = {}]
    /\ UNCHANGED <<streamVars, reaperVars, outcomeVars>>

-----------------------------------------------------------------------------

Worker(w) ==
    \/ \E S \in SUBSET Ids : ClaimPending(w, S)
    \/ \E n \in Ids : Consume(w, n)
    \/ EmptyRead(w)
    \/ \E i \in Ids : Gather(w, i)
    \/ \E i \in Ids, wrote, acked \in BOOLEAN : Quarantine(w, i, wrote, acked)
    \/ \E ok \in SUBSET Ids : ProcessFull(w, ok) \/ ProcessRest(w, ok) \/ Rescue(w, ok)
    \/ NothingLeft(w)
    \/ Flush(w)

Faulty(w) ==
    \/ \E n \in Ids : ReadLost(w, n)
    \/ \E S \in SUBSET Ids : ClaimLost(w, S)
    \/ ReadError(w)
    \/ \E X, Y \in SUBSET Ids : ProcessError(w, X, Y)
    \/ \E A \in SUBSET Ids : FlushError(w, A)
    \/ \E X, A \in SUBSET Ids : RescueError(w, X, A)
    \/ Break(w)
    \/ Crash(w)

Next ==
    \/ Produce /\ UNCHANGED <<workerVars, outcomeVars>>
    \/ Reaper /\ UNCHANGED <<workerVars, outcomeVars>>
    \/ \E w \in Workers : Worker(w) \/ Faulty(w)

Spec == Init /\ [][Next]_vars

TypeOK ==
    /\ BusTypeOK
    /\ OutcomeTypeOK
    /\ pc \in [Workers -> {"claim", "consume", "gather", "flush", "rescue", "rescueFlush"}]
    /\ pass \in [Workers -> {"claim", "consume"}]
    /\ inbox \in [Workers -> SUBSET Ids]
    /\ batch \in [Workers -> SUBSET (Ids \X Nat)]
    /\ acks \in [Workers -> SUBSET Ids]

\* A message is acked only after its own outcome is known, even when the acks of
\* a failed pass are carried into _flush_gathered and processed a second time:
\* what waits in pending_acks has an outcome in the worker's group.
AcksAreEarned ==
    \A w \in Workers : acks[w] \subseteq Outcome(GroupOf[w])
=============================================================================
