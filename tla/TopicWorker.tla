----------------------------- MODULE TopicWorker -----------------------------
(***************************************************************************)
(* The consume loop of services/shared/runner.py for one topic, on the     *)
(* Redis bus: _topic_worker with a plain (one message at a time) handler.  *)
(*                                                                         *)
(* A worker alternates two passes for ever.  The claim pass reclaims idle  *)
(* pending entries; the consume pass reads new ones.  In either pass the   *)
(* messages are yielded in id order, each is dead-lettered, handled or     *)
(* left for redelivery, and the acks are deferred to one ack_batch at the  *)
(* end of the pass.  Any number of workers, in one service (topic_workers) *)
(* or in several, share a group.                                           *)
(***************************************************************************)
EXTENDS Delivery

VARIABLES
    pc,       \* pc[w]: "claim", "consume" (about to read) or "work" (in a pass)
    pass,     \* pass[w]: the pass being worked on, "claim" or "consume"
    inbox,    \* inbox[w]: entries of the pass the generator has yet to yield
    cur,      \* cur[w]: the message in the handler's hands, 0 if none
    count,    \* count[w]: delivery_count passed along with cur[w]
    acks      \* acks[w]: pending_acks of the pass

workerVars == <<pc, pass, inbox, cur, count, acks>>
vars == <<busVars, workerVars, outcomeVars>>

Init ==
    /\ BusInit
    /\ OutcomeInit
    /\ pc = [w \in Workers |-> "claim"]
    /\ pass = [w \in Workers |-> "claim"]
    /\ inbox = [w \in Workers |-> {}]
    /\ cur = [w \in Workers |-> 0]
    /\ count = [w \in Workers |-> 0]
    /\ acks = [w \in Workers |-> {}]

-----------------------------------------------------------------------------
(* Starting a pass.                                                        *)

\* The pass that follows the one worker w is in.
NextPass(w) == IF pass[w] = "claim" THEN "consume" ELSE "claim"

\* claim_pending and consume both call _ensure_group first.
Register(w) ==
    /\ pc[w] \in {"claim", "consume"}
    /\ EnsureGroup(GroupOf[w])
    /\ UNCHANGED <<workerVars, outcomeVars>>

\* claim_pending: any set S of pending entries may have been idle long enough,
\* those another worker is still busy with included.
ClaimPending(w, S) ==
    /\ pc[w] = "claim"
    /\ S # {}
    /\ AutoClaim(GroupOf[w], S)
    /\ pc' = [pc EXCEPT ![w] = "work"]
    /\ pass' = [pass EXCEPT ![w] = "claim"]
    /\ inbox' = [inbox EXCEPT ![w] = S \cap stream]
    /\ UNCHANGED <<faults, cur, count, acks, outcomeVars>>

\* Nothing idle: claim_pending yields nothing.
ClaimNothing(w) ==
    /\ pc[w] = "claim"
    /\ GroupOf[w] \in groups
    /\ pc' = [pc EXCEPT ![w] = "consume"]
    /\ UNCHANGED <<busVars, pass, inbox, cur, count, acks, outcomeVars>>

\* consume: XREADGROUP of the entries up to n.
Consume(w, n) ==
    /\ pc[w] = "consume"
    /\ ReadGroup(GroupOf[w], n)
    /\ pc' = [pc EXCEPT ![w] = "work"]
    /\ pass' = [pass EXCEPT ![w] = "consume"]
    /\ inbox' = [inbox EXCEPT ![w] = Unread(GroupOf[w], n)]
    /\ UNCHANGED <<faults, cur, count, acks, outcomeVars>>

\* Faulty variant: every read times out before its answer.
ConsumeNothing_Always(w) ==
    /\ pc[w] = "consume"
    /\ GroupOf[w] \in groups
    /\ pc' = [pc EXCEPT ![w] = "claim"]
    /\ UNCHANGED <<busVars, pass, inbox, cur, count, acks, outcomeVars>>

\* The block expired with nothing to read.
ConsumeNothing(w) ==
    /\ pc[w] = "consume"
    /\ GroupOf[w] \in groups
    /\ Unread(GroupOf[w], last) = {}
    /\ pc' = [pc EXCEPT ![w] = "claim"]
    /\ UNCHANGED <<busVars, pass, inbox, cur, count, acks, outcomeVars>>

-----------------------------------------------------------------------------
(* Working through a pass.                                                 *)

Yielded(w, i) ==
    /\ pc[w] = "work"
    /\ cur[w] = 0
    /\ i \in inbox[w]
    /\ \A k \in inbox[w] : i <= k
    /\ inbox' = [inbox EXCEPT ![w] = @ \ {i}]

\* _decode_entry succeeded: the message goes to _process_message together with
\* its delivery count, 1 in a consume pass, read from XPENDING in a claim pass.
Yield(w, i) ==
    /\ Yielded(w, i)
    /\ i \notin Corrupt
    /\ cur' = [cur EXCEPT ![w] = i]
    /\ count' = [count EXCEPT ![w] =
                    IF pass[w] = "consume" THEN 1 ELSE TimesDelivered(GroupOf[w], i)]
    /\ UNCHANGED <<busVars, pc, pass, acks, outcomeVars>>

\* _decode_entry failed: the generator quarantines the entry and goes on.
Quarantine(w, i, wrote, acked) ==
    /\ Yielded(w, i)
    /\ QuarantineEntry(GroupOf[w], i, wrote, acked)
    /\ UNCHANGED <<pc, pass, cur, count, acks>>

Done(w) ==
    /\ cur' = [cur EXCEPT ![w] = 0]
    /\ count' = [count EXCEPT ![w] = 0]

\* _process_message, cap reached: copy to <topic>.deadletter, then ack.
DeadLetter(w) ==
    /\ cur[w] # 0
    /\ count[w] > MaxRedeliveries
    /\ dead' = [dead EXCEPT ![GroupOf[w]] = @ \cup {cur[w]}]
    /\ acks' = [acks EXCEPT ![w] = @ \cup {cur[w]}]
    /\ Done(w)
    /\ UNCHANGED <<busVars, pc, pass, inbox, handled, dropped, runs>>

\* Faulty variant: one run too many.
HandlerRuns_OffByOne(w) ==
    /\ cur[w] # 0
    /\ count[w] <= MaxRedeliveries + 1
    /\ runs' = [runs EXCEPT ![GroupOf[w]][cur[w]] = @ + 1]

HandlerRuns(w) ==
    /\ cur[w] # 0
    /\ count[w] <= MaxRedeliveries
    /\ runs' = [runs EXCEPT ![GroupOf[w]][cur[w]] = @ + 1]

\* The handler returned: the ack is deferred to the end of the pass.
HandleOk(w) ==
    /\ HandlerRuns(w)
    /\ handled' = [handled EXCEPT ![GroupOf[w]] = @ \cup {cur[w]}]
    /\ acks' = [acks EXCEPT ![w] = @ \cup {cur[w]}]
    /\ Done(w)
    /\ UNCHANGED <<busVars, pc, pass, inbox, dead, dropped>>

\* Faulty variant: a failed message is acked.
HandleFail_Acks(w) ==
    /\ HandlerRuns(w)
    /\ acks' = [acks EXCEPT ![w] = @ \cup {cur[w]}]
    /\ Done(w)
    /\ UNCHANGED <<busVars, pc, pass, inbox, handled, dead, dropped>>

\* The handler raised: no ack, the entry stays pending for redelivery.
HandleFail(w) ==
    /\ HandlerRuns(w)
    /\ Done(w)
    /\ UNCHANGED <<busVars, pc, pass, inbox, acks, handled, dead, dropped>>

-----------------------------------------------------------------------------
(* Ending a pass.                                                          *)

EndPass(w) ==
    /\ pc' = [pc EXCEPT ![w] = NextPass(w)]
    /\ inbox' = [inbox EXCEPT ![w] = {}]
    /\ acks' = [acks EXCEPT ![w] = {}]
    /\ Done(w)
    /\ UNCHANGED pass

\* ack_batch: one pipeline with every deferred ack of the pass.
Flush(w) ==
    /\ pc[w] = "work"
    /\ cur[w] = 0
    /\ inbox[w] = {}
    /\ XAck(GroupOf[w], acks[w])
    /\ EndPass(w)
    /\ UNCHANGED <<faults, outcomeVars>>

\* shutdown seen between two messages: leave the rest of the pass in the
\* pending list; the acks gathered so far are flushed.
Break(w) ==
    /\ pc[w] = "work"
    /\ cur[w] = 0
    /\ inbox[w] # {}
    /\ inbox' = [inbox EXCEPT ![w] = {}]
    /\ Fault
    /\ UNCHANGED <<streamVars, reaperVars, pc, pass, cur, count, acks, outcomeVars>>

\* A bus call of the pass raised: the deferred acks are forgotten with the
\* pass, after the part A of them that had already reached the server.
BusError(w, A) ==
    /\ pc[w] = "work"
    /\ cur[w] = 0
    /\ A \subseteq acks[w]
    /\ A # {} => inbox[w] = {}
    /\ XAck(GroupOf[w], A)
    /\ Fault
    /\ EndPass(w)
    /\ UNCHANGED outcomeVars

\* The server answered XREADGROUP, the client never saw it: a socket timeout that
\* counts as an empty read, or a connection error.  The entries are pending.
ReadLost(w, n) ==
    /\ pc[w] = "consume"
    /\ ReadGroup(GroupOf[w], n)
    /\ Fault
    /\ pc' = [pc EXCEPT ![w] = "claim"]
    /\ UNCHANGED <<pass, inbox, cur, count, acks, outcomeVars>>

\* The same with XAUTOCLAIM: the delivery counters have been bumped.
ClaimLost(w, S) ==
    /\ pc[w] = "claim"
    /\ S # {}
    /\ AutoClaim(GroupOf[w], S)
    /\ Fault
    /\ pc' = [pc EXCEPT ![w] = "consume"]
    /\ UNCHANGED <<pass, inbox, cur, count, acks, outcomeVars>>

\* produce() to the dead-letter topic raised; the copy may have been written.
DeadLetterError(w, wrote) ==
    /\ cur[w] # 0
    /\ count[w] > MaxRedeliveries
    /\ dead' = [dead EXCEPT ![GroupOf[w]] = IF wrote THEN @ \cup {cur[w]} ELSE @]
    /\ Fault
    /\ EndPass(w)
    /\ UNCHANGED <<streamVars, reaperVars, handled, dropped, runs>>

\* The process dies and is restarted: everything the worker held is gone, the
\* group's pending list is not.
Crash(w) ==
    /\ pc[w] = "work"
    /\ Fault
    /\ pc' = [pc EXCEPT ![w] = "claim"]
    /\ pass' = [pass EXCEPT ![w] = "claim"]
    /\ inbox' = [inbox EXCEPT ![w] = {}]
    /\ acks' = [acks EXCEPT ![w] = {}]
    /\ Done(w)
    /\ UNCHANGED <<streamVars, reaperVars, outcomeVars>>

-----------------------------------------------------------------------------

Work(w) ==
    \/ \E i \in Ids : Yield(w, i)
    \/ \E i \in Ids, wrote, acked \in BOOLEAN : Quarantine(w, i, wrote, acked)
    \/ DeadLetter(w)
    \/ HandleOk(w)
    \/ HandleFail(w)
    \/ Flush(w)

Worker(w) ==
    \/ Register(w)
    \/ \E S \in SUBSET Ids : ClaimPending(w, S)
    \/ ClaimNothing(w)
    \/ \E n \in Ids : Consume(w, n)
    \/ ConsumeNothing(w)
    \/ Work(w)

Faulty(w) ==
    \/ Break(w)
    \/ \E n \in Ids : ReadLost(w, n)
    \/ \E S \in SUBSET Ids : ClaimLost(w, S)
    \/ \E A \in SUBSET Ids : BusError(w, A)
    \/ \E wrote \in BOOLEAN : DeadLetterError(w, wrote)
    \/ Crash(w)

Next ==
    \/ Produce /\ UNCHANGED <<workerVars, outcomeVars>>
    \/ Reaper /\ UNCHANGED <<workerVars, outcomeVars>>
    \/ \E w \in Workers : Worker(w) \/ Faulty(w)

Spec == Init /\ [][Next]_vars

(***************************************************************************)
(* Fairness.  serve() loops over its workers until shutdown, a handler     *)
(* returns or raises, and the faults are bounded: every worker keeps       *)
(* taking steps.  An entry nobody acks stays idle past claim_idle_ms, so   *)
(* a worker that keeps polling eventually claims it.  The reaper is a loop *)
(* of its own.                                                             *)
(***************************************************************************)
ClaimsEntry(w, i) == \E S \in SUBSET Ids : i \in S /\ ClaimPending(w, S)

FairSpec ==
    /\ Spec
    /\ \A w \in Workers :
          /\ WF_vars(Worker(w))
          /\ \A i \in Ids : SF_vars(ClaimsEntry(w, i))
    /\ WF_vars(Reaper /\ UNCHANGED <<workerVars, outcomeVars>>)

-----------------------------------------------------------------------------
(* Properties.                                                             *)

TypeOK ==
    /\ BusTypeOK
    /\ pc \in [Workers -> {"claim", "consume", "work"}]
    /\ pass \in [Workers -> {"claim", "consume"}]
    /\ inbox \in [Workers -> SUBSET Ids]
    /\ cur \in [Workers -> 0 .. MaxMsgs]
    /\ count \in [Workers -> Nat]
    /\ acks \in [Workers -> SUBSET Ids]
    /\ OutcomeTypeOK

\* The redelivery cap: while a message is pending its handler has been run at
\* most max_redeliveries times, however many workers have claimed it.
RunsCapped ==
    \A g \in Groups : \A i \in pel[g] : runs[g][i] <= MaxRedeliveries

\* A message is acked only after its outcome is known: what waits in a worker's
\* pending_acks has an outcome in the worker's group.
AcksAreEarned ==
    \A w \in Workers : acks[w] \subseteq Outcome(GroupOf[w])

\* The inductive invariant that proves NothingLost: the reaper's half-computed
\* boundary and the workers' deferred acks are the two places where an entry
\* could be given up too early.
SafeInv ==
    /\ TypeOK
    /\ StillRegistered
    /\ PendingWasDelivered
    /\ AcksAreEarned
    /\ TrimBoundSafe
    /\ NothingLost

\* The reaper keeps up: an entry every group is finished with leaves the stream
\* (the one at a group's last-delivered-id included).
FinishedIsTrimmed ==
    \A i \in Ids :
        (i <= last /\ \A g \in Groups : Settled(g, i)) ~> (i \notin stream)

=============================================================================
