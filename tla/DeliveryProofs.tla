--------------------------- MODULE DeliveryProofs ---------------------------
(***************************************************************************)
(* The two worker loops on the Redis bus.  TopicWorker keeps its types,    *)
(* loses nothing, implements the delivery contract and runs a handler at   *)
(* most max_redeliveries times; BatchWorker implements the same contract.  *)
(* Proofs for every number of groups, workers, messages, faults and        *)
(* redeliveries.                                                           *)
(***************************************************************************)
EXTENDS TopicWorker, FiniteSetTheorems, TLAPS

\* The batched loop, on the same bus; pc, pass, inbox and acks are its own when
\* a statement is about Batch.
CONSTANT BatchMax
VARIABLE batch

Batch == INSTANCE BatchWorker

USE RedisBusAssumption, DeliveryAssumption

-----------------------------------------------------------------------------
(* Each command of the bus keeps the bus's types.                          *)

\* An id the group has not been handed is an id, and no later than the last.
LEMMA UnreadType ==
    ASSUME BusTypeOK, NEW g \in Groups, NEW n
    PROVE  Unread(g, n) \subseteq stream /\ stream \subseteq Ids
  BY DEF Unread, BusTypeOK, Ids

\* XREADGROUP keeps the bus types.
LEMMA ReadGroupType ==
    ASSUME BusTypeOK, NEW g \in Groups, NEW n \in Ids, ReadGroup(g, n),
           UNCHANGED faults \/ Fault
    PROVE  BusTypeOK'
  <1> DEFINE R == Unread(g, n)
  <1>1. R \subseteq stream /\ stream \subseteq Ids /\ n \in R
    BY UnreadType DEF ReadGroup
  <1>2. delivered' \in [Groups -> 0 .. last']
    <2>1. n \in 0 .. last
      BY <1>1 DEF BusTypeOK
    <2>2. QED
      BY <2>1 DEF ReadGroup, BusTypeOK
  <1>3. pel' \in [Groups -> SUBSET Ids]
    <2>1. pel' = [pel EXCEPT ![g] = @ \cup R]
      BY DEF ReadGroup
    <2>2. QED
      BY <1>1, <2>1 DEF BusTypeOK
  <1>4. times' \in [Groups -> [Ids -> Nat]]
    <2>1. times' = [times EXCEPT ![g] = [i \in Ids |-> IF i \in R THEN 1 ELSE @[i]]]
      BY DEF ReadGroup
    <2>2. QED
      BY <2>1 DEF BusTypeOK
  <1>5. UNCHANGED <<last, stream, groups, rpc, rSeen, rLast, rBound>>
    BY DEF ReadGroup, reaperVars
  <1>6. faults' \in 0 .. MaxFaults
    BY DEF BusTypeOK, Fault
  <1>7. QED
    BY <1>2, <1>3, <1>4, <1>5, <1>6 DEF BusTypeOK

\* XAUTOCLAIM keeps the bus types.
LEMMA AutoClaimType ==
    ASSUME BusTypeOK, NEW g \in Groups, NEW S \in SUBSET Ids, AutoClaim(g, S),
           UNCHANGED faults \/ Fault
    PROVE  BusTypeOK'
  BY DEF AutoClaim, BusTypeOK, reaperVars, Fault

\* XACK keeps the bus types, with or without a fault.
LEMMA XAckType ==
    ASSUME BusTypeOK, NEW g \in Groups, NEW S, XAck(g, S), UNCHANGED faults \/ Fault
    PROVE  BusTypeOK'
  BY DEF XAck, BusTypeOK, reaperVars, Fault

\* A fault that touches neither the stream nor the reaper keeps the bus types.
LEMMA FaultType ==
    ASSUME BusTypeOK, Fault, UNCHANGED <<streamVars, reaperVars>>
    PROVE  BusTypeOK'
  BY DEF Fault, BusTypeOK, streamVars, reaperVars

\* XADD keeps the bus types.
LEMMA ProduceType ==
    ASSUME BusTypeOK, Produce
    PROVE  BusTypeOK'
  <1>1. last' \in 0 .. MaxMsgs /\ last' = last + 1
    BY DEF Produce, BusTypeOK
  <1>2. stream' \subseteq 1 .. last'
    BY <1>1 DEF Produce, BusTypeOK
  <1>3. delivered' \in [Groups -> 0 .. last'] /\ rLast' \in [Groups -> 0 .. last']
    BY <1>1 DEF Produce, BusTypeOK, reaperVars
  <1>4. QED
    BY <1>1, <1>2, <1>3 DEF Produce, BusTypeOK, reaperVars

\* Every step of trim_acked keeps the bus types.
LEMMA ReaperType ==
    ASSUME BusTypeOK, Reaper
    PROVE  BusTypeOK'
  <1>1. CASE TrimSnapshot
    BY <1>1 DEF TrimSnapshot, BusTypeOK, streamVars
  <1>2. ASSUME NEW g \in Groups, NEW b \in 1 .. (MaxMsgs + 1), TrimExamine(g, b)
        PROVE  BusTypeOK'
    BY <1>2 DEF TrimExamine, BusTypeOK, LowerBoundary, streamVars
  <1>3. CASE TrimGiveUp
    BY <1>3 DEF TrimGiveUp, BusTypeOK, streamVars, Fault
  <1>4. CASE TrimApply
    <2>1. stream' \subseteq 1 .. last'
      BY <1>4 DEF TrimApply, BusTypeOK
    <2>2. rLast' \in [Groups -> 0 .. last'] /\ rBound' \in 0 .. (MaxMsgs + 1)
      BY <1>4 DEF TrimApply, BusTypeOK
    <2>3. QED
      BY <1>4, <2>1, <2>2 DEF TrimApply, BusTypeOK
  <1>5. QED
    BY <1>1, <1>2, <1>3, <1>4 DEF Reaper

-----------------------------------------------------------------------------
(* The type invariant.                                                     *)

WorkerTypeOK ==
    /\ pc \in [Workers -> {"claim", "consume", "work"}]
    /\ pass \in [Workers -> {"claim", "consume"}]
    /\ inbox \in [Workers -> SUBSET Ids]
    /\ cur \in [Workers -> 0 .. MaxMsgs]
    /\ count \in [Workers -> Nat]
    /\ acks \in [Workers -> SUBSET Ids]

\* TypeOK is the types of the bus, of the workers and of the outcomes.
LEMMA TypeParts == TypeOK <=> BusTypeOK /\ WorkerTypeOK /\ OutcomeTypeOK
  BY DEF TypeOK, WorkerTypeOK

\* The initial states are type correct.
LEMMA InitType == Init => TypeOK
  BY DEF Init, BusInit, OutcomeInit, TypeOK, BusTypeOK, OutcomeTypeOK, Ids

\* A message in a worker's hands is an id of the stream.
LEMMA CurIsId ==
    ASSUME WorkerTypeOK, NEW w \in Workers, cur[w] # 0
    PROVE  cur[w] \in Ids
  BY DEF WorkerTypeOK, Ids

\* Leaving a pass keeps the worker types.
LEMMA EndPassType ==
    ASSUME WorkerTypeOK, NEW w \in Workers, EndPass(w)
    PROVE  WorkerTypeOK'
  BY DEF WorkerTypeOK, EndPass, NextPass, Done

\* Every step of a worker keeps the types.
LEMMA WorkerType ==
    ASSUME TypeOK, NEW w \in Workers, Worker(w)
    PROVE  TypeOK'
  <1>g. GroupOf[w] \in Groups
    OBVIOUS
  <1>t. BusTypeOK /\ WorkerTypeOK /\ OutcomeTypeOK
    BY TypeParts
  <1>o. UNCHANGED outcomeVars => OutcomeTypeOK'
    BY <1>t DEF outcomeVars, OutcomeTypeOK
  <1>b. UNCHANGED busVars => BusTypeOK'
    BY <1>t DEF busVars, streamVars, reaperVars, BusTypeOK
  <1> SUFFICES BusTypeOK' /\ WorkerTypeOK' /\ OutcomeTypeOK'
    BY TypeParts, PTL
  <1>1. CASE Register(w)
    BY <1>1, <1>t, <1>o, <1>g
       DEF Register, EnsureGroup, BusTypeOK, WorkerTypeOK, workerVars, reaperVars
  <1>2. ASSUME NEW S \in SUBSET Ids, ClaimPending(w, S)
        PROVE  BusTypeOK' /\ WorkerTypeOK' /\ OutcomeTypeOK'
    <2>1. BusTypeOK'
      BY <1>2, <1>t, <1>g, AutoClaimType DEF ClaimPending
    <2>2. WorkerTypeOK'
      BY <1>2, <1>t DEF ClaimPending, WorkerTypeOK
    <2>3. QED
      BY <1>2, <2>1, <2>2, <1>o DEF ClaimPending
  <1>3. CASE ClaimNothing(w)
    BY <1>3, <1>t, <1>o, <1>b DEF ClaimNothing, WorkerTypeOK
  <1>4. ASSUME NEW n \in Ids, Consume(w, n)
        PROVE  BusTypeOK' /\ WorkerTypeOK' /\ OutcomeTypeOK'
    <2>1. BusTypeOK'
      BY <1>4, <1>t, <1>g, ReadGroupType DEF Consume
    <2>2. Unread(GroupOf[w], n) \in SUBSET Ids
      BY <1>t, <1>g, UnreadType
    <2>3. WorkerTypeOK'
      BY <1>4, <1>t, <2>2 DEF Consume, WorkerTypeOK
    <2>4. QED
      BY <1>4, <2>1, <2>3, <1>o DEF Consume
  <1>5. CASE ConsumeNothing(w)
    BY <1>5, <1>t, <1>o, <1>b DEF ConsumeNothing, WorkerTypeOK
  <1>6. CASE Work(w)
    <2>1. ASSUME NEW i \in Ids, Yield(w, i)
          PROVE  BusTypeOK' /\ WorkerTypeOK' /\ OutcomeTypeOK'
      <3>1. TimesDelivered(GroupOf[w], i) \in Nat
        BY <1>t, <1>g DEF TimesDelivered, BusTypeOK
      <3>2. WorkerTypeOK'
        BY <2>1, <1>t, <3>1 DEF Yield, Yielded, WorkerTypeOK, Ids
      <3>3. QED
        BY <2>1, <1>o, <1>b, <3>2 DEF Yield
    <2>2. ASSUME NEW i \in Ids, NEW wrote \in BOOLEAN, NEW acked \in BOOLEAN,
                 Quarantine(w, i, wrote, acked)
          PROVE  BusTypeOK' /\ WorkerTypeOK' /\ OutcomeTypeOK'
      <3>1. BusTypeOK'
        BY <2>2, <1>t, <1>g, XAckType DEF Quarantine, QuarantineEntry
      <3>2. WorkerTypeOK'
        BY <2>2, <1>t DEF Quarantine, Yielded, WorkerTypeOK
      <3>3. OutcomeTypeOK'
        BY <2>2, <1>t, <1>g DEF Quarantine, QuarantineEntry, OutcomeTypeOK
      <3>4. QED
        BY <3>1, <3>2, <3>3
    <2>3. CASE DeadLetter(w)
      <3>1. cur[w] \in Ids
        BY <2>3, <1>t, CurIsId DEF DeadLetter
      <3>2. WorkerTypeOK'
        BY <2>3, <1>t, <3>1 DEF DeadLetter, Done, WorkerTypeOK
      <3>3. OutcomeTypeOK'
        BY <2>3, <1>t, <1>g, <3>1 DEF DeadLetter, OutcomeTypeOK
      <3>4. QED
        BY <2>3, <1>b, <3>2, <3>3 DEF DeadLetter
    <2>4. CASE HandleOk(w)
      <3>1. cur[w] \in Ids
        BY <2>4, <1>t, CurIsId DEF HandleOk, HandlerRuns
      <3>2. WorkerTypeOK'
        BY <2>4, <1>t, <3>1 DEF HandleOk, Done, WorkerTypeOK
      <3>3. OutcomeTypeOK'
        BY <2>4, <1>t, <1>g, <3>1 DEF HandleOk, HandlerRuns, OutcomeTypeOK
      <3>4. QED
        BY <2>4, <1>b, <3>2, <3>3 DEF HandleOk
    <2>5. CASE HandleFail(w)
      <3>1. cur[w] \in Ids
        BY <2>5, <1>t, CurIsId DEF HandleFail, HandlerRuns
      <3>2. WorkerTypeOK'
        BY <2>5, <1>t, <3>1 DEF HandleFail, Done, WorkerTypeOK
      <3>3. OutcomeTypeOK'
        BY <2>5, <1>t, <1>g, <3>1 DEF HandleFail, HandlerRuns, OutcomeTypeOK
      <3>4. QED
        BY <2>5, <1>b, <3>2, <3>3 DEF HandleFail
    <2>6. CASE Flush(w)
      <3>1. BusTypeOK'
        BY <2>6, <1>t, <1>g, XAckType DEF Flush
      <3>2. QED
        BY <2>6, <1>t, <1>o, <3>1, EndPassType DEF Flush
    <2>7. QED
      BY <1>6, <2>1, <2>2, <2>3, <2>4, <2>5, <2>6 DEF Work
  <1>7. QED
    BY <1>1, <1>2, <1>3, <1>4, <1>5, <1>6 DEF Worker

\* Every fault of a worker keeps the types.
LEMMA FaultyType ==
    ASSUME TypeOK, NEW w \in Workers, Faulty(w)
    PROVE  TypeOK'
  <1>g. GroupOf[w] \in Groups
    OBVIOUS
  <1>t. BusTypeOK /\ WorkerTypeOK /\ OutcomeTypeOK
    BY TypeParts
  <1>o. UNCHANGED outcomeVars => OutcomeTypeOK'
    BY <1>t DEF outcomeVars, OutcomeTypeOK
  <1> SUFFICES BusTypeOK' /\ WorkerTypeOK' /\ OutcomeTypeOK'
    BY TypeParts, PTL
  <1>1. CASE Break(w)
    BY <1>1, <1>t, <1>o, FaultType DEF Break, WorkerTypeOK
  <1>2. ASSUME NEW A \in SUBSET Ids, BusError(w, A)
        PROVE  BusTypeOK' /\ WorkerTypeOK' /\ OutcomeTypeOK'
    BY <1>2, <1>t, <1>g, <1>o, XAckType, EndPassType DEF BusError
  <1>3. ASSUME NEW wrote \in BOOLEAN, DeadLetterError(w, wrote)
        PROVE  BusTypeOK' /\ WorkerTypeOK' /\ OutcomeTypeOK'
    <2>1. cur[w] \in Ids
      BY <1>3, <1>t, CurIsId DEF DeadLetterError
    <2>2. OutcomeTypeOK'
      BY <1>3, <1>t, <1>g, <2>1 DEF DeadLetterError, OutcomeTypeOK
    <2>3. QED
      BY <1>3, <1>t, <2>2, FaultType, EndPassType DEF DeadLetterError
  <1>4. CASE Crash(w)
    <2>1. WorkerTypeOK'
      BY <1>4, <1>t DEF Crash, Done, WorkerTypeOK
    <2>2. QED
      BY <1>4, <1>t, <1>o, <2>1, FaultType DEF Crash
  <1>5. ASSUME NEW n \in Ids, ReadLost(w, n)
        PROVE  BusTypeOK' /\ WorkerTypeOK' /\ OutcomeTypeOK'
    <2>1. BusTypeOK'
      BY <1>5, <1>t, <1>g, ReadGroupType DEF ReadLost
    <2>2. QED
      BY <1>5, <1>t, <1>o, <2>1 DEF ReadLost, WorkerTypeOK
  <1>6. ASSUME NEW S \in SUBSET Ids, ClaimLost(w, S)
        PROVE  BusTypeOK' /\ WorkerTypeOK' /\ OutcomeTypeOK'
    <2>1. BusTypeOK'
      BY <1>6, <1>t, <1>g, AutoClaimType DEF ClaimLost
    <2>2. QED
      BY <1>6, <1>t, <1>o, <2>1 DEF ClaimLost, WorkerTypeOK
  <1>7. QED
    BY <1>1, <1>2, <1>3, <1>4, <1>5, <1>6 DEF Faulty

\* TypeOK is inductive.
LEMMA TypeStep == TypeOK /\ [Next]_vars => TypeOK'
  <1> SUFFICES ASSUME TypeOK, [Next]_vars
               PROVE  TypeOK'
    OBVIOUS
  <1>t. BusTypeOK /\ WorkerTypeOK /\ OutcomeTypeOK
    BY TypeParts
  <1>1. CASE UNCHANGED vars
    BY <1>1 DEF vars, busVars, streamVars, reaperVars, workerVars, outcomeVars,
                TypeOK, BusTypeOK, OutcomeTypeOK
  <1>2. CASE (Produce \/ Reaper) /\ UNCHANGED <<workerVars, outcomeVars>>
    <2>1. BusTypeOK'
      BY <1>2, <1>t, ProduceType, ReaperType
    <2>2. QED
      BY <1>2, <2>1, <1>t DEF TypeOK, WorkerTypeOK, OutcomeTypeOK, workerVars, outcomeVars
  <1>3. CASE \E w \in Workers : Worker(w) \/ Faulty(w)
    BY <1>3, WorkerType, FaultyType
  <1>4. QED
    BY <1>1, <1>2, <1>3 DEF Next

\* Every variable of the worker loop and of the bus keeps its type, for every
\* number of workers, groups, messages and faults.
THEOREM TypeCorrect == Spec => []TypeOK
  BY InitType, TypeStep, PTL DEF Spec

-----------------------------------------------------------------------------
(* Nothing is lost.  Core is the part of SafeInv about the stream, the     *)
(* groups and the reaper; each bus command preserves it as long as no      *)
(* outcome is taken back and an ack is backed by an outcome.               *)

Core ==
    /\ StillRegistered
    /\ PendingWasDelivered
    /\ TrimBoundSafe
    /\ NothingLost

OutcomeGrows == \A g \in Groups : Outcome(g) \subseteq Outcome(g)'

\* Core survives a step that only adds outcomes.
LEMMA CoreStutter ==
    ASSUME BusTypeOK, Core, OutcomeGrows, UNCHANGED <<streamVars, reaperVars>>
    PROVE  Core'
  <1>1. TrimBoundSafe'
    BY DEF Core, TrimBoundSafe, streamVars, reaperVars
  <1>2. NothingLost'
    BY DEF Core, NothingLost, Settled, OutcomeGrows, streamVars, reaperVars
  <1>3. QED
    BY <1>1, <1>2 DEF Core, StillRegistered, PendingWasDelivered, streamVars

\* Core survives an XADD: the new entry is unread in every group.
LEMMA CoreProduce ==
    ASSUME BusTypeOK, Core, Produce, OutcomeGrows
    PROVE  Core'
  <1>1. last \in Nat /\ last' = last + 1 /\ stream' = stream \cup {last + 1}
    BY DEF Produce, BusTypeOK
  <1>2. \A g \in InitialGroups : delivered[g] \in Nat /\ delivered[g] <= last
    BY DEF BusTypeOK
  <1>3. NothingLost'
    <2> SUFFICES ASSUME NEW g \in InitialGroups, NEW i \in 1 .. last'
                 PROVE  i \in Outcome(g)' \/ (i \in stream' /\ ~Settled(g, i)')
      BY DEF NothingLost
    <2>1. CASE i = last + 1
      BY <1>1, <1>2, <2>1 DEF Produce, Settled
    <2>2. CASE i \in 1 .. last
      BY <1>1, <2>2 DEF Produce, Settled, Core, NothingLost, OutcomeGrows
    <2>3. QED
      BY <1>1, <2>1, <2>2
  <1>4. TrimBoundSafe'
    BY DEF Core, TrimBoundSafe, Produce, reaperVars
  <1>5. QED
    BY <1>3, <1>4 DEF Core, StillRegistered, PendingWasDelivered, Produce

\* Core survives the registration of a group.
LEMMA CoreEnsureGroup ==
    ASSUME BusTypeOK, Core, NEW g \in Groups, EnsureGroup(g), OutcomeGrows
    PROVE  Core'
  <1>1. TrimBoundSafe'
    BY DEF Core, TrimBoundSafe, EnsureGroup, reaperVars
  <1>2. NothingLost'
    BY DEF Core, NothingLost, Settled, OutcomeGrows, EnsureGroup
  <1>3. QED
    BY <1>1, <1>2 DEF Core, StillRegistered, PendingWasDelivered, EnsureGroup

\* Core survives an XREADGROUP, also in the middle of a trim: what is read was
\* unread when the reaper took its snapshot or examined the group.
LEMMA CoreReadGroup ==
    ASSUME BusTypeOK, Core, NEW g \in Groups, NEW n \in Ids, ReadGroup(g, n), OutcomeGrows
    PROVE  Core'
  <1> DEFINE R == Unread(g, n)
  <1>1. /\ delivered' = [delivered EXCEPT ![g] = n]
        /\ pel' = [pel EXCEPT ![g] = @ \cup R]
        /\ UNCHANGED <<last, stream, groups, rpc, rSeen, rLast, rBound>>
    BY DEF ReadGroup, reaperVars
  <1>2. /\ n \in Nat /\ delivered[g] \in Nat /\ delivered[g] < n
        /\ \A i \in R : i \in stream /\ i \in Nat /\ delivered[g] < i /\ i <= n
        /\ \A i \in stream : delivered[g] < i /\ i <= n => i \in R
    BY DEF ReadGroup, Unread, BusTypeOK, Ids
  <1> HIDE DEF R
  <1>3. PendingWasDelivered'
    BY <1>1, <1>2 DEF Core, PendingWasDelivered, BusTypeOK
  <1>4. TrimBoundSafe'
    <2> SUFFICES ASSUME rpc = "scan", NEW h \in InitialGroups
                 PROVE  IF h \in rSeen
                        THEN rLast[h] <= delivered'[h]
                        ELSE /\ rBound \in 1 .. (delivered'[h] + 1)
                             /\ \A i \in pel'[h] : rBound <= i
      BY <1>1 DEF TrimBoundSafe
    <2>1. delivered[h] \in Nat /\ rLast[h] \in Nat /\ rBound \in Nat
      BY DEF BusTypeOK
    <2>2. IF h \in rSeen
          THEN rLast[h] <= delivered[h]
          ELSE /\ rBound \in 1 .. (delivered[h] + 1)
               /\ \A i \in pel[h] : rBound <= i
      BY DEF Core, TrimBoundSafe
    <2>3. CASE h = g
      BY <1>1, <1>2, <2>1, <2>2, <2>3 DEF BusTypeOK
    <2>4. CASE h # g
      BY <1>1, <2>1, <2>2, <2>4 DEF BusTypeOK
    <2>5. QED
      BY <2>3, <2>4
  <1>5. NothingLost'
    <2> SUFFICES ASSUME NEW h \in InitialGroups, NEW i \in 1 .. last
                 PROVE  i \in Outcome(h)' \/ (i \in stream /\ ~Settled(h, i)')
      BY <1>1 DEF NothingLost
    <2>1. i \in Outcome(h) \/ (i \in stream /\ ~Settled(h, i))
      BY DEF Core, NothingLost
    <2>2. CASE i \in Outcome(h)
      BY <2>2 DEF OutcomeGrows
    <2>3. CASE i \in stream /\ ~Settled(h, i)
      <3>1. CASE h = g
        BY <1>1, <1>2, <2>3, <3>1 DEF Settled, BusTypeOK
      <3>2. CASE h # g
        BY <1>1, <2>3, <3>2 DEF Settled, BusTypeOK
      <3>3. QED
        BY <3>1, <3>2
    <2>4. QED
      BY <2>1, <2>2, <2>3
  <1>6. QED
    BY <1>1, <1>3, <1>4, <1>5 DEF Core, StillRegistered

\* XACK, and the removal of vanished entries by XAUTOCLAIM, both take a set S out
\* of one pending list: safe when every entry of S has an outcome.
LEMMA CoreRemove ==
    ASSUME BusTypeOK, Core, OutcomeGrows, NEW g \in Groups, NEW S,
           pel' = [pel EXCEPT ![g] = @ \ S],
           UNCHANGED <<last, stream, groups, delivered, rpc, rSeen, rLast, rBound>>,
           g \in InitialGroups => \A i \in S \cap pel[g] : i \in Outcome(g)'
    PROVE  Core'
  <1>1. PendingWasDelivered'
    BY DEF Core, PendingWasDelivered, BusTypeOK
  <1>2. \A h \in Groups : pel'[h] \subseteq pel[h]
    BY DEF BusTypeOK
  <1>3. TrimBoundSafe'
    BY <1>2 DEF Core, TrimBoundSafe
  <1>4. NothingLost'
    <2> SUFFICES ASSUME NEW h \in InitialGroups, NEW i \in 1 .. last
                 PROVE  i \in Outcome(h)' \/ (i \in stream /\ ~Settled(h, i)')
      BY DEF NothingLost
    <2>1. i \in Outcome(h) \/ (i \in stream /\ ~Settled(h, i))
      BY DEF Core, NothingLost
    <2>2. CASE i \in Outcome(h)
      BY <2>2 DEF OutcomeGrows
    <2>3. CASE i \in stream /\ ~Settled(h, i)
      <3>1. CASE i \in pel'[h] \/ i \notin pel[h]
        BY <2>3, <3>1 DEF Settled
      <3>2. CASE i \in pel[h] /\ i \notin pel'[h]
        BY <3>2 DEF BusTypeOK
      <3>3. QED
        BY <3>1, <3>2
    <2>4. QED
      BY <2>1, <2>2, <2>3
  <1>5. QED
    BY <1>1, <1>3, <1>4 DEF Core, StillRegistered

\* Core survives an XACK of entries that have an outcome.
LEMMA CoreXAck ==
    ASSUME BusTypeOK, Core, OutcomeGrows, NEW g \in Groups, NEW S, XAck(g, S),
           \A i \in S : i \in Outcome(g)'
    PROVE  Core'
  BY CoreRemove DEF XAck, reaperVars

\* Core survives an XAUTOCLAIM: what it drops from the pending list is no longer
\* in the stream, so it had an outcome already.
LEMMA CoreAutoClaim ==
    ASSUME BusTypeOK, Core, OutcomeGrows, NEW g \in Groups, NEW S, AutoClaim(g, S)
    PROVE  Core'
  <1> DEFINE Gone == S \ stream
  <1>1. g \in InitialGroups => \A i \in Gone \cap pel[g] : i \in Outcome(g)'
    <2> SUFFICES ASSUME g \in InitialGroups, NEW i \in pel[g], i \notin stream
                 PROVE  i \in Outcome(g)'
      OBVIOUS
    <2>1. i \in 1 .. last
      BY DEF Core, PendingWasDelivered, BusTypeOK
    <2>2. QED
      BY <2>1 DEF Core, NothingLost, OutcomeGrows
  <1>2. pel' = [pel EXCEPT ![g] = @ \ Gone]
    BY DEF AutoClaim
  <1>3. UNCHANGED <<last, stream, groups, delivered, rpc, rSeen, rLast, rBound>>
    BY DEF AutoClaim, reaperVars
  <1> HIDE DEF Gone
  <1>4. QED
    BY <1>1, <1>2, <1>3, CoreRemove

\* Core survives every step of trim_acked, the XTRIM included.
LEMMA CoreReaper ==
    ASSUME BusTypeOK, Core, OutcomeGrows, Reaper
    PROVE  Core'
  <1>t. /\ \A g \in InitialGroups : g \in Groups /\ delivered[g] \in Nat /\ rLast[g] \in Nat
        /\ rBound \in Nat /\ last \in Nat
    BY DEF BusTypeOK
  <1>s. ASSUME UNCHANGED streamVars
        PROVE  StillRegistered' /\ PendingWasDelivered' /\ NothingLost'
    BY <1>s DEF streamVars, Core, StillRegistered, PendingWasDelivered, NothingLost,
                Settled, OutcomeGrows
  <1>1. CASE TrimSnapshot
    <2>1. TrimBoundSafe'
      BY <1>1, <1>t DEF TrimSnapshot, TrimBoundSafe, streamVars, Core, StillRegistered
    <2>2. QED
      BY <1>1, <1>s, <2>1 DEF TrimSnapshot, Core
  <1>2. ASSUME NEW g \in Groups, NEW b \in 1 .. (MaxMsgs + 1), TrimExamine(g, b)
        PROVE  Core'
    <2>1. UNCHANGED <<last, delivered, pel, rpc, rLast>> /\ rSeen' = rSeen \ {g}
          /\ rpc = "scan" /\ g \in rSeen /\ UNCHANGED streamVars
      BY <1>2 DEF TrimExamine, streamVars
    <2>2. rBound' \in Nat /\ rBound' # 0 /\ rBound' <= b /\ (rBound # 0 => rBound' <= rBound)
      BY <1>2, <1>t DEF TrimExamine, LowerBoundary
    <2>3. ASSUME NEW h \in InitialGroups
          PROVE  IF h \in rSeen'
                 THEN rLast'[h] <= delivered'[h]
                 ELSE /\ rBound' \in 1 .. (delivered'[h] + 1)
                      /\ \A i \in pel'[h] : rBound' <= i
      <3>1. IF h \in rSeen
            THEN rLast[h] <= delivered[h]
            ELSE /\ rBound \in 1 .. (delivered[h] + 1)
                 /\ \A i \in pel[h] : rBound <= i
        BY <2>1 DEF Core, TrimBoundSafe
      <3>p. \A i \in pel[h] : i \in Nat /\ i <= delivered[h]
        BY <1>t DEF Core, PendingWasDelivered
      <3>2. CASE h = g
        <4>1. b <= delivered[h] + 1 /\ \A i \in pel[h] : b <= i
          BY <1>2, <1>t, <2>1, <3>1, <3>2, <3>p DEF TrimExamine, GroupBoundary
        <4>2. QED
          BY <1>t, <2>1, <2>2, <3>2, <3>p, <4>1
      <3>3. CASE h # g /\ h \in rSeen
        BY <2>1, <3>1, <3>3
      <3>4. CASE h # g /\ h \notin rSeen
        BY <1>t, <2>1, <2>2, <3>1, <3>4, <3>p
      <3>5. QED
        BY <3>2, <3>3, <3>4
    <2>4. TrimBoundSafe'
      BY <2>3 DEF TrimBoundSafe
    <2>5. QED
      BY <1>s, <2>1, <2>4 DEF Core
  <1>3. CASE TrimGiveUp
    <2>1. TrimBoundSafe'
      BY <1>3 DEF TrimGiveUp, TrimBoundSafe
    <2>2. QED
      BY <1>3, <1>s, <2>1 DEF TrimGiveUp, Core
  <1>4. CASE TrimApply
    <2>1. TrimBoundSafe'
      BY <1>4 DEF TrimApply, TrimBoundSafe
    <2>2. \A g \in InitialGroups, i \in 1 .. last : i < rBound => Settled(g, i)
      BY <1>4, <1>t DEF TrimApply, Core, TrimBoundSafe, Settled
    <2>3. NothingLost'
      BY <1>4, <1>t, <2>2 DEF TrimApply, Core, NothingLost, Settled, OutcomeGrows
    <2>4. QED
      BY <1>4, <2>1, <2>3 DEF TrimApply, Core, StillRegistered, PendingWasDelivered
  <1>5. QED
    BY <1>1, <1>2, <1>3, <1>4 DEF Reaper

-----------------------------------------------------------------------------
(* The worker loop on top of the bus.                                      *)

\* SafeInv is the types, the part about the bus and the part about deferred acks.
LEMMA SafeParts ==
    SafeInv <=> TypeOK /\ Core /\ AcksAreEarned
  BY DEF SafeInv, Core

\* The inductive invariant holds initially.
LEMMA InitSafe == Init => SafeInv
  <1> SUFFICES ASSUME Init PROVE SafeInv
    OBVIOUS
  <1>1. TypeOK
    BY InitType
  <1>2. Core
    BY DEF Init, BusInit, Core, StillRegistered, PendingWasDelivered, TrimBoundSafe,
           NothingLost
  <1>3. AcksAreEarned
    BY DEF Init, AcksAreEarned
  <1>4. QED
    BY <1>1, <1>2, <1>3, SafeParts

\* Leaving the outcomes alone is a way of only adding to them.
LEMMA OutcomeUnchanged == UNCHANGED outcomeVars => OutcomeGrows
  BY DEF outcomeVars, OutcomeGrows, Outcome

\* Deferred acks stay earned while outcomes grow and no ack is added.
LEMMA AcksKept ==
    ASSUME TypeOK, AcksAreEarned, OutcomeGrows,
           \A v \in Workers : acks'[v] \subseteq acks[v]
    PROVE  AcksAreEarned'
  BY DEF AcksAreEarned, OutcomeGrows

\* A worker forgets its acks, or adds to them a message that now has an outcome.
LEMMA AcksDropped ==
    ASSUME TypeOK, NEW w \in Workers, acks' = [acks EXCEPT ![w] = {}]
    PROVE  \A v \in Workers : acks'[v] \subseteq acks[v]
  BY DEF TypeOK

\* A worker that adds a message with an outcome keeps its acks earned.
LEMMA AcksAdded ==
    ASSUME TypeOK, AcksAreEarned, OutcomeGrows, NEW w \in Workers, NEW i,
           acks' = [acks EXCEPT ![w] = @ \cup {i}], i \in Outcome(GroupOf[w])'
    PROVE  AcksAreEarned'
  BY DEF TypeOK, AcksAreEarned, OutcomeGrows

\* Every step of a worker keeps the inductive invariant.
LEMMA WorkerSafe ==
    ASSUME SafeInv, NEW w \in Workers, Worker(w)
    PROVE  Core' /\ AcksAreEarned'
  <1>g. GroupOf[w] \in Groups
    OBVIOUS
  <1>t. TypeOK /\ BusTypeOK /\ Core /\ AcksAreEarned /\ OutcomeTypeOK
    BY SafeParts DEF TypeOK
  <1>a. ASSUME OutcomeGrows, UNCHANGED acks
        PROVE  AcksAreEarned'
    BY <1>a, <1>t, AcksKept
  <1>b. UNCHANGED busVars => UNCHANGED <<streamVars, reaperVars>>
    BY DEF busVars
  <1>1. CASE Register(w)
    BY <1>1, <1>g, <1>t, <1>a, OutcomeUnchanged, CoreEnsureGroup DEF Register, workerVars
  <1>2. ASSUME NEW S \in SUBSET Ids, ClaimPending(w, S)
        PROVE  Core' /\ AcksAreEarned'
    BY <1>2, <1>g, <1>t, <1>a, OutcomeUnchanged, CoreAutoClaim DEF ClaimPending
  <1>3. CASE ClaimNothing(w)
    BY <1>3, <1>t, <1>a, <1>b, OutcomeUnchanged, CoreStutter DEF ClaimNothing
  <1>4. ASSUME NEW n \in Ids, Consume(w, n)
        PROVE  Core' /\ AcksAreEarned'
    BY <1>4, <1>g, <1>t, <1>a, OutcomeUnchanged, CoreReadGroup DEF Consume
  <1>5. CASE ConsumeNothing(w)
    BY <1>5, <1>t, <1>a, <1>b, OutcomeUnchanged, CoreStutter DEF ConsumeNothing
  <1>6. ASSUME NEW i \in Ids, Yield(w, i)
        PROVE  Core' /\ AcksAreEarned'
    BY <1>6, <1>t, <1>a, <1>b, OutcomeUnchanged, CoreStutter DEF Yield
  <1>7. ASSUME NEW i \in Ids, NEW wrote \in BOOLEAN, NEW acked \in BOOLEAN,
               Quarantine(w, i, wrote, acked)
        PROVE  Core' /\ AcksAreEarned'
    <2> DEFINE g == GroupOf[w]
               S == IF acked THEN {i} ELSE {}
    <2>1. OutcomeGrows
      BY <1>7, <1>t, <1>g DEF Quarantine, QuarantineEntry, OutcomeGrows, Outcome, OutcomeTypeOK
    <2>2. \A k \in S : k \in Outcome(g)'
      BY <1>7, <1>t, <1>g DEF Quarantine, QuarantineEntry, Outcome, OutcomeTypeOK
    <2>3. XAck(g, S)
      BY <1>7 DEF Quarantine, QuarantineEntry
    <2> HIDE DEF S
    <2>4. Core'
      BY <1>t, <1>g, <2>1, <2>2, <2>3, CoreXAck
    <2>5. QED
      BY <1>7, <1>a, <2>1, <2>4 DEF Quarantine
  <1>8. CASE DeadLetter(w)
    <2>1. OutcomeGrows /\ cur[w] \in Outcome(GroupOf[w])'
      BY <1>8, <1>t, <1>g DEF DeadLetter, OutcomeGrows, Outcome, OutcomeTypeOK
    <2>2. QED
      BY <1>8, <1>t, <1>b, <2>1, CoreStutter, AcksAdded DEF DeadLetter
  <1>9. CASE HandleOk(w)
    <2>1. OutcomeGrows /\ cur[w] \in Outcome(GroupOf[w])'
      BY <1>9, <1>t, <1>g DEF HandleOk, OutcomeGrows, Outcome, OutcomeTypeOK
    <2>2. QED
      BY <1>9, <1>t, <1>b, <2>1, CoreStutter, AcksAdded DEF HandleOk
  <1>10. CASE HandleFail(w)
    <2>1. OutcomeGrows
      BY <1>10 DEF HandleFail, OutcomeGrows, Outcome
    <2>2. QED
      BY <1>10, <1>t, <1>a, <1>b, <2>1, CoreStutter DEF HandleFail
  <1>11. CASE Flush(w)
    <2>1. OutcomeGrows
      BY <1>11, OutcomeUnchanged DEF Flush
    <2>2. \A i \in acks[w] : i \in Outcome(GroupOf[w])'
      BY <1>t, <1>g, <2>1 DEF AcksAreEarned, OutcomeGrows
    <2>3. Core'
      BY <1>11, <1>t, <1>g, <2>1, <2>2, CoreXAck DEF Flush
    <2>4. QED
      BY <1>11, <1>t, <2>1, <2>3, AcksDropped, AcksKept DEF Flush, EndPass
  <1>12. QED
    BY <1>1, <1>2, <1>3, <1>4, <1>5, <1>6, <1>7, <1>8, <1>9, <1>10, <1>11
       DEF Worker, Work

\* Every fault of a worker keeps the inductive invariant.
LEMMA FaultySafe ==
    ASSUME SafeInv, NEW w \in Workers, Faulty(w)
    PROVE  Core' /\ AcksAreEarned'
  <1>g. GroupOf[w] \in Groups
    OBVIOUS
  <1>t. TypeOK /\ BusTypeOK /\ Core /\ AcksAreEarned /\ OutcomeTypeOK
    BY SafeParts DEF TypeOK
  <1>1. CASE Break(w)
    BY <1>1, <1>t, OutcomeUnchanged, CoreStutter, AcksKept DEF Break
  <1>2. ASSUME NEW A \in SUBSET Ids, BusError(w, A)
        PROVE  Core' /\ AcksAreEarned'
    <2>1. OutcomeGrows
      BY <1>2, OutcomeUnchanged DEF BusError
    <2>2. \A i \in A : i \in Outcome(GroupOf[w])'
      BY <1>2, <1>t, <1>g, <2>1 DEF BusError, AcksAreEarned, OutcomeGrows
    <2>3. Core'
      BY <1>2, <1>t, <1>g, <2>1, <2>2, CoreXAck DEF BusError
    <2>4. QED
      BY <1>2, <1>t, <2>1, <2>3, AcksDropped, AcksKept DEF BusError, EndPass
  <1>3. ASSUME NEW wrote \in BOOLEAN, DeadLetterError(w, wrote)
        PROVE  Core' /\ AcksAreEarned'
    <2>1. OutcomeGrows
      BY <1>3, <1>t, <1>g DEF DeadLetterError, OutcomeGrows, Outcome, OutcomeTypeOK
    <2>2. QED
      BY <1>3, <1>t, <2>1, CoreStutter, AcksDropped, AcksKept DEF DeadLetterError, EndPass
  <1>4. CASE Crash(w)
    BY <1>4, <1>t, OutcomeUnchanged, CoreStutter, AcksDropped, AcksKept DEF Crash
  <1>5. ASSUME NEW n \in Ids, ReadLost(w, n)
        PROVE  Core' /\ AcksAreEarned'
    BY <1>5, <1>t, <1>g, OutcomeUnchanged, CoreReadGroup, AcksKept DEF ReadLost
  <1>6. ASSUME NEW S \in SUBSET Ids, ClaimLost(w, S)
        PROVE  Core' /\ AcksAreEarned'
    BY <1>6, <1>t, <1>g, OutcomeUnchanged, CoreAutoClaim, AcksKept DEF ClaimLost
  <1>7. QED
    BY <1>1, <1>2, <1>3, <1>4, <1>5, <1>6 DEF Faulty

\* SafeInv is inductive.
LEMMA SafeStep == SafeInv /\ [Next]_vars => SafeInv'
  <1> SUFFICES ASSUME SafeInv, [Next]_vars
               PROVE  SafeInv'
    OBVIOUS
  <1>t. TypeOK /\ BusTypeOK /\ Core /\ AcksAreEarned
    BY SafeParts DEF TypeOK
  <1>1. TypeOK'
    BY <1>t, TypeStep
  <1>2. CASE UNCHANGED vars
    <2>1. UNCHANGED <<streamVars, reaperVars>> /\ OutcomeGrows /\ UNCHANGED acks
      BY <1>2, OutcomeUnchanged DEF vars, busVars, workerVars
    <2>2. Core' /\ AcksAreEarned'
      BY <1>t, <2>1, CoreStutter, AcksKept
    <2>3. QED
      BY <1>1, <2>2, SafeParts, PTL
  <1>3. CASE (Produce \/ Reaper) /\ UNCHANGED <<workerVars, outcomeVars>>
    <2>1. OutcomeGrows /\ UNCHANGED acks
      BY <1>3, OutcomeUnchanged DEF workerVars
    <2>2. Core' /\ AcksAreEarned'
      BY <1>3, <1>t, <2>1, CoreProduce, CoreReaper, AcksKept
    <2>3. QED
      BY <1>1, <2>2, SafeParts, PTL
  <1>4. CASE \E w \in Workers : Worker(w) \/ Faulty(w)
    <2>1. Core' /\ AcksAreEarned'
      BY <1>4, WorkerSafe, FaultySafe
    <2>2. QED
      BY <1>1, <2>1, SafeParts, PTL
  <1>5. QED
    BY <1>2, <1>3, <1>4 DEF Next

\* SafeInv is an inductive invariant: neither the reaper's unfinished boundary nor
\* a worker's deferred acks ever give up an entry that still has to be delivered.
THEOREM SafeInvariant == Spec => []SafeInv
  BY InitSafe, SafeStep, PTL DEF Spec

\* At-least-once delivery, for every number of groups, workers, messages, faults
\* and redeliveries: an entry has an outcome in every group registered from the
\* start, or is still in the stream and deliverable to it.
THEOREM AtLeastOnce == Spec => []NothingLost
  <1>1. SafeInv => NothingLost
    BY DEF SafeInv
  <1>2. QED
    BY <1>1, SafeInvariant, PTL

\* Nothing but an XTRIM takes an entry out of the stream.
LEMMA OnlyTrimRemoves ==
    ASSUME [Next]_vars, NEW i \in stream, i \notin stream'
    PROVE  TrimApply
  <1>1. CASE UNCHANGED vars
    BY <1>1 DEF vars, busVars, streamVars
  <1>2. CASE Produce
    BY <1>2 DEF Produce
  <1>3. CASE Reaper
    BY <1>3 DEF Reaper, TrimSnapshot, TrimExamine, TrimGiveUp, streamVars
  <1>4. ASSUME NEW w \in Workers, Worker(w)
        PROVE  FALSE
    <2>1. ASSUME UNCHANGED stream
          PROVE  FALSE
      BY <2>1
    <2>2. CASE Register(w)
      BY <2>1, <2>2 DEF Register, EnsureGroup
    <2>3. CASE \E S \in SUBSET Ids : ClaimPending(w, S)
      BY <2>1, <2>3 DEF ClaimPending, AutoClaim
    <2>4. CASE ClaimNothing(w)
      BY <2>1, <2>4 DEF ClaimNothing, busVars, streamVars
    <2>5. CASE \E n \in Ids : Consume(w, n)
      BY <2>1, <2>5 DEF Consume, ReadGroup
    <2>6. CASE ConsumeNothing(w)
      BY <2>1, <2>6 DEF ConsumeNothing, busVars, streamVars
    <2>7. CASE \E k \in Ids : Yield(w, k)
      BY <2>1, <2>7 DEF Yield, busVars, streamVars
    <2>8. CASE \E k \in Ids, wrote, acked \in BOOLEAN : Quarantine(w, k, wrote, acked)
      BY <2>1, <2>8 DEF Quarantine, QuarantineEntry, XAck
    <2>9. CASE DeadLetter(w)
      BY <2>1, <2>9 DEF DeadLetter, busVars, streamVars
    <2>10. CASE HandleOk(w)
      BY <2>1, <2>10 DEF HandleOk, busVars, streamVars
    <2>11. CASE HandleFail(w)
      BY <2>1, <2>11 DEF HandleFail, busVars, streamVars
    <2>12. CASE Flush(w)
      BY <2>1, <2>12 DEF Flush, XAck
    <2>13. QED
      BY <1>4, <2>2, <2>3, <2>4, <2>5, <2>6, <2>7, <2>8, <2>9, <2>10, <2>11, <2>12
         DEF Worker, Work
  <1>5. ASSUME NEW w \in Workers, Faulty(w)
        PROVE  FALSE
    <2>1. UNCHANGED stream
      BY <1>5 DEF Faulty, Break, BusError, DeadLetterError, Crash, ReadLost, ClaimLost, XAck,
                  ReadGroup, AutoClaim, streamVars
    <2>2. QED
      BY <2>1
  <1>6. QED
    BY <1>1, <1>2, <1>3, <1>4, <1>5 DEF Next

\* When every group is registered before the reaper starts, an XTRIM removes only
\* entries that all of them have consumed and acked, whatever the workers did
\* between its snapshot and the XTRIM.
THEOREM TrimIsSafe ==
    ASSUME InitialGroups = Groups
    PROVE  Spec => TrimRemovesOnlyFinished
  <1>1. SafeInv /\ [Next]_vars =>
           [\A i \in stream \ stream', g \in groups : Settled(g, i)]_busVars
    <2> SUFFICES ASSUME SafeInv, [Next]_vars, NEW i \in stream, i \notin stream',
                        NEW g \in groups
                 PROVE  Settled(g, i)
      OBVIOUS
    <2>t. BusTypeOK /\ Core
      BY SafeParts DEF TypeOK
    <2>1. TrimApply
      BY OnlyTrimRemoves
    <2>2. g \in InitialGroups /\ i \in 1 .. last /\ i < rBound
      BY <2>t, <2>1 DEF BusTypeOK, TrimApply
    <2>3. QED
      BY <2>t, <2>1, <2>2 DEF TrimApply, Core, TrimBoundSafe, Settled, BusTypeOK
  <1>2. QED
    BY <1>1, SafeInvariant, PTL DEF Spec, TrimRemovesOnlyFinished
-----------------------------------------------------------------------------
(* The implementation of the contract.  Two more facts are needed than for *)
(* NothingLost: what has left the stream is settled, and what a worker has *)
(* in its hands was produced.                                              *)

\* An entry a trim has removed is settled in every group of the contract, so its
\* status is "done" and never "lost".
TrimmedIsSettled ==
    \A g \in InitialGroups, i \in 1 .. last : i \in stream \/ Settled(g, i)

\* A worker holds, and is about to ack, only entries its group has been handed.
HeldWasDelivered ==
    \A w \in Workers :
        /\ inbox[w] \subseteq 1 .. delivered[GroupOf[w]]
        /\ cur[w] <= delivered[GroupOf[w]]

ContractInv == SafeInv /\ TrimmedIsSettled /\ HeldWasDelivered

\* XACK keeps trimmed entries settled: it only takes entries out of a pending list.
LEMMA SettledRemove ==
    ASSUME BusTypeOK, TrimmedIsSettled, NEW g \in Groups, NEW S,
           pel' = [pel EXCEPT ![g] = @ \ S], UNCHANGED <<last, stream, delivered>>
    PROVE  TrimmedIsSettled'
  <1>1. \A h \in InitialGroups : pel'[h] \subseteq pel[h]
    BY DEF BusTypeOK
  <1>2. QED
    BY <1>1 DEF TrimmedIsSettled, Settled

\* XREADGROUP keeps them settled: what it hands out is in the stream.
LEMMA SettledReadGroup ==
    ASSUME BusTypeOK, TrimmedIsSettled, NEW g \in Groups, NEW n \in Ids, ReadGroup(g, n)
    PROVE  TrimmedIsSettled' /\ \A h \in Groups : delivered[h] <= delivered'[h]
  <1>1. /\ delivered' = [delivered EXCEPT ![g] = n]
        /\ pel' = [pel EXCEPT ![g] = @ \cup Unread(g, n)]
        /\ UNCHANGED <<last, stream>>
        /\ delivered[g] < n
        /\ Unread(g, n) \subseteq stream
    BY DEF ReadGroup, Unread
  <1>2. n \in Nat /\ \A h \in Groups : delivered[h] \in Nat
    BY DEF BusTypeOK, Ids
  <1>3. \A h \in Groups : delivered'[h] \in Nat /\ delivered[h] <= delivered'[h]
    BY <1>1, <1>2 DEF BusTypeOK
  <1>4. \A h \in InitialGroups, i \in 1 .. last : i \notin stream /\ i \notin pel[h] => i \notin pel'[h]
    BY <1>1 DEF BusTypeOK
  <1>5. ASSUME NEW h \in InitialGroups, NEW i \in 1 .. last, i \notin stream
        PROVE  Settled(h, i)'
    <2>1. Settled(h, i) /\ h \in Groups
      BY <1>5 DEF TrimmedIsSettled
    <2>2. QED
      BY <1>2, <1>3, <1>4, <1>5, <2>1 DEF Settled, BusTypeOK
  <1>6. QED
    BY <1>1, <1>3, <1>5 DEF TrimmedIsSettled

\* Producing, registering and every step of trim_acked keep them settled.
LEMMA SettledBus ==
    ASSUME BusTypeOK, Core, TrimmedIsSettled, Produce \/ Reaper
    PROVE  TrimmedIsSettled' /\ UNCHANGED delivered
  <1>1. CASE Produce
    BY <1>1 DEF Produce, TrimmedIsSettled, Settled, BusTypeOK
  <1>2. CASE Reaper /\ ~TrimApply
    BY <1>2 DEF Reaper, TrimSnapshot, TrimExamine, TrimGiveUp, streamVars, TrimmedIsSettled, Settled
  <1>3. CASE TrimApply
    <2>1. \A g \in InitialGroups, i \in 1 .. last : i < rBound => Settled(g, i)
      BY <1>3 DEF TrimApply, Core, TrimBoundSafe, Settled, BusTypeOK
    <2>2. QED
      BY <1>3, <2>1 DEF TrimApply, TrimmedIsSettled, Settled, BusTypeOK
  <1>4. QED
    BY <1>1, <1>2, <1>3

\* What a worker holds stays handed out when it takes up entries its group has been
\* handed, passes one of them to the handler, or puts some down.
LEMMA HeldKept ==
    ASSUME BusTypeOK, WorkerTypeOK, WorkerTypeOK', HeldWasDelivered, NEW w \in Workers,
           \A g \in Groups : delivered'[g] \in Nat /\ delivered[g] <= delivered'[g],
           \A v \in Workers \ {w} : inbox'[v] = inbox[v] /\ cur'[v] = cur[v],
           inbox'[w] \subseteq inbox[w] \cup 1 .. delivered'[GroupOf[w]],
           cur'[w] \in inbox[w] \cup {0, cur[w]}
    PROVE  HeldWasDelivered'
  <1> SUFFICES ASSUME NEW v \in Workers
               PROVE  /\ inbox'[v] \subseteq 1 .. delivered'[GroupOf[v]]
                      /\ cur'[v] <= delivered'[GroupOf[v]]
    BY DEF HeldWasDelivered
  <1> DEFINE d == delivered[GroupOf[v]]
             e == delivered'[GroupOf[v]]
  <1>1. d \in Nat /\ e \in Nat /\ d <= e
    BY DEF BusTypeOK
  <1>2. inbox[v] \subseteq 1 .. d /\ cur[v] <= d /\ cur[v] \in Nat
    BY DEF HeldWasDelivered, WorkerTypeOK
  <1>3. inbox[v] \subseteq 1 .. e /\ cur[v] <= e /\ 0 <= e
    BY <1>1, <1>2
  <1>4. CASE v = w
    BY <1>3, <1>4
  <1>5. CASE v # w
    BY <1>3, <1>5
  <1>6. QED
    BY <1>4, <1>5

\* The two facts hold initially.
LEMMA InitContract == Init => ContractInv
  <1> SUFFICES ASSUME Init PROVE ContractInv
    OBVIOUS
  <1>1. TrimmedIsSettled
    BY DEF Init, BusInit, TrimmedIsSettled
  <1>2. HeldWasDelivered
    BY DEF Init, BusInit, HeldWasDelivered
  <1>3. QED
    BY <1>1, <1>2, InitSafe DEF ContractInv

\* A step that leaves the stream and the groups alone keeps trimmed entries settled.
LEMMA SettledStutter ==
    ASSUME TrimmedIsSettled, UNCHANGED <<last, stream, delivered, pel>>
    PROVE  TrimmedIsSettled'
  BY DEF TrimmedIsSettled, Settled

\* Every step of a worker keeps the two facts.
LEMMA WorkerContract ==
    ASSUME ContractInv, WorkerTypeOK', NEW w \in Workers, Worker(w)
    PROVE  TrimmedIsSettled' /\ HeldWasDelivered'
  <1>g. GroupOf[w] \in Groups
    OBVIOUS
  <1>t. /\ BusTypeOK /\ WorkerTypeOK /\ Core /\ TrimmedIsSettled /\ HeldWasDelivered
        /\ \A g \in Groups : delivered[g] \in Nat
    BY SafeParts, TypeParts DEF ContractInv, BusTypeOK
  <1>h. ASSUME UNCHANGED delivered,
               \A v \in Workers \ {w} : inbox'[v] = inbox[v] /\ cur'[v] = cur[v],
               inbox'[w] \subseteq inbox[w], cur'[w] \in inbox[w] \cup {0, cur[w]}
        PROVE  HeldWasDelivered'
    BY <1>h, <1>t, HeldKept
  <1>1. CASE Register(w)
    <2>1. UNCHANGED <<last, stream, delivered, pel, inbox, cur>>
      BY <1>1 DEF Register, EnsureGroup, workerVars
    <2>2. QED
      BY <2>1, <1>t, <1>h, SettledStutter
  <1>2. ASSUME NEW S \in SUBSET Ids, ClaimPending(w, S)
        PROVE  TrimmedIsSettled' /\ HeldWasDelivered'
    <2>1. TrimmedIsSettled'
      BY <1>2, <1>g, <1>t, SettledRemove DEF ClaimPending, AutoClaim
    <2>2. S \subseteq 1 .. delivered[GroupOf[w]]
      BY <1>2, <1>g, <1>t DEF ClaimPending, AutoClaim, Core, PendingWasDelivered
    <2>3. UNCHANGED <<delivered, cur>> /\ inbox' = [inbox EXCEPT ![w] = S \cap stream]
      BY <1>2 DEF ClaimPending, AutoClaim
    <2>4. /\ inbox'[w] \subseteq 1 .. delivered'[GroupOf[w]] /\ cur'[w] = cur[w]
          /\ \A v \in Workers \ {w} : inbox'[v] = inbox[v] /\ cur'[v] = cur[v]
      BY <2>2, <2>3, <1>t DEF WorkerTypeOK
    <2>5. HeldWasDelivered'
      BY <2>3, <2>4, <1>t, HeldKept
    <2>6. QED
      BY <2>1, <2>5
  <1>3. CASE ClaimNothing(w) \/ ConsumeNothing(w)
    <2>1. UNCHANGED <<last, stream, delivered, pel, inbox, cur>>
      BY <1>3 DEF ClaimNothing, ConsumeNothing, busVars, streamVars
    <2>2. QED
      BY <2>1, <1>t, <1>h, SettledStutter
  <1>4. ASSUME NEW n \in Ids, Consume(w, n)
        PROVE  TrimmedIsSettled' /\ HeldWasDelivered'
    <2>1. ReadGroup(GroupOf[w], n) /\ UNCHANGED cur
          /\ inbox' = [inbox EXCEPT ![w] = Unread(GroupOf[w], n)]
      BY <1>4 DEF Consume
    <2>2. TrimmedIsSettled' /\ \A h \in Groups : delivered[h] <= delivered'[h]
      BY <2>1, <1>g, <1>t, SettledReadGroup
    <2>3. Unread(GroupOf[w], n) \subseteq 1 .. delivered'[GroupOf[w]]
      <3>1. delivered'[GroupOf[w]] = n
        BY <2>1, <1>g, <1>t DEF ReadGroup, BusTypeOK
      <3>2. ASSUME NEW i \in Unread(GroupOf[w], n)
            PROVE  i \in 1 .. n
        BY <1>t, UnreadType, <1>g DEF Unread, Ids
      <3>3. QED
        BY <3>1, <3>2
    <2>4. \A h \in Groups : delivered'[h] \in Nat
      BY <2>1, <1>g, <1>t DEF ReadGroup, BusTypeOK, Ids
    <2>5. /\ inbox'[w] \subseteq 1 .. delivered'[GroupOf[w]] /\ cur'[w] = cur[w]
          /\ \A v \in Workers \ {w} : inbox'[v] = inbox[v] /\ cur'[v] = cur[v]
      BY <2>1, <2>3, <1>t DEF WorkerTypeOK
    <2>6. HeldWasDelivered'
      BY <2>2, <2>4, <2>5, <1>t, HeldKept
    <2>7. QED
      BY <2>2, <2>6
  <1>5. ASSUME NEW i \in Ids, Yield(w, i)
        PROVE  TrimmedIsSettled' /\ HeldWasDelivered'
    <2>1. UNCHANGED <<last, stream, delivered, pel>> /\ i \in inbox[w]
          /\ inbox' = [inbox EXCEPT ![w] = @ \ {i}] /\ cur' = [cur EXCEPT ![w] = i]
      BY <1>5 DEF Yield, Yielded, busVars, streamVars
    <2>2. QED
      BY <2>1, <1>t, <1>h, SettledStutter DEF WorkerTypeOK
  <1>6. ASSUME NEW i \in Ids, NEW wrote \in BOOLEAN, NEW acked \in BOOLEAN,
               Quarantine(w, i, wrote, acked)
        PROVE  TrimmedIsSettled' /\ HeldWasDelivered'
    <2>1. /\ UNCHANGED <<last, stream, delivered, cur>>
          /\ pel' = [pel EXCEPT ![GroupOf[w]] = @ \ (IF acked THEN {i} ELSE {})]
          /\ inbox' = [inbox EXCEPT ![w] = @ \ {i}]
      BY <1>6 DEF Quarantine, Yielded, QuarantineEntry, XAck
    <2>2. TrimmedIsSettled'
      BY <2>1, <1>g, <1>t, SettledRemove
    <2>3. HeldWasDelivered'
      BY <2>1, <1>t, <1>h DEF WorkerTypeOK
    <2>4. QED
      BY <2>2, <2>3
  <1>7. CASE DeadLetter(w) \/ HandleOk(w) \/ HandleFail(w)
    <2>1. UNCHANGED <<last, stream, delivered, pel, inbox>> /\ cur' = [cur EXCEPT ![w] = 0]
      BY <1>7 DEF DeadLetter, HandleOk, HandleFail, Done, busVars, streamVars
    <2>2. QED
      BY <2>1, <1>t, <1>h, SettledStutter DEF WorkerTypeOK
  <1>8. CASE Flush(w)
    <2>1. /\ UNCHANGED <<last, stream, delivered>>
          /\ pel' = [pel EXCEPT ![GroupOf[w]] = @ \ acks[w]]
          /\ inbox' = [inbox EXCEPT ![w] = {}] /\ cur' = [cur EXCEPT ![w] = 0]
      BY <1>8 DEF Flush, XAck, EndPass, Done
    <2>2. TrimmedIsSettled'
      BY <2>1, <1>g, <1>t, SettledRemove
    <2>3. HeldWasDelivered'
      BY <2>1, <1>t, <1>h DEF WorkerTypeOK
    <2>4. QED
      BY <2>2, <2>3
  <1>9. QED
    BY <1>1, <1>2, <1>3, <1>4, <1>5, <1>6, <1>7, <1>8 DEF Worker, Work

\* Every fault of a worker keeps the two facts.
LEMMA FaultyContract ==
    ASSUME ContractInv, WorkerTypeOK', NEW w \in Workers, Faulty(w)
    PROVE  TrimmedIsSettled' /\ HeldWasDelivered'
  <1>g. GroupOf[w] \in Groups
    OBVIOUS
  <1>t. /\ BusTypeOK /\ WorkerTypeOK /\ Core /\ TrimmedIsSettled /\ HeldWasDelivered
        /\ \A g \in Groups : delivered[g] \in Nat
    BY SafeParts, TypeParts DEF ContractInv, BusTypeOK
  <1>h. ASSUME \A g \in Groups : delivered'[g] \in Nat /\ delivered[g] <= delivered'[g],
               \A v \in Workers \ {w} : inbox'[v] = inbox[v] /\ cur'[v] = cur[v],
               inbox'[w] \subseteq inbox[w], cur'[w] \in {0, cur[w]}
        PROVE  HeldWasDelivered'
    BY <1>h, <1>t, HeldKept
  <1>1. CASE Break(w) \/ Crash(w) \/ \E wrote \in BOOLEAN : DeadLetterError(w, wrote)
    <2>1. /\ UNCHANGED <<last, stream, delivered, pel>>
          /\ inbox' = [inbox EXCEPT ![w] = {}]
          /\ cur' = cur \/ cur' = [cur EXCEPT ![w] = 0]
      BY <1>1 DEF Break, Crash, DeadLetterError, EndPass, Done, streamVars
    <2>2. QED
      BY <2>1, <1>t, <1>h, SettledStutter DEF WorkerTypeOK
  <1>2. ASSUME NEW A \in SUBSET Ids, BusError(w, A)
        PROVE  TrimmedIsSettled' /\ HeldWasDelivered'
    <2>1. /\ UNCHANGED <<last, stream, delivered>>
          /\ pel' = [pel EXCEPT ![GroupOf[w]] = @ \ A]
          /\ inbox' = [inbox EXCEPT ![w] = {}] /\ cur' = [cur EXCEPT ![w] = 0]
      BY <1>2 DEF BusError, XAck, EndPass, Done
    <2>2. TrimmedIsSettled'
      BY <2>1, <1>g, <1>t, SettledRemove
    <2>3. HeldWasDelivered'
      BY <2>1, <1>t, <1>h DEF WorkerTypeOK
    <2>4. QED
      BY <2>2, <2>3
  <1>3. ASSUME NEW n \in Ids, ReadLost(w, n)
        PROVE  TrimmedIsSettled' /\ HeldWasDelivered'
    <2>1. ReadGroup(GroupOf[w], n) /\ UNCHANGED <<inbox, cur>>
      BY <1>3 DEF ReadLost
    <2>2. TrimmedIsSettled' /\ \A h \in Groups : delivered[h] <= delivered'[h]
      BY <2>1, <1>g, <1>t, SettledReadGroup
    <2>3. \A h \in Groups : delivered'[h] \in Nat
      BY <2>1, <1>g, <1>t DEF ReadGroup, BusTypeOK, Ids
    <2>4. QED
      BY <2>1, <2>2, <2>3, <1>h
  <1>4. ASSUME NEW S \in SUBSET Ids, ClaimLost(w, S)
        PROVE  TrimmedIsSettled' /\ HeldWasDelivered'
    <2>1. TrimmedIsSettled'
      BY <1>4, <1>g, <1>t, SettledRemove DEF ClaimLost, AutoClaim
    <2>2. UNCHANGED <<delivered, inbox, cur>>
      BY <1>4 DEF ClaimLost, AutoClaim
    <2>3. QED
      BY <2>1, <2>2, <1>t, <1>h
  <1>5. QED
    BY <1>1, <1>2, <1>3, <1>4 DEF Faulty

\* ContractInv is inductive.
LEMMA ContractStep == ContractInv /\ [Next]_vars => ContractInv'
  <1> SUFFICES ASSUME ContractInv, [Next]_vars
               PROVE  ContractInv'
    OBVIOUS
  <1>t. /\ SafeInv /\ TypeOK /\ BusTypeOK /\ Core /\ TrimmedIsSettled /\ HeldWasDelivered
    BY SafeParts, TypeParts DEF ContractInv
  <1>1. SafeInv'
    BY <1>t, SafeStep
  <1>2. WorkerTypeOK'
    <2>1. TypeOK'
      BY <1>1 DEF SafeInv
    <2>2. QED
      BY <2>1 DEF TypeOK, WorkerTypeOK
  <1>3. TrimmedIsSettled' /\ HeldWasDelivered'
    <2>1. CASE UNCHANGED vars
      BY <2>1, <1>t DEF vars, busVars, streamVars, workerVars, TrimmedIsSettled,
                        HeldWasDelivered, Settled
    <2>2. CASE (Produce \/ Reaper) /\ UNCHANGED <<workerVars, outcomeVars>>
      BY <2>2, <1>t, SettledBus DEF HeldWasDelivered, workerVars
    <2>3. CASE \E w \in Workers : Worker(w) \/ Faulty(w)
      BY <2>3, <1>2, WorkerContract, FaultyContract
    <2>4. QED
      BY <2>1, <2>2, <2>3 DEF Next
  <1>4. QED
    BY <1>1, <1>3 DEF ContractInv

-----------------------------------------------------------------------------
(* The refinement mapping, read back.                                      *)

\* The status of an entry in a group, case by case.
StatusReads ==
    \A g \in InitialGroups, i \in Ids :
        /\ i > last => EntryStatus(g, i) = "absent"
        /\ i <= last /\ i > delivered[g] => EntryStatus(g, i) = "queued"
        /\ i \in pel[g] => EntryStatus(g, i) = "pending"
        /\ i <= last /\ Settled(g, i) => EntryStatus(g, i) = "done"

\* The part of ContractInv that is about the bus, whichever loop the workers run.
BusInv == BusTypeOK /\ Core /\ TrimmedIsSettled

\* ContractInv has that part.
LEMMA BusPart == ContractInv => BusInv
  BY SafeParts DEF ContractInv, BusInv, TypeOK

\* BusInv leaves no entry "lost": the status can be read off the stream.
LEMMA StatusRead == BusInv => StatusReads
  <1> SUFFICES ASSUME BusInv, NEW g \in InitialGroups, NEW i \in Ids
               PROVE  /\ i > last => EntryStatus(g, i) = "absent"
                      /\ i <= last /\ i > delivered[g] => EntryStatus(g, i) = "queued"
                      /\ i \in pel[g] => EntryStatus(g, i) = "pending"
                      /\ i <= last /\ Settled(g, i) => EntryStatus(g, i) = "done"
    BY DEF StatusReads
  <1>t. /\ last \in Nat /\ i \in Nat /\ 1 <= i /\ delivered[g] \in Nat /\ delivered[g] <= last
        /\ i \in pel[g] => i <= delivered[g]
        /\ i <= last => i \in stream \/ Settled(g, i)
    BY DEF BusInv, BusTypeOK, Core, PendingWasDelivered,
                     TrimmedIsSettled, Ids
  <1>2. CASE i > last
    BY <1>2, <1>t DEF EntryStatus, Settled
  <1>3. CASE i <= last /\ i > delivered[g]
    BY <1>3, <1>t DEF EntryStatus, Settled
  <1>4. CASE i <= last /\ i <= delivered[g] /\ i \in pel[g]
    BY <1>4, <1>t DEF EntryStatus, Settled
  <1>5. CASE i <= last /\ i <= delivered[g] /\ i \notin pel[g]
    BY <1>5, <1>t DEF EntryStatus, Settled
  <1>6. QED
    BY <1>2, <1>3, <1>4, <1>5, <1>t DEF EntryStatus, Settled

\* The cases are all there are.
LEMMA StatusCases ==
    ASSUME BusTypeOK, NEW g \in InitialGroups, NEW i \in Ids
    PROVE  i > last \/ (i <= last /\ i > delivered[g]) \/ i \in pel[g] \/ (i <= last /\ Settled(g, i))
  BY DEF BusTypeOK, Settled, Ids

\* Outcomes are added to one group: those of C to group g.
Concludes(g, C) ==
    \A h \in Groups : Outcome(h)' = IF h = g THEN Outcome(h) \cup C ELSE Outcome(h)

\* A step that changes neither the ids, nor what the groups have been handed or have
\* pending, nor an outcome, is no step of the contract, whatever it does to the stream.
LEMMA ContractStutters ==
    ASSUME BusInv, BusInv', UNCHANGED <<last, delivered, pel>>,
           \A g \in Groups : Outcome(g)' = Outcome(g)
    PROVE  UNCHANGED Contract!contractVars
  <1>1. StatusReads /\ StatusReads'
    BY StatusRead, PTL
  <1>2. ASSUME NEW g \in InitialGroups, NEW i \in Ids
        PROVE  EntryStatus(g, i)' = EntryStatus(g, i)
    <2>1. BusTypeOK
      BY DEF BusInv, Core
    <2>2. Settled(g, i)' <=> Settled(g, i)
      BY DEF Settled
    <2>3. QED
      BY <1>1, <2>1, <2>2, StatusCases DEF StatusReads
  <1>3. ContractStatus' = ContractStatus
    BY <1>2 DEF ContractStatus
  <1>4. QED
    BY <1>3 DEF Contract!contractVars

\* Outcomes for C, and the removal of S, whose pending entries have an outcome by
\* then, from the pending list of the same group: a Conclude of the contract.
LEMMA ContractConcludes ==
    ASSUME BusInv, BusInv', NEW g \in Groups, NEW C, NEW S,
           UNCHANGED <<last, stream, delivered>>, pel' = [pel EXCEPT ![g] = @ \ S],
           C \subseteq 1 .. last, Concludes(g, C),
           g \in InitialGroups => S \cap pel[g] \subseteq Outcome(g) \cup C
    PROVE  [Contract!Next]_(Contract!contractVars)
  <1>t. BusTypeOK /\ PendingWasDelivered
    BY DEF BusInv, Core
  <1>1. StatusReads /\ StatusReads'
    BY StatusRead, PTL
  <1>2. ASSUME NEW h \in InitialGroups, NEW i \in Ids
        PROVE  EntryStatus(h, i)' = IF h = g /\ i \in S \cap pel[g] THEN "done" ELSE EntryStatus(h, i)
    <2>1. CASE h = g /\ i \in S \cap pel[g]
      <3>1. i <= last /\ Settled(h, i)'
        BY <1>t, <2>1 DEF Settled, PendingWasDelivered, BusTypeOK, Ids
      <3>2. QED
        BY <1>1, <2>1, <3>1 DEF StatusReads
    <2>2. CASE ~(h = g /\ i \in S \cap pel[g])
      <3>1. i \in pel'[h] <=> i \in pel[h]
        BY <1>t, <2>2 DEF BusTypeOK
      <3>2. Settled(h, i)' <=> Settled(h, i)
        BY <3>1 DEF Settled
      <3>3. QED
        BY <1>1, <1>t, <2>2, <3>1, <3>2, StatusCases DEF StatusReads
    <2>3. QED
      BY <2>1, <2>2
  <1>3. CASE g \notin InitialGroups
    <2>1. ContractStatus' = ContractStatus
      BY <1>2, <1>3 DEF ContractStatus
    <2>2. [h \in InitialGroups |-> Outcome(h)]' = [h \in InitialGroups |-> Outcome(h)]
      BY <1>3 DEF Concludes
    <2>3. QED
      BY <2>1, <2>2 DEF Contract!contractVars
  <1>4. CASE g \in InitialGroups
    <2> DEFINE T == S \cap pel[g]
    <2>1. Contract!Move(g, T, "done")
      BY <1>2, <1>4 DEF Contract!Move, ContractStatus
    <2>2. [h \in InitialGroups |-> Outcome(h)]'
            = [[h \in InitialGroups |-> Outcome(h)] EXCEPT ![g] = @ \cup C]
      BY <1>4 DEF Concludes
    <2>3. T \subseteq Contract!At(g, "pending")
      BY <1>1, <1>4, <1>t DEF StatusReads, Contract!At, ContractStatus, BusTypeOK
    <2>4. C \subseteq Contract!Present(g)
      <3> SUFFICES ASSUME NEW i \in C
                   PROVE  i \in Ids /\ EntryStatus(g, i) # "absent"
        BY <1>4 DEF Contract!Present, ContractStatus
      <3>1. i \in Ids /\ ~(i > last) /\ i <= last
        BY <1>t DEF BusTypeOK, Ids
      <3>2. QED
        BY <3>1, <1>1, <1>4, <1>t, StatusCases DEF StatusReads
    <2>5. T \subseteq [h \in InitialGroups |-> Outcome(h)][g] \cup C
      BY <1>4
    <2>6. T \in SUBSET Ids /\ C \in SUBSET Ids
      BY <1>t DEF BusTypeOK, Ids
    <2>7. Contract!Conclude(g, C, T)
      BY <2>1, <2>2, <2>3, <2>4, <2>5 DEF Contract!Conclude
    <2>8. QED
      BY <1>4, <2>6, <2>7 DEF Contract!Next
  <1>5. QED
    BY <1>3, <1>4

\* XREADGROUP is a Deliver of the contract.
LEMMA ContractDelivers ==
    ASSUME BusInv, BusInv', NEW g \in Groups, NEW n \in Ids, ReadGroup(g, n),
           \A h \in Groups : Outcome(h)' = Outcome(h)
    PROVE  [Contract!Next]_(Contract!contractVars)
  <1> DEFINE R == Unread(g, n)
  <1>t. BusTypeOK /\ PendingWasDelivered
    BY DEF BusInv, Core
  <1>1. StatusReads /\ StatusReads'
    BY StatusRead, PTL
  <1>r. /\ delivered' = [delivered EXCEPT ![g] = n]
        /\ pel' = [pel EXCEPT ![g] = @ \cup R]
        /\ UNCHANGED last
        /\ \A i \in R : i \in Ids /\ i > delivered[g] /\ i <= n /\ i <= last
        /\ delivered[g] \in Nat /\ delivered[g] < n
        /\ \A i \in Ids : delivered[g] < i /\ i <= n /\ i <= last /\ i \notin R => i \notin stream
    BY <1>t DEF ReadGroup, Unread, BusTypeOK, Ids
  <1> HIDE DEF R
  <1>2. ASSUME NEW h \in InitialGroups, NEW i \in Ids
        PROVE  EntryStatus(h, i)' = IF h = g /\ i \in R THEN "pending" ELSE EntryStatus(h, i)
    <2>1. CASE h = g /\ i \in R
      BY <1>1, <1>r, <1>t, <2>1 DEF StatusReads, BusTypeOK
    <2>2. CASE h = g /\ i \notin R
      <3>1. i \in pel'[h] <=> i \in pel[h]
        BY <1>r, <1>t, <2>2 DEF BusTypeOK
      <3>2. delivered'[h] = n
        BY <1>r, <1>t, <2>2 DEF BusTypeOK
      <3>3. i <= last => (i > delivered'[h] <=> i > delivered[h])
        <4>1. ASSUME i <= last, delivered[h] < i, i <= n
              PROVE  FALSE
          <5>1. i \notin stream /\ i \in 1 .. last
            BY <1>r, <2>2, <4>1, <1>t DEF Ids, BusTypeOK
          <5>2. Settled(h, i)
            BY <5>1 DEF BusInv, TrimmedIsSettled
          <5>3. QED
            BY <4>1, <5>2, <1>r, <2>2 DEF Settled, Ids
        <4>2. QED
          BY <4>1, <3>2, <1>r, <2>2 DEF Ids
      <3>4. i <= last => (Settled(h, i)' <=> Settled(h, i))
        BY <3>1, <3>2, <3>3, <1>r, <2>2 DEF Settled, Ids
      <3>5. QED
        BY <1>1, <1>r, <1>t, <2>2, <3>1, <3>3, <3>4, StatusCases DEF StatusReads
    <2>3. CASE h # g
      <3>1. pel'[h] = pel[h] /\ delivered'[h] = delivered[h]
        BY <1>r, <1>t, <2>3 DEF BusTypeOK
      <3>2. Settled(h, i)' <=> Settled(h, i)
        BY <3>1 DEF Settled
      <3>3. QED
        BY <1>1, <1>r, <1>t, <2>3, <3>1, <3>2, StatusCases DEF StatusReads
    <2>4. QED
      BY <2>1, <2>2, <2>3
  <1>3. [h \in InitialGroups |-> Outcome(h)]' = [h \in InitialGroups |-> Outcome(h)]
    OBVIOUS
  <1>4. CASE g \notin InitialGroups
    <2>1. ContractStatus' = ContractStatus
      BY <1>2, <1>4 DEF ContractStatus
    <2>2. QED
      BY <2>1, <1>3 DEF Contract!contractVars
  <1>5. CASE g \in InitialGroups
    <2>1. Contract!Move(g, R, "pending")
      BY <1>2, <1>5 DEF Contract!Move, ContractStatus
    <2>2. R \subseteq Contract!At(g, "queued")
      BY <1>1, <1>5, <1>r DEF StatusReads, Contract!At, ContractStatus
    <2>3. R \in SUBSET Ids
      BY <1>r
    <2>4. Contract!Deliver(g, R)
      BY <1>3, <2>1, <2>2 DEF Contract!Deliver
    <2>5. QED
      BY <1>5, <2>3, <2>4 DEF Contract!Next
  <1>6. QED
    BY <1>4, <1>5

\* XADD is a Publish of the contract.
LEMMA ContractPublishes ==
    ASSUME BusInv, BusInv', Produce, \A h \in Groups : Outcome(h)' = Outcome(h)
    PROVE  Contract!Next
  <1> DEFINE new == last + 1
  <1>t. BusTypeOK /\ PendingWasDelivered
    BY DEF BusInv, Core
  <1>1. StatusReads /\ StatusReads'
    BY StatusRead, PTL
  <1>2. UNCHANGED <<delivered, pel>> /\ last \in Nat /\ last' = new /\ new \in Ids
    BY <1>t DEF Produce, BusTypeOK, Ids
  <1>3. ASSUME NEW h \in InitialGroups, NEW i \in Ids
        PROVE  EntryStatus(h, i)' = IF i = new THEN "queued" ELSE EntryStatus(h, i)
    <2>t. delivered[h] \in Nat /\ delivered[h] <= last /\ i \in Nat /\ (i \in pel[h] => i <= delivered[h])
      BY <1>t DEF BusTypeOK, Ids, PendingWasDelivered
    <2>1. CASE i = new
      BY <1>1, <1>2, <2>t, <2>1 DEF StatusReads
    <2>2. CASE i # new
      <3>1. (i > last <=> i > last') /\ (i <= last <=> i <= last')
        BY <1>2, <2>t, <2>2
      <3>2. Settled(h, i)' <=> Settled(h, i)
        BY <1>2 DEF Settled
      <3>3. QED
        BY <1>1, <1>2, <1>t, <2>2, <3>1, <3>2, StatusCases DEF StatusReads
    <2>3. QED
      BY <2>1, <2>2
  <1>4. Contract!Absent(new)
    BY <1>1, <1>2 DEF StatusReads, Contract!Absent, ContractStatus
  <1>5. ContractStatus' = [h \in InitialGroups |-> [ContractStatus[h] EXCEPT ![new] = "queued"]]
    BY <1>2, <1>3 DEF ContractStatus
  <1>6. Contract!Publish(new)
    BY <1>4, <1>5 DEF Contract!Publish
  <1>7. QED
    BY <1>2, <1>6 DEF Contract!Next

\* Every step of a worker is a step of the contract, or none.
LEMMA WorkerImplements ==
    ASSUME ContractInv, ContractInv', NEW w \in Workers, Worker(w)
    PROVE  [Contract!Next]_(Contract!contractVars)
  <1> DEFINE g == GroupOf[w]
  <1>g. g \in Groups
    OBVIOUS
  <1>t. /\ BusTypeOK /\ WorkerTypeOK /\ OutcomeTypeOK /\ AcksAreEarned /\ TrimmedIsSettled
        /\ PendingWasDelivered
    BY SafeParts, TypeParts DEF ContractInv, Core
  <1>b. BusInv /\ BusInv'
    BY BusPart, PTL
  <1>o. UNCHANGED outcomeVars => \A h \in Groups : Outcome(h)' = Outcome(h)
    BY DEF outcomeVars, Outcome
  <1>h. /\ inbox[w] \subseteq 1 .. last
        /\ cur[w] # 0 => cur[w] \in 1 .. last
    BY <1>t, <1>g DEF ContractInv, HeldWasDelivered, BusTypeOK, WorkerTypeOK
  <1>p. ASSUME UNCHANGED busVars
        PROVE  UNCHANGED <<last, stream, delivered>> /\ pel' = [pel EXCEPT ![g] = @ \ {}]
    BY <1>p, <1>t DEF busVars, streamVars, BusTypeOK
  <1>1. CASE Register(w) \/ ClaimNothing(w) \/ ConsumeNothing(w) \/ \E i \in Ids : Yield(w, i)
    <2>1. UNCHANGED <<last, delivered, pel, outcomeVars>>
      BY <1>1 DEF Register, EnsureGroup, ClaimNothing, ConsumeNothing, Yield, busVars, streamVars
    <2>2. QED
      BY <1>b, <2>1, <1>o, ContractStutters
  <1>2. ASSUME NEW S \in SUBSET Ids, ClaimPending(w, S)
        PROVE  [Contract!Next]_(Contract!contractVars)
    <2>1. UNCHANGED <<last, stream, delivered, outcomeVars>> /\ pel' = [pel EXCEPT ![g] = @ \ (S \ stream)]
      BY <1>2 DEF ClaimPending, AutoClaim
    <2>2. g \in InitialGroups => (S \ stream) \cap pel[g] = {}
      BY <1>t DEF TrimmedIsSettled, Settled, PendingWasDelivered, BusTypeOK
    <2>3. Concludes(g, {})
      BY <1>o, <2>1 DEF Concludes
    <2>4. QED
      BY <1>b, <1>g, <2>1, <2>2, <2>3, ContractConcludes
  <1>3. ASSUME NEW n \in Ids, Consume(w, n)
        PROVE  [Contract!Next]_(Contract!contractVars)
    BY <1>b, <1>3, <1>g, <1>o, ContractDelivers DEF Consume
  <1>4. ASSUME NEW i \in Ids, NEW wrote \in BOOLEAN, NEW acked \in BOOLEAN,
               Quarantine(w, i, wrote, acked)
        PROVE  [Contract!Next]_(Contract!contractVars)
    <2> DEFINE C == IF wrote \/ acked THEN {i} ELSE {}
               S == IF acked THEN {i} ELSE {}
    <2>1. UNCHANGED <<last, stream, delivered>> /\ pel' = [pel EXCEPT ![g] = @ \ S]
      BY <1>4 DEF Quarantine, QuarantineEntry, XAck
    <2>2. Concludes(g, C)
      BY <1>4, <1>t, <1>g DEF Quarantine, QuarantineEntry, Concludes, Outcome, OutcomeTypeOK
    <2>3. C \subseteq 1 .. last
      BY <1>4, <1>h DEF Quarantine, Yielded
    <2>4. S \subseteq C
      OBVIOUS
    <2> HIDE DEF C, S
    <2>5. QED
      BY <1>b, <1>g, <2>1, <2>2, <2>3, <2>4, ContractConcludes
  <1>5. CASE DeadLetter(w) \/ HandleOk(w)
    <2>1. UNCHANGED busVars /\ cur[w] \in 1 .. last
      BY <1>5, <1>h DEF DeadLetter, HandleOk, HandlerRuns
    <2>2. Concludes(g, {cur[w]})
      BY <1>5, <1>t, <1>g DEF DeadLetter, HandleOk, Concludes, Outcome, OutcomeTypeOK
    <2>3. QED
      BY <1>b, <1>g, <1>p, <2>1, <2>2, ContractConcludes
  <1>6. CASE HandleFail(w)
    <2>1. UNCHANGED <<last, delivered, pel>> /\ \A h \in Groups : Outcome(h)' = Outcome(h)
      BY <1>6 DEF HandleFail, busVars, streamVars, Outcome
    <2>2. QED
      BY <1>b, <2>1, ContractStutters
  <1>7. CASE Flush(w)
    <2>1. UNCHANGED <<last, stream, delivered, outcomeVars>> /\ pel' = [pel EXCEPT ![g] = @ \ acks[w]]
      BY <1>7 DEF Flush, XAck
    <2>2. acks[w] \subseteq Outcome(g) /\ Concludes(g, {})
      BY <1>t, <1>o, <2>1 DEF AcksAreEarned, Concludes
    <2>3. QED
      BY <1>b, <1>g, <2>1, <2>2, ContractConcludes
  <1>8. QED
    BY <1>1, <1>2, <1>3, <1>4, <1>5, <1>6, <1>7 DEF Worker, Work

\* So is every fault.
LEMMA FaultyImplements ==
    ASSUME ContractInv, ContractInv', NEW w \in Workers, Faulty(w)
    PROVE  [Contract!Next]_(Contract!contractVars)
  <1> DEFINE g == GroupOf[w]
  <1>g. g \in Groups
    OBVIOUS
  <1>t. /\ BusTypeOK /\ WorkerTypeOK /\ OutcomeTypeOK /\ AcksAreEarned /\ TrimmedIsSettled
        /\ PendingWasDelivered
    BY SafeParts, TypeParts DEF ContractInv, Core
  <1>b. BusInv /\ BusInv'
    BY BusPart, PTL
  <1>o. UNCHANGED outcomeVars => \A h \in Groups : Outcome(h)' = Outcome(h)
    BY DEF outcomeVars, Outcome
  <1>1. CASE Break(w) \/ Crash(w)
    <2>1. UNCHANGED <<last, delivered, pel, outcomeVars>>
      BY <1>1 DEF Break, Crash, streamVars
    <2>2. QED
      BY <1>b, <2>1, <1>o, ContractStutters
  <1>2. ASSUME NEW A \in SUBSET Ids, BusError(w, A)
        PROVE  [Contract!Next]_(Contract!contractVars)
    <2>1. UNCHANGED <<last, stream, delivered, outcomeVars>> /\ pel' = [pel EXCEPT ![g] = @ \ A]
      BY <1>2 DEF BusError, XAck
    <2>2. A \subseteq Outcome(g) /\ Concludes(g, {})
      BY <1>2, <1>t, <1>o, <2>1 DEF BusError, AcksAreEarned, Concludes
    <2>3. QED
      BY <1>b, <1>g, <2>1, <2>2, ContractConcludes
  <1>3. ASSUME NEW wrote \in BOOLEAN, DeadLetterError(w, wrote)
        PROVE  [Contract!Next]_(Contract!contractVars)
    <2> DEFINE C == IF wrote THEN {cur[w]} ELSE {}
    <2>1. UNCHANGED <<last, stream, delivered>> /\ pel' = [pel EXCEPT ![g] = @ \ {}]
      BY <1>3, <1>t DEF DeadLetterError, streamVars, BusTypeOK
    <2>2. C \subseteq 1 .. last
      BY <1>3, <1>t, <1>g DEF DeadLetterError, ContractInv, HeldWasDelivered, BusTypeOK, WorkerTypeOK
    <2>3. Concludes(g, C)
      BY <1>3, <1>t, <1>g DEF DeadLetterError, Concludes, Outcome, OutcomeTypeOK
    <2> HIDE DEF C
    <2>4. QED
      BY <1>b, <1>g, <2>1, <2>2, <2>3, ContractConcludes
  <1>4. ASSUME NEW n \in Ids, ReadLost(w, n)
        PROVE  [Contract!Next]_(Contract!contractVars)
    BY <1>b, <1>4, <1>g, <1>o, ContractDelivers DEF ReadLost
  <1>5. ASSUME NEW S \in SUBSET Ids, ClaimLost(w, S)
        PROVE  [Contract!Next]_(Contract!contractVars)
    <2>1. UNCHANGED <<last, stream, delivered, outcomeVars>> /\ pel' = [pel EXCEPT ![g] = @ \ (S \ stream)]
      BY <1>5 DEF ClaimLost, AutoClaim
    <2>2. g \in InitialGroups => (S \ stream) \cap pel[g] = {}
      BY <1>t DEF TrimmedIsSettled, Settled, PendingWasDelivered, BusTypeOK
    <2>3. Concludes(g, {})
      BY <1>o, <2>1 DEF Concludes
    <2>4. QED
      BY <1>b, <1>g, <2>1, <2>2, <2>3, ContractConcludes
  <1>6. QED
    BY <1>1, <1>2, <1>3, <1>4, <1>5 DEF Faulty

\* The Redis bus, its reaper and its workers implement the at-least-once contract
\* of DeliveryContract with every group registered from the start: an entry goes from
\* queued to pending to done, is done only with an outcome, and never goes back,
\* whatever is claimed, trimmed, lost or restarted on the way.
THEOREM ImplementsContract == Spec => KeepsContract
  <1>1. Init => Contract!Init
    <2> SUFFICES ASSUME Init PROVE Contract!Init
      OBVIOUS
    <2>1. \A g \in InitialGroups, i \in Ids : EntryStatus(g, i) = "absent"
      <3>1. StatusReads
        BY InitContract, BusPart, StatusRead
      <3>2. \A i \in Ids : i > last
        BY DEF Init, BusInit, Ids
      <3>3. QED
        BY <3>1, <3>2 DEF StatusReads
    <2>2. \A g \in InitialGroups : Outcome(g) = {}
      BY DEF Init, OutcomeInit, Outcome
    <2>3. QED
      BY <2>1, <2>2 DEF Contract!Init, ContractStatus
  <1>2. ContractInv /\ ContractInv' /\ [Next]_vars => [Contract!Next]_(Contract!contractVars)
    <2> SUFFICES ASSUME ContractInv, ContractInv', [Next]_vars
                 PROVE  [Contract!Next]_(Contract!contractVars)
      OBVIOUS
    <2>b. BusInv /\ BusInv'
      BY BusPart, PTL
    <2>o. UNCHANGED outcomeVars => \A h \in Groups : Outcome(h)' = Outcome(h)
      BY DEF outcomeVars, Outcome
    <2>1. CASE UNCHANGED vars
      <3>1. UNCHANGED <<last, delivered, pel, outcomeVars>>
        BY <2>1 DEF vars, busVars, streamVars
      <3>2. QED
        BY <2>b, <3>1, <2>o, ContractStutters
    <2>2. CASE Produce /\ UNCHANGED <<workerVars, outcomeVars>>
      BY <2>b, <2>2, <2>o, ContractPublishes
    <2>3. CASE Reaper /\ UNCHANGED <<workerVars, outcomeVars>>
      <3>1. UNCHANGED <<last, delivered, pel, outcomeVars>>
        BY <2>3 DEF Reaper, TrimSnapshot, TrimExamine, TrimGiveUp, TrimApply, streamVars
      <3>2. QED
        BY <2>b, <3>1, <2>o, ContractStutters
    <2>4. CASE \E w \in Workers : Worker(w) \/ Faulty(w)
      BY <2>4, WorkerImplements, FaultyImplements
    <2>5. QED
      BY <2>1, <2>2, <2>3, <2>4 DEF Next
  <1>3. QED
    BY <1>1, <1>2, InitContract, ContractStep, PTL DEF Spec, KeepsContract, Contract!Spec

-----------------------------------------------------------------------------
(* The redelivery cap.  Every delivery of an entry gives one worker one    *)
(* chance to run the handler on it, and a chance taken up late sees a      *)
(* counter at least as high as its own delivery.                           *)

\* The workers of group g that have entry i in their hands.
Holders(g, i) == {w \in Workers : GroupOf[w] = g /\ (i \in inbox[w] \/ cur[w] = i)}

\* Those of them that may still run the handler on it.
Runners(g, i) ==
    {w \in Workers :
        /\ GroupOf[w] = g
        /\ \/ cur[w] = i /\ count[w] <= MaxRedeliveries
           \/ i \in inbox[w] /\ pass[w] = "consume" /\ 1 <= MaxRedeliveries}

\* Between two passes a worker holds nothing, and never an entry twice.
HandsClean ==
    \A w \in Workers :
        /\ pc[w] # "work" => inbox[w] = {} /\ cur[w] = 0
        /\ cur[w] \notin inbox[w]

\* The handler has not run on what the group has not been handed.
UnreadNotRun == \A g \in Groups, i \in Ids : i > delivered[g] => runs[g][i] = 0

\* A pending entry has had no more runs than deliveries, those still to come
\* counted; and the runs that may still come respect the cap.
RunsCounted ==
    \A g \in Groups : \A i \in pel[g] :
        /\ runs[g][i] + Cardinality(Holders(g, i)) <= times[g][i]
        /\ runs[g][i] + Cardinality(Runners(g, i)) <= MaxRedeliveries

CapInv == ContractInv /\ HandsClean /\ UnreadNotRun /\ RunsCounted

\* Holders and runners are finitely many.
LEMMA HoldersFinite ==
    ASSUME NEW g, NEW i
    PROVE  /\ IsFiniteSet(Holders(g, i)) /\ Cardinality(Holders(g, i)) \in Nat
           /\ IsFiniteSet(Runners(g, i)) /\ Cardinality(Runners(g, i)) \in Nat
  <1>1. Holders(g, i) \in SUBSET Workers /\ Runners(g, i) \in SUBSET Workers
    BY DEF Holders, Runners
  <1>2. IsFiniteSet(Holders(g, i)) /\ IsFiniteSet(Runners(g, i))
    BY <1>1, FS_Subset
  <1>3. QED
    BY <1>2, FS_CardinalityType

\* The same in the next state.
LEMMA HoldersFiniteNext ==
    ASSUME NEW g, NEW i
    PROVE  /\ IsFiniteSet(Holders(g, i)') /\ Cardinality(Holders(g, i)') \in Nat
           /\ IsFiniteSet(Runners(g, i)') /\ Cardinality(Runners(g, i)') \in Nat
  <1>1. Holders(g, i)' \in SUBSET Workers /\ Runners(g, i)' \in SUBSET Workers
    BY DEF Holders, Runners
  <1>2. IsFiniteSet(Holders(g, i)') /\ IsFiniteSet(Runners(g, i)')
    BY <1>1, FS_Subset
  <1>3. QED
    BY <1>2, FS_CardinalityType

\* One entry stays within its deliveries and the cap when nobody takes it up and
\* its counter does not fall.
LEMMA CountKept ==
    ASSUME TypeOK, TypeOK', RunsCounted, NEW g \in Groups, NEW i \in pel[g],
           runs'[g][i] = runs[g][i], times[g][i] <= times'[g][i],
           Holders(g, i)' \subseteq Holders(g, i), Runners(g, i)' \subseteq Runners(g, i)
    PROVE  /\ runs'[g][i] + Cardinality(Holders(g, i)') <= times'[g][i]
           /\ runs'[g][i] + Cardinality(Runners(g, i)') <= MaxRedeliveries
  <1> DEFINE H == Cardinality(Holders(g, i))
             K == Cardinality(Runners(g, i))
             Hn == Cardinality(Holders(g, i)')
             Kn == Cardinality(Runners(g, i)')
  <1>0. /\ Holders(g, i)' \in SUBSET Holders(g, i) /\ IsFiniteSet(Holders(g, i))
        /\ Runners(g, i)' \in SUBSET Runners(g, i) /\ IsFiniteSet(Runners(g, i))
    BY HoldersFinite
  <1>1. Hn <= H /\ Kn <= K
    BY <1>0, FS_Subset
  <1>2. H \in Nat /\ K \in Nat /\ Hn \in Nat /\ Kn \in Nat
    BY HoldersFinite, HoldersFiniteNext
  <1>3. runs[g][i] + H <= times[g][i] /\ runs[g][i] + K <= MaxRedeliveries
    BY DEF RunsCounted
  <1>4. runs[g][i] \in Nat /\ times[g][i] \in Nat /\ times'[g][i] \in Nat
    BY DEF TypeOK, BusTypeOK, OutcomeTypeOK
  <1>5. runs'[g][i] + Hn <= times'[g][i] /\ runs'[g][i] + Kn <= MaxRedeliveries
    <2> HIDE DEF H, K, Hn, Kn
    <2>1. QED
      BY <1>1, <1>2, <1>3, <1>4
  <1>6. QED
    BY <1>5

\* A worker's own hands are the only ones a step of its changes.
LEMMA HoldersOfOthers ==
    ASSUME NEW w \in Workers, NEW i, NEW g,
           \A v \in Workers \ {w} : /\ inbox'[v] = inbox[v] /\ cur'[v] = cur[v]
                                    /\ count'[v] = count[v] /\ pass'[v] = pass[v]
    PROVE  /\ Holders(g, i)' \subseteq Holders(g, i) \cup {w}
           /\ Runners(g, i)' \subseteq Runners(g, i) \cup {w}
           /\ w \notin Holders(g, i)' => Holders(g, i)' = Holders(g, i) \ {w}
           /\ w \notin Runners(g, i)' => Runners(g, i)' = Runners(g, i) \ {w}
  BY DEF Holders, Runners

\* The cap survives a step in which worker w takes up nothing.
LEMMA CapQuiet ==
    ASSUME TypeOK, TypeOK', RunsCounted, NEW w \in Workers,
           \A v \in Workers \ {w} : /\ inbox'[v] = inbox[v] /\ cur'[v] = cur[v]
                                    /\ count'[v] = count[v] /\ pass'[v] = pass[v],
           inbox'[w] \subseteq inbox[w],
           cur'[w] = 0 \/ (cur'[w] = cur[w] /\ count'[w] = count[w]),
           inbox'[w] # {} => pass'[w] = pass[w],
           \A g \in Groups : pel'[g] \subseteq pel[g] /\ runs'[g] = runs[g],
           \A g \in Groups : \A i \in pel[g] : times[g][i] <= times'[g][i]
    PROVE  RunsCounted'
  <1> SUFFICES ASSUME NEW g \in Groups, NEW i \in pel'[g]
               PROVE  /\ runs'[g][i] + Cardinality(Holders(g, i)') <= times'[g][i]
                      /\ runs'[g][i] + Cardinality(Runners(g, i)') <= MaxRedeliveries
    BY DEF RunsCounted
  <1>1. i \in pel[g] /\ i # 0
    BY DEF TypeOK, BusTypeOK, Ids
  <1>2. Holders(g, i)' \subseteq Holders(g, i)
    BY <1>1 DEF Holders
  <1>3. Runners(g, i)' \subseteq Runners(g, i)
    BY <1>1 DEF Runners
  <1>4. QED
    BY <1>1, <1>2, <1>3, CountKept

\* At most one element, and a natural number.
LEMMA AtMostOne ==
    ASSUME NEW S, NEW x, S \subseteq {x}
    PROVE  Cardinality(S) \in Nat /\ Cardinality(S) <= 1 /\ (S = {} => Cardinality(S) = 0)
  <1>1. S = {} \/ S = {x}
    OBVIOUS
  <1>2. Cardinality({}) = 0 /\ Cardinality({x}) = 1
    BY FS_EmptySet, FS_Singleton
  <1>3. QED
    BY <1>1, <1>2

\* The cap survives XREADGROUP, whether worker w of the group gets the answer or
\* it is lost.
LEMMA CapRead ==
    ASSUME CapInv, TypeOK', NEW w \in Workers, NEW n \in Ids, ReadGroup(GroupOf[w], n),
           UNCHANGED <<cur, count, runs>>,
           \/ UNCHANGED <<inbox, pass>>
           \/ /\ inbox' = [inbox EXCEPT ![w] = Unread(GroupOf[w], n)]
              /\ pass' = [pass EXCEPT ![w] = "consume"]
              /\ cur[w] = 0
    PROVE  RunsCounted'
  <1> DEFINE g == GroupOf[w]
             R == Unread(g, n)
  <1>t. TypeOK /\ BusTypeOK /\ WorkerTypeOK /\ RunsCounted /\ UnreadNotRun /\ HeldWasDelivered /\ g \in Groups
    BY TypeParts DEF CapInv, ContractInv, SafeInv
  <1>r. /\ \A i \in R : i \in Ids /\ i > delivered[g]
        /\ pel' = [pel EXCEPT ![g] = @ \cup R]
        /\ \A h \in Groups, i \in Ids : times'[h][i] = IF h = g /\ i \in R THEN 1 ELSE times[h][i]
    <2>1. \A i \in R : i \in Ids /\ i > delivered[g]
      BY <1>t, UnreadType DEF Unread
    <2>2. /\ pel' = [pel EXCEPT ![g] = @ \cup R]
          /\ times' = [times EXCEPT ![g] = [i \in Ids |-> IF i \in R THEN 1 ELSE @[i]]]
      BY DEF ReadGroup
    <2> HIDE DEF R
    <2>3. \A h \in Groups, i \in Ids : times'[h][i] = IF h = g /\ i \in R THEN 1 ELSE times[h][i]
      BY <2>2, <1>t DEF BusTypeOK
    <2>4. QED
      BY <2>1, <2>2, <2>3
  <1>i. ASSUME NEW v \in Workers
        PROVE  \/ inbox'[v] = inbox[v] /\ pass'[v] = pass[v]
               \/ v = w /\ inbox'[v] = R /\ cur[v] = 0
    <2>1. CASE UNCHANGED <<inbox, pass>>
      BY <2>1
    <2>2. CASE /\ inbox' = [inbox EXCEPT ![w] = R]
               /\ pass' = [pass EXCEPT ![w] = "consume"]
               /\ cur[w] = 0
      <3> HIDE DEF R
      <3>1. QED
        BY <2>2, <1>t DEF WorkerTypeOK
    <2>3. QED
      BY <2>1, <2>2
  <1> HIDE DEF R
  <1> SUFFICES ASSUME NEW h \in Groups, NEW i \in pel'[h]
               PROVE  /\ runs'[h][i] + Cardinality(Holders(h, i)') <= times'[h][i]
                      /\ runs'[h][i] + Cardinality(Runners(h, i)') <= MaxRedeliveries
    BY DEF RunsCounted
  <1>1. CASE h = g /\ i \in R
    <2>1. runs'[h][i] = 0 /\ times'[h][i] = 1
      BY <1>1, <1>r, <1>t DEF UnreadNotRun
    <2>2. \A v \in Workers : GroupOf[v] = g => i \notin inbox[v] /\ cur[v] # i
      BY <1>1, <1>r, <1>t DEF HeldWasDelivered, BusTypeOK, WorkerTypeOK, Ids
    <2>3. Holders(h, i)' \subseteq {w} /\ Runners(h, i)' \subseteq {w}
      BY <1>1, <1>i, <2>2 DEF Holders, Runners
    <2>4. ~(1 <= MaxRedeliveries) => Runners(h, i)' = {}
      BY <1>1, <2>2 DEF Runners
    <2>5. /\ Cardinality(Holders(h, i)') \in Nat /\ Cardinality(Holders(h, i)') <= 1
          /\ Cardinality(Runners(h, i)') \in Nat /\ Cardinality(Runners(h, i)') <= 1
          /\ Runners(h, i)' = {} => Cardinality(Runners(h, i)') = 0
      BY <2>3, AtMostOne
    <2>6. QED
      BY <2>1, <2>4, <2>5
  <1>2. CASE ~(h = g /\ i \in R)
    <2>1. i \in pel[h] /\ times'[h][i] = times[h][i] /\ times[h][i] \in Nat
      BY <1>2, <1>r, <1>t DEF BusTypeOK
    <2>2. Holders(h, i)' \subseteq Holders(h, i)
      BY <1>2, <1>i DEF Holders
    <2>3. Runners(h, i)' \subseteq Runners(h, i)
      BY <1>2, <1>i DEF Runners
    <2>4. QED
      BY <1>t, <2>1, <2>2, <2>3, CountKept
  <1>3. QED
    BY <1>1, <1>2

\* The cap survives XAUTOCLAIM: each claim counts one more delivery.
LEMMA CapClaim ==
    ASSUME CapInv, TypeOK', NEW w \in Workers, NEW S \in SUBSET Ids, ClaimPending(w, S)
    PROVE  RunsCounted'
  <1> DEFINE g == GroupOf[w]
  <1>t. TypeOK /\ BusTypeOK /\ WorkerTypeOK /\ OutcomeTypeOK /\ RunsCounted /\ g \in Groups
    BY TypeParts DEF CapInv, ContractInv, SafeInv
  <1>e. inbox[w] = {} /\ cur[w] = 0
    BY DEF ClaimPending, CapInv, HandsClean
  <1>c. /\ UNCHANGED <<cur, count, runs>>
        /\ inbox' = [inbox EXCEPT ![w] = S \cap stream]
        /\ pass' = [pass EXCEPT ![w] = "claim"]
        /\ \A h \in Groups : pel'[h] \subseteq pel[h]
        /\ \A h \in Groups, i \in Ids :
              times'[h][i] = IF h = g /\ i \in S \cap stream THEN times[h][i] + 1 ELSE times[h][i]
    BY <1>t DEF ClaimPending, AutoClaim, BusTypeOK, outcomeVars
  <1> SUFFICES ASSUME NEW h \in Groups, NEW i \in pel'[h]
               PROVE  /\ runs'[h][i] + Cardinality(Holders(h, i)') <= times'[h][i]
                      /\ runs'[h][i] + Cardinality(Runners(h, i)') <= MaxRedeliveries
    BY DEF RunsCounted
  <1>i. i \in pel[h] /\ i \in Ids /\ i # 0
    BY <1>c, <1>t DEF BusTypeOK, Ids
  <1>o. \A v \in Workers \ {w} : /\ inbox'[v] = inbox[v] /\ cur'[v] = cur[v]
                                 /\ count'[v] = count[v] /\ pass'[v] = pass[v]
    BY <1>c, <1>t DEF WorkerTypeOK
  <1>w. inbox'[w] = S \cap stream /\ cur'[w] = 0 /\ pass'[w] = "claim"
    BY <1>c, <1>e, <1>t DEF WorkerTypeOK
  <1>r. Runners(h, i)' \subseteq Runners(h, i)
    BY <1>o, <1>w, <1>i DEF Runners
  <1>1. CASE h = g /\ i \in S \cap stream
    <2> DEFINE H == Cardinality(Holders(h, i))
               K == Cardinality(Runners(h, i))
               Hn == Cardinality(Holders(h, i)')
               Kn == Cardinality(Runners(h, i)')
    <2>1. /\ IsFiniteSet(Holders(h, i)) /\ IsFiniteSet(Runners(h, i))
          /\ H \in Nat /\ K \in Nat /\ Hn \in Nat /\ Kn \in Nat
      BY HoldersFinite, HoldersFiniteNext
    <2>2. Holders(h, i)' \in SUBSET (Holders(h, i) \cup {w}) /\ Runners(h, i)' \in SUBSET Runners(h, i)
      BY <1>o, <1>r, HoldersOfOthers
    <2>3. IsFiniteSet(Holders(h, i) \cup {w}) /\ Cardinality(Holders(h, i) \cup {w}) \in {H, H + 1}
      BY <2>1, FS_AddElement
    <2>4. Hn <= Cardinality(Holders(h, i) \cup {w}) /\ Kn <= K
      BY <2>1, <2>2, <2>3, FS_Subset
    <2>5. runs[h][i] + H <= times[h][i] /\ runs[h][i] + K <= MaxRedeliveries
      BY <1>i, <1>t DEF RunsCounted
    <2>6. runs'[h][i] = runs[h][i] /\ runs[h][i] \in Nat /\ times[h][i] \in Nat
          /\ times'[h][i] = times[h][i] + 1
      BY <1>1, <1>c, <1>i, <1>t DEF BusTypeOK, OutcomeTypeOK
    <2>7. runs'[h][i] + Hn <= times'[h][i] /\ runs'[h][i] + Kn <= MaxRedeliveries
      <3>1. Hn <= H + 1
        BY <2>1, <2>3, <2>4
      <3> HIDE DEF H, K, Hn, Kn
      <3>2. QED
        BY <2>1, <2>4, <2>5, <2>6, <3>1
    <2>8. QED
      BY <2>7
  <1>2. CASE ~(h = g /\ i \in S \cap stream)
    <2>1. Holders(h, i)' \subseteq Holders(h, i)
      BY <1>2, <1>o, <1>w, <1>i DEF Holders
    <2>2. runs'[h][i] = runs[h][i] /\ times[h][i] <= times'[h][i]
      BY <1>2, <1>c, <1>i, <1>t DEF BusTypeOK
    <2>3. QED
      BY <1>t, <1>i, <1>r, <2>1, <2>2, CountKept
  <1>3. QED
    BY <1>1, <1>2

\* The cap survives a message being passed to the handler: a counter within the cap
\* bounds everybody who holds the entry.
LEMMA CapYield ==
    ASSUME CapInv, TypeOK', NEW w \in Workers, NEW i \in Ids, Yield(w, i)
    PROVE  RunsCounted'
  <1> DEFINE g == GroupOf[w]
  <1>t. TypeOK /\ BusTypeOK /\ WorkerTypeOK /\ OutcomeTypeOK /\ RunsCounted /\ g \in Groups
    BY TypeParts DEF CapInv, ContractInv, SafeInv
  <1>y. /\ UNCHANGED <<pel, times, runs, pass>>
        /\ cur[w] = 0 /\ i \in inbox[w]
        /\ inbox' = [inbox EXCEPT ![w] = @ \ {i}]
        /\ cur' = [cur EXCEPT ![w] = i]
        /\ count' = [count EXCEPT ![w] = IF pass[w] = "consume" THEN 1 ELSE TimesDelivered(g, i)]
    BY DEF Yield, Yielded, busVars, streamVars, outcomeVars
  <1>o. \A v \in Workers \ {w} : /\ inbox'[v] = inbox[v] /\ cur'[v] = cur[v]
                                 /\ count'[v] = count[v] /\ pass'[v] = pass[v]
    BY <1>y, <1>t DEF WorkerTypeOK
  <1>w. /\ inbox'[w] = inbox[w] \ {i} /\ cur'[w] = i /\ pass'[w] = pass[w]
        /\ count'[w] = IF pass[w] = "consume" THEN 1 ELSE TimesDelivered(g, i)
    BY <1>y, <1>t DEF WorkerTypeOK
  <1> SUFFICES ASSUME NEW h \in Groups, NEW k \in pel[h]
               PROVE  /\ runs[h][k] + Cardinality(Holders(h, k)') <= times[h][k]
                      /\ runs[h][k] + Cardinality(Runners(h, k)') <= MaxRedeliveries
    BY <1>y DEF RunsCounted
  <1>k. k # 0 /\ k \in Ids /\ runs[h][k] \in Nat /\ times[h][k] \in Nat
    <2>1. k \in Ids
      BY <1>t DEF BusTypeOK
    <2>2. k # 0
      BY <2>1 DEF Ids
    <2>3. QED
      BY <1>t, <2>1, <2>2 DEF BusTypeOK, OutcomeTypeOK
  <1>h. Holders(h, k)' \subseteq Holders(h, k)
    BY <1>o, <1>w, <1>y, <1>k DEF Holders
  <1>1. CASE Runners(h, k)' \subseteq Runners(h, k)
    <2>1. runs'[h][k] = runs[h][k] /\ times'[h][k] = times[h][k] /\ times[h][k] <= times'[h][k]
      BY <1>y, <1>k
    <2>2. QED
      BY <1>1, <1>t, <1>h, <2>1, CountKept
  <1>2. CASE ~(Runners(h, k)' \subseteq Runners(h, k))
    <2>1. h = g /\ k = i /\ pass[w] # "consume" /\ count'[w] <= MaxRedeliveries
      BY <1>2, <1>o, <1>w, <1>y, <1>k DEF Runners
    <2>2. times[h][k] <= MaxRedeliveries
      BY <1>w, <2>1 DEF TimesDelivered
    <2>3. Runners(h, k)' \in SUBSET Holders(h, k) /\ Holders(h, k)' \in SUBSET Holders(h, k)
      <3>1. Runners(h, k)' \subseteq Holders(h, k)'
        BY DEF Runners, Holders
      <3>2. QED
        BY <3>1, <1>h
    <2>4. IsFiniteSet(Holders(h, k)) /\ Cardinality(Holders(h, k)) \in Nat
          /\ Cardinality(Holders(h, k)') \in Nat /\ Cardinality(Runners(h, k)') \in Nat
      BY HoldersFinite, HoldersFiniteNext
    <2>5. /\ Cardinality(Runners(h, k)') <= Cardinality(Holders(h, k))
          /\ Cardinality(Holders(h, k)') <= Cardinality(Holders(h, k))
      BY <2>3, <2>4, FS_Subset
    <2>6. runs[h][k] + Cardinality(Holders(h, k)) <= times[h][k]
      BY <1>t DEF RunsCounted
    <2>7. QED
      BY <1>k, <2>2, <2>4, <2>5, <2>6
  <1>3. QED
    BY <1>1, <1>2

\* The cap survives a run of the handler: the worker gives up its chance.
LEMMA CapRun ==
    ASSUME CapInv, TypeOK', NEW w \in Workers, HandlerRuns(w), Done(w),
           UNCHANGED <<busVars, pass, inbox>>
    PROVE  RunsCounted'
  <1> DEFINE g == GroupOf[w]
             i == cur[w]
  <1>t. TypeOK /\ BusTypeOK /\ WorkerTypeOK /\ OutcomeTypeOK /\ RunsCounted /\ g \in Groups
    BY TypeParts DEF CapInv, ContractInv, SafeInv
  <1>d. /\ UNCHANGED <<pel, times, pass, inbox>>
        /\ i # 0 /\ count[w] <= MaxRedeliveries /\ i \notin inbox[w]
        /\ cur' = [cur EXCEPT ![w] = 0]
        /\ count' = [count EXCEPT ![w] = 0]
        /\ runs' = [runs EXCEPT ![g][i] = @ + 1]
    BY DEF HandlerRuns, Done, busVars, streamVars, CapInv, HandsClean
  <1>o. \A v \in Workers \ {w} : /\ inbox'[v] = inbox[v] /\ cur'[v] = cur[v]
                                 /\ count'[v] = count[v] /\ pass'[v] = pass[v]
    BY <1>d, <1>t DEF WorkerTypeOK
  <1>w. inbox'[w] = inbox[w] /\ cur'[w] = 0 /\ pass'[w] = pass[w]
    BY <1>d, <1>t DEF WorkerTypeOK
  <1> SUFFICES ASSUME NEW h \in Groups, NEW k \in pel[h]
               PROVE  /\ runs'[h][k] + Cardinality(Holders(h, k)') <= times[h][k]
                      /\ runs'[h][k] + Cardinality(Runners(h, k)') <= MaxRedeliveries
    BY <1>d DEF RunsCounted
  <1>k. k # 0 /\ k \in Ids /\ runs[h][k] \in Nat /\ times[h][k] \in Nat
    <2>1. k \in Ids
      BY <1>t DEF BusTypeOK
    <2>2. runs \in [Groups -> [Ids -> Nat]] /\ times \in [Groups -> [Ids -> Nat]]
      BY <1>t DEF BusTypeOK, OutcomeTypeOK
    <2>3. k # 0
      BY <2>1 DEF Ids
    <2> QED
      BY <2>1, <2>2, <2>3
  <1>1. CASE ~(h = g /\ k = i)
    <2>1. runs'[h][k] = runs[h][k]
      BY <1>1, <1>d, <1>k, <1>t DEF OutcomeTypeOK
    <2>2. Holders(h, k)' \subseteq Holders(h, k)
      BY <1>o, <1>w, <1>k DEF Holders
    <2>3. Runners(h, k)' \subseteq Runners(h, k)
      BY <1>o, <1>w, <1>k DEF Runners
    <2>4. times'[h][k] = times[h][k] /\ times[h][k] <= times'[h][k]
      BY <1>d, <1>k
    <2>5. QED
      BY <1>t, <2>1, <2>2, <2>3, <2>4, CountKept
  <1>2. CASE h = g /\ k = i
    <2>1. runs'[h][k] = runs[h][k] + 1
      BY <1>2, <1>d, <1>k, <1>t DEF OutcomeTypeOK
    <2>2. w \in Holders(h, k) /\ w \in Runners(h, k)
      BY <1>2, <1>d DEF Holders, Runners
    <2>3. w \notin Holders(h, k)' /\ w \notin Runners(h, k)'
      BY <1>2, <1>d, <1>w DEF Holders, Runners
    <2>4. Holders(h, k)' = Holders(h, k) \ {w} /\ Runners(h, k)' = Runners(h, k) \ {w}
      BY <1>o, <2>3, HoldersOfOthers
    <2>5. /\ IsFiniteSet(Holders(h, k)) /\ Cardinality(Holders(h, k)) \in Nat
          /\ IsFiniteSet(Runners(h, k)) /\ Cardinality(Runners(h, k)) \in Nat
      BY HoldersFinite
    <2>6. /\ Cardinality(Holders(h, k) \ {w}) = Cardinality(Holders(h, k)) - 1
          /\ Cardinality(Runners(h, k) \ {w}) = Cardinality(Runners(h, k)) - 1
      BY <2>2, <2>5, FS_RemoveElement
    <2>7. /\ runs[h][k] + Cardinality(Holders(h, k)) <= times[h][k]
          /\ runs[h][k] + Cardinality(Runners(h, k)) <= MaxRedeliveries
      BY <1>t DEF RunsCounted
    <2>8. QED
      BY <1>k, <2>1, <2>4, <2>5, <2>6, <2>7
  <1>3. QED
    BY <1>1, <1>2

\* Every step of a worker, faulty or not, keeps hands clean.
LEMMA HandsStep ==
    ASSUME TypeOK, HandsClean, NEW w \in Workers, Worker(w) \/ Faulty(w)
    PROVE  HandsClean'
  <1>t. WorkerTypeOK /\ \A v \in Workers : 0 \notin inbox[v]
    BY TypeParts DEF WorkerTypeOK, Ids
  <1>i. \A i \in Ids : i # 0
    BY DEF Ids
  <1>1. CASE Register(w)
    BY <1>1 DEF Register, workerVars, HandsClean
  <1>2. CASE ClaimNothing(w) \/ ConsumeNothing(w)
    BY <1>2, <1>t DEF ClaimNothing, ConsumeNothing, HandsClean, WorkerTypeOK
  <1>3. CASE \E S \in SUBSET Ids : ClaimPending(w, S)
    BY <1>3, <1>t, <1>i DEF ClaimPending, HandsClean, WorkerTypeOK
  <1>4. CASE \E n \in Ids : Consume(w, n)
    <2>1. \A n \in Ids : 0 \notin Unread(GroupOf[w], n)
      <3>1. BusTypeOK /\ GroupOf[w] \in Groups
        BY DEF TypeOK
      <3>2. QED
        BY <3>1, <1>i, UnreadType
    <2>2. QED
      BY <1>4, <1>t, <2>1 DEF Consume, HandsClean, WorkerTypeOK
  <1>5. CASE \E i \in Ids : Yield(w, i)
    BY <1>5, <1>t DEF Yield, Yielded, HandsClean, WorkerTypeOK
  <1>6. CASE \E i \in Ids, wrote, acked \in BOOLEAN : Quarantine(w, i, wrote, acked)
    BY <1>6, <1>t DEF Quarantine, Yielded, HandsClean, WorkerTypeOK
  <1>7. CASE DeadLetter(w) \/ HandleOk(w) \/ HandleFail(w)
    BY <1>7, <1>t DEF DeadLetter, HandleOk, HandleFail, Done, HandsClean, WorkerTypeOK
  <1>8. CASE Flush(w) \/ (\E A \in SUBSET Ids : BusError(w, A)) \/ Crash(w)
               \/ \E wrote \in BOOLEAN : DeadLetterError(w, wrote)
    BY <1>8, <1>t DEF Flush, BusError, Crash, DeadLetterError, EndPass, NextPass, Done, HandsClean,
                      WorkerTypeOK
  <1>9. CASE Break(w)
    BY <1>9, <1>t DEF Break, HandsClean, WorkerTypeOK
  <1>10. CASE (\E n \in Ids : ReadLost(w, n)) \/ \E S \in SUBSET Ids : ClaimLost(w, S)
    BY <1>10, <1>t DEF ReadLost, ClaimLost, HandsClean, WorkerTypeOK
  <1>11. QED
    BY <1>1, <1>2, <1>3, <1>4, <1>5, <1>6, <1>7, <1>8, <1>9, <1>10 DEF Worker, Work, Faulty

\* The handler runs only on what the group has been handed.
LEMMA UnreadStep ==
    ASSUME TypeOK, HeldWasDelivered, UnreadNotRun, NEW w \in Workers,
           \A g \in Groups : delivered'[g] \in Nat /\ delivered[g] <= delivered'[g],
           UNCHANGED runs \/ HandlerRuns(w)
    PROVE  UnreadNotRun'
  <1>t. /\ GroupOf[w] \in Groups /\ delivered \in [Groups -> Nat] /\ runs \in [Groups -> [Ids -> Nat]]
        /\ Ids \subseteq Nat
    BY DEF TypeOK, BusTypeOK, OutcomeTypeOK, Ids
  <1> SUFFICES ASSUME NEW g \in Groups, NEW i \in Ids, i > delivered'[g]
               PROVE  runs'[g][i] = 0
    BY DEF UnreadNotRun
  <1>1. i > delivered[g] /\ runs[g][i] = 0
    <2>1. delivered[g] \in Nat /\ delivered'[g] \in Nat /\ i \in Nat /\ delivered[g] <= delivered'[g]
      BY <1>t
    <2>2. i > delivered[g]
      BY <2>1
    <2>3. QED
      BY <2>2 DEF UnreadNotRun
  <1>2. CASE UNCHANGED runs
    BY <1>1, <1>2
  <1>3. CASE HandlerRuns(w)
    <2>1. cur[w] <= delivered[GroupOf[w]]
      BY DEF HeldWasDelivered
    <2>2. ~(g = GroupOf[w] /\ i = cur[w])
      BY <2>1, <1>1, <1>t
    <2>3. QED
      BY <1>1, <1>3, <1>t, <2>2 DEF HandlerRuns
  <1>4. QED
    BY <1>2, <1>3

\* The cap holds initially: nothing is pending.
LEMMA InitCap == Init => CapInv
  <1> SUFFICES ASSUME Init PROVE CapInv
    OBVIOUS
  <1>1. HandsClean
    BY DEF Init, HandsClean
  <1>2. UnreadNotRun
    BY DEF Init, OutcomeInit, UnreadNotRun
  <1>3. RunsCounted
    BY DEF Init, BusInit, RunsCounted
  <1>4. QED
    BY <1>1, <1>2, <1>3, InitContract DEF CapInv

\* A step of a worker, faulty or not, keeps the count of runs.
LEMMA WorkerCounts ==
    ASSUME CapInv, TypeOK', NEW w \in Workers, Worker(w) \/ Faulty(w)
    PROVE  RunsCounted'
  <1>t. /\ TypeOK /\ BusTypeOK /\ WorkerTypeOK /\ OutcomeTypeOK /\ RunsCounted /\ HandsClean
        /\ GroupOf[w] \in Groups
    BY TypeParts DEF CapInv, ContractInv, SafeInv
  <1>times. \A g \in Groups : \A i \in pel[g] : times[g][i] <= times[g][i]
    <2>1. \A g \in Groups : \A i \in pel[g] : times[g][i] \in Nat
      BY <1>t DEF BusTypeOK
    <2>2. \A m \in Nat : m <= m
      OBVIOUS
    <2>3. QED
      BY <2>1, <2>2
  <1> DEFINE others == \A v \in Workers \ {w} :
                          /\ inbox'[v] = inbox[v] /\ cur'[v] = cur[v]
                          /\ count'[v] = count[v] /\ pass'[v] = pass[v]
             down == /\ inbox'[w] \subseteq inbox[w]
                     /\ cur'[w] = 0 \/ (cur'[w] = cur[w] /\ count'[w] = count[w])
                     /\ inbox'[w] # {} => pass'[w] = pass[w]
  <1>q. ASSUME others, down, UNCHANGED <<runs, times>>, \A g \in Groups : pel'[g] \subseteq pel[g]
        PROVE  RunsCounted'
    BY <1>q, <1>t, <1>times, CapQuiet
  <1>1. CASE Register(w) \/ ClaimNothing(w) \/ ConsumeNothing(w)
    <2>1. UNCHANGED <<inbox, cur, count, pass, runs, times, pel>>
      BY <1>1 DEF Register, EnsureGroup, ClaimNothing, ConsumeNothing, workerVars, outcomeVars, busVars,
                  streamVars
    <2>2. QED
      BY <2>1, <1>q
  <1>2. ASSUME NEW S \in SUBSET Ids, ClaimPending(w, S) PROVE RunsCounted'
    BY <1>2, CapClaim
  <1>3. ASSUME NEW n \in Ids, Consume(w, n) PROVE RunsCounted'
    <2>1. cur[w] = 0
      BY <1>3, <1>t DEF Consume, HandsClean
    <2>2. QED
      BY <1>3, <2>1, CapRead DEF Consume, outcomeVars
  <1>4. ASSUME NEW i \in Ids, Yield(w, i) PROVE RunsCounted'
    BY <1>4, CapYield
  <1>5. ASSUME NEW i \in Ids, NEW wrote \in BOOLEAN, NEW acked \in BOOLEAN, Quarantine(w, i, wrote, acked)
        PROVE  RunsCounted'
    <2>1. /\ UNCHANGED <<runs, times, cur, count, pass>>
          /\ inbox' = [inbox EXCEPT ![w] = @ \ {i}]
          /\ \E S : pel' = [pel EXCEPT ![GroupOf[w]] = @ \ S]
      BY <1>5 DEF Quarantine, Yielded, QuarantineEntry, XAck
    <2>2. \A g \in Groups : pel'[g] \subseteq pel[g]
      BY <2>1, <1>t DEF BusTypeOK
    <2>3. others /\ down
      BY <2>1, <1>t DEF WorkerTypeOK
    <2>4. QED
      BY <2>1, <2>2, <2>3, <1>q
  <1>6. CASE DeadLetter(w)
    <2>1. /\ UNCHANGED <<runs, times, pel, inbox, pass>>
          /\ cur' = [cur EXCEPT ![w] = 0] /\ count' = [count EXCEPT ![w] = 0]
      BY <1>6 DEF DeadLetter, Done, busVars, streamVars
    <2>2. others /\ down
      BY <2>1, <1>t DEF WorkerTypeOK
    <2>3. QED
      BY <2>1, <2>2, <1>q
  <1>7. CASE HandleOk(w) \/ HandleFail(w)
    BY <1>7, CapRun DEF HandleOk, HandleFail
  <1>8. CASE Flush(w) \/ (\E A \in SUBSET Ids : BusError(w, A)) \/ \E wrote \in BOOLEAN : DeadLetterError(w, wrote)
    <2>1. /\ UNCHANGED <<runs, times, pass>>
          /\ inbox' = [inbox EXCEPT ![w] = {}]
          /\ cur' = [cur EXCEPT ![w] = 0] /\ count' = [count EXCEPT ![w] = 0]
          /\ UNCHANGED pel \/ \E S : pel' = [pel EXCEPT ![GroupOf[w]] = @ \ S]
      BY <1>8 DEF Flush, BusError, DeadLetterError, EndPass, Done, XAck, outcomeVars, streamVars
    <2>2. \A g \in Groups : pel'[g] \subseteq pel[g]
      BY <2>1, <1>t DEF BusTypeOK
    <2>3. others /\ down
      BY <2>1, <1>t DEF WorkerTypeOK
    <2>4. QED
      BY <2>1, <2>2, <2>3, <1>q
  <1>9. CASE Break(w)
    <2>1. UNCHANGED <<runs, times, pel, pass, cur, count>> /\ inbox' = [inbox EXCEPT ![w] = {}]
      BY <1>9 DEF Break, outcomeVars, streamVars
    <2>2. others /\ down
      BY <2>1, <1>t DEF WorkerTypeOK
    <2>3. QED
      BY <2>1, <2>2, <1>q
  <1>10. CASE Crash(w)
    <2>1. /\ UNCHANGED <<runs, times, pel>>
          /\ pass' = [pass EXCEPT ![w] = "claim"] /\ inbox' = [inbox EXCEPT ![w] = {}]
          /\ cur' = [cur EXCEPT ![w] = 0] /\ count' = [count EXCEPT ![w] = 0]
      BY <1>10 DEF Crash, Done, outcomeVars, streamVars
    <2>2. others /\ down
      BY <2>1, <1>t DEF WorkerTypeOK
    <2>3. QED
      BY <2>1, <2>2, <1>q
  <1>11. ASSUME NEW n \in Ids, ReadLost(w, n) PROVE RunsCounted'
    BY <1>11, CapRead DEF ReadLost, outcomeVars
  <1>12. ASSUME NEW S \in SUBSET Ids, ClaimLost(w, S) PROVE RunsCounted'
    <2> DEFINE g == GroupOf[w]
    <2>1. /\ UNCHANGED <<inbox, cur, count, pass, runs>>
          /\ pel' = [pel EXCEPT ![g] = @ \ (S \ stream)]
          /\ times' = [times EXCEPT ![g] = [i \in Ids |-> IF i \in S \cap stream THEN @[i] + 1 ELSE @[i]]]
      BY <1>12 DEF ClaimLost, AutoClaim, outcomeVars
    <2>2. \A h \in Groups : pel'[h] \subseteq pel[h] /\ pel[h] \subseteq Ids
      BY <2>1, <1>t DEF BusTypeOK
    <2>3. \A h \in Groups, i \in Ids :
            times'[h][i] = IF h = g /\ i \in S \cap stream THEN times[h][i] + 1 ELSE times[h][i]
      BY <2>1, <1>t DEF BusTypeOK
    <2>4. \A h \in Groups, i \in Ids : times[h][i] \in Nat
      BY <1>t DEF BusTypeOK
    <2>5. \A h \in Groups, i \in Ids : times[h][i] <= times'[h][i]
      BY <2>3, <2>4
    <2>6. QED
      BY <2>1, <2>2, <2>5, <1>t, CapQuiet
  <1>13. QED
    BY <1>1, <1>2, <1>3, <1>4, <1>5, <1>6, <1>7, <1>8, <1>9, <1>10, <1>11, <1>12 DEF Worker, Work, Faulty

\* The delivered ids never go back.
LEMMA DeliveredGrows ==
    ASSUME TypeOK, TypeOK', NEW w \in Workers, Worker(w) \/ Faulty(w)
    PROVE  \A g \in Groups : delivered'[g] \in Nat /\ delivered[g] <= delivered'[g]
  <1>t. delivered \in [Groups -> Nat] /\ delivered' \in [Groups -> Nat] /\ BusTypeOK
    BY DEF TypeOK, BusTypeOK
  <1>1. CASE \E n \in Ids : ReadGroup(GroupOf[w], n)
    <2>1. PICK n \in Ids : ReadGroup(GroupOf[w], n)
      BY <1>1
    <2>2. delivered[GroupOf[w]] < n /\ delivered' = [delivered EXCEPT ![GroupOf[w]] = n]
      BY <2>1 DEF ReadGroup, Unread
    <2>3. QED
      BY <1>t, <2>2 DEF Ids
  <1>2. CASE UNCHANGED delivered
    BY <1>2, <1>t
  <1>3. QED
    BY <1>1, <1>2 DEF Worker, Work, Faulty, Register, EnsureGroup, ClaimPending, ClaimNothing, AutoClaim,
       Consume, ConsumeNothing, Yield, Quarantine, QuarantineEntry, XAck, DeadLetter, HandleOk, HandleFail,
       Flush, Break, ReadLost, ClaimLost, BusError, DeadLetterError, Crash, busVars, streamVars

\* The handler runs in no step but its own.
LEMMA OnlyHandlerRuns ==
    ASSUME NEW w \in Workers, Worker(w) \/ Faulty(w)
    PROVE  UNCHANGED runs \/ HandlerRuns(w)
  BY DEF Worker, Work, Faulty, Register, ClaimPending, ClaimNothing, Consume, ConsumeNothing, Yield,
     Quarantine, QuarantineEntry, DeadLetter, HandleOk, HandleFail, Flush, Break, ReadLost, ClaimLost,
     BusError, DeadLetterError, Crash, outcomeVars

\* Every step keeps the cap.
LEMMA CapStep == CapInv /\ [Next]_vars => CapInv'
  <1> SUFFICES ASSUME CapInv, [Next]_vars PROVE CapInv'
    OBVIOUS
  <1>t. ContractInv /\ ContractInv' /\ TypeOK /\ TypeOK' /\ HeldWasDelivered
    BY ContractStep DEF CapInv, ContractInv, SafeInv
  <1>1. CASE UNCHANGED <<pel, times, delivered, runs, workerVars>>
    <2>1. HandsClean' /\ UnreadNotRun'
      BY <1>1 DEF CapInv, HandsClean, UnreadNotRun, workerVars
    <2>2. RunsCounted'
      <3>1. \A g, i : Holders(g, i)' = Holders(g, i) /\ Runners(g, i)' = Runners(g, i)
        BY <1>1 DEF Holders, Runners, workerVars
      <3>2. QED
        BY <1>1, <3>1 DEF CapInv, RunsCounted
    <2>3. QED
      BY <1>t, <2>1, <2>2 DEF CapInv
  <1>2. ASSUME NEW w \in Workers, Worker(w) \/ Faulty(w) PROVE CapInv'
    <2>1. HandsClean'
      BY <1>t, <1>2, HandsStep DEF CapInv
    <2>2. UnreadNotRun'
      BY <1>t, <1>2, DeliveredGrows, OnlyHandlerRuns, UnreadStep DEF CapInv
    <2>3. RunsCounted'
      BY <1>t, <1>2, WorkerCounts
    <2>4. QED
      BY <1>t, <2>1, <2>2, <2>3 DEF CapInv
  <1>3. CASE Produce /\ UNCHANGED <<workerVars, outcomeVars>>
    BY <1>3, <1>1 DEF Produce, outcomeVars
  <1>4. CASE Reaper /\ UNCHANGED <<workerVars, outcomeVars>>
    BY <1>4, <1>1 DEF Reaper, TrimSnapshot, TrimExamine, TrimGiveUp, TrimApply, streamVars, outcomeVars
  <1>5. CASE UNCHANGED vars
    BY <1>5, <1>1 DEF vars, busVars, streamVars, outcomeVars
  <1>6. QED
    BY <1>2, <1>3, <1>4, <1>5 DEF Next

\* The redelivery cap, for any number of workers sharing a group: while an entry is
\* pending its handler has run at most max_redeliveries times, whatever was
\* reclaimed from a worker that was still busy with it.
THEOREM RedeliveryCapped == Spec => []RunsCapped
  <1>1. CapInv => RunsCapped
    <2> SUFFICES ASSUME CapInv, NEW g \in Groups, NEW i \in pel[g]
                 PROVE  runs[g][i] <= MaxRedeliveries
      BY DEF RunsCapped
    <2>1. runs[g][i] + Cardinality(Runners(g, i)) <= MaxRedeliveries
      BY DEF CapInv, RunsCounted
    <2>2. Cardinality(Runners(g, i)) \in Nat
      BY HoldersFinite
    <2>3. runs[g][i] \in Nat
      BY DEF CapInv, ContractInv, SafeInv, TypeOK, BusTypeOK, OutcomeTypeOK
    <2>4. QED
      BY <2>1, <2>2, <2>3
  <1>2. QED
    BY <1>1, InitCap, CapStep, PTL DEF Spec

-----------------------------------------------------------------------------
(* The batched loop.  What its commands do to the bus is what the same     *)
(* commands of the plain loop do.                                          *)

LEMMA SameCardinality == \A S : Batch!Cardinality(S) = Cardinality(S)
  BY DEF Batch!Cardinality, Cardinality, Batch!IsFiniteSet, IsFiniteSet

LEMMA SameRead ==
    ASSUME NEW g, NEW n, Batch!ReadGroup(g, n)
    PROVE  ReadGroup(g, n) /\ Batch!Unread(g, n) = Unread(g, n)
  <1>1. \A m : Batch!Unread(g, m) = Unread(g, m)
    BY DEF Batch!Unread, Unread
  <1>2. Batch!Ids = Ids
    BY DEF Batch!Ids, Ids
  <1>3. /\ g \in groups
        /\ n \in Unread(g, n)
        /\ Cardinality(Unread(g, n)) <= ReadCount
        /\ \/ Cardinality(Unread(g, n)) = ReadCount
           \/ Unread(g, last) = Unread(g, n)
    BY <1>1, SameCardinality DEF Batch!ReadGroup
  <1>4. /\ delivered' = [delivered EXCEPT ![g] = n]
        /\ pel' = [pel EXCEPT ![g] = @ \cup Unread(g, n)]
        /\ UNCHANGED <<last, stream, groups, reaperVars>>
    BY <1>1 DEF Batch!ReadGroup, Batch!reaperVars, reaperVars
  <1>5. times' = [times EXCEPT ![g] =
                     [i \in Ids |-> IF i \in Unread(g, n) THEN 1 ELSE @[i]]]
    BY <1>1, <1>2 DEF Batch!ReadGroup
  <1> QED
    BY <1>1, <1>3, <1>4, <1>5 DEF ReadGroup

LEMMA SameClaim ==
    ASSUME NEW g, NEW S
    PROVE  Batch!AutoClaim(g, S) <=> AutoClaim(g, S)
  BY DEF Batch!AutoClaim, AutoClaim, Batch!Ids, Ids, Batch!reaperVars, reaperVars

LEMMA SameAck ==
    ASSUME NEW g, NEW S
    PROVE  Batch!XAck(g, S) <=> XAck(g, S)
  BY DEF Batch!XAck, XAck, Batch!reaperVars, reaperVars

LEMMA SameFault == Batch!Fault <=> Fault
  BY DEF Batch!Fault, Fault

LEMMA SameProduce == Batch!Produce <=> Produce
  BY DEF Batch!Produce, Produce, Batch!reaperVars, reaperVars

LEMMA SameReaper == Batch!Reaper => Reaper
  <1>1. Batch!TrimSnapshot => TrimSnapshot
    BY DEF Batch!TrimSnapshot, TrimSnapshot, Batch!streamVars, streamVars
  <1>2. ASSUME NEW g, NEW b, Batch!TrimExamine(g, b)
        PROVE  TrimExamine(g, b)
    BY <1>2 DEF Batch!TrimExamine, TrimExamine, Batch!GroupBoundary, GroupBoundary,
                Batch!LowerBoundary, LowerBoundary, Batch!streamVars, streamVars
  <1>3. Batch!TrimGiveUp => TrimGiveUp
    BY SameFault DEF Batch!TrimGiveUp, TrimGiveUp, Batch!streamVars, streamVars
  <1>4. Batch!TrimApply => TrimApply
    BY DEF Batch!TrimApply, TrimApply
  <1> QED
    BY <1>1, <1>2, <1>3, <1>4 DEF Batch!Reaper, Reaper

\* What a step leaves alone, it leaves alone.
LEMMA SameVars ==
    /\ UNCHANGED Batch!outcomeVars => UNCHANGED outcomeVars
    /\ UNCHANGED Batch!streamVars => UNCHANGED streamVars
    /\ UNCHANGED Batch!reaperVars => UNCHANGED reaperVars
    /\ UNCHANGED Batch!busVars => UNCHANGED busVars
    /\ Batch!Ids = Ids
  BY DEF Batch!outcomeVars, outcomeVars, Batch!streamVars, streamVars, Batch!reaperVars,
         reaperVars, Batch!busVars, busVars, Batch!Ids, Ids

-----------------------------------------------------------------------------
(* The inductive invariant of the batched loop: the part about the bus,    *)
(* deferred acks that are earned, and hands that hold only what was        *)
(* produced.                                                               *)

BatchTypes ==
    /\ pc \in [Workers -> {"claim", "consume", "gather", "flush", "rescue", "rescueFlush"}]
    /\ pass \in [Workers -> {"claim", "consume"}]
    /\ inbox \in [Workers -> SUBSET Ids]
    /\ batch \in [Workers -> SUBSET (Ids \X Nat)]
    /\ acks \in [Workers -> SUBSET Ids]

\* The ids of the messages worker w has gathered.
Gathered(w) == {e[1] : e \in batch[w]}

HeldWasProduced ==
    \A w \in Workers : inbox[w] \subseteq 1 .. last /\ Gathered(w) \subseteq 1 .. last

BatchInv ==
    /\ BusInv
    /\ OutcomeTypeOK
    /\ BatchTypes
    /\ AcksAreEarned
    /\ HeldWasProduced

LEMMA BatchInit == Batch!Init => BatchInv
  <1> SUFFICES ASSUME Batch!Init PROVE BatchInv
    OBVIOUS
  <1>1. BusTypeOK
    BY DEF Batch!Init, Batch!BusInit, Batch!Ids, Ids, BusTypeOK
  <1>2. Core
    BY DEF Batch!Init, Batch!BusInit, Core, StillRegistered, PendingWasDelivered,
           TrimBoundSafe, NothingLost
  <1>3. TrimmedIsSettled
    BY DEF Batch!Init, Batch!BusInit, TrimmedIsSettled
  <1>4. OutcomeTypeOK
    BY DEF Batch!Init, Batch!OutcomeInit, Batch!Ids, Ids, OutcomeTypeOK
  <1>5. BatchTypes
    BY DEF Batch!Init, BatchTypes
  <1>6. AcksAreEarned /\ HeldWasProduced
    BY DEF Batch!Init, AcksAreEarned, HeldWasProduced, Gathered
  <1> QED
    BY <1>1, <1>2, <1>3, <1>4, <1>5, <1>6 DEF BatchInv, BusInv

\* What a step of worker w leaves in its hands, when it brings about the outcomes
\* C in its group.
Turn(w, C) ==
    /\ BatchTypes'
    /\ \A v \in Workers \ {w} : inbox'[v] = inbox[v] /\ batch'[v] = batch[v] /\ acks'[v] = acks[v]
    /\ inbox'[w] \subseteq 1 .. last
    /\ Gathered(w)' \subseteq 1 .. last
    /\ acks'[w] \subseteq Outcome(GroupOf[w]) \cup C

LEMMA BatchHands ==
    ASSUME BatchInv, NEW w \in Workers, NEW C, Turn(w, C), Concludes(GroupOf[w], C),
           UNCHANGED last
    PROVE  BatchTypes' /\ AcksAreEarned' /\ HeldWasProduced' /\ OutcomeGrows
  <1>1. ASSUME NEW h \in Groups
        PROVE  Outcome(h) \subseteq Outcome(h)' /\ (h = GroupOf[w] => C \subseteq Outcome(h)')
    BY <1>1 DEF Concludes
  <1>2. AcksAreEarned'
    <2> SUFFICES ASSUME NEW v \in Workers PROVE acks'[v] \subseteq Outcome(GroupOf[v])'
      BY DEF AcksAreEarned
    <2>1. GroupOf[v] \in Groups /\ acks[v] \subseteq Outcome(GroupOf[v])
      BY DEF BatchInv, AcksAreEarned
    <2>2. CASE v = w
      BY <1>1, <2>1, <2>2 DEF Turn
    <2>3. CASE v # w
      BY <1>1, <2>1, <2>3 DEF Turn
    <2> QED
      BY <2>2, <2>3
  <1>3. HeldWasProduced'
    <2> SUFFICES ASSUME NEW v \in Workers
                 PROVE  inbox'[v] \subseteq 1 .. last /\ Gathered(v)' \subseteq 1 .. last
      BY DEF HeldWasProduced
    <2>1. CASE v = w
      BY <2>1 DEF Turn
    <2>2. CASE v # w
      BY <2>2 DEF Turn, BatchInv, HeldWasProduced, Gathered
    <2> QED
      BY <2>1, <2>2
  <1> QED
    BY <1>1, <1>2, <1>3 DEF Turn, OutcomeGrows

\* A step that brings about the outcomes C and takes S, all of which have one by
\* then, out of the pending list.
LEMMA BatchConcludes ==
    ASSUME BatchInv, NEW w \in Workers, NEW C, NEW S,
           Turn(w, C), Concludes(GroupOf[w], C), OutcomeTypeOK', C \subseteq 1 .. last,
           XAck(GroupOf[w], S), UNCHANGED faults \/ Fault,
           S \subseteq Outcome(GroupOf[w]) \cup C
    PROVE  BatchInv' /\ [Contract!Next]_(Contract!contractVars)
  <1>g. GroupOf[w] \in Groups
    OBVIOUS
  <1>t. BusTypeOK /\ Core /\ TrimmedIsSettled
    BY DEF BatchInv, BusInv
  <1>1. /\ UNCHANGED <<last, stream, delivered>>
        /\ pel' = [pel EXCEPT ![GroupOf[w]] = @ \ S]
    BY DEF XAck
  <1>2. BatchTypes' /\ AcksAreEarned' /\ HeldWasProduced' /\ OutcomeGrows
    BY <1>1, BatchHands
  <1>3. \A i \in S : i \in Outcome(GroupOf[w])'
    BY <1>g DEF Concludes
  <1>4. Core'
    BY <1>g, <1>t, <1>2, <1>3, CoreXAck
  <1>5. BusTypeOK'
    BY <1>g, <1>t, XAckType
  <1>6. TrimmedIsSettled'
    BY <1>g, <1>t, <1>1, SettledRemove
  <1>7. BusInv /\ BusInv'
    BY <1>t, <1>4, <1>5, <1>6 DEF BusInv
  <1>8. [Contract!Next]_(Contract!contractVars)
    BY <1>g, <1>1, <1>7, ContractConcludes
  <1> QED
    BY <1>2, <1>7, <1>8 DEF BatchInv

\* No step of the loop that only moves worker w changes the bus.
LEMMA QuietAck ==
    ASSUME BusTypeOK, NEW g \in Groups, UNCHANGED <<streamVars, reaperVars>>
    PROVE  XAck(g, {})
  BY DEF XAck, streamVars, BusTypeOK

LEMMA QuietOutcome ==
    ASSUME OutcomeTypeOK, UNCHANGED outcomeVars, NEW g
    PROVE  OutcomeTypeOK' /\ Concludes(g, {})
  BY DEF OutcomeTypeOK, outcomeVars, Concludes, Outcome

\* A step of worker w that leaves the bus and the outcomes alone, and its acks.
LEMMA BatchMoves ==
    ASSUME BatchInv, NEW w \in Workers, Turn(w, {}),
           UNCHANGED <<streamVars, reaperVars>>, UNCHANGED outcomeVars,
           UNCHANGED faults \/ Fault
    PROVE  BatchInv' /\ [Contract!Next]_(Contract!contractVars)
  <1>1. GroupOf[w] \in Groups /\ BusTypeOK /\ OutcomeTypeOK
    BY DEF BatchInv, BusInv
  <1>2. XAck(GroupOf[w], {}) /\ OutcomeTypeOK' /\ Concludes(GroupOf[w], {})
    BY <1>1, QuietAck, QuietOutcome
  <1> QED
    BY <1>2, BatchConcludes

\* Reading new entries, whether or not the answer arrives.
LEMMA BatchReads ==
    ASSUME BatchInv, NEW w \in Workers, NEW n \in Ids, ReadGroup(GroupOf[w], n),
           Turn(w, {}), UNCHANGED outcomeVars, UNCHANGED faults \/ Fault
    PROVE  BatchInv' /\ [Contract!Next]_(Contract!contractVars)
  <1>g. GroupOf[w] \in Groups
    OBVIOUS
  <1>t. BusTypeOK /\ Core /\ TrimmedIsSettled /\ OutcomeTypeOK
    BY DEF BatchInv, BusInv
  <1>1. OutcomeTypeOK' /\ Concludes(GroupOf[w], {})
    BY <1>t, QuietOutcome
  <1>2. BatchTypes' /\ AcksAreEarned' /\ HeldWasProduced' /\ OutcomeGrows
    BY <1>1, BatchHands DEF ReadGroup
  <1>3. BusTypeOK'
    BY <1>g, <1>t, ReadGroupType
  <1>4. Core'
    BY <1>g, <1>t, <1>2, CoreReadGroup
  <1>5. TrimmedIsSettled'
    BY <1>g, <1>t, SettledReadGroup
  <1>6. BusInv /\ BusInv'
    BY <1>t, <1>3, <1>4, <1>5 DEF BusInv
  <1>7. \A h \in Groups : Outcome(h)' = Outcome(h)
    BY DEF outcomeVars, Outcome
  <1>8. [Contract!Next]_(Contract!contractVars)
    BY <1>g, <1>6, <1>7, ContractDelivers
  <1> QED
    BY <1>1, <1>2, <1>6, <1>8 DEF BatchInv

\* Taking over pending entries: what XAUTOCLAIM drops had left the stream, and so
\* it was settled already.
LEMMA BatchClaims ==
    ASSUME BatchInv, NEW w \in Workers, NEW S \in SUBSET Ids, AutoClaim(GroupOf[w], S),
           Turn(w, {}), UNCHANGED outcomeVars, UNCHANGED faults \/ Fault
    PROVE  BatchInv' /\ [Contract!Next]_(Contract!contractVars)
  <1>g. GroupOf[w] \in Groups
    OBVIOUS
  <1>t. BusTypeOK /\ Core /\ TrimmedIsSettled /\ OutcomeTypeOK
    BY DEF BatchInv, BusInv
  <1>1. OutcomeTypeOK' /\ Concludes(GroupOf[w], {})
    BY <1>t, QuietOutcome
  <1>2. BatchTypes' /\ AcksAreEarned' /\ HeldWasProduced' /\ OutcomeGrows
    BY <1>1, BatchHands DEF AutoClaim
  <1>3. BusTypeOK'
    BY <1>g, <1>t, AutoClaimType
  <1>4. Core'
    BY <1>g, <1>t, <1>2, CoreAutoClaim
  <1>5. /\ UNCHANGED <<last, stream, delivered>>
        /\ pel' = [pel EXCEPT ![GroupOf[w]] = @ \ (S \ stream)]
    BY DEF AutoClaim
  <1>6. TrimmedIsSettled'
    BY <1>g, <1>t, <1>5, SettledRemove
  <1>7. BusInv /\ BusInv'
    BY <1>t, <1>3, <1>4, <1>6 DEF BusInv
  <1>8. GroupOf[w] \in InitialGroups => (S \ stream) \cap pel[GroupOf[w]] = {}
    BY <1>t DEF TrimmedIsSettled, Settled, Core, PendingWasDelivered, BusTypeOK
  <1>9. [Contract!Next]_(Contract!contractVars)
    BY <1>g, <1>1, <1>5, <1>7, <1>8, ContractConcludes
  <1> QED
    BY <1>1, <1>2, <1>7, <1>9 DEF BatchInv

-----------------------------------------------------------------------------
(* The steps of the batched loop.                                          *)

\* The hands of worker w, replaced: its position, pass, inbox, batch and acks.
Takes(w, p, q, i, b, a) ==
    /\ pc' = [pc EXCEPT ![w] = p]
    /\ pass' = [pass EXCEPT ![w] = q]
    /\ inbox' = [inbox EXCEPT ![w] = i]
    /\ batch' = [batch EXCEPT ![w] = b]
    /\ acks' = [acks EXCEPT ![w] = a]

\* Hands that hold what was produced, and acks with an outcome, are a turn.
LEMMA NewHands ==
    ASSUME BatchInv, NEW w \in Workers, NEW C,
           NEW p \in {"claim", "consume", "gather", "flush", "rescue", "rescueFlush"},
           NEW q \in {"claim", "consume"},
           NEW i \in SUBSET (1 .. last), NEW b \in SUBSET (Ids \X Nat), NEW a \in SUBSET Ids,
           Takes(w, p, q, i, b, a),
           \A e \in b : e[1] \in 1 .. last,
           a \subseteq Outcome(GroupOf[w]) \cup C
    PROVE  Turn(w, C)
  <1>1. BatchTypes /\ last \in 0 .. MaxMsgs
    BY DEF BatchInv, BusInv, BusTypeOK
  <1>2. i \in SUBSET Ids
    BY <1>1 DEF Ids
  <1>3. BatchTypes'
    BY <1>1, <1>2 DEF BatchTypes, Takes
  <1>4. /\ inbox'[w] = i /\ batch'[w] = b /\ acks'[w] = a
        /\ \A v \in Workers \ {w} : inbox'[v] = inbox[v] /\ batch'[v] = batch[v] /\ acks'[v] = acks[v]
    BY <1>1 DEF BatchTypes, Takes
  <1>5. Gathered(w)' \subseteq 1 .. last
    BY <1>4 DEF Gathered
  <1> QED
    BY <1>3, <1>4, <1>5 DEF Turn

\* The hands of worker w as they are.
LEMMA OldHands ==
    ASSUME BatchInv, NEW w \in Workers
    PROVE  /\ pc[w] \in {"claim", "consume", "gather", "flush", "rescue", "rescueFlush"}
           /\ pass[w] \in {"claim", "consume"}
           /\ inbox[w] \in SUBSET (1 .. last)
           /\ batch[w] \in SUBSET (Ids \X Nat)
           /\ \A e \in batch[w] : e[1] \in 1 .. last
           /\ acks[w] \in SUBSET Ids
           /\ acks[w] \subseteq Outcome(GroupOf[w])
           /\ pc = [pc EXCEPT ![w] = pc[w]]
           /\ pass = [pass EXCEPT ![w] = pass[w]]
           /\ inbox = [inbox EXCEPT ![w] = inbox[w]]
           /\ batch = [batch EXCEPT ![w] = batch[w]]
           /\ acks = [acks EXCEPT ![w] = acks[w]]
  <1>1. BatchTypes
    BY DEF BatchInv
  <1>2. inbox[w] \subseteq 1 .. last /\ Gathered(w) \subseteq 1 .. last
    BY DEF BatchInv, HeldWasProduced
  <1>3. \A e \in batch[w] : e[1] \in 1 .. last
    BY <1>2 DEF Gathered
  <1>4. acks[w] \subseteq Outcome(GroupOf[w])
    BY DEF BatchInv, AcksAreEarned
  <1> QED
    BY <1>1, <1>2, <1>3, <1>4 DEF BatchTypes

LEMMA BatchRead ==
    ASSUME BatchInv, NEW w \in Workers, NEW n \in Ids,
           Batch!Consume(w, n) \/ Batch!ReadLost(w, n)
    PROVE  BatchInv' /\ [Contract!Next]_(Contract!contractVars)
  <1>g. GroupOf[w] \in Groups
    OBVIOUS
  <1>1. Batch!ReadGroup(GroupOf[w], n)
    BY DEF Batch!Consume, Batch!ReadLost
  <1>2. ReadGroup(GroupOf[w], n) /\ Batch!Unread(GroupOf[w], n) = Unread(GroupOf[w], n)
    BY <1>1, SameRead
  <1>3. Unread(GroupOf[w], n) \in SUBSET (1 .. last)
    BY <1>g, UnreadType DEF BatchInv, BusInv, BusTypeOK
  <1>4. CASE Batch!Consume(w, n)
    <2>1. /\ pc' = [pc EXCEPT ![w] = "gather"]
          /\ pass' = [pass EXCEPT ![w] = "consume"]
          /\ inbox' = [inbox EXCEPT ![w] = Unread(GroupOf[w], n)]
          /\ UNCHANGED <<faults, batch, acks>>
          /\ UNCHANGED Batch!outcomeVars
      BY <1>2, <1>4 DEF Batch!Consume, Batch!StartPass, Batch!GoTo
    <2>2. Takes(w, "gather", "consume", Unread(GroupOf[w], n), batch[w], acks[w])
      BY <2>1, OldHands DEF Takes
    <2>3. Turn(w, {})
      BY <1>3, <2>2, OldHands, NewHands
    <2> QED
      BY <1>2, <2>1, <2>3, SameVars, BatchReads
  <1>5. CASE Batch!ReadLost(w, n)
    <2>1. /\ pc' = [pc EXCEPT ![w] = "claim"]
          /\ UNCHANGED <<pass, inbox, batch, acks>>
          /\ UNCHANGED Batch!outcomeVars
          /\ Fault
      BY <1>5, SameFault DEF Batch!ReadLost, Batch!GoTo
    <2>2. Takes(w, "claim", pass[w], inbox[w], batch[w], acks[w])
      BY <2>1, OldHands DEF Takes
    <2>3. Turn(w, {})
      BY <2>2, OldHands, NewHands
    <2> QED
      BY <1>2, <2>1, <2>3, SameVars, BatchReads
  <1> QED
    BY <1>4, <1>5

LEMMA BatchClaim ==
    ASSUME BatchInv, NEW w \in Workers, NEW S \in SUBSET Ids,
           Batch!ClaimPending(w, S) \/ Batch!ClaimLost(w, S)
    PROVE  BatchInv' /\ [Contract!Next]_(Contract!contractVars)
  <1>1. AutoClaim(GroupOf[w], S)
    BY SameClaim DEF Batch!ClaimPending, Batch!ClaimLost
  <1>2. S \cap stream \in SUBSET (1 .. last)
    BY DEF BatchInv, BusInv, BusTypeOK
  <1>3. CASE Batch!ClaimPending(w, S)
    <2>1. /\ pc' = [pc EXCEPT ![w] = "gather"]
          /\ pass' = [pass EXCEPT ![w] = "claim"]
          /\ inbox' = [inbox EXCEPT ![w] = S \cap stream]
          /\ UNCHANGED <<faults, batch, acks>>
          /\ UNCHANGED Batch!outcomeVars
      BY <1>3 DEF Batch!ClaimPending, Batch!StartPass, Batch!GoTo
    <2>2. Takes(w, "gather", "claim", S \cap stream, batch[w], acks[w])
      BY <2>1, OldHands DEF Takes
    <2>3. Turn(w, {})
      BY <1>2, <2>2, OldHands, NewHands
    <2> QED
      BY <1>1, <2>1, <2>3, SameVars, BatchClaims
  <1>4. CASE Batch!ClaimLost(w, S)
    <2>1. /\ pc' = [pc EXCEPT ![w] = "consume"]
          /\ UNCHANGED <<pass, inbox, batch, acks>>
          /\ UNCHANGED Batch!outcomeVars
          /\ Fault
      BY <1>4, SameFault DEF Batch!ClaimLost, Batch!GoTo
    <2>2. Takes(w, "consume", pass[w], inbox[w], batch[w], acks[w])
      BY <2>1, OldHands DEF Takes
    <2>3. Turn(w, {})
      BY <2>2, OldHands, NewHands
    <2> QED
      BY <1>1, <2>1, <2>3, SameVars, BatchClaims
  <1> QED
    BY <1>3, <1>4

\* The steps that touch neither the bus nor an outcome.
LEMMA BatchQuiet ==
    ASSUME BatchInv, NEW w \in Workers,
           Batch!EmptyRead(w) \/ Batch!NothingLeft(w) \/ Batch!Break(w) \/ Batch!Crash(w)
    PROVE  BatchInv' /\ [Contract!Next]_(Contract!contractVars)
  <1>1. UNCHANGED <<streamVars, reaperVars>> /\ UNCHANGED outcomeVars
    <2>1. /\ UNCHANGED Batch!outcomeVars
          /\ UNCHANGED Batch!busVars \/ UNCHANGED <<Batch!streamVars, Batch!reaperVars>>
      BY DEF Batch!EmptyRead, Batch!NothingLeft, Batch!Break, Batch!Crash
    <2> QED
      BY <2>1, SameVars DEF busVars
  <1>2. UNCHANGED faults \/ Fault
    BY SameFault, SameVars DEF Batch!EmptyRead, Batch!NothingLeft, Batch!Break, Batch!Crash, busVars
  <1>3. Turn(w, {})
    <2>1. CASE Batch!EmptyRead(w) \/ Batch!NothingLeft(w)
      <3>1. UNCHANGED <<pass, inbox, batch, acks>>
        BY <2>1 DEF Batch!EmptyRead, Batch!NothingLeft
      <3>2. PICK p \in {"claim", "consume", "flush"} : pc' = [pc EXCEPT ![w] = p]
        BY <2>1 DEF Batch!EmptyRead, Batch!NothingLeft, Batch!GoTo
      <3>3. Takes(w, p, pass[w], inbox[w], batch[w], acks[w])
        BY <3>1, <3>2, OldHands DEF Takes
      <3> QED
        BY <3>3, OldHands, NewHands
    <2>2. CASE Batch!Break(w)
      <3>1. UNCHANGED <<pc, pass, batch, acks>> /\ inbox' = [inbox EXCEPT ![w] = {}]
        BY <2>2 DEF Batch!Break
      <3>2. Takes(w, pc[w], pass[w], {}, batch[w], acks[w])
        BY <3>1, OldHands DEF Takes
      <3> QED
        BY <3>2, OldHands, NewHands
    <2>3. CASE Batch!Crash(w)
      <3>1. Takes(w, "claim", "claim", {}, {}, {})
        BY <2>3 DEF Batch!Crash, Batch!GoTo, Takes
      <3> QED
        BY <3>1, NewHands
    <2> QED
      BY <2>1, <2>2, <2>3
  <1> QED
    BY <1>1, <1>2, <1>3, BatchMoves

\* The next pass starts with empty hands; after a bus error with gathered messages
\* the loop goes on to _flush_gathered with the acks it kept.
LEMMA PassEnds ==
    ASSUME BatchInv, NEW w \in Workers, NEW C, Batch!EndPass(w)
    PROVE  Turn(w, C)
  <1>1. PICK p \in {"claim", "consume"} : Takes(w, p, pass[w], {}, {}, {})
    <2>1. pc' = [pc EXCEPT ![w] = Batch!NextPass(w)] /\ Batch!NextPass(w) \in {"claim", "consume"}
      BY DEF Batch!EndPass, Batch!GoTo, Batch!NextPass
    <2>2. Takes(w, Batch!NextPass(w), pass[w], {}, {}, {})
      BY <2>1, OldHands DEF Batch!EndPass, Takes
    <2> QED
      BY <2>1, <2>2
  <1> QED
    BY <1>1, OldHands, NewHands

LEMMA PassFails ==
    ASSUME BatchInv, NEW w \in Workers, NEW C, NEW kept \in SUBSET Ids,
           kept \subseteq Outcome(GroupOf[w]) \cup C, Batch!Except(w, kept)
    PROVE  Turn(w, C)
  <1>1. CASE batch[w] = {}
    BY <1>1, PassEnds DEF Batch!Except
  <1>2. CASE batch[w] # {}
    <2>1. Takes(w, "rescue", pass[w], {}, batch[w], kept)
      BY <1>2, OldHands DEF Batch!Except, Batch!GoTo, Takes
    <2> QED
      BY <2>1, OldHands, NewHands
  <1> QED
    BY <1>1, <1>2

\* The gathered messages are ids, exhausted or live.
LEMMA GatheredIds ==
    ASSUME BatchInv, NEW w \in Workers
    PROVE  /\ Batch!Exhausted(w) \subseteq 1 .. last
           /\ Batch!Live(w) \subseteq 1 .. last
           /\ 1 .. last \subseteq Ids
  BY OldHands DEF Batch!Exhausted, Batch!Live, BatchInv, BusInv, BusTypeOK, Ids

\* _process_batch: the exhausted messages and those handle_batch accepted get an
\* outcome and a deferred ack.
LEMMA Processed ==
    ASSUME BatchInv, NEW w \in Workers, NEW ok, Batch!ProcessBatch(w, ok)
    PROVE  \E C \in SUBSET (1 .. last) :
              /\ C \in SUBSET Ids
              /\ Concludes(GroupOf[w], C)
              /\ OutcomeTypeOK'
              /\ acks' = [acks EXCEPT ![w] = acks[w] \cup C]
  <1> DEFINE g == GroupOf[w]
             X == Batch!Exhausted(w)
             L == Batch!Live(w)
             C == X \cup ok
  <1>1. ok \subseteq L /\ X \subseteq 1 .. last /\ L \subseteq 1 .. last /\ 1 .. last \subseteq Ids
    BY GatheredIds DEF Batch!ProcessBatch
  <1>2. /\ dead' = [dead EXCEPT ![g] = @ \cup X]
        /\ handled' = [handled EXCEPT ![g] = @ \cup ok]
        /\ acks' = [acks EXCEPT ![w] = @ \cup X \cup ok]
        /\ UNCHANGED dropped
    BY DEF Batch!ProcessBatch
  <1>3. runs' = [runs EXCEPT ![g] = [i \in Ids |-> IF i \in L THEN @[i] + 1 ELSE @[i]]]
    BY SameVars DEF Batch!ProcessBatch
  <1> HIDE DEF X, L
  <1>t. OutcomeTypeOK /\ g \in Groups
    BY DEF BatchInv
  <1>4. OutcomeTypeOK'
    <2>1. dead' \in [Groups -> SUBSET Ids] /\ handled' \in [Groups -> SUBSET Ids]
      BY <1>1, <1>2, <1>t DEF OutcomeTypeOK
    <2>2. runs' \in [Groups -> [Ids -> Nat]]
      BY <1>3, <1>t DEF OutcomeTypeOK
    <2> QED
      BY <1>2, <1>t, <2>1, <2>2 DEF OutcomeTypeOK
  <1>5. Concludes(g, C)
    BY <1>2, <1>t DEF Concludes, Outcome, OutcomeTypeOK
  <1>6. acks' = [acks EXCEPT ![w] = acks[w] \cup C]
    BY <1>2
  <1>7. C \in SUBSET (1 .. last) /\ C \in SUBSET Ids
    BY <1>1
  <1> QED
    BY <1>4, <1>5, <1>6, <1>7

\* Dead-lettering that raised half-way.
LEMMA PartlyDead ==
    ASSUME BatchInv, NEW w \in Workers, NEW X, Batch!DeadLetterPart(w, X)
    PROVE  /\ X \in SUBSET (1 .. last)
           /\ X \in SUBSET Ids
           /\ Concludes(GroupOf[w], X)
           /\ OutcomeTypeOK'
  <1>1. X \subseteq 1 .. last /\ X \subseteq Ids
    BY GatheredIds DEF Batch!DeadLetterPart
  <1>2. /\ dead' = [dead EXCEPT ![GroupOf[w]] = @ \cup X]
        /\ UNCHANGED <<handled, dropped, runs>>
    BY DEF Batch!DeadLetterPart
  <1>3. OutcomeTypeOK /\ GroupOf[w] \in Groups
    BY DEF BatchInv
  <1>4. OutcomeTypeOK'
    BY <1>1, <1>2, <1>3 DEF OutcomeTypeOK
  <1>5. Concludes(GroupOf[w], X)
    BY <1>2, <1>3 DEF Concludes, Outcome, OutcomeTypeOK
  <1> QED
    BY <1>1, <1>4, <1>5

LEMMA BatchGather ==
    ASSUME BatchInv, NEW w \in Workers, NEW i \in Ids, Batch!Gather(w, i)
    PROVE  BatchInv' /\ [Contract!Next]_(Contract!contractVars)
  <1> DEFINE d == IF pass[w] = "consume" THEN 1 ELSE Batch!TimesDelivered(GroupOf[w], i)
             b == batch[w] \cup {<<i, d>>}
  <1>1. /\ UNCHANGED <<pc, pass, acks>>
        /\ UNCHANGED Batch!busVars
        /\ UNCHANGED Batch!outcomeVars
        /\ i \in inbox[w]
        /\ inbox' = [inbox EXCEPT ![w] = @ \ {i}]
        /\ batch' = [batch EXCEPT ![w] = b]
    BY DEF Batch!Gather, Batch!Yielded
  <1>2. d \in Nat
    BY DEF BatchInv, BusInv, BusTypeOK, Batch!TimesDelivered
  <1> HIDE DEF d
  <1>3. Takes(w, pc[w], pass[w], inbox[w] \ {i}, b, acks[w])
    BY <1>1, OldHands DEF Takes
  <1>4. b \in SUBSET (Ids \X Nat) /\ \A e \in b : e[1] \in 1 .. last
    BY <1>1, <1>2, OldHands
  <1>5. inbox[w] \ {i} \in SUBSET (1 .. last)
    BY OldHands
  <1> HIDE DEF b
  <1>6. Turn(w, {})
    BY <1>3, <1>4, <1>5, OldHands, NewHands
  <1> QED
    BY <1>1, <1>6, SameVars, BatchMoves DEF busVars

LEMMA BatchQuarantine ==
    ASSUME BatchInv, NEW w \in Workers, NEW i \in Ids,
           NEW wrote \in BOOLEAN, NEW acked \in BOOLEAN, Batch!Quarantine(w, i, wrote, acked)
    PROVE  BatchInv' /\ [Contract!Next]_(Contract!contractVars)
  <1> DEFINE g == GroupOf[w]
             C == IF wrote \/ acked THEN {i} ELSE {}
             S == IF acked THEN {i} ELSE {}
  <1>t. OutcomeTypeOK /\ g \in Groups
    BY DEF BatchInv
  <1>1. /\ dead' = [dead EXCEPT ![g] = IF wrote THEN @ \cup {i} ELSE @]
        /\ dropped' = [dropped EXCEPT ![g] = IF ~wrote /\ acked THEN @ \cup {i} ELSE @]
        /\ UNCHANGED <<handled, runs>>
    BY DEF Batch!Quarantine, Batch!QuarantineEntry
  <1>2. XAck(g, S)
    BY SameAck DEF Batch!Quarantine, Batch!QuarantineEntry
  <1>3. UNCHANGED faults \/ Fault
    BY SameFault DEF Batch!Quarantine, Batch!QuarantineEntry
  <1>4. /\ UNCHANGED <<pc, pass, batch, acks>>
        /\ inbox' = [inbox EXCEPT ![w] = @ \ {i}]
        /\ i \in inbox[w]
    BY DEF Batch!Quarantine, Batch!Yielded
  <1>5. OutcomeTypeOK'
    BY <1>1, <1>t DEF OutcomeTypeOK
  <1>6. Concludes(g, C)
    BY <1>1, <1>t DEF Concludes, Outcome, OutcomeTypeOK
  <1>7. S \subseteq Outcome(g) \cup C /\ C \subseteq 1 .. last
    BY <1>4, OldHands
  <1> HIDE DEF C, S
  <1>8. Takes(w, pc[w], pass[w], inbox[w] \ {i}, batch[w], acks[w])
    BY <1>4, OldHands DEF Takes
  <1>9. inbox[w] \ {i} \in SUBSET (1 .. last) /\ acks[w] \subseteq Outcome(GroupOf[w]) \cup C
    BY OldHands
  <1>10. Turn(w, C)
    BY <1>8, <1>9, OldHands, NewHands
  <1> QED
    BY <1>2, <1>3, <1>5, <1>6, <1>7, <1>10, BatchConcludes

LEMMA BatchProcess ==
    ASSUME BatchInv, NEW w \in Workers, NEW ok,
           Batch!ProcessFull(w, ok) \/ Batch!ProcessRest(w, ok) \/ Batch!Rescue(w, ok)
    PROVE  BatchInv' /\ [Contract!Next]_(Contract!contractVars)
  <1>1. /\ Batch!ProcessBatch(w, ok)
        /\ UNCHANGED Batch!busVars
        /\ UNCHANGED <<pass, inbox>>
    BY DEF Batch!ProcessFull, Batch!ProcessRest, Batch!Rescue
  <1>2. PICK C \in SUBSET (1 .. last) :
              /\ C \in SUBSET Ids
              /\ Concludes(GroupOf[w], C)
              /\ OutcomeTypeOK'
              /\ acks' = [acks EXCEPT ![w] = acks[w] \cup C]
    BY <1>1, Processed
  <1>3. XAck(GroupOf[w], {}) /\ UNCHANGED faults
    BY <1>1, SameVars, QuietAck DEF busVars, BatchInv, BusInv
  <1>4. acks[w] \cup C \in SUBSET Ids /\ acks[w] \cup C \subseteq Outcome(GroupOf[w]) \cup C
    <2>1. acks[w] \in SUBSET Ids /\ acks[w] \subseteq Outcome(GroupOf[w])
      BY OldHands
    <2> QED
      BY <1>2, <2>1
  <1>5. Turn(w, C)
    <2>1. CASE Batch!ProcessFull(w, ok)
      <3>1. Takes(w, pc[w], pass[w], inbox[w], {}, acks[w] \cup C)
        BY <1>1, <1>2, <2>1, OldHands DEF Batch!ProcessFull, Takes
      <3> QED
        BY <1>4, <3>1, OldHands, NewHands
    <2>2. CASE Batch!ProcessRest(w, ok) \/ Batch!Rescue(w, ok)
      <3>1. PICK p \in {"flush", "rescueFlush"} : pc' = [pc EXCEPT ![w] = p]
        BY <2>2 DEF Batch!ProcessRest, Batch!Rescue, Batch!GoTo
      <3>2. UNCHANGED batch
        BY <2>2 DEF Batch!ProcessRest, Batch!Rescue
      <3>3. Takes(w, p, pass[w], inbox[w], batch[w], acks[w] \cup C)
        BY <1>1, <1>2, <3>1, <3>2, OldHands DEF Takes
      <3> QED
        BY <1>4, <3>3, OldHands, NewHands
    <2> QED
      BY <2>1, <2>2
  <1> QED
    BY <1>2, <1>3, <1>5, BatchConcludes

LEMMA BatchFlush ==
    ASSUME BatchInv, NEW w \in Workers,
           Batch!Flush(w) \/ \E A \in SUBSET Ids : Batch!FlushError(w, A)
    PROVE  BatchInv' /\ [Contract!Next]_(Contract!contractVars)
  <1>1. UNCHANGED outcomeVars
    BY SameVars DEF Batch!Flush, Batch!FlushError
  <1>2. OutcomeTypeOK' /\ Concludes(GroupOf[w], {})
    BY <1>1, QuietOutcome DEF BatchInv
  <1>3. acks[w] \in SUBSET Ids /\ acks[w] \subseteq Outcome(GroupOf[w])
    BY OldHands
  <1>4. CASE Batch!Flush(w)
    <2>1. XAck(GroupOf[w], acks[w]) /\ Batch!EndPass(w) /\ UNCHANGED faults
      BY <1>4, SameAck DEF Batch!Flush
    <2>2. Turn(w, {})
      BY <2>1, PassEnds
    <2> QED
      BY <1>2, <1>3, <2>1, <2>2, BatchConcludes
  <1>5. ASSUME NEW A \in SUBSET Ids, Batch!FlushError(w, A)
        PROVE  BatchInv' /\ [Contract!Next]_(Contract!contractVars)
    <2>1. XAck(GroupOf[w], A) /\ A \subseteq acks[w] /\ Batch!Except(w, acks[w]) /\ Fault
      BY <1>5, SameAck, SameFault DEF Batch!FlushError
    <2>2. Turn(w, {})
      BY <1>3, <2>1, PassFails
    <2> QED
      BY <1>2, <1>3, <2>1, <2>2, BatchConcludes
  <1> QED
    BY <1>4, <1>5

LEMMA BatchErrors ==
    ASSUME BatchInv, NEW w \in Workers,
           \/ Batch!ReadError(w)
           \/ \E X, Y \in SUBSET Ids : Batch!ProcessError(w, X, Y)
    PROVE  BatchInv' /\ [Contract!Next]_(Contract!contractVars)
  <1>1. UNCHANGED <<streamVars, reaperVars>> /\ Fault
    BY SameVars, SameFault DEF Batch!ReadError, Batch!ProcessError
  <1>2. XAck(GroupOf[w], {})
    BY <1>1, QuietAck DEF BatchInv, BusInv
  <1>3. acks[w] \in SUBSET Ids /\ acks[w] \subseteq Outcome(GroupOf[w])
    BY OldHands
  <1>4. CASE Batch!ReadError(w)
    <2>1. Batch!Except(w, acks[w]) /\ UNCHANGED outcomeVars
      BY <1>4, SameVars DEF Batch!ReadError
    <2>2. Turn(w, {})
      BY <1>3, <2>1, PassFails
    <2> QED
      BY <1>1, <2>1, <2>2, BatchMoves
  <1>5. ASSUME NEW X \in SUBSET Ids, NEW Y \in SUBSET Ids, Batch!ProcessError(w, X, Y)
        PROVE  BatchInv' /\ [Contract!Next]_(Contract!contractVars)
    <2>1. Batch!DeadLetterPart(w, X) /\ Y \subseteq X /\ Batch!Except(w, acks[w] \cup Y)
      BY <1>5 DEF Batch!ProcessError
    <2>2. /\ X \in SUBSET (1 .. last)
          /\ Concludes(GroupOf[w], X)
          /\ OutcomeTypeOK'
      BY <2>1, PartlyDead
    <2>3. /\ acks[w] \cup Y \in SUBSET Ids
          /\ acks[w] \cup Y \subseteq Outcome(GroupOf[w]) \cup X
      BY <1>3, <2>1
    <2>4. Turn(w, X)
      BY <2>1, <2>3, PassFails
    <2> QED
      BY <1>1, <1>2, <2>2, <2>4, BatchConcludes
  <1> QED
    BY <1>4, <1>5

LEMMA BatchRescueError ==
    ASSUME BatchInv, NEW w \in Workers, NEW X \in SUBSET Ids, NEW A \in SUBSET Ids,
           Batch!RescueError(w, X, A)
    PROVE  BatchInv' /\ [Contract!Next]_(Contract!contractVars)
  <1>1. XAck(GroupOf[w], A) /\ Fault /\ Batch!EndPass(w)
    BY SameAck, SameFault DEF Batch!RescueError
  <1>2. Turn(w, X)
    BY <1>1, PassEnds
  <1>3. CASE A = {} /\ Batch!DeadLetterPart(w, X)
    <2>1. /\ X \in SUBSET (1 .. last)
          /\ Concludes(GroupOf[w], X)
          /\ OutcomeTypeOK'
      BY <1>3, PartlyDead
    <2> QED
      BY <1>1, <1>2, <1>3, <2>1, BatchConcludes
  <1>4. CASE A \subseteq acks[w] /\ X = {} /\ UNCHANGED Batch!outcomeVars
    <2>1. OutcomeTypeOK' /\ Concludes(GroupOf[w], {})
      BY <1>4, SameVars, QuietOutcome DEF BatchInv
    <2>2. A \subseteq Outcome(GroupOf[w]) \cup X
      BY <1>4, OldHands
    <2> QED
      BY <1>1, <1>2, <1>4, <2>1, <2>2, BatchConcludes
  <1> QED
    BY <1>3, <1>4 DEF Batch!RescueError

LEMMA BatchSteps ==
    ASSUME BatchInv, NEW w \in Workers, Batch!Worker(w) \/ Batch!Faulty(w)
    PROVE  BatchInv' /\ [Contract!Next]_(Contract!contractVars)
  <1>0. Batch!Ids = Ids
    BY SameVars
  <1>1. CASE Batch!Worker(w)
    <2>1. CASE \E S \in SUBSET Ids : Batch!ClaimPending(w, S)
      BY <2>1, BatchClaim
    <2>2. CASE \E n \in Ids : Batch!Consume(w, n)
      BY <2>2, BatchRead
    <2>3. CASE Batch!EmptyRead(w) \/ Batch!NothingLeft(w)
      BY <2>3, BatchQuiet
    <2>4. CASE \E i \in Ids : Batch!Gather(w, i)
      BY <2>4, BatchGather
    <2>5. CASE \E i \in Ids, wrote, acked \in BOOLEAN : Batch!Quarantine(w, i, wrote, acked)
      BY <2>5, BatchQuarantine
    <2>6. CASE \E ok \in SUBSET Ids :
                  Batch!ProcessFull(w, ok) \/ Batch!ProcessRest(w, ok) \/ Batch!Rescue(w, ok)
      BY <2>6, BatchProcess
    <2>7. CASE Batch!Flush(w)
      BY <2>7, BatchFlush
    <2> QED
      BY <1>0, <1>1, <2>1, <2>2, <2>3, <2>4, <2>5, <2>6, <2>7 DEF Batch!Worker
  <1>2. CASE Batch!Faulty(w)
    <2>1. CASE \E n \in Ids : Batch!ReadLost(w, n)
      BY <2>1, BatchRead
    <2>2. CASE \E S \in SUBSET Ids : Batch!ClaimLost(w, S)
      BY <2>2, BatchClaim
    <2>3. CASE Batch!ReadError(w) \/ \E X, Y \in SUBSET Ids : Batch!ProcessError(w, X, Y)
      BY <2>3, BatchErrors
    <2>4. CASE \E A \in SUBSET Ids : Batch!FlushError(w, A)
      BY <2>4, BatchFlush
    <2>5. CASE \E X, A \in SUBSET Ids : Batch!RescueError(w, X, A)
      BY <2>5, BatchRescueError
    <2>6. CASE Batch!Break(w) \/ Batch!Crash(w)
      BY <2>6, BatchQuiet
    <2> QED
      BY <1>0, <1>2, <2>1, <2>2, <2>3, <2>4, <2>5, <2>6 DEF Batch!Faulty
  <1> QED
    BY <1>1, <1>2

\* Producers, the reaper, and steps of anything else.
LEMMA BatchBus ==
    ASSUME BatchInv, UNCHANGED Batch!workerVars, UNCHANGED outcomeVars,
           Produce \/ Reaper \/ UNCHANGED busVars
    PROVE  BatchInv' /\ [Contract!Next]_(Contract!contractVars)
  <1>t. BusTypeOK /\ Core /\ TrimmedIsSettled /\ OutcomeTypeOK
    BY DEF BatchInv, BusInv
  <1>1. OutcomeGrows /\ OutcomeTypeOK' /\ \A h \in Groups : Outcome(h)' = Outcome(h)
    BY <1>t, OutcomeUnchanged DEF outcomeVars, OutcomeTypeOK, Outcome
  <1>2. UNCHANGED <<pc, pass, inbox, batch, acks>>
    BY DEF Batch!workerVars
  <1>3. last \in Nat /\ last' \in Nat /\ last <= last'
    BY <1>t DEF Produce, Reaper, TrimSnapshot, TrimExamine, TrimGiveUp, TrimApply, busVars,
                streamVars, BusTypeOK
  <1>4. BatchTypes' /\ AcksAreEarned'
    BY <1>1, <1>2 DEF BatchInv, BatchTypes, AcksAreEarned
  <1>5. HeldWasProduced'
    <2>1. 1 .. last \subseteq 1 .. last'
      BY <1>3
    <2> QED
      BY <1>2, <2>1 DEF BatchInv, HeldWasProduced, Gathered
  <1>6. BusInv /\ BusInv'
    <2>1. CASE Produce \/ Reaper
      BY <1>t, <1>1, <2>1, ProduceType, ReaperType, CoreProduce, CoreReaper, SettledBus DEF BusInv
    <2>2. CASE UNCHANGED busVars
      <3>1. UNCHANGED <<streamVars, reaperVars>>
        BY <2>2 DEF busVars
      <3>2. BusTypeOK'
        BY <1>t, <2>2 DEF busVars, streamVars, reaperVars, BusTypeOK
      <3>3. Core'
        BY <1>t, <1>1, <3>1, CoreStutter
      <3>4. TrimmedIsSettled'
        BY <1>t, <3>1, SettledStutter DEF streamVars
      <3> QED
        BY <1>t, <3>2, <3>3, <3>4 DEF BusInv
    <2> QED
      BY <2>1, <2>2
  <1>7. [Contract!Next]_(Contract!contractVars)
    <2>1. CASE Produce
      BY <1>1, <1>6, <2>1, ContractPublishes
    <2>2. CASE Reaper \/ UNCHANGED busVars
      <3>1. UNCHANGED <<last, delivered, pel>>
        BY <2>2 DEF Reaper, TrimSnapshot, TrimExamine, TrimGiveUp, TrimApply, busVars, streamVars
      <3> QED
        BY <1>1, <1>6, <3>1, ContractStutters
    <2> QED
      BY <2>1, <2>2
  <1> QED
    BY <1>1, <1>4, <1>5, <1>6, <1>7 DEF BatchInv

LEMMA BatchNext ==
    ASSUME BatchInv, [Batch!Next]_Batch!vars
    PROVE  BatchInv' /\ [Contract!Next]_(Contract!contractVars)
  <1>1. CASE UNCHANGED Batch!vars
    <2>1. UNCHANGED Batch!workerVars /\ UNCHANGED outcomeVars /\ UNCHANGED busVars
      BY <1>1, SameVars DEF Batch!vars
    <2> QED
      BY <2>1, BatchBus
  <1>2. CASE (Batch!Produce \/ Batch!Reaper)
             /\ UNCHANGED <<Batch!workerVars, Batch!outcomeVars>>
    <2>1. UNCHANGED Batch!workerVars /\ UNCHANGED outcomeVars /\ (Produce \/ Reaper)
      BY <1>2, SameVars, SameProduce, SameReaper
    <2> QED
      BY <2>1, BatchBus
  <1>3. CASE \E w \in Workers : Batch!Worker(w) \/ Batch!Faulty(w)
    BY <1>3, BatchSteps
  <1> QED
    BY <1>1, <1>2, <1>3 DEF Batch!Next

\* The loop of a handler with handle_batch implements the same contract as the
\* plain loop: gathering, deferring acks to the end of the pass, processing the
\* gathered list a second time in _flush_gathered and acking it best effort never
\* ack a message without an outcome and never lose one.
THEOREM BatchImplementsContract == Batch!Spec => KeepsContract
  <1>1. Batch!Init => Contract!Init
    <2> SUFFICES ASSUME Batch!Init PROVE Contract!Init
      OBVIOUS
    <2>1. \A g \in InitialGroups, i \in Ids : EntryStatus(g, i) = "absent"
      <3>1. StatusReads
        BY BatchInit, StatusRead DEF BatchInv
      <3>2. \A i \in Ids : i > last
        BY DEF Batch!Init, Batch!BusInit, Ids
      <3> QED
        BY <3>1, <3>2 DEF StatusReads
    <2>2. \A g \in InitialGroups : Outcome(g) = {}
      BY DEF Batch!Init, Batch!OutcomeInit, Outcome
    <2> QED
      BY <2>1, <2>2 DEF Contract!Init, ContractStatus
  <1>2. BatchInv /\ [Batch!Next]_Batch!vars => BatchInv'
    BY BatchNext
  <1>3. BatchInv /\ [Batch!Next]_Batch!vars => [Contract!Next]_(Contract!contractVars)
    BY BatchNext
  <1> QED
    BY <1>1, <1>2, <1>3, BatchInit, PTL DEF Batch!Spec, KeepsContract, Contract!Spec
=============================================================================
