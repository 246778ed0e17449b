---------------------------- MODULE IndexerProofs ----------------------------
(***************************************************************************)
(* Proofs about the two write paths of WS-3.  BulkIndexer, for any         *)
(* messages, documents, batches and retries: an acked message is stored, a *)
(* scored document is never replaced by the normalized one, and the last   *)
(* upsert of a batch wins.  AlertIndexer, for any number of workers,       *)
(* analysts and daily indices: an acked alert is stored, and only the      *)
(* create of an alert that was not found can drop an analyst's update.     *)
(***************************************************************************)
EXTENDS BulkIndexer, AlertContract, FiniteSetTheorems, WellFoundedInduction, TLAPS

\* The alert path; what it shares with AlertContract has the same name there.
CONSTANTS Analysts, CasRetries, BulkRetries
VARIABLES emitted, seen, snap, tries, apc, asnap, atries

Alert == INSTANCE AlertIndexer

(***************************************************************************)
(* The inductive invariant.  The items of a batch share out its messages   *)
(* by document; the messages of one item fail together; and an item that   *)
(* is neither waiting nor failed is in the store.                          *)
(***************************************************************************)
BatchOK ==
    /\ store \in [Docs -> Msgs \cup {0}]
    /\ acked \subseteq Msgs
    /\ batch \in [Topics -> SUBSET Msgs]
    /\ pending \in [Topics -> SUBSET ItemType]
    /\ failed \in [Topics -> SUBSET Msgs]
    /\ \A t \in Topics :
          /\ batch[t] \subseteq MsgsOf(t) \ acked
          /\ IsFiniteSet(batch[t])
          /\ pending[t] \subseteq Coalesce(t, batch[t])

\* The store has what item i of topic t wanted to write.
Done(t, i) ==
    /\ store[DocOf[i.write]] # 0
    /\ t = "upsert" => store[DocOf[i.write]] = i.write

OutcomesShared ==
    \A t \in Topics : \A i \in Coalesce(t, batch[t]) :
        i.msgs \cap failed[t] = {} \/ i.msgs \subseteq failed[t]

WrittenOrFailed ==
    \A t \in Topics : \A i \in Coalesce(t, batch[t]) \ pending[t] :
        i.msgs \subseteq failed[t] \/ Done(t, i)

BulkInv == BatchOK /\ OutcomesShared /\ WrittenOrFailed /\ AckedIsStored

-----------------------------------------------------------------------------
(* Items.                                                                  *)

\* A finite set of numbers has a largest and a smallest element.
LEMMA FiniteHasExtremes ==
    ASSUME NEW S \in SUBSET Nat, IsFiniteSet(S), S # {}
    PROVE  /\ \E m \in S : \A k \in S : k <= m
           /\ \E m \in S : \A k \in S : m <= k
  <1> DEFINE HasMax(T) == \E m \in T : \A k \in T : k <= m
             HasMin(T) == \E m \in T : \A k \in T : m <= k
             Bad == {T \in SUBSET S : T # {} /\ ~(HasMax(T) /\ HasMin(T))}
  <1>1. Bad = {}
    <2> SUFFICES ASSUME Bad # {} PROVE FALSE
      OBVIOUS
    <2>1. Bad \subseteq FiniteSubsetsOf(S)
      BY FS_Subset DEF FiniteSubsetsOf
    <2>2. IsWellFoundedOn(StrictSubsetOrdering(S), FiniteSubsetsOf(S))
      BY FS_StrictSubsetOrderingWellFounded
    <2>3. PICK T \in Bad : \A U \in Bad : ~(<<U, T>> \in StrictSubsetOrdering(S))
      BY <2>1, <2>2, WFMin
    <2>4. T \subseteq S /\ T # {} /\ T \subseteq Nat
      OBVIOUS
    <2>5. PICK x \in T : x \in Nat
      BY <2>4
    <2> DEFINE U == T \ {x}
    <2>6. U \notin Bad
      <3>1. <<U, T>> \in StrictSubsetOrdering(S)
        BY <2>4 DEF StrictSubsetOrdering
      <3>2. QED
        BY <2>3, <3>1
    <2>7. CASE U = {}
      <3>1. T = {x}
        BY <2>7
      <3>2. QED
        BY <2>5, <3>1
    <2>8. CASE U # {}
      <3>1. HasMax(U) /\ HasMin(U)
        BY <2>4, <2>6, <2>8
      <3>2. PICK m \in U : \A k \in U : k <= m
        BY <3>1
      <3>3. PICK n \in U : \A k \in U : n <= k
        BY <3>1
      <3>4. m \in Nat /\ n \in Nat /\ \A k \in T : k \in Nat /\ (k \in U \/ k = x)
        BY <2>4
      <3>5. HasMax(T)
        <4>1. CASE x <= m
          BY <3>2, <3>4, <4>1
        <4>2. CASE m < x
          BY <3>2, <3>4, <4>2, <2>5
        <4>3. QED
          BY <4>1, <4>2, <3>4, <2>5
      <3>6. HasMin(T)
        <4>1. CASE n <= x
          BY <3>3, <3>4, <4>1
        <4>2. CASE x < n
          BY <3>3, <3>4, <4>2, <2>5
        <4>3. QED
          BY <4>1, <4>2, <3>4, <2>5
      <3>7. QED
        BY <3>5, <3>6
    <2>9. QED
      BY <2>7, <2>8
  <1>2. QED
    BY <1>1

\* The one message of a set is its first and its last.
LEMMA OnlyOne ==
    ASSUME NEW m \in Nat
    PROVE  Latest({m}) = m /\ Earliest({m}) = m
  <1>1. \A k \in {m} : k <= m /\ m <= k
    OBVIOUS
  <1>2. QED
    BY <1>1 DEF Latest, Earliest

\* Messages are positive numbers, and each topic has its own.
LEMMA MsgFacts ==
    /\ \A m \in Msgs : m \in Nat /\ m # 0
    /\ \A m \in Msgs \ Unroutable : DocOf[m] \in Docs
    /\ \A t \in Topics : MsgsOf(t) \subseteq Msgs
    /\ \A t, u \in Topics : t # u => MsgsOf(t) \cap MsgsOf(u) = {}
    /\ MsgsOf("upsert") = UpsertMsgs /\ MsgsOf("create") = CreateMsgs
  BY BulkIndexerAssumption DEF MsgsOf, Topics, Msgs

\* The messages of batch B for document d, and the item made of them.
Same(B, d) == {m \in B \ Unroutable : DocOf[m] = d}
ItemFor(t, B, d) ==
    [msgs |-> Same(B, d), write |-> IF t = "create" THEN Earliest(Same(B, d)) ELSE Latest(Same(B, d))]

LEMMA CoalesceItems ==
    ASSUME NEW t, NEW B
    PROVE  Coalesce(t, B) = {ItemFor(t, B, d) : d \in {DocOf[m] : m \in B \ Unroutable}}
  BY DEF Coalesce, ItemFor, Same

\* _coalesce picks one of an item's own messages as its payload, the last one for an
\* upsert.
LEMMA ItemFacts ==
    ASSUME NEW t \in Topics, NEW B \in SUBSET MsgsOf(t), IsFiniteSet(B), NEW i \in Coalesce(t, B)
    PROVE  /\ i = ItemFor(t, B, DocOf[i.write])
           /\ i.msgs = Same(B, DocOf[i.write])
           /\ i.write \in i.msgs
           /\ i.write \in MsgsOf(t) \ Unroutable
           /\ i \in ItemType
           /\ t = "upsert" => i.write = Latest(i.msgs)
  <1>1. PICK d \in {DocOf[m] : m \in B \ Unroutable} : i = ItemFor(t, B, d)
    BY CoalesceItems
  <1> DEFINE S == Same(B, d)
  <1>2. S \in SUBSET B /\ S # {} /\ S \in SUBSET Nat /\ S \in SUBSET Msgs
    BY <1>1, MsgFacts DEF Same
  <1>3. IsFiniteSet(S)
    BY <1>2, FS_Subset
  <1>4. Earliest(S) \in S /\ Latest(S) \in S
    <2>1. (\E m \in S : \A k \in S : k <= m) /\ (\E m \in S : \A k \in S : m <= k)
      BY <1>2, <1>3, FiniteHasExtremes
    <2> HIDE DEF S
    <2>2. QED
      BY <2>1 DEF Earliest, Latest
  <1>5. i.msgs = S /\ i.write = IF t = "create" THEN Earliest(S) ELSE Latest(S)
    BY <1>1 DEF ItemFor
  <1>6. i.write \in S /\ DocOf[i.write] = d
    BY <1>4, <1>5 DEF Same
  <1>7. i.write \in MsgsOf(t) \ Unroutable /\ i.write \in Msgs
    BY <1>2, <1>6 DEF Same
  <1>8. i \in ItemType
    <2>1. i = [msgs |-> i.msgs, write |-> i.write]
      BY <1>1 DEF ItemFor
    <2>2. QED
      BY <2>1, <1>2, <1>5, <1>7 DEF ItemType
  <1>9. QED
    BY <1>1, <1>5, <1>6, <1>7, <1>8

\* One document, one item.
LEMMA OneItem ==
    ASSUME NEW t \in Topics, NEW B \in SUBSET MsgsOf(t), IsFiniteSet(B),
           NEW i \in Coalesce(t, B), NEW j \in Coalesce(t, B),
           DocOf[i.write] = DocOf[j.write] \/ i.msgs \cap j.msgs # {}
    PROVE  i = j
  <1>1. /\ i = ItemFor(t, B, DocOf[i.write]) /\ i.msgs = Same(B, DocOf[i.write])
        /\ j = ItemFor(t, B, DocOf[j.write]) /\ j.msgs = Same(B, DocOf[j.write])
    BY ItemFacts
  <1>2. DocOf[i.write] = DocOf[j.write]
    BY <1>1 DEF Same
  <1>3. QED
    BY <1>1, <1>2

\* Every message of a batch that route() accepts is in an item.
LEMMA ItemOf ==
    ASSUME NEW t \in Topics, NEW B, NEW m \in B \ Unroutable
    PROVE  \E i \in Coalesce(t, B) : m \in i.msgs
  <1>1. ItemFor(t, B, DocOf[m]) \in Coalesce(t, B)
    BY CoalesceItems
  <1>2. m \in ItemFor(t, B, DocOf[m]).msgs
    BY DEF ItemFor, Same
  <1>3. QED
    BY <1>1, <1>2

\* What a bulk request of the items S does to the store.
LEMMA Applied ==
    ASSUME NEW t \in Topics, NEW B \in SUBSET MsgsOf(t), IsFiniteSet(B), NEW S \in SUBSET Coalesce(t, B),
           store \in [Docs -> Msgs \cup {0}], Apply(t, S)
    PROVE  /\ store' \in [Docs -> Msgs \cup {0}]
           /\ \A d \in Docs : (\A i \in S : DocOf[i.write] # d) => store'[d] = store[d]
           /\ \A i \in S : Done(t, i)'
           /\ \A d \in Docs : store[d] # 0 => store'[d] # 0
           /\ \A d \in Docs : store[d] \in UpsertMsgs => store'[d] \in UpsertMsgs
           /\ t = "create" => \A d \in Docs : store[d] # 0 => store'[d] = store[d]
  <1> DEFINE writes(d) == {i.write : i \in {j \in S : DocOf[j.write] = d}}
  <1>1. \A d \in Docs : store'[d] = IF writes(d) = {} THEN store[d]
                                    ELSE IF t = "upsert" THEN Latest(writes(d))
                                    ELSE IF store[d] = 0 THEN Earliest(writes(d)) ELSE store[d]
    BY DEF Apply, Written
  <1>2. ASSUME NEW i \in S
        PROVE  /\ writes(DocOf[i.write]) = {i.write} /\ i.write \in MsgsOf(t) /\ i.write \in Msgs
               /\ i.write \in Nat /\ i.write # 0 /\ DocOf[i.write] \in Docs
    <2>1. \A j \in S : DocOf[j.write] = DocOf[i.write] => j = i
      BY OneItem
    <2>2. i.write \in MsgsOf(t) \ Unroutable
      BY ItemFacts
    <2>3. writes(DocOf[i.write]) = {i.write}
      BY <2>1
    <2>4. QED
      BY <2>2, <2>3, MsgFacts
  <1>3. ASSUME NEW d \in Docs, NEW i \in S, DocOf[i.write] = d
        PROVE  store'[d] = IF t = "upsert" \/ store[d] = 0 THEN i.write ELSE store[d]
    <2>1. writes(d) = {i.write} /\ i.write \in Nat
      BY <1>2, <1>3
    <2>2. Latest(writes(d)) = i.write /\ Earliest(writes(d)) = i.write /\ writes(d) # {}
      BY <2>1, OnlyOne
    <2> HIDE DEF writes
    <2>3. QED
      BY <1>1, <2>2
  <1>4. ASSUME NEW d \in Docs, \A i \in S : DocOf[i.write] # d
        PROVE  store'[d] = store[d]
    <2>1. writes(d) = {}
      BY <1>4
    <2> HIDE DEF writes
    <2>2. QED
      BY <1>1, <2>1
  <1>5. \A d \in Docs : store'[d] \in Msgs \cup {0}
    BY <1>2, <1>3, <1>4
  <1>6. store' \in [Docs -> Msgs \cup {0}]
    <2>1. store' = [d \in Docs |-> store'[d]]
      BY DEF Apply
    <2>2. QED
      BY <1>5, <2>1
  <1>7. \A i \in S : Done(t, i)'
    <2> SUFFICES ASSUME NEW i \in S
                 PROVE  store'[DocOf[i.write]] # 0 /\ (t = "upsert" => store'[DocOf[i.write]] = i.write)
      BY DEF Done
    <2>1. QED
      BY <1>2, <1>3
  <1>8. \A d \in Docs : store[d] # 0 => store'[d] # 0
    BY <1>2, <1>3, <1>4
  <1>9. t = "create" => \A d \in Docs : store[d] # 0 => store'[d] = store[d]
    BY <1>3, <1>4
  <1>10. \A d \in Docs : store[d] \in UpsertMsgs => store'[d] \in UpsertMsgs
    <2> SUFFICES ASSUME NEW d \in Docs, store[d] \in UpsertMsgs PROVE store'[d] \in UpsertMsgs
      OBVIOUS
    <2>1. store[d] # 0
      BY MsgFacts DEF Msgs
    <2>2. CASE t = "create"
      BY <2>1, <2>2, <1>9
    <2>3. CASE t = "upsert"
      BY <2>3, <1>2, <1>3, <1>4, MsgFacts
    <2>4. QED
      BY <2>2, <2>3 DEF Topics
  <1>11. QED
    BY <1>4, <1>6, <1>7, <1>8, <1>9, <1>10

-----------------------------------------------------------------------------
(* The end of a request.                                                   *)

\* The three facts about a step, with the two action properties.
StepKeeps ==
    /\ BulkInv'
    /\ \A d \in Docs : store[d] \in UpsertMsgs => store'[d] \in UpsertMsgs
    /\ \A m \in UpsertsAcked : store'[DocOf[m]] = Latest({k \in UpsertsAcked : DocOf[k] = DocOf[m]})

\* The invariant gives each batch its items.
LEMMA BatchFacts ==
    ASSUME BulkInv, NEW t \in Topics
    PROVE  /\ batch[t] \in SUBSET MsgsOf(t) /\ IsFiniteSet(batch[t]) /\ batch[t] \cap acked = {}
           /\ pending[t] \subseteq Coalesce(t, batch[t])
           /\ store \in [Docs -> Msgs \cup {0}]
  BY DEF BulkInv, BatchOK

\* What the other topic has written stays written.
LEMMA DoneKept ==
    ASSUME BulkInv, NEW t \in Topics, NEW S \in SUBSET pending[t], Apply(t, S),
           NEW u \in Topics, NEW i \in Coalesce(u, batch[u]), i \notin pending[u], Done(u, i)
    PROVE  Done(u, i)'
  <1> DEFINE d == DocOf[i.write]
  <1>1. S \in SUBSET Coalesce(t, batch[t]) /\ d \in Docs
    BY BatchFacts, ItemFacts, MsgFacts
  <1>2. /\ \A e \in Docs : (\A j \in S : DocOf[j.write] # e) => store'[e] = store[e]
        /\ \A e \in Docs : store[e] # 0 => store'[e] # 0
        /\ t = "create" => \A e \in Docs : store[e] # 0 => store'[e] = store[e]
    BY <1>1, BatchFacts, Applied
  <1>3. store[d] # 0 /\ (u = "upsert" => store[d] = i.write)
    BY DEF Done
  <1>4. CASE u = t
    <2>1. \A j \in S : DocOf[j.write] # d
      BY <1>1, <1>4, BatchFacts, OneItem
    <2>2. store'[d] = store[d]
      BY <1>1, <1>2, <2>1
    <2>3. QED
      BY <1>3, <2>2 DEF Done
  <1>5. CASE u # t
    <2>1. u = "upsert" => store'[d] = store[d]
      BY <1>1, <1>2, <1>3, <1>5 DEF Topics
    <2>2. QED
      BY <1>1, <1>2, <1>3, <2>1 DEF Done
  <1>6. QED
    BY <1>4, <1>5

\* _flush after a request: the items P are rejected for good, those in R may be
\* retried, and all the others had been applied.
LEMMA SettleKeeps ==
    ASSUME BulkInv, NEW t \in Topics, NEW P \in SUBSET pending[t], NEW R \in SUBSET pending[t],
           NEW S \in SUBSET pending[t], pending[t] \ (P \cup R) \subseteq S, Apply(t, S), Settle(t, P, R)
    PROVE  StepKeeps
  <1>b. /\ batch[t] \in SUBSET MsgsOf(t) /\ IsFiniteSet(batch[t]) /\ batch[t] \cap acked = {}
        /\ pending[t] \subseteq Coalesce(t, batch[t]) /\ store \in [Docs -> Msgs \cup {0}]
    BY BatchFacts
  <1>a. /\ store' \in [Docs -> Msgs \cup {0}]
        /\ \A i \in S : Done(t, i)'
        /\ \A d \in Docs : store[d] # 0 => store'[d] # 0
        /\ \A d \in Docs : store[d] \in UpsertMsgs => store'[d] \in UpsertMsgs
    <2>1. S \in SUBSET Coalesce(t, batch[t])
      BY <1>b
    <2>2. QED
      BY <1>b, <2>1, Applied
  <1>f. /\ batch \in [Topics -> SUBSET Msgs] /\ pending \in [Topics -> SUBSET ItemType]
        /\ failed \in [Topics -> SUBSET Msgs] /\ acked \subseteq Msgs
        /\ OutcomesShared /\ WrittenOrFailed /\ AckedIsStored
    BY DEF BulkInv, BatchOK
  <1>w. ASSUME NEW i \in Coalesce(t, batch[t]), i \notin P \cup R
        PROVE  i.msgs \subseteq failed[t] \/ Done(t, i)'
    <2>1. CASE i \in pending[t]
      BY <1>a, <1>w, <2>1
    <2>2. CASE i \notin pending[t]
      BY <1>f, <1>w, <2>2, DoneKept DEF WrittenOrFailed
    <2>3. QED
      BY <2>1, <2>2
  <1>m. MsgsIn(P) \subseteq batch[t] /\ MsgsIn(P \cup R) \subseteq batch[t]
    <2>1. \A i \in pending[t] : i.msgs \subseteq batch[t]
      BY <1>b, ItemFacts DEF Same
    <2>2. QED
      BY <2>1 DEF MsgsIn
  <1>d. ASSUME NEW i \in Coalesce(t, batch[t]), NEW Q \in SUBSET pending[t]
        PROVE  /\ i \in Q => i.msgs \subseteq MsgsIn(Q)
               /\ i \notin Q => i.msgs \cap MsgsIn(Q) = {}
    <2>1. \A j \in Q : i.msgs \cap j.msgs # {} => i = j
      BY <1>b, <1>d, OneItem
    <2>2. QED
      BY <2>1 DEF MsgsIn
  <1>o. ASSUME NEW u \in Topics, u # t, UNCHANGED <<batch[u], pending[u], failed[u]>>
        PROVE  /\ \A i \in Coalesce(u, batch'[u]) :
                     i.msgs \cap failed'[u] = {} \/ i.msgs \subseteq failed'[u]
               /\ \A i \in Coalesce(u, batch'[u]) \ pending'[u] : i.msgs \subseteq failed'[u] \/ Done(u, i)'
    <2>1. batch'[u] = batch[u] /\ pending'[u] = pending[u] /\ failed'[u] = failed[u]
      BY <1>o
    <2>2. QED
      BY <1>f, <1>o, <2>1, DoneKept DEF OutcomesShared, WrittenOrFailed
  <1>1. CASE R # {} /\ attempt[t] < Retries
    <2>1. /\ pending' = [pending EXCEPT ![t] = R]
          /\ failed' = [failed EXCEPT ![t] = @ \cup MsgsIn(P)]
          /\ UNCHANGED <<batch, acked>>
      BY <1>1 DEF Settle
    <2>2. /\ pending'[t] = R /\ failed'[t] = failed[t] \cup MsgsIn(P)
          /\ \A u \in Topics \ {t} : UNCHANGED <<batch[u], pending[u], failed[u]>>
      BY <2>1, <1>f
    <2>3. BatchOK'
      <3>1. pending' \in [Topics -> SUBSET ItemType] /\ failed' \in [Topics -> SUBSET Msgs]
        <4>1. R \subseteq ItemType /\ MsgsIn(P) \subseteq Msgs
          BY <1>f, <1>m
        <4>2. QED
          BY <4>1, <2>1, <1>f
      <3>2. \A u \in Topics : /\ batch'[u] \subseteq MsgsOf(u) \ acked'
                              /\ IsFiniteSet(batch'[u])
                              /\ pending'[u] \subseteq Coalesce(u, batch'[u])
        BY <2>1, <2>2, <1>b DEF BulkInv, BatchOK
      <3>3. QED
        BY <3>1, <3>2, <2>1, <1>a, <1>f DEF BatchOK
    <2>4. OutcomesShared'
      <3> SUFFICES ASSUME NEW u \in Topics, NEW i \in Coalesce(u, batch'[u])
                   PROVE  i.msgs \cap failed'[u] = {} \/ i.msgs \subseteq failed'[u]
        BY DEF OutcomesShared
      <3>1. CASE u # t
        BY <3>1, <2>2, <1>o
      <3>2. CASE u = t
        <4>1. i \in Coalesce(t, batch[t])
          BY <3>2, <2>1
        <4>2. i.msgs \cap failed[t] = {} \/ i.msgs \subseteq failed[t]
          BY <4>1, <1>f DEF OutcomesShared
        <4>3. i.msgs \cap MsgsIn(P) = {} \/ i.msgs \subseteq MsgsIn(P)
          BY <4>1, <1>d
        <4>4. QED
          BY <3>2, <4>2, <4>3, <2>2
      <3>3. QED
        BY <3>1, <3>2
    <2>5. WrittenOrFailed'
      <3> SUFFICES ASSUME NEW u \in Topics, NEW i \in Coalesce(u, batch'[u]) \ pending'[u]
                   PROVE  i.msgs \subseteq failed'[u] \/ Done(u, i)'
        BY DEF WrittenOrFailed
      <3>1. CASE u # t
        BY <3>1, <2>2, <1>o
      <3>2. CASE u = t
        <4>1. i \in Coalesce(t, batch[t]) /\ i \notin R
          BY <3>2, <2>1, <2>2
        <4>2. CASE i \in P
          BY <4>1, <4>2, <3>2, <2>2, <1>d
        <4>3. CASE i \notin P
          BY <4>1, <4>3, <3>2, <2>2, <1>w
        <4>4. QED
          BY <4>2, <4>3
      <3>3. QED
        BY <3>1, <3>2
    <2>6. AckedIsStored'
      BY <2>1, <1>a, <1>f, MsgFacts DEF AckedIsStored
    <2>7. QED
      BY <2>1, <2>3, <2>4, <2>5, <2>6, <1>a DEF StepKeeps, UpsertsAcked, BulkInv
  <1>2. CASE ~(R # {} /\ attempt[t] < Retries)
    <2> DEFINE N == batch[t] \ (failed[t] \cup MsgsIn(P \cup R))
    <2>1. /\ acked' = acked \cup N
          /\ pending' = [pending EXCEPT ![t] = {}]
          /\ failed' = [failed EXCEPT ![t] = {}]
          /\ batch' = [batch EXCEPT ![t] = {}]
      BY <1>2 DEF Settle
    <2>2. /\ batch'[t] = {} /\ pending'[t] = {} /\ failed'[t] = {}
          /\ \A u \in Topics \ {t} : UNCHANGED <<batch[u], pending[u], failed[u]>>
      BY <2>1, <1>f
    <2>3. Coalesce(t, {}) = {}
      BY CoalesceItems
    <2>n. ASSUME NEW m \in N \ Unroutable
          PROVE  \E i \in Coalesce(t, batch[t]) :
                    /\ m \in i.msgs /\ i.msgs \subseteq N \ Unroutable /\ Done(t, i)'
      <3>1. PICK i \in Coalesce(t, batch[t]) : m \in i.msgs
        BY ItemOf
      <3>2. P \cup R \in SUBSET pending[t]
        OBVIOUS
      <3>3. i \notin P \cup R /\ i.msgs \cap MsgsIn(P \cup R) = {}
        BY <3>1, <3>2, <1>d
      <3>4. i.msgs \cap failed[t] = {}
        BY <3>1, <1>f DEF OutcomesShared
      <3>5. i.msgs \subseteq batch[t] \ Unroutable
        BY <1>b, ItemFacts DEF Same
      <3>6. Done(t, i)'
        BY <3>1, <3>3, <3>4, <1>w
      <3>7. QED
        BY <3>1, <3>3, <3>4, <3>5, <3>6
    <2>4. BatchOK'
      <3>1. /\ pending' \in [Topics -> SUBSET ItemType] /\ failed' \in [Topics -> SUBSET Msgs]
            /\ batch' \in [Topics -> SUBSET Msgs] /\ acked' \subseteq Msgs
        BY <2>1, <1>f
      <3>2. ASSUME NEW u \in Topics
            PROVE  /\ batch'[u] \subseteq MsgsOf(u) \ acked'
                   /\ IsFiniteSet(batch'[u])
                   /\ pending'[u] \subseteq Coalesce(u, batch'[u])
        <4>1. CASE u = t
          BY <4>1, <2>2, FS_EmptySet
        <4>2. CASE u # t
          <5>1. batch'[u] = batch[u] /\ pending'[u] = pending[u]
            BY <4>2, <2>2
          <5>2. N \cap MsgsOf(u) = {}
            BY <4>2, <1>b, MsgFacts
          <5> HIDE DEF N
          <5>3. QED
            BY <5>1, <5>2, <2>1, BatchFacts
        <4>3. QED
          BY <4>1, <4>2
      <3>3. QED
        BY <3>1, <3>2, <1>a DEF BatchOK
    <2>5. OutcomesShared' /\ WrittenOrFailed'
      <3>1. ASSUME NEW u \in Topics, NEW i \in Coalesce(u, batch'[u])
            PROVE  /\ i.msgs \cap failed'[u] = {} \/ i.msgs \subseteq failed'[u]
                   /\ i \notin pending'[u] => i.msgs \subseteq failed'[u] \/ Done(u, i)'
        <4>1. CASE u = t
          BY <3>1, <4>1, <2>2, <2>3
        <4>2. CASE u # t
          BY <3>1, <4>2, <2>2, <1>o
        <4>3. QED
          BY <4>1, <4>2
      <3>2. QED
        BY <3>1 DEF OutcomesShared, WrittenOrFailed
    <2>6. AckedIsStored'
      <3> SUFFICES ASSUME NEW m \in acked' \ Unroutable
                   PROVE  /\ store'[DocOf[m]] # 0
                          /\ m \in UpsertMsgs => store'[DocOf[m]] \in UpsertMsgs
        BY DEF AckedIsStored
      <3>1. CASE m \in acked
        BY <3>1, <1>a, <1>f, MsgFacts DEF AckedIsStored
      <3>2. CASE m \in N
        <4>1. PICK i \in Coalesce(t, batch[t]) : m \in i.msgs /\ Done(t, i)'
          BY <3>2, <2>n
        <4>2. DocOf[m] = DocOf[i.write] /\ i.write \in MsgsOf(t) /\ m \in MsgsOf(t)
          BY <4>1, <1>b, ItemFacts DEF Same
        <4>3. store'[DocOf[m]] # 0 /\ (t = "upsert" => store'[DocOf[m]] = i.write)
          BY <4>1, <4>2 DEF Done
        <4>4. m \in UpsertMsgs => t = "upsert" /\ i.write \in UpsertMsgs
          BY <4>2, MsgFacts DEF Topics
        <4>5. QED
          BY <4>3, <4>4
      <3> HIDE DEF N
      <3>3. QED
        BY <3>1, <3>2, <2>1
    <2>7. ASSUME NEW m \in UpsertsAcked
          PROVE  store'[DocOf[m]] = Latest({k \in UpsertsAcked : DocOf[k] = DocOf[m]})
      <3>1. acked' \ acked = N /\ m \in N \ Unroutable /\ N \subseteq batch[t]
        BY <2>1, <1>b DEF UpsertsAcked
      <3>2. PICK i \in Coalesce(t, batch[t]) : m \in i.msgs /\ i.msgs \subseteq N \ Unroutable /\ Done(t, i)'
        BY <3>1, <2>n
      <3>3. t = "upsert" /\ N \subseteq UpsertMsgs
        BY <3>1, <1>b, MsgFacts DEF Topics, UpsertsAcked
      <3>4. /\ i.msgs = Same(batch[t], DocOf[i.write]) /\ i.write = Latest(i.msgs)
            /\ DocOf[m] = DocOf[i.write]
        BY <3>2, <3>3, <1>b, ItemFacts DEF Same
      <3>5. {k \in N \ Unroutable : DocOf[k] = DocOf[m]} = i.msgs
        BY <3>1, <3>2, <3>4 DEF Same
      <3>6. UpsertsAcked = N \ Unroutable
        BY <3>1, <3>3 DEF UpsertsAcked
      <3>7. store'[DocOf[m]] = i.write
        BY <3>2, <3>3, <3>4 DEF Done
      <3> HIDE DEF N
      <3>8. QED
        BY <3>4, <3>5, <3>6, <3>7
    <2>8. QED
      BY <2>4, <2>5, <2>6, <2>7, <1>a DEF StepKeeps, BulkInv
  <1>3. QED
    BY <1>1, <1>2

-----------------------------------------------------------------------------

\* A step of topic t that leaves the store and the acks alone.
LEMMA QuietKeeps ==
    ASSUME BulkInv, NEW t \in Topics, UNCHANGED <<store, acked>>,
           \A u \in Topics \ {t} : UNCHANGED <<batch[u], pending[u], failed[u]>>,
           batch' \in [Topics -> SUBSET Msgs], pending' \in [Topics -> SUBSET ItemType],
           failed' \in [Topics -> SUBSET Msgs],
           batch'[t] \subseteq MsgsOf(t) \ acked, IsFiniteSet(batch'[t]),
           pending'[t] = Coalesce(t, batch'[t]), batch'[t] = {} \/ failed'[t] = {}
    PROVE  StepKeeps
  <1>1. \A u \in Topics \ {t} : batch'[u] = batch[u] /\ pending'[u] = pending[u] /\ failed'[u] = failed[u]
    OBVIOUS
  <1>2. BatchOK'
    BY <1>1 DEF BulkInv, BatchOK
  <1>3. Coalesce(t, {}) = {}
    BY CoalesceItems
  <1>4. OutcomesShared'
    BY <1>1, <1>3 DEF BulkInv, OutcomesShared
  <1>5. WrittenOrFailed'
    BY <1>1 DEF BulkInv, WrittenOrFailed, Done
  <1>6. AckedIsStored'
    BY DEF BulkInv, AckedIsStored
  <1>7. QED
    BY <1>2, <1>4, <1>5, <1>6 DEF StepKeeps, UpsertsAcked, BulkInv

\* The invariant holds initially.
LEMMA InitBulk == Init => BulkInv
  <1> SUFFICES ASSUME Init PROVE BulkInv
    OBVIOUS
  <1>1. \A t : Coalesce(t, {}) = {}
    BY CoalesceItems
  <1>2. BatchOK
    BY FS_EmptySet DEF Init, BatchOK
  <1>3. OutcomesShared /\ WrittenOrFailed
    BY <1>1 DEF Init, OutcomesShared, WrittenOrFailed
  <1>4. AckedIsStored
    BY DEF Init, AckedIsStored
  <1>5. QED
    BY <1>2, <1>3, <1>4 DEF BulkInv

\* Every step keeps it, strips no score and lets the last of a batch win.
LEMMA BulkStep == BulkInv /\ Next => StepKeeps
  <1> SUFFICES ASSUME BulkInv, NEW t \in Topics,
                      \/ \E B \in SUBSET MsgsOf(t) : TakeBatch(t, B)
                      \/ \E P, R \in SUBSET pending[t] : BulkAnswered(t, P, R)
                      \/ \E S \in SUBSET pending[t] : BulkRaised(t, S)
                      \/ DropBatch(t)
                      \/ Crash(t)
               PROVE  StepKeeps
    BY DEF Next
  <1>f. /\ batch \in [Topics -> SUBSET Msgs] /\ pending \in [Topics -> SUBSET ItemType]
        /\ failed \in [Topics -> SUBSET Msgs]
    BY DEF BulkInv, BatchOK
  <1>1. ASSUME NEW B \in SUBSET MsgsOf(t), TakeBatch(t, B) PROVE StepKeeps
    <2>1. /\ B \subseteq MsgsOf(t) \ acked /\ IsFiniteSet(B) /\ UNCHANGED <<store, acked>>
          /\ batch' = [batch EXCEPT ![t] = B]
          /\ pending' = [pending EXCEPT ![t] = Coalesce(t, B)]
          /\ failed' = [failed EXCEPT ![t] = {}]
      BY <1>1 DEF TakeBatch
    <2>2. Coalesce(t, B) \subseteq ItemType
      BY <2>1, ItemFacts
    <2>3. B \subseteq Msgs
      BY MsgFacts
    <2>4. QED
      BY <2>1, <2>2, <2>3, <1>f, QuietKeeps
  <1>2. ASSUME NEW P \in SUBSET pending[t], NEW R \in SUBSET pending[t], BulkAnswered(t, P, R) PROVE StepKeeps
    <2> DEFINE S == pending[t] \ (P \cup R)
    <2>1. S \in SUBSET pending[t] /\ Apply(t, S) /\ Settle(t, P, R)
      BY <1>2 DEF BulkAnswered
    <2> HIDE DEF S
    <2>2. pending[t] \ (P \cup R) \subseteq S
      BY DEF S
    <2>3. QED
      BY <2>1, <2>2, SettleKeeps
  <1>3. ASSUME NEW S \in SUBSET pending[t], BulkRaised(t, S) PROVE StepKeeps
    <2>1. Apply(t, S) /\ Settle(t, {}, pending[t]) /\ pending[t] \ ({} \cup pending[t]) \subseteq S
      BY <1>3 DEF BulkRaised
    <2>2. {} \in SUBSET pending[t] /\ pending[t] \in SUBSET pending[t]
      OBVIOUS
    <2>3. QED
      BY <2>1, <2>2, SettleKeeps
  <1>4. CASE Crash(t)
    <2>1. /\ UNCHANGED <<store, acked, failed>>
          /\ batch' = [batch EXCEPT ![t] = {}]
          /\ pending' = [pending EXCEPT ![t] = {}]
      BY <1>4 DEF Crash
    <2>2. Coalesce(t, {}) = {} /\ IsFiniteSet({})
      BY CoalesceItems, FS_EmptySet
    <2>3. QED
      BY <2>1, <2>2, <1>f, QuietKeeps
  <1>5. CASE DropBatch(t)
    <2>1. UNCHANGED store /\ Settle(t, {}, {}) /\ pending[t] = {}
      BY <1>5 DEF DropBatch
    <2>2. \A d \in Docs : Written(t, {}, d) = store[d]
      BY DEF Written
    <2>3. Apply(t, {})
      BY <2>1, <2>2, BatchFacts DEF Apply
    <2>4. QED
      BY <2>1, <2>3, SettleKeeps
  <1>6. QED
    BY <1>1, <1>2, <1>3, <1>4, <1>5

\* So does a stuttering step.
LEMMA BulkStutter == BulkInv /\ UNCHANGED vars => BulkInv'
  BY DEF vars, BulkInv, BatchOK, OutcomesShared, WrittenOrFailed, Done, AckedIsStored

\* An acked message that route() accepts is stored, with its score if it had one,
\* whatever was rejected, retried, half applied or redelivered before.
THEOREM AckMeansStored == Spec => []AckedIsStored
  <1>1. BulkInv /\ [Next]_vars => BulkInv'
    BY BulkStep, BulkStutter DEF StepKeeps
  <1>2. QED
    BY <1>1, InitBulk, PTL DEF Spec, BulkInv

\* No write of the normalized copy replaces the scored one.
THEOREM ScoresStay == Spec => ScoreNeverStripped
  <1>1. BulkInv /\ [Next]_vars => BulkInv'
    BY BulkStep, BulkStutter DEF StepKeeps
  <1>2. BulkInv /\ [Next]_vars
        => [\A d \in Docs : store[d] \in UpsertMsgs => store'[d] \in UpsertMsgs]_vars
    BY BulkStep DEF StepKeeps
  <1>3. QED
    BY <1>1, <1>2, InitBulk, PTL DEF Spec, ScoreNeverStripped

\* A batch that is acked leaves the payload of its last message for each document.
THEOREM LastUpsertWins == Spec => LastOfBatchWins
  <1>1. BulkInv /\ [Next]_vars => BulkInv'
    BY BulkStep, BulkStutter DEF StepKeeps
  <1>2. BulkInv /\ [Next]_vars
        => [\A m \in UpsertsAcked :
               store'[DocOf[m]] = Latest({k \in UpsertsAcked : DocOf[k] = DocOf[m]})]_vars
    BY BulkStep DEF StepKeeps
  <1>3. QED
    BY <1>1, <1>2, InitBulk, PTL DEF Spec, LastOfBatchWins

-----------------------------------------------------------------------------
(* The alert path.  Behind(s, doc): s is a read of a document that is now  *)
(* doc; as long as the version stands, so does the triage that was read.   *)

Behind(s, doc) ==
    /\ s.ver <= doc.ver
    /\ s.ver = doc.ver => s.triage = doc.triage

AlertTypes ==
    /\ docs \in [Days -> Alert!DocType]
    /\ seen \in [Days -> Alert!DocType]
    /\ snap \in [Indexers -> Alert!DocType]
    /\ ipc \in [Indexers -> {"idle", "mget", "bulk", "get", "drift", "create", "cas"}]
    /\ work \in [Indexers -> SUBSET Messages]
    /\ \A w \in Indexers : ipc[w] # "idle" => work[w] # {}
    /\ emitted \in 0 .. MaxEmits
    /\ apc \in [Analysts -> {"idle", "find", "write", "200", "404", "409"}]
    /\ asnap \in [Analysts -> [day : Nat, doc : Alert!DocType]]

\* What a search sees, and what a writer read and will write back under its
\* version, is a read of the document now stored.
SearchBehind == \A d \in Days : Behind(seen[d], docs[d])

WorkersBehind ==
    \A w \in Indexers : ipc[w] \in {"bulk", "cas"} => Behind(snap[w], docs[Day(w)])

AnalystsBehind ==
    \A a \in Analysts :
        apc[a] = "write" => asnap[a].day \in Days /\ Behind(asnap[a].doc, docs[asnap[a].day])

AlertInv ==
    /\ AlertTypes
    /\ SearchBehind
    /\ WorkersBehind
    /\ AnalystsBehind
    /\ AckedAlertStored

\* Every document is as it was or has a newer version.
DocsGrow ==
    \A d \in Days :
        \/ docs'[d] = docs[d]
        \/ docs[d].ver < docs'[d].ver

\* A worker's messages are routed to an index, and its payload is one of them.
LEMMA WorkIsRouted ==
    ASSUME AlertTypes, NEW w \in Indexers, ipc[w] # "idle"
    PROVE  /\ Day(w) \in Days
           /\ Alert!Payload(w) \in 0 .. MaxEmits
  <1>1. work[w] # {} /\ work[w] \subseteq Messages
    BY DEF AlertTypes
  <1>2. (CHOOSE m \in work[w] : TRUE) \in Messages
    BY <1>1
  <1>3. Day(w) \in Days
    BY <1>2, AlertContractAssumption DEF Day
  <1>4. work[w] \in SUBSET Nat
    BY <1>1, AlertContractAssumption DEF Messages
  <1>5. IsFiniteSet(work[w])
    <2>1. IsFiniteSet(1 .. MaxEmits)
      BY FS_Interval, AlertContractAssumption
    <2> QED
      BY <2>1, <1>1, FS_Subset DEF Messages
  <1>6. PICK m \in work[w] : \A k \in work[w] : k <= m
    BY <1>1, <1>4, <1>5, FiniteHasExtremes
  <1>7. Alert!Payload(w) \in work[w]
    BY <1>6 DEF Alert!Payload
  <1>8. Messages \subseteq 0 .. MaxEmits
    BY AlertContractAssumption DEF Messages
  <1> QED
    BY <1>1, <1>3, <1>7, <1>8

\* A write replaces one document by a newer version of it.
LEMMA PutGrows ==
    ASSUME AlertTypes, NEW d \in Days, NEW body \in 0 .. MaxEmits,
           NEW triage \in SUBSET Analysts, Alert!Put(d, body, triage)
    PROVE  /\ docs' \in [Days -> Alert!DocType]
           /\ DocsGrow
           /\ docs'[d].ver > 0
           /\ docs'[d].triage = triage
           /\ \A e \in Days \ {d} : docs'[e] = docs[e]
  <1>1. docs[d] \in Alert!DocType /\ docs[d].ver \in Nat
    BY DEF AlertTypes, Alert!DocType
  <1>2. PICK new : new = [ver |-> docs[d].ver + 1, body |-> body, triage |-> triage]
    OBVIOUS
  <1>3. docs' = [docs EXCEPT ![d] = new]
    BY <1>2 DEF Alert!Put
  <1>4. new \in Alert!DocType
    BY <1>1, <1>2 DEF Alert!DocType
  <1>5. docs' \in [Days -> Alert!DocType]
    BY <1>3, <1>4 DEF AlertTypes
  <1>6. docs'[d] = new /\ \A e \in Days \ {d} : docs'[e] = docs[e]
    BY <1>3 DEF AlertTypes
  <1>7. new.ver > 0 /\ docs[d].ver < new.ver /\ new.triage = triage
    BY <1>1, <1>2
  <1>8. DocsGrow
    BY <1>6, <1>7 DEF DocsGrow
  <1> QED
    BY <1>5, <1>6, <1>7, <1>8

\* No write of either writer makes a read newer than what is stored, and none
\* takes a stored document away.
LEMMA GrowthKeepsReads ==
    ASSUME AlertTypes, docs' \in [Days -> Alert!DocType], DocsGrow
    PROVE  /\ \A d \in Days : \A s \in Alert!DocType : Behind(s, docs[d]) => Behind(s, docs'[d])
           /\ (\E d \in Days : docs[d].ver > 0) => (\E d \in Days : docs'[d].ver > 0)
  <1>1. ASSUME NEW d \in Days
        PROVE  /\ docs[d].ver \in Nat /\ docs'[d].ver \in Nat
               /\ docs[d].ver > 0 => docs'[d].ver > 0
    BY <1>1 DEF AlertTypes, Alert!DocType, DocsGrow
  <1>2. ASSUME NEW d \in Days, NEW s \in Alert!DocType, Behind(s, docs[d])
        PROVE  Behind(s, docs'[d])
    <2>1. s.ver \in Nat /\ docs[d].ver \in Nat /\ docs'[d].ver \in Nat
      BY <1>1, <1>2 DEF Alert!DocType
    <2> QED
      BY <2>1, <1>2 DEF Behind, DocsGrow
  <1> QED
    BY <1>1, <1>2

LEMMA AlertInit == Alert!Init => AlertInv
  <1> SUFFICES ASSUME Alert!Init PROVE AlertInv
    OBVIOUS
  <1>1. Alert!NoDoc \in Alert!DocType
    BY AlertContractAssumption DEF Alert!NoDoc, Alert!DocType
  <1>2. [day |-> 0, doc |-> Alert!NoDoc] \in [day : Nat, doc : Alert!DocType]
    BY <1>1
  <1>3. AlertTypes
    BY <1>1, <1>2, AlertContractAssumption DEF AlertTypes, Alert!Init
  <1>4. SearchBehind
    BY <1>1 DEF SearchBehind, Behind, Alert!Init, Alert!DocType
  <1>5. WorkersBehind /\ AnalystsBehind /\ AckedAlertStored
    BY DEF WorkersBehind, AnalystsBehind, AckedAlertStored, Alert!Init
  <1> QED
    BY <1>3, <1>4, <1>5 DEF AlertInv

\* The part of the invariant an indexer's step leaves to be shown: the other
\* workers, the searches and the triage requests follow the document.
LEMMA WorkerStep ==
    ASSUME AlertInv, NEW w \in Indexers, DocsGrow,
           docs' \in [Days -> Alert!DocType],
           snap' \in [Indexers -> Alert!DocType],
           ipc' \in [Indexers -> {"idle", "mget", "bulk", "get", "drift", "create", "cas"}],
           work' \in [Indexers -> SUBSET Messages],
           ipc'[w] # "idle" => work'[w] # {},
           \A v \in Indexers \ {w} : ipc'[v] = ipc[v] /\ work'[v] = work[v] /\ snap'[v] = snap[v],
           ipc'[w] \in {"bulk", "cas"} => Behind(snap'[w], docs'[Day(w)']),
           UNCHANGED <<emitted, seen, Alert!analystVars>>,
           alertAcks' # alertAcks => \E d \in Days : docs'[d].ver > 0
    PROVE  AlertInv'
  <1>1. AlertTypes'
    BY DEF AlertInv, AlertTypes, Alert!analystVars
  <1>2. SearchBehind'
    BY GrowthKeepsReads DEF AlertInv, AlertTypes, SearchBehind
  <1>3. AnalystsBehind'
    <2> SUFFICES ASSUME NEW a \in Analysts, apc[a] = "write"
                 PROVE  asnap[a].day \in Days /\ Behind(asnap[a].doc, docs'[asnap[a].day])
      BY DEF AnalystsBehind, Alert!analystVars
    <2>1. asnap[a].day \in Days /\ Behind(asnap[a].doc, docs[asnap[a].day])
      BY DEF AlertInv, AnalystsBehind
    <2>2. asnap[a].doc \in Alert!DocType
      BY DEF AlertInv, AlertTypes
    <2> QED
      BY <2>1, <2>2, GrowthKeepsReads DEF AlertInv
  <1>4. WorkersBehind'
    <2> SUFFICES ASSUME NEW v \in Indexers, ipc'[v] \in {"bulk", "cas"}
                 PROVE  Behind(snap'[v], docs'[Day(v)'])
      BY DEF WorkersBehind
    <2>1. CASE v = w
      BY <2>1
    <2>2. CASE v # w
      <3>1. ipc[v] \in {"bulk", "cas"} /\ snap'[v] = snap[v] /\ Day(v)' = Day(v)
        BY <2>2 DEF Day
      <3>2. Day(v) \in Days
        BY <3>1, WorkIsRouted DEF AlertInv
      <3>3. Behind(snap[v], docs[Day(v)]) /\ snap[v] \in Alert!DocType
        BY <3>1 DEF AlertInv, AlertTypes, WorkersBehind
      <3> QED
        BY <3>1, <3>2, <3>3, GrowthKeepsReads DEF AlertInv
    <2> QED
      BY <2>1, <2>2
  <1>5. AckedAlertStored'
    <2>1. CASE alertAcks' = alertAcks
      BY <2>1, GrowthKeepsReads DEF AlertInv, AckedAlertStored
    <2>2. CASE alertAcks' # alertAcks
      BY <2>2 DEF AckedAlertStored
    <2> QED
      BY <2>1, <2>2
  <1> QED
    BY <1>1, <1>2, <1>3, <1>4, <1>5 DEF AlertInv

\* No update is taken out of any document.
KeepsUpdates == \A d \in Days : docs[d].triage \subseteq docs'[d].triage

\* What a write leaves behind.
Grown ==
    /\ docs' \in [Days -> Alert!DocType]
    /\ DocsGrow
    /\ \E d \in Days : docs'[d].ver > 0

LEMMA NothingWritten ==
    ASSUME AlertTypes, UNCHANGED docs
    PROVE  docs' \in [Days -> Alert!DocType] /\ DocsGrow /\ KeepsUpdates
  BY DEF AlertTypes, DocsGrow, KeepsUpdates

\* A write under the version that was read carries every update over.
LEMMA ConditionalWrite ==
    ASSUME AlertInv, NEW w \in Indexers, ipc[w] \in {"bulk", "cas"},
           Alert!Fresh(Day(w), snap[w]),
           Alert!Put(Day(w), Alert!Payload(w), snap[w].triage)
    PROVE  Grown /\ KeepsUpdates
  <1>1. Day(w) \in Days /\ Alert!Payload(w) \in 0 .. MaxEmits
    BY WorkIsRouted DEF AlertInv
  <1>2. snap[w].triage \in SUBSET Analysts
    BY DEF AlertInv, AlertTypes, Alert!DocType
  <1>3. Behind(snap[w], docs[Day(w)])
    BY DEF AlertInv, WorkersBehind
  <1>4. snap[w].triage = docs[Day(w)].triage
    BY <1>3 DEF Behind, Alert!Fresh
  <1>5. /\ Grown
        /\ docs'[Day(w)].triage = snap[w].triage
        /\ \A e \in Days \ {Day(w)} : docs'[e] = docs[e]
    BY <1>1, <1>2, PutGrows DEF Grown, AlertInv
  <1> QED
    BY <1>4, <1>5 DEF KeepsUpdates

\* An unconditional write of a new alert touches its own index only.
LEMMA UnconditionalWrite ==
    ASSUME AlertInv, NEW w \in Indexers, ipc[w] # "idle",
           Alert!Put(Day(w), Alert!Payload(w), {})
    PROVE  Grown /\ \A e \in Days \ {Day(w)} : docs'[e] = docs[e]
  <1>1. Day(w) \in Days /\ Alert!Payload(w) \in 0 .. MaxEmits
    BY WorkIsRouted DEF AlertInv
  <1> QED
    BY <1>1, PutGrows DEF Grown, AlertInv

LEMMA FinishEffect ==
    ASSUME AlertInv, NEW w \in Indexers, NEW A, Alert!Finish(w, A),
           docs' \in [Days -> Alert!DocType], DocsGrow,
           A # {} => \E d \in Days : docs'[d].ver > 0,
           UNCHANGED <<emitted, seen, Alert!analystVars>>
    PROVE  AlertInv'
  <1>1. Alert!NoDoc \in Alert!DocType
    BY AlertContractAssumption DEF Alert!NoDoc, Alert!DocType
  <1>2. /\ ipc' = [ipc EXCEPT ![w] = "idle"]
        /\ work' = [work EXCEPT ![w] = {}]
        /\ snap' = [snap EXCEPT ![w] = Alert!NoDoc]
        /\ alertAcks' = alertAcks \cup A
    BY DEF Alert!Finish, Alert!Enter
  <1>3. alertAcks' # alertAcks => \E d \in Days : docs'[d].ver > 0
    BY <1>2
  <1>4. /\ ipc' \in [Indexers -> {"idle", "mget", "bulk", "get", "drift", "create", "cas"}]
        /\ work' \in [Indexers -> SUBSET Messages]
        /\ snap' \in [Indexers -> Alert!DocType]
        /\ ipc'[w] = "idle"
        /\ \A v \in Indexers \ {w} : ipc'[v] = ipc[v] /\ work'[v] = work[v] /\ snap'[v] = snap[v]
    BY <1>1, <1>2 DEF AlertInv, AlertTypes
  <1> QED
    BY <1>3, <1>4, WorkerStep

\* A step of worker w that only moves it to another label, with a fresh read of
\* its document when it goes on to a conditional write.
LEMMA MoveEffect ==
    ASSUME AlertInv, NEW w \in Indexers, ipc[w] # "idle",
           NEW label \in {"mget", "bulk", "get", "drift", "create", "cas"},
           NEW read \in Alert!DocType,
           ipc' = [ipc EXCEPT ![w] = label],
           snap' = [snap EXCEPT ![w] = read],
           label \in {"bulk", "cas"} => read = docs[Day(w)],
           UNCHANGED <<emitted, alertAcks, docs, seen, work, Alert!analystVars>>
    PROVE  AlertInv'
  <1>1. docs' \in [Days -> Alert!DocType] /\ DocsGrow
    BY NothingWritten DEF AlertInv
  <1>2. Day(w)' = Day(w) /\ docs' = docs
    BY DEF Day
  <1>3. /\ ipc' \in [Indexers -> {"idle", "mget", "bulk", "get", "drift", "create", "cas"}]
        /\ work' \in [Indexers -> SUBSET Messages]
        /\ snap' \in [Indexers -> Alert!DocType]
        /\ ipc'[w] = label /\ snap'[w] = read
        /\ work'[w] # {}
        /\ \A v \in Indexers \ {w} : ipc'[v] = ipc[v] /\ work'[v] = work[v] /\ snap'[v] = snap[v]
    BY DEF AlertInv, AlertTypes
  <1>4. read.ver \in Nat
    BY DEF Alert!DocType
  <1>5. ipc'[w] \in {"bulk", "cas"} => Behind(snap'[w], docs'[Day(w)'])
    BY <1>2, <1>3, <1>4 DEF Behind
  <1> QED
    BY <1>1, <1>3, <1>5, WorkerStep

\* A write after which worker w stays where it was.
LEMMA StayEffect ==
    ASSUME AlertInv, NEW w \in Indexers,
           docs' \in [Days -> Alert!DocType], DocsGrow,
           UNCHANGED <<emitted, alertAcks, seen, ipc, work, snap, Alert!analystVars>>
    PROVE  AlertInv'
  <1>1. ipc'[w] \in {"bulk", "cas"} => Behind(snap'[w], docs'[Day(w)'])
    <2> SUFFICES ASSUME ipc[w] \in {"bulk", "cas"} PROVE Behind(snap[w], docs'[Day(w)])
      BY DEF Day
    <2>1. Day(w) \in Days
      BY WorkIsRouted DEF AlertInv
    <2>2. Behind(snap[w], docs[Day(w)]) /\ snap[w] \in Alert!DocType
      BY DEF AlertInv, AlertTypes, WorkersBehind
    <2> QED
      BY <2>1, <2>2, GrowthKeepsReads DEF AlertInv
  <1>2. /\ ipc' \in [Indexers -> {"idle", "mget", "bulk", "get", "drift", "create", "cas"}]
        /\ work' \in [Indexers -> SUBSET Messages]
        /\ snap' \in [Indexers -> Alert!DocType]
        /\ ipc'[w] # "idle" => work'[w] # {}
    BY DEF AlertInv, AlertTypes
  <1> QED
    BY <1>1, <1>2, WorkerStep

\* The instance and the contract read a worker's index alike.
LEMMA SameDay == \A w \in Indexers : Alert!Day(w) = Day(w)
  BY DEF Alert!Day, Day

\* What every step of worker w is to show.
Harmless(w) ==
    \/ KeepsUpdates
    \/ ipc[w] = "create" /\ \A e \in Days \ {Day(w)} : docs'[e] = docs[e]

LEMMA AlertReads ==
    ASSUME AlertInv, NEW w \in Indexers, Alert!Mget(w) \/ Alert!Get(w)
    PROVE  AlertInv' /\ Harmless(w)
  <1>1. UNCHANGED <<emitted, alertAcks, docs, seen, work, Alert!analystVars>>
    BY DEF Alert!Mget, Alert!Get, Alert!Goto, Alert!storeVars, Alert!analystVars
  <1>2. ipc[w] # "idle"
    BY DEF Alert!Mget, Alert!Get
  <1>3. Day(w) \in Days /\ docs[Day(w)] \in Alert!DocType
    BY <1>2, WorkIsRouted DEF AlertInv, AlertTypes
  <1>4. PICK label : /\ ipc' = [ipc EXCEPT ![w] = label]
                     /\ label \in {"mget", "bulk", "get", "drift", "create", "cas"}
    <2>1. CASE Alert!Mget(w)
      <3>1. CASE docs[Day(w)].ver = 0
        BY <2>1, <3>1 DEF Alert!Mget, Alert!Goto, Alert!Enter
      <3>2. CASE docs[Day(w)].ver # 0
        BY <2>1, <3>2 DEF Alert!Mget, Alert!Goto, Alert!Enter
      <3> QED
        BY <3>1, <3>2
    <2>2. CASE Alert!Get(w)
      <3>1. CASE docs[Day(w)].ver = 0
        BY <2>2, <3>1 DEF Alert!Get, Alert!Goto, Alert!Enter
      <3>2. CASE docs[Day(w)].ver # 0
        BY <2>2, <3>2 DEF Alert!Get, Alert!Goto, Alert!Enter
      <3> QED
        BY <3>1, <3>2
    <2> QED
      BY <2>1, <2>2
  <1>5. snap' = [snap EXCEPT ![w] = docs[Day(w)]]
    BY SameDay DEF Alert!Mget, Alert!Get
  <1>6. AlertInv'
    BY <1>1, <1>2, <1>3, <1>4, <1>5, MoveEffect
  <1> QED
    BY <1>1, <1>6, NothingWritten DEF Harmless, AlertInv

LEMMA AlertTakeBatch ==
    ASSUME AlertInv, NEW w \in Indexers, NEW B, Alert!TakeBatch(w, B)
    PROVE  AlertInv' /\ Harmless(w)
  <1>1. Alert!NoDoc \in Alert!DocType
    BY AlertContractAssumption DEF Alert!NoDoc, Alert!DocType
  <1>2. docs' \in [Days -> Alert!DocType] /\ DocsGrow /\ KeepsUpdates
    BY NothingWritten DEF AlertInv, Alert!TakeBatch, Alert!storeVars
  <1>3. B # {} /\ B \subseteq Messages
    BY AlertContractAssumption DEF Alert!TakeBatch, Messages, AlertInv, AlertTypes
  <1>4. /\ ipc' = [ipc EXCEPT ![w] = "mget"]
        /\ work' = [work EXCEPT ![w] = B]
        /\ snap' = [snap EXCEPT ![w] = Alert!NoDoc]
        /\ UNCHANGED <<emitted, alertAcks, seen, Alert!analystVars>>
    BY DEF Alert!TakeBatch, Alert!Enter, Alert!storeVars
  <1>5. /\ ipc' \in [Indexers -> {"idle", "mget", "bulk", "get", "drift", "create", "cas"}]
        /\ work' \in [Indexers -> SUBSET Messages]
        /\ snap' \in [Indexers -> Alert!DocType]
        /\ ipc'[w] = "mget" /\ work'[w] = B
        /\ \A v \in Indexers \ {w} : ipc'[v] = ipc[v] /\ work'[v] = work[v] /\ snap'[v] = snap[v]
    BY <1>1, <1>3, <1>4 DEF AlertInv, AlertTypes
  <1> QED
    BY <1>2, <1>3, <1>4, <1>5, WorkerStep DEF Harmless

\* A worker that gives its messages up, without a write.
LEMMA AlertGivesUp ==
    ASSUME AlertInv, NEW w \in Indexers, Alert!MgetFails(w) \/ Alert!Crash(w)
    PROVE  AlertInv' /\ Harmless(w)
  <1>1. /\ Alert!Finish(w, {})
        /\ UNCHANGED <<docs, emitted, seen, Alert!analystVars>>
    BY DEF Alert!MgetFails, Alert!Crash, Alert!storeVars
  <1>2. docs' \in [Days -> Alert!DocType] /\ DocsGrow /\ KeepsUpdates
    BY <1>1, NothingWritten DEF AlertInv
  <1> QED
    BY <1>1, <1>2, FinishEffect DEF Harmless

LEMMA AlertDriftCheck ==
    ASSUME AlertInv, NEW w \in Indexers, Alert!DriftCheck(w)
    PROVE  AlertInv' /\ Harmless(w)
  <1>1. UNCHANGED <<docs, emitted, seen, Alert!analystVars>> /\ ipc[w] = "drift"
    BY DEF Alert!DriftCheck, Alert!storeVars
  <1>2. docs' \in [Days -> Alert!DocType] /\ DocsGrow /\ KeepsUpdates
    BY <1>1, NothingWritten DEF AlertInv
  <1>3. CASE \E d \in Days : Alert!NewestHit(d) /\ d # Day(w)
    <2>1. Alert!Finish(w, work[w])
      BY <1>3, SameDay DEF Alert!DriftCheck
    <2>2. PICK d \in Days : seen[d].ver > 0
      BY <1>3 DEF Alert!NewestHit, Alert!Hits
    <2>3. Behind(seen[d], docs[d]) /\ seen[d].ver \in Nat /\ docs[d].ver \in Nat
      BY DEF AlertInv, AlertTypes, SearchBehind, Alert!DocType
    <2>4. docs'[d].ver > 0
      BY <1>1, <2>2, <2>3 DEF Behind
    <2> QED
      BY <1>1, <1>2, <2>1, <2>4, FinishEffect DEF Harmless
  <1>4. CASE ~\E d \in Days : Alert!NewestHit(d) /\ d # Day(w)
    <2>1. Alert!Goto(w, "create") /\ UNCHANGED snap
      BY <1>4, SameDay DEF Alert!DriftCheck
    <2>2. /\ ipc' = [ipc EXCEPT ![w] = "create"]
          /\ snap' = [snap EXCEPT ![w] = snap[w]]
          /\ UNCHANGED <<work, alertAcks>>
          /\ snap[w] \in Alert!DocType
      BY <2>1 DEF Alert!Goto, Alert!Enter, AlertInv, AlertTypes
    <2>3. AlertInv'
      BY <1>1, <2>2, MoveEffect
    <2> QED
      BY <1>2, <2>3 DEF Harmless
  <1> QED
    BY <1>3, <1>4

LEMMA AlertBulkWrite ==
    ASSUME AlertInv, NEW w \in Indexers, Alert!BulkWrite(w)
    PROVE  AlertInv' /\ Harmless(w)
  <1>1. UNCHANGED <<emitted, seen, Alert!analystVars>> /\ ipc[w] = "bulk"
    BY DEF Alert!BulkWrite
  <1>2. CASE Alert!Fresh(Day(w), snap[w])
    <2>1. /\ Alert!Put(Day(w), Alert!Payload(w), snap[w].triage)
          /\ Alert!Finish(w, work[w])
      BY <1>2, SameDay DEF Alert!BulkWrite
    <2>2. Grown /\ KeepsUpdates
      BY <1>1, <1>2, <2>1, ConditionalWrite
    <2> QED
      BY <1>1, <2>1, <2>2, FinishEffect DEF Grown, Harmless
  <1>3. CASE ~Alert!Fresh(Day(w), snap[w])
    <2>1. Alert!Goto(w, "get") /\ UNCHANGED <<docs, snap>>
      BY <1>3, SameDay DEF Alert!BulkWrite
    <2>2. /\ ipc' = [ipc EXCEPT ![w] = "get"]
          /\ snap' = [snap EXCEPT ![w] = snap[w]]
          /\ UNCHANGED <<work, alertAcks>>
          /\ snap[w] \in Alert!DocType
      BY <2>1 DEF Alert!Goto, Alert!Enter, AlertInv, AlertTypes
    <2>3. AlertInv'
      BY <1>1, <2>1, <2>2, MoveEffect
    <2> QED
      BY <2>1, <2>3, NothingWritten DEF Harmless, AlertInv
  <1> QED
    BY <1>2, <1>3

LEMMA AlertBulkFails ==
    ASSUME AlertInv, NEW w \in Indexers, NEW applied, NEW permanent,
           Alert!BulkFails(w, applied, permanent)
    PROVE  AlertInv' /\ Harmless(w)
  <1>1. UNCHANGED <<emitted, seen, Alert!analystVars>> /\ ipc[w] = "bulk"
    BY DEF Alert!BulkFails
  <1>2. docs' \in [Days -> Alert!DocType] /\ DocsGrow /\ KeepsUpdates
    <2>1. CASE applied /\ Alert!Fresh(Day(w), snap[w])
      <3>1. Alert!Put(Day(w), Alert!Payload(w), snap[w].triage)
        BY <2>1, SameDay DEF Alert!BulkFails
      <3> QED
        BY <1>1, <2>1, <3>1, ConditionalWrite DEF Grown
    <2>2. CASE ~(applied /\ Alert!Fresh(Day(w), snap[w]))
      <3>1. UNCHANGED docs
        BY <2>2, SameDay DEF Alert!BulkFails
      <3> QED
        BY <3>1, NothingWritten DEF AlertInv
    <2> QED
      BY <2>1, <2>2
  <1>3. CASE tries[w] < BulkRetries /\ ~permanent
    <2>1. UNCHANGED <<ipc, work, snap, alertAcks>>
      BY <1>3 DEF Alert!BulkFails
    <2> QED
      BY <1>1, <1>2, <2>1, StayEffect DEF Harmless
  <1>4. CASE ~(tries[w] < BulkRetries /\ ~permanent)
    <2>1. Alert!Finish(w, {})
      BY <1>4 DEF Alert!BulkFails
    <2> QED
      BY <1>1, <1>2, <2>1, FinishEffect DEF Harmless
  <1> QED
    BY <1>3, <1>4

LEMMA AlertCreate ==
    ASSUME AlertInv, NEW w \in Indexers, Alert!Create(w)
    PROVE  AlertInv' /\ Harmless(w)
  <1>1. /\ UNCHANGED <<emitted, seen, Alert!analystVars>>
        /\ ipc[w] = "create"
        /\ Alert!Put(Day(w), Alert!Payload(w), {})
        /\ Alert!Finish(w, work[w])
    BY SameDay DEF Alert!Create
  <1>2. Grown /\ \A e \in Days \ {Day(w)} : docs'[e] = docs[e]
    BY <1>1, UnconditionalWrite
  <1> QED
    BY <1>1, <1>2, FinishEffect DEF Grown, Harmless

LEMMA AlertCreateFails ==
    ASSUME AlertInv, NEW w \in Indexers, NEW applied, NEW retry,
           Alert!CreateFails(w, applied, retry)
    PROVE  AlertInv' /\ Harmless(w)
  <1>1. UNCHANGED <<emitted, seen, Alert!analystVars>> /\ ipc[w] = "create"
    BY DEF Alert!CreateFails
  <1>2. docs' \in [Days -> Alert!DocType] /\ DocsGrow /\ Harmless(w)
    <2>1. CASE applied
      <3>1. Alert!Put(Day(w), Alert!Payload(w), {})
        BY <2>1, SameDay DEF Alert!CreateFails
      <3> QED
        BY <1>1, <3>1, UnconditionalWrite DEF Grown, Harmless
    <2>2. CASE ~applied
      <3>1. UNCHANGED docs
        BY <2>2 DEF Alert!CreateFails
      <3> QED
        BY <3>1, NothingWritten DEF AlertInv, Harmless
    <2> QED
      BY <2>1, <2>2
  <1>3. CASE retry
    <2>1. UNCHANGED <<ipc, work, snap, alertAcks>>
      BY <1>3 DEF Alert!CreateFails
    <2> QED
      BY <1>1, <1>2, <2>1, StayEffect
  <1>4. CASE ~retry
    <2>1. Alert!Finish(w, {})
      BY <1>4 DEF Alert!CreateFails
    <2> QED
      BY <1>1, <1>2, <2>1, FinishEffect
  <1> QED
    BY <1>3, <1>4

LEMMA AlertCas ==
    ASSUME AlertInv, NEW w \in Indexers, Alert!Cas(w)
    PROVE  AlertInv' /\ Harmless(w)
  <1>1. UNCHANGED <<emitted, seen, Alert!analystVars>> /\ ipc[w] = "cas"
    BY DEF Alert!Cas
  <1>2. CASE Alert!Fresh(Day(w), snap[w])
    <2>1. /\ Alert!Put(Day(w), Alert!Payload(w), snap[w].triage)
          /\ Alert!Finish(w, work[w])
      BY <1>2, SameDay DEF Alert!Cas
    <2>2. Grown /\ KeepsUpdates
      BY <1>1, <1>2, <2>1, ConditionalWrite
    <2> QED
      BY <1>1, <2>1, <2>2, FinishEffect DEF Grown, Harmless
  <1>3. CASE ~Alert!Fresh(Day(w), snap[w])
    <2>1. UNCHANGED docs
      BY <1>3, SameDay DEF Alert!Cas
    <2>2. docs' \in [Days -> Alert!DocType] /\ DocsGrow /\ KeepsUpdates
      BY <2>1, NothingWritten DEF AlertInv
    <2>3. CASE tries[w] + 1 < CasRetries
      <3>1. Alert!Goto(w, "get") /\ UNCHANGED snap
        BY <1>3, <2>3, SameDay DEF Alert!Cas
      <3>2. /\ ipc' = [ipc EXCEPT ![w] = "get"]
            /\ snap' = [snap EXCEPT ![w] = snap[w]]
            /\ UNCHANGED <<work, alertAcks>>
            /\ snap[w] \in Alert!DocType
        BY <3>1 DEF Alert!Goto, Alert!Enter, AlertInv, AlertTypes
      <3>3. AlertInv'
        BY <1>1, <2>1, <3>2, MoveEffect
      <3> QED
        BY <2>2, <3>3 DEF Harmless
    <2>4. CASE ~(tries[w] + 1 < CasRetries)
      <3>1. Alert!Finish(w, {})
        BY <1>3, <2>4, SameDay DEF Alert!Cas
      <3> QED
        BY <1>1, <2>2, <3>1, FinishEffect DEF Harmless
    <2> QED
      BY <2>3, <2>4
  <1> QED
    BY <1>2, <1>3

LEMMA AlertCasResponseLost ==
    ASSUME AlertInv, NEW w \in Indexers, Alert!CasResponseLost(w)
    PROVE  AlertInv' /\ Harmless(w)
  <1>1. /\ UNCHANGED <<emitted, alertAcks, seen, ipc, work, snap, Alert!analystVars>>
        /\ ipc[w] = "cas"
        /\ Alert!Fresh(Day(w), snap[w])
        /\ Alert!Put(Day(w), Alert!Payload(w), snap[w].triage)
    BY SameDay DEF Alert!CasResponseLost, Alert!indexerVars
  <1>2. Grown /\ KeepsUpdates
    BY <1>1, ConditionalWrite
  <1> QED
    BY <1>1, <1>2, StayEffect DEF Grown, Harmless

LEMMA AlertIndexerSteps ==
    ASSUME AlertInv, NEW w \in Indexers, Alert!Indexer(w) \/ Alert!Faulty(w)
    PROVE  AlertInv' /\ Harmless(w)
  <1>1. CASE Alert!Indexer(w)
    <2>1. CASE \E B \in SUBSET Alert!Messages : Alert!TakeBatch(w, B)
      BY <2>1, AlertTakeBatch
    <2>2. CASE Alert!Mget(w) \/ Alert!Get(w)
      BY <2>2, AlertReads
    <2>3. CASE Alert!BulkWrite(w)
      BY <2>3, AlertBulkWrite
    <2>4. CASE Alert!DriftCheck(w)
      BY <2>4, AlertDriftCheck
    <2>5. CASE Alert!Create(w)
      BY <2>5, AlertCreate
    <2>6. CASE Alert!Cas(w)
      BY <2>6, AlertCas
    <2> QED
      BY <1>1, <2>1, <2>2, <2>3, <2>4, <2>5, <2>6 DEF Alert!Indexer
  <1>2. CASE Alert!Faulty(w)
    <2>1. CASE Alert!MgetFails(w) \/ Alert!Crash(w)
      BY <2>1, AlertGivesUp
    <2>2. CASE \E applied, permanent \in BOOLEAN : Alert!BulkFails(w, applied, permanent)
      BY <2>2, AlertBulkFails
    <2>3. CASE \E applied, retry \in BOOLEAN : Alert!CreateFails(w, applied, retry)
      BY <2>3, AlertCreateFails
    <2>4. CASE Alert!CasResponseLost(w)
      BY <2>4, AlertCasResponseLost
    <2> QED
      BY <1>2, <2>1, <2>2, <2>3, <2>4 DEF Alert!Faulty
  <1> QED
    BY <1>1, <1>2

\* A step that moves neither the workers nor the acks.
LEMMA OutsideStep ==
    ASSUME AlertInv, DocsGrow,
           docs' \in [Days -> Alert!DocType],
           seen' \in [Days -> Alert!DocType],
           emitted' \in 0 .. MaxEmits,
           apc' \in [Analysts -> {"idle", "find", "write", "200", "404", "409"}],
           asnap' \in [Analysts -> [day : Nat, doc : Alert!DocType]],
           UNCHANGED <<alertAcks, ipc, work, snap>>,
           SearchBehind', AnalystsBehind'
    PROVE  AlertInv'
  <1>1. AlertTypes'
    BY DEF AlertInv, AlertTypes
  <1>2. WorkersBehind'
    <2> SUFFICES ASSUME NEW v \in Indexers, ipc[v] \in {"bulk", "cas"}
                 PROVE  Behind(snap[v], docs'[Day(v)])
      BY DEF WorkersBehind, Day
    <2>1. Day(v) \in Days
      BY WorkIsRouted DEF AlertInv
    <2>2. Behind(snap[v], docs[Day(v)]) /\ snap[v] \in Alert!DocType
      BY DEF AlertInv, AlertTypes, WorkersBehind
    <2> QED
      BY <2>1, <2>2, GrowthKeepsReads DEF AlertInv
  <1>3. AckedAlertStored'
    BY GrowthKeepsReads DEF AlertInv, AckedAlertStored
  <1> QED
    BY <1>1, <1>2, <1>3 DEF AlertInv

LEMMA AlertEmitRefresh ==
    ASSUME AlertInv, Alert!Emit \/ \E d \in Days : Alert!Refresh(d)
    PROVE  AlertInv' /\ KeepsUpdates
  <1>1. UNCHANGED <<docs, alertAcks, ipc, work, snap, apc, asnap>>
    BY DEF Alert!Emit, Alert!Refresh, Alert!storeVars, Alert!indexerVars, Alert!analystVars
  <1>2. docs' \in [Days -> Alert!DocType] /\ DocsGrow /\ KeepsUpdates
    BY <1>1, NothingWritten DEF AlertInv
  <1>3. /\ apc' \in [Analysts -> {"idle", "find", "write", "200", "404", "409"}]
        /\ asnap' \in [Analysts -> [day : Nat, doc : Alert!DocType]]
    BY <1>1 DEF AlertInv, AlertTypes
  <1>4. AnalystsBehind'
    BY <1>1 DEF AlertInv, AnalystsBehind
  <1>5. emitted' \in 0 .. MaxEmits /\ seen' \in [Days -> Alert!DocType] /\ SearchBehind'
    <2>1. CASE Alert!Emit
      BY <2>1, <1>1, AlertContractAssumption
         DEF Alert!Emit, Alert!storeVars, AlertInv, AlertTypes, SearchBehind
    <2>2. ASSUME NEW d \in Days, Alert!Refresh(d)
          PROVE  emitted' \in 0 .. MaxEmits /\ seen' \in [Days -> Alert!DocType] /\ SearchBehind'
      <3>1. emitted' = emitted /\ seen' = [seen EXCEPT ![d] = docs[d]]
        BY <2>2 DEF Alert!Refresh
      <3>2. emitted' \in 0 .. MaxEmits /\ seen' \in [Days -> Alert!DocType]
        BY <3>1 DEF AlertInv, AlertTypes
      <3>3. ASSUME NEW e \in Days PROVE Behind(seen'[e], docs[e])
        <4>1. docs[e].ver \in Nat
          BY DEF AlertInv, AlertTypes, Alert!DocType
        <4>2. seen'[e] = docs[e] \/ seen'[e] = seen[e]
          BY <3>1 DEF AlertInv, AlertTypes
        <4>3. Behind(seen[e], docs[e])
          BY DEF AlertInv, SearchBehind
        <4> QED
          BY <4>1, <4>2, <4>3 DEF Behind
      <3> QED
        BY <1>1, <3>2, <3>3 DEF SearchBehind
    <2> QED
      BY <2>1, <2>2
  <1> QED
    BY <1>1, <1>2, <1>3, <1>4, <1>5, OutsideStep

\* The triage requests: the update is merged into what was read.
LEMMA AlertAnalyst ==
    ASSUME AlertInv, NEW a \in Analysts, Alert!Analyst(a)
    PROVE  AlertInv' /\ KeepsUpdates
  <1>1. UNCHANGED <<alertAcks, ipc, work, snap, emitted, seen>>
    BY DEF Alert!Analyst, Alert!Post, Alert!Find, Alert!Update, Alert!storeVars,
           Alert!indexerVars
  <1>2. emitted' \in 0 .. MaxEmits /\ seen' \in [Days -> Alert!DocType]
    BY <1>1 DEF AlertInv, AlertTypes
  <1>3. ASSUME DocsGrow, KeepsUpdates, docs' \in [Days -> Alert!DocType],
               apc' \in [Analysts -> {"idle", "find", "write", "200", "404", "409"}],
               asnap' \in [Analysts -> [day : Nat, doc : Alert!DocType]],
               \A b \in Analysts \ {a} : apc'[b] = apc[b] /\ asnap'[b] = asnap[b],
               apc'[a] = "write" =>
                   asnap'[a].day \in Days /\ Behind(asnap'[a].doc, docs'[asnap'[a].day])
        PROVE  AlertInv' /\ KeepsUpdates
    <2>1. SearchBehind'
      BY <1>1, <1>3, GrowthKeepsReads DEF AlertInv, AlertTypes, SearchBehind
    <2>2. AnalystsBehind'
      <3> SUFFICES ASSUME NEW b \in Analysts, apc'[b] = "write"
                   PROVE  asnap'[b].day \in Days /\ Behind(asnap'[b].doc, docs'[asnap'[b].day])
        BY DEF AnalystsBehind
      <3>1. CASE b = a
        BY <1>3, <3>1
      <3>2. CASE b # a
        <4>1. apc[b] = "write" /\ asnap'[b] = asnap[b]
          BY <1>3, <3>2
        <4>2. asnap[b].day \in Days /\ Behind(asnap[b].doc, docs[asnap[b].day])
          BY <4>1 DEF AlertInv, AnalystsBehind
        <4>3. asnap[b].doc \in Alert!DocType
          BY DEF AlertInv, AlertTypes
        <4> QED
          BY <1>3, <4>1, <4>2, <4>3, GrowthKeepsReads DEF AlertInv
      <3> QED
        BY <3>1, <3>2
    <2> QED
      BY <1>1, <1>2, <1>3, <2>1, <2>2, OutsideStep
  <1>4. CASE Alert!Post(a)
    <2>1. docs' \in [Days -> Alert!DocType] /\ DocsGrow /\ KeepsUpdates
      BY <1>4, NothingWritten DEF AlertInv, Alert!Post, Alert!storeVars
    <2>2. apc' = [apc EXCEPT ![a] = "find"] /\ asnap' = asnap
      BY <1>4 DEF Alert!Post
    <2> QED
      BY <1>3, <2>1, <2>2 DEF AlertInv, AlertTypes
  <1>5. CASE Alert!Find(a)
    <2>1. docs' = docs
      BY <1>5 DEF Alert!Find, Alert!storeVars
    <2>2. docs' \in [Days -> Alert!DocType] /\ DocsGrow /\ KeepsUpdates
      BY <2>1, NothingWritten DEF AlertInv
    <2>3. CASE apc' = [apc EXCEPT ![a] = "404"] /\ asnap' = asnap
      BY <1>3, <2>2, <2>3 DEF AlertInv, AlertTypes
    <2>4. ASSUME NEW d \in Days,
                 asnap' = [asnap EXCEPT ![a] = [day |-> d, doc |-> seen[d]]],
                 apc' = [apc EXCEPT ![a] = "write"]
          PROVE  AlertInv' /\ KeepsUpdates
      <3>1. PICK r : r = [day |-> d, doc |-> seen[d]]
        OBVIOUS
      <3>2. r.day = d /\ r.doc = seen[d]
        BY <3>1
      <3>3. d \in Nat /\ seen[d] \in Alert!DocType
        BY AlertContractAssumption DEF AlertInv, AlertTypes
      <3>4. r \in [day : Nat, doc : Alert!DocType]
        BY <3>1, <3>3
      <3>5. Behind(r.doc, docs'[r.day])
        BY <2>1, <3>2 DEF AlertInv, SearchBehind
      <3>6. asnap' = [asnap EXCEPT ![a] = r]
        BY <2>4, <3>1
      <3>7. /\ asnap' \in [Analysts -> [day : Nat, doc : Alert!DocType]]
            /\ apc' \in [Analysts -> {"idle", "find", "write", "200", "404", "409"}]
            /\ asnap'[a] = r
            /\ \A b \in Analysts \ {a} : apc'[b] = apc[b] /\ asnap'[b] = asnap[b]
        BY <2>4, <3>4, <3>6 DEF AlertInv, AlertTypes
      <3> QED
        BY <1>3, <2>2, <3>2, <3>5, <3>7
    <2>5. \/ apc' = [apc EXCEPT ![a] = "404"] /\ asnap' = asnap
          \/ \E d \in Days : /\ asnap' = [asnap EXCEPT ![a] = [day |-> d, doc |-> seen[d]]]
                             /\ apc' = [apc EXCEPT ![a] = "write"]
      BY <1>5 DEF Alert!Find
    <2> QED
      BY <2>3, <2>4, <2>5
  <1>6. CASE Alert!Update(a)
    <2> DEFINE d == asnap[a].day
               read == asnap[a].doc
    <2>1. /\ apc[a] = "write"
          /\ asnap' = asnap
          /\ d \in Days /\ Behind(read, docs[d])
      BY <1>6 DEF Alert!Update, AlertInv, AnalystsBehind
    <2>2. read \in Alert!DocType
      BY DEF AlertInv, AlertTypes
    <2>3. CASE Alert!Fresh(d, read)
      <3>1. Alert!Put(d, read.body, read.triage \cup {a}) /\ apc' = [apc EXCEPT ![a] = "200"]
        BY <1>6, <2>3 DEF Alert!Update
      <3>2. read.body \in 0 .. MaxEmits /\ read.triage \cup {a} \in SUBSET Analysts
        BY <2>2 DEF Alert!DocType
      <3>3. /\ docs' \in [Days -> Alert!DocType]
            /\ DocsGrow
            /\ docs'[d].triage = read.triage \cup {a}
            /\ \A e \in Days \ {d} : docs'[e] = docs[e]
        BY <2>1, <3>1, <3>2, PutGrows DEF AlertInv
      <3>4. docs[d].triage = read.triage
        BY <2>1, <2>3 DEF Behind, Alert!Fresh
      <3>5. KeepsUpdates
        BY <3>3, <3>4 DEF KeepsUpdates
      <3>6. /\ apc' \in [Analysts -> {"idle", "find", "write", "200", "404", "409"}]
            /\ asnap' \in [Analysts -> [day : Nat, doc : Alert!DocType]]
            /\ \A b \in Analysts \ {a} : apc'[b] = apc[b] /\ asnap'[b] = asnap[b]
            /\ apc'[a] = "200"
        BY <2>1, <3>1 DEF AlertInv, AlertTypes
      <3> QED
        BY <1>3, <3>3, <3>5, <3>6
    <2>4. CASE ~Alert!Fresh(d, read)
      <3>1. docs' = docs
        BY <1>6, <2>4 DEF Alert!Update
      <3>2. PICK label \in {"find", "409"} : apc' = [apc EXCEPT ![a] = label]
        BY <1>6, <2>4 DEF Alert!Update
      <3>3. docs' \in [Days -> Alert!DocType] /\ DocsGrow /\ KeepsUpdates
        BY <3>1, NothingWritten DEF AlertInv
      <3>4. /\ apc' \in [Analysts -> {"idle", "find", "write", "200", "404", "409"}]
            /\ asnap' \in [Analysts -> [day : Nat, doc : Alert!DocType]]
            /\ \A b \in Analysts \ {a} : apc'[b] = apc[b] /\ asnap'[b] = asnap[b]
            /\ apc'[a] # "write"
        BY <2>1, <3>2 DEF AlertInv, AlertTypes
      <3> QED
        BY <1>3, <3>3, <3>4
    <2> QED
      BY <2>3, <2>4
  <1> QED
    BY <1>4, <1>5, <1>6 DEF Alert!Analyst

LEMMA AlertNext ==
    ASSUME AlertInv, Alert!Next
    PROVE  AlertInv' /\ (KeepsUpdates \/ \E w \in Indexers : Harmless(w))
  <1>1. CASE Alert!Emit \/ \E d \in Days : Alert!Refresh(d)
    BY <1>1, AlertEmitRefresh
  <1>2. CASE \E w \in Indexers : Alert!Indexer(w) \/ Alert!Faulty(w)
    BY <1>2, AlertIndexerSteps
  <1>3. CASE \E a \in Analysts : Alert!Analyst(a)
    BY <1>3, AlertAnalyst
  <1> QED
    BY <1>1, <1>2, <1>3 DEF Alert!Next

LEMMA AlertStutter ==
    ASSUME AlertInv, UNCHANGED Alert!vars
    PROVE  AlertInv'
  <1>1. UNCHANGED <<docs, seen, snap, ipc, work, emitted, apc, asnap, alertAcks>>
    BY DEF Alert!vars, Alert!storeVars, Alert!indexerVars, Alert!analystVars
  <1> QED
    BY <1>1 DEF AlertInv, AlertTypes, SearchBehind, WorkersBehind, AnalystsBehind,
                AckedAlertStored, Day

\* The inductive invariant of the alert path.
LEMMA AlertInvariant == Alert!Spec => []AlertInv
  <1>1. AlertInv /\ [Alert!Next]_Alert!vars => AlertInv'
    BY AlertNext, AlertStutter
  <1> QED
    BY <1>1, AlertInit, PTL DEF Alert!Spec

\* An alert whose message the indexer acked can be read, whatever the races of
\* BatchIndexHandler's workers with each other and with triage requests, lost
\* responses, failed requests, crashes, redeliveries and routing drift.
THEOREM AckedAlertsAreStored == Alert!Spec => []AckedAlertStored
  <1>1. AlertInv => AckedAlertStored
    BY DEF AlertInv
  <1> QED
    BY <1>1, AlertInvariant, PTL

\* An analyst's update leaves a document only by the unconditional create of
\* _index_alert_preserving_triage: bulk items, CAS retries, requests applied but
\* not answered and other analysts' requests all carry it over.
THEOREM OnlyTheCreateErases == Alert!Spec => OnlyCreateErases
  <1>1. AlertInv /\ [Alert!Next]_Alert!vars
            => [\A d \in Days :
                   \/ docs[d].triage \subseteq docs'[d].triage
                   \/ \E w \in Indexers : ipc[w] = "create" /\ Day(w) = d]_docs
    <2> SUFFICES ASSUME AlertInv, Alert!Next, NEW d \in Days
                 PROVE  \/ docs[d].triage \subseteq docs'[d].triage
                        \/ \E w \in Indexers : ipc[w] = "create" /\ Day(w) = d
      BY DEF Alert!vars, Alert!storeVars
    <2>1. CASE KeepsUpdates
      BY <2>1 DEF KeepsUpdates
    <2>2. CASE \E w \in Indexers : Harmless(w)
      BY <2>2 DEF KeepsUpdates, Harmless
    <2> QED
      BY <2>1, <2>2, AlertNext
  <1> QED
    BY <1>1, AlertInvariant, PTL DEF Alert!Spec, OnlyCreateErases
=============================================================================
