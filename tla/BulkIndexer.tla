----------------------------- MODULE BulkIndexer -----------------------------
(***************************************************************************)
(* How WS-3 stores everything that is not an alert:                        *)
(* services/ws3-indexer/main.py, BatchIndexHandler.handle_batch with       *)
(* _coalesce and _flush, and opensearch.py, bulk_write.                    *)
(*                                                                         *)
(* Two topics write the same documents: normalized.events create-only,     *)
(* scored.events (and the current-state topics) as an upsert.  Each topic  *)
(* has a worker of its own.  A message is a number, larger for later ones. *)
(***************************************************************************)
EXTENDS Naturals, FiniteSets

CONSTANTS
    CreateMsgs,  \* messages of normalized.events
    UpsertMsgs,  \* messages of the topic that upserts the same documents
    Docs,        \* (index, doc_id) pairs
    Unroutable,  \* messages route() refuses: unknown sector, bad tenant, no ingest_id
    DocOf,       \* DocOf[m]: where route() sends any other message m
    BatchMax,    \* WS3_BULK_MAX
    Retries,     \* WS3_BULK_RETRIES
    MaxFaults    \* bound on rejected items and failed requests

Topics == {"create", "upsert"}
Msgs == CreateMsgs \cup UpsertMsgs

ASSUME BulkIndexerAssumption ==
    /\ Msgs \subseteq Nat \ {0}
    /\ CreateMsgs \cap UpsertMsgs = {}
    /\ Unroutable \subseteq Msgs
    /\ DocOf \in [Msgs \ Unroutable -> Docs]
    /\ BatchMax \in Nat \ {0}
    /\ Retries \in Nat
    /\ MaxFaults \in Nat

MsgsOf(t) == IF t = "create" THEN CreateMsgs ELSE UpsertMsgs

VARIABLES
    store,    \* store[d]: the message whose payload is stored, 0 if none
    batch,    \* batch[t]: the messages handle_batch was given
    pending,  \* pending[t]: items still to be written, [msgs, write]
    failed,   \* failed[t]: messages of the batch whose result is an exception
    attempt,  \* attempt[t]: bulk requests repeated so far
    acked,
    faults

vars == <<store, batch, pending, failed, attempt, acked, faults>>

Init ==
    /\ store = [d \in Docs |-> 0]
    /\ batch = [t \in Topics |-> {}]
    /\ pending = [t \in Topics |-> {}]
    /\ failed = [t \in Topics |-> {}]
    /\ attempt = [t \in Topics |-> 0]
    /\ acked = {}
    /\ faults = 0

Earliest(S) == CHOOSE m \in S : \A k \in S : m <= k
Latest(S)   == CHOOSE m \in S : \A k \in S : k <= m

\* Faulty variant: one item per message.
Coalesce_None(t, B) == {[msgs |-> {m}, write |-> m] : m \in B \ Unroutable}

\* What handle_batch makes of a batch: no item for a message route() refuses; then
\* _coalesce: one item per document, with the payload of the last message for an
\* upsert and of the first for a create; its messages share the outcome.
Coalesce(t, B) ==
    {LET same == {m \in B \ Unroutable : DocOf[m] = d}
     IN  [msgs |-> same, write |-> IF t = "create" THEN Earliest(same) ELSE Latest(same)]
     : d \in {DocOf[m] : m \in B \ Unroutable}}

\* handle_batch is given a list of messages that are not acked, new or redelivered.
TakeBatch(t, B) ==
    /\ batch[t] = {}
    /\ B # {} /\ IsFiniteSet(B)
    /\ B \subseteq MsgsOf(t) \ acked
    /\ Cardinality(B) <= BatchMax
    /\ batch' = [batch EXCEPT ![t] = B]
    /\ pending' = [pending EXCEPT ![t] = Coalesce(t, B)]
    /\ failed' = [failed EXCEPT ![t] = {}]
    /\ attempt' = [attempt EXCEPT ![t] = 0]
    /\ UNCHANGED <<store, acked, faults>>

\* Faulty variant: a create replaces what is stored.
Written_CreateOverwrites(t, S, d) ==
    LET writes == {i.write : i \in {j \in S : DocOf[j.write] = d}}
    IN  IF writes = {} THEN store[d] ELSE Latest(writes)

\* The server applies the items S of a bulk request in order: "index" replaces
\* the document, "create" leaves an existing one alone (409).
Written(t, S, d) ==
    LET writes == {i.write : i \in {j \in S : DocOf[j.write] = d}}
    IN  IF writes = {} THEN store[d]
        ELSE IF t = "upsert" THEN Latest(writes)
        ELSE IF store[d] = 0 THEN Earliest(writes) ELSE store[d]

Apply(t, S) == store' = [d \in Docs |-> Written(t, S, d)]

MsgsIn(S) == UNION {i.msgs : i \in S}

\* Faulty variant: items out of retries count as written.
Settle_AcksExhausted(t, P, R) ==
    IF R # {} /\ attempt[t] < Retries
    THEN /\ pending' = [pending EXCEPT ![t] = R]
         /\ failed' = [failed EXCEPT ![t] = @ \cup MsgsIn(P)]
         /\ attempt' = [attempt EXCEPT ![t] = @ + 1]
         /\ UNCHANGED <<batch, acked>>
    ELSE /\ acked' = acked \cup (batch[t] \ (failed[t] \cup MsgsIn(P)))
         /\ pending' = [pending EXCEPT ![t] = {}]
         /\ failed' = [failed EXCEPT ![t] = {}]
         /\ attempt' = [attempt EXCEPT ![t] = 0]
         /\ batch' = [batch EXCEPT ![t] = {}]

\* What is left after a request: the items P are rejected for good, R may be
\* retried.  The batch is over when nothing is left to retry, or no retry is.
Settle(t, P, R) ==
    IF R # {} /\ attempt[t] < Retries
    THEN /\ pending' = [pending EXCEPT ![t] = R]
         /\ failed' = [failed EXCEPT ![t] = @ \cup MsgsIn(P)]
         /\ attempt' = [attempt EXCEPT ![t] = @ + 1]
         /\ UNCHANGED <<batch, acked>>
    ELSE /\ acked' = acked \cup (batch[t] \ (failed[t] \cup MsgsIn(P \cup R)))
         /\ pending' = [pending EXCEPT ![t] = {}]
         /\ failed' = [failed EXCEPT ![t] = {}]
         /\ attempt' = [attempt EXCEPT ![t] = 0]
         /\ batch' = [batch EXCEPT ![t] = {}]

\* bulk_write answered: P came back with another 4xx, R with 429 or 5xx, and the
\* rest with 2xx (or 409 for a create, "already stored").
BulkAnswered(t, P, R) ==
    /\ pending[t] # {}
    /\ P \subseteq pending[t] /\ R \subseteq pending[t] \ P
    /\ faults + Cardinality(P \cup R) <= MaxFaults
    /\ faults' = faults + Cardinality(P \cup R)
    /\ Apply(t, pending[t] \ (P \cup R))
    /\ Settle(t, P, R)

\* bulk_write raised: every item counts as a 503, whatever part S of the request
\* had been applied.
BulkRaised(t, S) ==
    /\ pending[t] # {}
    /\ S \subseteq pending[t]
    /\ faults < MaxFaults
    /\ faults' = faults + 1
    /\ Apply(t, S)
    /\ Settle(t, {}, pending[t])

\* Nothing of the batch has a place in the store: _flush sends no request, and the
\* results that were never touched ack every message ("drop (success)").
DropBatch(t) ==
    /\ batch[t] # {} /\ pending[t] = {}
    /\ Settle(t, {}, {})
    /\ UNCHANGED <<store, faults>>

\* The process dies in the middle of a batch: nothing of it is acked.
Crash(t) ==
    /\ batch[t] # {}
    /\ faults < MaxFaults
    /\ faults' = faults + 1
    /\ batch' = [batch EXCEPT ![t] = {}]
    /\ pending' = [pending EXCEPT ![t] = {}]
    /\ UNCHANGED <<store, failed, attempt, acked>>

Next ==
    \E t \in Topics :
        \/ \E B \in SUBSET MsgsOf(t) : TakeBatch(t, B)
        \/ \E P, R \in SUBSET pending[t] : BulkAnswered(t, P, R)
        \/ \E S \in SUBSET pending[t] : BulkRaised(t, S)
        \/ DropBatch(t)
        \/ Crash(t)

Spec == Init /\ [][Next]_vars

-----------------------------------------------------------------------------
(* Properties.                                                             *)

ItemType == [msgs : SUBSET Msgs, write : Msgs]

TypeOK ==
    /\ store \in [Docs -> Msgs \cup {0}]
    /\ \A t \in Topics :
          /\ batch[t] \subseteq MsgsOf(t)
          /\ pending[t] \subseteq ItemType
          /\ MsgsIn(pending[t]) \cup failed[t] \subseteq MsgsOf(t)
          /\ attempt[t] \in 0 .. Retries
    /\ acked \subseteq Msgs
    /\ faults \in 0 .. MaxFaults

\* The scored copy of an event is never replaced by the normalized one, in
\* whatever order the two topics' workers write, retry and are redelivered.
ScoreNeverStripped ==
    [][\A d \in Docs : store[d] \in UpsertMsgs => store'[d] \in UpsertMsgs]_vars

\* The upserts a step acks, but for those route() refuses.
UpsertsAcked == ((acked' \ acked) \cap UpsertMsgs) \ Unroutable

\* When a batch is acked, the document stored for each of its upserts is the one
\* of the batch's last message: no retry of an earlier version lands after it.
LastOfBatchWins ==
    [][\A m \in UpsertsAcked :
          store'[DocOf[m]] = Latest({k \in UpsertsAcked : DocOf[k] = DocOf[m]})]_vars

\* An acked message is stored: its document exists, and carries the score when
\* the message was a scored one.  Only a message route() refuses is acked without:
\* handle_batch drops it, and no copy is kept anywhere.
AckedIsStored ==
    \A m \in acked \ Unroutable :
        /\ store[DocOf[m]] # 0
        /\ m \in UpsertMsgs => store[DocOf[m]] \in UpsertMsgs
=============================================================================
