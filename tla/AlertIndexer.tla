---------------------------- MODULE AlertIndexer ----------------------------
(***************************************************************************)
(* How WS-3 stores one alert: services/ws3-indexer/main.py, the alert path *)
(* of BatchIndexHandler.handle_batch (_plan_alerts, _flush) and            *)
(* _index_alert_preserving_triage, against triage_api.route_post_triage,   *)
(* the other writer of the same document.                                  *)
(*                                                                         *)
(* A detection rule re-emits the same alert_id while it keeps firing, and  *)
(* delivery is at least once, so several indexer workers may work on the   *)
(* alert at the same time.  An analyst's update is a member of the set     *)
(* "triage"; the API merges field by field, so an update adds to the set.  *)
(*                                                                         *)
(* OpenSearch is external: a document has a version (_seq_no), a GET is    *)
(* real time, a search sees the last refresh.                              *)
(***************************************************************************)
EXTENDS AlertContract, FiniteSets

CONSTANTS
    Analysts,   \* POST /alerts/{id}/triage requests
    CasRetries, \* _ALERT_CAS_MAX_RETRIES and _CAS_MAX_RETRIES
    BulkRetries,\* WS3_BULK_RETRIES
    MaxFaults   \* bound on lost responses, failed requests and crashes

ASSUME AlertIndexerAssumption ==
    /\ CasRetries \in Nat \ {0}
    /\ BulkRetries \in Nat
    /\ MaxFaults \in Nat

VARIABLES
    emitted,   \* messages 1 .. emitted are on the alerts topic
    seen,      \* seen[d]: what a search of the index sees
    snap,      \* snap[w]: the document as w last read it
    tries,     \* tries[w]: attempts of the bulk request or the CAS loop
    apc,       \* apc[a]: where request a is, or its answer
    asnap,     \* asnap[a]: the document request a last found, with its index
    atries,    \* atries[a]: attempts of request a
    faults

storeVars == <<docs, seen>>
indexerVars == <<ipc, work, snap, tries>>
analystVars == <<apc, asnap, atries>>
vars == <<emitted, alertAcks, storeVars, indexerVars, analystVars, faults>>

NoDoc == [ver |-> 0, body |-> 0, triage |-> {}]

Init ==
    /\ emitted = 0
    /\ alertAcks = {}
    /\ docs = [d \in Days |-> NoDoc]
    /\ seen = [d \in Days |-> NoDoc]
    /\ ipc = [w \in Indexers |-> "idle"]
    /\ work = [w \in Indexers |-> {}]
    /\ snap = [w \in Indexers |-> NoDoc]
    /\ tries = [w \in Indexers |-> 0]
    /\ apc = [a \in Analysts |-> "idle"]
    /\ asnap = [a \in Analysts |-> [day |-> 0, doc |-> NoDoc]]
    /\ atries = [a \in Analysts |-> 0]
    /\ faults = 0

Fault ==
    /\ faults < MaxFaults
    /\ faults' = faults + 1

-----------------------------------------------------------------------------
(* The store.                                                              *)

\* A write of index d: the version moves on.
Put(d, body, triage) ==
    docs' = [docs EXCEPT ![d] = [ver |-> @.ver + 1, body |-> body, triage |-> triage]]

\* Faulty variant: writes are unconditional.
Fresh_Always(d, read) == TRUE

\* index_cas and a conditional bulk item: rejected with 409 unless the document
\* is still at the version that was read.
Fresh(d, read) == docs[d].ver = read.ver

\* The index refresh that makes writes visible to searches.
Refresh(d) ==
    /\ seen[d] # docs[d]
    /\ seen' = [seen EXCEPT ![d] = docs[d]]
    /\ UNCHANGED <<emitted, alertAcks, docs, indexerVars, analystVars, faults>>

\* _search_alert: the newest copy (sorted by time, descending), if any.
Hits == {d \in Days : seen[d].ver > 0}
NewestHit(d) == d \in Hits /\ \A e \in Hits : e <= d

-----------------------------------------------------------------------------
(* The indexer.                                                            *)

\* A rule fires again for the alert.
Emit ==
    /\ emitted < MaxEmits
    /\ emitted' = emitted + 1
    /\ UNCHANGED <<alertAcks, storeVars, indexerVars, analystVars, faults>>

\* The payload the worker's messages collapse to: the last one.
Payload(w) == CHOOSE m \in work[w] : \A k \in work[w] : k <= m

Enter(w, label) == ipc' = [ipc EXCEPT ![w] = label]

\* handle_batch is given messages of the alert, new ones or redelivered ones.
TakeBatch(w, B) ==
    /\ ipc[w] = "idle"
    /\ B # {}
    /\ B \subseteq (1 .. emitted) \ alertAcks
    /\ \A m, k \in B : DayOf[m] = DayOf[k]
    /\ Enter(w, "mget")
    /\ work' = [work EXCEPT ![w] = B]
    /\ snap' = [snap EXCEPT ![w] = NoDoc]
    /\ tries' = [tries EXCEPT ![w] = 0]
    /\ UNCHANGED <<emitted, alertAcks, storeVars, analystVars, faults>>

\* handle_batch is over for these messages: A are acked, the others stay pending.
Finish(w, A) ==
    /\ Enter(w, "idle")
    /\ alertAcks' = alertAcks \cup A
    /\ work' = [work EXCEPT ![w] = {}]
    /\ snap' = [snap EXCEPT ![w] = NoDoc]
    /\ tries' = [tries EXCEPT ![w] = 0]

Goto(w, label) ==
    /\ Enter(w, label)
    /\ UNCHANGED <<alertAcks, work>>

\* mget_versioned: a known alert goes into the conditional bulk request, one
\* never seen before to the per-document path.
Mget(w) ==
    /\ ipc[w] = "mget"
    /\ snap' = [snap EXCEPT ![w] = docs[Day(w)]]
    /\ Goto(w, IF docs[Day(w)].ver = 0 THEN "get" ELSE "bulk")
    /\ UNCHANGED <<emitted, storeVars, tries, analystVars, faults>>

\* Faulty variant: a failed read is acked.
MgetFails_Acks(w) ==
    /\ ipc[w] = "mget"
    /\ Fault
    /\ Finish(w, work[w])
    /\ UNCHANGED <<emitted, storeVars, analystVars>>

\* mget_versioned raised: nothing of it is acked.
MgetFails(w) ==
    /\ ipc[w] = "mget"
    /\ Fault
    /\ Finish(w, {})
    /\ UNCHANGED <<emitted, storeVars, analystVars>>

\* Faulty variant: a 409 is retried with the stale version.
BulkWrite_StaleLoops(w) ==
    /\ ipc[w] = "bulk"
    /\ IF Fresh(Day(w), snap[w])
       THEN Put(Day(w), Payload(w), snap[w].triage) /\ Finish(w, work[w])
       ELSE UNCHANGED <<docs, alertAcks, indexerVars>>
    /\ UNCHANGED <<emitted, seen, analystVars, faults>>

\* bulk_write: the merged document if the version still stands, else 409 and the
\* per-document path with the original payload.
BulkWrite(w) ==
    /\ ipc[w] = "bulk"
    /\ IF Fresh(Day(w), snap[w])
       THEN /\ Put(Day(w), Payload(w), snap[w].triage)
            /\ Finish(w, work[w])
       ELSE /\ Goto(w, "get")
            /\ tries' = [tries EXCEPT ![w] = 0]
            /\ UNCHANGED <<docs, snap>>
    /\ UNCHANGED <<emitted, seen, analystVars, faults>>

\* The item came back 429 or 5xx, or the request failed as a whole and may have
\* been applied: try again, or give the messages up for redelivery.  A permanent
\* rejection (another 4xx) gives them up at once.
BulkFails(w, applied, permanent) ==
    /\ ipc[w] = "bulk"
    /\ Fault
    /\ ~(applied /\ permanent)
    /\ IF applied /\ Fresh(Day(w), snap[w])
       THEN Put(Day(w), Payload(w), snap[w].triage)
       ELSE UNCHANGED docs
    /\ IF tries[w] < BulkRetries /\ ~permanent
       THEN /\ tries' = [tries EXCEPT ![w] = @ + 1]
            /\ UNCHANGED <<ipc, work, snap, alertAcks>>
       ELSE Finish(w, {})
    /\ UNCHANGED <<emitted, seen, analystVars>>

\* get_versioned, the first step of every attempt of the CAS loop.
Get(w) ==
    /\ ipc[w] = "get"
    /\ snap' = [snap EXCEPT ![w] = docs[Day(w)]]
    /\ Goto(w, IF docs[Day(w)].ver = 0 THEN "drift" ELSE "cas")
    /\ UNCHANGED <<emitted, storeVars, tries, analystVars, faults>>

\* find_alert_versioned: a copy in another index means routing drift, the write
\* is skipped and the messages are acked.
DriftCheck(w) ==
    /\ ipc[w] = "drift"
    /\ IF \E d \in Days : NewestHit(d) /\ d # Day(w)
       THEN Finish(w, work[w])
       ELSE Goto(w, "create") /\ UNCHANGED <<snap, tries>>
    /\ UNCHANGED <<emitted, storeVars, analystVars, faults>>

\* index_cas(..., version=None): an unconditional write.
Create(w) ==
    /\ ipc[w] = "create"
    /\ Put(Day(w), Payload(w), {})
    /\ Finish(w, work[w])
    /\ UNCHANGED <<emitted, seen, analystVars, faults>>

\* index() of a new alert failed with a 5xx or a lost response; it is retried,
\* and in the end given up for redelivery.
CreateFails(w, applied, retry) ==
    /\ ipc[w] = "create"
    /\ Fault
    /\ IF applied THEN Put(Day(w), Payload(w), {}) ELSE UNCHANGED docs
    /\ IF retry THEN UNCHANGED <<ipc, work, snap, tries, alertAcks>> ELSE Finish(w, {})
    /\ UNCHANGED <<emitted, seen, analystVars>>

\* index_cas with the version read: carry the triage over, retry on a conflict,
\* raise AlertCasExhausted after the last one.
Cas(w) ==
    /\ ipc[w] = "cas"
    /\ IF Fresh(Day(w), snap[w])
       THEN /\ Put(Day(w), Payload(w), snap[w].triage)
            /\ Finish(w, work[w])
       ELSE /\ UNCHANGED docs
            /\ IF tries[w] + 1 < CasRetries
               THEN /\ Goto(w, "get")
                    /\ tries' = [tries EXCEPT ![w] = @ + 1]
                    /\ UNCHANGED snap
               ELSE Finish(w, {})
    /\ UNCHANGED <<emitted, seen, analystVars, faults>>

\* The response of a conditional PUT was lost after it was applied; _request
\* sends it again on a fresh connection.
CasResponseLost(w) ==
    /\ ipc[w] = "cas"
    /\ Fresh(Day(w), snap[w])
    /\ Fault
    /\ Put(Day(w), Payload(w), snap[w].triage)
    /\ UNCHANGED <<emitted, alertAcks, seen, indexerVars, analystVars>>

\* The worker's process dies: its messages stay pending.
Crash(w) ==
    /\ ipc[w] # "idle"
    /\ Fault
    /\ Finish(w, {})
    /\ UNCHANGED <<emitted, storeVars, analystVars>>

-----------------------------------------------------------------------------
(* route_post_triage.                                                      *)

Post(a) ==
    /\ apc[a] = "idle"
    /\ apc' = [apc EXCEPT ![a] = "find"]
    /\ UNCHANGED <<emitted, alertAcks, storeVars, indexerVars, asnap, atries, faults>>

\* find_alert_versioned: 404 when no search can see the alert yet.
Find(a) ==
    /\ apc[a] = "find"
    /\ \/ /\ Hits = {}
          /\ apc' = [apc EXCEPT ![a] = "404"]
          /\ UNCHANGED asnap
       \/ \E d \in Days :
             /\ NewestHit(d)
             /\ asnap' = [asnap EXCEPT ![a] = [day |-> d, doc |-> seen[d]]]
             /\ apc' = [apc EXCEPT ![a] = "write"]
    /\ UNCHANGED <<emitted, alertAcks, storeVars, indexerVars, atries, faults>>

\* index_cas of the document with the update merged into its triage.
Update(a) ==
    LET d == asnap[a].day
        read == asnap[a].doc
    IN
    /\ apc[a] = "write"
    /\ IF Fresh(d, read)
       THEN /\ Put(d, read.body, read.triage \cup {a})
            /\ apc' = [apc EXCEPT ![a] = "200"]
            /\ UNCHANGED atries
       ELSE /\ UNCHANGED docs
            /\ atries' = [atries EXCEPT ![a] = @ + 1]
            /\ apc' = [apc EXCEPT ![a] = IF atries[a] + 1 < CasRetries THEN "find" ELSE "409"]
    /\ UNCHANGED <<emitted, alertAcks, seen, indexerVars, asnap, faults>>

-----------------------------------------------------------------------------

Indexer(w) ==
    \/ \E B \in SUBSET Messages : TakeBatch(w, B)
    \/ Mget(w)
    \/ BulkWrite(w)
    \/ Get(w)
    \/ DriftCheck(w)
    \/ Create(w)
    \/ Cas(w)

Faulty(w) ==
    \/ MgetFails(w)
    \/ \E applied, permanent \in BOOLEAN : BulkFails(w, applied, permanent)
    \/ \E applied, retry \in BOOLEAN : CreateFails(w, applied, retry)
    \/ CasResponseLost(w)
    \/ Crash(w)

Analyst(a) == Post(a) \/ Find(a) \/ Update(a)

Next ==
    \/ Emit
    \/ \E d \in Days : Refresh(d)
    \/ \E w \in Indexers : Indexer(w) \/ Faulty(w)
    \/ \E a \in Analysts : Analyst(a)

Spec == Init /\ [][Next]_vars

\* The runner keeps every worker going; faults and analyst requests are finite.
FairSpec ==
    /\ Spec
    /\ \A w \in Indexers : WF_vars(Indexer(w))

-----------------------------------------------------------------------------
(* Properties.                                                             *)

DocType == [ver : Nat, body : 0 .. MaxEmits, triage : SUBSET Analysts]

TypeOK ==
    /\ emitted \in 0 .. MaxEmits
    /\ alertAcks \subseteq 1 .. emitted
    /\ docs \in [Days -> DocType]
    /\ seen \in [Days -> DocType]
    /\ ipc \in [Indexers -> {"idle", "mget", "bulk", "get", "drift", "create", "cas"}]
    /\ \A w \in Indexers : work[w] \subseteq 1 .. emitted /\ (ipc[w] # "idle" => work[w] # {})
    /\ snap \in [Indexers -> DocType]
    /\ tries \in [Indexers -> Nat]
    /\ apc \in [Analysts -> {"idle", "find", "write", "200", "404", "409"}]
    /\ asnap \in [Analysts -> [day : Nat, doc : DocType]]
    /\ atries \in [Analysts -> 0 .. CasRetries]
    /\ faults \in 0 .. MaxFaults

\* Every re-emission of the alert is eventually acked: lost CAS races, failed
\* requests and crashes only delay it.
EveryEmissionAcked == \A m \in Messages : (m <= emitted) ~> (m \in alertAcks)
=============================================================================
