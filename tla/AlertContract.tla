--------------------------- MODULE AlertContract ---------------------------
(***************************************************************************)
(* What WS-3 promises about one stored alert, over the documents, the acks *)
(* and the position of the indexer workers.  AlertIndexer says how the     *)
(* workers and the triage requests move them.                              *)
(***************************************************************************)
EXTENDS Naturals

CONSTANTS
    Indexers,   \* indexer workers
    MaxEmits,   \* bound on the messages that carry the alert
    Days,       \* daily indices the alert may be routed to, numbers
    DayOf       \* DayOf[m]: the index message m is routed to

Messages == 1 .. MaxEmits

ASSUME AlertContractAssumption ==
    /\ MaxEmits \in Nat
    /\ Days \subseteq Nat
    /\ DayOf \in [Messages -> Days]

VARIABLES
    alertAcks, \* messages acked by the indexer's group
    docs,      \* docs[d]: the stored document; ver = 0 when there is none
    ipc,       \* ipc[w]: where indexer w is
    work       \* work[w]: the messages indexer w holds (one alert, one index)

\* The index the messages of a worker are routed to.
Day(w) == DayOf[CHOOSE m \in work[w] : TRUE]

\* Whatever the number of workers and the responses lost, the one write that may
\* take an update out is the unconditional create of an alert its worker did not
\* find: bulk items, CAS retries and triage requests never do.
OnlyCreateErases ==
    [][\A d \in Days :
          \/ docs[d].triage \subseteq docs'[d].triage
          \/ \E w \in Indexers : ipc[w] = "create" /\ Day(w) = d]_docs

\* What the indexer acks is in the store: an alert whose message is acked can be
\* read, in the index it is routed to or, after routing drift, in another one.
AckedAlertStored ==
    \A m \in alertAcks : \E d \in Days : docs[d].ver > 0
=============================================================================
