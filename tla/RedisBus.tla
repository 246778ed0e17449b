------------------------------ MODULE RedisBus ------------------------------
(***************************************************************************)
(* One topic of the Redis Streams bus: services/shared/bus.py, _RedisBus.  *)
(*                                                                         *)
(* The server side (stream, consumer groups, pending-entries lists) is     *)
(* Redis and therefore external: it is modelled from the commands bus.py   *)
(* sends.  Every command is one atomic step; a bus method that sends       *)
(* several commands (trim_acked, claim_pending) is several steps, so other *)
(* clients interleave between them as they do on a live server.            *)
(*                                                                         *)
(* Stream ids "<ms>-<seq>" are totally ordered and dense in what the code  *)
(* asks of them (_stream_id_lt, _next_stream_id), so an id is a number.    *)
(***************************************************************************)
EXTENDS Naturals, FiniteSets

CONSTANTS
    Groups,        \* consumer groups that may ever read the topic
    InitialGroups, \* the groups already registered when the model starts
    MaxMsgs,       \* bound on the number of entries ever XADDed
    ReadCount,     \* BUS_XREADGROUP_COUNT
    MaxFaults      \* bound on bus errors, crashes and shutdowns in a behaviour

ASSUME RedisBusAssumption ==
    /\ InitialGroups \subseteq Groups
    /\ MaxMsgs \in Nat
    /\ ReadCount \in Nat \ {0}
    /\ MaxFaults \in Nat

Ids == 1 .. MaxMsgs

VARIABLES
    last,       \* highest id produced so far
    stream,     \* ids the stream still retains
    groups,     \* groups registered on the stream (XINFO GROUPS)
    delivered,  \* delivered[g]: the group's last-delivered-id
    pel,        \* pel[g]: delivered to g and not yet XACKed
    times,      \* times[g][i]: XPENDING's delivery counter of entry i
    rpc,        \* where the reaper is inside trim_acked
    rSeen,      \* groups of the XINFO GROUPS snapshot still to be examined
    rLast,      \* last-delivered-id of each group in that snapshot
    rBound,     \* safe_boundary so far (0 stands for None)
    faults      \* faults spent

streamVars == <<last, stream, groups, delivered, pel, times>>
reaperVars == <<rpc, rSeen, rLast, rBound>>
busVars == <<streamVars, reaperVars, faults>>

\* A connection error, a killed process or a SIGTERM: at most MaxFaults of them.
Fault ==
    /\ faults < MaxFaults
    /\ faults' = faults + 1

BusInit ==
    /\ last = 0
    /\ stream = {}
    /\ groups = InitialGroups
    /\ delivered = [g \in Groups |-> 0]
    /\ pel = [g \in Groups |-> {}]
    /\ times = [g \in Groups |-> [i \in Ids |-> 0]]
    /\ rpc = "idle"
    /\ rSeen = {}
    /\ rLast = [g \in Groups |-> 0]
    /\ rBound = 0
    /\ faults = 0

-----------------------------------------------------------------------------
(* Client operations.                                                      *)

\* produce: XADD assigns the next id.
Produce ==
    /\ last < MaxMsgs
    /\ last' = last + 1
    /\ stream' = stream \cup {last + 1}
    /\ UNCHANGED <<groups, delivered, pel, times, reaperVars, faults>>

\* _ensure_group: XGROUP CREATE id=0 MKSTREAM; an existing group is left alone.
EnsureGroup(g) ==
    /\ g \notin groups
    /\ groups' = groups \cup {g}
    /\ UNCHANGED <<last, stream, delivered, pel, times, reaperVars, faults>>

\* The entries a group has not been handed yet, up to and including id n.
Unread(g, n) == {i \in stream : delivered[g] < i /\ i <= n}

\* XREADGROUP ... ">" COUNT ReadCount: hand the group its next entries, the
\* last of them n, and enter them in its pending list with counter 1.
ReadGroup(g, n) ==
    /\ g \in groups
    /\ n \in Unread(g, n)
    /\ Cardinality(Unread(g, n)) <= ReadCount
    /\ \/ Cardinality(Unread(g, n)) = ReadCount
       \/ Unread(g, last) = Unread(g, n)
    /\ delivered' = [delivered EXCEPT ![g] = n]
    /\ pel' = [pel EXCEPT ![g] = @ \cup Unread(g, n)]
    /\ times' = [times EXCEPT ![g] =
                    [i \in Ids |-> IF i \in Unread(g, n) THEN 1 ELSE @[i]]]
    /\ UNCHANGED <<last, stream, groups, reaperVars>>

\* XAUTOCLAIM: take over the pending entries S that have been idle for
\* min_idle_ms and bump their counters; an entry the stream no longer holds
\* leaves the pending list instead of being returned.
AutoClaim(g, S) ==
    /\ g \in groups
    /\ S \subseteq pel[g]
    /\ times' = [times EXCEPT ![g] =
                    [i \in Ids |-> IF i \in S \cap stream THEN @[i] + 1 ELSE @[i]]]
    /\ pel' = [pel EXCEPT ![g] = @ \ (S \ stream)]
    /\ UNCHANGED <<last, stream, groups, delivered, reaperVars>>

\* XACK of a set of ids (one pipeline of ack_batch, or the part of it that
\* reached the server); acking an id that is not pending is a no-op.
XAck(g, S) ==
    /\ pel' = [pel EXCEPT ![g] = @ \ S]
    /\ UNCHANGED <<last, stream, groups, delivered, times, reaperVars>>

\* _times_delivered: the XPENDING counter, or 0 once the entry is not pending.
TimesDelivered(g, i) == IF i \in pel[g] THEN times[g][i] ELSE 0

-----------------------------------------------------------------------------
(* trim_acked, called by the stream reaper of any service.                 *)

\* XINFO GROUPS: the groups and their last-delivered ids at this instant.
\* No groups: return 0 without touching the topic.
TrimSnapshot ==
    /\ rpc = "idle"
    /\ groups # {}
    /\ rpc' = "scan"
    /\ rSeen' = groups
    /\ rLast' = delivered
    /\ rBound' = 0
    /\ UNCHANGED <<streamVars, faults>>

\* Faulty variants: the pending list is ignored; the boundary is the last
\* delivered id itself.
GroupBoundary_IgnoresPending(g, b) == b = rLast[g] + 1

GroupBoundary_NoNext(g, b) ==
    \/ b \in pel[g] /\ \A i \in pel[g] : b <= i
    \/ pel[g] = {} /\ b = rLast[g]

\* The smallest pending id if there is one, else the id after the group's
\* last-delivered-id of the snapshot (_next_stream_id).
GroupBoundary(g, b) ==
    \/ /\ b \in pel[g]
       /\ \A i \in pel[g] : b <= i
    \/ /\ pel[g] = {}
       /\ b = rLast[g] + 1

\* Faulty variant: the largest boundary is kept.
LowerBoundary_KeepsLargest(old, b) == IF old < b THEN b ELSE old

\* safe_boundary keeps the smallest boundary seen so far.
LowerBoundary(old, b) == IF old = 0 \/ b < old THEN b ELSE old

\* XPENDING <topic> <g>: one group of the snapshot.
TrimExamine(g, b) ==
    /\ rpc = "scan"
    /\ g \in rSeen
    /\ GroupBoundary(g, b)
    /\ rSeen' = rSeen \ {g}
    /\ rBound' = LowerBoundary(rBound, b)
    /\ UNCHANGED <<rpc, rLast, streamVars, faults>>

\* XPENDING failed (safety cannot be proved for the group, so return 0) or
\* XTRIM failed (the reaper logs it and tries again at its next interval).
TrimGiveUp ==
    /\ rpc = "scan"
    /\ Fault
    /\ rpc' = "idle"
    /\ rSeen' = {}
    /\ rBound' = 0
    /\ rLast' = [g \in Groups |-> 0]
    /\ UNCHANGED streamVars

\* Faulty variant: the boundary entry goes too.
TrimApply_OffByOne ==
    /\ rpc = "scan"
    /\ rSeen = {}
    /\ stream' = {i \in stream : i > rBound}
    /\ rpc' = "idle"
    /\ rBound' = 0
    /\ rLast' = [g \in Groups |-> 0]
    /\ UNCHANGED <<last, groups, delivered, pel, times, rSeen, faults>>

\* XTRIM MINID rBound: exact, keeps ids >= rBound.
TrimApply ==
    /\ rpc = "scan"
    /\ rSeen = {}
    /\ stream' = {i \in stream : i >= rBound}
    /\ rpc' = "idle"
    /\ rBound' = 0
    /\ rLast' = [g \in Groups |-> 0]
    /\ UNCHANGED <<last, groups, delivered, pel, times, rSeen, faults>>

Reaper ==
    \/ TrimSnapshot
    \/ \E g \in Groups, b \in 1 .. (MaxMsgs + 1) : TrimExamine(g, b)
    \/ TrimGiveUp
    \/ TrimApply

BusTypeOK ==
    /\ last \in 0 .. MaxMsgs
    /\ stream \subseteq 1 .. last
    /\ groups \subseteq Groups
    /\ delivered \in [Groups -> 0 .. last]
    /\ pel \in [Groups -> SUBSET Ids]
    /\ times \in [Groups -> [Ids -> Nat]]
    /\ rpc \in {"idle", "scan"}
    /\ rSeen \subseteq Groups
    /\ rLast \in [Groups -> 0 .. last]
    /\ rBound \in 0 .. (MaxMsgs + 1)
    /\ faults \in 0 .. MaxFaults
=============================================================================
