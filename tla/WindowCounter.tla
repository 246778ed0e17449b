----------------------------- MODULE WindowCounter -----------------------------
(***************************************************************************)
(* DequeWindowCounter of services/shared/window.py, the in-process sliding *)
(* window of the stateful detection rules, run side by side with the Redis *)
(* counter it must agree with.  Hits arrive in any time order, members are *)
(* redelivered, rules are reloaded with another window, and every          *)
(* SweepEvery hits the counter forgets idle keys through a heap of         *)
(* deadlines.  A key belongs to one rule, so it is either counted with hit *)
(* or with hit_distinct; w[k] is _w[k] or _dw[k] accordingly.  Times are   *)
(* positive and 0 means "no entry".                                        *)
(***************************************************************************)
EXTENDS RedisWindow, Sequences, FiniteSetsExt

CONSTANTS
    Keys,           \* "rule:tenant:group" window keys
    DistinctKeys,   \* the keys of distinct-count rules
    Members,        \* ingest ids (hit) or field values (hit_distinct)
    Windows,        \* windows a rule may be given by a reload
    MaxTime,        \* bound on event times
    MaxHits,        \* bound on the number of calls
    MaxReloads,     \* bound on the number of rule reloads
    SweepEvery,     \* _SWEEP_EVERY
    CompactSlack    \* the 64 of hit_distinct's compaction

ASSUME ConstantsAssumption ==
    /\ DistinctKeys \subseteq Keys
    /\ Windows \subseteq Nat \ {0} /\ Windows # {}
    /\ MaxTime \in Nat \ {0} /\ MaxHits \in Nat /\ MaxReloads \in Nat
    /\ SweepEvery \in Nat \ {0} /\ CompactSlack \in Nat

VARIABLES
    w,         \* key -> time-sorted sequence of [t, m]
    live,      \* key -> member -> its timestamp (_live_members)
    last,      \* key -> newest hit time (_last)
    exp,       \* key -> when that hit leaves its own window (_exp)
    heap,      \* {<<deadline, key>>}; a repeated pair acts like one
    hits,      \* calls so far (_hits)
    window,    \* key -> window of its rule as loaded now
    reloads,   \* rule reloads so far
    redis,     \* key -> the sorted set the Redis backend would hold
    ret,       \* the answers of the last call, from both backends
    swept,     \* history: keys the sweep has dropped from the deque since their last hit
    lapsed,    \* history: keys Redis has expired since their last hit
    tardy      \* history: keys whose entries only one backend had when they would have counted

deque == <<w, live, last, exp, heap, hits>>
vars == <<w, live, last, exp, heap, hits, window, reloads, redis, ret, swept, lapsed, tardy>>

Times == 1..MaxTime
Entry == [t : Times, m : Members]
Absent == [m \in Members |-> 0]

Init ==
    /\ w = [k \in Keys |-> <<>>]
    /\ live = [k \in Keys |-> Absent]
    /\ last = [k \in Keys |-> 0]
    /\ exp = [k \in Keys |-> 0]
    /\ heap = {}
    /\ hits = 0
    /\ window \in [Keys -> Windows]
    /\ reloads = 0
    /\ redis = [k \in Keys |-> Absent]
    /\ ret = [key |-> CHOOSE k \in Keys : TRUE, now |-> 0, deque |-> 0, redis |-> 0]
    /\ swept = {}
    /\ lapsed = {}
    /\ tardy = {}

--------------------------------------------------------------------------------
(* The deque. *)

\* while w and w[0][0] < horizon: popleft()
Stale(s, horizon) ==
    LET fresh == {i \in DOMAIN s : s[i].t >= horizon}
    IN  IF fresh = {} THEN Len(s) ELSE Min(fresh) - 1
FrontTrim(s, horizon) == SubSeq(s, Stale(s, horizon) + 1, Len(s))

\* members.pop(evicted_member) for each entry popped by FrontTrim
Evict(mem, s, horizon) ==
    LET out == {s[i].m : i \in 1..Stale(s, horizon)}
    IN  [m \in Members |-> IF m \in out THEN 0 ELSE mem[m]]

\* The place of entry i once the entries are sorted by time, equal times staying
\* in order.
Place(s, i) ==
    Cardinality({j \in DOMAIN s : s[j].t < s[i].t \/ (s[j].t = s[i].t /\ j <= i)})

\* items.sort(key=lambda e: e[0])
Resorted(s) == [n \in DOMAIN s |-> s[CHOOSE i \in DOMAIN s : Place(s, i) = n]]

\* Faulty variant: late events appended without a sort.
Inserted_AtTheBack(s, e) == Append(s, e)

Inserted(s, e) ==
    IF s # <<>> /\ e.t < s[Len(s)].t THEN Resorted(Append(s, e)) ELSE Append(s, e)

\* Faulty variant: a redelivered member keeps its first timestamp.
Refreshed_KeepsOldStamp(s, e) == s

\* A live member is re-stamped with the time of its redelivery (R3-#61).
Refreshed(s, e) ==
    Resorted([i \in DOMAIN s |-> IF s[i].m = e.m THEN e ELSE s[i]])

\* Faulty variant: a late hit moves the deadline back.
NewLast_FollowsEveryHit(k, now) == now

\* _touch: _last follows the newest hit and never moves back.
NewLast(k, now) == IF now > last[k] THEN now ELSE last[k]

\* _sweep: the keys popped from the heap whose own deadline has passed.
SweptKeys(due, deadline, now) == {h[2] : h \in {g \in due : deadline[g[2]] < now}}

\* Faulty variant: a shrunk deadline gets no heap entry.
PushNeeded_OnlyNew(old, deadline) == old = 0

\* _touch pushes a heap entry for a new key and for a deadline that shrank.
PushNeeded(old, deadline) == old = 0 \/ deadline < old

\* A hit reaches back to entries that one backend has dropped with the whole key and
\* the other has not.
HitsHalf(k, horizon) ==
    \/ k \in swept /\ \E m \in Members : redis[k][m] # 0 /\ redis[k][m] >= horizon
    \/ k \in lapsed /\ \E i \in DOMAIN w[k] : w[k][i].t >= horizon

\* What every hit ends with: store the new window of k, _touch, _sweep.
Finish(k, now, s, mem) ==
    LET last1 == [last EXCEPT ![k] = NewLast(k, now)]
        exp1  == [exp EXCEPT ![k] = last1[k] + window[k]]
        heap1 == IF PushNeeded(exp[k], exp1[k]) THEN heap \cup {<<exp1[k], k>>} ELSE heap
        due   == IF (hits + 1) % SweepEvery = 0 THEN {h \in heap1 : h[1] < now} ELSE {}
        gone  == SweptKeys(due, exp1, now)
        later == {<<exp1[h[2]], h[2]>> : h \in {g \in due : g[2] \notin gone}}
        Keep(f, empty) == [x \in Keys |-> IF x \in gone THEN empty ELSE f[x]]
    IN  /\ hits < MaxHits
        /\ w' = Keep([w EXCEPT ![k] = s], <<>>)
        /\ live' = Keep([live EXCEPT ![k] = mem], Absent)
        /\ last' = Keep(last1, 0)
        /\ exp' = Keep(exp1, 0)
        /\ heap' = (heap1 \ due) \cup later
        /\ hits' = hits + 1
        /\ swept' = (swept \ {k}) \cup gone
        /\ lapsed' = lapsed \ {k}
        /\ tardy' = IF HitsHalf(k, now - window[k]) THEN tardy \cup {k} ELSE tardy

--------------------------------------------------------------------------------
(* Operations. *)

\* hit(key, now_ms, window_ms, member): count of the events in the window.
Hit(k, m, now) ==
    LET horizon == now - window[k]
        s     == FrontTrim(w[k], horizon)
        mem   == Evict(live[k], w[k], horizon)
        e     == [t |-> now, m |-> m]
        moved == IF mem[m] = now THEN s
                 ELSE IF mem[m] # 0 THEN Refreshed(s, e) ELSE Inserted(s, e)
        s2    == FrontTrim(moved, horizon)
        z     == ZHit(redis[k], m, now, window[k])
    IN  /\ k \notin DistinctKeys
        /\ Finish(k, now, s2, Evict([mem EXCEPT ![m] = now], moved, horizon))
        /\ redis' = [redis EXCEPT ![k] = z]
        /\ ret' = [key |-> k, now |-> now, deque |-> Len(s2), redis |-> ZCard(z)]
        /\ UNCHANGED <<window, reloads>>

Values(s) == {s[i].m : i \in DOMAIN s}

\* Compaction keeps the newest copy of each value (the last one: s is sorted).
Compacted(s) ==
    IF Len(s) > 2 * Cardinality(Values(s)) + CompactSlack
    THEN LET newest == {i \in DOMAIN s : \A j \in DOMAIN s : j > i => s[j].m # s[i].m}
         IN  [n \in 1..Cardinality(newest) |->
                 s[CHOOSE i \in newest : Cardinality({j \in newest : j <= i}) = n]]
    ELSE s

\* hit_distinct(key, now_ms, window_ms, value): distinct values in the window.
HitDistinct(k, v, now) ==
    LET s == FrontTrim(Inserted(w[k], [t |-> now, m |-> v]), now - window[k])
        z == ZHitDistinct(redis[k], v, now, window[k])
    IN  /\ k \in DistinctKeys
        /\ Finish(k, now, Compacted(s), Absent)
        /\ redis' = [redis EXCEPT ![k] = z]
        /\ ret' = [key |-> k, now |-> now, deque |-> Cardinality(Values(s)), redis |-> ZCard(z)]
        /\ UNCHANGED <<window, reloads>>

\* The EXPIRE of the key's last hit is up: window_s + 1 seconds of wall time without
\* another.  Event times only stay behind the wall clock, by any lag, so this may fall
\* between any two hits (after the last one it makes no difference).
Expire(k) ==
    /\ redis[k] # Absent /\ hits < MaxHits
    /\ redis' = [redis EXCEPT ![k] = Absent]
    /\ lapsed' = lapsed \cup {k}
    /\ UNCHANGED <<w, live, last, exp, heap, hits, window, reloads, ret, swept, tardy>>

\* A rule reload: the key's next hits come with another window_ms.
Reload(k, win) ==
    /\ reloads < MaxReloads /\ window[k] # win
    /\ reloads' = reloads + 1
    /\ window' = [window EXCEPT ![k] = win]
    /\ UNCHANGED <<w, live, last, exp, heap, hits, redis, ret, swept, lapsed, tardy>>

Next ==
    \/ \E k \in Keys, m \in Members, now \in Times : Hit(k, m, now) \/ HitDistinct(k, m, now)
    \/ \E k \in Keys : Expire(k)
    \/ \E k \in Keys, win \in Windows : Reload(k, win)

Spec == Init /\ [][Next]_vars

--------------------------------------------------------------------------------
(* Properties. *)

\* The counter's maps have the shapes the code gives them.
TypeOK ==
    /\ w \in [Keys -> Seq(Entry)]
    /\ live \in [Keys -> [Members -> 0..MaxTime]]
    /\ last \in [Keys -> 0..MaxTime]
    /\ exp \in [Keys -> Nat]
    /\ heap \subseteq Nat \X Keys
    /\ hits \in 0..MaxHits
    /\ window \in [Keys -> Windows]
    /\ reloads \in 0..MaxReloads
    /\ redis \in [Keys -> [Members -> 0..MaxTime]]
    /\ ret \in [key : Keys, now : 0..MaxTime, deque : Nat, redis : Nat]
    /\ swept \cup lapsed \cup tardy \subseteq Keys

\* Both backends answer every call alike (the class docstring's claim that the
\* deque backend matches RedisWindowCounter), late, redelivered and
\* re-stamped events included.  The exception is a key that one backend alone
\* forgot, hit again so far in the past that its entries would still have counted:
\* the documented limit of _sweep, which goes by event time, and its counterpart,
\* the EXPIRE of the Redis key, which goes by the wall clock.
CountsAgree == ret.key \notin tardy => ret.deque = ret.redis

\* What hit() relies on: the deque is sorted, holds a member at most once, and
\* _live_members holds exactly its members with their current timestamps.
MirrorExact ==
    \A k \in Keys :
        /\ \A i, j \in DOMAIN w[k] : i < j => w[k][i].t <= w[k][j].t
        /\ k \notin DistinctKeys =>
               \A m \in Members :
                   {w[k][i].t : i \in {j \in DOMAIN w[k] : w[k][j].m = m}}
                       = IF live[k][m] = 0 THEN {} ELSE {live[k][m]}
        /\ k \notin DistinctKeys => Cardinality(Values(w[k])) = Len(w[k])

\* A sweep forgets a key only when each of its entries lies before the window,
\* in the key's own length, that ends at the sweeping hit (finding F1 and
\* review finding 1: never the sweeping key's window, never an older stamp).
SweepKeepsLive ==
    [][\A k \in Keys :
           \/ w'[k] = w[k] \/ k = ret'.key
           \/ \A i \in DOMAIN w[k] : w[k][i].t + (exp[k] - last[k]) < ret'.now]_w

\* The sweep index of _touch: every key with a deadline has a heap entry that
\* comes due no later.
HeapCovers ==
    \A k \in Keys : exp[k] # 0 => \E h \in heap : h[2] = k /\ h[1] <= exp[k]

\* A sweep leaves no key behind whose deadline has passed, whatever reloads
\* did to its deadline: the heap always has an entry early enough.
SweepLeavesNoIdleKey ==
    [][hits' % SweepEvery = 0 => \A k \in Keys : exp'[k] = 0 \/ exp'[k] >= ret'.now]_deque
================================================================================
