------------------------------ MODULE Correlator ------------------------------
(***************************************************************************)
(* Incident correlation: services/ws8-correlation, Correlator.ingest_alert *)
(* and _update_track on the Redis backend (track_state.py RedisTrackState, *)
(* shared/window.py RedisWindowCounter), with main.py's handler.           *)
(*                                                                         *)
(* Several replicas handle the alerts of one consumer group.  Each command *)
(* to Redis is one step, so the replicas interleave between the commands   *)
(* of one update; a Lua script or a MULTI block is one command.  The clock *)
(* counts ticks; scores and first_seen are ticks, 0 stands for "absent".   *)
(***************************************************************************)
EXTENDS RedisWindow, Sequences

CONSTANTS
    Workers,     \* threads of the ws8 replicas
    Alerts,      \* alerts, which are also the window members (_member_id)
    Tracks,      \* (tenant, entity type, entity value) keys
    LegsOf,      \* LegsOf[a]: the tracks of a, in the order actor, ip, device
    TacticOf,    \* TacticOf[a]: its MITRE tactic
    TimeOf,      \* TimeOf[a]: its event time, 0 when it has no usable one
    Horizon,     \* horizon_s
    MemberCap,   \* member_cap
    MaxStall,    \* bound: ticks that may pass while one alert is handled
    MaxClock,    \* bound on the clock
    MaxFaults    \* bound on Redis errors, crashes and repeated alerts

\* The time to live of the zset (hit) and of every other key of a track
\* (RedisTrackState(ttl_s = horizon_s + 1)).
Ttl == Horizon + 1

ASSUME CorrelatorAssumption ==
    /\ IsFiniteSet(Alerts)
    /\ LegsOf \in [Alerts -> Seq(Tracks)]
    /\ \A a \in Alerts : \A m, n \in DOMAIN LegsOf[a] : LegsOf[a][m] = LegsOf[a][n] => m = n
    /\ TimeOf \in [Alerts -> Nat]
    /\ Horizon \in Nat \ {0} /\ MemberCap \in Nat \ {0}
    /\ MaxStall \in 0 .. Horizon
    /\ MaxClock \in Nat \ {0} /\ MaxFaults \in Nat

VARIABLES
    clock,
    win,      \* win[k]: the zset of the track, member -> score
    wexp,     \* wexp[k]: when the zset expires
    side,     \* side[k]: the HASH of member entries, member -> entry time
    first,    \* first[k]: first_seen of the meta HASH
    tac,      \* tac[k]: the SET of tactics ever seen
    trunc,    \* trunc[k]: the truncated mark of the meta HASH
    cid,      \* cid[k]: the sticky incident id, 0 if unbound
    texp,     \* texp[k]: when side, meta and tac expire
    cexp,     \* cexp[k]: when cid expires
    job,      \* job[w]: what worker w is doing, its locals
    acked,    \* alerts acked by the group
    emitted,  \* incidents produced to the topic "incidents"
    latest,   \* latest[k]: the last of them for track k, NoIncident if none
    hitAt,    \* history: hitAt[k][a], when a was last counted on k
    gen,      \* history: gen[k], how many times track k has expired
    raced,    \* history: tracks whose last snapshot met another update under way
    capped,   \* history: tracks the cap has evicted entries of
    tardy,    \* history: tracks an alert came back to after its member had aged out
    robbed,   \* history: tracks where a peer deleted an entry its worker had not read yet
    faults

redisVars == <<win, wexp, side, first, tac, trunc, cid, texp, cexp>>
historyVars == <<hitAt, gen, raced, capped, tardy, robbed>>
vars == <<clock, redisVars, job, acked, emitted, latest, historyVars, faults>>

None == [m \in Alerts |-> 0]
NoIncident == [id |-> 0]
Idle == [pc |-> "idle"]

Init ==
    /\ clock = 1
    /\ win = [k \in Tracks |-> None]
    /\ wexp = [k \in Tracks |-> 0]
    /\ side = [k \in Tracks |-> None]
    /\ first = [k \in Tracks |-> 0]
    /\ tac = [k \in Tracks |-> {}]
    /\ trunc = [k \in Tracks |-> FALSE]
    /\ cid = [k \in Tracks |-> 0]
    /\ texp = [k \in Tracks |-> 0]
    /\ cexp = [k \in Tracks |-> 0]
    /\ job = [w \in Workers |-> Idle]
    /\ acked = {}
    /\ emitted = {}
    /\ latest = [k \in Tracks |-> NoIncident]
    /\ hitAt = [k \in Tracks |-> None]
    /\ gen = [k \in Tracks |-> 0]
    /\ raced = {}
    /\ capped = {}
    /\ tardy = {}
    /\ robbed = {}
    /\ faults = 0

Members(s) == {m \in Alerts : s[m] # 0}
Without(s, S) == [m \in Alerts |-> IF m \in S THEN 0 ELSE s[m]]
Least(S) == CHOOSE t \in S : \A u \in S : t <= u

\* EXPIRE with Ttl; deadlines past the bound on the clock are not told apart.
Deadline == Least({clock + Ttl, MaxClock + 1})

\* E is what the cap evicts: the excess, oldest first.
Oldest(s, E) ==
    /\ E \subseteq Members(s)
    /\ Cardinality(E) = Cardinality(Members(s)) - MemberCap
    /\ \A m \in E, n \in Members(s) \ E : s[m] <= s[n]

Alert(w) == job[w].alert
Track(w) == LegsOf[Alert(w)][job[w].leg]
At(w, label) == job[w].pc = label

\* The locals of ingest_alert, and those of an _update_track that has read nothing yet.
NewJob(a, now) ==
    [pc |-> IF LegsOf[a] = <<>> THEN "emit" ELSE "hit", alert |-> a, now |-> now, leg |-> 1,
     side |-> None, live |-> {}, first |-> 0, tac |-> {}, trunc |-> FALSE, out |-> <<>>]

\* Worker w goes on to the next leg of its alert, or to its emissions.
NextLeg(j) ==
    LET more == j.leg < Len(LegsOf[j.alert]) IN
    [NewJob(j.alert, j.now) EXCEPT !.pc = IF more THEN "hit" ELSE "emit",
                                   !.leg = IF more THEN j.leg + 1 ELSE j.leg, !.out = j.out]

Set(w, j) == job' = [job EXCEPT ![w] = j]

-----------------------------------------------------------------------------
(* One alert.                                                              *)

\* Alert a was counted on track k, and by the time it is counted again its member
\* may have left the window.
Tardy(k, a) == hitAt[k][a] # 0 /\ clock + MaxStall > hitAt[k][a] + Horizon

\* The runner hands w an alert that is not acked: ingest_alert reads the clock.
\* An alert that opens no track is skipped.  One alert is with one worker at a time:
\* no entry is claimed while its handler still runs.
Take(w, a) ==
    /\ At(w, "idle")
    /\ a \notin acked
    /\ \A v \in Workers : ~At(v, "idle") => Alert(v) # a
    /\ Set(w, NewJob(a, clock))
    /\ tardy' = tardy \cup {k \in Tracks : Tardy(k, a)}
    /\ UNCHANGED <<clock, redisVars, acked, emitted, latest, hitAt, gen, raced, capped, robbed, faults>>

\* window_counter.hit with the clock read by ingest_alert.
Hit(w) ==
    /\ At(w, "hit")
    /\ win' = [win EXCEPT ![Track(w)] = ZHit(@, Alert(w), job[w].now, Horizon)]
    /\ wexp' = [wexp EXCEPT ![Track(w)] = Deadline]
    /\ hitAt' = [hitAt EXCEPT ![Track(w)][Alert(w)] = job[w].now]
    /\ Set(w, [job[w] EXCEPT !.pc = "record"])
    /\ UNCHANGED <<clock, side, first, tac, trunc, cid, texp, cexp, acked, emitted,
                   latest, gen, raced, capped, tardy, robbed, faults>>

\* The entry's time: the alert's own, or the clock when that is not usable.
EntryTime(w) == IF TimeOf[Alert(w)] = 0 THEN job[w].now ELSE TimeOf[Alert(w)]

\* record: the Lua script sets the entry, lowers first_seen, adds the tactic and
\* restarts the time to live of the track's keys, the incident id's too.
Record(w) ==
    LET k == Track(w) IN
    /\ At(w, "record")
    /\ side' = [side EXCEPT ![k][Alert(w)] = EntryTime(w)]
    /\ first' = [first EXCEPT ![k] = IF @ = 0 \/ EntryTime(w) < @ THEN EntryTime(w) ELSE @]
    /\ tac' = [tac EXCEPT ![k] = @ \cup {TacticOf[Alert(w)]}]
    /\ texp' = [texp EXCEPT ![k] = Deadline]
    /\ cexp' = [cexp EXCEPT ![k] = IF cid[k] = 0 THEN @ ELSE Deadline]
    /\ Set(w, [job[w] EXCEPT !.pc = "snapshot"])
    /\ UNCHANGED <<clock, win, wexp, trunc, cid, acked, emitted, latest, historyVars, faults>>

\* Worker v has read track k for an incident it has yet to produce.
UnderWay(v, k) ==
    /\ ~At(v, "idle")
    /\ \/ ~At(v, "emit") /\ ~At(v, "hit") /\ ~At(v, "record") /\ ~At(v, "snapshot") /\ Track(v) = k
       \/ \E i \in DOMAIN job[v].out : job[v].out[i].track = k

\* Faulty variant: the tactics are those of the entries still there.
Snapshot_TacticsOfEntries(w) ==
    LET k == Track(w) IN
    /\ At(w, "snapshot")
    /\ Set(w, [job[w] EXCEPT !.pc = "members", !.side = side[k], !.trunc = trunc[k], !.first = first[k],
               !.tac = {TacticOf[m] : m \in {n \in Members(side[k]) : \E E \in SUBSET Alerts :
                            Cardinality(Members(side[k])) > MemberCap => n \notin E /\ Oldest(side[k], E)}}])
    /\ raced' = IF \E v \in Workers \ {w} : UnderWay(v, k) THEN raced \cup {k} ELSE raced \ {k}
    /\ UNCHANGED <<clock, redisVars, acked, emitted, latest, hitAt, gen, capped, tardy, robbed, faults>>

\* snapshot: entries, meta and tactics in one MULTI; first_seen is rebuilt from
\* the entries when the meta HASH is gone.
Snapshot(w) ==
    LET k == Track(w)
        times == {side[k][m] : m \in Members(side[k])}
    IN
    /\ At(w, "snapshot")
    /\ Set(w, [job[w] EXCEPT !.pc = "members", !.side = side[k], !.tac = tac[k], !.trunc = trunc[k],
               !.first = IF first[k] # 0 THEN first[k] ELSE IF times = {} THEN 0 ELSE Least(times)])
    /\ raced' = IF \E v \in Workers \ {w} : UnderWay(v, k) THEN raced \cup {k} ELSE raced \ {k}
    /\ UNCHANGED <<clock, redisVars, acked, emitted, latest, hitAt, gen, capped, tardy, robbed, faults>>

\* window_counter.members, read after the snapshot.
ReadMembers(w) ==
    /\ At(w, "members")
    /\ Set(w, [job[w] EXCEPT !.pc = "prune", !.live = Members(win[Track(w)])])
    /\ UNCHANGED <<clock, redisVars, acked, emitted, latest, historyVars, faults>>

\* Worker w deletes the entries S of its track: robbed, when another worker has
\* recorded one of these alerts and not taken its snapshot yet.
Robs(w, S) ==
    robbed' = robbed \cup
        {Track(v) : v \in {x \in Workers : At(x, "snapshot") /\ Track(x) = Track(w) /\ Alert(x) \in S}}

\* Faulty variant: the entries that are left are written back as a whole.
Prune_WritesBack(w) ==
    LET stale == Members(job[w].side) \ job[w].live IN
    /\ At(w, "prune")
    /\ side' = [side EXCEPT ![Track(w)] = Without(job[w].side, stale)]
    /\ Set(w, [job[w] EXCEPT !.pc = "cap", !.side = Without(@, stale)])
    /\ Robs(w, stale)
    /\ UNCHANGED <<clock, win, wexp, first, tac, trunc, cid, texp, cexp, acked, emitted, latest,
                   hitAt, gen, raced, capped, tardy, faults>>

\* prune: HDEL of the entries whose member is not in the window any more (no
\* command at all when there is none).
Prune(w) ==
    LET stale == Members(job[w].side) \ job[w].live IN
    /\ At(w, "prune")
    /\ side' = [side EXCEPT ![Track(w)] = Without(@, stale)]
    /\ Set(w, [job[w] EXCEPT !.pc = "cap", !.side = Without(@, stale)])
    /\ Robs(w, stale)
    /\ UNCHANGED <<clock, win, wexp, first, tac, trunc, cid, texp, cexp, acked, emitted, latest,
                   hitAt, gen, raced, capped, tardy, faults>>

OverCap(w) == Cardinality(Members(job[w].side)) > MemberCap

\* The cap binds: HDEL of the oldest entries, then the truncated mark.
Evict(w, E) ==
    /\ At(w, "cap")
    /\ OverCap(w)
    /\ Oldest(job[w].side, E)
    /\ side' = [side EXCEPT ![Track(w)] = Without(@, E)]
    /\ Set(w, [job[w] EXCEPT !.pc = "mark", !.side = Without(@, E)])
    /\ capped' = capped \cup {Track(w)}
    /\ Robs(w, E)
    /\ UNCHANGED <<clock, win, wexp, first, tac, trunc, cid, texp, cexp, acked, emitted, latest,
                   hitAt, gen, raced, tardy, faults>>

\* An update that is not promoted is over: no live entry, or fewer than two tactics.
Promoted(j) == Members(j.side) \cap j.live # {} /\ Cardinality(j.tac) >= 2
AfterCap(j) == IF Promoted(j) THEN [j EXCEPT !.pc = "bind"] ELSE NextLeg(j)

MarkTruncated(w) ==
    /\ At(w, "mark")
    /\ trunc' = [trunc EXCEPT ![Track(w)] = TRUE]
    /\ Set(w, AfterCap([job[w] EXCEPT !.trunc = TRUE]))
    /\ UNCHANGED <<clock, win, wexp, side, first, tac, cid, texp, cexp, acked, emitted, latest,
                   historyVars, faults>>

WithinCap(w) ==
    /\ At(w, "cap")
    /\ ~OverCap(w)
    /\ Set(w, AfterCap(job[w]))
    /\ UNCHANGED <<clock, redisVars, acked, emitted, latest, historyVars, faults>>

\* _incident_id: the horizon bucket of first_seen (and the track's names).
IncidentId(t) == 1 + t \div Horizon

Incident(w, id) ==
    LET j == job[w] IN
    [track |-> Track(w), id |-> id, first |-> j.first, tactics |-> j.tac, gen |-> gen[Track(w)],
     members |-> Members(j.side) \cap j.live, trunc |-> j.trunc]

\* Faulty variants: the id follows first_seen; only the update that binds the id
\* returns an incident.
Bind_NotSticky(w) ==
    LET k == Track(w)
        id == IncidentId(job[w].first)
    IN
    /\ At(w, "bind")
    /\ cid' = [cid EXCEPT ![k] = id]
    /\ cexp' = [cexp EXCEPT ![k] = Deadline]
    /\ Set(w, NextLeg([job[w] EXCEPT !.out = Append(@, Incident(w, id))]))
    /\ UNCHANGED <<clock, win, wexp, side, first, tac, trunc, texp, acked, emitted, latest, historyVars,
                   faults>>

Bind_OnlyFirst(w) ==
    LET k == Track(w)
        id == IF cid[k] = 0 THEN IncidentId(job[w].first) ELSE cid[k]
    IN
    /\ At(w, "bind")
    /\ cid' = [cid EXCEPT ![k] = id]
    /\ cexp' = [cexp EXCEPT ![k] = Deadline]
    /\ Set(w, NextLeg(IF cid[k] # 0 THEN job[w]
                      ELSE [job[w] EXCEPT !.out = Append(@, Incident(w, id))]))
    /\ UNCHANGED <<clock, win, wexp, side, first, tac, trunc, texp, acked, emitted, latest, historyVars,
                   faults>>

\* bind_incident_id: SET NX, GET and EXPIRE in one MULTI.  (claim_incident, which
\* follows, only decides whether promotions_count is raised.)
Bind(w) ==
    LET k == Track(w)
        id == IF cid[k] = 0 THEN IncidentId(job[w].first) ELSE cid[k]
    IN
    /\ At(w, "bind")
    /\ cid' = [cid EXCEPT ![k] = id]
    /\ cexp' = [cexp EXCEPT ![k] = Deadline]
    /\ Set(w, NextLeg([job[w] EXCEPT !.out = Append(@, Incident(w, id))]))
    /\ UNCHANGED <<clock, win, wexp, side, first, tac, trunc, texp, acked, emitted, latest, historyVars,
                   faults>>

\* handle_alert produces the incidents the alert led to, one after the other.
Emit(w) ==
    /\ At(w, "emit")
    /\ job[w].out # <<>>
    /\ LET inc == Head(job[w].out) IN
       /\ emitted' = emitted \cup {inc}
       /\ latest' = [latest EXCEPT ![inc.track] = inc]
    /\ Set(w, [job[w] EXCEPT !.out = Tail(@)])
    /\ UNCHANGED <<clock, redisVars, acked, historyVars, faults>>

Ack(w) ==
    /\ At(w, "emit")
    /\ job[w].out = <<>>
    /\ acked' = acked \cup {Alert(w)}
    /\ Set(w, Idle)
    /\ UNCHANGED <<clock, redisVars, emitted, latest, historyVars, faults>>

-----------------------------------------------------------------------------
(* The environment.                                                        *)

\* A Redis error or a crash before any command: the alert stays unacked and
\* comes back; what has been written to Redis stays.
Abort(w) ==
    /\ ~At(w, "idle")
    /\ faults < MaxFaults
    /\ faults' = faults + 1
    /\ Set(w, Idle)
    /\ UNCHANGED <<clock, redisVars, acked, emitted, latest, historyVars>>

\* An alert comes once more: a lost ack, or the detector raised it again.
Again(a) ==
    /\ a \in acked
    /\ faults < MaxFaults
    /\ faults' = faults + 1
    /\ acked' = acked \ {a}
    /\ UNCHANGED <<clock, redisVars, job, emitted, latest, historyVars>>

\* Time passes; Redis drops the keys whose time has come.
Tick ==
    LET now == clock + 1
        gone(k) == texp[k] = now
    IN
    /\ clock < MaxClock
    /\ \A w \in Workers : ~At(w, "idle") => clock < job[w].now + MaxStall
    /\ clock' = now
    /\ win' = [k \in Tracks |-> IF wexp[k] = now THEN None ELSE win[k]]
    /\ wexp' = [k \in Tracks |-> IF wexp[k] = now THEN 0 ELSE wexp[k]]
    /\ side' = [k \in Tracks |-> IF gone(k) THEN None ELSE side[k]]
    /\ first' = [k \in Tracks |-> IF gone(k) THEN 0 ELSE first[k]]
    /\ tac' = [k \in Tracks |-> IF gone(k) THEN {} ELSE tac[k]]
    /\ trunc' = [k \in Tracks |-> IF gone(k) THEN FALSE ELSE trunc[k]]
    /\ texp' = [k \in Tracks |-> IF gone(k) THEN 0 ELSE texp[k]]
    /\ gen' = [k \in Tracks |-> IF gone(k) THEN gen[k] + 1 ELSE gen[k]]
    /\ cid' = [k \in Tracks |-> IF cexp[k] = now THEN 0 ELSE cid[k]]
    /\ cexp' = [k \in Tracks |-> IF cexp[k] = now THEN 0 ELSE cexp[k]]
    /\ capped' = capped \ {k \in Tracks : gone(k)}
    /\ UNCHANGED <<job, acked, emitted, latest, hitAt, raced, tardy, robbed, faults>>

Worker(w) ==
    \/ \E a \in Alerts : Take(w, a)
    \/ Hit(w)
    \/ Record(w)
    \/ Snapshot(w)
    \/ ReadMembers(w)
    \/ Prune(w)
    \/ \E E \in SUBSET Alerts : Evict(w, E)
    \/ MarkTruncated(w)
    \/ WithinCap(w)
    \/ Bind(w)
    \/ Emit(w)
    \/ Ack(w)

Next ==
    \/ \E w \in Workers : Worker(w) \/ Abort(w)
    \/ \E a \in Alerts : Again(a)
    \/ Tick

Spec == Init /\ [][Next]_vars

-----------------------------------------------------------------------------
(* Properties.                                                             *)

\* Alert a has been counted on track k and is acked.
Done(k, a) == hitAt[k][a] # 0 /\ a \in acked

\* An incident is never missed: when two alerts of one entity with different
\* tactics have been handled close enough in time, by whichever replicas, across
\* whatever errors, restarts and evictions, an incident with both was produced,
\* unless a peer deleted an entry between its record and its snapshot.
TwoTacticsPromote ==
    \A k \in Tracks, a, b \in Alerts :
        /\ Done(k, a) /\ Done(k, b) /\ k \notin robbed
        /\ TacticOf[a] # TacticOf[b]
        /\ hitAt[k][a] <= hitAt[k][b]
        /\ hitAt[k][b] + MaxStall <= hitAt[k][a] + Horizon
        => \E i \in emitted : i.track = k /\ {TacticOf[a], TacticOf[b]} \subseteq i.tactics

\* One incident id per life of a track: no replica, redelivery or late alert with
\* an older event time forks the incident.
OneIdPerTrack ==
    \A i, j \in emitted : i.track = j.track /\ i.gen = j.gen => i.id = j.id

\* A replica never prunes a peer's fresh entry: the entry of a recorded alert
\* whose member is in the window stays, unless the cap evicted entries or an alert
\* came back so late that its member had left the window in between.
FreshEntryKept ==
    \A k \in Tracks, a \in Alerts :
        /\ Done(k, a) /\ win[k][a] # 0
        /\ clock < texp[k] /\ hitAt[k][a] + Horizon >= clock
        /\ k \notin capped \cup tardy
        => side[k][a] # 0

\* Nothing is being done, and nothing is waiting to be done again, on track k.
Settled(k) ==
    /\ \A w \in Workers : At(w, "idle")
    /\ \A a \in Alerts : hitAt[k][a] # 0 => a \in acked

\* The last incident produced for a track, which is the document WS-3 ends up
\* with, has all its entries and tactics, unless the update behind it ran while
\* another replica was between its snapshot and its produce.
LatestIsComplete ==
    \A k \in Tracks :
        /\ Settled(k) /\ k \notin raced
        /\ Members(side[k]) # {} /\ Cardinality(tac[k]) >= 2
        => /\ latest[k] # NoIncident
           /\ latest[k].members = Members(side[k])
           /\ latest[k].tactics = tac[k]
=============================================================================
