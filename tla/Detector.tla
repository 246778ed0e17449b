-------------------------------- MODULE Detector --------------------------------
(***************************************************************************)
(* WS-4 (services/ws4-detection): replicas take normalized events from the *)
(* bus, evaluate the rules, of which the stateful ones share a sliding     *)
(* window in Redis, drop companion alerts their sibling covers, and emit   *)
(* the scored event, one alert per matched rule and at most one triage     *)
(* request.  Any step may raise (a failed bus or Redis call): the event    *)
(* stays unacked and is delivered again, to any replica, later.            *)
(*                                                                         *)
(* Redis calls and bus calls are separate steps; two replicas interleave   *)
(* between them.  Delivery itself (TopicWorker) is reduced to "an unacked  *)
(* event may be handed to an idle replica".  One clock tick stands for a   *)
(* second; record and receipt times are in ticks.                          *)
(***************************************************************************)
EXTENDS RedisWindow, FiniteSetsExt

CONSTANTS
    Workers, Events, Rules, Groups, Values,
    NoRule, NoGroup, NoEvent,
    EventTime,      \* event -> its own "time", as its author wrote it
    ReceiptTime,    \* event -> siem.received_ms
    Matching,       \* {<<rule, event>>}: condition true, rule enabled for the tenant
    GroupOf,        \* rule -> event -> group_by value (tenant included) or NoGroup
    ValueOf,        \* event -> the value a distinct-count rule counts
    CompanionOf,    \* rule -> the rule it is a companion of, or NoRule
    DistinctRules,  \* rules that count distinct values
    Window,         \* rule -> window_seconds; 0 for a stateless rule
    Threshold,      \* rule -> threshold
    Weight, Floor,  \* rule -> score_weight, rule -> severity floor of its level
    LlmGate,        \* rules whose floor counts for routing
    LlmMin, ClassifierMin,
    Skew,           \* FENGARDE_WINDOW_MAX_SKEW_SECONDS
    MaxClockSkew,   \* _MAX_CLOCK_SKEW_MS
    Cooldown,       \* _llm_cooldown_s
    FunnelBudget,   \* _llm_cache_budget
    Deployments,    \* {<<replicas running, events on normalized.events>>}
    MaxClock, MaxFaults, MaxRedeliveries  \* bounds of the model

Stateful(r) == Window[r] > 0

ASSUME ConstantsAssumption ==
    \* tools/validate_rules.py wants a positive threshold and forbids companion_of chains
    /\ \A r \in Rules : Window[r] \in Nat /\ Threshold[r] \in Nat \ {0}
    /\ \A r \in Rules : CompanionOf[r] # NoRule => CompanionOf[CompanionOf[r]] = NoRule
    /\ \A e \in Events : EventTime[e] \in Nat \ {0} /\ ReceiptTime[e] \in Nat \ {0} /\ ValueOf[e] \in Values
    /\ \A r \in Rules, e \in Events : GroupOf[r][e] \in Groups \cup {NoGroup}
    /\ NoRule \notin Rules /\ NoGroup \notin Groups /\ IsFiniteSet(Events)
    /\ Matching \subseteq Rules \X Events /\ DistinctRules \subseteq Rules
    /\ Deployments \subseteq (SUBSET Workers) \X (SUBSET Events)
    /\ Skew \in Nat /\ MaxClockSkew \in Nat
    /\ FunnelBudget \in Nat \ {0} /\ Cooldown \in Nat \ {0}

VARIABLES
    up, topic,   \* the deployment: replicas running, events to be delivered
    clock,       \* wall clock of Redis and the replicas
    zset,        \* rule -> group -> sorted set of the window
    expiry,      \* rule -> group -> when Redis drops that key (0: no key)
    job,         \* replica -> the event in its handler and how far it got
    funnel,      \* replica -> _recent_llm_enqueues: {[key, ts, at]}, at the place in the dict
    acked,       \* events acknowledged to the bus
    delivered,   \* events delivered at least once
    redeliveries,\* deliveries beyond the first, of any event
    faults,      \* raised calls and crashes so far
    scored,      \* events produced to scored.events
    alerts,      \* {[id, rule, ev]} produced to alerts
    requests,    \* {[ev, keys]} produced to ai.requests
    fired,       \* history: {[rule, ev, now]} rule matches in any attempt
    verdict,     \* history: event -> what the acked attempt decided
    lapsed       \* history: window keys Redis expired with entries in them

delivery == <<delivered, redeliveries>>
bus == <<scored, alerts, requests>>
redisVars == <<zset, expiry, lapsed>>
vars == <<up, topic, clock, zset, expiry, job, funnel, acked, delivered, redeliveries, faults,
          scored, alerts, requests, fired, verdict, lapsed>>

MembersOf(r) == IF r \in DistinctRules THEN Values ELSE Events
MemberOf(r, e) == IF r \in DistinctRules THEN ValueOf[e] ELSE e
EmptySet(r) == [m \in MembersOf(r) |-> 0]

Idle == [pc |-> "idle", ev |-> NoEvent, todo |-> {}, matched |-> {},
         dropped |-> {}, mine |-> {}]
NoVerdict == [matched |-> {}, dropped |-> {}]

Init ==
    /\ \E d \in Deployments : up = d[1] /\ topic = d[2]
    /\ clock = 1
    /\ zset = [r \in Rules |-> [g \in Groups |-> EmptySet(r)]]
    /\ expiry = [r \in Rules |-> [g \in Groups |-> 0]]
    /\ job = [p \in Workers |-> Idle]
    /\ funnel = [p \in Workers |-> {}]
    /\ acked = {}
    /\ delivered = {} /\ redeliveries = 0
    /\ faults = 0
    /\ scored = {} /\ alerts = {} /\ requests = {} /\ fired = {}
    /\ verdict = [e \in Events |-> NoVerdict]
    /\ lapsed = {}

--------------------------------------------------------------------------------
(* Time of an event (engine.py). *)

Abs(n) == IF n < 0 THEN -n ELSE n
Lesser(a, b) == IF a < b THEN a ELSE b
Greater(a, b) == IF a > b THEN a ELSE b

\* Faulty variant: the global skew whatever the window.
EffectiveSkew_NotWindowAware(r) == Skew

\* effective_skew_ms: a record time is trusted up to half a window from receipt.
EffectiveSkew(r) == IF Window[r] = 0 THEN Skew ELSE Lesser(Skew, Window[r] \div 2)

\* _window_time_of in the default mode "clamp"
WindowTime(r, e) ==
    IF Abs(EventTime[e] - ReceiptTime[e]) > EffectiveSkew(r)
    THEN ReceiptTime[e] ELSE EventTime[e]

\* _valid_window_time, and min(now, wall) against window poisoning
Valid(r, e) == WindowTime(r, e) <= clock + MaxClockSkew
PlanTime(r, e) == Lesser(WindowTime(r, e), clock)

\* Faulty variant: the bucket follows the record time as it was written.
AlertKey_RawTime(r, e) ==
    IF Stateful(r) THEN <<r, GroupOf[r][e], EventTime[e] \div Window[r]>>
    ELSE <<r, e, 0>>

\* alert_key: a pure function of the event, whenever it is processed.
AlertKey(r, e) ==
    IF Stateful(r) THEN <<r, GroupOf[r][e], WindowTime(r, e) \div Window[r]>>
    ELSE <<r, e, 0>>

--------------------------------------------------------------------------------
(* Windows in Redis: members(), EXPIRE. *)

Evidence(r, e) == {m \in MembersOf(r) : zset[r][GroupOf[r][e]][m] # 0}

\* A tick of the wall clock; Redis drops the keys whose TTL ends with it.
Tick ==
    /\ clock < MaxClock
    /\ clock' = clock + 1
    /\ LET over == {k \in Rules \X Groups : expiry[k[1]][k[2]] = clock + 1}
       IN  /\ zset' = [r \in Rules |-> [g \in Groups |->
                          IF <<r, g>> \in over THEN EmptySet(r) ELSE zset[r][g]]]
           /\ expiry' = [r \in Rules |-> [g \in Groups |->
                          IF <<r, g>> \in over THEN 0 ELSE expiry[r][g]]]
           /\ lapsed' = lapsed \cup over
    /\ UNCHANGED <<job, funnel, acked, delivery, faults, bus, fired, verdict>>

--------------------------------------------------------------------------------
(* Scoring (scoring.py), without the exposure points of OT assets. *)

RoutingScore(matched) ==
    LET weights == MapThenSumSet(LAMBDA r : Weight[r], matched)
        floors  == {Floor[r] : r \in matched \cap LlmGate} \cup {0}
    IN  Lesser(100, Greater(weights, Max(floors)))

Route(matched) ==
    LET score == RoutingScore(matched)
    IN  IF score >= LlmMin THEN "llm"
        ELSE IF score >= ClassifierMin THEN "classifier" ELSE "store"

\* is_llm_funnel_fresh
KeyFresh(p, key) == \A x \in funnel[p] : x.key = key => clock - x.ts >= Cooldown

\* _funnel_fresh: some matched rule's key is outside its cooldown.
FunnelFresh(p, matched, e) ==
    matched = {} \/ \E r \in matched : KeyFresh(p, AlertKey(r, e))

\* record_enqueue: a known key keeps its place in the dict; over budget, entries
\* older than two cooldowns go first, then the ones inserted first.
Recorded(table, key, now) ==
    LET known == {x \in table : x.key = key}
        place == IF known # {} THEN Max({x.at : x \in known})
                 ELSE 1 + Max({0} \cup {x.at : x \in table})
        put   == (table \ known) \cup {[key |-> key, ts |-> now, at |-> place]}
        kept  == IF Cardinality(put) > FunnelBudget
                 THEN {x \in put : x.ts > now - 2 * Cooldown} ELSE put
    IN  {x \in kept : Cardinality({y \in kept : y.at >= x.at}) <= FunnelBudget}

--------------------------------------------------------------------------------
(* One delivery of an event: detect_one = process, then _emit. *)

Goto(p, pc) == job' = [job EXCEPT ![p].pc = pc]

\* Faulty variant: all companions, whether the sibling matched or not.
Doubtful_AnyCompanion(matched) == {r \in matched : CompanionOf[r] # NoRule}

\* Companions whose sibling matched too; their evidence is compared one by one.
Doubtful(matched) == {r \in matched : CompanionOf[r] \in matched}

\* Rules still to evaluate; after the last one, the companions in doubt.
Evaluating(rest, matched) ==
    IF rest # {} THEN [pc |-> "eval", todo |-> rest]
    ELSE [pc |-> "mine", todo |-> Doubtful(matched)]

\* The bus hands an unacked event to an idle replica, for the first time or
\* again (a claim of an entry another replica still holds included).
Take(p, e) ==
    LET start == Evaluating({r \in Rules : <<r, e>> \in Matching}, {})
    IN  /\ job[p].pc = "idle" /\ e \notin acked
        /\ clock >= ReceiptTime[e]
        /\ e \in delivered => redeliveries < MaxRedeliveries
        /\ delivered' = delivered \cup {e}
        /\ redeliveries' = IF e \in delivered THEN redeliveries + 1 ELSE redeliveries
        /\ job' = [job EXCEPT ![p] = [Idle EXCEPT !.ev = e, !.pc = start.pc,
                                                  !.todo = start.todo]]
        /\ UNCHANGED <<clock, redisVars, funnel, acked, faults, bus, fired, verdict>>

\* The count after this event's window call, or the threshold itself for a
\* stateless rule: _finish_stateful compares it with the threshold.
Matches(r, count) == count >= Threshold[r]

\* evaluate / hit_many for the next rule: its window call and its verdict.
Evaluate(p) ==
    LET e == job[p].ev
        r == CHOOSE x \in job[p].todo : TRUE
        g == GroupOf[r][e]
        now == PlanTime(r, e)
        planned == Stateful(r) /\ g # NoGroup /\ Valid(r, e)
        z == IF r \in DistinctRules
             THEN ZHitDistinct(zset[r][g], ValueOf[e], now, Window[r])
             ELSE ZHit(zset[r][g], e, now, Window[r])
        match == ~Stateful(r) \/ (planned /\ Matches(r, ZCard(z)))
        matched == IF match THEN job[p].matched \cup {r} ELSE job[p].matched
        after == Evaluating(job[p].todo \ {r}, matched)
    IN  /\ job[p].pc = "eval"
        /\ IF planned
           THEN /\ zset' = [zset EXCEPT ![r][g] = z]
                /\ expiry' = [expiry EXCEPT ![r][g] = clock + Window[r] + 1]
           ELSE UNCHANGED <<zset, expiry>>
        /\ fired' = IF match THEN fired \cup {[rule |-> r, ev |-> e, now |-> now]} ELSE fired
        /\ job' = [job EXCEPT ![p].matched = matched, ![p].pc = after.pc, ![p].todo = after.todo]
        /\ UNCHANGED <<clock, lapsed, funnel, acked, delivery, faults, bus, verdict>>

\* _covered, first read: what the companion's alert would cite.
ReadMine(p) ==
    LET r == CHOOSE x \in job[p].todo : TRUE
    IN  /\ job[p].pc = "mine" /\ job[p].todo # {}
        /\ job' = [job EXCEPT ![p].pc = "theirs",
                              ![p].mine = IF Stateful(r) THEN Evidence(r, job[p].ev)
                                          ELSE {job[p].ev}]
        /\ UNCHANGED <<clock, redisVars, funnel, acked, delivery, faults, bus,
                       fired, verdict>>

\* Evidence of the same kind, equal for values and a subset for events; evidence
\* that cannot be named covers nothing.
Covers(r, mine, s, theirs) ==
    /\ mine # {} /\ theirs # {}
    /\ Stateful(r) = Stateful(s)
    /\ (r \in DistinctRules) = (s \in DistinctRules)
    /\ IF r \in DistinctRules THEN mine = theirs ELSE mine \subseteq theirs

\* _covered, second read: drop the companion if the sibling's alert says it all.
ReadTheirs(p) ==
    LET r == CHOOSE x \in job[p].todo : TRUE
        s == CompanionOf[r]
        theirs == IF Stateful(s) THEN Evidence(s, job[p].ev) ELSE {job[p].ev}
        out == IF Covers(r, job[p].mine, s, theirs) THEN {r} ELSE {}
    IN  /\ job[p].pc = "theirs"
        /\ job' = [job EXCEPT ![p].pc = "mine", ![p].mine = {},
                              ![p].todo = @ \ {r}, ![p].dropped = @ \cup out]
        /\ UNCHANGED <<clock, redisVars, funnel, acked, delivery, faults, bus,
                       fired, verdict>>

Kept(p) == job[p].matched \ job[p].dropped

Alert(r, e) == [id |-> AlertKey(r, e), rule |-> r, ev |-> e]

\* process() is over and _emit begins: the scored event, then make_alert and
\* produce for every rule left in matched.  No replica reads these topics, so
\* the calls are one step here and EmitRaises is where one of them fails.
Emit(p) ==
    LET e == job[p].ev
    IN  /\ job[p].pc = "mine" /\ job[p].todo = {}
        /\ scored' = scored \cup {e}
        /\ alerts' = alerts \cup {Alert(r, e) : r \in Kept(p)}
        /\ Goto(p, "funnel")
        /\ UNCHANGED <<clock, redisVars, funnel, acked, delivery, faults, requests,
                       fired, verdict>>

\* Some call of _emit raises, the scored event's or one after any part of the
\* alerts was produced.
EmitRaises(p, sent) ==
    LET e == job[p].ev
    IN  /\ job[p].pc = "mine" /\ job[p].todo = {} /\ faults < MaxFaults
        /\ sent \subseteq Kept(p)
        /\ faults' = faults + 1
        /\ scored' \in {scored, scored \cup {e}} /\ (sent # {} => e \in scored')
        /\ alerts' = alerts \cup {Alert(r, e) : r \in sent}
        /\ job' = [job EXCEPT ![p] = Idle]
        /\ UNCHANGED <<clock, redisVars, funnel, acked, delivery, requests, fired, verdict>>

Wanted(p) == Route(Kept(p)) # "store" /\ FunnelFresh(p, Kept(p), job[p].ev)
Request(p) == [ev |-> job[p].ev, keys |-> {AlertKey(r, job[p].ev) : r \in Kept(p)}]

\* _record_funnel: the rules whose cooldown is still to be committed.
Recording(rest) == [pc |-> IF rest = {} THEN "ack" ELSE "record", todo |-> rest]

\* _emit: CHECK the cooldown, PRODUCE the triage request, then RECORD the cooldown.
Enqueue(p) ==
    /\ job[p].pc = "funnel" /\ Wanted(p)
    /\ requests' = requests \cup {Request(p)}
    /\ job' = [job EXCEPT ![p].pc = Recording(Kept(p)).pc, ![p].todo = Kept(p)]
    /\ UNCHANGED <<clock, redisVars, funnel, acked, delivery, faults, scored, alerts,
                   fired, verdict>>

\* The loop of _record_funnel: commit the cooldown of the next matched rule's key.
Record(p) ==
    LET r == CHOOSE x \in job[p].todo : TRUE
        rest == job[p].todo \ {r}
    IN  /\ job[p].pc = "record"
        /\ funnel' = [funnel EXCEPT ![p] = Recorded(@, AlertKey(r, job[p].ev), clock)]
        /\ job' = [job EXCEPT ![p].pc = Recording(rest).pc, ![p].todo = rest]
        /\ UNCHANGED <<clock, redisVars, acked, delivery, faults, bus, fired, verdict>>

\* Faulty variant: a cooldown committed before the produce.
EnqueueRaises_CooldownBurned(p, sent) ==
    /\ job[p].pc = "funnel" /\ Wanted(p) /\ faults < MaxFaults
    /\ faults' = faults + 1
    /\ requests' = IF sent THEN requests \cup {Request(p)} ELSE requests
    /\ \E r \in Kept(p) :
          funnel' = [funnel EXCEPT ![p] = Recorded(@, AlertKey(r, job[p].ev), clock)]
    /\ job' = [job EXCEPT ![p] = Idle]
    /\ UNCHANGED <<clock, redisVars, acked, delivery, scored, alerts, fired, verdict>>

\* The produce raises, its entry added to the stream or not: nothing recorded.
EnqueueRaises(p, sent) ==
    /\ job[p].pc = "funnel" /\ Wanted(p) /\ faults < MaxFaults
    /\ faults' = faults + 1
    /\ requests' = IF sent THEN requests \cup {Request(p)} ELSE requests
    /\ job' = [job EXCEPT ![p] = Idle]
    /\ UNCHANGED <<clock, redisVars, funnel, acked, delivery, scored, alerts, fired, verdict>>

SkipEnqueue(p) ==
    /\ job[p].pc = "funnel" /\ ~Wanted(p)
    /\ Goto(p, "ack")
    /\ UNCHANGED <<clock, redisVars, funnel, acked, delivery, faults, bus, fired, verdict>>

\* The handler returned: the runner acks the entry.
Ack(p) ==
    /\ job[p].pc = "ack"
    /\ acked' = acked \cup {job[p].ev}
    /\ verdict' = [verdict EXCEPT ![job[p].ev] =
                      [matched |-> Kept(p), dropped |-> job[p].dropped]]
    /\ job' = [job EXCEPT ![p] = Idle]
    /\ UNCHANGED <<clock, redisVars, funnel, delivery, faults, bus, fired>>

\* A Redis call or the ack raises: detect_one propagates, nothing is acked.
Raise(p) ==
    /\ job[p].pc \in {"eval", "mine", "theirs", "ack"} /\ faults < MaxFaults
    /\ faults' = faults + 1
    /\ job' = [job EXCEPT ![p] = Idle]
    /\ UNCHANGED <<clock, redisVars, funnel, acked, delivery, bus, fired, verdict>>

\* The replica dies and restarts with an empty cooldown table.
Crash(p) ==
    /\ faults < MaxFaults
    /\ job[p].pc # "idle" \/ funnel[p] # {}
    /\ faults' = faults + 1
    /\ job' = [job EXCEPT ![p] = Idle]
    /\ funnel' = [funnel EXCEPT ![p] = {}]
    /\ UNCHANGED <<clock, redisVars, acked, delivery, bus, fired, verdict>>

Next ==
    \/ Tick /\ UNCHANGED <<up, topic>>
    \/ \E p \in up :
          /\ UNCHANGED <<up, topic>>
          /\ \/ \E e \in topic : Take(p, e)
             \/ Evaluate(p) \/ ReadMine(p) \/ ReadTheirs(p)
             \/ Emit(p) \/ \E sent \in SUBSET Rules : EmitRaises(p, sent)
             \/ Enqueue(p) \/ Record(p) \/ \E sent \in BOOLEAN : EnqueueRaises(p, sent)
             \/ SkipEnqueue(p) \/ Ack(p) \/ Raise(p) \/ Crash(p)

Spec == Init /\ [][Next]_vars

--------------------------------------------------------------------------------
(* Properties. *)

Keyed == [key : Rules \X (Groups \cup Events) \X Nat, ts : Nat, at : Nat]

\* State has its shape, and the cooldown table never outgrows its budget, even
\* when every entry is fresh.
TypeOK ==
    /\ <<up, topic>> \in Deployments
    /\ clock \in 1..MaxClock
    /\ \A r \in Rules, g \in Groups : /\ zset[r][g] \in [MembersOf(r) -> 0..MaxClock]
                                      /\ expiry[r][g] \in Nat
    /\ \A p \in Workers :
          /\ job[p].pc \in {"idle", "eval", "mine", "theirs", "funnel", "record", "ack"}
          /\ job[p].ev \in Events \cup {NoEvent}
          /\ job[p].dropped \subseteq job[p].matched /\ job[p].matched \subseteq Rules
          /\ job[p].todo \subseteq Rules
          /\ funnel[p] \subseteq Keyed /\ Cardinality(funnel[p]) <= FunnelBudget
    /\ acked \subseteq Events /\ scored \subseteq Events
    /\ delivered \subseteq Events /\ redeliveries \in 0..MaxRedeliveries
    /\ faults \in 0..MaxFaults

\* The cooldown is never burned without a request (_emit's ordering contract):
\* once an event is acked whose score asks for triage, every alert key it
\* matched is named by some request on ai.requests, whatever failed, crashed or
\* was redelivered on the way.
AckedIsTriaged ==
    \A e \in acked : Route(verdict[e].matched) # "store" =>
        \A r \in verdict[e].matched : \E q \in requests : AlertKey(r, e) \in q.keys

\* alert_key's docstring: a detection is never fabricated.  When a stateful rule
\* matches, threshold many different members were really delivered for the
\* group, none older than the window; redeliveries count once.
NeverFabricated ==
    \A f \in fired : Stateful(f.rule) =>
        LET r == f.rule
            seen == {x \in Events : /\ x \in delivered /\ <<r, x>> \in Matching
                                    /\ GroupOf[r][x] = GroupOf[r][f.ev]
                                    /\ WindowTime(r, x) >= f.now - Window[r]}
        IN  Cardinality({MemberOf(r, x) : x \in seen}) >= Threshold[r]

\* The events rule r counts for group g.
Burst(r, g) == {x \in topic : <<r, x>> \in Matching /\ GroupOf[r][x] = g}

\* The clamp trusts the record time of x, and the guard against future times refuses it.
Refused(r, x) ==
    /\ EventTime[x] - ReceiptTime[x] <= Lesser(Skew, Window[r] \div 2)
    /\ EventTime[x] > ReceiptTime[x] + MaxClockSkew

\* The burst of g came in together and the windows of r can count it.
Together(r, g) ==
    /\ Stateful(r) /\ <<r, g>> \notin lapsed
    /\ \A x, y \in Burst(r, g) : ReceiptTime[x] = ReceiptTime[y]
    /\ \A x \in Burst(r, g) : ~Refused(r, x)

\* _window_time_of: a burst that arrives together is counted in one window,
\* whatever times its author wrote and in whatever order it is processed; only
\* Redis expiring the key in between (a stalled redelivery) can hide it, or a record
\* time between the two skews, which a rule with a long window trusts and then refuses.
BurstIsCounted ==
    \A r \in Rules \ DistinctRules, g \in Groups :
        Together(r, g) /\ Burst(r, g) \subseteq acked /\ Cardinality(Burst(r, g)) >= Threshold[r]
        => \E f \in fired : f.rule = r /\ f.ev \in Burst(r, g)

\* alert_key's docstring: its buckets drop no detection, and a burst has one alert id
\* or, across the boundary of a bucket, two.  When all events of such a burst are
\* acked, one of them has an alert of the rule or, if it was given up, of its sibling
\* on the bus, although an attempt that matched may have failed and the next one
\* evaluates the windows anew.  At any time, with whatever replicas and redeliveries
\* raised them, all alerts of the burst are in two neighbouring buckets, so a forged
\* record time mints no third id.
BurstIsOneIncident ==
    \A r \in Rules \ DistinctRules, g \in Groups : Together(r, g) =>
        /\ Burst(r, g) \subseteq acked /\ Cardinality(Burst(r, g)) >= Threshold[r]
           => \E a \in alerts : a.rule \in {r, CompanionOf[r]} /\ a.ev \in Burst(r, g)
        /\ \A a, b \in alerts : a.rule = r /\ b.rule = r /\ {a.ev, b.ev} \subseteq Burst(r, g)
           => a.id[3] <= b.id[3] + 1

\* The invariant process() relies on: a companion's alert is given up only for
\* an alert of its sibling on the same event that really is on the bus.
SuppressionHasAlert ==
    \A e \in acked : \A r \in verdict[e].dropped :
        \E a \in alerts : a.rule = CompanionOf[r] /\ a.ev = e
================================================================================
