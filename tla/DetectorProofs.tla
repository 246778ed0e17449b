---------------------------- MODULE DetectorProofs ----------------------------
(***************************************************************************)
(* Proofs about Detector, for any rules, events, replicas and faults: no   *)
(* detection is fabricated, a burst that arrives together is counted and   *)
(* leaves an alert, under one id or two neighbouring ones, a companion's   *)
(* alert is given up only for one that is on the bus, and an acked event   *)
(* that asks for triage was sent to it.                                    *)
(***************************************************************************)
EXTENDS Detector, FiniteSetTheorems, TLAPS

JobType ==
    [pc : {"idle", "eval", "mine", "theirs", "funnel", "record", "ack"}, ev : Events \cup {NoEvent}, todo : SUBSET Rules,
     matched : SUBSET Rules, dropped : SUBSET Rules, mine : SUBSET (Events \cup Values)]

ZType == UNION {[MembersOf(r) -> Nat] : r \in Rules}

Types ==
    /\ up \subseteq Workers /\ topic \subseteq Events /\ clock \in Nat \ {0}
    /\ zset \in [Rules -> [Groups -> ZType]] /\ \A r \in Rules, g \in Groups : zset[r][g] \in [MembersOf(r) -> Nat]
    /\ job \in [Workers -> JobType]
    /\ verdict \in [Events -> [matched : SUBSET Rules, dropped : SUBSET Rules]]
    /\ delivered \subseteq Events /\ \A f \in fired : f.rule \in Rules

\* An event in a handler came from the bus; what is evaluated concerns it, and what is
\* dropped or in doubt has a sibling that matched.
JobGood(p) ==
    job[p].pc # "idle" =>
        /\ job[p].ev \in topic \cap delivered /\ ReceiptTime[job[p].ev] <= clock
        /\ job[p].pc \in {"eval", "theirs", "record"} => job[p].todo # {}
        /\ job[p].pc = "eval" => \A r \in job[p].todo : <<r, job[p].ev>> \in Matching
        /\ job[p].pc \in {"mine", "theirs"} => job[p].todo \subseteq Doubtful(job[p].matched)
        /\ job[p].pc = "record" => job[p].todo \subseteq Kept(p)
        /\ IF job[p].pc = "eval" THEN job[p].dropped = {} ELSE job[p].dropped \subseteq Doubtful(job[p].matched)
        /\ job[p].pc \in {"funnel", "record", "ack"} => \A r \in Kept(p) : \E a \in alerts : a.rule = r /\ a.ev = job[p].ev

Shape == Types /\ \A p \in Workers : JobGood(p)

\* Every alert carries the key of its rule and its event.
AlertsKeyed == \A a \in alerts : a.id = AlertKey(a.rule, a.ev)

\* Event x is one that rule r has counted as member m of group g, not before t.
Stands(r, g, m, t, x) ==
    /\ x \in delivered /\ <<r, x>> \in Matching /\ GroupOf[r][x] = g
    /\ MemberOf(r, x) = m /\ t <= WindowTime(r, x)

\* Every entry of a window stands for an event that was delivered.
WindowsBacked ==
    \A r \in Rules, g \in Groups : \A m \in MembersOf(r) :
        zset[r][g][m] # 0 => \E x \in Events : Stands(r, g, m, zset[r][g][m], x)

\* Rule r counts events, and group g's burst came in together and can be counted.
Countable(r, g) == r \in Rules \ DistinctRules /\ Together(r, g)

\* A replica has event x behind it for rule r.
Evaluated(r, x) ==
    \/ x \in acked
    \/ \E p \in Workers : job[p].pc # "idle" /\ job[p].ev = x /\ (job[p].pc = "eval" => r \notin job[p].todo)

\* The entries are within half a window of the receipt, so none evicts another; what was
\* evaluated is in the window; a full window has fired.
BurstGood(r, g) ==
    /\ \A m \in Events : zset[r][g][m] # 0 =>
          m \in Burst(r, g) /\ ReceiptTime[m] - (Window[r] \div 2) <= zset[r][g][m]
                            /\ zset[r][g][m] <= ReceiptTime[m] + (Window[r] \div 2)
    /\ \A x \in Burst(r, g) : Evaluated(r, x) => zset[r][g][x] # 0
    /\ (\A x \in Burst(r, g) : zset[r][g][x] # 0) /\ Cardinality(Burst(r, g)) >= Threshold[r]
          => \E f \in fired : f.rule = r /\ f.ev \in Burst(r, g)

BurstsOK == \A r \in Rules, g \in Groups : Countable(r, g) => BurstGood(r, g)

DetInv == Shape /\ AlertsKeyed /\ SuppressionHasAlert /\ WindowsBacked /\ NeverFabricated /\ BurstsOK
-----------------------------------------------------------------------------
(* Times and windows.                                                      *)

LEMMA RuleIs ==
    ASSUME NEW r \in Rules
    PROVE  /\ Window[r] \in Nat /\ Threshold[r] \in Nat \ {0}
           /\ CompanionOf[r] # NoRule => CompanionOf[CompanionOf[r]] = NoRule
  BY ConstantsAssumption

LEMMA EventIs ==
    ASSUME NEW e \in Events
    PROVE  /\ EventTime[e] \in Nat \ {0} /\ ReceiptTime[e] \in Nat \ {0} /\ ValueOf[e] \in Values
           /\ \A r \in Rules : GroupOf[r][e] \in Groups \cup {NoGroup} /\ MemberOf(r, e) \in MembersOf(r)
  BY ConstantsAssumption DEF MemberOf, MembersOf

\* The clamp keeps the time of an event within half a window of its receipt.
LEMMA WindowTimeIs ==
    ASSUME NEW r \in Rules, NEW e \in Events
    PROVE  /\ WindowTime(r, e) \in Nat \ {0}
           /\ Stateful(r) => /\ ReceiptTime[e] - (Window[r] \div 2) <= WindowTime(r, e)
                             /\ WindowTime(r, e) <= ReceiptTime[e] + (Window[r] \div 2)
           /\ Stateful(r) /\ ~Refused(r, e) => WindowTime(r, e) <= ReceiptTime[e] + MaxClockSkew
  <1>1. PICK t \in Nat \ {0}, c \in Nat \ {0} : t = EventTime[e] /\ c = ReceiptTime[e]
    BY EventIs
  <1>2. PICK w \in Nat, h \in Nat, s \in Nat, k \in Nat : w = Window[r] /\ h = w \div 2 /\ s = Skew /\ k = MaxClockSkew
    <2>1. Window[r] \in Nat /\ Skew \in Nat /\ MaxClockSkew \in Nat
      BY ConstantsAssumption
    <2>2. \A n \in Nat : n \div 2 \in Nat
      OBVIOUS
    <2>3. QED
      BY <2>1, <2>2
  <1>3. WindowTime(r, e) \in {t, c}
    BY <1>1 DEF WindowTime
  <1>4. PICK l \in Nat : l = Lesser(s, h) /\ l <= h
    BY DEF Lesser
  <1>5. ASSUME Stateful(r) PROVE EffectiveSkew(r) = l
    BY <1>2, <1>4, <1>5 DEF EffectiveSkew, Stateful
  <1>6. ASSUME Stateful(r), ~(t - c <= l /\ c - t <= l) PROVE WindowTime(r, e) = c
    BY <1>1, <1>5, <1>6 DEF WindowTime, Abs
  <1>7. ~Refused(r, e) => ~(t - c <= l /\ t > c + k)
    BY <1>1, <1>2, <1>4 DEF Refused
  <1>8. QED
    BY <1>1, <1>2, <1>3, <1>4, <1>6, <1>7

LEMMA PlanTimeIs ==
    ASSUME clock \in Nat \ {0}, NEW r \in Rules, NEW e \in Events
    PROVE  /\ PlanTime(r, e) \in Nat \ {0} /\ PlanTime(r, e) <= WindowTime(r, e)
           /\ PlanTime(r, e) \in {WindowTime(r, e), clock}
  <1>1. PICK t \in Nat \ {0} : t = WindowTime(r, e)
    BY WindowTimeIs
  <1>2. QED
    BY <1>1 DEF PlanTime, Lesser

\* The window call of rule r for event e, and whether the rule matches.
Planned(r, e) == Stateful(r) /\ GroupOf[r][e] # NoGroup /\ Valid(r, e)

HitSet(r, e) ==
    IF r \in DistinctRules THEN ZHitDistinct(zset[r][GroupOf[r][e]], ValueOf[e], PlanTime(r, e), Window[r])
                           ELSE ZHit(zset[r][GroupOf[r][e]], e, PlanTime(r, e), Window[r])

Fires(r, e) == ~Stateful(r) \/ (Planned(r, e) /\ Matches(r, ZCard(HitSet(r, e))))

\* Both calls put the member in and evict only what is older than the window.
LEMMA ZHitIs ==
    ASSUME NEW M, NEW z \in [M -> Nat], NEW m \in M, NEW now \in Nat \ {0}, NEW w \in Nat, NEW y,
           y = ZHit(z, m, now, w) \/ y = ZHitDistinct(z, m, now, w)
    PROVE  /\ y \in [M -> Nat] /\ y[m] # 0 /\ y[m] \in {now, z[m]}
           /\ \A x \in M : y[x] # 0 => now - w <= y[x]
           /\ \A x \in M \ {m} : y[x] = IF z[x] < now - w THEN 0 ELSE z[x]
  <1>1. PICK v \in Nat : v \in {now, z[m]} /\ now <= v /\ y = ZTrim([z EXCEPT ![m] = v], now - w)
    <2>1. CASE y = ZHit(z, m, now, w)
      <3>1. now \in Nat /\ now <= now
        OBVIOUS
      <3>2. y = ZTrim([z EXCEPT ![m] = now], now - w)
        BY <2>1 DEF ZHit
      <3>3. QED
        BY <3>1, <3>2
    <2>2. CASE y = ZHitDistinct(z, m, now, w)
      <3>1. PICK v \in Nat : v = (IF now > z[m] THEN now ELSE z[m]) /\ v \in {now, z[m]} /\ now <= v
        OBVIOUS
      <3>2. y = ZTrim([z EXCEPT ![m] = v], now - w)
        BY <2>2, <3>1 DEF ZHitDistinct
      <3>3. QED
        BY <3>1, <3>2
    <2>3. QED
      BY <2>1, <2>2
  <1>2. PICK s : s = [z EXCEPT ![m] = v]
    OBVIOUS
  <1>3. s \in [M -> Nat] /\ s[m] = v /\ \A x \in M \ {m} : s[x] = z[x]
    BY <1>2
  <1>4. PICK h \in Int : h = now - w /\ ~(v < h)
    BY <1>1
  <1>5. y = [x \in M |-> IF s[x] < h THEN 0 ELSE s[x]]
    BY <1>1, <1>2, <1>3, <1>4 DEF ZTrim
  <1>6. y \in [M -> Nat] /\ \A x \in M : y[x] = IF s[x] < h THEN 0 ELSE s[x]
    BY <1>3, <1>5
  <1>7. v # 0
    BY <1>1
  <1>8. y[m] = v
    BY <1>3, <1>4, <1>6
  <1>9. \A x \in M : y[x] # 0 => h <= y[x]
    BY <1>3, <1>4, <1>6
  <1>10. \A x \in M \ {m} : y[x] = IF z[x] < h THEN 0 ELSE z[x]
    BY <1>3, <1>6
  <1>11. QED
    BY <1>1, <1>4, <1>6, <1>7, <1>8, <1>9, <1>10

LEMMA HitSetIs ==
    ASSUME Types, NEW r \in Rules, NEW e \in Events, Planned(r, e), NEW g \in Groups, g = GroupOf[r][e], NEW y, y = HitSet(r, e)
    PROVE  /\ y \in [MembersOf(r) -> Nat] /\ y[MemberOf(r, e)] # 0
           /\ y[MemberOf(r, e)] \in {PlanTime(r, e), zset[r][g][MemberOf(r, e)]}
           /\ \A x \in MembersOf(r) : y[x] # 0 => PlanTime(r, e) - Window[r] <= y[x]
           /\ \A x \in MembersOf(r) \ {MemberOf(r, e)} :
                 y[x] = IF zset[r][g][x] < PlanTime(r, e) - Window[r] THEN 0 ELSE zset[r][g][x]
  <1>m. PICK M : M = MembersOf(r)
    OBVIOUS
  <1>1. PICK m \in M, z \in [M -> Nat] : m = MemberOf(r, e) /\ z = zset[r][g]
    BY <1>m, EventIs DEF Types
  <1>2. PICK now \in Nat \ {0}, w \in Nat : now = PlanTime(r, e) /\ w = Window[r]
    BY PlanTimeIs, RuleIs DEF Types
  <1>3. y = ZHit(z, m, now, w) \/ y = ZHitDistinct(z, m, now, w)
    BY <1>1, <1>2 DEF HitSet, MemberOf
  <1>4. /\ y \in [M -> Nat] /\ y[m] # 0 /\ y[m] \in {now, z[m]}
        /\ \A x \in M : y[x] # 0 => now - w <= y[x]
        /\ \A x \in M \ {m} : y[x] = IF z[x] < now - w THEN 0 ELSE z[x]
    BY <1>3, ZHitIs
  <1>5. QED
    BY <1>m, <1>1, <1>2, <1>4
-----------------------------------------------------------------------------
(* What the steps do to a job.                                             *)

LEMMA JobIs ==
    ASSUME Types, NEW p \in Workers
    PROVE  /\ job[p] \in JobType /\ job[p].todo \subseteq Rules /\ job[p].matched \subseteq Rules
           /\ job[p].dropped \subseteq Rules
           /\ job[p].pc \in {"idle", "eval", "mine", "theirs", "funnel", "record", "ack"}
  BY DEF Types, JobType

LEMMA BusyIs ==
    ASSUME Shape, NEW p \in Workers, job[p].pc # "idle"
    PROVE  job[p].ev \in Events /\ job[p].ev \in topic /\ job[p].ev \in delivered /\ ReceiptTime[job[p].ev] <= clock
  BY DEF Shape, Types, JobGood

\* Replica p is the one that moves, to job j.
Moves(p, j) ==
    /\ j \in JobType /\ job' = [job EXCEPT ![p] = j]
    /\ job' \in [Workers -> JobType] /\ job'[p] = j /\ \A u \in Workers \ {p} : job'[u] = job[u]

LEMMA SetMoves ==
    ASSUME Types, NEW p \in Workers, NEW j \in JobType, job' = [job EXCEPT ![p] = j]
    PROVE  Moves(p, j)
  BY DEF Types, Moves

LEMMA IdleIs == Idle \in JobType /\ Idle.pc = "idle"
  BY DEF Idle, JobType

\* Rules still to evaluate, or the companions in doubt.
LEMMA EvaluatingIs ==
    ASSUME NEW rest \in SUBSET Rules, NEW matched \in SUBSET Rules
    PROVE  /\ Evaluating(rest, matched).pc \in {"eval", "mine"} /\ Evaluating(rest, matched).todo \in SUBSET Rules
           /\ rest # {} => Evaluating(rest, matched).pc = "eval" /\ Evaluating(rest, matched).todo = rest
           /\ rest = {} => Evaluating(rest, matched).pc = "mine" /\ Evaluating(rest, matched).todo = Doubtful(matched)
  BY DEF Evaluating, Doubtful

LEMMA TakeIs ==
    ASSUME Types, NEW p \in Workers, NEW e \in Events, Take(p, e)
    PROVE  \E j : /\ Moves(p, j) /\ j.ev = e /\ j.matched = {} /\ j.dropped = {} /\ job[p].pc = "idle"
                  /\ \/ j.pc = "eval" /\ j.todo = {r \in Rules : <<r, e>> \in Matching} /\ j.todo # {}
                     \/ j.pc = "mine" /\ j.todo = {} /\ \A r \in Rules : <<r, e>> \notin Matching
  <1>1. PICK rest \in SUBSET Rules : rest = {r \in Rules : <<r, e>> \in Matching}
    OBVIOUS
  <1>2. PICK pc, todo : pc = Evaluating(rest, {}).pc /\ todo = Evaluating(rest, {}).todo
    OBVIOUS
  <1>3. /\ pc \in {"eval", "mine"} /\ todo \in SUBSET Rules
        /\ rest # {} => pc = "eval" /\ todo = rest
        /\ rest = {} => pc = "mine" /\ todo = Doubtful({})
    BY <1>2, EvaluatingIs
  <1>4. PICK j : j = [Idle EXCEPT !.ev = e, !.pc = pc, !.todo = todo]
    OBVIOUS
  <1>5. j \in JobType /\ j.ev = e /\ j.pc = pc /\ j.todo = todo /\ j.matched = {} /\ j.dropped = {}
    <2>1. j = [pc |-> pc, ev |-> e, todo |-> todo, matched |-> {}, dropped |-> {}, mine |-> {}]
      BY <1>4 DEF Idle
    <2>2. QED
      BY <1>3, <2>1 DEF JobType
  <1>6. job' = [job EXCEPT ![p] = j] /\ job[p].pc = "idle"
    BY <1>1, <1>2, <1>4 DEF Take
  <1>7. Moves(p, j)
    BY <1>5, <1>6, SetMoves
  <1>8. Doubtful({}) = {}
    BY DEF Doubtful
  <1>9. QED
    BY <1>1, <1>3, <1>5, <1>6, <1>7, <1>8

\* evaluate: the rule, its window call, its verdict and what is left.
LEMMA EvaluateIs ==
    ASSUME Shape, NEW p \in Workers, Evaluate(p)
    PROVE  /\ job[p].pc = "eval"
           /\ \E r \in job[p].todo, j \in JobType :
                 /\ <<r, job[p].ev>> \in Matching /\ Moves(p, j) /\ j.ev = job[p].ev /\ j.dropped = {}
                 /\ j.matched = IF Fires(r, job[p].ev) THEN job[p].matched \cup {r} ELSE job[p].matched
                 /\ \/ j.pc = "eval" /\ j.todo = job[p].todo \ {r} /\ j.todo # {}
                    \/ j.pc = "mine" /\ j.todo = Doubtful(j.matched) /\ job[p].todo = {r}
                 /\ IF Planned(r, job[p].ev)
                    THEN zset' = [zset EXCEPT ![r][GroupOf[r][job[p].ev]] = HitSet(r, job[p].ev)]
                    ELSE UNCHANGED zset
                 /\ fired' = IF Fires(r, job[p].ev)
                             THEN fired \cup {[rule |-> r, ev |-> job[p].ev, now |-> PlanTime(r, job[p].ev)]} ELSE fired
  <1>1. Types /\ JobGood(p) /\ job[p].pc = "eval"
    BY DEF Shape, Evaluate
  <1>2. job[p].todo # {} /\ job[p].dropped = {} /\ job[p] \in JobType /\ job[p].todo \subseteq Rules /\ job[p].matched \subseteq Rules
    BY <1>1, JobIs DEF JobGood
  <1>3. PICK r \in job[p].todo : r = CHOOSE x \in job[p].todo : TRUE
    BY <1>2
  <1>4. PICK e : e = job[p].ev
    OBVIOUS
  <1>5. PICK matched \in SUBSET Rules : matched = IF Fires(r, e) THEN job[p].matched \cup {r} ELSE job[p].matched
    BY <1>2
  <1>6. PICK pc, todo : pc = Evaluating(job[p].todo \ {r}, matched).pc /\ todo = Evaluating(job[p].todo \ {r}, matched).todo
    OBVIOUS
  <1>7. /\ pc \in {"eval", "mine"} /\ todo \in SUBSET Rules
        /\ job[p].todo \ {r} # {} => pc = "eval" /\ todo = job[p].todo \ {r}
        /\ job[p].todo \ {r} = {} => pc = "mine" /\ todo = Doubtful(matched)
    <2>1. PICK rest \in SUBSET Rules : rest = job[p].todo \ {r}
      BY <1>2
    <2>2. pc = Evaluating(rest, matched).pc /\ todo = Evaluating(rest, matched).todo
      BY <1>6, <2>1
    <2>3. QED
      BY <2>1, <2>2, EvaluatingIs
  <1>8. PICK j : j = [job[p] EXCEPT !.matched = matched, !.pc = pc, !.todo = todo]
    OBVIOUS
  <1>9. j \in JobType /\ j.ev = e /\ j.dropped = {} /\ j.matched = matched /\ j.pc = pc /\ j.todo = todo
    BY <1>2, <1>4, <1>7, <1>8 DEF JobType
  <1>10. job' = [job EXCEPT ![p].matched = matched, ![p].pc = pc, ![p].todo = todo]
    BY <1>3, <1>4, <1>5, <1>6 DEF Evaluate, Fires, Planned, HitSet
  <1>11. job' = [job EXCEPT ![p] = j]
    BY <1>1, <1>8, <1>10 DEF Types
  <1>12. Moves(p, j)
    BY <1>1, <1>9, <1>11, SetMoves
  <1>13. <<r, e>> \in Matching
    BY <1>1, <1>4 DEF JobGood
  <1>14. /\ IF Planned(r, e) THEN zset' = [zset EXCEPT ![r][GroupOf[r][e]] = HitSet(r, e)] ELSE UNCHANGED zset
         /\ fired' = IF Fires(r, e) THEN fired \cup {[rule |-> r, ev |-> e, now |-> PlanTime(r, e)]} ELSE fired
    BY <1>3, <1>4 DEF Evaluate, Fires, Planned, HitSet
  <1>15. QED
    BY <1>1, <1>4, <1>5, <1>7, <1>9, <1>12, <1>13, <1>14

LEMMA ReadMineIs ==
    ASSUME Shape, NEW p \in Workers, ReadMine(p)
    PROVE  /\ job[p].pc = "mine" /\ job[p].todo # {}
           /\ \E j : /\ Moves(p, j) /\ j.pc = "theirs" /\ j.ev = job[p].ev /\ j.todo = job[p].todo
                     /\ j.matched = job[p].matched /\ j.dropped = job[p].dropped
  <1>1. Types /\ job[p].pc = "mine" /\ job[p].todo # {} /\ job[p] \in JobType
    BY JobIs DEF Shape, ReadMine
  <1>2. job[p].ev \in Events
    BY <1>1, BusyIs
  <1>3. PICK r \in job[p].todo : r = CHOOSE x \in job[p].todo : TRUE
    BY <1>1
  <1>4. PICK mine : mine = IF Stateful(r) THEN Evidence(r, job[p].ev) ELSE {job[p].ev}
    OBVIOUS
  <1>5. mine \in SUBSET (Events \cup Values)
    BY <1>2, <1>4 DEF Evidence, MembersOf
  <1>6. PICK j : j = [job[p] EXCEPT !.pc = "theirs", !.mine = mine]
    OBVIOUS
  <1>7. /\ j \in JobType /\ j.pc = "theirs" /\ j.ev = job[p].ev /\ j.todo = job[p].todo
        /\ j.matched = job[p].matched /\ j.dropped = job[p].dropped
    BY <1>1, <1>5, <1>6 DEF JobType
  <1>8. job' = [job EXCEPT ![p].pc = "theirs", ![p].mine = mine]
    BY <1>3, <1>4 DEF ReadMine
  <1>9. job' = [job EXCEPT ![p] = j]
    BY <1>1, <1>6, <1>8 DEF Types
  <1>10. QED
    BY <1>1, <1>7, <1>9, SetMoves

LEMMA ReadTheirsIs ==
    ASSUME Shape, NEW p \in Workers, ReadTheirs(p)
    PROVE  /\ job[p].pc = "theirs"
           /\ \E r \in job[p].todo, j \in JobType :
                 /\ Moves(p, j) /\ j.pc = "mine" /\ j.ev = job[p].ev /\ j.todo = job[p].todo \ {r}
                 /\ j.matched = job[p].matched /\ j.dropped \subseteq job[p].dropped \cup {r}
  <1>1. Types /\ job[p].pc = "theirs" /\ job[p].todo # {} /\ job[p] \in JobType /\ job[p].todo \subseteq Rules
    BY JobIs DEF Shape, ReadTheirs, JobGood
  <1>2. PICK r \in job[p].todo : r = CHOOSE x \in job[p].todo : TRUE
    BY <1>1
  <1>3. PICK out \in SUBSET {r} :
          job' = [job EXCEPT ![p].pc = "mine", ![p].mine = {}, ![p].todo = @ \ {r}, ![p].dropped = @ \cup out]
    BY <1>2 DEF ReadTheirs
  <1>4. PICK j : j = [job[p] EXCEPT !.pc = "mine", !.mine = {}, !.todo = job[p].todo \ {r}, !.dropped = job[p].dropped \cup out]
    OBVIOUS
  <1>5. /\ j \in JobType /\ j.pc = "mine" /\ j.ev = job[p].ev /\ j.todo = job[p].todo \ {r}
        /\ j.matched = job[p].matched /\ j.dropped = job[p].dropped \cup out
    BY <1>1, <1>4 DEF JobType
  <1>6. job' = [job EXCEPT ![p] = j]
    BY <1>1, <1>3, <1>4 DEF Types
  <1>7. Moves(p, j)
    BY <1>1, <1>5, <1>6, SetMoves
  <1>8. QED
    BY <1>1, <1>5, <1>7

LEMMA GotoIs ==
    ASSUME Types, NEW p \in Workers, NEW to \in {"funnel", "ack"}, Goto(p, to)
    PROVE  \E j : /\ Moves(p, j) /\ j.pc = to /\ j.ev = job[p].ev /\ j.todo = job[p].todo
                  /\ j.matched = job[p].matched /\ j.dropped = job[p].dropped
  <1>1. PICK j : j = [job[p] EXCEPT !.pc = to]
    OBVIOUS
  <1>2. /\ j \in JobType /\ j.pc = to /\ j.ev = job[p].ev /\ j.todo = job[p].todo
        /\ j.matched = job[p].matched /\ j.dropped = job[p].dropped
    BY <1>1, JobIs DEF JobType
  <1>3. job' = [job EXCEPT ![p] = j]
    BY <1>1 DEF Goto, Types
  <1>4. QED
    BY <1>2, <1>3, SetMoves

\* _record_funnel: what is left to record, from Enqueue on.
LEMMA RecordingIs ==
    ASSUME Types, NEW p \in Workers, NEW rest \in SUBSET Rules,
           job' = [job EXCEPT ![p].pc = Recording(rest).pc, ![p].todo = rest]
    PROVE  \E j : /\ Moves(p, j) /\ j.pc \in {"record", "ack"} /\ (j.pc = "record" => rest # {}) /\ j.ev = job[p].ev
                  /\ j.todo = rest /\ j.matched = job[p].matched /\ j.dropped = job[p].dropped
  <1>1. PICK to \in {"record", "ack"} : to = Recording(rest).pc /\ (to = "record" => rest # {})
    BY DEF Recording
  <1>2. PICK j : j = [job[p] EXCEPT !.pc = to, !.todo = rest]
    OBVIOUS
  <1>3. /\ j \in JobType /\ j.pc = to /\ j.ev = job[p].ev /\ j.todo = rest
        /\ j.matched = job[p].matched /\ j.dropped = job[p].dropped
    BY <1>2, JobIs DEF JobType
  <1>4. job' = [job EXCEPT ![p] = j]
    BY <1>1, <1>2 DEF Types
  <1>5. QED
    BY <1>1, <1>3, <1>4, SetMoves

\* Enqueue and Record: the job's event and verdict stay, and what is left is among the rules kept.
LEMMA RecordsIs ==
    ASSUME Shape, NEW p \in Workers, Enqueue(p) \/ Record(p)
    PROVE  /\ job[p].pc \in {"funnel", "record"} /\ UNCHANGED acked
           /\ \E j : /\ Moves(p, j) /\ j.pc \in {"record", "ack"} /\ (j.pc = "record" => j.todo # {}) /\ j.ev = job[p].ev
                     /\ j.todo \subseteq Kept(p) /\ j.matched = job[p].matched /\ j.dropped = job[p].dropped
  <1>1. Types /\ Kept(p) \subseteq Rules /\ job[p].pc \in {"funnel", "record"} /\ UNCHANGED acked
    BY JobIs DEF Shape, Kept, Enqueue, Record
  <1>2. PICK rest \in SUBSET Rules : rest \subseteq Kept(p) /\ job' = [job EXCEPT ![p].pc = Recording(rest).pc, ![p].todo = rest]
    <2>1. CASE Enqueue(p)
      BY <1>1, <2>1 DEF Enqueue
    <2>2. CASE Record(p)
      <3>1. job[p].todo \subseteq Kept(p)
        BY <2>2 DEF Shape, JobGood, Record
      <3>2. PICK rest \in SUBSET job[p].todo : job' = [job EXCEPT ![p].pc = Recording(rest).pc, ![p].todo = rest]
        BY <2>2 DEF Record
      <3>3. QED
        BY <1>1, <3>1, <3>2
    <2>3. QED
      BY <2>1, <2>2
  <1>3. PICK j : /\ Moves(p, j) /\ j.pc \in {"record", "ack"} /\ (j.pc = "record" => rest # {}) /\ j.ev = job[p].ev
                 /\ j.todo = rest /\ j.matched = job[p].matched /\ j.dropped = job[p].dropped
    BY <1>1, <1>2, RecordingIs
  <1>4. QED
    BY <1>1, <1>2, <1>3

\* The steps that end a delivery, acked or not.
Ends(p) == (\E sent \in SUBSET Rules : EmitRaises(p, sent)) \/ (\E sent \in BOOLEAN : EnqueueRaises(p, sent))
           \/ Ack(p) \/ Raise(p) \/ Crash(p)

LEMMA EndsIs ==
    ASSUME Types, NEW p \in Workers, Ends(p)
    PROVE  Moves(p, Idle)
  <1>1. job' = [job EXCEPT ![p] = Idle]
    BY DEF Ends, EmitRaises, EnqueueRaises, Ack, Raise, Crash
  <1>2. QED
    BY <1>1, IdleIs, SetMoves

Worker(p) ==
    \/ \E e \in topic : Take(p, e)
    \/ Evaluate(p) \/ ReadMine(p) \/ ReadTheirs(p) \/ Emit(p) \/ Enqueue(p) \/ Record(p) \/ SkipEnqueue(p) \/ Ends(p)

LEMMA NextIs ==
    ASSUME Types, [Next]_vars
    PROVE  /\ UNCHANGED <<up, topic>>
           /\ Tick \/ UNCHANGED vars \/ \E p \in Workers : Worker(p)
  BY DEF Types, Next, Worker, Ends, vars

\* What only grows.
LEMMA Grows ==
    ASSUME Types, [Next]_vars
    PROVE  /\ delivered \subseteq delivered' /\ alerts \subseteq alerts' /\ fired \subseteq fired'
           /\ lapsed \subseteq lapsed' /\ clock' \in Nat \ {0} /\ clock <= clock'
  <1>1. CASE Tick
    BY <1>1 DEF Tick, Types, delivery, bus
  <1>2. CASE UNCHANGED vars
    BY <1>2 DEF vars, Types
  <1>3. ASSUME NEW p \in Workers, Worker(p)
        PROVE  /\ delivered \subseteq delivered' /\ alerts \subseteq alerts' /\ fired \subseteq fired'
               /\ UNCHANGED <<lapsed, clock>>
    BY <1>3 DEF Worker, Ends, Take, Evaluate, ReadMine, ReadTheirs, Emit, Enqueue, Record, SkipEnqueue, EmitRaises, EnqueueRaises,
                Ack, Raise, Crash, delivery, bus, redisVars
  <1>4. QED
    BY <1>1, <1>2, <1>3, NextIs DEF Types

\* The windows change with an evaluation and with the clock only.
LEMMA WindowsChange ==
    ASSUME Types, [Next]_vars
    PROVE  UNCHANGED zset \/ Tick \/ \E p \in Workers : Evaluate(p)
  <1>1. ASSUME NEW p \in Workers, Worker(p), ~Evaluate(p) PROVE UNCHANGED zset
    BY <1>1 DEF Worker, Ends, Take, ReadMine, ReadTheirs, Emit, Enqueue, Record, SkipEnqueue, EmitRaises, EnqueueRaises,
                Ack, Raise, Crash, redisVars
  <1>2. QED
    BY <1>1, NextIs DEF vars
-----------------------------------------------------------------------------
(* Types.                                                                  *)

\* The window of rule r for group g is set to y, and no other changes.
WindowSet(r, g, y) ==
    /\ zset' \in [Rules -> [Groups -> ZType]] /\ zset'[r][g] = y
    /\ \A s \in Rules, h \in Groups : s # r \/ h # g => zset'[s][h] = zset[s][h]
    /\ \A s \in Rules, h \in Groups : zset'[s][h] \in [MembersOf(s) -> Nat]

LEMMA SetWindow ==
    ASSUME Types, NEW r \in Rules, NEW g \in Groups, NEW y \in [MembersOf(r) -> Nat], zset' = [zset EXCEPT ![r][g] = y]
    PROVE  WindowSet(r, g, y)
  <1>1. y \in ZType /\ zset \in [Rules -> [Groups -> ZType]]
    BY DEF ZType, Types
  <1>2. zset' \in [Rules -> [Groups -> ZType]] /\ zset'[r][g] = y
    BY <1>1
  <1>3. \A s \in Rules, h \in Groups : s # r \/ h # g => zset'[s][h] = zset[s][h]
    BY <1>1
  <1>4. QED
    BY <1>2, <1>3 DEF Types, WindowSet

\* A key that Redis drops is remembered as lapsed.
LEMMA TickSets ==
    ASSUME Types, Tick
    PROVE  /\ zset' \in [Rules -> [Groups -> ZType]]
           /\ \A r \in Rules, g \in Groups : zset'[r][g] \in [MembersOf(r) -> Nat]
           /\ \A r \in Rules, g \in Groups : zset'[r][g] \in {EmptySet(r), zset[r][g]}
           /\ \A r \in Rules, g \in Groups : <<r, g>> \notin lapsed' => zset'[r][g] = zset[r][g]
  <1>1. PICK over : /\ zset' = [r \in Rules |-> [g \in Groups |-> IF <<r, g>> \in over THEN EmptySet(r) ELSE zset[r][g]]]
                    /\ lapsed' = lapsed \cup over
    BY DEF Tick
  <1>2. \A r \in Rules : EmptySet(r) \in [MembersOf(r) -> Nat]
    BY DEF EmptySet
  <1>3. \A r \in Rules, g \in Groups : zset'[r][g] = IF <<r, g>> \in over THEN EmptySet(r) ELSE zset[r][g]
    BY <1>1
  <1>a. \A r \in Rules, g \in Groups : zset'[r][g] \in [MembersOf(r) -> Nat]
    BY <1>2, <1>3 DEF Types
  <1>b. \A r \in Rules : [MembersOf(r) -> Nat] \subseteq ZType
    BY DEF ZType
  <1>4. \A r \in Rules, g \in Groups : zset'[r][g] \in [MembersOf(r) -> Nat] /\ zset'[r][g] \in ZType
    BY <1>a, <1>b
  <1>5. \A r \in Rules : zset'[r] = [g \in Groups |-> zset'[r][g]]
    BY <1>1, <1>3, Zenon
  <1>6. \A r \in Rules : zset'[r] \in [Groups -> ZType]
    BY <1>4, <1>5
  <1>7. zset' = [r \in Rules |-> zset'[r]]
    BY <1>1
  <1>8. zset' \in [Rules -> [Groups -> ZType]]
    BY <1>6, <1>7
  <1>9. QED
    BY <1>1, <1>3, <1>4, <1>8

\* The window call of an evaluation, with the values it works on named.
LEMMA HitIs ==
    ASSUME Shape, NEW e \in Events, NEW r \in Rules,
           IF Planned(r, e) THEN zset' = [zset EXCEPT ![r][GroupOf[r][e]] = HitSet(r, e)] ELSE UNCHANGED zset
    PROVE  \/ UNCHANGED zset /\ ~Planned(r, e)
           \/ /\ Planned(r, e)
              /\ \E g \in Groups : \E y \in [MembersOf(r) -> Nat] :
                    g = GroupOf[r][e] /\ y = HitSet(r, e) /\ WindowSet(r, g, y)
  <1>1. CASE ~Planned(r, e)
    BY <1>1
  <1>2. CASE Planned(r, e)
    <2>1. PICK g \in Groups : g = GroupOf[r][e]
      BY <1>2, EventIs DEF Planned
    <2>2. PICK y : y = HitSet(r, e)
      OBVIOUS
    <2>3. y \in [MembersOf(r) -> Nat]
      BY <1>2, <2>1, <2>2, HitSetIs DEF Shape
    <2>4. WindowSet(r, g, y)
      BY <1>2, <2>1, <2>2, <2>3, SetWindow DEF Shape
    <2>5. QED
      BY <1>2, <2>1, <2>2, <2>3, <2>4
  <1>3. QED
    BY <1>1, <1>2

LEMMA ZsetStep ==
    ASSUME Shape, [Next]_vars
    PROVE  zset' \in [Rules -> [Groups -> ZType]] /\ \A r \in Rules, g \in Groups : zset'[r][g] \in [MembersOf(r) -> Nat]
  <1>0. Types
    BY DEF Shape
  <1>1. CASE UNCHANGED zset
    BY <1>0, <1>1 DEF Types
  <1>2. CASE Tick
    BY <1>0, <1>2, TickSets
  <1>3. ASSUME NEW p \in Workers, Evaluate(p)
        PROVE  zset' \in [Rules -> [Groups -> ZType]] /\ \A r \in Rules, g \in Groups : zset'[r][g] \in [MembersOf(r) -> Nat]
    <2>1. job[p].pc = "eval"
      BY <1>3, EvaluateIs
    <2>2. PICK e \in Events : e = job[p].ev
      BY <2>1, BusyIs
    <2>3. PICK r \in job[p].todo : IF Planned(r, e) THEN zset' = [zset EXCEPT ![r][GroupOf[r][e]] = HitSet(r, e)] ELSE UNCHANGED zset
      BY <1>3, <2>2, EvaluateIs
    <2>4. r \in Rules
      BY <1>0, JobIs
    <2>5. CASE UNCHANGED zset
      BY <1>0, <2>5 DEF Types
    <2>6. ASSUME NEW g \in Groups, NEW y \in [MembersOf(r) -> Nat], WindowSet(r, g, y)
          PROVE  zset' \in [Rules -> [Groups -> ZType]] /\ \A s \in Rules, h \in Groups : zset'[s][h] \in [MembersOf(s) -> Nat]
      BY <2>6 DEF WindowSet
    <2>7. QED
      BY <2>3, <2>4, <2>5, <2>6, HitIs
  <1>4. QED
    BY <1>0, <1>1, <1>2, <1>3, WindowsChange

\* Every step of a replica moves its job and no other's.
LEMMA WorkerMoves ==
    ASSUME Shape, NEW p \in Workers, Worker(p)
    PROVE  \E j : Moves(p, j)
  <1>0. Types
    BY DEF Shape
  <1>1. ASSUME NEW e \in topic, Take(p, e) PROVE \E j : Moves(p, j)
    BY <1>0, <1>1, TakeIs DEF Types
  <1>2. CASE Evaluate(p)
    BY <1>2, EvaluateIs
  <1>3. CASE ReadMine(p)
    BY <1>3, ReadMineIs
  <1>4. CASE ReadTheirs(p)
    BY <1>4, ReadTheirsIs
  <1>5. CASE Emit(p) \/ SkipEnqueue(p)
    <2>1. PICK to \in {"funnel", "ack"} : Goto(p, to)
      BY <1>5 DEF Emit, SkipEnqueue
    <2>2. QED
      BY <1>0, <2>1, GotoIs
  <1>6. CASE Enqueue(p) \/ Record(p)
    BY <1>6, RecordsIs
  <1>7. CASE Ends(p)
    BY <1>0, <1>7, EndsIs
  <1>8. QED
    BY <1>1, <1>2, <1>3, <1>4, <1>5, <1>6, <1>7 DEF Worker

\* What a rule's evaluation adds to the matches.
LEMMA FiredAdded ==
    ASSUME Shape, [Next]_vars
    PROVE  \/ UNCHANGED fired
           \/ \E r \in Rules, e \in Events :
                 /\ e \in delivered /\ <<r, e>> \in Matching /\ Fires(r, e)
                 /\ fired' = fired \cup {[rule |-> r, ev |-> e, now |-> PlanTime(r, e)]}
  <1>1. ASSUME NEW p \in Workers, Worker(p), ~Evaluate(p) PROVE UNCHANGED fired
    BY <1>1 DEF Worker, Ends, Take, ReadMine, ReadTheirs, Emit, Enqueue, Record, SkipEnqueue, EmitRaises, EnqueueRaises,
                Ack, Raise, Crash
  <1>2. ASSUME NEW p \in Workers, Evaluate(p), ~UNCHANGED fired
        PROVE  \E r \in Rules, e \in Events :
                  /\ e \in delivered /\ <<r, e>> \in Matching /\ Fires(r, e)
                  /\ fired' = fired \cup {[rule |-> r, ev |-> e, now |-> PlanTime(r, e)]}
    <2>1. job[p].pc = "eval"
      BY <1>2, EvaluateIs
    <2>2. PICK e \in Events : e = job[p].ev /\ e \in delivered
      BY <2>1, BusyIs
    <2>3. PICK r \in job[p].todo : /\ <<r, e>> \in Matching
                                   /\ fired' = IF Fires(r, e) THEN fired \cup {[rule |-> r, ev |-> e, now |-> PlanTime(r, e)]} ELSE fired
      BY <1>2, <2>2, EvaluateIs
    <2>4. r \in Rules /\ Fires(r, e)
      BY <1>2, <2>3, JobIs DEF Shape
    <2>5. QED
      BY <2>2, <2>3, <2>4
  <1>3. QED
    BY <1>1, <1>2, NextIs DEF Tick, vars, Shape

LEMMA TypesStep ==
    ASSUME Shape, [Next]_vars
    PROVE  Types'
  <1>0. Types
    BY DEF Shape
  <1>1. up' \subseteq Workers /\ topic' \subseteq Events /\ clock' \in Nat \ {0} /\ \A f \in fired' : f.rule \in Rules
    <2>1. \A f \in fired' : f.rule \in Rules
      <3>1. UNCHANGED fired \/ \E r \in Rules : \E e, now : fired' = fired \cup {[rule |-> r, ev |-> e, now |-> now]}
        BY FiredAdded
      <3>2. QED
        BY <1>0, <3>1 DEF Types
    <2>2. QED
      BY <1>0, <2>1, NextIs, Grows DEF Types
  <1>2. zset' \in [Rules -> [Groups -> ZType]] /\ \A r \in Rules, g \in Groups : zset'[r][g] \in [MembersOf(r) -> Nat]
    BY ZsetStep
  <1>3. CASE Tick
    <2>1. UNCHANGED <<job, verdict, delivered>>
      BY <1>3 DEF Tick, delivery
    <2>2. QED
      BY <1>0, <1>1, <1>2, <2>1 DEF Types
  <1>4. CASE UNCHANGED vars
    BY <1>0, <1>1, <1>2, <1>4 DEF Types, vars
  <1>5. ASSUME NEW p \in Workers, Worker(p) PROVE Types'
    <2>1. job' \in [Workers -> JobType]
      BY <1>5, WorkerMoves DEF Moves
    <2>a. (\E e \in topic : delivered' = delivered \cup {e}) \/ UNCHANGED delivered
      BY <1>5 DEF Worker, Ends, Take, Evaluate, ReadMine, ReadTheirs, Emit, Enqueue, Record, SkipEnqueue, EmitRaises,
           EnqueueRaises, Ack, Raise, Crash, delivery
    <2>2. delivered' \subseteq Events
      BY <1>0, <2>a DEF Types
    <2>3. ASSUME ~Ack(p) PROVE UNCHANGED verdict
      BY <1>5, <2>3 DEF Worker, Ends, Take, Evaluate, ReadMine, ReadTheirs, Emit, Enqueue, Record, SkipEnqueue, EmitRaises,
           EnqueueRaises, Raise, Crash
    <2>4. CASE Ack(p)
      <3>1. PICK v : v = [matched |-> Kept(p), dropped |-> job[p].dropped]
        OBVIOUS
      <3>2. v \in [matched : SUBSET Rules, dropped : SUBSET Rules]
        BY <1>0, <3>1, JobIs DEF Kept
      <3>3. verdict' = [verdict EXCEPT ![job[p].ev] = v]
        BY <2>4, <3>1 DEF Ack
      <3>4. verdict' \in [Events -> [matched : SUBSET Rules, dropped : SUBSET Rules]]
        BY <1>0, <3>2, <3>3 DEF Types
      <3>5. QED
        BY <1>1, <1>2, <2>1, <2>2, <3>4 DEF Types
    <2>5. QED
      BY <1>0, <1>1, <1>2, <2>1, <2>2, <2>3, <2>4 DEF Types
  <1>6. QED
    BY <1>0, <1>3, <1>4, <1>5, NextIs
-----------------------------------------------------------------------------
(* Jobs.                                                                   *)

\* What replica p's job has to be after a step, in terms of that job.
LEMMA JobFits ==
    ASSUME NEW p \in Workers, NEW j, Moves(p, j), UNCHANGED topic,
           j.pc # "idle" =>
               /\ j.ev \in topic /\ j.ev \in delivered' /\ ReceiptTime[j.ev] <= clock'
               /\ j.pc \in {"eval", "theirs", "record"} => j.todo # {}
               /\ j.pc = "eval" => \A r \in j.todo : <<r, j.ev>> \in Matching
               /\ j.pc \in {"mine", "theirs"} => j.todo \subseteq Doubtful(j.matched)
               /\ j.pc = "record" => j.todo \subseteq j.matched \ j.dropped
               /\ IF j.pc = "eval" THEN j.dropped = {} ELSE j.dropped \subseteq Doubtful(j.matched)
               /\ j.pc \in {"funnel", "record", "ack"} =>
                     \A r \in j.matched \ j.dropped : \E a \in alerts' : a.rule = r /\ a.ev = j.ev
    PROVE  JobGood(p)'
  <1>1. job'[p] = j
    BY DEF Moves
  <1>2. QED
    BY <1>1 DEF JobGood, Kept, Doubtful

\* A job that did not move is as good as it was.
LEMMA JobStays ==
    ASSUME Shape, [Next]_vars, NEW u \in Workers, job'[u] = job[u]
    PROVE  JobGood(u)'
  <1>1. Types /\ JobGood(u) /\ UNCHANGED topic
    BY NextIs DEF Shape
  <1>2. delivered \subseteq delivered' /\ alerts \subseteq alerts'
    BY <1>1, Grows
  <1>3. ASSUME job[u].pc # "idle" PROVE ReceiptTime[job[u].ev] <= clock'
    <2>1. PICK e \in Events : e = job[u].ev /\ ReceiptTime[e] <= clock
      BY <1>3, BusyIs
    <2>2. ReceiptTime[e] \in Nat /\ clock \in Nat /\ clock' \in Nat /\ clock <= clock'
      BY <1>1, EventIs, Grows DEF Types
    <2>3. QED
      BY <2>1, <2>2
  <1>4. QED
    BY <1>1, <1>2, <1>3 DEF JobGood, Kept, Doubtful

\* Alerts of every rule kept are on the bus once the replica has emitted.
LEMMA EmitSends ==
    ASSUME NEW p \in Workers, Emit(p)
    PROVE  /\ job[p].pc = "mine" /\ job[p].todo = {} /\ Goto(p, "funnel")
           /\ \A r \in Kept(p) : \E a \in alerts' : a.rule = r /\ a.ev = job[p].ev
  <1>1. PICK e : e = job[p].ev
    OBVIOUS
  <1>2. job[p].pc = "mine" /\ job[p].todo = {} /\ Goto(p, "funnel") /\ \A r \in Kept(p) : Alert(r, e) \in alerts'
    BY <1>1 DEF Emit
  <1>3. \A r \in Kept(p) : Alert(r, e).rule = r /\ Alert(r, e).ev = e
    BY DEF Alert
  <1>4. QED
    BY <1>1, <1>2, <1>3

LEMMA MoverGood ==
    ASSUME Shape, [Next]_vars, NEW p \in Workers, Worker(p)
    PROVE  JobGood(p)'
  <1>1. Types /\ JobGood(p) /\ UNCHANGED topic
    BY NextIs DEF Shape
  <1>2. delivered \subseteq delivered' /\ alerts \subseteq alerts' /\ clock' = clock
    <2>1. UNCHANGED clock
      BY DEF Worker, Ends, Take, Evaluate, ReadMine, ReadTheirs, Emit, Enqueue, Record, SkipEnqueue, EmitRaises, EnqueueRaises,
             Ack, Raise, Crash
    <2>2. QED
      BY <1>1, <2>1, Grows
  <1>3. ASSUME job[p].pc # "idle"
        PROVE  job[p].ev \in topic /\ job[p].ev \in delivered' /\ ReceiptTime[job[p].ev] <= clock'
    BY <1>2, <1>3, BusyIs
  <1>4. ASSUME NEW e \in topic, Take(p, e) PROVE JobGood(p)'
    <2>1. e \in Events /\ e \in delivered' /\ ReceiptTime[e] <= clock'
      BY <1>1, <1>2, <1>4, EventIs DEF Types, Take
    <2>2. PICK j : /\ Moves(p, j) /\ j.ev = e /\ j.matched = {} /\ j.dropped = {}
                   /\ \/ j.pc = "eval" /\ j.todo = {r \in Rules : <<r, e>> \in Matching} /\ j.todo # {}
                      \/ j.pc = "mine" /\ j.todo = {}
      BY <1>1, <1>4, <2>1, TakeIs
    <2>3. QED
      BY <1>1, <2>1, <2>2, JobFits
  <1>5. CASE Evaluate(p)
    <2>1. PICK r \in job[p].todo, j \in JobType :
              /\ Moves(p, j) /\ j.ev = job[p].ev /\ j.dropped = {}
              /\ \/ j.pc = "eval" /\ j.todo = job[p].todo \ {r} /\ j.todo # {}
                 \/ j.pc = "mine" /\ j.todo = Doubtful(j.matched)
      BY <1>5, EvaluateIs
    <2>2. job[p].pc = "eval" /\ \A x \in job[p].todo : <<x, job[p].ev>> \in Matching
      BY <1>1, <1>5, EvaluateIs DEF JobGood
    <2>3. j.pc = "eval" => \A x \in j.todo : <<x, j.ev>> \in Matching
      BY <2>1, <2>2
    <2>4. QED
      BY <1>1, <1>3, <2>1, <2>2, <2>3, JobFits
  <1>6. CASE ReadMine(p)
    <2>1. PICK j : /\ Moves(p, j) /\ j.pc = "theirs" /\ j.ev = job[p].ev /\ j.todo = job[p].todo
                   /\ j.matched = job[p].matched /\ j.dropped = job[p].dropped
      BY <1>6, ReadMineIs
    <2>2. job[p].pc = "mine" /\ job[p].todo # {}
      BY <1>6, ReadMineIs
    <2>3. job[p].todo \subseteq Doubtful(job[p].matched) /\ job[p].dropped \subseteq Doubtful(job[p].matched)
      BY <1>1, <2>2 DEF JobGood
    <2>4. QED
      BY <1>1, <1>3, <2>1, <2>2, <2>3, JobFits
  <1>7. CASE ReadTheirs(p)
    <2>1. job[p].pc = "theirs"
      BY <1>7, ReadTheirsIs
    <2>2. PICK r \in job[p].todo, j \in JobType :
              /\ Moves(p, j) /\ j.pc = "mine" /\ j.ev = job[p].ev /\ j.todo = job[p].todo \ {r}
              /\ j.matched = job[p].matched /\ j.dropped \subseteq job[p].dropped \cup {r}
      BY <1>7, ReadTheirsIs
    <2>3. job[p].todo \subseteq Doubtful(job[p].matched) /\ job[p].dropped \subseteq Doubtful(job[p].matched)
      BY <1>1, <2>1 DEF JobGood
    <2>4. QED
      BY <1>1, <1>3, <2>1, <2>2, <2>3, JobFits
  <1>8. CASE Emit(p)
    <2>1. job[p].pc = "mine" /\ job[p].todo = {} /\ Goto(p, "funnel")
      BY <1>8, EmitSends
    <2>2. PICK j : /\ Moves(p, j) /\ j.pc = "funnel" /\ j.ev = job[p].ev /\ j.todo = job[p].todo
                   /\ j.matched = job[p].matched /\ j.dropped = job[p].dropped
      BY <1>1, <2>1, GotoIs
    <2>3. \A r \in j.matched \ j.dropped : \E a \in alerts' : a.rule = r /\ a.ev = j.ev
      BY <1>8, <2>2, EmitSends DEF Kept
    <2>4. job[p].dropped \subseteq Doubtful(job[p].matched)
      BY <1>1, <2>1 DEF JobGood
    <2>5. QED
      BY <1>1, <1>3, <2>1, <2>2, <2>3, <2>4, JobFits
  <1>9. CASE SkipEnqueue(p)
    <2>1. job[p].pc = "funnel" /\ Goto(p, "ack")
      BY <1>9 DEF SkipEnqueue
    <2>2. PICK j : /\ Moves(p, j) /\ j.pc = "ack" /\ j.ev = job[p].ev
                   /\ j.matched = job[p].matched /\ j.dropped = job[p].dropped
      BY <1>1, <2>1, GotoIs
    <2>3. \A r \in j.matched \ j.dropped : \E a \in alerts' : a.rule = r /\ a.ev = j.ev
      BY <1>1, <1>2, <2>1, <2>2 DEF JobGood, Kept
    <2>4. job[p].dropped \subseteq Doubtful(job[p].matched)
      BY <1>1, <2>1 DEF JobGood
    <2>5. QED
      BY <1>1, <1>3, <2>1, <2>2, <2>3, <2>4, JobFits
  <1>e. CASE Enqueue(p) \/ Record(p)
    <2>1. job[p].pc \in {"funnel", "record"}
      BY <1>e, RecordsIs
    <2>2. PICK j : /\ Moves(p, j) /\ j.pc \in {"record", "ack"} /\ (j.pc = "record" => j.todo # {}) /\ j.ev = job[p].ev
                   /\ j.todo \subseteq Kept(p) /\ j.matched = job[p].matched /\ j.dropped = job[p].dropped
      BY <1>e, RecordsIs
    <2>3. \A r \in j.matched \ j.dropped : \E a \in alerts' : a.rule = r /\ a.ev = j.ev
      BY <1>1, <1>2, <2>1, <2>2 DEF JobGood, Kept
    <2>4. j.dropped \subseteq Doubtful(j.matched) /\ j.todo \subseteq j.matched \ j.dropped
      BY <1>1, <2>1, <2>2 DEF JobGood, Kept
    <2>5. QED
      BY <1>1, <1>3, <2>1, <2>2, <2>3, <2>4, JobFits
  <1>10. CASE Ends(p)
    <2>1. Moves(p, Idle) /\ Idle.pc = "idle"
      BY <1>1, <1>10, EndsIs, IdleIs
    <2>2. QED
      BY <1>1, <2>1, JobFits
  <1>11. QED
    BY <1>4, <1>5, <1>6, <1>7, <1>8, <1>9, <1>e, <1>10 DEF Worker

LEMMA ShapeStep ==
    ASSUME Shape, [Next]_vars
    PROVE  Shape'
  <1>0. Types
    BY DEF Shape
  <1>1. ASSUME UNCHANGED job PROVE \A u \in Workers : JobGood(u)'
    BY <1>1, JobStays
  <1>2. ASSUME NEW p \in Workers, Worker(p) PROVE \A u \in Workers : JobGood(u)'
    <2>1. \A u \in Workers \ {p} : job'[u] = job[u]
      BY <1>2, WorkerMoves DEF Moves
    <2>2. QED
      BY <1>2, <2>1, JobStays, MoverGood
  <1>3. \A u \in Workers : JobGood(u)'
    BY <1>0, <1>1, <1>2, NextIs DEF Tick, vars
  <1>4. QED
    BY <1>3, TypesStep DEF Shape
-----------------------------------------------------------------------------
(* Alerts.                                                                 *)

\* The alerts a step adds are those of rules kept by one replica, for its event.
LEMMA AlertsAdded ==
    ASSUME Types, [Next]_vars
    PROVE  UNCHANGED alerts \/ \E e, sent : alerts' = alerts \cup {Alert(r, e) : r \in sent}
  <1>1. ASSUME NEW p \in Workers, Worker(p), ~Emit(p), ~(\E sent \in SUBSET Rules : EmitRaises(p, sent))
        PROVE  UNCHANGED alerts
    BY <1>1 DEF Worker, Ends, Take, Evaluate, ReadMine, ReadTheirs, Enqueue, Record, SkipEnqueue, EnqueueRaises, Ack, Raise, Crash, bus
  <1>2. ASSUME NEW p \in Workers, Emit(p) PROVE \E e, sent : alerts' = alerts \cup {Alert(r, e) : r \in sent}
    <2>1. PICK e, sent : e = job[p].ev /\ sent = Kept(p)
      OBVIOUS
    <2>2. alerts' = alerts \cup {Alert(r, e) : r \in sent}
      BY <1>2, <2>1 DEF Emit
    <2>3. QED
      BY <2>2
  <1>3. ASSUME NEW p \in Workers, NEW sent \in SUBSET Rules, EmitRaises(p, sent)
        PROVE  \E e : alerts' = alerts \cup {Alert(r, e) : r \in sent}
    <2>1. PICK e : e = job[p].ev
      OBVIOUS
    <2>2. alerts' = alerts \cup {Alert(r, e) : r \in sent}
      BY <1>3, <2>1 DEF EmitRaises
    <2>3. QED
      BY <2>2
  <1>4. QED
    BY <1>1, <1>2, <1>3, NextIs DEF Tick, bus, vars

LEMMA KeyedStep ==
    ASSUME Types, AlertsKeyed, [Next]_vars
    PROVE  AlertsKeyed'
  <1>1. \A r, e : Alert(r, e).id = AlertKey(Alert(r, e).rule, Alert(r, e).ev)
    BY DEF Alert
  <1>2. \A a \in alerts' : a.id = AlertKey(a.rule, a.ev)
    BY <1>1, AlertsAdded DEF AlertsKeyed
  <1>3. QED
    BY <1>2 DEF AlertsKeyed

LEMMA SuppressionStep ==
    ASSUME Shape, SuppressionHasAlert, [Next]_vars
    PROVE  SuppressionHasAlert'
  <1>0. Types /\ alerts \subseteq alerts'
    BY Grows DEF Shape
  <1>1. ASSUME UNCHANGED <<acked, verdict>> PROVE SuppressionHasAlert'
    BY <1>0, <1>1 DEF SuppressionHasAlert
  <1>2. ASSUME NEW p \in Workers, Ack(p) PROVE SuppressionHasAlert'
    <2>1. job[p].pc = "ack"
      BY <1>2 DEF Ack
    <2>2. PICK e \in Events : e = job[p].ev
      BY <2>1, BusyIs
    <2>3. PICK v : v = [matched |-> Kept(p), dropped |-> job[p].dropped]
      OBVIOUS
    <2>4. acked' = acked \cup {e} /\ verdict' = [verdict EXCEPT ![e] = v]
      BY <1>2, <2>2, <2>3 DEF Ack
    <2>5. verdict'[e].dropped = job[p].dropped /\ \A x \in acked \ {e} : verdict'[x] = verdict[x]
      BY <1>0, <2>2, <2>3, <2>4 DEF Types
    <2>6. /\ job[p].dropped \subseteq Doubtful(job[p].matched)
          /\ \A r \in Kept(p) : \E a \in alerts : a.rule = r /\ a.ev = e
      BY <2>1, <2>2 DEF Shape, JobGood
    <2>7. ASSUME NEW r \in job[p].dropped PROVE CompanionOf[r] \in Kept(p)
      <3>1. r \in Rules /\ CompanionOf[r] \in job[p].matched /\ job[p].matched \subseteq Rules
        BY <1>0, <2>6, <2>7, JobIs DEF Doubtful
      <3>2. CompanionOf[r] # NoRule /\ CompanionOf[CompanionOf[r]] = NoRule /\ NoRule \notin Rules
        BY <3>1, ConstantsAssumption
      <3>3. CompanionOf[r] \notin job[p].dropped
        BY <2>6, <3>1, <3>2 DEF Doubtful
      <3>4. QED
        BY <3>1, <3>3 DEF Kept
    <2>8. ASSUME NEW x \in acked', NEW r \in verdict'[x].dropped PROVE \E a \in alerts' : a.rule = CompanionOf[r] /\ a.ev = x
      <3>1. CASE x = e
        BY <1>0, <2>5, <2>6, <2>7, <2>8, <3>1
      <3>2. CASE x # e
        BY <1>0, <2>4, <2>5, <2>8, <3>2 DEF SuppressionHasAlert
      <3>3. QED
        BY <3>1, <3>2
    <2>9. QED
      BY <2>8 DEF SuppressionHasAlert
  <1>3. ASSUME NEW p \in Workers, Worker(p), ~Ack(p) PROVE UNCHANGED <<acked, verdict>>
    BY <1>3 DEF Worker, Ends, Take, Evaluate, ReadMine, ReadTheirs, Emit, Enqueue, Record, SkipEnqueue, EmitRaises, EnqueueRaises, Raise, Crash
  <1>4. QED
    BY <1>0, <1>1, <1>2, <1>3, NextIs DEF Tick, vars
-----------------------------------------------------------------------------
(* Windows count what was delivered.                                       *)

LEMMA HitBacked ==
    ASSUME Shape, WindowsBacked, NEW r \in Rules, NEW e \in Events, e \in delivered, <<r, e>> \in Matching, Planned(r, e),
           NEW g \in Groups, g = GroupOf[r][e], NEW y, y = HitSet(r, e), NEW m \in MembersOf(r), y[m] # 0
    PROVE  \E x \in Events : Stands(r, g, m, y[m], x)
  <1>1. PICK n : n = MemberOf(r, e)
    OBVIOUS
  <1>2. /\ y[n] \in {PlanTime(r, e), zset[r][g][n]} /\ zset[r][g] \in [MembersOf(r) -> Nat]
        /\ \A x \in MembersOf(r) \ {n} : y[x] = IF zset[r][g][x] < PlanTime(r, e) - Window[r] THEN 0 ELSE zset[r][g][x]
    BY <1>1, HitSetIs DEF Shape, Types
  <1>3. CASE y[m] = zset[r][g][m]
    BY <1>3 DEF WindowsBacked
  <1>4. CASE m = n /\ y[m] = PlanTime(r, e)
    <2>1. PlanTime(r, e) <= WindowTime(r, e)
      BY PlanTimeIs DEF Shape, Types
    <2>2. QED
      BY <1>1, <1>4, <2>1 DEF Stands
  <1>5. QED
    BY <1>2, <1>3, <1>4

LEMMA BackedAfter ==
    ASSUME Shape, WindowsBacked, [Next]_vars, NEW s \in Rules, NEW h \in Groups, NEW m \in MembersOf(s), zset'[s][h][m] # 0
    PROVE  \E x \in Events : Stands(s, h, m, zset'[s][h][m], x)
  <1>0. Types
    BY DEF Shape
  <1>2. CASE zset'[s][h] = zset[s][h]
    BY <1>2 DEF WindowsBacked
  <1>3. CASE Tick
    <2>1. zset'[s][h] \in {EmptySet(s), zset[s][h]}
      BY <1>0, <1>3, TickSets
    <2>2. zset'[s][h] # EmptySet(s)
      BY DEF EmptySet
    <2>3. QED
      BY <1>2, <2>1, <2>2
  <1>4. ASSUME NEW p \in Workers, Evaluate(p)
        PROVE  \E x \in Events : Stands(s, h, m, zset'[s][h][m], x)
    <2>1. job[p].pc = "eval"
      BY <1>4, EvaluateIs
    <2>2. PICK e \in Events : e = job[p].ev /\ e \in delivered
      BY <2>1, BusyIs
    <2>3. PICK r \in job[p].todo : /\ <<r, e>> \in Matching
                                   /\ IF Planned(r, e) THEN zset' = [zset EXCEPT ![r][GroupOf[r][e]] = HitSet(r, e)] ELSE UNCHANGED zset
      BY <1>4, <2>2, EvaluateIs
    <2>4. r \in Rules
      BY <1>0, JobIs
    <2>5. CASE UNCHANGED zset
      BY <1>2, <2>5
    <2>6. ASSUME Planned(r, e), NEW g \in Groups, g = GroupOf[r][e], NEW y \in [MembersOf(r) -> Nat], y = HitSet(r, e),
                 WindowSet(r, g, y)
          PROVE  \E x \in Events : Stands(s, h, m, zset'[s][h][m], x)
      <3>1. zset'[r][g] = y /\ \A i \in Rules, k \in Groups : i # r \/ k # g => zset'[i][k] = zset[i][k]
        BY <2>6 DEF WindowSet
      <3>2. CASE s = r /\ h = g
        BY <2>2, <2>3, <2>4, <2>6, <3>1, <3>2, HitBacked
      <3>3. QED
        BY <1>2, <3>1, <3>2
    <2>7. QED
      BY <2>3, <2>4, <2>5, <2>6, HitIs
  <1>5. QED
    BY <1>0, <1>2, <1>3, <1>4, WindowsChange

LEMMA BackedStep ==
    ASSUME Shape, WindowsBacked, [Next]_vars
    PROVE  WindowsBacked'
  <1>1. delivered \subseteq delivered'
    BY Grows DEF Shape
  <1>2. ASSUME NEW s \in Rules, NEW h \in Groups, NEW m \in MembersOf(s), zset'[s][h][m] # 0
        PROVE  \E x \in Events : /\ x \in delivered' /\ <<s, x>> \in Matching /\ GroupOf[s][x] = h
                                 /\ MemberOf(s, x) = m /\ zset'[s][h][m] <= WindowTime(s, x)
    <2>1. PICK x \in Events : Stands(s, h, m, zset'[s][h][m], x)
      BY <1>2, BackedAfter
    <2>2. QED
      BY <1>1, <2>1 DEF Stands
  <1>3. QED
    BY <1>2 DEF WindowsBacked, Stands

\* Members that stand for some events of T are no more than those of T.
LEMMA CountMonotone ==
    ASSUME NEW r, NEW T \in SUBSET Events, NEW A, A \subseteq {MemberOf(r, x) : x \in T}
    PROVE  /\ Cardinality(A) \in Nat /\ Cardinality({MemberOf(r, x) : x \in T}) \in Nat
           /\ Cardinality(A) <= Cardinality({MemberOf(r, x) : x \in T})
  <1>1. PICK B : B = {MemberOf(r, x) : x \in T}
    OBVIOUS
  <1>2. IsFiniteSet(T)
    BY ConstantsAssumption, FS_Subset
  <1>3. PICK f : f = [x \in T |-> MemberOf(r, x)]
    OBVIOUS
  <1>4. f \in Surjection(T, B)
    BY <1>1, <1>3 DEF Surjection
  <1>5. IsFiniteSet(B) /\ A \subseteq B
    BY <1>1, <1>2, <1>4, FS_Surjection
  <1>6. QED
    BY <1>1, <1>5, FS_Subset, FS_CardinalityType

\* The events that justify a match of rule r for group g at time t, among those of D.
Seen(r, g, t, D) ==
    {x \in Events : x \in D /\ <<r, x>> \in Matching /\ GroupOf[r][x] = g /\ WindowTime(r, x) >= t}

\* A rule that fires has threshold many members behind it.
LEMMA FiresBacked ==
    ASSUME Shape, WindowsBacked, NEW r \in Rules, NEW e \in Events, e \in delivered, <<r, e>> \in Matching,
           Stateful(r), Fires(r, e), NEW now, now = PlanTime(r, e), NEW D, delivered \subseteq D
    PROVE  Cardinality({MemberOf(r, x) : x \in Seen(r, GroupOf[r][e], now - Window[r], D)}) >= Threshold[r]
  <1>1. Planned(r, e) /\ Matches(r, ZCard(HitSet(r, e)))
    BY DEF Fires
  <1>2. PICK g \in Groups : g = GroupOf[r][e]
    BY <1>1, EventIs DEF Planned
  <1>3. PICK y : y = HitSet(r, e)
    OBVIOUS
  <1>4. y \in [MembersOf(r) -> Nat] /\ \A x \in MembersOf(r) : y[x] # 0 => now - Window[r] <= y[x]
    BY <1>1, <1>2, <1>3, HitSetIs DEF Shape
  <1>5. PICK T \in SUBSET Events : T = Seen(r, g, now - Window[r], D)
    BY DEF Seen
  <1>6. PICK A : A = {x \in DOMAIN y : y[x] # 0}
    OBVIOUS
  <1>7. ASSUME NEW m \in A PROVE \E x \in T : MemberOf(r, x) = m
    <2>1. m \in MembersOf(r) /\ y[m] # 0 /\ y[m] \in Nat
      BY <1>4, <1>6, <1>7
    <2>2. PICK x \in Events : Stands(r, g, m, y[m], x)
      BY <1>1, <1>2, <1>3, <2>1, HitBacked
    <2>3. WindowTime(r, x) \in Nat /\ now \in Nat /\ Window[r] \in Nat
      BY WindowTimeIs, PlanTimeIs, RuleIs DEF Shape, Types
    <2>4. now - Window[r] <= WindowTime(r, x)
      BY <1>4, <2>1, <2>2, <2>3 DEF Stands
    <2>5. x \in T
      BY <1>5, <2>2, <2>3, <2>4 DEF Stands, Seen
    <2>6. QED
      BY <2>2, <2>5 DEF Stands
  <1>8. A \subseteq {MemberOf(r, x) : x \in T}
    BY <1>7
  <1>9. /\ Cardinality(A) \in Nat /\ Cardinality({MemberOf(r, x) : x \in T}) \in Nat
        /\ Cardinality(A) <= Cardinality({MemberOf(r, x) : x \in T})
    BY <1>8, CountMonotone
  <1>10. Cardinality(A) >= Threshold[r] /\ Threshold[r] \in Nat
    BY <1>1, <1>3, <1>6, RuleIs DEF Matches, ZCard
  <1>11. QED
    BY <1>2, <1>5, <1>9, <1>10

\* Threshold many members stand behind match f, among the events of D.
Justified(f, D) ==
    Stateful(f.rule) =>
        Cardinality({MemberOf(f.rule, x) : x \in Seen(f.rule, GroupOf[f.rule][f.ev], f.now - Window[f.rule], D)}) >= Threshold[f.rule]

LEMMA FabricatedIs == NeverFabricated <=> \A f \in fired : Justified(f, delivered)
  BY DEF NeverFabricated, Justified, Seen

LEMMA FabricatedStep ==
    ASSUME Shape, WindowsBacked, NeverFabricated, [Next]_vars
    PROVE  NeverFabricated'
  <1>0. Types /\ delivered \subseteq delivered'
    BY Grows DEF Shape
  <1>1. PICK D : D = delivered'
    OBVIOUS
  <1>2. ASSUME NEW f \in fired PROVE Justified(f, D)
    <2>1. SUFFICES ASSUME Stateful(f.rule)
                   PROVE  Cardinality({MemberOf(f.rule, x) : x \in Seen(f.rule, GroupOf[f.rule][f.ev], f.now - Window[f.rule], D)}) >= Threshold[f.rule]
      BY DEF Justified
    <2>2. PICK r, g, t : r \in Rules /\ r = f.rule /\ g = GroupOf[f.rule][f.ev] /\ t = f.now - Window[f.rule]
      BY <1>0, <1>2 DEF Types
    <2>3. PICK S \in SUBSET Events : S = Seen(r, g, t, delivered)
      BY DEF Seen
    <2>4. PICK T \in SUBSET Events : T = Seen(r, g, t, D)
      BY DEF Seen
    <2>5. S \subseteq T
      BY <1>0, <1>1, <2>3, <2>4 DEF Seen
    <2>6. PICK A : A = {MemberOf(r, x) : x \in S}
      OBVIOUS
    <2>7. A \subseteq {MemberOf(r, x) : x \in T}
      BY <2>5, <2>6
    <2>8. /\ Cardinality(A) \in Nat /\ Cardinality({MemberOf(r, x) : x \in T}) \in Nat
          /\ Cardinality(A) <= Cardinality({MemberOf(r, x) : x \in T})
      BY <2>7, CountMonotone
    <2>9. Cardinality(A) >= Threshold[r] /\ Threshold[r] \in Nat
      BY <1>2, <2>1, <2>2, <2>3, <2>6, FabricatedIs, RuleIs DEF Justified
    <2>10. Cardinality({MemberOf(r, x) : x \in T}) >= Threshold[r]
      BY <2>8, <2>9
    <2>11. QED
      BY <2>2, <2>4, <2>10
  <1>3. ASSUME NEW r \in Rules, NEW e \in Events, e \in delivered, <<r, e>> \in Matching, Fires(r, e),
               NEW f, f = [rule |-> r, ev |-> e, now |-> PlanTime(r, e)]
        PROVE  Justified(f, D)
    <2>1. PICK now : now = PlanTime(r, e)
      OBVIOUS
    <2>2. f.rule = r /\ f.ev = e /\ f.now = now
      BY <1>3, <2>1
    <2>3. Stateful(r) => Cardinality({MemberOf(r, x) : x \in Seen(r, GroupOf[r][e], now - Window[r], D)}) >= Threshold[r]
      BY <1>0, <1>1, <1>3, <2>1, FiresBacked
    <2>4. QED
      BY <2>2, <2>3 DEF Justified
  <1>4. \A f \in fired' : Justified(f, D)
    BY <1>2, <1>3, FiredAdded
  <1>5. QED
    BY <1>1, <1>4 DEF NeverFabricated, Justified, Seen
-----------------------------------------------------------------------------
(* Bursts.                                                                 *)

\* Event x comes from replica u's job for rule r.
Passed(u, r, x) == job[u].pc # "idle" /\ job[u].ev = x /\ (job[u].pc = "eval" => r \notin job[u].todo)

LEMMA EvaluatedIs ==
    ASSUME NEW r, NEW x
    PROVE  Evaluated(r, x) <=> x \in acked \/ \E u \in Workers : Passed(u, r, x)
  BY DEF Evaluated, Passed

\* Nothing is newly evaluated by replica p's move to j, unless j itself has.
LEMMA EvaluatedMoves ==
    ASSUME NEW p \in Workers, NEW j, Moves(p, j), NEW r, NEW x, Evaluated(r, x)'
    PROVE  \/ Evaluated(r, x) \/ (x \in acked' /\ x \notin acked)
           \/ j.pc # "idle" /\ j.ev = x /\ (j.pc = "eval" => r \notin j.todo)
  <1>1. CASE x \in acked'
    BY <1>1 DEF Evaluated
  <1>2. ASSUME NEW u \in Workers, job'[u].pc # "idle" /\ job'[u].ev = x /\ (job'[u].pc = "eval" => r \notin job'[u].todo)
        PROVE  Evaluated(r, x) \/ (j.pc # "idle" /\ j.ev = x /\ (j.pc = "eval" => r \notin j.todo))
    <2>1. CASE u = p
      BY <1>2, <2>1 DEF Moves
    <2>2. CASE u # p
      <3>1. job'[u] = job[u]
        BY <2>2 DEF Moves
      <3>2. Evaluated(r, x)
        BY <1>2, <3>1 DEF Evaluated
      <3>3. QED
        BY <3>2
    <2>3. QED
      BY <2>1, <2>2
  <1>3. QED
    BY <1>1, <1>2 DEF Evaluated

LEMMA AckedGrows ==
    ASSUME NEW p \in Workers, Worker(p), ~Ack(p)
    PROVE  UNCHANGED acked
  BY DEF Worker, Ends, Take, Evaluate, ReadMine, ReadTheirs, Emit, Enqueue, Record, SkipEnqueue, EmitRaises, EnqueueRaises, Raise, Crash

\* Only an evaluation puts an event behind a replica that was not there before.
LEMMA QuietStep ==
    ASSUME Shape, NEW p \in Workers, Worker(p), ~Evaluate(p), NEW r \in Rules, NEW x, <<r, x>> \in Matching, Evaluated(r, x)'
    PROVE  Evaluated(r, x)
  <1>0. Types
    BY DEF Shape
  <1>1. ASSUME NEW e \in topic, Take(p, e) PROVE Evaluated(r, x)
    <2>1. e \in Events /\ UNCHANGED acked
      BY <1>0, <1>1 DEF Types, Take
    <2>2. PICK j : /\ Moves(p, j) /\ j.ev = e
                   /\ \/ j.pc = "eval" /\ j.todo = {s \in Rules : <<s, e>> \in Matching}
                      \/ j.pc = "mine" /\ \A s \in Rules : <<s, e>> \notin Matching
      BY <1>0, <1>1, <2>1, TakeIs
    <2>3. ~(j.ev = x /\ (j.pc = "eval" => r \notin j.todo))
      BY <2>2
    <2>4. QED
      BY <2>1, <2>2, <2>3, EvaluatedMoves
  <1>2. ASSUME NEW j, Moves(p, j), UNCHANGED acked, job[p].pc \notin {"idle", "eval"}, j.ev = job[p].ev PROVE Evaluated(r, x)
    <2>1. job[p].ev = x => Passed(p, r, x)
      BY <1>2 DEF Passed
    <2>2. QED
      BY <1>2, <2>1, EvaluatedMoves, EvaluatedIs
  <1>3. CASE ReadMine(p)
    BY <1>2, <1>3, ReadMineIs DEF ReadMine
  <1>4. CASE ReadTheirs(p)
    BY <1>2, <1>4, ReadTheirsIs DEF ReadTheirs
  <1>r. CASE Enqueue(p) \/ Record(p)
    BY <1>2, <1>r, RecordsIs
  <1>5. CASE Emit(p) \/ SkipEnqueue(p)
    <2>1. PICK to \in {"funnel", "ack"} : Goto(p, to) /\ UNCHANGED acked /\ job[p].pc \notin {"idle", "eval"}
      BY <1>5 DEF Emit, SkipEnqueue
    <2>2. PICK j : Moves(p, j) /\ j.ev = job[p].ev
      BY <1>0, <2>1, GotoIs
    <2>3. QED
      BY <1>2, <2>1, <2>2
  <1>6. CASE Ends(p)
    <2>1. Moves(p, Idle) /\ Idle.pc = "idle"
      BY <1>0, <1>6, EndsIs, IdleIs
    <2>2. x \in acked' /\ x \notin acked => Passed(p, r, x)
      <3>1. CASE Ack(p)
        <4>1. job[p].pc = "ack" /\ acked' = acked \cup {job[p].ev}
          BY <3>1 DEF Ack
        <4>2. QED
          BY <4>1 DEF Passed
      <3>2. CASE ~Ack(p)
        BY <3>2, AckedGrows
      <3>3. QED
        BY <3>1, <3>2
    <2>3. QED
      BY <2>1, <2>2, EvaluatedMoves, EvaluatedIs
  <1>7. QED
    BY <1>1, <1>3, <1>4, <1>r, <1>5, <1>6 DEF Worker

\* Some replica evaluates rule r for event e, and nothing else is newly evaluated.
Evaluates(r, e) ==
    /\ e \in topic /\ <<r, e>> \in Matching /\ ReceiptTime[e] <= clock
    /\ IF Planned(r, e) THEN zset' = [zset EXCEPT ![r][GroupOf[r][e]] = HitSet(r, e)] ELSE UNCHANGED zset
    /\ fired' = IF Fires(r, e) THEN fired \cup {[rule |-> r, ev |-> e, now |-> PlanTime(r, e)]} ELSE fired
    /\ \A s, x : Evaluated(s, x)' => Evaluated(s, x) \/ (s = r /\ x = e)

\* Replica p does so and has job j afterwards.
JobEvaluates(p, r, e, j) ==
    /\ job[p].pc = "eval" /\ job[p].ev = e /\ Moves(p, j) /\ j.ev = e
    /\ j.matched = IF Fires(r, e) THEN job[p].matched \cup {r} ELSE job[p].matched
    /\ \/ j.pc = "eval" /\ j.todo = job[p].todo \ {r}
       \/ j.pc = "mine" /\ job[p].todo = {r}

LEMMA EvaluateStep ==
    ASSUME Shape, NEW p \in Workers, Evaluate(p)
    PROVE  \E r \in Rules, e \in Events, j \in JobType : Evaluates(r, e) /\ JobEvaluates(p, r, e, j)
  <1>1. job[p].pc = "eval" /\ Types
    BY EvaluateIs DEF Shape
  <1>2. PICK e \in Events : e = job[p].ev /\ e \in topic /\ ReceiptTime[e] <= clock
    BY <1>1, BusyIs
  <1>3. PICK r \in job[p].todo, j \in JobType :
          /\ <<r, e>> \in Matching /\ Moves(p, j) /\ j.ev = e
          /\ j.matched = IF Fires(r, e) THEN job[p].matched \cup {r} ELSE job[p].matched
          /\ \/ j.pc = "eval" /\ j.todo = job[p].todo \ {r}
             \/ j.pc = "mine" /\ job[p].todo = {r}
          /\ IF Planned(r, e) THEN zset' = [zset EXCEPT ![r][GroupOf[r][e]] = HitSet(r, e)] ELSE UNCHANGED zset
          /\ fired' = IF Fires(r, e) THEN fired \cup {[rule |-> r, ev |-> e, now |-> PlanTime(r, e)]} ELSE fired
    BY <1>2, EvaluateIs
  <1>4. r \in Rules
    BY <1>1, JobIs
  <1>5. ASSUME NEW s, NEW x, Evaluated(s, x)', s # r \/ x # e PROVE Evaluated(s, x)
    <2>1. UNCHANGED acked
      BY DEF Evaluate
    <2>2. j.pc # "idle" /\ j.ev = x /\ (j.pc = "eval" => s \notin j.todo) => Passed(p, s, x)
      BY <1>1, <1>2, <1>3, <1>5 DEF Passed
    <2>3. QED
      BY <1>3, <1>5, <2>1, <2>2, EvaluatedMoves, EvaluatedIs
  <1>6. \A s, x : Evaluated(s, x)' => Evaluated(s, x) \/ (s = r /\ x = e)
    BY <1>5
  <1>7. Evaluates(r, e) /\ JobEvaluates(p, r, e, j)
    BY <1>1, <1>2, <1>3, <1>6 DEF Evaluates, JobEvaluates
  <1>8. QED
    BY <1>4, <1>7

\* What the burst of rule r and group g has to be after a step, with the values named.
LEMMA BurstFits ==
    ASSUME NEW r \in Rules, NEW g \in Groups, NEW B, B = Burst(r, g)', NEW z, z = zset'[r][g],
           \A m \in Events : z[m] # 0 => m \in B /\ ReceiptTime[m] - (Window[r] \div 2) <= z[m]
                                                 /\ z[m] <= ReceiptTime[m] + (Window[r] \div 2),
           \A x \in B : Evaluated(r, x)' => z[x] # 0,
           (\A x \in B : z[x] # 0) /\ Cardinality(B) >= Threshold[r] => \E f \in fired' : f.rule = r /\ f.ev \in B
    PROVE  BurstGood(r, g)'
  BY DEF BurstGood

LEMMA BurstIs ==
    ASSUME Types, NEW r \in Rules, NEW g \in Groups, UNCHANGED topic
    PROVE  Burst(r, g) \subseteq Events /\ Burst(r, g)' = Burst(r, g) /\ \A x \in Burst(r, g) : x \in topic /\ <<r, x>> \in Matching /\ GroupOf[r][x] = g
  BY DEF Types, Burst

LEMMA CountableBefore ==
    ASSUME Types, [Next]_vars, NEW r \in Rules, NEW g \in Groups, Countable(r, g)'
    PROVE  Countable(r, g)
  <1>1. UNCHANGED topic /\ lapsed \subseteq lapsed'
    BY NextIs, Grows
  <1>2. Burst(r, g)' = Burst(r, g)
    BY <1>1, BurstIs
  <1>3. \A x : Refused(r, x)' = Refused(r, x)
    BY DEF Refused, Lesser
  <1>4. QED
    BY <1>1, <1>2, <1>3 DEF Countable, Together, Stateful

\* A step that evaluates nothing of the burst leaves it as good as it was.
LEMMA BurstStays ==
    ASSUME Types, [Next]_vars, NEW r \in Rules, NEW g \in Groups, BurstGood(r, g), zset'[r][g] = zset[r][g],
           \A x \in Burst(r, g) : Evaluated(r, x)' => Evaluated(r, x)
    PROVE  BurstGood(r, g)'
  <1>1. PICK B : B = Burst(r, g)
    OBVIOUS
  <1>2. PICK z : z = zset[r][g]
    OBVIOUS
  <1>3. B = Burst(r, g)' /\ fired \subseteq fired'
    BY <1>1, BurstIs, NextIs, Grows
  <1>4. \A m \in Events : z[m] # 0 => m \in B /\ ReceiptTime[m] - (Window[r] \div 2) <= z[m]
                                              /\ z[m] <= ReceiptTime[m] + (Window[r] \div 2)
    BY <1>1, <1>2 DEF BurstGood
  <1>5. \A x \in B : Evaluated(r, x)' => z[x] # 0
    BY <1>1, <1>2 DEF BurstGood
  <1>6. (\A x \in B : z[x] # 0) /\ Cardinality(B) >= Threshold[r] => \E f \in fired' : f.rule = r /\ f.ev \in B
    BY <1>1, <1>2, <1>3 DEF BurstGood
  <1>7. QED
    BY <1>2, <1>3, <1>4, <1>5, <1>6, BurstFits

\* An event of a burst that can be counted is planned, and within half a window of its receipt.
LEMMA BurstPlanned ==
    ASSUME Types, NEW r \in Rules, NEW g \in Groups, Countable(r, g), NEW e \in Burst(r, g), e \in Events, ReceiptTime[e] <= clock
    PROVE  /\ Planned(r, e) /\ GroupOf[r][e] = g /\ PlanTime(r, e) \in Nat \ {0}
           /\ ReceiptTime[e] - (Window[r] \div 2) <= PlanTime(r, e) /\ PlanTime(r, e) <= ReceiptTime[e] + (Window[r] \div 2)
  <1>1. PICK h : h = Window[r] \div 2
    OBVIOUS
  <1>2. h \in Nat
    <2>1. \A n \in Nat : n \div 2 \in Nat
      OBVIOUS
    <2>2. QED
      BY <1>1, <2>1, RuleIs
  <1>3. PICK c \in Nat, k \in Nat, R \in Nat : c = clock /\ k = MaxClockSkew /\ R = ReceiptTime[e] /\ R <= c
    BY ConstantsAssumption, EventIs DEF Types
  <1>4. Stateful(r) /\ ~Refused(r, e) /\ GroupOf[r][e] = g
    BY DEF Countable, Together, Burst
  <1>5. PICK t \in Nat : t = WindowTime(r, e) /\ R - h <= t /\ t <= R + h /\ t <= R + k
    BY <1>1, <1>3, <1>4, WindowTimeIs
  <1>6. t <= c + k
    BY <1>3, <1>5
  <1>7. Valid(r, e)
    BY <1>3, <1>5, <1>6 DEF Valid
  <1>8. g # NoGroup
    BY ConstantsAssumption
  <1>9. PlanTime(r, e) \in {t, c} /\ PlanTime(r, e) <= t /\ PlanTime(r, e) \in Nat \ {0}
    BY <1>3, <1>5, PlanTimeIs DEF Types
  <1>10. PICK n : n = PlanTime(r, e)
    OBVIOUS
  <1>11. R - h <= n /\ n <= R + h
    BY <1>2, <1>3, <1>5, <1>9, <1>10
  <1>12. QED
    BY <1>1, <1>3, <1>4, <1>7, <1>8, <1>9, <1>10, <1>11 DEF Planned

\* Window y of burst B after event e was evaluated: it has grown, nothing is evicted, and
\* if the whole burst is in it the rule fires.
Hits(r, g, B, e, y) ==
    /\ y \in [Events -> Nat] /\ y = zset'[r][g] /\ y[e] # 0
    /\ \A m \in Events : y[m] # 0 => m \in B /\ ReceiptTime[m] - (Window[r] \div 2) <= y[m]
                                          /\ y[m] <= ReceiptTime[m] + (Window[r] \div 2)
    /\ \A x \in Events : zset[r][g][x] # 0 => y[x] # 0
    /\ \A x \in Events \ {e} : y[x] # 0 => zset[r][g][x] # 0
    /\ (\A x \in B : y[x] # 0) /\ Cardinality(B) >= Threshold[r] => Fires(r, e)

LEMMA BurstHit ==
    ASSUME Shape, NEW r \in Rules, NEW g \in Groups, Countable(r, g), BurstGood(r, g),
           NEW B, B = Burst(r, g), NEW e \in B, e \in Events, Evaluates(r, e)
    PROVE  \E y : Hits(r, g, B, e, y)
  <1>0. Types
    BY DEF Shape
  <1>2. B \subseteq Events /\ e \in B /\ GroupOf[r][e] = g
    BY <1>0 DEF Types, Burst
  <1>3. PICK h : h = Window[r] \div 2
    OBVIOUS
  <1>4. PICK w \in Nat : w = Window[r]
    BY RuleIs
  <1>5. h \in Nat /\ h + h <= w
    <2>1. \A n \in Nat : n \div 2 \in Nat /\ (n \div 2) + (n \div 2) <= n
      OBVIOUS
    <2>2. QED
      BY <1>3, <1>4, <2>1
  <1>6. PICK R \in Nat : R = ReceiptTime[e] /\ \A x \in B : ReceiptTime[x] = R
    BY <1>2, EventIs DEF Countable, Together
  <1>7. PICK n \in Nat \ {0} : n = PlanTime(r, e) /\ R - h <= n /\ n <= R + h
    BY <1>0, <1>2, <1>3, <1>6, BurstPlanned DEF Evaluates
  <1>8. Planned(r, e)
    BY <1>0, <1>2, BurstPlanned DEF Evaluates
  <1>9. MembersOf(r) = Events /\ MemberOf(r, e) = e
    BY DEF Countable, MembersOf, MemberOf
  <1>10. PICK z \in [Events -> Nat] : z = zset[r][g]
    BY <1>0, <1>9 DEF Types
  <1>11. PICK y \in [Events -> Nat] : y = HitSet(r, e) /\ WindowSet(r, g, y)
    BY <1>2, <1>8, <1>9, HitIs DEF Evaluates
  <1>12. /\ y[e] # 0 /\ y[e] \in {n, z[e]}
         /\ \A x \in Events \ {e} : y[x] = IF z[x] < n - w THEN 0 ELSE z[x]
    BY <1>0, <1>2, <1>4, <1>7, <1>8, <1>9, <1>10, <1>11, HitSetIs
  <1>13. \A m \in Events : z[m] # 0 => m \in B /\ R - h <= z[m] /\ z[m] <= R + h
    BY <1>3, <1>6, <1>10 DEF BurstGood
  <1>14. \A m \in Events : y[m] # 0 => m \in B /\ R - h <= y[m] /\ y[m] <= R + h
    BY <1>2, <1>7, <1>12, <1>13
  <1>15. \A x \in Events : z[x] # 0 => y[x] # 0
    <2>1. ASSUME NEW x \in Events \ {e}, z[x] # 0 PROVE ~(z[x] < n - w)
      BY <1>5, <1>7, <1>13, <2>1
    <2>2. QED
      BY <1>12, <2>1
  <1>16. \A x \in Events \ {e} : y[x] # 0 => z[x] # 0
    BY <1>12
  <1>17. ASSUME \A x \in B : y[x] # 0, Cardinality(B) >= Threshold[r] PROVE Fires(r, e)
    <2>1. B = {x \in DOMAIN y : y[x] # 0}
      BY <1>2, <1>14, <1>17
    <2>2. QED
      BY <1>8, <1>11, <1>17, <2>1 DEF Fires, Matches, ZCard
  <1>18. y = zset'[r][g]
    BY <1>11 DEF WindowSet
  <1>19. \A m \in Events : y[m] # 0 => m \in B /\ ReceiptTime[m] - (Window[r] \div 2) <= y[m]
                                               /\ y[m] <= ReceiptTime[m] + (Window[r] \div 2)
    BY <1>3, <1>6, <1>14
  <1>20. Hits(r, g, B, e, y)
    BY <1>10, <1>12, <1>15, <1>16, <1>17, <1>18, <1>19 DEF Hits
  <1>21. QED
    BY <1>20

LEMMA BurstEvaluated ==
    ASSUME Shape, [Next]_vars, NEW r \in Rules, NEW g \in Groups, Countable(r, g), BurstGood(r, g),
           NEW e \in Events, Evaluates(r, e), GroupOf[r][e] = g
    PROVE  BurstGood(r, g)'
  <1>0. Types /\ UNCHANGED topic /\ fired \subseteq fired'
    BY NextIs, Grows DEF Shape
  <1>1. PICK B : B = Burst(r, g)
    OBVIOUS
  <1>2. B \subseteq Events /\ B = Burst(r, g)' /\ e \in B
    BY <1>0, <1>1, BurstIs DEF Evaluates, Burst
  <1>3. PICK y : Hits(r, g, B, e, y)
    BY <1>1, <1>2, BurstHit
  <1>4. \A x \in B : Evaluated(r, x)' => y[x] # 0
    <2>1. \A x \in B : Evaluated(r, x) => zset[r][g][x] # 0
      BY <1>1 DEF BurstGood
    <2>2. \A x \in B : Evaluated(r, x)' => Evaluated(r, x) \/ x = e
      BY DEF Evaluates
    <2>3. QED
      BY <1>2, <1>3, <2>1, <2>2 DEF Hits
  <1>5. ASSUME \A x \in B : y[x] # 0, Cardinality(B) >= Threshold[r] PROVE \E f \in fired' : f.rule = r /\ f.ev \in B
    <2>1. Fires(r, e)
      BY <1>3, <1>5 DEF Hits
    <2>2. PICK f : f = [rule |-> r, ev |-> e, now |-> PlanTime(r, e)]
      OBVIOUS
    <2>3. f \in fired' /\ f.rule = r /\ f.ev = e
      BY <2>1, <2>2 DEF Evaluates
    <2>4. QED
      BY <1>2, <2>3
  <1>6. QED
    BY <1>2, <1>3, <1>4, <1>5, BurstFits DEF Hits

LEMMA BurstStep ==
    ASSUME Shape, BurstsOK, [Next]_vars
    PROVE  BurstsOK'
  <1>0. Types /\ UNCHANGED topic
    BY NextIs DEF Shape
  <1>1. SUFFICES ASSUME NEW r \in Rules, NEW g \in Groups, Countable(r, g)' PROVE BurstGood(r, g)'
    BY DEF BurstsOK
  <1>2. Countable(r, g) /\ BurstGood(r, g) /\ <<r, g>> \notin lapsed'
    <2>1. Countable(r, g)
      BY <1>0, <1>1, CountableBefore
    <2>2. QED
      BY <1>1, <2>1 DEF BurstsOK, Countable, Together
  <1>3. \A x \in Burst(r, g) : <<r, x>> \in Matching /\ GroupOf[r][x] = g
    BY <1>0, BurstIs
  <1>4. ASSUME UNCHANGED <<job, acked>>, zset'[r][g] = zset[r][g] PROVE BurstGood(r, g)'
    <2>1. \A x \in Burst(r, g) : Evaluated(r, x)' => Evaluated(r, x)
      BY <1>4 DEF Evaluated
    <2>2. QED
      BY <1>0, <1>2, <1>4, <2>1, BurstStays
  <1>5. CASE Tick
    BY <1>0, <1>2, <1>4, <1>5, TickSets DEF Tick
  <1>6. CASE UNCHANGED vars
    BY <1>4, <1>6 DEF vars
  <1>7. ASSUME NEW p \in Workers, Worker(p), ~Evaluate(p) PROVE BurstGood(r, g)'
    <2>1. UNCHANGED zset
      BY <1>7 DEF Worker, Ends, Take, ReadMine, ReadTheirs, Emit, Enqueue, Record, SkipEnqueue, EmitRaises, EnqueueRaises,
                  Ack, Raise, Crash, redisVars
    <2>2. \A x \in Burst(r, g) : Evaluated(r, x)' => Evaluated(r, x)
      BY <1>3, <1>7, QuietStep
    <2>3. QED
      BY <1>0, <1>2, <2>1, <2>2, BurstStays
  <1>8. ASSUME NEW p \in Workers, Evaluate(p) PROVE BurstGood(r, g)'
    <2>1. PICK s \in Rules, e \in Events : Evaluates(s, e)
      BY <1>8, EvaluateStep
    <2>2. CASE s = r /\ GroupOf[r][e] = g
      BY <1>2, <2>1, <2>2, BurstEvaluated
    <2>3. CASE ~(s = r /\ GroupOf[r][e] = g)
      <3>1. zset'[r][g] = zset[r][g]
        <4>1. CASE UNCHANGED zset
          BY <4>1
        <4>2. ASSUME NEW h \in Groups, NEW y, h = GroupOf[s][e], WindowSet(s, h, y) PROVE zset'[r][g] = zset[r][g]
          BY <2>3, <4>2 DEF WindowSet
        <4>3. QED
          BY <2>1, <4>1, <4>2, HitIs DEF Evaluates
      <3>2. \A x \in Burst(r, g) : Evaluated(r, x)' => Evaluated(r, x)
        BY <1>3, <2>1, <2>3 DEF Evaluates
      <3>3. QED
        BY <1>0, <1>2, <3>1, <3>2, BurstStays
    <2>4. QED
      BY <2>2, <2>3
  <1>9. QED
    BY <1>0, <1>5, <1>6, <1>7, <1>8, NextIs
-----------------------------------------------------------------------------
(* The invariant.                                                          *)

LEMMA DetInit == Init => DetInv
  <1> SUFFICES ASSUME Init PROVE DetInv
    OBVIOUS
  <1>1. PICK d \in Deployments : up = d[1] /\ topic = d[2]
    BY DEF Init
  <1>2. up \subseteq Workers /\ topic \subseteq Events
    BY <1>1, ConstantsAssumption
  <1>3. \A r \in Rules, g \in Groups : zset[r][g] = EmptySet(r)
    BY DEF Init
  <1>4. \A r \in Rules : EmptySet(r) \in [MembersOf(r) -> Nat] /\ [MembersOf(r) -> Nat] \subseteq ZType
    BY DEF EmptySet, ZType
  <1>5. zset \in [Rules -> [Groups -> ZType]]
    <2>1. \A r \in Rules : EmptySet(r) \in ZType
      BY <1>4
    <2>2. \A r \in Rules : [g \in Groups |-> EmptySet(r)] \in [Groups -> ZType]
      BY <2>1
    <2>3. QED
      BY <2>2 DEF Init
  <1>6. \A p \in Workers : job[p] = Idle
    BY DEF Init
  <1>7. job \in [Workers -> JobType] /\ \A p \in Workers : job[p].pc = "idle"
    BY <1>6, IdleIs DEF Init
  <1>8. verdict \in [Events -> [matched : SUBSET Rules, dropped : SUBSET Rules]]
    BY DEF Init, NoVerdict
  <1>9. Types
    BY <1>2, <1>3, <1>4, <1>5, <1>7, <1>8 DEF Types, Init
  <1>10. Shape
    BY <1>7, <1>9 DEF Shape, JobGood
  <1>11. AlertsKeyed /\ SuppressionHasAlert /\ NeverFabricated
    BY DEF Init, AlertsKeyed, SuppressionHasAlert, NeverFabricated
  <1>12. \A r \in Rules, g \in Groups : \A m \in MembersOf(r) : zset[r][g][m] = 0
    <2>1. ASSUME NEW r \in Rules, NEW m \in MembersOf(r) PROVE EmptySet(r)[m] = 0
      BY DEF EmptySet
    <2>2. QED
      BY <1>3, <2>1
  <1>13. WindowsBacked
    BY <1>12 DEF WindowsBacked
  <1>14. ASSUME NEW r \in Rules, NEW g \in Groups, Countable(r, g) PROVE BurstGood(r, g)
    <2>1. \A m \in Events : zset[r][g][m] = 0
      BY <1>12, <1>14 DEF Countable, Together, MembersOf
    <2>2. \A x : ~Evaluated(r, x)
      BY <1>7 DEF Init, Evaluated
    <2>3. PICK B : B = Burst(r, g)
      OBVIOUS
    <2>4. B \subseteq Events
      BY <1>2, <2>3 DEF Burst
    <2>5. ~((\A x \in B : zset[r][g][x] # 0) /\ Cardinality(B) >= Threshold[r])
      <3>1. CASE B = {}
        BY <3>1, FS_EmptySet, RuleIs
      <3>2. CASE B # {}
        BY <2>1, <2>4, <3>2
      <3>3. QED
        BY <3>1, <3>2
    <2>6. QED
      BY <2>1, <2>2, <2>3, <2>5 DEF BurstGood
  <1>15. QED
    BY <1>10, <1>11, <1>13, <1>14 DEF DetInv, BurstsOK

LEMMA DetNext == DetInv /\ [Next]_vars => DetInv'
  BY ShapeStep, KeyedStep, SuppressionStep, BackedStep, FabricatedStep, BurstStep DEF DetInv, Shape

\* The invariant behind the results: what every handler holds, what every entry of a
\* window stands for, and how far the windows are with each burst.
THEOREM DetectorInvariant == Spec => []DetInv
  BY DetInit, DetNext, PTL DEF Spec

\* process(): whoever drops a companion's alert has put its sibling's alert on the bus
\* before the event is acked.
THEOREM SuppressionsCovered == Spec => []SuppressionHasAlert
  <1>1. DetInv => SuppressionHasAlert
    BY DEF DetInv
  <1>2. QED
    BY <1>1, DetectorInvariant, PTL

\* hit, hit_distinct: a stateful rule matches only when threshold many members within its
\* window were delivered, redeliveries and races of replicas on the window included.
THEOREM NothingFabricated == Spec => []NeverFabricated
  <1>1. DetInv => NeverFabricated
    BY DEF DetInv
  <1>2. QED
    BY <1>1, DetectorInvariant, PTL

\* _window_time_of: a burst received together fires its rule, whatever record times its
\* author wrote, in whatever order and on whatever replicas it is evaluated.
THEOREM BurstsCounted == Spec => []BurstIsCounted
  <1>1. DetInv => BurstIsCounted
    <2>1. ASSUME DetInv, NEW r \in Rules \ DistinctRules, NEW g \in Groups,
                 Together(r, g), Burst(r, g) \subseteq acked, Cardinality(Burst(r, g)) >= Threshold[r]
          PROVE  \E f \in fired : f.rule = r /\ f.ev \in Burst(r, g)
      <3>1. BurstGood(r, g)
        BY <2>1 DEF DetInv, BurstsOK, Countable
      <3>2. \A x \in Burst(r, g) : Evaluated(r, x)
        BY <2>1 DEF Evaluated
      <3>3. QED
        BY <2>1, <3>1, <3>2 DEF BurstGood
    <2>2. QED
      BY <2>1 DEF BurstIsCounted
  <1>2. QED
    BY <1>1, DetectorInvariant, PTL
-----------------------------------------------------------------------------
(* Triage requests.                                                        *)

\* Some request on ai.requests names the key.
Named(key) == \E q \in requests : key \in q.keys

\* Every rule that replica p keeps for its event is named.
Asked(p) == \A r \in Kept(p) : Named(AlertKey(r, job[p].ev))

\* A cooldown is on record only for a key that was asked for; a replica that is about to
\* record or to ack has nothing left to ask for; nor has an acked event.
TriageInv ==
    /\ DOMAIN funnel = Workers /\ \A p \in Workers : \A x \in funnel[p] : Named(x.key)
    /\ \A p \in Workers : job[p].pc = "record" => Asked(p)
    /\ \A p \in Workers : job[p].pc = "ack" => Route(Kept(p)) = "store" \/ Asked(p)
    /\ AckedIsTriaged

\* record_enqueue adds no key but the one it is given.
LEMMA RecordedIs ==
    ASSUME NEW table, NEW key, NEW now
    PROVE  \A x \in Recorded(table, key, now) : x \in table \/ x.key = key
  BY DEF Recorded

LEMMA RequestsGrow ==
    ASSUME Types, [Next]_vars
    PROVE  requests \subseteq requests'
  <1>1. ASSUME NEW p \in Workers, Worker(p) PROVE requests \subseteq requests'
    BY <1>1 DEF Worker, Ends, Take, Evaluate, ReadMine, ReadTheirs, Emit, Enqueue, Record, SkipEnqueue, EmitRaises, EnqueueRaises,
                Ack, Raise, Crash, bus
  <1>2. QED
    BY <1>1, NextIs DEF Tick, bus, vars

\* The cooldown table of a replica changes when it records and when it dies.
LEMMA FunnelChanges ==
    ASSUME Shape, TriageInv, NEW p \in Workers, Worker(p)
    PROVE  /\ DOMAIN funnel' = Workers /\ \A u \in Workers \ {p} : funnel'[u] = funnel[u]
           /\ \A x \in funnel'[p] : Named(x.key)
  <1>1. CASE UNCHANGED funnel
    BY <1>1 DEF TriageInv
  <1>2. CASE Crash(p)
    BY <1>2 DEF Crash, TriageInv
  <1>3. CASE Record(p)
    <2>1. job[p].pc = "record" /\ job[p].todo # {} /\ job[p].todo \subseteq Kept(p)
      BY <1>3 DEF Record, Shape, JobGood
    <2>2. PICK r \in job[p].todo : r = CHOOSE x \in job[p].todo : TRUE
      BY <2>1
    <2>3. PICK key : key = AlertKey(r, job[p].ev)
      OBVIOUS
    <2>4. PICK table : table = Recorded(funnel[p], key, clock)
      OBVIOUS
    <2>5. Named(key)
      BY <2>1, <2>2, <2>3 DEF TriageInv, Asked
    <2>6. \A x \in table : Named(x.key)
      <3>1. \A x \in table : x \in funnel[p] \/ x.key = key
        BY <2>4, RecordedIs
      <3>2. QED
        BY <2>5, <3>1 DEF TriageInv
    <2>7. funnel' = [funnel EXCEPT ![p] = table]
      BY <1>3, <2>2, <2>3, <2>4 DEF Record
    <2>8. DOMAIN funnel' = Workers /\ funnel'[p] = table /\ \A u \in Workers \ {p} : funnel'[u] = funnel[u]
      BY <2>7 DEF TriageInv
    <2>9. QED
      BY <2>6, <2>8
  <1>4. QED
    BY <1>1, <1>2, <1>3 DEF Worker, Ends, Take, Evaluate, ReadMine, ReadTheirs, Emit, Enqueue, SkipEnqueue, EmitRaises, EnqueueRaises,
                            Ack, Raise

\* _emit: a replica that skips the request has no need of one, or every key is named already.
LEMMA SkipIsAsked ==
    ASSUME TriageInv, NEW p \in Workers, ~Wanted(p)
    PROVE  Route(Kept(p)) = "store" \/ Asked(p)
  <1>1. SUFFICES ASSUME ~FunnelFresh(p, Kept(p), job[p].ev), NEW r \in Kept(p) PROVE Named(AlertKey(r, job[p].ev))
    BY DEF Wanted, Asked
  <1>2. ~KeyFresh(p, AlertKey(r, job[p].ev))
    BY <1>1 DEF FunnelFresh
  <1>3. QED
    BY <1>2 DEF KeyFresh, TriageInv

\* A replica that has just asked, or goes on recording, has asked for all it keeps.
LEMMA AskedAfter ==
    ASSUME Shape, TriageInv, NEW p \in Workers, Enqueue(p) \/ Record(p)
    PROVE  \A r \in Kept(p) : \E q \in requests' : AlertKey(r, job[p].ev) \in q.keys
  <1>1. CASE Enqueue(p)
    <2>1. Request(p) \in requests' /\ Request(p).keys = {AlertKey(r, job[p].ev) : r \in Kept(p)}
      BY <1>1 DEF Enqueue, Request
    <2>2. QED
      BY <2>1
  <1>2. CASE Record(p)
    BY <1>2 DEF Record, bus, TriageInv, Asked, Named
  <1>3. QED
    BY <1>1, <1>2

\* What replica p's job has to be after a step, in terms of that job.
LEMMA AskedFits ==
    ASSUME NEW p \in Workers, NEW j, job'[p] = j,
           j.pc = "record" => \A r \in j.matched \ j.dropped : \E q \in requests' : AlertKey(r, j.ev) \in q.keys,
           j.pc = "ack" => \/ Route(j.matched \ j.dropped) = "store"
                           \/ \A r \in j.matched \ j.dropped : \E q \in requests' : AlertKey(r, j.ev) \in q.keys
    PROVE  (job[p].pc = "record" => Asked(p))' /\ (job[p].pc = "ack" => Route(Kept(p)) = "store" \/ Asked(p))'
  BY DEF Asked, Named, Kept, AlertKey, WindowTime, Stateful, EffectiveSkew

LEMMA MoverAsked ==
    ASSUME Shape, TriageInv, [Next]_vars, NEW p \in Workers, Worker(p)
    PROVE  (job[p].pc = "record" => Asked(p))' /\ (job[p].pc = "ack" => Route(Kept(p)) = "store" \/ Asked(p))'
  <1>0. Types
    BY DEF Shape
  <1>1. CASE Enqueue(p) \/ Record(p)
    <2>1. PICK j : Moves(p, j) /\ j.ev = job[p].ev /\ j.matched = job[p].matched /\ j.dropped = job[p].dropped
      BY <1>1, RecordsIs
    <2>2. \A r \in j.matched \ j.dropped : \E q \in requests' : AlertKey(r, j.ev) \in q.keys
      BY <1>1, <2>1, AskedAfter DEF Kept
    <2>3. QED
      BY <2>1, <2>2, AskedFits DEF Moves
  <1>2. CASE SkipEnqueue(p)
    <2>1. Goto(p, "ack") /\ ~Wanted(p)
      BY <1>2 DEF SkipEnqueue
    <2>2. PICK j : Moves(p, j) /\ j.pc = "ack" /\ j.ev = job[p].ev /\ j.matched = job[p].matched /\ j.dropped = job[p].dropped
      BY <1>0, <2>1, GotoIs
    <2>3. Route(Kept(p)) = "store" \/ \A r \in Kept(p) : \E q \in requests' : AlertKey(r, job[p].ev) \in q.keys
      BY <1>0, <2>1, SkipIsAsked, RequestsGrow DEF Asked, Named
    <2>4. QED
      BY <2>2, <2>3, AskedFits DEF Moves, Kept
  <1>3. ASSUME ~(Enqueue(p) \/ Record(p)), ~SkipEnqueue(p) PROVE \E j : Moves(p, j) /\ j.pc \notin {"record", "ack"}
    <2>1. ASSUME NEW e \in topic, Take(p, e) PROVE \E j : Moves(p, j) /\ j.pc \notin {"record", "ack"}
      <3>1. e \in Events
        BY <1>0 DEF Types
      <3>2. PICK j : Moves(p, j) /\ (j.pc = "eval" \/ j.pc = "mine")
        BY <1>0, <2>1, <3>1, TakeIs
      <3>3. QED
        BY <3>2
    <2>2. CASE Evaluate(p)
      <3>1. PICK j \in JobType : Moves(p, j) /\ (j.pc = "eval" \/ j.pc = "mine")
        BY <2>2, EvaluateIs
      <3>2. QED
        BY <3>1
    <2>3. CASE ReadMine(p)
      BY <2>3, ReadMineIs
    <2>4. CASE ReadTheirs(p)
      BY <2>4, ReadTheirsIs
    <2>5. CASE Emit(p)
      BY <1>0, <2>5, EmitSends, GotoIs
    <2>6. CASE Ends(p)
      BY <1>0, <2>6, EndsIs, IdleIs
    <2>7. QED
      BY <1>3, <2>1, <2>2, <2>3, <2>4, <2>5, <2>6 DEF Worker
  <1>4. CASE ~(Enqueue(p) \/ Record(p)) /\ ~SkipEnqueue(p)
    <2>1. PICK j : Moves(p, j) /\ j.pc \notin {"record", "ack"}
      BY <1>3, <1>4
    <2>2. QED
      BY <2>1, AskedFits DEF Moves
  <1>5. QED
    BY <1>1, <1>2, <1>4

\* A job that did not move has asked for what it had asked for.
LEMMA StayerAsked ==
    ASSUME TriageInv, requests \subseteq requests', NEW u \in Workers, job'[u] = job[u]
    PROVE  (job[u].pc = "record" => Asked(u))' /\ (job[u].pc = "ack" => Route(Kept(u)) = "store" \/ Asked(u))'
  <1>1. PICK j : j = job[u]
    OBVIOUS
  <1>2. j.pc = "record" => \A r \in j.matched \ j.dropped : \E q \in requests' : AlertKey(r, j.ev) \in q.keys
    BY <1>1 DEF TriageInv, Asked, Named, Kept
  <1>3. j.pc = "ack" => \/ Route(j.matched \ j.dropped) = "store"
                        \/ \A r \in j.matched \ j.dropped : \E q \in requests' : AlertKey(r, j.ev) \in q.keys
    BY <1>1 DEF TriageInv, Asked, Named, Kept
  <1>4. QED
    BY <1>1, <1>2, <1>3, AskedFits

LEMMA TriagedStep ==
    ASSUME Shape, TriageInv, [Next]_vars
    PROVE  AckedIsTriaged'
  <1>0. Types /\ requests \subseteq requests'
    BY RequestsGrow DEF Shape
  <1>1. ASSUME NEW e \in acked, verdict'[e] = verdict[e], Route(verdict'[e].matched) # "store", NEW r \in verdict'[e].matched
        PROVE  \E q \in requests' : AlertKey(r, e) \in q.keys
    BY <1>0, <1>1 DEF TriageInv, AckedIsTriaged
  <1>2. ASSUME NEW p \in Workers, Ack(p), NEW x \in acked', Route(verdict'[x].matched) # "store", NEW r \in verdict'[x].matched
        PROVE  \E q \in requests' : AlertKey(r, x) \in q.keys
    <2>1. job[p].pc = "ack" /\ UNCHANGED requests
      BY <1>2 DEF Ack, bus
    <2>2. PICK e \in Events : e = job[p].ev
      BY <2>1, BusyIs
    <2>3. PICK v : v = [matched |-> Kept(p), dropped |-> job[p].dropped]
      OBVIOUS
    <2>4. acked' = acked \cup {e} /\ verdict' = [verdict EXCEPT ![e] = v]
      BY <1>2, <2>2, <2>3 DEF Ack
    <2>5. verdict'[e].matched = Kept(p) /\ \A y \in acked \ {e} : verdict'[y] = verdict[y]
      BY <1>0, <2>2, <2>3, <2>4 DEF Types
    <2>6. CASE x = e
      BY <1>2, <2>1, <2>2, <2>5, <2>6 DEF TriageInv, Asked, Named
    <2>7. CASE x # e
      BY <1>1, <1>2, <2>4, <2>5, <2>7
    <2>8. QED
      BY <2>6, <2>7
  <1>3. ASSUME NEW p \in Workers, Worker(p), ~Ack(p) PROVE UNCHANGED <<acked, verdict>>
    BY <1>3 DEF Worker, Ends, Take, Evaluate, ReadMine, ReadTheirs, Emit, Enqueue, Record, SkipEnqueue, EmitRaises, EnqueueRaises, Raise, Crash
  <1>4. UNCHANGED <<acked, verdict>> \/ \E p \in Workers : Ack(p)
    BY <1>0, <1>3, NextIs DEF Tick, vars
  <1>5. \A e \in acked' : Route(verdict'[e].matched) # "store" =>
            \A r \in verdict'[e].matched : \E q \in requests' : AlertKey(r, e) \in q.keys
    BY <1>1, <1>2, <1>4
  <1>6. QED
    BY <1>5 DEF AckedIsTriaged

LEMMA TriageNext ==
    ASSUME Shape, TriageInv, [Next]_vars
    PROVE  TriageInv'
  <1>0. Types /\ requests \subseteq requests'
    BY RequestsGrow DEF Shape
  <1>1. DOMAIN funnel' = Workers /\ \A u \in Workers : \A x \in funnel'[u] : \E q \in requests' : x.key \in q.keys
    <2>1. CASE UNCHANGED funnel
      BY <1>0, <2>1 DEF TriageInv, Named
    <2>2. ASSUME NEW p \in Workers, Worker(p)
          PROVE  DOMAIN funnel' = Workers /\ \A u \in Workers : \A x \in funnel'[u] : \E q \in requests' : x.key \in q.keys
      BY <1>0, <2>2, FunnelChanges DEF TriageInv, Named
    <2>3. QED
      BY <1>0, <2>1, <2>2, NextIs DEF Tick, vars
  <1>2. ASSUME NEW u \in Workers
        PROVE  (job[u].pc = "record" => Asked(u))' /\ (job[u].pc = "ack" => Route(Kept(u)) = "store" \/ Asked(u))'
    <2>1. CASE UNCHANGED job
      BY <1>0, <2>1, StayerAsked
    <2>2. ASSUME NEW p \in Workers, Worker(p)
          PROVE  (job[u].pc = "record" => Asked(u))' /\ (job[u].pc = "ack" => Route(Kept(u)) = "store" \/ Asked(u))'
      <3>1. CASE u = p
        BY <2>2, <3>1, MoverAsked
      <3>2. CASE u # p
        <4>1. job'[u] = job[u]
          BY <2>2, <3>2, WorkerMoves DEF Moves
        <4>2. QED
          BY <1>0, <4>1, StayerAsked
      <3>3. QED
        BY <3>1, <3>2
    <2>3. QED
      BY <1>0, <2>1, <2>2, NextIs DEF Tick, vars
  <1>3. QED
    BY <1>1, <1>2, TriagedStep DEF TriageInv, Named

LEMMA TriageInit == Init => TriageInv
  <1> SUFFICES ASSUME Init PROVE TriageInv
    OBVIOUS
  <1>1. \A p \in Workers : job[p].pc = "idle"
    BY IdleIs DEF Init
  <1>2. QED
    BY <1>1 DEF Init, TriageInv, AckedIsTriaged

\* _emit's ordering contract: an acked event whose score asks for triage has every key it
\* matched named by a request, whatever call failed, whichever replica died or was sent the
\* event again, and although a table forgets its oldest entries at its budget.
THEOREM AckedAreTriaged == Spec => []AckedIsTriaged
  <1>1. DetInv /\ TriageInv /\ [Next]_vars => TriageInv'
    BY TriageNext DEF DetInv
  <1>2. TriageInv => AckedIsTriaged
    BY DEF TriageInv
  <1>3. QED
    BY <1>1, <1>2, TriageInit, DetectorInvariant, PTL DEF Spec
-----------------------------------------------------------------------------
(* Incidents.                                                              *)

\* Whoever has evaluated rule r for event x, and the attempt that acked x, matched it.
Convinced(r, x) ==
    /\ \A u \in Workers : Passed(u, r, x) => r \in job[u].matched
    /\ x \in acked => r \in verdict[x].matched \cup verdict[x].dropped

\* The whole burst is in the window, and enough to fire.
Full(r, g) == (\A x \in Burst(r, g) : zset[r][g][x] # 0) /\ Cardinality(Burst(r, g)) >= Threshold[r]

\* What an acked attempt kept is on the bus.  A full window has an event that nobody saw
\* before the window was full: each attempt at that event matches.
IncidentInv ==
    /\ \A e \in acked : \A r \in verdict[e].matched : \E a \in alerts : a.rule = r /\ a.ev = e
    /\ \A r \in Rules, g \in Groups : Countable(r, g) /\ Full(r, g) => \E x \in Burst(r, g) : Convinced(r, x)

\* What replica p's job has to be after a step, in terms of that job.
LEMMA ConvincedMoves ==
    ASSUME NEW p \in Workers, NEW j, Moves(p, j), NEW r, NEW x, UNCHANGED <<acked, verdict>>,
           \A u \in Workers \ {p} : Passed(u, r, x) => r \in job[u].matched,
           x \in acked => r \in verdict[x].matched \cup verdict[x].dropped,
           j.pc # "idle" /\ j.ev = x /\ (j.pc = "eval" => r \notin j.todo) => r \in j.matched
    PROVE  Convinced(r, x)'
  <1>1. ASSUME NEW u \in Workers, job'[u].pc # "idle", job'[u].ev = x, job'[u].pc = "eval" => r \notin job'[u].todo
        PROVE  r \in job'[u].matched
    <2>1. CASE u = p
      BY <1>1, <2>1 DEF Moves
    <2>2. CASE u # p
      <3>1. job'[u] = job[u]
        BY <2>2 DEF Moves
      <3>2. QED
        BY <1>1, <2>2, <3>1 DEF Passed
    <2>3. QED
      BY <2>1, <2>2
  <1>2. QED
    BY <1>1 DEF Convinced, Passed

\* An evaluation convinces of the event it fires on, and of no event less than before.
LEMMA ConvincedEvaluated ==
    ASSUME Shape, NEW p \in Workers, Evaluate(p), NEW s, NEW e, NEW j, JobEvaluates(p, s, e, j), NEW r, NEW x,
           Convinced(r, x) \/ (r = s /\ x = e /\ ~Evaluated(r, x)),
           r = s /\ x = e => Fires(r, x)
    PROVE  Convinced(r, x)'
  <1>1. UNCHANGED <<acked, verdict>>
    BY DEF Evaluate
  <1>2. /\ \A u \in Workers : Passed(u, r, x) => r \in job[u].matched
        /\ x \in acked => r \in verdict[x].matched \cup verdict[x].dropped
    BY EvaluatedIs DEF Convinced
  <1>3. ASSUME j.pc # "idle", j.ev = x, j.pc = "eval" => r \notin j.todo PROVE r \in j.matched
    <2>1. CASE r = s
      BY <1>3, <2>1 DEF JobEvaluates
    <2>2. CASE r # s
      <3>1. r \notin job[p].todo
        BY <1>3, <2>2 DEF JobEvaluates
      <3>2. Passed(p, r, x)
        BY <1>3, <3>1 DEF JobEvaluates, Passed
      <3>3. QED
        BY <1>2, <3>2 DEF JobEvaluates
    <2>3. QED
      BY <2>1, <2>2
  <1>4. Moves(p, j)
    BY DEF JobEvaluates
  <1>5. QED
    BY <1>1, <1>2, <1>3, <1>4, ConvincedMoves

\* The other steps of a replica convince nobody of the contrary.
LEMMA ConvincedQuiet ==
    ASSUME Shape, NEW p \in Workers, Worker(p), ~Evaluate(p), NEW r \in Rules, NEW x \in Events, <<r, x>> \in Matching,
           Convinced(r, x)
    PROVE  Convinced(r, x)'
  <1>0. Types /\ \A u \in Workers : Passed(u, r, x) => r \in job[u].matched
    BY DEF Shape, Convinced
  <1>a. x \in acked => r \in verdict[x].matched \cup verdict[x].dropped
    BY DEF Convinced
  <1>1. ASSUME NEW e \in topic, Take(p, e) PROVE Convinced(r, x)'
    <2>1. e \in Events /\ UNCHANGED <<acked, verdict>>
      BY <1>0, <1>1 DEF Types, Take
    <2>2. PICK j : /\ Moves(p, j) /\ j.ev = e
                   /\ \/ j.pc = "eval" /\ j.todo = {s \in Rules : <<s, e>> \in Matching}
                      \/ j.pc = "mine" /\ \A s \in Rules : <<s, e>> \notin Matching
      BY <1>0, <1>1, <2>1, TakeIs
    <2>3. ~(j.ev = x /\ (j.pc = "eval" => r \notin j.todo))
      BY <2>2
    <2>4. QED
      BY <1>0, <1>a, <2>1, <2>2, <2>3, ConvincedMoves
  <1>2. ASSUME NEW j, Moves(p, j), UNCHANGED <<acked, verdict>>, job[p].pc \notin {"idle", "eval"}, j.ev = job[p].ev,
               j.matched = job[p].matched
        PROVE  Convinced(r, x)'
    <2>1. j.ev = x => r \in j.matched
      BY <1>0, <1>2 DEF Passed
    <2>2. QED
      BY <1>0, <1>a, <1>2, <2>1, ConvincedMoves
  <1>3. CASE ReadMine(p)
    BY <1>2, <1>3, ReadMineIs DEF ReadMine
  <1>4. CASE ReadTheirs(p)
    BY <1>2, <1>4, ReadTheirsIs DEF ReadTheirs
  <1>5. CASE Enqueue(p) \/ Record(p)
    <2>1. UNCHANGED <<acked, verdict>>
      BY <1>5 DEF Enqueue, Record
    <2>2. QED
      BY <1>2, <1>5, <2>1, RecordsIs
  <1>6. CASE Emit(p) \/ SkipEnqueue(p)
    <2>1. PICK to \in {"funnel", "ack"} : Goto(p, to) /\ UNCHANGED <<acked, verdict>> /\ job[p].pc \notin {"idle", "eval"}
      BY <1>6 DEF Emit, SkipEnqueue
    <2>2. PICK j : Moves(p, j) /\ j.ev = job[p].ev /\ j.matched = job[p].matched
      BY <1>0, <2>1, GotoIs
    <2>3. QED
      BY <1>2, <2>1, <2>2
  <1>7. CASE Ends(p) /\ ~Ack(p)
    <2>1. Moves(p, Idle) /\ Idle.pc = "idle" /\ UNCHANGED <<acked, verdict>>
      BY <1>0, <1>7, EndsIs, IdleIs DEF Ends, EmitRaises, EnqueueRaises, Raise, Crash
    <2>2. QED
      BY <1>0, <1>a, <2>1, ConvincedMoves
  <1>8. CASE Ack(p)
    <2>1. Moves(p, Idle) /\ Idle.pc = "idle" /\ job[p].pc = "ack"
      BY <1>0, <1>8, EndsIs, IdleIs DEF Ends, Ack
    <2>2. PICK e \in Events : e = job[p].ev
      BY <2>1, BusyIs
    <2>3. PICK v : v = [matched |-> Kept(p), dropped |-> job[p].dropped]
      OBVIOUS
    <2>4. acked' = acked \cup {e} /\ verdict' = [verdict EXCEPT ![e] = v]
      BY <1>8, <2>2, <2>3 DEF Ack
    <2>5. /\ verdict'[e].matched \cup verdict'[e].dropped = Kept(p) \cup job[p].dropped
          /\ \A y \in Events \ {e} : verdict'[y] = verdict[y]
      BY <1>0, <2>2, <2>3, <2>4 DEF Types
    <2>6. x = e => r \in verdict'[e].matched \cup verdict'[e].dropped
      BY <1>0, <2>1, <2>2, <2>5 DEF Passed, Kept
    <2>7. x \in acked' => r \in verdict'[x].matched \cup verdict'[x].dropped
      BY <1>a, <2>4, <2>5, <2>6
    <2>8. ASSUME NEW u \in Workers, Passed(u, r, x)' PROVE r \in job'[u].matched
      <3>1. u # p /\ job'[u] = job[u]
        BY <2>1, <2>8 DEF Moves, Passed
      <3>2. QED
        BY <1>0, <2>8, <3>1 DEF Passed
    <2>9. QED
      BY <2>7, <2>8 DEF Convinced
  <1>9. QED
    BY <1>1, <1>3, <1>4, <1>5, <1>6, <1>7, <1>8 DEF Worker
LEMMA KeptIsSent ==
    ASSUME Shape, IncidentInv, [Next]_vars
    PROVE  \A e \in acked' : \A r \in verdict'[e].matched : \E a \in alerts' : a.rule = r /\ a.ev = e
  <1>0. Types /\ alerts \subseteq alerts'
    BY Grows DEF Shape
  <1>1. CASE UNCHANGED <<acked, verdict>>
    BY <1>0, <1>1 DEF IncidentInv
  <1>2. ASSUME NEW p \in Workers, Ack(p), NEW x \in acked', NEW r \in verdict'[x].matched
        PROVE  \E a \in alerts' : a.rule = r /\ a.ev = x
    <2>1. job[p].pc = "ack"
      BY <1>2 DEF Ack
    <2>2. PICK e \in Events : e = job[p].ev
      BY <2>1, BusyIs
    <2>3. PICK v : v = [matched |-> Kept(p), dropped |-> job[p].dropped]
      OBVIOUS
    <2>4. acked' = acked \cup {e} /\ verdict' = [verdict EXCEPT ![e] = v]
      BY <1>2, <2>2, <2>3 DEF Ack
    <2>5. verdict'[e].matched = Kept(p) /\ \A y \in acked \ {e} : verdict'[y] = verdict[y]
      BY <1>0, <2>2, <2>3, <2>4 DEF Types
    <2>6. \A k \in Kept(p) : \E a \in alerts : a.rule = k /\ a.ev = e
      BY <2>1, <2>2 DEF Shape, JobGood
    <2>7. CASE x = e
      BY <1>0, <1>2, <2>5, <2>6, <2>7
    <2>8. CASE x # e
      BY <1>0, <1>2, <2>4, <2>5, <2>8 DEF IncidentInv
    <2>9. QED
      BY <2>7, <2>8
  <1>3. ASSUME NEW p \in Workers, Worker(p), ~Ack(p) PROVE UNCHANGED <<acked, verdict>>
    BY <1>3 DEF Worker, Ends, Take, Evaluate, ReadMine, ReadTheirs, Emit, Enqueue, Record, SkipEnqueue, EmitRaises, EnqueueRaises, Raise, Crash
  <1>4. UNCHANGED <<acked, verdict>> \/ \E p \in Workers : Ack(p)
    BY <1>0, <1>3, NextIs DEF Tick, vars
  <1>5. QED
    BY <1>1, <1>2, <1>4

LEMMA FullConvinces ==
    ASSUME Shape, BurstsOK, IncidentInv, [Next]_vars, NEW r \in Rules, NEW g \in Groups, Countable(r, g)', Full(r, g)'
    PROVE  \E x \in Burst(r, g) : Convinced(r, x)'
  <1>0. Types /\ UNCHANGED topic
    BY NextIs DEF Shape
  <1>1. Countable(r, g) /\ BurstGood(r, g) /\ <<r, g>> \notin lapsed'
    <2>1. Countable(r, g)
      BY <1>0, CountableBefore
    <2>2. QED
      BY <2>1 DEF BurstsOK, Countable, Together
  <1>2. PICK B : B = Burst(r, g)
    OBVIOUS
  <1>3. B \subseteq Events /\ B = Burst(r, g)' /\ \A x \in B : <<r, x>> \in Matching /\ GroupOf[r][x] = g
    BY <1>0, <1>2, BurstIs
  <1>4. (\A x \in B : zset'[r][g][x] # 0) /\ Cardinality(B) >= Threshold[r]
    BY <1>3 DEF Full
  <1>5. ASSUME zset'[r][g] = zset[r][g] PROVE \E x \in B : Convinced(r, x)
    BY <1>1, <1>2, <1>4, <1>5 DEF IncidentInv, Full
  <1>6. ASSUME UNCHANGED <<job, acked, verdict>>, zset'[r][g] = zset[r][g] PROVE \E x \in B : Convinced(r, x)'
    BY <1>5, <1>6 DEF Convinced, Passed
  <1>7. CASE Tick
    BY <1>0, <1>1, <1>2, <1>6, <1>7, TickSets DEF Tick
  <1>8. CASE UNCHANGED vars
    BY <1>2, <1>6, <1>8 DEF vars
  <1>9. ASSUME NEW p \in Workers, Worker(p), ~Evaluate(p) PROVE \E x \in B : Convinced(r, x)'
    <2>1. UNCHANGED zset
      BY <1>9 DEF Worker, Ends, Take, ReadMine, ReadTheirs, Emit, Enqueue, Record, SkipEnqueue, EmitRaises, EnqueueRaises,
                  Ack, Raise, Crash, redisVars
    <2>2. PICK x \in B : Convinced(r, x)
      BY <1>5, <2>1
    <2>3. QED
      BY <1>3, <1>9, <2>2, ConvincedQuiet
  <1>10. ASSUME NEW p \in Workers, Evaluate(p) PROVE \E x \in B : Convinced(r, x)'
    <2>1. PICK s \in Rules, e \in Events, j \in JobType : Evaluates(s, e) /\ JobEvaluates(p, s, e, j)
      BY <1>10, EvaluateStep
    <2>2. CASE s = r /\ GroupOf[r][e] = g
      <3>1. e \in B
        BY <1>2, <2>1, <2>2 DEF Evaluates, Burst
      <3>2. PICK y : Hits(r, g, B, e, y)
        BY <1>1, <1>2, <2>1, <2>2, <3>1, BurstHit
      <3>3. Fires(r, e) /\ \A x \in B \ {e} : zset[r][g][x] # 0
        BY <1>3, <1>4, <3>2 DEF Hits
      <3>4. CASE zset[r][g][e] # 0
        <4>1. PICK x \in B : Convinced(r, x)
          BY <1>1, <1>2, <1>4, <3>3, <3>4 DEF IncidentInv, Full
        <4>2. QED
          BY <1>10, <2>1, <2>2, <3>3, <4>1, ConvincedEvaluated
      <3>5. CASE zset[r][g][e] = 0
        <4>1. ~Evaluated(r, e)
          BY <1>1, <1>2, <3>1, <3>5 DEF BurstGood
        <4>2. QED
          BY <1>10, <2>1, <2>2, <3>1, <3>3, <4>1, ConvincedEvaluated
      <3>6. QED
        BY <3>4, <3>5
    <2>3. CASE ~(s = r /\ GroupOf[r][e] = g)
      <3>1. zset'[r][g] = zset[r][g]
        <4>1. CASE UNCHANGED zset
          BY <4>1
        <4>2. ASSUME NEW h \in Groups, NEW y, h = GroupOf[s][e], WindowSet(s, h, y) PROVE zset'[r][g] = zset[r][g]
          BY <2>3, <4>2 DEF WindowSet
        <4>3. QED
          BY <2>1, <4>1, <4>2, HitIs DEF Evaluates
      <3>2. PICK x \in B : Convinced(r, x)
        BY <1>5, <3>1
      <3>3. ~(r = s /\ x = e)
        BY <1>3, <2>3, <3>2
      <3>4. QED
        BY <1>10, <2>1, <3>2, <3>3, ConvincedEvaluated
    <2>4. QED
      BY <2>2, <2>3
  <1>11. QED
    BY <1>0, <1>2, <1>7, <1>8, <1>9, <1>10, NextIs

LEMMA IncidentNext ==
    ASSUME Shape, BurstsOK, IncidentInv, [Next]_vars
    PROVE  IncidentInv'
  <1>1. \A e \in acked' : \A r \in verdict'[e].matched : \E a \in alerts' : a.rule = r /\ a.ev = e
    BY KeptIsSent
  <1>2. ASSUME NEW r \in Rules, NEW g \in Groups, Countable(r, g)', Full(r, g)'
        PROVE  \E x \in Burst(r, g)' : Convinced(r, x)'
    <2>1. Types /\ UNCHANGED topic
      BY NextIs DEF Shape
    <2>2. PICK x \in Burst(r, g) : Convinced(r, x)'
      BY <1>2, FullConvinces
    <2>3. QED
      BY <2>1, <2>2, BurstIs
  <1>3. QED
    BY <1>1, <1>2 DEF IncidentInv

LEMMA IncidentInit == Init => IncidentInv
  <1> SUFFICES ASSUME Init PROVE IncidentInv
    OBVIOUS
  <1>1. acked = {}
    BY DEF Init
  <1>2. ASSUME NEW r \in Rules, NEW g \in Groups, Countable(r, g), Full(r, g) PROVE \E x \in Burst(r, g) : Convinced(r, x)
    <2>1. BurstGood(r, g) /\ \A f \in fired : FALSE
      BY <1>2, DetInit DEF DetInv, BurstsOK, Init
    <2>2. QED
      BY <1>2, <2>1 DEF BurstGood, Full
  <1>3. QED
    BY <1>1, <1>2 DEF IncidentInv

\* Times less than a window apart are in the same bucket or in neighbouring ones.
LEMMA BucketsAdjoin ==
    ASSUME NEW w \in Nat \ {0}, NEW t \in Nat, NEW u \in Nat, t <= u + w
    PROVE  t \div w <= (u \div w) + 1
  <1>1. PICK p \in Int, q \in Int : p = t \div w /\ q = u \div w
    OBVIOUS
  <1>2. w * p <= t /\ u < w * q + w
    BY <1>1
  <1>3. w * p < w * (q + 2)
    BY <1>2
  <1>4. p < q + 2
    BY <1>3
  <1>5. QED
    BY <1>1, <1>4
LEMMA BurstAlerted ==
    ASSUME DetInv, IncidentInv, NEW r \in Rules \ DistinctRules, NEW g \in Groups, Together(r, g),
           Burst(r, g) \subseteq acked, Cardinality(Burst(r, g)) >= Threshold[r]
    PROVE  \E a \in alerts : a.rule \in {r, CompanionOf[r]} /\ a.ev \in Burst(r, g)
  <1>1. Countable(r, g) /\ BurstGood(r, g)
    BY DEF DetInv, BurstsOK, Countable
  <1>2. \A x \in Burst(r, g) : Evaluated(r, x)
    BY DEF Evaluated
  <1>3. Full(r, g)
    BY <1>1, <1>2 DEF Full, BurstGood
  <1>4. PICK x \in Burst(r, g) : Convinced(r, x)
    BY <1>1, <1>3 DEF IncidentInv
  <1>5. x \in acked /\ r \in verdict[x].matched \cup verdict[x].dropped
    BY <1>4 DEF Convinced
  <1>6. CASE r \in verdict[x].matched
    BY <1>5, <1>6 DEF IncidentInv
  <1>7. CASE r \in verdict[x].dropped
    BY <1>5, <1>7 DEF DetInv, SuppressionHasAlert
  <1>8. QED
    BY <1>5, <1>6, <1>7

LEMMA BurstIdsAdjoin ==
    ASSUME DetInv, NEW r \in Rules, NEW g \in Groups, Together(r, g),
           NEW a \in alerts, NEW b \in alerts, a.rule = r, b.rule = r, {a.ev, b.ev} \subseteq Burst(r, g)
    PROVE  a.id[3] <= b.id[3] + 1
  <1>1. PICK x \in Events, y \in Events : x = a.ev /\ y = b.ev /\ ReceiptTime[x] = ReceiptTime[y]
    BY DEF DetInv, Shape, Types, Burst, Together
  <1>2. PICK w \in Nat \ {0} : w = Window[r]
    BY RuleIs DEF Together, Stateful
  <1>3. PICK h \in Nat : h = Window[r] \div 2 /\ h + h <= w
    <2>1. \A n \in Nat : n \div 2 \in Nat /\ (n \div 2) + (n \div 2) <= n
      OBVIOUS
    <2>2. QED
      BY <1>2, <2>1
  <1>4. PICK R \in Nat : R = ReceiptTime[x] /\ R = ReceiptTime[y]
    BY <1>1, EventIs
  <1>5. PICK t \in Nat : t = WindowTime(r, x) /\ R - h <= t /\ t <= R + h
    BY <1>3, <1>4, WindowTimeIs DEF Together
  <1>6. PICK u \in Nat : u = WindowTime(r, y) /\ R - h <= u /\ u <= R + h
    BY <1>3, <1>4, WindowTimeIs DEF Together
  <1>7. t \div w <= (u \div w) + 1
    <2>1. t <= u + w
      BY <1>3, <1>5, <1>6
    <2>2. QED
      BY <2>1, BucketsAdjoin
  <1>8. a.id[3] = t \div w /\ b.id[3] = u \div w
    <2>1. a.id = AlertKey(r, x) /\ b.id = AlertKey(r, y)
      BY <1>1 DEF DetInv, AlertsKeyed
    <2>2. Stateful(r)
      BY DEF Together
    <2>3. AlertKey(r, x) = <<r, GroupOf[r][x], t \div w>> /\ AlertKey(r, y) = <<r, GroupOf[r][y], u \div w>>
      BY <1>2, <1>5, <1>6, <2>2 DEF AlertKey
    <2>4. QED
      BY <2>1, <2>3
  <1>9. QED
    BY <1>7, <1>8

\* alert_key: a burst received together and acked has left an alert of its rule, or of the
\* sibling it was given up for, although attempts fail after they matched; and whichever
\* replicas and redeliveries raised them, its alerts have one id or two neighbouring ones,
\* whatever record times its author wrote.
THEOREM BurstsAreIncidents == Spec => []BurstIsOneIncident
  <1>1. DetInv /\ IncidentInv /\ [Next]_vars => IncidentInv'
    BY IncidentNext DEF DetInv
  <1>2. DetInv /\ IncidentInv => BurstIsOneIncident
    BY BurstAlerted, BurstIdsAdjoin DEF BurstIsOneIncident
  <1>3. QED
    BY <1>1, <1>2, IncidentInit, DetectorInvariant, PTL DEF Spec
=============================================================================
