--------------------------- MODULE CorrelatorProofs ---------------------------
(***************************************************************************)
(* Proofs about Correlator, for any alerts, tracks, replicas and faults,   *)
(* any horizon and any member cap: a life of a track has one incident id,  *)
(* no replica prunes a peer's fresh entry, two tactics that meet are never *)
(* missed, and the last incident of a track that has settled is complete.  *)
(***************************************************************************)
EXTENDS Correlator, FiniteSetTheorems, SequenceTheorems, NaturalsInduction, WellFoundedInduction, TLAPS

Tactics == {TacticOf[a] : a \in Alerts}

IncidentType ==
    [track : Tracks, id : Nat \ {0}, first : Nat, tactics : SUBSET Tactics, gen : Nat,
     members : SUBSET Alerts, trunc : BOOLEAN]

\* Where a worker is on a leg: before its record of the alert, or behind it.
Before == {"hit", "record"}
Behind == {"snapshot", "members", "prune", "cap", "mark", "bind"}

JobType ==
    [pc : Before \cup Behind \cup {"emit"}, alert : Alerts, now : Nat \ {0}, leg : Nat \ {0},
     side : [Alerts -> Nat], live : SUBSET Alerts, first : Nat, tac : SUBSET Tactics, trunc : BOOLEAN,
     out : Seq(IncidentType)]

RedisTypes ==
    /\ win \in [Tracks -> [Alerts -> Nat]] /\ wexp \in [Tracks -> Nat]
    /\ side \in [Tracks -> [Alerts -> Nat]] /\ first \in [Tracks -> Nat]
    /\ tac \in [Tracks -> SUBSET Tactics] /\ trunc \in [Tracks -> BOOLEAN]
    /\ cid \in [Tracks -> Nat] /\ texp \in [Tracks -> Nat] /\ cexp \in [Tracks -> Nat]

Types ==
    /\ clock \in Nat \ {0} /\ clock <= MaxClock
    /\ RedisTypes
    /\ hitAt \in [Tracks -> [Alerts -> Nat]] /\ gen \in [Tracks -> Nat]
    /\ emitted \subseteq IncidentType
    /\ job \in [Workers -> JobType \cup {Idle}]

Busy(w) == job[w] # Idle
Legs(w) == DOMAIN LegsOf[job[w].alert]

\* An alert is handled by one worker, for MaxStall ticks at most; it is acked when
\* all its legs are done.
JobGood(w) ==
    Busy(w) =>
        /\ job[w].alert \notin acked
        /\ job[w].now <= clock /\ clock <= job[w].now + MaxStall
        /\ job[w].pc # "emit" => job[w].leg \in Legs(w)
        /\ job[w].pc = "emit" => \A n \in Legs(w) : n <= job[w].leg

JobsOK ==
    /\ \A w \in Workers : JobGood(w)
    /\ \A v, w \in Workers : Busy(v) /\ Busy(w) /\ job[v].alert = job[w].alert => v = w

Shape == Types /\ JobsOK

\* A deadline that was set at or before this tick, and one that is later than the
\* horizon after s (or never comes, within the bound on the clock).
Within(t) == t <= clock + Ttl /\ t <= MaxClock + 1
Outlives(t, s) == t > s + Horizon \/ t > MaxClock

ExpiryGood(k) ==
    /\ Within(texp[k]) /\ Within(cexp[k]) /\ Within(wexp[k])
    /\ texp[k] # 0 => texp[k] > clock
    /\ cid[k] # 0 => cexp[k] > clock /\ cexp[k] >= texp[k]

\* A track does not expire under a worker that has recorded its alert.
TracksLast ==
    /\ \A k \in Tracks : ExpiryGood(k)
    /\ \A w \in Workers : Busy(w) /\ job[w].pc \in Behind => Outlives(texp[Track(w)], job[w].now)

\* The incidents produced and those about to be.
Outbox(w) == IF Busy(w) THEN {job[w].out[n] : n \in DOMAIN job[w].out} ELSE {}
Issued == emitted \cup UNION {Outbox(w) : w \in Workers}

\* The incidents of a track's present life carry the id that is bound.
IdsOK ==
    /\ \A i \in Issued :
          i.gen <= gen[i.track] /\ (i.gen = gen[i.track] => i.id = cid[i.track] /\ texp[i.track] # 0)
    /\ \A i, j \in Issued : i.track = j.track /\ i.gen = j.gen => i.id = j.id

\* Worker w has counted, or counted and recorded, its alert on its leg n.
HasHit(w, n) == n < job[w].leg \/ (n = job[w].leg /\ job[w].pc # "hit")
Through(w, n) == n < job[w].leg \/ (n = job[w].leg /\ job[w].pc \notin Before)

\* Alert a has been recorded on track k since it was last counted there.
Covered(k, a) ==
    \/ a \in acked
    \/ \E w \in Workers : Busy(w) /\ job[w].alert = a /\ \E n \in Legs(w) : LegsOf[a][n] = k /\ Through(w, n)

Fresh(k, a) == hitAt[k][a] # 0 /\ hitAt[k][a] + Horizon >= clock

\* What is counted and not aged out is a member of the window.
HitGood(k, a) ==
    /\ hitAt[k][a] <= clock
    /\ hitAt[k][a] # 0 => \E n \in DOMAIN LegsOf[a] : LegsOf[a][n] = k
    /\ win[k][a] \in {0, hitAt[k][a]}
    /\ Fresh(k, a) => win[k][a] # 0 /\ Outlives(wexp[k], hitAt[k][a])
    /\ side[k][a] # 0 => hitAt[k][a] # 0

\* A worker's alert that it has not counted yet stays a member until it does, or came
\* late; what a worker is about to prune has aged out, or came back late.
JobHits(w) ==
    Busy(w) =>
        /\ \A n \in Legs(w) : HasHit(w, n) => hitAt[LegsOf[job[w].alert][n]][job[w].alert] = job[w].now
        /\ \A k \in Tracks : \/ k \in tardy \/ hitAt[k][job[w].alert] = 0
                             \/ job[w].now + MaxStall <= hitAt[k][job[w].alert] + Horizon
        /\ job[w].pc \in {"members", "prune"} => \A a \in Alerts : job[w].side[a] # 0 => hitAt[Track(w)][a] # 0
        /\ job[w].pc = "prune" =>
              \A a \in Alerts : job[w].side[a] # 0 /\ a \notin job[w].live => Track(w) \in tardy \/ ~Fresh(Track(w), a)

EntryGood(k, a) ==
    Covered(k, a) /\ Fresh(k, a) =>
        /\ Outlives(texp[k], hitAt[k][a])
        /\ k \notin capped \cup tardy => side[k][a] # 0

HitsOK == (\A k \in Tracks, a \in Alerts : HitGood(k, a)) /\ \A w \in Workers : JobHits(w)
EntriesOK == \A k \in Tracks, a \in Alerts : EntryGood(k, a)

IdInv == Shape /\ TracksLast /\ IdsOK
CorrInv == IdInv /\ HitsOK /\ EntriesOK
-----------------------------------------------------------------------------
(* Jobs.                                                                   *)

LEMMA Constants ==
    /\ Horizon \in Nat \ {0} /\ MaxStall \in Nat /\ MaxStall <= Horizon /\ MaxClock \in Nat \ {0}
    /\ Ttl = Horizon + 1 /\ LegsOf \in [Alerts -> Seq(Tracks)] /\ TimeOf \in [Alerts -> Nat]
  BY CorrelatorAssumption DEF Ttl

LEMMA LegIs ==
    ASSUME NEW a \in Alerts
    PROVE  /\ LegsOf[a] \in Seq(Tracks) /\ Len(LegsOf[a]) \in Nat /\ DOMAIN LegsOf[a] = 1 .. Len(LegsOf[a])
           /\ \A n \in DOMAIN LegsOf[a] : LegsOf[a][n] \in Tracks
           /\ LegsOf[a] = <<>> <=> Len(LegsOf[a]) = 0
  <1>1. LegsOf[a] \in Seq(Tracks)
    BY Constants
  <1>2. QED
    BY <1>1

\* EXPIRE sets a deadline behind the horizon and not behind those to come.
LEMMA DeadlineIs ==
    ASSUME Types
    PROVE  /\ Deadline \in Nat \ {0} /\ Deadline > clock /\ Within(Deadline)
           /\ \A s \in Nat : s <= clock => Outlives(Deadline, s)
           /\ \A t : t \in Nat /\ Within(t) => t <= Deadline
  <1> DEFINE S == {clock + Ttl, MaxClock + 1}
  <1>1. clock \in Nat \ {0} /\ clock <= MaxClock /\ MaxClock \in Nat /\ Ttl \in Nat \ {0} /\ Ttl = Horizon + 1 /\ Horizon \in Nat
    BY Constants DEF Types
  <1>2. \E t \in S : \A u \in S : t <= u
    BY <1>1
  <1>3. Deadline \in S /\ \A u \in S : Deadline <= u
    <2>1. Deadline = CHOOSE t \in S : \A u \in S : t <= u
      BY DEF Deadline, Least
    <2>2. QED
      BY <1>2, <2>1
  <1>4. QED
    BY <1>1, <1>3 DEF Within, Outlives

\* The parts of a worker's job.
LEMMA JobIs ==
    ASSUME Types, NEW w \in Workers, Busy(w)
    PROVE  /\ job[w] \in JobType /\ job[w].alert \in Alerts /\ job[w].now \in Nat \ {0} /\ job[w].leg \in Nat \ {0}
           /\ job[w].pc \in Before \cup Behind \cup {"emit"} /\ job[w].out \in Seq(IncidentType)
           /\ job[w].side \in [Alerts -> Nat] /\ job[w].live \subseteq Alerts /\ job[w].first \in Nat
  BY DEF Types, Busy, JobType

LEMMA IdleIs ==
    ASSUME Types, NEW w \in Workers
    PROVE  At(w, "idle") <=> ~Busy(w)
  <1>1. Busy(w) => job[w].pc # "idle"
    BY JobIs DEF Before, Behind
  <1>2. QED
    BY <1>1 DEF Busy, At, Idle

\* A worker on a leg is on one of its alert's tracks.
LEMMA TrackIs ==
    ASSUME Shape, NEW w \in Workers, Busy(w), job[w].pc # "emit"
    PROVE  Track(w) \in Tracks /\ job[w].leg \in Legs(w) /\ Track(w) = LegsOf[job[w].alert][job[w].leg]
  <1>1. job[w].leg \in Legs(w)
    BY DEF Shape, JobsOK, JobGood
  <1>2. job[w].alert \in Alerts
    BY JobIs DEF Shape
  <1>3. QED
    BY <1>1, <1>2, LegIs DEF Track, Alert, Legs

\* What ingest_alert begins with.
LEMMA NewJobIs ==
    ASSUME NEW a \in Alerts, NEW now \in Nat \ {0}, NEW j, j = NewJob(a, now)
    PROVE  /\ j \in JobType /\ j # Idle /\ j.alert = a /\ j.now = now /\ j.leg = 1 /\ j.out = <<>>
           /\ j.pc = IF LegsOf[a] = <<>> THEN "emit" ELSE "hit"
  <1>1. PICK pc \in {"emit", "hit"} : pc = IF LegsOf[a] = <<>> THEN "emit" ELSE "hit"
    OBVIOUS
  <1>2. j = [pc |-> pc, alert |-> a, now |-> now, leg |-> 1, side |-> None, live |-> {}, first |-> 0, tac |-> {},
             trunc |-> FALSE, out |-> <<>>]
    BY <1>1 DEF NewJob
  <1>3. None \in [Alerts -> Nat] /\ <<>> \in Seq(IncidentType) /\ 1 \in Nat \ {0} /\ 0 \in Nat
    BY DEF None
  <1>4. j \in JobType
    BY <1>2, <1>3 DEF JobType, Before
  <1>5. j.pc # "idle"
    BY <1>1, <1>2
  <1>6. QED
    BY <1>1, <1>2, <1>4, <1>5 DEF Idle

\* The worker goes on to its next leg, or to its emissions.
LEMMA NextLegIs ==
    ASSUME NEW j \in JobType, j.leg \in DOMAIN LegsOf[j.alert], NEW q, q = NextLeg(j)
    PROVE  /\ q \in JobType /\ q # Idle /\ q.alert = j.alert /\ q.now = j.now /\ q.out = j.out
           /\ \/ q.pc = "hit" /\ q.leg = j.leg + 1 /\ q.leg \in DOMAIN LegsOf[j.alert]
              \/ q.pc = "emit" /\ q.leg = j.leg /\ \A n \in DOMAIN LegsOf[j.alert] : n <= j.leg
  <1>1. j.alert \in Alerts /\ j.now \in Nat \ {0} /\ j.leg \in Nat \ {0} /\ j.out \in Seq(IncidentType)
    BY DEF JobType
  <1>2. PICK b : b = NewJob(j.alert, j.now)
    OBVIOUS
  <1>3. b \in JobType /\ b.alert = j.alert /\ b.now = j.now
    BY <1>1, <1>2, NewJobIs
  <1>4. PICK n \in Nat : DOMAIN LegsOf[j.alert] = 1 .. n /\ n = Len(LegsOf[j.alert])
    BY <1>1, LegIs
  <1>5. CASE j.leg < n
    <2>1. PICK l \in Nat \ {0} : l = j.leg + 1
      BY <1>1
    <2>2. q = [b EXCEPT !.pc = "hit", !.leg = l, !.out = j.out]
      BY <1>2, <1>4, <1>5, <2>1 DEF NextLeg
    <2>3. q \in JobType /\ q.alert = j.alert /\ q.now = j.now /\ q.out = j.out /\ q.pc = "hit" /\ q.leg = l
      BY <1>1, <1>3, <2>2 DEF JobType, Before
    <2>4. l \in 1 .. n
      BY <1>1, <1>4, <1>5, <2>1
    <2>5. QED
      BY <1>4, <2>1, <2>3, <2>4 DEF Idle
  <1>6. CASE ~(j.leg < n)
    <2>1. q = [b EXCEPT !.pc = "emit", !.leg = j.leg, !.out = j.out]
      BY <1>2, <1>4, <1>6 DEF NextLeg
    <2>2. q \in JobType /\ q.alert = j.alert /\ q.now = j.now /\ q.out = j.out /\ q.pc = "emit" /\ q.leg = j.leg
      BY <1>1, <1>3, <2>1 DEF JobType
    <2>3. \A m \in 1 .. n : m <= j.leg
      BY <1>1, <1>4, <1>6
    <2>4. QED
      BY <1>4, <2>2, <2>3 DEF Idle
  <1>7. QED
    BY <1>5, <1>6

-----------------------------------------------------------------------------
(* What the steps do to a job.                                             *)

\* Worker w is the one that moves, and goes on with its alert.
Moves(w) ==
    /\ job' \in [Workers -> JobType \cup {Idle}]
    /\ \A u \in Workers \ {w} : job'[u] = job[u]

GoesOn(w) ==
    /\ Moves(w) /\ Busy(w) /\ job'[w] # Idle
    /\ job'[w].alert = job[w].alert /\ job'[w].now = job[w].now

\* A step on a leg, and the end of a leg.
OnLeg(w, to) ==
    /\ GoesOn(w) /\ job[w].pc # "emit"
    /\ job'[w].pc = to /\ job'[w].leg = job[w].leg /\ job'[w].out = job[w].out

LegOver(w) ==
    /\ GoesOn(w) /\ job[w].pc \in Behind
    /\ \/ job'[w].pc = "hit" /\ job'[w].leg = job[w].leg + 1 /\ job'[w].leg \in Legs(w)
       \/ job'[w].pc = "emit" /\ job'[w].leg = job[w].leg /\ \A n \in Legs(w) : n <= job[w].leg

LEMMA SetMoves ==
    ASSUME Types, NEW w \in Workers, NEW j \in JobType \cup {Idle}, Set(w, j)
    PROVE  Moves(w) /\ job'[w] = j
  BY DEF Types, Set, Moves

\* A step that keeps the alert and the leg.
LEMMA OnLegIs ==
    ASSUME Types, NEW w \in Workers, Busy(w), job[w].pc # "emit", NEW to \in Behind \cup {"record"}, NEW j,
           j \in JobType, j.alert = job[w].alert, j.now = job[w].now, j.leg = job[w].leg, j.out = job[w].out, j.pc = to,
           Set(w, j)
    PROVE  OnLeg(w, to) /\ job'[w] = j
  <1>1. Moves(w) /\ job'[w] = j
    BY SetMoves
  <1>2. j # Idle
    BY DEF Idle, Behind
  <1>3. QED
    BY <1>1, <1>2 DEF OnLeg, GoesOn

LEMMA TakeIs ==
    ASSUME Types, NEW w \in Workers, NEW a \in Alerts, Take(w, a)
    PROVE  /\ Moves(w) /\ ~Busy(w) /\ job'[w] # Idle /\ job'[w].alert = a /\ job'[w].now = clock /\ job'[w].leg = 1
           /\ job'[w].out = <<>> /\ job'[w].pc = IF LegsOf[a] = <<>> THEN "emit" ELSE "hit"
           /\ a \notin acked /\ \A v \in Workers : Busy(v) => job[v].alert # a
  <1>1. PICK j : j = NewJob(a, clock)
    OBVIOUS
  <1>2. /\ j \in JobType /\ j # Idle /\ j.alert = a /\ j.now = clock /\ j.leg = 1 /\ j.out = <<>>
        /\ j.pc = IF LegsOf[a] = <<>> THEN "emit" ELSE "hit"
    BY <1>1, NewJobIs DEF Types
  <1>3. Moves(w) /\ job'[w] = j
    BY <1>1, <1>2, SetMoves DEF Take
  <1>4. ~Busy(w) /\ a \notin acked /\ \A v \in Workers : Busy(v) => job[v].alert # a
    BY IdleIs DEF Take, Alert
  <1>5. QED
    BY <1>2, <1>3, <1>4

LEMMA HitIs ==
    ASSUME Types, NEW w \in Workers, Hit(w)
    PROVE  OnLeg(w, "record") /\ job[w].pc = "hit"
  <1>1. Busy(w) /\ job[w].pc = "hit"
    BY IdleIs DEF Hit, At
  <1>2. PICK j : j = [job[w] EXCEPT !.pc = "record"]
    OBVIOUS
  <1>3. /\ j \in JobType /\ j.alert = job[w].alert /\ j.now = job[w].now /\ j.leg = job[w].leg
        /\ j.out = job[w].out /\ j.pc = "record"
    BY <1>1, <1>2, JobIs DEF JobType, Before
  <1>4. Set(w, j)
    BY <1>2 DEF Hit
  <1>5. QED
    BY <1>1, <1>3, <1>4, OnLegIs

LEMMA RecordIs ==
    ASSUME Types, NEW w \in Workers, Record(w)
    PROVE  OnLeg(w, "snapshot") /\ job[w].pc = "record"
  <1>1. Busy(w) /\ job[w].pc = "record"
    BY IdleIs DEF Record, At
  <1>2. PICK j : j = [job[w] EXCEPT !.pc = "snapshot"]
    OBVIOUS
  <1>3. /\ j \in JobType /\ j.alert = job[w].alert /\ j.now = job[w].now /\ j.leg = job[w].leg
        /\ j.out = job[w].out /\ j.pc = "snapshot"
    BY <1>1, <1>2, JobIs DEF JobType, Behind
  <1>4. Set(w, j)
    BY <1>2 DEF Record
  <1>5. QED
    BY <1>1, <1>3, <1>4, OnLegIs DEF Behind

\* A set of numbers that is not empty has a least one.
LEMMA LeastIs ==
    ASSUME NEW S \in SUBSET Nat, S # {}
    PROVE  Least(S) \in S
  <1> DEFINE R == {p \in Nat \X Nat : p[1] < p[2]}
  <1>1. IsWellFoundedOn(R, Nat)
    BY NatLessThanWellFounded DEF OpToRel
  <1> HIDE DEF R
  <1>2. PICK t \in S : \A u \in S : ~(<<u, t>> \in R)
    BY <1>1, WFMin
  <1>3. \A u \in S : ~(u < t)
    BY <1>2 DEF R
  <1>4. \A u \in S : t <= u
    BY <1>3
  <1>5. QED
    BY <1>4 DEF Least

LEMMA SnapshotIs ==
    ASSUME Shape, NEW w \in Workers, Snapshot(w)
    PROVE  /\ OnLeg(w, "members") /\ job[w].pc = "snapshot" /\ job'[w].side = side[Track(w)]
           /\ job'[w].tac = tac[Track(w)]
  <1>1. Types /\ Busy(w) /\ job[w].pc = "snapshot"
    BY IdleIs DEF Shape, Snapshot, At
  <1>2. Track(w) \in Tracks
    BY <1>1, TrackIs
  <1> DEFINE k == Track(w)
             times == {side[k][m] : m \in Members(side[k])}
  <1>3. /\ side[k] \in [Alerts -> Nat] /\ tac[k] \in SUBSET Tactics /\ trunc[k] \in BOOLEAN /\ first[k] \in Nat
    BY <1>1, <1>2 DEF Types, RedisTypes
  <1>4. times \in SUBSET Nat
    BY <1>3 DEF Members
  <1>5. PICK f \in Nat : f = IF first[k] # 0 THEN first[k] ELSE IF times = {} THEN 0 ELSE Least(times)
    <2>1. times # {} => Least(times) \in Nat
      BY <1>4, LeastIs
    <2>2. QED
      BY <1>3, <2>1
  <1>6. PICK j : j = [job[w] EXCEPT !.pc = "members", !.side = side[k], !.tac = tac[k], !.trunc = trunc[k], !.first = f]
    OBVIOUS
  <1>7. Set(w, j)
    BY <1>5, <1>6 DEF Snapshot
  <1> HIDE DEF k, times
  <1>8. /\ j \in JobType /\ j.alert = job[w].alert /\ j.now = job[w].now /\ j.leg = job[w].leg
        /\ j.out = job[w].out /\ j.pc = "members" /\ j.side = side[k] /\ j.tac = tac[k]
    BY <1>1, <1>3, <1>6, JobIs DEF JobType, Behind
  <1>9. OnLeg(w, "members") /\ job'[w] = j
    BY <1>1, <1>7, <1>8, OnLegIs DEF Behind
  <1>10. QED
    BY <1>1, <1>8, <1>9 DEF k

LEMMA ReadMembersIs ==
    ASSUME Types, NEW w \in Workers, ReadMembers(w)
    PROVE  /\ OnLeg(w, "prune") /\ job[w].pc = "members"
           /\ job'[w].side = job[w].side /\ job'[w].live = Members(win[Track(w)]) /\ job'[w].tac = job[w].tac
  <1>1. Busy(w) /\ job[w].pc = "members"
    BY IdleIs DEF ReadMembers, At
  <1>2. PICK m : m = Members(win[Track(w)])
    OBVIOUS
  <1>3. PICK j : j = [job[w] EXCEPT !.pc = "prune", !.live = m]
    OBVIOUS
  <1>4. m \in SUBSET Alerts
    BY <1>2 DEF Members
  <1>5. /\ j \in JobType /\ j.alert = job[w].alert /\ j.now = job[w].now /\ j.leg = job[w].leg
        /\ j.out = job[w].out /\ j.pc = "prune" /\ j.side = job[w].side /\ j.live = m /\ j.tac = job[w].tac
    BY <1>1, <1>3, <1>4, JobIs DEF JobType, Behind
  <1>6. Set(w, j)
    BY <1>2, <1>3 DEF ReadMembers
  <1>7. OnLeg(w, "prune") /\ job'[w] = j
    BY <1>1, <1>5, <1>6, OnLegIs DEF Behind
  <1>8. QED
    BY <1>1, <1>2, <1>5, <1>7

\* HDEL leaves a table of entries.
LEMMA WithoutIs ==
    ASSUME NEW s \in [Alerts -> Nat], NEW S
    PROVE  Without(s, S) \in [Alerts -> Nat] /\ \A a \in Alerts : Without(s, S)[a] = IF a \in S THEN 0 ELSE s[a]
  BY DEF Without

LEMMA PruneIs ==
    ASSUME Types, NEW w \in Workers, Prune(w)
    PROVE  /\ OnLeg(w, "cap") /\ job[w].pc = "prune"
           /\ job'[w].side = Without(job[w].side, Members(job[w].side) \ job[w].live)
           /\ job'[w].live = job[w].live /\ job'[w].tac = job[w].tac
  <1>1. Busy(w) /\ job[w].pc = "prune"
    BY IdleIs DEF Prune, At
  <1>2. PICK s : s = Without(job[w].side, Members(job[w].side) \ job[w].live)
    OBVIOUS
  <1>3. s \in [Alerts -> Nat]
    BY <1>1, <1>2, JobIs, WithoutIs
  <1>4. PICK j : j = [job[w] EXCEPT !.pc = "cap", !.side = s]
    OBVIOUS
  <1>5. /\ j \in JobType /\ j.alert = job[w].alert /\ j.now = job[w].now /\ j.leg = job[w].leg
        /\ j.out = job[w].out /\ j.pc = "cap" /\ j.side = s /\ j.live = job[w].live /\ j.tac = job[w].tac
    BY <1>1, <1>3, <1>4, JobIs DEF JobType, Behind
  <1>6. Set(w, j)
    BY <1>2, <1>4 DEF Prune
  <1>7. OnLeg(w, "cap") /\ job'[w] = j
    BY <1>1, <1>5, <1>6, OnLegIs DEF Behind
  <1>8. QED
    BY <1>1, <1>2, <1>5, <1>7

LEMMA EvictIs ==
    ASSUME Types, NEW w \in Workers, NEW E, Evict(w, E)
    PROVE  /\ OnLeg(w, "mark") /\ job[w].pc = "cap" /\ job'[w].side = Without(job[w].side, E)
           /\ job'[w].live = job[w].live /\ job'[w].tac = job[w].tac
  <1>1. Busy(w) /\ job[w].pc = "cap"
    BY IdleIs DEF Evict, At
  <1>2. PICK s : s = Without(job[w].side, E)
    OBVIOUS
  <1>3. s \in [Alerts -> Nat]
    BY <1>1, <1>2, JobIs, WithoutIs
  <1>4. PICK j : j = [job[w] EXCEPT !.pc = "mark", !.side = s]
    OBVIOUS
  <1>5. /\ j \in JobType /\ j.alert = job[w].alert /\ j.now = job[w].now /\ j.leg = job[w].leg
        /\ j.out = job[w].out /\ j.pc = "mark" /\ j.side = s /\ j.live = job[w].live /\ j.tac = job[w].tac
    BY <1>1, <1>3, <1>4, JobIs DEF JobType, Behind
  <1>6. Set(w, j)
    BY <1>2, <1>4 DEF Evict
  <1>7. OnLeg(w, "mark") /\ job'[w] = j
    BY <1>1, <1>5, <1>6, OnLegIs DEF Behind
  <1>8. QED
    BY <1>1, <1>2, <1>5, <1>7

\* The end of a leg that gives no incident, and the way to one that does.
LEMMA AfterCapIs ==
    ASSUME Shape, NEW w \in Workers, Busy(w), job[w].pc \in {"cap", "mark"}, NEW i \in JobType,
           i.alert = job[w].alert, i.now = job[w].now, i.leg = job[w].leg, i.out = job[w].out,
           Set(w, AfterCap(i))
    PROVE  /\ (OnLeg(w, "bind") \/ LegOver(w)) /\ job'[w].out = job[w].out
           /\ Promoted(i) => OnLeg(w, "bind") /\ job'[w].side = i.side /\ job'[w].live = i.live /\ job'[w].tac = i.tac
           /\ ~Promoted(i) => LegOver(w)
  <1>1. Types /\ job[w].leg \in Legs(w)
    BY TrackIs DEF Shape
  <1>2. CASE Promoted(i)
    <2>1. PICK j : j = [i EXCEPT !.pc = "bind"]
      OBVIOUS
    <2>2. /\ j \in JobType /\ j.alert = job[w].alert /\ j.now = job[w].now /\ j.leg = job[w].leg
          /\ j.out = job[w].out /\ j.pc = "bind" /\ j.side = i.side /\ j.live = i.live /\ j.tac = i.tac
      BY <2>1 DEF JobType, Behind
    <2>3. Set(w, j)
      BY <1>2, <2>1 DEF AfterCap
    <2>4. OnLeg(w, "bind") /\ job'[w] = j
      BY <1>1, <2>2, <2>3, OnLegIs DEF Behind
    <2>5. QED
      BY <1>2, <2>2, <2>4 DEF OnLeg
  <1>3. CASE ~Promoted(i)
    <2>1. PICK j : j = NextLeg(i)
      OBVIOUS
    <2>2. Set(w, j)
      BY <1>3, <2>1 DEF AfterCap
    <2>3. /\ j \in JobType /\ j # Idle /\ j.alert = i.alert /\ j.now = i.now /\ j.out = i.out
          /\ \/ j.pc = "hit" /\ j.leg = i.leg + 1 /\ j.leg \in DOMAIN LegsOf[i.alert]
             \/ j.pc = "emit" /\ j.leg = i.leg /\ \A n \in DOMAIN LegsOf[i.alert] : n <= i.leg
      BY <1>1, <2>1, NextLegIs DEF Legs
    <2>4. Moves(w) /\ job'[w] = j
      BY <1>1, <2>2, <2>3, SetMoves
    <2>5. QED
      BY <1>3, <2>3, <2>4 DEF LegOver, GoesOn, Legs, Behind
  <1>4. QED
    BY <1>2, <1>3

LEMMA CapIs ==
    ASSUME Shape, NEW w \in Workers, MarkTruncated(w) \/ WithinCap(w)
    PROVE  /\ (OnLeg(w, "bind") \/ LegOver(w)) /\ job'[w].out = job[w].out /\ job[w].pc \in Behind
           /\ job[w].pc \in {"cap", "mark"}
           /\ Promoted(job[w]) =>
                 OnLeg(w, "bind") /\ job'[w].side = job[w].side /\ job'[w].live = job[w].live /\ job'[w].tac = job[w].tac
           /\ ~Promoted(job[w]) => LegOver(w)
  <1>1. Types /\ Busy(w) /\ job[w].pc \in {"cap", "mark"}
    BY IdleIs DEF Shape, MarkTruncated, WithinCap, At
  <1>2. PICK i : i \in {job[w], [job[w] EXCEPT !.trunc = TRUE]} /\ Set(w, AfterCap(i))
    BY DEF MarkTruncated, WithinCap
  <1>3. i \in JobType /\ i.alert = job[w].alert /\ i.now = job[w].now /\ i.leg = job[w].leg /\ i.out = job[w].out
    BY <1>1, <1>2, JobIs DEF JobType
  <1>4. i.side = job[w].side /\ i.live = job[w].live /\ i.tac = job[w].tac
    BY <1>1, <1>2, JobIs DEF JobType
  <1>5. Promoted(i) <=> Promoted(job[w])
    BY <1>4 DEF Promoted
  <1>6. QED
    BY <1>1, <1>2, <1>3, <1>4, <1>5, AfterCapIs DEF Behind

\* An incident id stands for something.
LEMMA IncidentIdIs ==
    ASSUME NEW t \in Nat
    PROVE  IncidentId(t) \in Nat \ {0}
  <1>1. PICK h \in Nat \ {0} : h = Horizon
    BY Constants
  <1>2. t \div h \in Nat
    OBVIOUS
  <1>3. IncidentId(t) = 1 + (t \div h)
    BY <1>1 DEF IncidentId
  <1>4. QED
    BY <1>2, <1>3

\* bind_incident_id: the incident has the id that is bound.
LEMMA BindIs ==
    ASSUME Shape, NEW w \in Workers, Bind(w)
    PROVE  /\ LegOver(w) /\ job[w].pc = "bind"
           /\ \E inc \in IncidentType :
                 /\ inc.track = Track(w) /\ inc.gen = gen[Track(w)]
                 /\ inc.tactics = job[w].tac /\ inc.members = Members(job[w].side) \cap job[w].live
                 /\ job'[w].out = Append(job[w].out, inc)
                 /\ cid' = [cid EXCEPT ![Track(w)] = inc.id]
                 /\ cid[Track(w)] # 0 => inc.id = cid[Track(w)]
  <1>1. Types /\ Busy(w) /\ job[w].pc = "bind"
    BY IdleIs DEF Shape, Bind, At
  <1>2. Track(w) \in Tracks /\ job[w].leg \in Legs(w)
    BY <1>1, TrackIs
  <1>3. job[w] \in JobType /\ job[w].first \in Nat /\ job[w].out \in Seq(IncidentType)
    BY <1>1, JobIs
  <1>4. cid[Track(w)] \in Nat /\ gen[Track(w)] \in Nat
    BY <1>1, <1>2 DEF Types, RedisTypes
  <1>5. PICK id \in Nat \ {0} : id = IF cid[Track(w)] = 0 THEN IncidentId(job[w].first) ELSE cid[Track(w)]
    BY <1>3, <1>4, IncidentIdIs
  <1>6. PICK inc : inc = Incident(w, id)
    OBVIOUS
  <1>7. /\ inc \in IncidentType /\ inc.track = Track(w) /\ inc.gen = gen[Track(w)] /\ inc.id = id
        /\ inc.tactics = job[w].tac /\ inc.members = Members(job[w].side) \cap job[w].live
    <2>1. PICK m \in SUBSET Alerts : m = Members(job[w].side) \cap job[w].live
      BY DEF Members
    <2>2. inc = [track |-> Track(w), id |-> id, first |-> job[w].first, tactics |-> job[w].tac, gen |-> gen[Track(w)],
                 members |-> m, trunc |-> job[w].trunc]
      BY <1>6, <2>1 DEF Incident
    <2>3. job[w].tac \in SUBSET Tactics /\ job[w].trunc \in BOOLEAN
      BY <1>3 DEF JobType
    <2>4. QED
      BY <1>2, <1>3, <1>4, <2>1, <2>2, <2>3 DEF IncidentType
  <1>8. PICK o \in Seq(IncidentType) : o = Append(job[w].out, inc)
    BY <1>3, <1>7, AppendProperties
  <1>9. PICK i : i = [job[w] EXCEPT !.out = o]
    OBVIOUS
  <1>10. i \in JobType /\ i.alert = job[w].alert /\ i.now = job[w].now /\ i.leg = job[w].leg /\ i.out = o
    BY <1>3, <1>9 DEF JobType
  <1>11. PICK j : j = NextLeg(i)
    OBVIOUS
  <1>12. Set(w, j) /\ cid' = [cid EXCEPT ![Track(w)] = id]
    BY <1>5, <1>6, <1>8, <1>9, <1>11 DEF Bind
  <1>13. /\ j \in JobType /\ j # Idle /\ j.alert = i.alert /\ j.now = i.now /\ j.out = i.out
         /\ \/ j.pc = "hit" /\ j.leg = i.leg + 1 /\ j.leg \in DOMAIN LegsOf[i.alert]
            \/ j.pc = "emit" /\ j.leg = i.leg /\ \A n \in DOMAIN LegsOf[i.alert] : n <= i.leg
    BY <1>2, <1>10, <1>11, NextLegIs DEF Legs
  <1>14. Moves(w) /\ job'[w] = j
    BY <1>1, <1>12, <1>13, SetMoves
  <1>15. LegOver(w)
    BY <1>1, <1>10, <1>13, <1>14 DEF LegOver, GoesOn, Legs, Behind
  <1>16. QED
    BY <1>1, <1>5, <1>7, <1>8, <1>10, <1>12, <1>13, <1>14, <1>15

LEMMA EmitIs ==
    ASSUME Types, NEW w \in Workers, Emit(w)
    PROVE  /\ GoesOn(w) /\ job[w].pc = "emit" /\ job'[w].pc = "emit" /\ job'[w].leg = job[w].leg
           /\ job[w].out # <<>> /\ job'[w].out = Tail(job[w].out) /\ emitted' = emitted \cup {Head(job[w].out)}
  <1>1. Busy(w) /\ job[w].pc = "emit" /\ job[w].out # <<>>
    BY IdleIs DEF Emit, At
  <1>2. job[w] \in JobType /\ job[w].out \in Seq(IncidentType)
    BY <1>1, JobIs
  <1>3. PICK o \in Seq(IncidentType) : o = Tail(job[w].out)
    BY <1>1, <1>2, HeadTailProperties
  <1>4. PICK j : j = [job[w] EXCEPT !.out = o]
    OBVIOUS
  <1>5. /\ j \in JobType /\ j.alert = job[w].alert /\ j.now = job[w].now /\ j.leg = job[w].leg
        /\ j.out = o /\ j.pc = job[w].pc
    BY <1>2, <1>4 DEF JobType
  <1>6. Set(w, j) /\ emitted' = emitted \cup {Head(job[w].out)}
    BY <1>3, <1>4 DEF Emit
  <1>7. Moves(w) /\ job'[w] = j
    BY <1>5, <1>6, SetMoves
  <1>8. j # Idle
    BY <1>1, <1>5 DEF Idle
  <1>9. QED
    BY <1>1, <1>3, <1>5, <1>6, <1>7, <1>8 DEF GoesOn

LEMMA DoneIs ==
    ASSUME Types, NEW w \in Workers, Ack(w) \/ Abort(w)
    PROVE  /\ Moves(w) /\ Busy(w) /\ job'[w] = Idle
           /\ Ack(w) => job[w].pc = "emit" /\ acked' = acked \cup {job[w].alert}
  <1>1. Busy(w) /\ Set(w, Idle)
    BY IdleIs DEF Ack, Abort, At
  <1>2. Moves(w) /\ job'[w] = Idle
    BY <1>1, SetMoves
  <1>3. QED
    BY <1>1, <1>2 DEF Ack, At, Alert
-----------------------------------------------------------------------------
(* Types and jobs.                                                         *)

\* Whatever the worker does next with its alert, the others are as they were.
LEMMA GoesOnShape ==
    ASSUME Shape, NEW w \in Workers, GoesOn(w), UNCHANGED <<clock, acked>>,
           \/ \E to : to # "emit" /\ OnLeg(w, to)
           \/ LegOver(w)
           \/ job[w].pc = "emit" /\ job'[w].pc = "emit" /\ job'[w].leg = job[w].leg
    PROVE  JobsOK'
  <1>1. /\ \A u \in Workers \ {w} : job'[u] = job[u]
        /\ job'[w] # Idle /\ job[w] # Idle /\ job'[w].alert = job[w].alert /\ job'[w].now = job[w].now
    BY DEF GoesOn, Moves, Busy
  <1>2. \A u \in Workers \ {w} : JobGood(u)'
    BY <1>1 DEF Shape, JobsOK, JobGood, Busy, Legs
  <1>3. JobGood(w)'
    <2>1. JobGood(w) /\ Busy(w)
      BY <1>1 DEF Shape, JobsOK, Busy
    <2>2. CASE \E to : to # "emit" /\ OnLeg(w, to)
      BY <1>1, <2>1, <2>2 DEF JobGood, OnLeg, Legs
    <2>3. CASE LegOver(w)
      BY <1>1, <2>1, <2>3 DEF JobGood, LegOver, Legs
    <2>4. CASE job[w].pc = "emit" /\ job'[w].pc = "emit" /\ job'[w].leg = job[w].leg
      BY <1>1, <2>1, <2>4 DEF JobGood, Legs
    <2>5. QED
      BY <2>2, <2>3, <2>4
  <1>4. \A u, v \in Workers : Busy(u)' /\ Busy(v)' /\ job'[u].alert = job'[v].alert => u = v
    BY <1>1 DEF Shape, JobsOK, Busy
  <1>5. QED
    BY <1>2, <1>3, <1>4 DEF JobsOK

\* hit: the member has the score now, older ones are gone.
LEMMA ZHitIs ==
    ASSUME NEW z \in [Alerts -> Nat], NEW m \in Alerts, NEW now \in Nat, NEW y, y = ZHit(z, m, now, Horizon)
    PROVE  /\ y \in [Alerts -> Nat] /\ y[m] = now
           /\ \A x \in Alerts \ {m} : y[x] = IF z[x] < now - Horizon THEN 0 ELSE z[x]
  <1>1. PICK s : s = [z EXCEPT ![m] = now]
    OBVIOUS
  <1>2. s \in [Alerts -> Nat] /\ s[m] = now /\ \A x \in Alerts \ {m} : s[x] = z[x]
    BY <1>1
  <1>3. PICK h \in Int : h = now - Horizon /\ ~(now < h)
    BY Constants
  <1>4. y = [x \in Alerts |-> IF s[x] < h THEN 0 ELSE s[x]]
    BY <1>1, <1>2, <1>3 DEF ZHit, ZTrim
  <1>5. y \in [Alerts -> Nat]
    BY <1>2, <1>4
  <1>6. \A x \in Alerts : y[x] = IF s[x] < h THEN 0 ELSE s[x]
    BY <1>4
  <1>7. QED
    BY <1>2, <1>3, <1>5, <1>6

\* The entry's time.
LEMMA EntryTimeIs ==
    ASSUME Types, NEW w \in Workers, Busy(w)
    PROVE  EntryTime(w) \in Nat \ {0}
  <1>1. job[w].alert \in Alerts /\ job[w].now \in Nat \ {0}
    BY JobIs
  <1>2. TimeOf[job[w].alert] \in Nat
    BY <1>1, Constants
  <1>3. QED
    BY <1>1, <1>2 DEF EntryTime, Alert

LEMMA RedisTypesStep ==
    ASSUME Shape, [Next]_vars
    PROVE  RedisTypes'
  <1>t. Types /\ RedisTypes
    BY DEF Shape, Types
  <1>d. Deadline \in Nat
    BY <1>t, DeadlineIs
  <1>1. ASSUME NEW w \in Workers, Hit(w) PROVE RedisTypes'
    <2>1. Busy(w) /\ job[w].pc = "hit"
      BY <1>1, <1>t, HitIs DEF OnLeg, GoesOn
    <2>2. Track(w) \in Tracks /\ Alert(w) \in Alerts /\ job[w].now \in Nat
      BY <1>t, <2>1, TrackIs, JobIs DEF Alert
    <2>3. PICK y : y = ZHit(win[Track(w)], Alert(w), job[w].now, Horizon)
      OBVIOUS
    <2>4. y \in [Alerts -> Nat]
      <3>1. PICK z \in [Alerts -> Nat] : z = win[Track(w)]
        BY <1>t, <2>2 DEF RedisTypes
      <3>2. PICK m \in Alerts, now \in Nat : m = Alert(w) /\ now = job[w].now
        BY <2>2
      <3>3. y = ZHit(z, m, now, Horizon)
        BY <2>3, <3>1, <3>2
      <3>4. QED
        BY <3>3, ZHitIs
    <2>5. win' = [win EXCEPT ![Track(w)] = y] /\ wexp' = [wexp EXCEPT ![Track(w)] = Deadline]
          /\ UNCHANGED <<side, first, tac, trunc, cid, texp, cexp>>
      BY <1>1, <2>3 DEF Hit
    <2>6. QED
      BY <1>t, <1>d, <2>4, <2>5 DEF RedisTypes
  <1>2. ASSUME NEW w \in Workers, Record(w) PROVE RedisTypes'
    <2>1. Busy(w) /\ job[w].pc = "record"
      BY <1>2, <1>t, RecordIs DEF OnLeg, GoesOn
    <2>2. Track(w) \in Tracks /\ Alert(w) \in Alerts /\ EntryTime(w) \in Nat
      BY <1>t, <2>1, TrackIs, JobIs, EntryTimeIs DEF Alert
    <2>3. PICK k \in Tracks, a \in Alerts, t \in Nat : k = Track(w) /\ a = Alert(w) /\ t = EntryTime(w)
      BY <2>2
    <2>4. /\ side' = [side EXCEPT ![k][a] = t]
          /\ first' = [first EXCEPT ![k] = IF @ = 0 \/ t < @ THEN t ELSE @]
          /\ tac' = [tac EXCEPT ![k] = @ \cup {TacticOf[a]}]
          /\ texp' = [texp EXCEPT ![k] = Deadline]
          /\ cexp' = [cexp EXCEPT ![k] = IF cid[k] = 0 THEN @ ELSE Deadline]
          /\ UNCHANGED <<win, wexp, trunc, cid>>
      BY <1>2, <2>3 DEF Record
    <2>5. TacticOf[a] \in Tactics
      BY DEF Tactics
    <2>6. side' \in [Tracks -> [Alerts -> Nat]] /\ first' \in [Tracks -> Nat] /\ tac' \in [Tracks -> SUBSET Tactics]
      BY <1>t, <2>4, <2>5 DEF RedisTypes
    <2>7. texp' \in [Tracks -> Nat] /\ cexp' \in [Tracks -> Nat]
      BY <1>t, <1>d, <2>4 DEF RedisTypes
    <2>8. QED
      BY <1>t, <2>4, <2>6, <2>7 DEF RedisTypes
  <1>3. ASSUME NEW w \in Workers, NEW S, side' = [side EXCEPT ![Track(w)] = Without(@, S)],
               UNCHANGED <<win, wexp, first, tac, trunc, cid, texp, cexp>>
        PROVE  RedisTypes'
    <2>1. ASSUME NEW k \in Tracks PROVE side'[k] \in [Alerts -> Nat]
      BY <1>3, <1>t, WithoutIs DEF RedisTypes
    <2>2. side' \in [Tracks -> [Alerts -> Nat]]
      BY <1>3, <1>t, <2>1 DEF RedisTypes
    <2>3. QED
      BY <1>3, <1>t, <2>2 DEF RedisTypes
  <1>4. ASSUME NEW w \in Workers, MarkTruncated(w) PROVE RedisTypes'
    BY <1>4, <1>t DEF MarkTruncated, RedisTypes
  <1>5. ASSUME NEW w \in Workers, Bind(w) PROVE RedisTypes'
    <2>1. PICK inc \in IncidentType : cid' = [cid EXCEPT ![Track(w)] = inc.id]
      BY <1>5, BindIs
    <2>2. inc.id \in Nat
      BY DEF IncidentType
    <2>3. cexp' = [cexp EXCEPT ![Track(w)] = Deadline] /\ UNCHANGED <<win, wexp, side, first, tac, trunc, texp>>
      BY <1>5 DEF Bind
    <2>4. QED
      BY <1>t, <1>d, <2>1, <2>2, <2>3 DEF RedisTypes
  <1>6. CASE Tick
    <2>1. None \in [Alerts -> Nat]
      BY DEF None
    <2>2. win' \in [Tracks -> [Alerts -> Nat]] /\ side' \in [Tracks -> [Alerts -> Nat]]
      BY <1>6, <1>t, <2>1 DEF Tick, RedisTypes
    <2>3. wexp' \in [Tracks -> Nat] /\ first' \in [Tracks -> Nat] /\ texp' \in [Tracks -> Nat]
          /\ cid' \in [Tracks -> Nat] /\ cexp' \in [Tracks -> Nat]
      BY <1>6, <1>t DEF Tick, RedisTypes
    <2>4. tac' \in [Tracks -> SUBSET Tactics] /\ trunc' \in [Tracks -> BOOLEAN]
      BY <1>6, <1>t DEF Tick, RedisTypes
    <2>5. QED
      BY <2>2, <2>3, <2>4 DEF RedisTypes
  <1>7. CASE UNCHANGED redisVars
    BY <1>7, <1>t DEF redisVars, RedisTypes
  <1>8. ASSUME NEW w \in Workers, Worker(w) PROVE RedisTypes'
    <2>1. CASE Prune(w)
      BY <1>3, <2>1 DEF Prune
    <2>2. CASE \E E \in SUBSET Alerts : Evict(w, E)
      BY <1>3, <2>2 DEF Evict
    <2>3. CASE (\E a \in Alerts : Take(w, a)) \/ Snapshot(w) \/ ReadMembers(w) \/ WithinCap(w) \/ Emit(w) \/ Ack(w)
      BY <1>7, <2>3 DEF Take, Snapshot, ReadMembers, WithinCap, Emit, Ack
    <2>4. QED
      BY <1>1, <1>2, <1>4, <1>5, <1>8, <2>1, <2>2, <2>3 DEF Worker
  <1>9. QED
    BY <1>6, <1>7, <1>8 DEF Next, Abort, Again, vars

\* Which steps change what.
LEMMA Frame ==
    ASSUME [Next]_vars
    PROVE  /\ Tick \/ (UNCHANGED <<clock, gen>> /\ capped \subseteq capped')
           /\ UNCHANGED hitAt \/ \E w \in Workers : Hit(w)
           /\ UNCHANGED emitted \/ \E w \in Workers : Emit(w)
  <1>1. Tick \/ (UNCHANGED <<clock, gen>> /\ capped \subseteq capped')
    BY DEF Next, Worker, Take, Hit, Record, Snapshot, ReadMembers, Prune, Evict, MarkTruncated, WithinCap, Bind, Emit, Ack,
           Abort, Again, vars, historyVars
  <1>2. UNCHANGED hitAt \/ \E w \in Workers : Hit(w)
    BY DEF Next, Worker, Take, Record, Snapshot, ReadMembers, Prune, Evict, MarkTruncated, WithinCap, Bind, Emit, Ack,
           Abort, Again, Tick, vars, historyVars
  <1>3. UNCHANGED emitted \/ \E w \in Workers : Emit(w)
    BY DEF Next, Worker, Take, Hit, Record, Snapshot, ReadMembers, Prune, Evict, MarkTruncated, WithinCap, Bind, Ack,
           Abort, Again, Tick, vars, historyVars
  <1>4. QED
    BY <1>1, <1>2, <1>3

\* The steps of a worker, by what they do to its job.
OnLegStep(w) ==
    \/ Hit(w) /\ OnLeg(w, "record") /\ job[w].pc = "hit"
    \/ Record(w) /\ OnLeg(w, "snapshot") /\ job[w].pc = "record"
    \/ \E to \in Behind : OnLeg(w, to) /\ job[w].pc \in Behind

LEMMA WorkerIs ==
    ASSUME Shape, NEW w \in Workers, Worker(w) \/ Abort(w)
    PROVE  /\ Moves(w)
           /\ \/ \E a \in Alerts : Take(w, a)
              \/ Ack(w) \/ Abort(w)
              \/ /\ GoesOn(w)
                 /\ \/ OnLegStep(w)
                    \/ LegOver(w)
                    \/ job[w].pc = "emit" /\ job'[w].pc = "emit" /\ job'[w].leg = job[w].leg
  <1>t. Types
    BY DEF Shape
  <1>1. CASE \E a \in Alerts : Take(w, a)
    BY <1>t, <1>1, TakeIs
  <1>2. CASE Ack(w) \/ Abort(w)
    BY <1>t, <1>2, DoneIs
  <1>3. CASE Hit(w)
    BY <1>t, <1>3, HitIs DEF OnLegStep, OnLeg, GoesOn
  <1>4. CASE Record(w)
    BY <1>t, <1>4, RecordIs DEF OnLegStep, OnLeg, GoesOn, Behind
  <1>5. CASE Snapshot(w)
    BY <1>5, SnapshotIs DEF OnLegStep, OnLeg, GoesOn, Behind
  <1>6. CASE ReadMembers(w)
    BY <1>t, <1>6, ReadMembersIs DEF OnLegStep, OnLeg, GoesOn, Behind
  <1>7. CASE Prune(w)
    BY <1>t, <1>7, PruneIs DEF OnLegStep, OnLeg, GoesOn, Behind
  <1>8. CASE \E E \in SUBSET Alerts : Evict(w, E)
    BY <1>t, <1>8, EvictIs DEF OnLegStep, OnLeg, GoesOn, Behind
  <1>9. CASE MarkTruncated(w) \/ WithinCap(w)
    BY <1>9, CapIs DEF OnLegStep, OnLeg, LegOver, GoesOn, Behind
  <1>10. CASE Bind(w)
    BY <1>10, BindIs DEF LegOver, GoesOn
  <1>11. CASE Emit(w)
    BY <1>t, <1>11, EmitIs DEF GoesOn
  <1>12. QED
    BY <1>1, <1>2, <1>3, <1>4, <1>5, <1>6, <1>7, <1>8, <1>9, <1>10, <1>11 DEF Worker

LEMMA TypesStep ==
    ASSUME Shape, [Next]_vars
    PROVE  Types'
  <1>t. Types
    BY DEF Shape
  <1>1. RedisTypes'
    BY RedisTypesStep
  <1>2. clock' \in Nat \ {0} /\ clock' <= MaxClock
    <2>1. CASE Tick
      BY <1>t, <2>1, Constants DEF Types, Tick
    <2>2. QED
      BY <1>t, <2>1, Frame DEF Types
  <1>3. gen' \in [Tracks -> Nat]
    <2>1. CASE Tick
      BY <1>t, <2>1 DEF Types, Tick
    <2>2. QED
      BY <1>t, <2>1, Frame DEF Types
  <1>4. hitAt' \in [Tracks -> [Alerts -> Nat]]
    <2>1. ASSUME NEW w \in Workers, Hit(w) PROVE hitAt' \in [Tracks -> [Alerts -> Nat]]
      <3>1. Busy(w)
        BY <1>t, <2>1, HitIs DEF OnLeg, GoesOn
      <3>2. job[w].now \in Nat
        BY <1>t, <3>1, JobIs
      <3>3. QED
        BY <1>t, <2>1, <3>2 DEF Types, Hit
    <2>2. QED
      BY <1>t, <2>1, Frame DEF Types
  <1>5. emitted' \subseteq IncidentType
    <2>1. ASSUME NEW w \in Workers, Emit(w) PROVE emitted' \subseteq IncidentType
      <3>1. Busy(w) /\ job[w].out # <<>> /\ emitted' = emitted \cup {Head(job[w].out)}
        BY <1>t, <2>1, EmitIs DEF GoesOn
      <3>2. Head(job[w].out) \in IncidentType
        BY <1>t, <3>1, JobIs, HeadTailProperties
      <3>3. QED
        BY <1>t, <3>1, <3>2 DEF Types
    <2>2. QED
      BY <1>t, <2>1, Frame DEF Types
  <1>6. job' \in [Workers -> JobType \cup {Idle}]
    <2>1. ASSUME NEW w \in Workers, Worker(w) \/ Abort(w) PROVE job' \in [Workers -> JobType \cup {Idle}]
      BY <2>1, WorkerIs DEF Moves
    <2>2. CASE UNCHANGED job
      BY <1>t, <2>2 DEF Types
    <2>3. QED
      BY <2>1, <2>2 DEF Next, Again, Tick, vars
  <1>7. QED
    BY <1>1, <1>2, <1>3, <1>4, <1>5, <1>6 DEF Types

LEMMA JobsStep ==
    ASSUME Shape, [Next]_vars
    PROVE  JobsOK'
  <1>t. Types /\ Types'
    BY TypesStep DEF Shape
  <1>1. ASSUME NEW w \in Workers, NEW a \in Alerts, Take(w, a) PROVE JobsOK'
    <2>1. /\ Moves(w) /\ ~Busy(w) /\ job'[w] # Idle /\ job'[w].alert = a /\ job'[w].now = clock /\ job'[w].leg = 1
          /\ job'[w].pc = IF LegsOf[a] = <<>> THEN "emit" ELSE "hit"
          /\ a \notin acked /\ \A v \in Workers : Busy(v) => job[v].alert # a
      BY <1>t, <1>1, TakeIs
    <2>2. UNCHANGED <<clock, acked>>
      BY <1>1 DEF Take
    <2>3. \A u \in Workers \ {w} : JobGood(u)'
      BY <2>1, <2>2 DEF Shape, JobsOK, JobGood, Busy, Legs, Moves
    <2>4. JobGood(w)'
      <3>1. clock \in Nat /\ MaxStall \in Nat
        BY <1>t, Constants DEF Types
      <3>2. PICK n \in Nat : DOMAIN LegsOf[a] = 1 .. n /\ (LegsOf[a] = <<>> <=> n = 0)
        BY LegIs
      <3>3. CASE n = 0
        BY <2>1, <2>2, <3>1, <3>2, <3>3 DEF JobGood, Legs
      <3>4. CASE n # 0
        <4>1. 1 \in 1 .. n
          BY <3>4
        <4>2. QED
          BY <2>1, <2>2, <3>1, <3>2, <3>4, <4>1 DEF JobGood, Legs
      <3>5. QED
        BY <3>3, <3>4
    <2>5. \A u, v \in Workers : Busy(u)' /\ Busy(v)' /\ job'[u].alert = job'[v].alert => u = v
      BY <2>1 DEF Shape, JobsOK, Busy, Moves
    <2>6. QED
      BY <2>3, <2>4, <2>5 DEF JobsOK
  <1>2. ASSUME NEW w \in Workers, Ack(w) \/ Abort(w) PROVE JobsOK'
    <2>1. Moves(w) /\ Busy(w) /\ job'[w] = Idle /\ (UNCHANGED acked \/ acked' = acked \cup {job[w].alert})
      BY <1>t, <1>2, DoneIs DEF Abort
    <2>2. UNCHANGED clock
      BY <1>2 DEF Ack, Abort
    <2>3. ASSUME NEW u \in Workers PROVE JobGood(u)'
      <3>1. CASE u = w
        BY <2>1, <3>1 DEF JobGood, Busy
      <3>2. CASE u # w
        <4>1. job'[u] = job[u] /\ JobGood(u) /\ (Busy(u) => job[u].alert # job[w].alert)
          BY <2>1, <3>2 DEF Moves, Shape, JobsOK
        <4>2. Busy(u) => job[u].alert \notin acked'
          BY <2>1, <4>1 DEF JobGood
        <4>3. QED
          BY <2>2, <4>1, <4>2 DEF JobGood, Busy, Legs
      <3>3. QED
        BY <3>1, <3>2
    <2>4. \A u, v \in Workers : Busy(u)' /\ Busy(v)' /\ job'[u].alert = job'[v].alert => u = v
      BY <2>1 DEF Shape, JobsOK, Busy, Moves
    <2>5. QED
      BY <2>3, <2>4 DEF JobsOK
  <1>3. ASSUME NEW w \in Workers, Worker(w) PROVE JobsOK'
    <2>1. CASE GoesOn(w) /\ ~(\E a \in Alerts : Take(w, a)) /\ ~Ack(w)
      <3>1. UNCHANGED <<clock, acked>>
        BY <1>3, <2>1 DEF Worker, Hit, Record, Snapshot, ReadMembers, Prune, Evict, MarkTruncated, WithinCap, Bind, Emit
      <3>2. \/ \E to : to # "emit" /\ OnLeg(w, to)
            \/ LegOver(w)
            \/ job[w].pc = "emit" /\ job'[w].pc = "emit" /\ job'[w].leg = job[w].leg
        <4>1. ~Abort(w) \/ job'[w] = Idle
          BY <1>t, DoneIs
        <4>2. ~Abort(w)
          BY <2>1, <4>1 DEF GoesOn
        <4>3. QED
          BY <1>3, <2>1, <4>2, WorkerIs DEF OnLegStep, Behind
      <3>3. QED
        BY <2>1, <3>1, <3>2, GoesOnShape
    <2>2. QED
      BY <1>1, <1>2, <1>3, <2>1, WorkerIs
  <1>4. CASE UNCHANGED <<clock, job>> /\ acked' \subseteq acked
    BY <1>4 DEF Shape, JobsOK, JobGood, Busy, Legs
  <1>5. CASE Tick
    <2>1. ASSUME NEW w \in Workers PROVE JobGood(w)'
      <3>1. CASE Busy(w)
        <4>1. clock < job[w].now + MaxStall /\ clock' = clock + 1 /\ UNCHANGED <<job, acked>>
          BY <1>5, <1>t, <3>1, IdleIs DEF Tick
        <4>2. clock \in Nat /\ MaxStall \in Nat /\ job[w].now \in Nat /\ JobGood(w)
          BY <1>t, <3>1, Constants, JobIs DEF Types, Shape, JobsOK
        <4>3. job[w].now <= clock' /\ clock' <= job[w].now + MaxStall
          BY <3>1, <4>1, <4>2 DEF JobGood
        <4>4. QED
          BY <4>1, <4>2, <4>3 DEF JobGood, Busy, Legs
      <3>2. CASE ~Busy(w)
        BY <1>5, <3>2 DEF Tick, JobGood, Busy
      <3>3. QED
        BY <3>1, <3>2
    <2>2. QED
      BY <1>5, <2>1 DEF Tick, Shape, JobsOK, Busy
  <1>6. ASSUME NEW a \in Alerts, Again(a) PROVE JobsOK'
    BY <1>4, <1>6 DEF Again
  <1>7. QED
    BY <1>2, <1>3, <1>4, <1>5, <1>6 DEF Next, vars

LEMMA ShapeStep ==
    ASSUME Shape, [Next]_vars
    PROVE  Shape'
  BY TypesStep, JobsStep DEF Shape

-----------------------------------------------------------------------------
(* One id per life of a track.                                             *)

\* Only time lets a track go: whatever a worker does, its deadline does not come nearer.
LEMMA DeadlinesGrow ==
    ASSUME Shape, TracksLast, [Next]_vars, ~Tick, NEW k \in Tracks
    PROVE  texp[k] \in Nat /\ texp'[k] \in Nat /\ texp[k] <= texp'[k]
  <1>t. Types /\ texp[k] \in Nat
    BY DEF Shape, Types, RedisTypes
  <1>1. ASSUME NEW w \in Workers, Record(w) PROVE texp'[k] \in Nat /\ texp[k] <= texp'[k]
    <2>1. Within(texp[k])
      BY DEF TracksLast, ExpiryGood
    <2>2. Deadline \in Nat /\ texp[k] <= Deadline
      BY <1>t, <2>1, DeadlineIs
    <2>3. texp' = [texp EXCEPT ![Track(w)] = Deadline]
      BY <1>1 DEF Record
    <2>4. QED
      BY <1>t, <2>2, <2>3 DEF Types, RedisTypes
  <1>2. UNCHANGED texp \/ \E w \in Workers : Record(w)
    BY DEF Next, Worker, Take, Hit, Snapshot, ReadMembers, Prune, Evict, MarkTruncated, WithinCap, Bind, Emit, Ack,
           Abort, Again, vars, redisVars
  <1>3. QED
    BY <1>t, <1>1, <1>2

LEMMA ExpiriesStep ==
    ASSUME Shape, TracksLast, [Next]_vars, NEW k \in Tracks
    PROVE  ExpiryGood(k)'
  <1>t. Types /\ ExpiryGood(k)
    BY DEF Shape, TracksLast
  <1>n. /\ texp[k] \in Nat /\ cexp[k] \in Nat /\ wexp[k] \in Nat /\ cid[k] \in Nat /\ clock \in Nat
        /\ MaxClock \in Nat /\ Ttl \in Nat
    BY <1>t, Constants DEF Types, RedisTypes
  <1>d. Deadline \in Nat \ {0} /\ Deadline > clock /\ Within(Deadline) /\ texp[k] <= Deadline
    BY <1>t, <1>n, DeadlineIs DEF ExpiryGood
  <1>1. CASE Tick
    <2>1. /\ clock' = clock + 1
          /\ texp'[k] = IF texp[k] = clock + 1 THEN 0 ELSE texp[k]
          /\ wexp'[k] = IF wexp[k] = clock + 1 THEN 0 ELSE wexp[k]
          /\ cid'[k] = IF cexp[k] = clock + 1 THEN 0 ELSE cid[k]
          /\ cexp'[k] = IF cexp[k] = clock + 1 THEN 0 ELSE cexp[k]
      BY <1>1 DEF Tick
    <2>2. QED
      BY <1>t, <1>n, <2>1 DEF ExpiryGood, Within
  <1>2. ASSUME NEW w \in Workers, Hit(w) PROVE ExpiryGood(k)'
    <2>1. wexp'[k] \in {wexp[k], Deadline} /\ UNCHANGED <<clock, texp, cexp, cid>>
      BY <1>2, <1>t DEF Hit, Types, RedisTypes
    <2>2. QED
      BY <1>t, <1>d, <2>1 DEF ExpiryGood, Within
  <1>3. ASSUME NEW w \in Workers, Record(w) PROVE ExpiryGood(k)'
    <2>1. /\ UNCHANGED <<clock, wexp, cid>>
          /\ \/ texp'[k] = texp[k] /\ cexp'[k] = cexp[k]
             \/ texp'[k] = Deadline /\ cexp'[k] = IF cid[k] = 0 THEN cexp[k] ELSE Deadline
      BY <1>3, <1>t DEF Record, Types, RedisTypes
    <2>2. QED
      BY <1>t, <1>d, <1>n, <2>1 DEF ExpiryGood, Within
  <1>4. ASSUME NEW w \in Workers, Bind(w) PROVE ExpiryGood(k)'
    <2>1. /\ UNCHANGED <<clock, wexp, texp>>
          /\ \/ cid'[k] = cid[k] /\ cexp'[k] = cexp[k]
             \/ cexp'[k] = Deadline
      BY <1>4, <1>t DEF Bind, Types, RedisTypes
    <2>2. QED
      BY <1>t, <1>d, <1>n, <2>1 DEF ExpiryGood, Within
  <1>5. CASE UNCHANGED <<clock, wexp, texp, cexp, cid>>
    BY <1>t, <1>5 DEF ExpiryGood, Within
  <1>6. \/ Tick \/ UNCHANGED <<clock, wexp, texp, cexp, cid>>
        \/ \E w \in Workers : Hit(w) \/ Record(w) \/ Bind(w)
    BY DEF Next, Worker, Take, Snapshot, ReadMembers, Prune, Evict, MarkTruncated, WithinCap, Emit, Ack,
           Abort, Again, vars, redisVars
  <1>7. QED
    BY <1>1, <1>2, <1>3, <1>4, <1>5, <1>6

\* The tracks the workers are behind on stay when time passes.
LEMMA TickKeeps ==
    ASSUME Shape, Tick, NEW k \in Tracks, NEW s \in Nat, clock + 1 <= s + Horizon, Outlives(texp[k], s)
    PROVE  /\ texp'[k] = texp[k] /\ gen'[k] = gen[k] /\ side'[k] = side[k] /\ tac'[k] = tac[k]
           /\ k \in capped => k \in capped'
  <1>1. texp[k] # clock + 1
    <2>1. texp[k] \in Nat /\ clock \in Nat /\ MaxClock \in Nat /\ Horizon \in Nat /\ clock < MaxClock
      BY Constants DEF Shape, Types, RedisTypes, Tick
    <2>2. QED
      BY <2>1 DEF Outlives
  <1>2. QED
    BY <1>1 DEF Tick

LEMMA TracksStep ==
    ASSUME Shape, TracksLast, [Next]_vars
    PROVE  TracksLast'
  <1>t. Types
    BY DEF Shape
  <1>m. \A s, t, u \in Nat : s <= t /\ Outlives(s, u) => Outlives(t, u)
    BY Constants DEF Outlives
  <1>1. ASSUME NEW w \in Workers, Busy(w)', job'[w].pc \in Behind PROVE Outlives(texp[Track(w)], job[w].now)'
    <2>1. CASE UNCHANGED job /\ Tick
      <3>1. Busy(w) /\ job[w].pc \in Behind /\ Track(w)' = Track(w)
        BY <1>1, <2>1 DEF Busy, Track, Alert
      <3>2. Track(w) \in Tracks /\ job[w].now \in Nat /\ job[w].pc # "emit"
        BY <1>t, <3>1, TrackIs, JobIs DEF Behind
      <3>3. clock < job[w].now + MaxStall
        BY <1>t, <2>1, <3>1, IdleIs DEF Tick
      <3>4. clock + 1 <= job[w].now + Horizon
        BY <1>t, <3>2, <3>3, Constants DEF Types
      <3>5. Outlives(texp[Track(w)], job[w].now)
        BY <3>1 DEF TracksLast
      <3>6. texp'[Track(w)] = texp[Track(w)]
        BY <2>1, <3>2, <3>4, <3>5, TickKeeps
      <3>7. QED
        BY <2>1, <3>1, <3>5, <3>6 DEF Outlives
    <2>2. CASE /\ ~Tick /\ Busy(w) /\ job[w].pc \in Behind
               /\ job'[w].alert = job[w].alert /\ job'[w].leg = job[w].leg /\ job'[w].now = job[w].now
      <3>1. Track(w)' = Track(w)
        BY <2>2 DEF Track, Alert
      <3>2. Track(w) \in Tracks /\ job[w].now \in Nat
        BY <1>t, <2>2, TrackIs, JobIs DEF Behind
      <3>3. Outlives(texp[Track(w)], job[w].now)
        BY <2>2 DEF TracksLast
      <3>4. /\ texp[Track(w)] \in Nat /\ texp'[Track(w)] \in Nat
            /\ texp[Track(w)] <= texp'[Track(w)]
        BY <2>2, <3>2, DeadlinesGrow
      <3>5. Outlives(texp'[Track(w)], job[w].now)
        BY <1>m, <3>2, <3>3, <3>4
      <3>6. QED
        BY <2>2, <3>1, <3>5 DEF Outlives
    <2>3. CASE Record(w)
      <3>1. OnLeg(w, "snapshot") /\ job[w].pc = "record" /\ Busy(w)
        BY <1>t, <2>3, RecordIs DEF OnLeg, GoesOn
      <3>2. Track(w)' = Track(w) /\ job'[w].now = job[w].now
        BY <3>1 DEF Track, Alert, OnLeg, GoesOn
      <3>3. Track(w) \in Tracks /\ job[w].now \in Nat /\ job[w].now <= clock
        BY <1>t, <3>1, TrackIs, JobIs DEF Shape, JobsOK, JobGood
      <3>4. Outlives(Deadline, job[w].now)
        BY <1>t, <3>3, DeadlineIs
      <3>5. texp'[Track(w)] = Deadline
        BY <1>t, <2>3, <3>3 DEF Record, Types, RedisTypes
      <3>6. QED
        BY <3>2, <3>4, <3>5 DEF Outlives
    <2>4. ASSUME NEW v \in Workers, Worker(v) \/ Abort(v), ~Record(w), ~Tick
          PROVE  /\ Busy(w) /\ job[w].pc \in Behind
                 /\ job'[w].alert = job[w].alert /\ job'[w].leg = job[w].leg /\ job'[w].now = job[w].now
      <3>1. CASE v # w
        BY <1>1, <2>4, <3>1, WorkerIs DEF Moves, Busy
      <3>2. CASE v = w
        <4>1. ~(\E a \in Alerts : Take(w, a)) /\ ~Ack(w) /\ ~Abort(w)
          BY <1>t, <1>1, TakeIs, DoneIs DEF Busy, Behind
        <4>2. OnLegStep(w) \/ LegOver(w) \/ job'[w].pc = "emit"
          BY <2>4, <3>2, <4>1, WorkerIs
        <4>3. \E to \in Behind : OnLeg(w, to) /\ job[w].pc \in Behind
          BY <1>1, <2>4, <4>2 DEF OnLegStep, LegOver, OnLeg, Behind
        <4>4. QED
          BY <4>3 DEF OnLeg, GoesOn
      <3>3. QED
        BY <3>1, <3>2
    <2>5. CASE UNCHANGED job /\ ~Tick
      BY <1>1, <2>2, <2>5 DEF Busy
    <2>6. QED
      BY <2>1, <2>2, <2>3, <2>4, <2>5 DEF Next, Again, Tick, vars
  <1>2. QED
    BY <1>1, ExpiriesStep DEF TracksLast

\* Only bind makes an incident: the others pass on what there is.
LEMMA IssuedStep ==
    ASSUME Shape, NEW w \in Workers, Worker(w) \/ Abort(w), ~Bind(w)
    PROVE  Issued' \subseteq Issued
  <1>t. Types
    BY DEF Shape
  <1>1. \A u \in Workers \ {w} : Outbox(u)' = Outbox(u)
    BY WorkerIs DEF Moves, Outbox, Busy
  <1>2. CASE Emit(w)
    <2>1. /\ GoesOn(w) /\ job[w].out # <<>> /\ job'[w].out = Tail(job[w].out)
          /\ emitted' = emitted \cup {Head(job[w].out)}
      BY <1>t, <1>2, EmitIs
    <2>2. Busy(w) /\ job[w].out \in Seq(IncidentType)
      BY <1>t, <2>1, JobIs DEF GoesOn
    <2>3. PICK o \in Seq(IncidentType) : o = job[w].out
      BY <2>2
    <2>4. Head(o) = o[1] /\ 1 \in DOMAIN o /\ \A n \in DOMAIN Tail(o) : Tail(o)[n] = o[n + 1] /\ n + 1 \in DOMAIN o
      BY <2>1, <2>3
    <2>5. Head(o) \in Outbox(w)
      BY <2>2, <2>3, <2>4 DEF Outbox
    <2>6. Outbox(w)' \subseteq Outbox(w)
      BY <2>1, <2>2, <2>3, <2>4 DEF Outbox
    <2>7. QED
      BY <1>1, <2>1, <2>3, <2>5, <2>6 DEF Issued
  <1>3. ASSUME ~Emit(w) PROVE Outbox(w)' \subseteq Outbox(w)
    <2>1. CASE job'[w] = Idle
      BY <2>1 DEF Outbox, Busy
    <2>2. CASE job'[w].out = <<>>
      BY <2>2 DEF Outbox
    <2>3. CASE Busy(w) /\ job'[w].out = job[w].out
      BY <2>3 DEF Outbox
    <2>4. CASE MarkTruncated(w) \/ WithinCap(w)
      <3>1. job'[w].out = job[w].out /\ Busy(w)
        BY <2>4, CapIs DEF OnLeg, LegOver, GoesOn
      <3>2. QED
        BY <2>3, <3>1
    <2>5. CASE (\E a \in Alerts : Take(w, a)) \/ Ack(w) \/ Abort(w)
      BY <1>t, <2>1, <2>2, <2>5, TakeIs, DoneIs
    <2>6. CASE \/ Hit(w) \/ Record(w) \/ Snapshot(w) \/ ReadMembers(w) \/ Prune(w)
               \/ \E E \in SUBSET Alerts : Evict(w, E)
      <3>1. \E to : OnLeg(w, to)
        BY <1>t, <2>6, HitIs, RecordIs, SnapshotIs, ReadMembersIs, PruneIs, EvictIs
      <3>2. QED
        BY <2>3, <3>1 DEF OnLeg, GoesOn
    <2>7. QED
      BY <1>3, <2>4, <2>5, <2>6 DEF Worker
  <1>4. CASE ~Emit(w)
    <2>1. UNCHANGED emitted
      BY <1>4 DEF Worker, Take, Hit, Record, Snapshot, ReadMembers, Prune, Evict, MarkTruncated, WithinCap, Bind, Ack, Abort
    <2>2. QED
      BY <1>1, <1>3, <1>4, <2>1 DEF Issued
  <1>5. QED
    BY <1>2, <1>4

LEMMA IssuedIs ==
    ASSUME Types
    PROVE  Issued \subseteq IncidentType
  <1>1. ASSUME NEW w \in Workers, Busy(w), NEW n \in DOMAIN job[w].out PROVE job[w].out[n] \in IncidentType
    BY <1>1, JobIs
  <1>2. QED
    BY <1>1 DEF Issued, Outbox, Types

\* Nothing but bind and the clock touches ids and generations.
LEMMA IdsSame ==
    ASSUME IdsOK, Issued' \subseteq Issued, UNCHANGED <<gen, cid>>, Types,
           \A k \in Tracks : texp[k] # 0 => texp'[k] # 0
    PROVE  IdsOK'
  <1>1. \A i \in Issued : i.track \in Tracks
    BY IssuedIs DEF IncidentType
  <1>2. QED
    BY <1>1 DEF IdsOK

LEMMA IdsStep ==
    ASSUME IdInv, [Next]_vars
    PROVE  IdsOK'
  <1>t. Types /\ Shape /\ TracksLast /\ IdsOK
    BY DEF IdInv, Shape
  <1>i. \A i \in Issued : i.track \in Tracks /\ i.gen \in Nat /\ i.id \in Nat \ {0}
    BY <1>t, IssuedIs DEF IncidentType
  <1>x. ~Tick => \A k \in Tracks : texp[k] # 0 => texp'[k] # 0
    BY <1>t, DeadlinesGrow
  <1>1. ASSUME NEW w \in Workers, Bind(w) PROVE IdsOK'
    <2>1. LegOver(w) /\ job[w].pc = "bind" /\ Busy(w) /\ Moves(w)
      BY <1>1, <1>t, BindIs DEF LegOver, GoesOn
    <2>2. PICK inc \in IncidentType :
                 /\ inc.track = Track(w) /\ inc.gen = gen[Track(w)]
                 /\ job'[w].out = Append(job[w].out, inc)
                 /\ cid' = [cid EXCEPT ![Track(w)] = inc.id]
                 /\ cid[Track(w)] # 0 => inc.id = cid[Track(w)]
      BY <1>1, <1>t, BindIs
    <2>3. PICK k \in Tracks : k = Track(w)
      BY <1>t, <2>1, TrackIs
    <2>4. UNCHANGED <<gen, texp, emitted>>
      BY <1>1 DEF Bind, historyVars
    <2>5. texp[k] # 0
      <3>1. Outlives(texp[k], job[w].now) /\ job[w].now \in Nat /\ texp[k] \in Nat
        BY <1>t, <2>1, <2>3, JobIs DEF TracksLast, Behind, Types, RedisTypes
      <3>2. QED
        BY <3>1, Constants DEF Outlives
    <2>6. cid \in [Tracks -> Nat]
      BY <1>t DEF Types, RedisTypes
    <2>7. Issued' \subseteq Issued \cup {inc}
      <3>1. \A u \in Workers \ {w} : Outbox(u)' = Outbox(u)
        BY <2>1 DEF Moves, Outbox, Busy
      <3>2. PICK o \in Seq(IncidentType) : o = job[w].out
        BY <1>t, <2>1, JobIs
      <3>3. \A n \in DOMAIN Append(o, inc) : Append(o, inc)[n] = inc \/ (n \in DOMAIN o /\ Append(o, inc)[n] = o[n])
        OBVIOUS
      <3>4. Outbox(w)' \subseteq Outbox(w) \cup {inc}
        BY <2>1, <2>2, <3>2, <3>3 DEF Outbox
      <3>5. QED
        BY <2>4, <3>1, <3>4 DEF Issued
    <2>8. ASSUME NEW i \in Issued
          PROVE  /\ i.gen <= gen[i.track] /\ (i.gen = gen[i.track] => i.id = cid'[i.track] /\ texp[i.track] # 0)
                 /\ i.track = k /\ i.gen = gen[k] => i.id = inc.id
      BY <1>t, <1>i, <2>2, <2>3, <2>6 DEF IdsOK
    <2>9. inc.gen <= gen[k] /\ inc.id = cid'[k] /\ inc.track = k
      <3>1. gen[k] \in Nat
        BY <1>t DEF Types
      <3>2. QED
        BY <2>2, <2>3, <2>6, <3>1
    <2>10. \A i, j \in Issued \cup {inc} : i.track = j.track /\ i.gen = j.gen => i.id = j.id
      <3>1. \A i, j \in Issued : i.track = j.track /\ i.gen = j.gen => i.id = j.id
        BY <1>t DEF IdsOK
      <3>2. \A i \in Issued : i.track = inc.track /\ i.gen = inc.gen => i.id = inc.id
        BY <2>2, <2>3, <2>8
      <3>3. QED
        BY <3>1, <3>2
    <2>11. \A i \in Issued \cup {inc} :
             i.gen <= gen[i.track] /\ (i.gen = gen[i.track] => i.id = cid'[i.track] /\ texp[i.track] # 0)
      BY <2>5, <2>8, <2>9
    <2>12. QED
      BY <2>4, <2>7, <2>10, <2>11 DEF IdsOK
  <1>2. CASE Tick
    <2>1. Issued' = Issued
      BY <1>2 DEF Tick, Issued, Outbox, Busy
    <2>2. ASSUME NEW i \in Issued, NEW k \in Tracks, k = i.track
          PROVE  i.gen <= gen'[k] /\ (i.gen = gen'[k] => i.id = cid'[k] /\ texp'[k] # 0)
      <3>1. /\ i.gen \in Nat /\ i.id \in Nat \ {0} /\ gen[k] \in Nat /\ texp[k] \in Nat /\ cexp[k] \in Nat /\ clock \in Nat
        BY <1>t, <1>i DEF Types, RedisTypes
      <3>2. i.gen <= gen[k] /\ (i.gen = gen[k] => i.id = cid[k] /\ texp[k] # 0)
        BY <1>t, <2>2 DEF IdsOK
      <3>3. /\ texp[k] # 0 => texp[k] > clock
            /\ cid[k] # 0 => cexp[k] > clock /\ cexp[k] >= texp[k]
        BY <1>t DEF TracksLast, ExpiryGood
      <3>4. /\ gen'[k] = IF texp[k] = clock + 1 THEN gen[k] + 1 ELSE gen[k]
            /\ texp'[k] = IF texp[k] = clock + 1 THEN 0 ELSE texp[k]
            /\ cid'[k] = IF cexp[k] = clock + 1 THEN 0 ELSE cid[k]
        BY <1>2 DEF Tick
      <3>5. CASE texp[k] = clock + 1
        BY <3>1, <3>2, <3>4, <3>5
      <3>6. CASE texp[k] # clock + 1
        <4>1. i.gen = gen[k] => cexp[k] # clock + 1
          BY <3>1, <3>2, <3>3, <3>6
        <4>2. QED
          BY <3>2, <3>4, <3>6, <4>1
      <3>7. QED
        BY <3>5, <3>6
    <2>3. \A i, j \in Issued : i.track = j.track /\ i.gen = j.gen => i.id = j.id
      BY <1>t DEF IdsOK
    <2>4. QED
      BY <1>i, <2>1, <2>2, <2>3 DEF IdsOK
  <1>3. ASSUME NEW w \in Workers, Worker(w) \/ Abort(w), ~Bind(w), ~Tick PROVE IdsOK'
    <2>1. UNCHANGED <<gen, cid>>
      BY <1>3 DEF Worker, Take, Hit, Record, Snapshot, ReadMembers, Prune, Evict, MarkTruncated, WithinCap, Emit, Ack, Abort,
                  redisVars, historyVars
    <2>2. QED
      BY <1>3, <1>t, <1>x, <2>1, IssuedStep, IdsSame
  <1>4. CASE UNCHANGED <<job, emitted, gen, cid>> /\ ~Tick
    <2>1. Issued' = Issued
      BY <1>4 DEF Issued, Outbox, Busy
    <2>2. QED
      BY <1>4, <1>t, <1>x, <2>1, IdsSame
  <1>5. ASSUME NEW a \in Alerts, Again(a) PROVE UNCHANGED <<job, emitted, gen, cid>>
    BY <1>5 DEF Again, redisVars, historyVars
  <1>6. UNCHANGED vars => UNCHANGED <<job, emitted, gen, cid>>
    BY DEF vars, redisVars, historyVars
  <1>7. QED
    BY <1>1, <1>2, <1>3, <1>4, <1>5, <1>6 DEF Next

LEMMA IdInit ==
    ASSUME Init
    PROVE  IdInv
  <1>1. Types
    <2>1. None \in [Alerts -> Nat]
      BY DEF None
    <2>2. QED
      BY <2>1, Constants DEF Init, Types, RedisTypes
  <1>2. \A w \in Workers : ~Busy(w)
    BY DEF Init, Busy
  <1>3. JobsOK
    BY <1>2 DEF JobsOK, JobGood
  <1>4. TracksLast
    <2>1. \A k \in Tracks : ExpiryGood(k)
      BY Constants DEF Init, ExpiryGood, Within
    <2>2. QED
      BY <1>2, <2>1 DEF TracksLast
  <1>5. IdsOK
    <2>1. Issued = {}
      BY <1>2 DEF Init, Issued, Outbox
    <2>2. QED
      BY <2>1 DEF IdsOK
  <1>6. QED
    BY <1>1, <1>3, <1>4, <1>5 DEF IdInv, Shape

LEMMA IdStep ==
    ASSUME IdInv, [Next]_vars
    PROVE  IdInv'
  BY ShapeStep, TracksStep, IdsStep DEF IdInv

\* A life of a track has one incident id: whichever replica binds it first, under any
\* interleaving, error, redelivery or late alert, every incident produced for it carries it.
THEOREM OneIdPerLife == Spec => []OneIdPerTrack
  <1>1. Init => IdInv
    BY IdInit
  <1>2. IdInv /\ [Next]_vars => IdInv'
    BY IdStep
  <1>3. IdInv => OneIdPerTrack
    BY DEF IdInv, IdsOK, Issued, OneIdPerTrack
  <1>4. QED
    BY <1>1, <1>2, <1>3, PTL DEF Spec

-----------------------------------------------------------------------------
(* What is counted, and its entries.                                       *)

LEMMA HitNumbers ==
    ASSUME Types, NEW k \in Tracks, NEW a \in Alerts
    PROVE  /\ hitAt[k][a] \in Nat /\ win[k][a] \in Nat /\ side[k][a] \in Nat /\ wexp[k] \in Nat /\ texp[k] \in Nat
           /\ clock \in Nat \ {0}
  BY DEF Types, RedisTypes

\* What a hit writes.
LEMMA HitWrites ==
    ASSUME Shape, NEW w \in Workers, Hit(w)
    PROVE  /\ Busy(w) /\ job[w].pc = "hit" /\ Track(w) \in Tracks /\ job[w].alert \in Alerts /\ job[w].now \in Nat \ {0}
           /\ Track(w) = LegsOf[job[w].alert][job[w].leg] /\ job[w].leg \in Legs(w)
           /\ job[w].now <= clock /\ clock <= job[w].now + MaxStall
           /\ \A k \in Tracks, a \in Alerts :
                 /\ hitAt'[k][a] = IF k = Track(w) /\ a = job[w].alert THEN job[w].now ELSE hitAt[k][a]
                 /\ k # Track(w) => win'[k][a] = win[k][a] /\ wexp'[k] = wexp[k]
           /\ wexp'[Track(w)] = Deadline /\ win'[Track(w)][job[w].alert] = job[w].now
           /\ \A a \in Alerts \ {job[w].alert} :
                 win'[Track(w)][a] = IF win[Track(w)][a] < job[w].now - Horizon THEN 0 ELSE win[Track(w)][a]
           /\ UNCHANGED <<clock, side, texp, acked, capped, tardy>>
  <1>1. Types /\ Busy(w) /\ job[w].pc = "hit"
    BY HitIs DEF Shape, OnLeg, GoesOn
  <1>2. /\ Track(w) \in Tracks /\ job[w].alert \in Alerts /\ job[w].now \in Nat \ {0}
        /\ Track(w) = LegsOf[job[w].alert][job[w].leg] /\ job[w].leg \in Legs(w)
    BY <1>1, TrackIs, JobIs
  <1>3. job[w].now <= clock /\ clock <= job[w].now + MaxStall
    BY <1>1 DEF Shape, JobsOK, JobGood
  <1>4. PICK k0 \in Tracks, a0 \in Alerts, n0 \in Nat \ {0} : k0 = Track(w) /\ a0 = job[w].alert /\ n0 = job[w].now
    BY <1>2
  <1>5. PICK z \in [Alerts -> Nat] : z = win[k0]
    BY <1>1 DEF Types, RedisTypes
  <1>6. PICK y : y = ZHit(z, a0, n0, Horizon)
    OBVIOUS
  <1>7. y[a0] = n0 /\ \A a \in Alerts \ {a0} : y[a] = IF z[a] < n0 - Horizon THEN 0 ELSE z[a]
    BY <1>6, ZHitIs
  <1>8. win' = [win EXCEPT ![k0] = y] /\ wexp' = [wexp EXCEPT ![k0] = Deadline] /\ hitAt' = [hitAt EXCEPT ![k0][a0] = n0]
    BY <1>4, <1>5, <1>6 DEF Hit, Alert
  <1>9. UNCHANGED <<clock, side, texp, acked, capped, tardy>>
    BY DEF Hit
  <1>10. /\ win'[k0] = y /\ wexp'[k0] = Deadline
         /\ \A k \in Tracks \ {k0} : win'[k] = win[k] /\ wexp'[k] = wexp[k]
    BY <1>1, <1>8 DEF Types, RedisTypes
  <1>11. \A k \in Tracks, a \in Alerts : hitAt'[k][a] = IF k = k0 /\ a = a0 THEN n0 ELSE hitAt[k][a]
    BY <1>1, <1>8 DEF Types
  <1>12. QED
    BY <1>1, <1>2, <1>3, <1>4, <1>5, <1>7, <1>9, <1>10, <1>11

\* What a record writes.
LEMMA RecordWrites ==
    ASSUME Shape, NEW w \in Workers, Record(w)
    PROVE  /\ Busy(w) /\ job[w].pc = "record" /\ Track(w) \in Tracks /\ job[w].alert \in Alerts /\ job[w].now \in Nat \ {0}
           /\ Track(w) = LegsOf[job[w].alert][job[w].leg] /\ job[w].leg \in Legs(w)
           /\ \A k \in Tracks, a \in Alerts :
                 IF k = Track(w) /\ a = job[w].alert THEN side'[k][a] # 0 ELSE side'[k][a] = side[k][a]
           /\ texp'[Track(w)] = Deadline
           /\ UNCHANGED <<clock, win, wexp, acked, hitAt, capped, tardy>>
  <1>1. Types /\ Busy(w) /\ job[w].pc = "record"
    BY RecordIs DEF Shape, OnLeg, GoesOn
  <1>2. /\ Track(w) \in Tracks /\ job[w].alert \in Alerts /\ job[w].now \in Nat \ {0}
        /\ Track(w) = LegsOf[job[w].alert][job[w].leg] /\ job[w].leg \in Legs(w)
    BY <1>1, TrackIs, JobIs
  <1>3. PICK t \in Nat \ {0} : t = EntryTime(w)
    BY <1>1, EntryTimeIs
  <1>4. side' = [side EXCEPT ![Track(w)][job[w].alert] = t]
    BY <1>3 DEF Record, Alert
  <1>5. \A k \in Tracks, a \in Alerts :
          IF k = Track(w) /\ a = job[w].alert THEN side'[k][a] # 0 ELSE side'[k][a] = side[k][a]
    BY <1>1, <1>2, <1>4 DEF Types, RedisTypes
  <1>6. texp'[Track(w)] = Deadline /\ UNCHANGED <<clock, win, wexp, acked, hitAt, capped, tardy>>
    BY <1>1, <1>2 DEF Record, Types, RedisTypes, historyVars
  <1>7. QED
    BY <1>1, <1>2, <1>5, <1>6

\* What HDEL leaves.
HDel(w, S) == side' = [side EXCEPT ![Track(w)] = Without(@, S)]

LEMMA WithoutWrites ==
    ASSUME Types, NEW w \in Workers, NEW S, HDel(w, S), NEW k \in Tracks, NEW a \in Alerts
    PROVE  side'[k][a] = IF k = Track(w) /\ a \in S THEN 0 ELSE side[k][a]
  <1>1. side[k] \in [Alerts -> Nat] /\ side'[k] = IF k = Track(w) THEN Without(side[k], S) ELSE side[k]
    BY DEF HDel, Types, RedisTypes
  <1>2. QED
    BY <1>1, WithoutIs

LEMMA HitGoodStep ==
    ASSUME Shape, HitsOK, [Next]_vars, NEW k \in Tracks, NEW a \in Alerts
    PROVE  HitGood(k, a)'
  <1>t. Types /\ HitGood(k, a)
    BY DEF Shape, HitsOK
  <1>n. /\ hitAt[k][a] \in Nat /\ win[k][a] \in Nat /\ side[k][a] \in Nat /\ wexp[k] \in Nat /\ clock \in Nat \ {0}
        /\ Horizon \in Nat /\ MaxClock \in Nat
    BY <1>t, HitNumbers, Constants
  <1>1. ASSUME NEW w \in Workers, Hit(w) PROVE HitGood(k, a)'
    <2>0. UNCHANGED <<clock, side>>
      BY <1>1, HitWrites
    <2>1. CASE k # Track(w)
      <3>1. hitAt'[k][a] = hitAt[k][a] /\ win'[k][a] = win[k][a] /\ wexp'[k] = wexp[k]
        BY <1>1, <2>1, HitWrites
      <3>2. QED
        BY <1>t, <2>0, <3>1 DEF HitGood, Fresh, Outlives
    <2>2. CASE k = Track(w) /\ a = job[w].alert
      <3>1. /\ hitAt'[k][a] = job[w].now /\ win'[k][a] = job[w].now /\ wexp'[k] = Deadline
            /\ job[w].now \in Nat \ {0} /\ job[w].now <= clock
        BY <1>1, <2>2, HitWrites
      <3>2. \E n \in DOMAIN LegsOf[a] : LegsOf[a][n] = k
        BY <1>1, <2>2, HitWrites DEF Legs
      <3>3. Outlives(Deadline, job[w].now)
        BY <1>t, <3>1, DeadlineIs
      <3>4. QED
        BY <2>0, <3>1, <3>2, <3>3 DEF HitGood, Fresh, Outlives
    <2>3. CASE k = Track(w) /\ a # job[w].alert
      <3>1. /\ hitAt'[k][a] = hitAt[k][a] /\ wexp'[k] = Deadline
            /\ win'[k][a] = IF win[k][a] < job[w].now - Horizon THEN 0 ELSE win[k][a]
            /\ job[w].now \in Nat \ {0} /\ job[w].now <= clock
        BY <1>1, <2>3, HitWrites
      <3>2. Outlives(Deadline, hitAt[k][a])
        BY <1>t, <1>n, DeadlineIs DEF HitGood
      <3>3. Fresh(k, a) => win'[k][a] # 0
        <4>1. Fresh(k, a) => win[k][a] = hitAt[k][a] /\ win[k][a] # 0
          BY <1>t DEF HitGood
        <4>2. QED
          BY <1>n, <3>1, <4>1 DEF Fresh
      <3>4. win'[k][a] \in {0, hitAt[k][a]}
        BY <1>t, <3>1 DEF HitGood
      <3>5. QED
        BY <1>t, <2>0, <3>1, <3>2, <3>3, <3>4 DEF HitGood, Fresh, Outlives
    <2>4. QED
      BY <2>1, <2>2, <2>3
  <1>2. ASSUME NEW w \in Workers, Record(w) PROVE HitGood(k, a)'
    <2>1. UNCHANGED <<clock, win, wexp, hitAt>>
      BY <1>2, RecordWrites
    <2>2. side'[k][a] # 0 => hitAt[k][a] # 0
      <3>1. CASE k = Track(w) /\ a = job[w].alert
        <4>1. /\ Busy(w) /\ job[w].pc = "record" /\ job[w].now \in Nat \ {0}
              /\ Track(w) = LegsOf[job[w].alert][job[w].leg] /\ job[w].leg \in Legs(w)
          BY <1>2, RecordWrites
        <4>2. HasHit(w, job[w].leg)
          BY <4>1 DEF HasHit
        <4>3. hitAt[k][a] = job[w].now
          BY <3>1, <4>1, <4>2 DEF HitsOK, JobHits
        <4>4. QED
          BY <4>1, <4>3
      <3>2. CASE ~(k = Track(w) /\ a = job[w].alert)
        BY <1>2, <1>t, <3>2, RecordWrites DEF HitGood
      <3>3. QED
        BY <3>1, <3>2
    <2>3. QED
      BY <1>t, <2>1, <2>2 DEF HitGood, Fresh, Outlives
  <1>3. ASSUME NEW w \in Workers, NEW S, HDel(w, S), UNCHANGED <<clock, win, wexp, hitAt>>
        PROVE  HitGood(k, a)'
    <2>1. side'[k][a] # 0 => side[k][a] # 0
      <3>1. side'[k][a] = IF k = Track(w) /\ a \in S THEN 0 ELSE side[k][a]
        BY <1>3, <1>t, WithoutWrites
      <3>2. QED
        BY <3>1
    <2>2. QED
      BY <1>3, <1>t, <2>1 DEF HitGood, Fresh, Outlives
  <1>4. CASE Tick
    <2>1. /\ clock' = clock + 1 /\ clock < MaxClock /\ UNCHANGED hitAt
          /\ win'[k] = (IF wexp[k] = clock + 1 THEN None ELSE win[k])
          /\ wexp'[k] = (IF wexp[k] = clock + 1 THEN 0 ELSE wexp[k])
          /\ side'[k] = (IF texp[k] = clock + 1 THEN None ELSE side[k])
      BY <1>4 DEF Tick
    <2>2. None[a] = 0
      BY DEF None
    <2>3. win'[k][a] \in {0, hitAt[k][a]} /\ (side'[k][a] # 0 => hitAt[k][a] # 0)
      BY <1>t, <2>1, <2>2 DEF HitGood
    <2>4. ASSUME Fresh(k, a)' PROVE win'[k][a] # 0 /\ Outlives(wexp'[k], hitAt[k][a])
      <3>1. hitAt[k][a] # 0 /\ hitAt[k][a] + Horizon >= clock + 1
        BY <2>1, <2>4 DEF Fresh
      <3>2. Fresh(k, a)
        BY <1>n, <3>1 DEF Fresh
      <3>3. win[k][a] # 0 /\ Outlives(wexp[k], hitAt[k][a])
        BY <1>t, <3>2 DEF HitGood
      <3>4. wexp[k] # clock + 1
        BY <1>n, <2>1, <3>1, <3>3 DEF Outlives
      <3>5. QED
        BY <2>1, <3>3, <3>4
    <2>5. hitAt[k][a] <= clock + 1
      BY <1>t, <1>n DEF HitGood
    <2>6. QED
      BY <1>t, <2>1, <2>3, <2>4, <2>5 DEF HitGood, Outlives
  <1>5. CASE UNCHANGED <<clock, win, wexp, side, hitAt>>
    BY <1>t, <1>5 DEF HitGood, Fresh, Outlives
  <1>6. ASSUME NEW w \in Workers, Worker(w) PROVE HitGood(k, a)'
    <2>1. CASE Prune(w)
      <3>1. UNCHANGED <<clock, win, wexp, hitAt>>
        BY <2>1 DEF Prune, historyVars
      <3>2. QED
        BY <1>3, <2>1, <3>1 DEF Prune, HDel
    <2>2. CASE \E E \in SUBSET Alerts : Evict(w, E)
      <3>1. UNCHANGED <<clock, win, wexp, hitAt>>
        BY <2>2 DEF Evict
      <3>2. QED
        BY <1>3, <2>2, <3>1 DEF Evict, HDel
    <2>3. CASE \/ \E b \in Alerts : Take(w, b)
               \/ Snapshot(w) \/ ReadMembers(w) \/ MarkTruncated(w) \/ WithinCap(w) \/ Bind(w) \/ Emit(w) \/ Ack(w)
      BY <1>5, <2>3 DEF Take, Snapshot, ReadMembers, MarkTruncated, WithinCap, Bind, Emit, Ack, redisVars, historyVars
    <2>4. QED
      BY <1>1, <1>2, <1>6, <2>1, <2>2, <2>3 DEF Worker
  <1>7. QED
    BY <1>4, <1>5, <1>6 DEF Next, Abort, Again, vars, redisVars, historyVars

\* Late tracks stay marked, and time does not go back.
LEMMA LateStays ==
    ASSUME Types, [Next]_vars
    PROVE  tardy \subseteq tardy' /\ clock' \in Nat /\ clock <= clock'
  <1>1. tardy \subseteq tardy'
    BY DEF Next, Worker, Take, Hit, Record, Snapshot, ReadMembers, Prune, Evict, MarkTruncated, WithinCap, Bind, Emit, Ack,
           Abort, Again, Tick, vars, historyVars
  <1>2. clock' = clock \/ clock' = clock + 1
    BY Frame DEF Tick
  <1>3. QED
    BY <1>1, <1>2 DEF Types

\* What the workers that do not move rely on.
LEMMA JobHitsOther ==
    ASSUME Shape, HitsOK, [Next]_vars, NEW u \in Workers, Busy(u), job'[u] = job[u]
    PROVE  JobHits(u)'
  <1>t. Types /\ JobHits(u)
    BY DEF Shape, HitsOK
  <1>j. job[u].alert \in Alerts /\ job[u].now \in Nat
    BY <1>t, JobIs
  <1>l. tardy \subseteq tardy' /\ clock' \in Nat /\ clock <= clock'
    BY <1>t, LateStays
  <1>k. Track(u)' = Track(u) /\ (job[u].pc # "emit" => Track(u) \in Tracks)
    BY TrackIs DEF Track, Alert
  <1>g. \A n \in Legs(u) : LegsOf[job[u].alert][n] \in Tracks
    BY <1>j, LegIs DEF Legs
  <1>1. \A k \in Tracks : hitAt'[k][job[u].alert] = hitAt[k][job[u].alert]
    <2>1. ASSUME NEW w \in Workers, Hit(w), NEW k \in Tracks PROVE hitAt'[k][job[u].alert] = hitAt[k][job[u].alert]
      <3>1. Busy(w) /\ job'[w].pc = "record" /\ job[w].pc = "hit"
        BY <1>t, <2>1, HitIs DEF OnLeg, GoesOn
      <3>2. job[w].alert # job[u].alert
        BY <3>1 DEF Shape, JobsOK
      <3>3. QED
        BY <1>j, <2>1, <3>2, HitWrites
    <2>2. QED
      BY <2>1, Frame
  <1>2. ASSUME job[u].pc \in {"members", "prune"}, NEW a \in Alerts, job[u].side[a] # 0
        PROVE  hitAt'[Track(u)][a] # 0
    <2>1. hitAt[Track(u)][a] # 0
      BY <1>t, <1>2 DEF JobHits
    <2>2. ASSUME NEW w \in Workers, Hit(w) PROVE hitAt'[Track(u)][a] # 0
      BY <1>2, <1>k, <2>1, <2>2, HitWrites
    <2>3. QED
      BY <2>1, <2>2, Frame
  <1>3. ASSUME job[u].pc = "prune", NEW a \in Alerts, job[u].side[a] # 0, a \notin job[u].live
        PROVE  Track(u) \in tardy' \/ ~Fresh(Track(u), a)'
    <2>0. PICK k \in Tracks : k = Track(u)
      BY <1>3, <1>k
    <2>1. k \in tardy \/ ~Fresh(k, a)
      BY <1>t, <1>3, <2>0 DEF JobHits
    <2>2. hitAt[k][a] # 0
      BY <1>t, <1>3, <2>0 DEF JobHits
    <2>3. hitAt[k][a] \in Nat /\ clock \in Nat /\ Horizon \in Nat /\ MaxStall \in Nat
      BY <1>t, HitNumbers, Constants
    <2>4. CASE hitAt'[k][a] = hitAt[k][a]
      <3>1. Fresh(k, a)' => Fresh(k, a)
        BY <1>l, <2>3, <2>4 DEF Fresh
      <3>2. QED
        BY <1>l, <1>k, <2>0, <2>1, <3>1 DEF Fresh
    <2>5. ASSUME NEW w \in Workers, Hit(w), k = Track(w), a = job[w].alert PROVE k \in tardy \/ Fresh(k, a)
      <3>1. Busy(w) /\ job[w].now \in Nat /\ clock <= job[w].now + MaxStall
        BY <2>5, HitWrites
      <3>2. k \in tardy \/ hitAt[k][a] = 0 \/ job[w].now + MaxStall <= hitAt[k][a] + Horizon
        BY <2>5, <3>1 DEF HitsOK, JobHits
      <3>3. QED
        BY <2>2, <2>3, <3>1, <3>2 DEF Fresh
    <2>6. ASSUME NEW w \in Workers, Hit(w) PROVE hitAt'[k][a] = hitAt[k][a] \/ (k = Track(w) /\ a = job[w].alert)
      BY <2>6, HitWrites
    <2>7. QED
      BY <1>l, <1>k, <2>0, <2>1, <2>4, <2>5, <2>6, Frame
  <1>4. \A n \in Legs(u) : HasHit(u, n)' => hitAt'[LegsOf[job[u].alert][n]][job[u].alert] = job[u].now
    BY <1>t, <1>1, <1>g DEF JobHits, HasHit
  <1>5. \A k \in Tracks : \/ k \in tardy' \/ hitAt'[k][job[u].alert] = 0
                          \/ job[u].now + MaxStall <= hitAt'[k][job[u].alert] + Horizon
    BY <1>t, <1>l, <1>1 DEF JobHits
  <1>6. Legs(u)' = Legs(u)
    BY DEF Legs
  <1>7. QED
    BY <1>k, <1>2, <1>3, <1>4, <1>5, <1>6 DEF JobHits

\* The reads of an update are where its entries and the members come from.
LEMMA ReadsAre ==
    ASSUME Shape, NEW w \in Workers, Worker(w), Busy(w)', job'[w].pc \in {"members", "prune"}
    PROVE  Snapshot(w) \/ ReadMembers(w)
  <1>t. Types
    BY DEF Shape
  <1>1. ~(\E a \in Alerts : Take(w, a)) /\ ~Ack(w)
    BY <1>t, TakeIs, DoneIs DEF Busy
  <1>2. ~Hit(w) /\ ~Record(w) /\ ~Prune(w) /\ ~(\E E \in SUBSET Alerts : Evict(w, E))
    BY <1>t, HitIs, RecordIs, PruneIs, EvictIs DEF OnLeg
  <1>3. ~MarkTruncated(w) /\ ~WithinCap(w) /\ ~Bind(w)
    BY CapIs, BindIs DEF OnLeg, LegOver
  <1>4. ~Emit(w)
    BY <1>t, EmitIs
  <1>5. QED
    BY <1>1, <1>2, <1>3, <1>4 DEF Worker

\* What the worker that moves relies on.
LEMMA JobHitsMover ==
    ASSUME Shape, HitsOK, NEW w \in Workers, Worker(w) \/ Abort(w)
    PROVE  JobHits(w)'
  <1>t. Types /\ JobHits(w)
    BY DEF Shape, HitsOK
  <1>1. ASSUME NEW a \in Alerts, Take(w, a) PROVE JobHits(w)'
    <2>1. /\ Busy(w)' /\ job'[w].alert = a /\ job'[w].now = clock /\ job'[w].leg = 1
          /\ job'[w].pc = IF LegsOf[a] = <<>> THEN "emit" ELSE "hit"
      BY <1>t, <1>1, TakeIs DEF Busy
    <2>2. UNCHANGED hitAt /\ tardy' = tardy \cup {k \in Tracks : Tardy(k, a)}
      BY <1>1 DEF Take
    <2>3. \A n \in Legs(w)' : ~HasHit(w, n)'
      <3>1. PICK N \in Nat : DOMAIN LegsOf[a] = 1 .. N /\ (LegsOf[a] = <<>> <=> N = 0)
        BY LegIs
      <3>2. \A n \in 1 .. N : ~(n < 1) /\ N # 0
        BY <3>1
      <3>3. QED
        BY <2>1, <3>1, <3>2 DEF Legs, HasHit
    <2>4. ASSUME NEW k \in Tracks, k \notin tardy' PROVE hitAt[k][a] = 0 \/ clock + MaxStall <= hitAt[k][a] + Horizon
      <3>1. hitAt[k][a] \in Nat /\ clock \in Nat /\ MaxStall \in Nat /\ Horizon \in Nat
        BY <1>t, HitNumbers, Constants
      <3>2. ~Tardy(k, a)
        BY <2>2, <2>4
      <3>3. QED
        BY <3>1, <3>2 DEF Tardy
    <2>5. job'[w].pc \notin {"members", "prune"}
      BY <2>1
    <2>6. QED
      BY <2>1, <2>2, <2>3, <2>4, <2>5 DEF JobHits
  <1>2. CASE Ack(w) \/ Abort(w)
    BY <1>t, <1>2, DoneIs DEF JobHits, Busy
  <1>3. CASE Hit(w)
    <2>1. /\ OnLeg(w, "record") /\ Busy(w) /\ job'[w].alert = job[w].alert /\ job'[w].now = job[w].now
          /\ job'[w].leg = job[w].leg /\ job'[w].pc = "record" /\ job[w].pc = "hit"
      BY <1>t, <1>3, HitIs DEF OnLeg, GoesOn
    <2>2. PICK a \in Alerts, now \in Nat, k0 \in Tracks, l \in Nat :
            a = job[w].alert /\ now = job[w].now /\ k0 = Track(w) /\ l = job[w].leg /\ k0 = LegsOf[a][l]
      BY <1>3, <1>t, <2>1, HitWrites, JobIs
    <2>3. \A k \in Tracks : hitAt'[k][a] = IF k = k0 THEN now ELSE hitAt[k][a]
      BY <1>3, <2>2, HitWrites
    <2>4. UNCHANGED tardy
      BY <1>3 DEF Hit
    <2>5. ASSUME NEW n \in DOMAIN LegsOf[a], HasHit(w, n)' PROVE hitAt'[LegsOf[a][n]][a] = now
      <3>1. LegsOf[a][n] \in Tracks
        BY LegIs
      <3>2. n = l \/ HasHit(w, n)
        BY <2>1, <2>2, <2>5 DEF HasHit
      <3>3. HasHit(w, n) => hitAt[LegsOf[a][n]][a] = now
        BY <1>t, <2>1, <2>2 DEF JobHits, Legs
      <3>4. QED
        BY <2>2, <2>3, <3>1, <3>2, <3>3
    <2>6. ASSUME NEW k \in Tracks, k \notin tardy PROVE hitAt'[k][a] = 0 \/ now + MaxStall <= hitAt'[k][a] + Horizon
      <3>1. hitAt[k][a] = 0 \/ now + MaxStall <= hitAt[k][a] + Horizon
        BY <1>t, <2>1, <2>2, <2>6 DEF JobHits
      <3>2. now + MaxStall <= now + Horizon
        BY <2>2, Constants
      <3>3. QED
        BY <2>3, <3>1, <3>2
    <2>7. QED
      BY <2>1, <2>2, <2>4, <2>5, <2>6 DEF JobHits, Legs
  <1>4. CASE GoesOn(w) /\ ~Hit(w) /\ ~(\E a \in Alerts : Take(w, a)) /\ ~Ack(w) /\ ~Abort(w)
    <2>1. Busy(w) /\ Busy(w)' /\ job'[w].alert = job[w].alert /\ job'[w].now = job[w].now
      BY <1>4 DEF GoesOn, Busy
    <2>2. UNCHANGED <<clock, hitAt, tardy>>
      BY <1>4 DEF Worker, Record, Snapshot, ReadMembers, Prune, Evict, MarkTruncated, WithinCap, Bind, Emit, historyVars
    <2>3. Legs(w)' = Legs(w)
      BY <2>1 DEF Legs
    <2>4. ASSUME NEW n \in Legs(w), HasHit(w, n)' PROVE HasHit(w, n)
      <3>1. n \in Nat /\ job[w].leg \in Nat /\ job[w].pc \in Before \cup Behind \cup {"emit"}
        BY <1>t, <2>1, JobIs, LegIs DEF Legs
      <3>2. OnLegStep(w) \/ LegOver(w) \/ (job[w].pc = "emit" /\ job'[w].pc = "emit" /\ job'[w].leg = job[w].leg)
        BY <1>4, WorkerIs
      <3>3. CASE OnLegStep(w)
        BY <1>4, <2>4, <3>3 DEF OnLegStep, OnLeg, HasHit, Behind
      <3>4. CASE LegOver(w)
        BY <2>4, <3>1, <3>4 DEF LegOver, HasHit, Behind
      <3>5. CASE job[w].pc = "emit" /\ job'[w].pc = "emit" /\ job'[w].leg = job[w].leg
        BY <2>4, <3>5 DEF HasHit
      <3>6. QED
        BY <3>2, <3>3, <3>4, <3>5
    <2>5. CASE job'[w].pc \notin {"members", "prune"}
      BY <1>t, <2>1, <2>2, <2>3, <2>4, <2>5 DEF JobHits
    <2>6. CASE Snapshot(w)
      <3>1. job'[w].pc = "members" /\ job[w].pc = "snapshot" /\ job'[w].side = side[Track(w)] /\ job'[w].leg = job[w].leg
        BY <2>6, SnapshotIs DEF OnLeg
      <3>2. Track(w)' = Track(w) /\ Track(w) \in Tracks
        BY <2>1, <3>1, TrackIs DEF Track, Alert
      <3>3. \A a \in Alerts : job'[w].side[a] # 0 => hitAt[Track(w)][a] # 0
        BY <3>1, <3>2 DEF HitsOK, HitGood
      <3>4. QED
        BY <1>t, <2>1, <2>2, <2>3, <2>4, <3>1, <3>2, <3>3 DEF JobHits
    <2>7. CASE ReadMembers(w)
      <3>1. /\ job'[w].pc = "prune" /\ job[w].pc = "members" /\ job'[w].side = job[w].side /\ job'[w].leg = job[w].leg
            /\ job'[w].live = Members(win[Track(w)])
        BY <1>t, <2>7, ReadMembersIs DEF OnLeg
      <3>2. Track(w)' = Track(w) /\ Track(w) \in Tracks
        BY <2>1, <3>1, TrackIs DEF Track, Alert
      <3>3. \A a \in Alerts : job'[w].side[a] # 0 => hitAt[Track(w)][a] # 0
        BY <1>t, <2>1, <3>1 DEF JobHits
      <3>4. ASSUME NEW a \in Alerts, a \notin job'[w].live PROVE ~Fresh(Track(w), a)
        <4>1. win[Track(w)][a] = 0
          BY <3>1, <3>4 DEF Members
        <4>2. QED
          BY <3>2, <4>1 DEF HitsOK, HitGood
      <3>5. \A a \in Alerts : a \notin job'[w].live => ~Fresh(Track(w), a)'
        BY <2>2, <3>2, <3>4 DEF Fresh
      <3>6. QED
        BY <1>t, <2>1, <2>2, <2>3, <2>4, <3>1, <3>2, <3>3, <3>5 DEF JobHits
    <2>8. QED
      BY <1>4, <2>1, <2>5, <2>6, <2>7, ReadsAre
  <1>5. QED
    BY <1>1, <1>2, <1>3, <1>4, WorkerIs

LEMMA HitsStep ==
    ASSUME Shape, HitsOK, [Next]_vars
    PROVE  HitsOK'
  <1>1. ASSUME NEW u \in Workers PROVE JobHits(u)'
    <2>1. CASE job'[u] = job[u]
      <3>1. CASE Busy(u)
        BY <2>1, <3>1, JobHitsOther
      <3>2. CASE ~Busy(u)
        BY <2>1, <3>2 DEF JobHits, Busy
      <3>3. QED
        BY <3>1, <3>2
    <2>2. ASSUME NEW w \in Workers, Worker(w) \/ Abort(w) PROVE JobHits(u)'
      <3>1. CASE u = w
        BY <2>2, <3>1, JobHitsMover
      <3>2. CASE u # w
        BY <2>1, <2>2, <3>2, WorkerIs DEF Moves
      <3>3. QED
        BY <3>1, <3>2
    <2>3. QED
      BY <2>1, <2>2 DEF Next, Again, Tick, vars
  <1>2. QED
    BY <1>1, HitGoodStep DEF HitsOK

\* Only a record covers an alert that was counted; its ack finds it covered on all its tracks.
LEMMA CoveredBack ==
    ASSUME Shape, [Next]_vars, NEW k \in Tracks, NEW a \in Alerts, Covered(k, a)', HitGood(k, a), hitAt[k][a] # 0,
           \A w \in Workers : Record(w) => ~(Track(w) = k /\ job[w].alert = a)
    PROVE  Covered(k, a)
  <1>t. Types
    BY DEF Shape
  <1>1. CASE a \in acked'
    <2>1. ASSUME NEW w \in Workers, Ack(w), a \notin acked PROVE Covered(k, a)
      <3>1. Busy(w) /\ job[w].pc = "emit" /\ job[w].alert = a
        BY <1>1, <1>t, <2>1, DoneIs
      <3>2. PICK n \in DOMAIN LegsOf[a] : LegsOf[a][n] = k
        BY DEF HitGood
      <3>3. n \in Nat /\ job[w].leg \in Nat /\ n <= job[w].leg
        BY <1>t, <3>1, JobIs, LegIs DEF Shape, JobsOK, JobGood, Legs
      <3>4. Through(w, n)
        BY <3>1, <3>3 DEF Through, Before
      <3>5. QED
        BY <3>1, <3>2, <3>4 DEF Covered, Legs
    <2>2. a \in acked \/ \E w \in Workers : Ack(w)
      BY <1>1 DEF Next, Worker, Take, Hit, Record, Snapshot, ReadMembers, Prune, Evict, MarkTruncated, WithinCap, Bind,
                  Emit, Abort, Again, Tick, vars
    <2>3. QED
      BY <2>1, <2>2 DEF Covered
  <1>2. CASE a \notin acked'
    <2>1. PICK u \in Workers : Busy(u)' /\ job'[u].alert = a /\ \E n \in Legs(u)' : LegsOf[a][n] = k /\ Through(u, n)'
      BY <1>2 DEF Covered
    <2>2. PICK n \in DOMAIN LegsOf[a] : LegsOf[a][n] = k /\ Through(u, n)'
      BY <2>1 DEF Legs
    <2>3. CASE job'[u] = job[u]
      BY <2>1, <2>2, <2>3 DEF Covered, Through, Legs, Busy
    <2>4. CASE Worker(u) \/ Abort(u)
      <3>1. n \in Nat /\ n # 0 /\ n \in 1 .. Len(LegsOf[a]) /\ (LegsOf[a] = <<>> <=> Len(LegsOf[a]) = 0)
        BY LegIs
      <3>2. ~Ack(u) /\ ~Abort(u)
        BY <1>t, <2>1, DoneIs DEF Busy
      <3>3. ASSUME NEW b \in Alerts, Take(u, b) PROVE FALSE
        <4>1. b = a /\ job'[u].leg = 1 /\ job'[u].pc = IF LegsOf[a] = <<>> THEN "emit" ELSE "hit"
          BY <1>t, <2>1, <3>3, TakeIs
        <4>2. LegsOf[a] # <<>>
          BY <3>1
        <4>3. n < 1
          BY <2>2, <4>1, <4>2 DEF Through, Before
        <4>4. QED
          BY <3>1, <4>3
      <3>4. /\ Busy(u) /\ job[u].alert = a
            /\ OnLegStep(u) \/ LegOver(u) \/ (job[u].pc = "emit" /\ job'[u].pc = "emit" /\ job'[u].leg = job[u].leg)
        BY <2>1, <2>4, <3>2, <3>3, WorkerIs DEF GoesOn
      <3>5. job[u].leg \in Nat /\ job[u].pc \in Before \cup Behind \cup {"emit"}
        BY <1>t, <3>4, JobIs
      <3>6. Through(u, n)
        <4>1. CASE Record(u)
          <5>1. job[u].pc = "record" /\ job'[u].leg = job[u].leg
            BY <1>t, <4>1, RecordIs DEF OnLeg
          <5>2. Track(u) = LegsOf[a][job[u].leg]
            BY <3>4 DEF Track, Alert
          <5>3. n # job[u].leg
            BY <2>2, <3>4, <4>1, <5>2
          <5>4. QED
            BY <2>2, <5>1, <5>3 DEF Through
        <4>2. CASE OnLegStep(u) /\ ~Record(u)
          BY <2>2, <4>2 DEF OnLegStep, OnLeg, Through, Before, Behind
        <4>3. CASE LegOver(u)
          BY <2>2, <3>1, <3>5, <4>3 DEF LegOver, Through, Before, Behind
        <4>4. CASE job[u].pc = "emit" /\ job'[u].pc = "emit" /\ job'[u].leg = job[u].leg
          BY <2>2, <4>4 DEF Through
        <4>5. QED
          BY <3>4, <4>1, <4>2, <4>3, <4>4
      <3>7. QED
        BY <2>2, <3>4, <3>6 DEF Covered, Legs
    <2>5. ASSUME NEW w \in Workers, Worker(w) \/ Abort(w), w # u PROVE job'[u] = job[u]
      BY <2>5, WorkerIs DEF Moves
    <2>6. QED
      BY <2>3, <2>4, <2>5 DEF Next, Again, Tick, vars
  <1>3. QED
    BY <1>1, <1>2

LEMMA EntriesStep ==
    ASSUME Shape, TracksLast, HitsOK, EntriesOK, [Next]_vars, NEW k \in Tracks, NEW a \in Alerts
    PROVE  EntryGood(k, a)'
  <1>t. Types /\ HitGood(k, a) /\ EntryGood(k, a)
    BY DEF Shape, HitsOK, EntriesOK
  <1>n. /\ hitAt[k][a] \in Nat /\ texp[k] \in Nat /\ clock \in Nat \ {0}
        /\ Horizon \in Nat /\ MaxStall \in Nat /\ MaxStall <= Horizon /\ MaxClock \in Nat
    BY <1>t, HitNumbers, Constants
  <1>l. tardy \subseteq tardy'
    BY <1>t, LateStays
  <1>m. ~Tick /\ Outlives(texp[k], hitAt[k][a]) => Outlives(texp'[k], hitAt[k][a])
    <2>1. ~Tick => texp'[k] \in Nat /\ texp[k] <= texp'[k]
      BY DeadlinesGrow
    <2>2. QED
      BY <1>n, <2>1 DEF Outlives
  \* The usual case: the alert was covered and fresh before the step.
  <1>u. ASSUME ~Tick, UNCHANGED <<clock>>, hitAt'[k][a] = hitAt[k][a],
               Covered(k, a)' /\ hitAt[k][a] # 0 => Covered(k, a),
               Fresh(k, a) /\ side[k][a] # 0 => side'[k][a] # 0 \/ k \in capped' \cup tardy'
        PROVE  EntryGood(k, a)'
    <2>1. capped \subseteq capped'
      BY <1>u, Frame
    <2>2. Fresh(k, a)' => Fresh(k, a) /\ hitAt[k][a] # 0
      BY <1>u DEF Fresh
    <2>3. Covered(k, a) /\ Fresh(k, a) =>
            Outlives(texp[k], hitAt[k][a]) /\ (k \notin capped \cup tardy => side[k][a] # 0)
      BY <1>t DEF EntryGood
    <2>4. ASSUME Covered(k, a)', Fresh(k, a)'
          PROVE  Outlives(texp'[k], hitAt'[k][a]) /\ (k \notin capped' \cup tardy' => side'[k][a] # 0)
      <3>1. Covered(k, a) /\ Fresh(k, a)
        BY <1>u, <2>2, <2>4
      <3>2. Outlives(texp'[k], hitAt'[k][a])
        BY <1>u, <1>m, <2>3, <3>1
      <3>3. k \notin capped' \cup tardy' => side'[k][a] # 0
        BY <1>u, <1>l, <2>1, <2>3, <3>1
      <3>4. QED
        BY <3>2, <3>3
    <2>5. QED
      BY <2>4 DEF EntryGood, Outlives
  <1>c. ASSUME \A w \in Workers : ~Record(w) PROVE Covered(k, a)' /\ hitAt[k][a] # 0 => Covered(k, a)
    BY <1>c, <1>t, CoveredBack
  <1>1. ASSUME NEW w \in Workers, Hit(w), ~Tick, \A v \in Workers : ~Record(v) PROVE EntryGood(k, a)'
    <2>1. UNCHANGED <<clock, side>>
      BY <1>1, HitWrites
    <2>2. CASE ~(k = Track(w) /\ a = job[w].alert)
      <3>1. hitAt'[k][a] = hitAt[k][a]
        BY <1>1, <2>2, HitWrites
      <3>2. QED
        BY <1>1, <1>c, <1>u, <2>1, <3>1
    <2>3. CASE k = Track(w) /\ a = job[w].alert
      <3>1. /\ Busy(w) /\ job[w].pc = "hit" /\ job[w].now \in Nat \ {0} /\ hitAt'[k][a] = job[w].now
            /\ UNCHANGED acked /\ clock <= job[w].now + MaxStall
        BY <1>1, <2>3, HitWrites
      <3>2. ASSUME Covered(k, a)' PROVE hitAt[k][a] = job[w].now
        <4>1. a \notin acked'
          BY <2>3, <3>1 DEF Shape, JobsOK, JobGood
        <4>2. PICK u \in Workers : Busy(u)' /\ job'[u].alert = a /\ \E n \in Legs(u)' : LegsOf[a][n] = k /\ Through(u, n)'
          BY <3>2, <4>1 DEF Covered
        <4>3. PICK n \in DOMAIN LegsOf[a] : LegsOf[a][n] = k /\ Through(u, n)'
          BY <4>2 DEF Legs
        <4>4. OnLeg(w, "record") /\ Moves(w)
          BY <1>1, <1>t, HitIs DEF OnLeg, GoesOn
        <4>5. u = w
          <5>1. u # w => Busy(u) /\ job[u].alert = a
            BY <4>2, <4>4 DEF Moves, Busy
          <5>2. QED
            BY <2>3, <3>1, <5>1 DEF Shape, JobsOK
        <4>6. HasHit(w, n)
          BY <4>3, <4>4, <4>5 DEF OnLeg, Through, HasHit, Before
        <4>7. QED
          BY <2>3, <3>1, <4>3, <4>6 DEF HitsOK, JobHits, Legs
      <3>3. CASE Covered(k, a)'
        BY <1>1, <1>c, <1>u, <2>1, <3>1, <3>2, <3>3
      <3>4. CASE ~Covered(k, a)'
        BY <3>4 DEF EntryGood
      <3>5. QED
        BY <3>3, <3>4
    <2>4. QED
      BY <2>2, <2>3
  <1>2. ASSUME NEW w \in Workers, Record(w), ~Tick PROVE EntryGood(k, a)'
    <2>1. UNCHANGED <<clock, hitAt, capped, tardy>>
      BY <1>2, RecordWrites
    <2>2. CASE k = Track(w) /\ a = job[w].alert
      <3>1. side'[k][a] # 0 /\ texp'[k] = Deadline
        BY <1>2, <2>2, RecordWrites
      <3>2. Outlives(Deadline, hitAt[k][a])
        BY <1>t, <1>n, DeadlineIs DEF HitGood
      <3>3. QED
        BY <2>1, <3>1, <3>2 DEF EntryGood, Outlives
    <2>3. CASE ~(k = Track(w) /\ a = job[w].alert)
      <3>1. side'[k][a] = side[k][a]
        BY <1>2, <2>3, RecordWrites
      <3>2. \A v \in Workers : Record(v) => v = w
        <4>1. ASSUME NEW v \in Workers, Record(v), v # w PROVE FALSE
          <5>1. job'[v] = job[v]
            BY <1>2, <1>t, <4>1, RecordIs DEF OnLeg, GoesOn, Moves
          <5>2. job'[v].pc = "snapshot" /\ job[v].pc = "record"
            BY <1>t, <4>1, RecordIs DEF OnLeg
          <5>3. QED
            BY <5>1, <5>2
        <4>2. QED
          BY <4>1
      <3>3. Covered(k, a)' /\ hitAt[k][a] # 0 => Covered(k, a)
        BY <1>t, <2>3, <3>2, CoveredBack
      <3>4. QED
        BY <1>2, <1>u, <2>1, <3>1, <3>3
    <2>4. QED
      BY <2>2, <2>3
  <1>3. ASSUME NEW w \in Workers, Prune(w), ~Tick, \A v \in Workers : ~Record(v) PROVE EntryGood(k, a)'
    <2>1. UNCHANGED <<clock, hitAt>>
      BY <1>3 DEF Prune, historyVars
    <2>2. Busy(w) /\ job[w].pc = "prune"
      BY <1>3, <1>t, PruneIs DEF OnLeg, GoesOn
    <2>3. HDel(w, Members(job[w].side) \ job[w].live)
      BY <1>3 DEF Prune, HDel
    <2>4. side'[k][a] = IF k = Track(w) /\ a \in Members(job[w].side) \ job[w].live THEN 0 ELSE side[k][a]
      BY <1>t, <2>3, WithoutWrites
    <2>5. k = Track(w) /\ a \in Members(job[w].side) \ job[w].live => k \in tardy \/ ~Fresh(k, a)
      BY <2>2 DEF HitsOK, JobHits, Members
    <2>6. Fresh(k, a) /\ side[k][a] # 0 => side'[k][a] # 0 \/ k \in capped' \cup tardy'
      BY <1>l, <2>4, <2>5
    <2>7. QED
      BY <1>3, <1>c, <1>u, <2>1, <2>6
  <1>4. ASSUME NEW w \in Workers, NEW E \in SUBSET Alerts, Evict(w, E), ~Tick, \A v \in Workers : ~Record(v)
        PROVE  EntryGood(k, a)'
    <2>1. UNCHANGED <<clock, hitAt>> /\ Track(w) \in capped'
      BY <1>4 DEF Evict
    <2>2. HDel(w, E)
      BY <1>4 DEF Evict, HDel
    <2>3. side'[k][a] = IF k = Track(w) /\ a \in E THEN 0 ELSE side[k][a]
      BY <1>t, <2>2, WithoutWrites
    <2>4. Fresh(k, a) /\ side[k][a] # 0 => side'[k][a] # 0 \/ k \in capped' \cup tardy'
      BY <2>1, <2>3
    <2>5. QED
      BY <1>4, <1>c, <1>u, <2>1, <2>4
  <1>5. CASE Tick
    <2>1. clock' = clock + 1 /\ UNCHANGED <<hitAt, job, acked, tardy>>
      BY <1>5 DEF Tick
    <2>2. Covered(k, a)' => Covered(k, a)
      BY <2>1 DEF Covered, Busy, Legs, Through
    <2>3. ASSUME Covered(k, a)', Fresh(k, a)'
          PROVE  Outlives(texp'[k], hitAt'[k][a]) /\ (k \notin capped' \cup tardy' => side'[k][a] # 0)
      <3>1. clock + 1 <= hitAt[k][a] + Horizon /\ hitAt[k][a] # 0
        BY <2>1, <2>3 DEF Fresh
      <3>2. Fresh(k, a)
        BY <1>n, <3>1 DEF Fresh
      <3>3. Outlives(texp[k], hitAt[k][a]) /\ (k \notin capped \cup tardy => side[k][a] # 0)
        BY <1>t, <2>2, <2>3, <3>2 DEF EntryGood
      <3>4. texp'[k] = texp[k] /\ side'[k] = side[k] /\ (k \in capped => k \in capped')
        BY <1>5, <1>n, <3>1, <3>3, TickKeeps
      <3>5. QED
        BY <2>1, <3>3, <3>4
    <2>4. QED
      BY <2>3 DEF EntryGood, Outlives
  <1>6. CASE UNCHANGED <<clock, hitAt, side>> /\ ~Tick /\ \A v \in Workers : ~Record(v)
    BY <1>6, <1>c, <1>u
  <1>7. ASSUME NEW w \in Workers, Worker(w) PROVE \/ Hit(w) \/ Record(w) \/ Prune(w)
               \/ \E E \in SUBSET Alerts : Evict(w, E)
               \/ UNCHANGED <<clock, hitAt, side>>
    BY <1>7 DEF Worker, Take, Snapshot, ReadMembers, MarkTruncated, WithinCap, Bind, Emit, Ack, redisVars, historyVars
  <1>8. \/ Tick \/ UNCHANGED <<clock, hitAt, side>> \/ \E w \in Workers : Worker(w)
    BY DEF Next, Abort, Again, vars, redisVars, historyVars
  <1>9. QED
    BY <1>1, <1>2, <1>3, <1>4, <1>5, <1>6, <1>7, <1>8

LEMMA CorrInit ==
    ASSUME Init
    PROVE  CorrInv
  <1>1. IdInv
    BY IdInit
  <1>2. \A w \in Workers : ~Busy(w)
    BY DEF Init, Busy
  <1>3. \A k \in Tracks, a \in Alerts : hitAt[k][a] = 0 /\ win[k][a] = 0 /\ side[k][a] = 0
    BY DEF Init, None
  <1>4. HitsOK
    <2>1. \A k \in Tracks, a \in Alerts : HitGood(k, a)
      BY <1>3 DEF Init, HitGood, Fresh
    <2>2. QED
      BY <1>2, <2>1 DEF HitsOK, JobHits
  <1>5. EntriesOK
    BY <1>3 DEF EntriesOK, EntryGood, Fresh
  <1>6. QED
    BY <1>1, <1>4, <1>5 DEF CorrInv

\* The inductive invariant: the shape of the jobs, the deadlines of the tracks, the ids
\* issued, what the windows hold of the alerts counted, and the entries of those recorded.
THEOREM CorrelatorInvariant == Spec => []CorrInv
  <1>1. Init => CorrInv
    BY CorrInit
  <1>2. CorrInv /\ [Next]_vars => CorrInv'
    <2> SUFFICES ASSUME CorrInv, [Next]_vars PROVE CorrInv'
      OBVIOUS
    <2>1. IdInv /\ Shape /\ TracksLast /\ HitsOK /\ EntriesOK
      BY DEF CorrInv, IdInv
    <2>2. IdInv'
      BY <2>1, IdStep
    <2>3. HitsOK'
      BY <2>1, HitsStep
    <2>4. EntriesOK'
      BY <2>1, EntriesStep DEF EntriesOK
    <2>5. QED
      BY <2>2, <2>3, <2>4 DEF CorrInv
  <1>3. QED
    BY <1>1, <1>2, PTL DEF Spec

\* No replica prunes a peer's fresh entry: between a snapshot and the members it is held
\* against, and between those and the HDEL, other replicas may count and record alerts on
\* the track; none of their entries that are still within the horizon is lost.
THEOREM FreshEntriesStay == Spec => []FreshEntryKept
  <1>1. CorrInv => FreshEntryKept
    <2> SUFFICES ASSUME CorrInv, NEW k \in Tracks, NEW a \in Alerts, Done(k, a), hitAt[k][a] + Horizon >= clock,
                        k \notin capped \cup tardy
                 PROVE  side[k][a] # 0
      BY DEF FreshEntryKept
    <2>1. Covered(k, a) /\ Fresh(k, a)
      BY DEF Done, Covered, Fresh
    <2>2. QED
      BY <2>1 DEF CorrInv, EntriesOK, EntryGood
  <1>2. QED
    BY <1>1, CorrelatorInvariant, PTL

-----------------------------------------------------------------------------
(* No incident is missed.                                                  *)

\* An update that has read its track: before its prune, and behind it.
Reading == {"members", "prune"}
Capping == {"cap", "mark", "bind"}

\* The tactic of an alert that is recorded and not aged out is one of the track's.
TacticsOK == \A k \in Tracks, a \in Alerts : Covered(k, a) /\ Fresh(k, a) => TacticOf[a] \in tac[k]

\* A worker finds the entry of its own alert in what it reads, and a live entry is left
\* when it comes to the promotion, unless a peer deleted the one it had recorded.
Sees(w) ==
    Busy(w) =>
        /\ job[w].pc \in Capping => Members(job[w].side) \subseteq job[w].live
        /\ job[w].pc \in Behind /\ Track(w) \notin robbed =>
              /\ job[w].pc = "snapshot" => side[Track(w)][job[w].alert] # 0
              /\ job[w].pc \in Reading => job[w].side[job[w].alert] # 0
              /\ job[w].pc = "prune" => job[w].alert \in job[w].live
              /\ job[w].pc \in Capping => Members(job[w].side) # {}

\* Two legs of an alert are two tracks.
LEMMA LegsDiffer ==
    ASSUME NEW a \in Alerts, NEW m \in DOMAIN LegsOf[a], NEW n \in DOMAIN LegsOf[a], LegsOf[a][m] = LegsOf[a][n]
    PROVE  m = n
  BY CorrelatorAssumption

\* An alert that is counted again is not covered until it is recorded again.
LEMMA HitUncovers ==
    ASSUME Shape, NEW w \in Workers, Hit(w), NEW k \in Tracks, NEW a \in Alerts, k = Track(w), a = job[w].alert
    PROVE  ~Covered(k, a)'
  <1>1. /\ Busy(w) /\ job[w].pc = "hit" /\ job[w].alert \in Alerts /\ job[w].leg \in Legs(w)
        /\ Track(w) = LegsOf[job[w].alert][job[w].leg] /\ UNCHANGED acked
    BY HitWrites
  <1>2. OnLeg(w, "record") /\ Moves(w)
    BY HitIs DEF Shape, OnLeg, GoesOn
  <1>4. a \notin acked'
    BY <1>1 DEF Shape, JobsOK, JobGood
  <1>5. ASSUME NEW u \in Workers, Busy(u)', job'[u].alert = a, NEW n \in Legs(u)', LegsOf[a][n] = k, Through(u, n)'
        PROVE  FALSE
    <2>1. u = w
      <3>1. u # w => Busy(u) /\ job[u].alert = a
        BY <1>2, <1>5 DEF Moves, Busy
      <3>2. QED
        BY <1>1, <3>1 DEF Shape, JobsOK
    <2>2. n \in DOMAIN LegsOf[a] /\ job[w].leg \in DOMAIN LegsOf[a]
      BY <1>1, <1>5 DEF Legs
    <2>3. n = job[w].leg
      BY <1>1, <1>5, <2>2, LegsDiffer
    <2>4. n < job[w].leg
      BY <1>2, <1>5, <2>1, <2>3 DEF OnLeg, Through, Before
    <2>5. job[w].leg \in Nat
      BY <1>1, JobIs DEF Shape
    <2>6. QED
      BY <2>3, <2>4, <2>5
  <1>6. QED
    BY <1>4, <1>5 DEF Covered

\* Tactics are only added, but for the end of the track.
LEMMA TacticsGrow ==
    ASSUME Shape, [Next]_vars, ~Tick, NEW k \in Tracks
    PROVE  /\ tac[k] \subseteq tac'[k]
           /\ \A w \in Workers : Record(w) /\ Track(w) = k => TacticOf[job[w].alert] \in tac'[k]
  <1>t. tac \in [Tracks -> SUBSET Tactics]
    BY DEF Shape, Types, RedisTypes
  <1>1. ASSUME NEW w \in Workers, Record(w)
        PROVE  tac[k] \subseteq tac'[k] /\ (Track(w) = k => TacticOf[job[w].alert] \in tac'[k])
    <2>1. tac' = [tac EXCEPT ![Track(w)] = @ \cup {TacticOf[job[w].alert]}]
      BY <1>1 DEF Record, Alert
    <2>2. QED
      BY <1>t, <2>1
  <1>2. UNCHANGED tac \/ \E w \in Workers : Record(w)
    BY DEF Next, Worker, Take, Hit, Snapshot, ReadMembers, Prune, Evict, MarkTruncated, WithinCap, Bind, Emit, Ack,
           Abort, Again, vars, redisVars
  <1>3. QED
    BY <1>1, <1>2

\* An alert that is covered behind a step and was not recorded by it was so before.
LEMMA CoveredStays ==
    ASSUME Shape, HitsOK, [Next]_vars, NEW k \in Tracks, NEW a \in Alerts, Covered(k, a)', hitAt'[k][a] # 0,
           \A w \in Workers : Record(w) => ~(Track(w) = k /\ job[w].alert = a)
    PROVE  Covered(k, a) /\ hitAt'[k][a] = hitAt[k][a]
  <1>1. hitAt'[k][a] = hitAt[k][a]
    <2>1. ASSUME NEW w \in Workers, Hit(w) PROVE hitAt'[k][a] = hitAt[k][a]
      BY <2>1, HitWrites, HitUncovers
    <2>2. QED
      BY <2>1, Frame
  <1>2. HitGood(k, a)
    BY DEF HitsOK
  <1>3. QED
    BY <1>1, <1>2, CoveredBack

LEMMA TacticsStep ==
    ASSUME Shape, HitsOK, EntriesOK, TacticsOK, [Next]_vars, NEW k \in Tracks, NEW a \in Alerts,
           Covered(k, a)', Fresh(k, a)'
    PROVE  TacticOf[a] \in tac'[k]
  <1>t. Types /\ hitAt'[k][a] # 0
    BY DEF Shape, Fresh
  <1>1. CASE \E w \in Workers : Record(w) /\ Track(w) = k /\ job[w].alert = a
    <2>1. PICK w \in Workers : Record(w) /\ Track(w) = k /\ job[w].alert = a
      BY <1>1
    <2>2. ~Tick
      <3>1. job'[w].pc = "snapshot" /\ job[w].pc = "record"
        BY <1>t, <2>1, RecordIs DEF OnLeg
      <3>2. QED
        BY <3>1 DEF Tick
    <2>3. QED
      BY <2>1, <2>2, TacticsGrow
  <1>2. CASE ~\E w \in Workers : Record(w) /\ Track(w) = k /\ job[w].alert = a
    <2>1. Covered(k, a) /\ hitAt'[k][a] = hitAt[k][a]
      BY <1>t, <1>2, CoveredStays
    <2>2. hitAt[k][a] \in Nat /\ clock \in Nat /\ clock' \in Nat /\ clock <= clock' /\ Horizon \in Nat
      BY <1>t, HitNumbers, LateStays, Constants
    <2>3. Fresh(k, a) /\ clock' <= hitAt[k][a] + Horizon
      BY <2>1, <2>2 DEF Fresh
    <2>4. TacticOf[a] \in tac[k] /\ Outlives(texp[k], hitAt[k][a])
      BY <2>1, <2>3 DEF TacticsOK, EntriesOK, EntryGood
    <2>5. CASE Tick
      <3>1. clock' = clock + 1
        BY <2>5 DEF Tick
      <3>2. tac'[k] = tac[k]
        BY <2>2, <2>3, <2>4, <2>5, <3>1, TickKeeps
      <3>3. QED
        BY <2>4, <3>2
    <2>6. CASE ~Tick
      BY <2>4, <2>6, TacticsGrow
    <2>7. QED
      BY <2>5, <2>6
  <1>3. QED
    BY <1>1, <1>2

\* A deletion between a peer's record and its snapshot shows.
LEMMA RobsIs ==
    ASSUME NEW w \in Workers, NEW S, Robs(w, S)
    PROVE  /\ robbed \subseteq robbed'
           /\ \A u \in Workers : job[u].pc = "snapshot" /\ Track(u) = Track(w) /\ job[u].alert \in S => Track(u) \in robbed'
  BY DEF Robs, At, Alert

LEMMA RobbedGrows ==
    ASSUME [Next]_vars
    PROVE  robbed \subseteq robbed'
  <1>1. ASSUME NEW w \in Workers, Prune(w) \/ \E E \in SUBSET Alerts : Evict(w, E) PROVE robbed \subseteq robbed'
    BY <1>1, RobsIs DEF Prune, Evict
  <1>2. UNCHANGED robbed \/ \E w \in Workers : Prune(w) \/ \E E \in SUBSET Alerts : Evict(w, E)
    BY DEF Next, Worker, Take, Hit, Record, Snapshot, ReadMembers, MarkTruncated, WithinCap, Bind, Emit, Ack,
           Abort, Again, Tick, vars, historyVars
  <1>3. QED
    BY <1>1, <1>2

\* The entry a worker has recorded is there for its snapshot, or was taken from it.
LEMMA OwnEntryStays ==
    ASSUME Shape, TracksLast, [Next]_vars, NEW u \in Workers, Busy(u), job[u].pc = "snapshot", job'[u] = job[u],
           side[Track(u)][job[u].alert] # 0
    PROVE  side'[Track(u)][job[u].alert] # 0 \/ Track(u) \in robbed'
  <1>t. Types
    BY DEF Shape
  <1>1. Track(u) \in Tracks /\ job[u].alert \in Alerts /\ job[u].now \in Nat
    BY <1>t, TrackIs, JobIs
  <1>2. PICK k \in Tracks, a \in Alerts : k = Track(u) /\ a = job[u].alert
    BY <1>1
  <1>3. ASSUME NEW w \in Workers, NEW S, HDel(w, S), Robs(w, S) PROVE side'[k][a] # 0 \/ k \in robbed'
    <2>1. side'[k][a] = IF k = Track(w) /\ a \in S THEN 0 ELSE side[k][a]
      BY <1>3, <1>t, WithoutWrites
    <2>2. QED
      BY <1>2, <1>3, <2>1, RobsIs
  <1>4. ASSUME NEW w \in Workers, Record(w) PROVE side'[k][a] # 0
    BY <1>2, <1>4, RecordWrites
  <1>5. CASE Tick
    <2>1. clock < job[u].now + MaxStall
      BY <1>t, <1>5, IdleIs DEF Tick
    <2>2. clock + 1 <= job[u].now + Horizon
      BY <1>1, <1>t, <2>1, Constants DEF Types
    <2>3. Outlives(texp[k], job[u].now)
      BY <1>2 DEF TracksLast, Behind
    <2>4. side'[k] = side[k]
      BY <1>1, <1>5, <2>2, <2>3, TickKeeps
    <2>5. QED
      BY <1>2, <2>4
  <1>6. \/ Tick \/ UNCHANGED side
        \/ \E w \in Workers : Record(w) \/ Prune(w) \/ \E E \in SUBSET Alerts : Evict(w, E)
    BY DEF Next, Worker, Take, Hit, Snapshot, ReadMembers, MarkTruncated, WithinCap, Bind, Emit, Ack,
           Abort, Again, vars, redisVars
  <1>7. ASSUME NEW w \in Workers, Prune(w) PROVE side'[k][a] # 0 \/ k \in robbed'
    <2>1. PICK S : S = Members(job[w].side) \ job[w].live
      OBVIOUS
    <2>2. HDel(w, S) /\ Robs(w, S)
      BY <1>7, <2>1 DEF Prune, HDel
    <2>3. QED
      BY <1>3, <2>2
  <1>8. ASSUME NEW w \in Workers, NEW E \in SUBSET Alerts, Evict(w, E) PROVE side'[k][a] # 0 \/ k \in robbed'
    <2>1. HDel(w, E) /\ Robs(w, E)
      BY <1>8 DEF Evict, HDel
    <2>2. QED
      BY <1>3, <2>1
  <1>9. QED
    BY <1>2, <1>4, <1>5, <1>6, <1>7, <1>8

\* HDEL on a copy of the entries.
LEMMA LeftIs ==
    ASSUME NEW s \in [Alerts -> Nat], NEW S
    PROVE  Members(Without(s, S)) = Members(s) \ S
  BY WithoutIs DEF Members

LEMMA MembersFinite ==
    ASSUME NEW s
    PROVE  IsFiniteSet(Members(s)) /\ Cardinality(Members(s)) \in Nat
  <1>1. IsFiniteSet(Alerts) /\ Members(s) \subseteq Alerts
    BY CorrelatorAssumption DEF Members
  <1>2. QED
    BY <1>1, FS_Subset, FS_CardinalityType

\* The cap leaves an entry.
LEMMA CapLeaves ==
    ASSUME NEW s, NEW E, Oldest(s, E)
    PROVE  Members(s) \ E # {}
  <1>1. PICK M : M = Members(s)
    OBVIOUS
  <1>2. E \subseteq M /\ Cardinality(E) = Cardinality(M) - MemberCap /\ Cardinality(M) \in Nat
    BY <1>1, MembersFinite DEF Oldest
  <1>3. MemberCap \in Nat \ {0}
    BY CorrelatorAssumption
  <1>4. CASE M \ E = {}
    <2>1. E = M
      BY <1>2, <1>4
    <2>2. QED
      BY <1>2, <1>3, <2>1
  <1>5. QED
    BY <1>1, <1>4

LEMMA SeesMover ==
    ASSUME Shape, HitsOK, [Next]_vars, NEW w \in Workers, Worker(w) \/ Abort(w), Sees(w)
    PROVE  Sees(w)'
  <1>t. Types /\ robbed \subseteq robbed'
    BY RobbedGrows DEF Shape
  <1>0. CASE ~Busy(w)' \/ job'[w].pc \in Before \cup {"emit"}
    BY <1>0 DEF Sees, Before, Behind, Capping, Reading
  <1>1. CASE Record(w)
    <2>1. job'[w].pc = "snapshot" /\ job'[w].alert = job[w].alert /\ Track(w)' = Track(w)
      BY <1>1, <1>t, RecordIs DEF OnLeg, GoesOn, Track, Alert
    <2>2. side'[Track(w)][job[w].alert] # 0
      BY <1>1, RecordWrites
    <2>3. QED
      BY <2>1, <2>2 DEF Sees, Capping, Reading
  <1>2. CASE Snapshot(w)
    <2>1. /\ OnLeg(w, "members") /\ job[w].pc = "snapshot" /\ job'[w].side = side[Track(w)]
          /\ job'[w].alert = job[w].alert /\ Track(w)' = Track(w) /\ Busy(w)
      BY <1>2, SnapshotIs DEF OnLeg, GoesOn, Track, Alert
    <2>2. Track(w) \notin robbed => side[Track(w)][job[w].alert] # 0
      BY <2>1 DEF Sees, Behind
    <2>3. QED
      BY <1>t, <2>1, <2>2 DEF Sees, Capping, OnLeg
  <1>3. CASE ReadMembers(w)
    <2>1. /\ job'[w].pc = "prune" /\ job[w].pc = "members" /\ job'[w].side = job[w].side
          /\ job'[w].live = Members(win[Track(w)])
          /\ job'[w].alert = job[w].alert /\ Track(w)' = Track(w) /\ Busy(w)
      BY <1>3, <1>t, ReadMembersIs DEF OnLeg, GoesOn, Track, Alert
    <2>2. PICK k \in Tracks, a \in Alerts : k = Track(w) /\ a = job[w].alert
      BY <1>t, <2>1, TrackIs, JobIs
    <2>3. hitAt[k][a] = job[w].now /\ job[w].now \in Nat \ {0} /\ clock \in Nat /\ clock <= job[w].now + MaxStall
      <3>1. job[w].leg \in Legs(w) /\ k = LegsOf[a][job[w].leg] /\ HasHit(w, job[w].leg)
        BY <2>1, <2>2, TrackIs DEF HasHit
      <3>2. hitAt[k][a] = job[w].now
        BY <2>1, <2>2, <3>1 DEF HitsOK, JobHits
      <3>3. QED
        BY <1>t, <2>1, <3>2, JobIs DEF Shape, JobsOK, JobGood, Types
    <2>4. Fresh(k, a)
      BY <2>3, Constants DEF Fresh
    <2>5. a \in Members(win[k])
      BY <2>4 DEF HitsOK, HitGood, Members
    <2>6. Track(w) \notin robbed => job[w].side[job[w].alert] # 0
      BY <2>1 DEF Sees, Behind, Reading
    <2>7. QED
      BY <1>t, <2>1, <2>2, <2>5, <2>6 DEF Sees, Capping
  <1>4. CASE Prune(w)
    <2>1. /\ job'[w].pc = "cap" /\ job[w].pc = "prune" /\ job'[w].live = job[w].live
          /\ job'[w].side = Without(job[w].side, Members(job[w].side) \ job[w].live)
          /\ job'[w].alert = job[w].alert /\ Track(w)' = Track(w) /\ Busy(w)
      BY <1>4, <1>t, PruneIs DEF OnLeg, GoesOn, Track, Alert
    <2>2. job[w].side \in [Alerts -> Nat] /\ job[w].alert \in Alerts
      BY <1>t, <2>1, JobIs
    <2>3. Members(job'[w].side) = Members(job[w].side) \cap job[w].live
      BY <2>1, <2>2, LeftIs
    <2>4. Track(w) \notin robbed => job[w].alert \in Members(job[w].side) \cap job[w].live
      BY <2>1, <2>2 DEF Sees, Behind, Reading, Members
    <2>5. PICK M : M = Members(job'[w].side)
      OBVIOUS
    <2>6. M \subseteq job'[w].live /\ (Track(w) \notin robbed' => M # {})
      BY <1>t, <2>1, <2>3, <2>4, <2>5
    <2>7. Members(job[w].side)' = M
      BY <2>5 DEF Members
    <2>8. QED
      BY <2>1, <2>6, <2>7 DEF Sees, Capping, Reading
  <1>5. ASSUME NEW E \in SUBSET Alerts, Evict(w, E) PROVE Sees(w)'
    <2>1. /\ job'[w].pc = "mark" /\ job[w].pc = "cap" /\ job'[w].live = job[w].live
          /\ job'[w].side = Without(job[w].side, E) /\ Busy(w)
          /\ job'[w].alert = job[w].alert /\ Track(w)' = Track(w)
      BY <1>5, <1>t, EvictIs DEF OnLeg, GoesOn, Track, Alert
    <2>2. job[w].side \in [Alerts -> Nat]
      BY <1>t, <2>1, JobIs
    <2>3. Members(job'[w].side) = Members(job[w].side) \ E
      BY <2>1, <2>2, LeftIs
    <2>4. Members(job[w].side) \ E # {}
      BY <1>5, CapLeaves DEF Evict
    <2>5. Members(job[w].side) \subseteq job[w].live
      BY <2>1 DEF Sees, Capping
    <2>6. PICK M : M = Members(job'[w].side)
      OBVIOUS
    <2>7. Members(job[w].side)' = M /\ M # {} /\ M \subseteq job'[w].live
      BY <2>1, <2>3, <2>4, <2>5, <2>6 DEF Members
    <2>8. QED
      BY <2>1, <2>7 DEF Sees, Capping, Reading
  <1>6. CASE MarkTruncated(w) \/ WithinCap(w)
    <2>1. /\ job[w].pc \in {"cap", "mark"}
          /\ Promoted(job[w]) => OnLeg(w, "bind") /\ job'[w].side = job[w].side /\ job'[w].live = job[w].live
          /\ ~Promoted(job[w]) => LegOver(w)
      BY <1>6, CapIs
    <2>2. CASE ~Promoted(job[w])
      BY <1>0, <2>1, <2>2 DEF LegOver, Before
    <2>3. CASE Promoted(job[w])
      <3>1. /\ job'[w].pc = "bind" /\ job'[w].side = job[w].side /\ job'[w].live = job[w].live /\ Busy(w)
            /\ Members(job[w].side) \subseteq job[w].live /\ Members(job[w].side) # {}
        BY <2>1, <2>3 DEF OnLeg, GoesOn, Sees, Capping, Promoted
      <3>2. QED
        BY <3>1 DEF Sees, Capping, Reading, Members
    <2>4. QED
      BY <2>2, <2>3
  <1>7. CASE (\E a \in Alerts : Take(w, a)) \/ Hit(w) \/ Emit(w) \/ Bind(w) \/ Ack(w) \/ Abort(w)
    <2>1. (\E a \in Alerts : Take(w, a)) => job'[w].pc \in Before \cup {"emit"}
      BY <1>t, TakeIs DEF Before
    <2>2. Hit(w) \/ Emit(w) \/ Bind(w) => job'[w].pc \in Before \cup {"emit"}
      BY <1>t, HitIs, EmitIs, BindIs DEF Before, OnLeg, LegOver
    <2>3. Ack(w) \/ Abort(w) => ~Busy(w)'
      BY <1>t, DoneIs DEF Busy
    <2>4. QED
      BY <1>0, <1>7, <2>1, <2>2, <2>3
  <1>8. QED
    BY <1>1, <1>2, <1>3, <1>4, <1>5, <1>6, <1>7 DEF Worker

LEMMA SeesStep ==
    ASSUME Shape, TracksLast, HitsOK, \A w \in Workers : Sees(w), [Next]_vars, NEW u \in Workers
    PROVE  Sees(u)'
  <1>1. CASE job'[u] = job[u]
    <2>1. CASE ~Busy(u)
      BY <1>1, <2>1 DEF Sees, Busy
    <2>2. CASE Busy(u)
      <3>1. Sees(u) /\ robbed \subseteq robbed' /\ Track(u)' = Track(u) /\ Busy(u)'
        BY <1>1, <2>2, RobbedGrows DEF Track, Alert, Busy
      <3>2. job[u].pc = "snapshot" /\ Track(u) \notin robbed' => side'[Track(u)][job[u].alert] # 0
        BY <1>1, <2>2, <3>1, OwnEntryStays DEF Sees, Behind
      <3>3. QED
        BY <1>1, <2>2, <3>1, <3>2 DEF Sees, Members
    <2>3. QED
      BY <2>1, <2>2
  <1>2. ASSUME NEW w \in Workers, Worker(w) \/ Abort(w) PROVE Sees(u)'
    <2>1. CASE u = w
      BY <1>2, <2>1, SeesMover
    <2>2. CASE u # w
      BY <1>1, <1>2, <2>2, WorkerIs DEF Moves
    <2>3. QED
      BY <2>1, <2>2
  <1>3. QED
    BY <1>1, <1>2 DEF Next, Again, Tick, vars

\* Worker w is on its way to an incident of track k with the tactics S.
Promises(w, k, S) ==
    \/ job[w].pc = "snapshot" /\ Track(w) = k
    \/ job[w].pc \in Reading \cup Capping /\ Track(w) = k /\ S \subseteq job[w].tac
    \/ \E i \in Outbox(w) : i.track = k /\ S \subseteq i.tactics

\* Alerts a and b are recorded on track k close enough in time.
Meet(k, a, b) ==
    /\ Covered(k, a) /\ Covered(k, b) /\ hitAt[k][a] # 0 /\ k \notin robbed
    /\ hitAt[k][a] <= hitAt[k][b] /\ hitAt[k][b] + MaxStall <= hitAt[k][a] + Horizon

\* The incident of two such alerts is produced, or the worker of one of them will do it.
Told(k, S) == \E i \in emitted : i.track = k /\ S \subseteq i.tactics

PairGood(k, a, b) ==
    Meet(k, a, b) =>
        \/ Told(k, {TacticOf[a], TacticOf[b]})
        \/ \E w \in Workers : Busy(w) /\ job[w].alert \in {a, b} /\ Promises(w, k, {TacticOf[a], TacticOf[b]})

PairsOK == \A k \in Tracks, a, b \in Alerts : TacticOf[a] # TacticOf[b] => PairGood(k, a, b)

PromoteInv == CorrInv /\ TacticsOK /\ (\A w \in Workers : Sees(w)) /\ PairsOK

\* Two tactics are two.
LEMMA TwoTactics ==
    ASSUME NEW S \in SUBSET Tactics, NEW x \in S, NEW y \in S, x # y
    PROVE  Cardinality(S) >= 2
  <1> DEFINE f == [a \in Alerts |-> TacticOf[a]]
  <1>1. f \in Surjection(Alerts, Tactics)
    BY DEF Surjection, Tactics
  <1>2. IsFiniteSet(Alerts)
    BY CorrelatorAssumption
  <1> HIDE DEF f
  <1>3. IsFiniteSet(Tactics)
    BY <1>1, <1>2, FS_Surjection
  <1>4. IsFiniteSet(S)
    BY <1>3, FS_Subset
  <1>5. IsFiniteSet({x}) /\ Cardinality({x}) = 1
    BY FS_Singleton
  <1>6. Cardinality({x} \cup {y}) = 2
    BY <1>5, FS_AddElement
  <1>7. {x} \cup {y} \in SUBSET S
    OBVIOUS
  <1>8. Cardinality({x} \cup {y}) <= Cardinality(S) /\ Cardinality(S) \in Nat
    BY <1>4, <1>7, FS_Subset, FS_CardinalityType
  <1>9. QED
    BY <1>6, <1>8

\* A promise that is not in a worker's job any more has been kept.
LEMMA PromiseMover ==
    ASSUME Shape, HitsOK, TacticsOK, [Next]_vars, NEW k \in Tracks, NEW a \in Alerts, NEW b \in Alerts,
           NEW w \in Workers, Worker(w), Sees(w), Busy(w), job[w].alert \in {a, b}, TacticOf[a] # TacticOf[b],
           Meet(k, a, b), Promises(w, k, {TacticOf[a], TacticOf[b]})
    PROVE  \/ Told(k, {TacticOf[a], TacticOf[b]})'
           \/ Busy(w)' /\ job'[w].alert = job[w].alert /\ Promises(w, k, {TacticOf[a], TacticOf[b]})'
  <1>t. Types /\ k \notin robbed
    BY DEF Shape, Meet
  <1>S. PICK S : S = {TacticOf[a], TacticOf[b]}
    OBVIOUS
  <1>p. Promises(w, k, S)
    BY <1>S
  <1>o. job[w].out \in Seq(IncidentType) /\ Outbox(w) = {job[w].out[n] : n \in DOMAIN job[w].out}
    BY <1>t, JobIs DEF Outbox
  \* A step that leaves the outbox alone keeps what is promised there.
  <1>u. ASSUME GoesOn(w), job'[w].out = job[w].out, NEW i \in Outbox(w), i.track = k /\ S \subseteq i.tactics
        PROVE  Promises(w, k, S)'
    <2>1. Outbox(w)' = Outbox(w)
      BY <1>u DEF Outbox, GoesOn, Busy
    <2>2. QED
      BY <1>u, <2>1 DEF Promises
  <1>g. ASSUME NEW to, OnLeg(w, to) PROVE GoesOn(w) /\ job'[w].out = job[w].out /\ job'[w].pc = to /\ Track(w)' = Track(w)
    BY <1>g DEF OnLeg, GoesOn, Track, Alert
  <1>1. CASE Hit(w) \/ Record(w)
    <2>1. job[w].pc \in Before /\ \E to : OnLeg(w, to)
      BY <1>1, <1>t, HitIs, RecordIs DEF Before
    <2>2. PICK i \in Outbox(w) : i.track = k /\ S \subseteq i.tactics
      BY <1>p, <2>1 DEF Promises, Before, Reading, Capping
    <2>3. GoesOn(w) /\ Promises(w, k, S)'
      BY <1>g, <1>u, <2>1, <2>2
    <2>4. QED
      BY <1>S, <2>3 DEF GoesOn, Busy
  <1>2. CASE Snapshot(w)
    <2>1. /\ OnLeg(w, "members") /\ job[w].pc = "snapshot" /\ job'[w].tac = tac[Track(w)]
      BY <1>2, SnapshotIs
    <2>2. GoesOn(w) /\ job'[w].out = job[w].out /\ job'[w].pc = "members" /\ Track(w)' = Track(w)
      BY <1>g, <2>1
    <2>3. CASE Track(w) = k
      <3>1. hitAt[k][job[w].alert] = job[w].now /\ job[w].now \in Nat /\ clock \in Nat /\ clock <= job[w].now + MaxStall
        <4>1. job[w].leg \in Legs(w) /\ k = LegsOf[job[w].alert][job[w].leg] /\ HasHit(w, job[w].leg)
          BY <2>1, <2>3, TrackIs DEF HasHit
        <4>2. hitAt[k][job[w].alert] = job[w].now
          BY <4>1 DEF HitsOK, JobHits
        <4>3. QED
          BY <1>t, <4>2, JobIs DEF Shape, JobsOK, JobGood, Types
      <3>2. /\ hitAt[k][a] \in Nat /\ hitAt[k][b] \in Nat /\ hitAt[k][a] # 0 /\ hitAt[k][a] <= hitAt[k][b]
            /\ hitAt[k][b] + MaxStall <= hitAt[k][a] + Horizon
        BY <1>t, HitNumbers DEF Meet
      <3>3. clock <= hitAt[k][a] + Horizon /\ clock <= hitAt[k][b] + Horizon /\ hitAt[k][b] # 0
        <4>1. hitAt[k][a] = job[w].now \/ hitAt[k][b] = job[w].now
          BY <3>1
        <4>2. Horizon \in Nat /\ MaxStall \in Nat /\ MaxStall <= Horizon
          BY Constants
        <4>3. QED
          BY <3>1, <3>2, <4>1, <4>2
      <3>4. Fresh(k, a) /\ Fresh(k, b)
        BY <3>1, <3>2, <3>3, Constants DEF Fresh
      <3>5. S \subseteq job'[w].tac
        BY <1>S, <2>1, <2>3, <3>4 DEF TacticsOK, Meet
      <3>6. Promises(w, k, S)'
        BY <2>2, <2>3, <3>5 DEF Promises, Reading
      <3>7. QED
        BY <1>S, <2>2, <3>6 DEF GoesOn, Busy
    <2>4. CASE Track(w) # k
      <3>1. PICK i \in Outbox(w) : i.track = k /\ S \subseteq i.tactics
        BY <1>p, <2>4 DEF Promises
      <3>2. QED
        BY <1>S, <1>u, <2>2, <3>1 DEF GoesOn, Busy
    <2>5. QED
      BY <2>3, <2>4
  <1>3. CASE ReadMembers(w) \/ Prune(w) \/ \E E \in SUBSET Alerts : Evict(w, E)
    <2>1. /\ job'[w].tac = job[w].tac /\ job[w].pc \in {"members", "prune", "cap"}
          /\ \E to \in {"prune", "cap", "mark"} : OnLeg(w, to)
      BY <1>3, <1>t, ReadMembersIs, PruneIs, EvictIs
    <2>2. /\ GoesOn(w) /\ job'[w].out = job[w].out /\ job'[w].pc \in Reading \cup Capping /\ Track(w)' = Track(w)
      BY <1>g, <2>1 DEF Reading, Capping
    <2>3. CASE Track(w) = k /\ S \subseteq job[w].tac
      <3>1. Promises(w, k, S)'
        BY <2>1, <2>2, <2>3 DEF Promises
      <3>2. QED
        BY <1>S, <2>2, <3>1 DEF GoesOn, Busy
    <2>4. CASE \E i \in Outbox(w) : i.track = k /\ S \subseteq i.tactics
      BY <1>S, <1>u, <2>2, <2>4 DEF GoesOn, Busy
    <2>5. QED
      BY <1>p, <2>1, <2>3, <2>4 DEF Promises
  <1>4. CASE MarkTruncated(w) \/ WithinCap(w)
    <2>1. /\ OnLeg(w, "bind") \/ LegOver(w)
          /\ job'[w].out = job[w].out /\ job[w].pc \in {"cap", "mark"}
          /\ Promoted(job[w]) => OnLeg(w, "bind") /\ job'[w].tac = job[w].tac
      BY <1>4, CapIs
    <2>2. GoesOn(w)
      BY <2>1 DEF OnLeg, LegOver
    <2>3. CASE Track(w) = k /\ S \subseteq job[w].tac
      <3>1. Members(job[w].side) # {} /\ Members(job[w].side) \subseteq job[w].live
        BY <1>t, <2>1, <2>3 DEF Sees, Behind, Capping
      <3>2. job[w].tac \in SUBSET Tactics
        BY <1>t, JobIs DEF JobType
      <3>3. Cardinality(job[w].tac) >= 2
        BY <1>S, <2>3, <3>2, TwoTactics
      <3>4. Promoted(job[w])
        BY <3>1, <3>3 DEF Promoted
      <3>5. job'[w].pc = "bind" /\ Track(w)' = Track(w) /\ job'[w].tac = job[w].tac
        BY <1>g, <2>1, <3>4
      <3>6. Promises(w, k, S)'
        BY <2>3, <3>5 DEF Promises, Capping
      <3>7. QED
        BY <1>S, <2>2, <3>6 DEF GoesOn, Busy
    <2>4. CASE \E i \in Outbox(w) : i.track = k /\ S \subseteq i.tactics
      BY <1>S, <1>u, <2>1, <2>2, <2>4 DEF GoesOn, Busy
    <2>5. QED
      BY <1>p, <2>1, <2>3, <2>4 DEF Promises
  <1>5. CASE Bind(w)
    <2>1. LegOver(w) /\ job[w].pc = "bind"
      BY <1>5, BindIs
    <2>2. PICK inc \in IncidentType : /\ inc.track = Track(w) /\ inc.tactics = job[w].tac
                                      /\ job'[w].out = Append(job[w].out, inc)
      BY <1>5, BindIs
    <2>3. GoesOn(w) /\ job'[w] # Idle
      BY <2>1 DEF LegOver, GoesOn
    <2>4. PICK o \in Seq(IncidentType) : o = job[w].out
      BY <1>o
    <2>5. /\ \A n \in DOMAIN o : n \in DOMAIN Append(o, inc) /\ Append(o, inc)[n] = o[n]
          /\ Len(o) + 1 \in DOMAIN Append(o, inc) /\ Append(o, inc)[Len(o) + 1] = inc
      OBVIOUS
    <2>6. Outbox(w)' = {Append(o, inc)[n] : n \in DOMAIN Append(o, inc)}
      BY <2>2, <2>3, <2>4 DEF Outbox, Busy
    <2>7. inc \in Outbox(w)' /\ Outbox(w) \subseteq Outbox(w)'
      BY <1>o, <2>4, <2>5, <2>6
    <2>8. \E i \in Outbox(w)' : i.track = k /\ S \subseteq i.tactics
      BY <1>p, <2>1, <2>2, <2>7 DEF Promises
    <2>9. Promises(w, k, S)'
      BY <2>8 DEF Promises
    <2>10. QED
      BY <1>S, <2>3, <2>9 DEF GoesOn, Busy
  <1>6. CASE Emit(w)
    <2>1. /\ GoesOn(w) /\ job[w].pc = "emit" /\ job[w].out # <<>> /\ job'[w].out = Tail(job[w].out)
          /\ emitted' = emitted \cup {Head(job[w].out)}
      BY <1>6, <1>t, EmitIs
    <2>2. PICK i \in Outbox(w) : i.track = k /\ S \subseteq i.tactics
      BY <1>p, <2>1 DEF Promises, Reading, Capping
    <2>3. PICK o \in Seq(IncidentType) : o = job[w].out
      BY <1>o
    <2>4. PICK n \in DOMAIN o : i = o[n]
      BY <1>o, <2>2, <2>3
    <2>5. CASE n = 1
      <3>1. Head(o) = i
        BY <2>4, <2>5
      <3>2. QED
        BY <1>S, <2>1, <2>2, <2>3, <3>1 DEF Told
    <2>6. CASE n # 1
      <3>1. n - 1 \in DOMAIN Tail(o) /\ Tail(o)[n - 1] = i
        BY <2>1, <2>3, <2>4, <2>6
      <3>2. Outbox(w)' = {Tail(o)[m] : m \in DOMAIN Tail(o)}
        BY <2>1, <2>3 DEF Outbox, GoesOn, Busy
      <3>3. i \in Outbox(w)'
        BY <3>1, <3>2
      <3>4. Promises(w, k, S)'
        BY <2>2, <3>3 DEF Promises
      <3>5. QED
        BY <1>S, <2>1, <3>4 DEF GoesOn, Busy
    <2>7. QED
      BY <2>5, <2>6
  <1>7. ~Ack(w)
    <2>1. ASSUME Ack(w) PROVE FALSE
      <3>1. job[w].pc = "emit" /\ job[w].out = <<>>
        BY <2>1 DEF Ack, At
      <3>2. Outbox(w) = {}
        BY <1>o, <3>1
      <3>3. QED
        BY <1>p, <3>1, <3>2 DEF Promises, Reading, Capping
    <2>2. QED
      BY <2>1
  <1>8. ~\E c \in Alerts : Take(w, c)
    BY <1>t, TakeIs
  <1>9. QED
    BY <1>1, <1>2, <1>3, <1>4, <1>5, <1>6, <1>7, <1>8 DEF Worker

LEMMA PairStep ==
    ASSUME Shape, HitsOK, TacticsOK, \A w \in Workers : Sees(w), PairsOK, [Next]_vars,
           NEW k \in Tracks, NEW a \in Alerts, NEW b \in Alerts, TacticOf[a] # TacticOf[b]
    PROVE  PairGood(k, a, b)'
  <1> SUFFICES ASSUME Meet(k, a, b)'
               PROVE  \/ Told(k, {TacticOf[a], TacticOf[b]})'
                      \/ \E w \in Workers : /\ Busy(w)' /\ job'[w].alert \in {a, b}
                                            /\ Promises(w, k, {TacticOf[a], TacticOf[b]})'
    BY DEF PairGood
  <1>t. Types
    BY DEF Shape
  <1>S. PICK S : S = {TacticOf[a], TacticOf[b]}
    OBVIOUS
  <1>1. ASSUME NEW w \in Workers, Record(w), Track(w) = k, job[w].alert \in {a, b}
        PROVE  Busy(w)' /\ job'[w].alert \in {a, b} /\ Promises(w, k, S)'
    <2>1. OnLeg(w, "snapshot")
      BY <1>1, <1>t, RecordIs
    <2>2. /\ job'[w] # Idle /\ job'[w].pc = "snapshot" /\ job'[w].alert = job[w].alert /\ Track(w)' = Track(w)
      BY <2>1 DEF OnLeg, GoesOn, Track, Alert
    <2>3. QED
      BY <1>1, <2>2 DEF Promises, Busy
  <1>2. ASSUME \A w \in Workers : Record(w) => ~(Track(w) = k /\ job[w].alert \in {a, b})
        PROVE  Told(k, S)' \/ \E w \in Workers : Busy(w)' /\ job'[w].alert \in {a, b} /\ Promises(w, k, S)'
    <2>1. /\ Covered(k, a)' /\ Covered(k, b)' /\ hitAt'[k][a] # 0 /\ k \notin robbed'
          /\ hitAt'[k][a] <= hitAt'[k][b] /\ hitAt'[k][b] + MaxStall <= hitAt'[k][a] + Horizon
      BY DEF Meet
    <2>2. hitAt'[k][b] # 0
      <3>1. hitAt'[k][a] \in Nat /\ hitAt'[k][b] \in Nat
        BY TypesStep DEF Types
      <3>2. QED
        BY <2>1, <3>1
    <2>3. Covered(k, a) /\ hitAt'[k][a] = hitAt[k][a] /\ Covered(k, b) /\ hitAt'[k][b] = hitAt[k][b]
      BY <1>2, <2>1, <2>2, CoveredStays
    <2>4. Meet(k, a, b)
      BY <2>1, <2>3, RobbedGrows DEF Meet
    <2>5. Told(k, S) \/ \E w \in Workers : Busy(w) /\ job[w].alert \in {a, b} /\ Promises(w, k, S)
      BY <1>S, <2>4 DEF PairsOK, PairGood
    <2>6. CASE Told(k, S)
      <3>1. emitted \subseteq emitted'
        BY <1>t, Frame, EmitIs
      <3>2. QED
        BY <2>6, <3>1 DEF Told
    <2>7. ASSUME NEW w \in Workers, Busy(w), job[w].alert \in {a, b}, Promises(w, k, S)
          PROVE  Told(k, S)' \/ (Busy(w)' /\ job'[w].alert \in {a, b} /\ Promises(w, k, S)')
      <3>1. CASE job'[w] = job[w]
        BY <2>7, <3>1 DEF Busy, Promises, Track, Alert, Outbox
      <3>2. CASE Worker(w)
        BY <1>S, <2>4, <2>7, <3>2, PromiseMover
      <3>3. CASE Abort(w)
        <4>1. Moves(w) /\ job'[w] = Idle /\ UNCHANGED acked
          BY <1>t, <3>3, DoneIs DEF Abort
        <4>2. PICK c \in {a, b} : c = job[w].alert
          BY <2>7
        <4>3. c \notin acked'
          BY <2>7, <4>1, <4>2 DEF Shape, JobsOK, JobGood
        <4>4. \A u \in Workers : Busy(u)' => job'[u].alert # c
          BY <2>7, <4>1, <4>2 DEF Shape, JobsOK, Busy, Moves
        <4>5. ~Covered(k, c)'
          BY <4>3, <4>4 DEF Covered
        <4>6. QED
          BY <2>1, <4>5
      <3>4. ASSUME NEW u \in Workers, Worker(u) \/ Abort(u), u # w PROVE job'[w] = job[w]
        BY <3>4, WorkerIs DEF Moves
      <3>5. QED
        BY <3>1, <3>2, <3>3, <3>4 DEF Next, Again, Tick, vars
    <2>8. QED
      BY <2>5, <2>6, <2>7
  <1>3. QED
    BY <1>S, <1>1, <1>2

\* The inductive invariant of the promotions.
THEOREM PromoteInvariant == Spec => []PromoteInv
  <1>1. Init => PromoteInv
    <2> SUFFICES ASSUME Init PROVE PromoteInv
      OBVIOUS
    <2>1. CorrInv /\ \A w \in Workers : ~Busy(w)
      BY CorrInit DEF Init, Busy
    <2>2. \A k \in Tracks, a \in Alerts : hitAt[k][a] = 0
      BY DEF Init, None
    <2>3. TacticsOK /\ PairsOK
      BY <2>2 DEF TacticsOK, PairsOK, PairGood, Meet, Fresh
    <2>4. QED
      BY <2>1, <2>3 DEF PromoteInv, Sees
  <1>2. PromoteInv /\ CorrInv' /\ [Next]_vars => PromoteInv'
    <2> SUFFICES ASSUME PromoteInv, CorrInv', [Next]_vars PROVE PromoteInv'
      OBVIOUS
    <2>1. Shape /\ TracksLast /\ HitsOK /\ EntriesOK /\ TacticsOK /\ PairsOK /\ \A w \in Workers : Sees(w)
      BY DEF PromoteInv, CorrInv, IdInv
    <2>2. TacticsOK'
      BY <2>1, TacticsStep DEF TacticsOK
    <2>3. \A w \in Workers : Sees(w)'
      BY <2>1, SeesStep
    <2>4. PairsOK'
      BY <2>1, PairStep DEF PairsOK
    <2>5. QED
      BY <2>2, <2>3, <2>4 DEF PromoteInv
  <1>3. QED
    BY <1>1, <1>2, CorrelatorInvariant, PTL DEF Spec

\* An incident is never missed: of two alerts of an entity with different tactics, handled
\* close enough in time by whichever replicas and across whatever errors and evictions, the
\* one whose snapshot comes last finds both tactics, a live entry is left under the cap, and
\* its incident is produced before either is acked.
THEOREM TwoTacticsAlwaysPromote == Spec => []TwoTacticsPromote
  <1>1. PromoteInv => TwoTacticsPromote
    <2> SUFFICES ASSUME PromoteInv, NEW k \in Tracks, NEW a \in Alerts, NEW b \in Alerts,
                        Done(k, a), Done(k, b), k \notin robbed, TacticOf[a] # TacticOf[b],
                        hitAt[k][a] <= hitAt[k][b], hitAt[k][b] + MaxStall <= hitAt[k][a] + Horizon
                 PROVE  \E i \in emitted : i.track = k /\ {TacticOf[a], TacticOf[b]} \subseteq i.tactics
      BY DEF TwoTacticsPromote
    <2>1. Meet(k, a, b) /\ a \in acked /\ b \in acked
      BY DEF Meet, Done, Covered
    <2>2. \A w \in Workers : Busy(w) => job[w].alert \notin {a, b}
      BY <2>1 DEF PromoteInv, CorrInv, IdInv, Shape, JobsOK, JobGood
    <2>3. QED
      BY <2>1, <2>2 DEF PromoteInv, PairsOK, PairGood, Told
  <1>2. QED
    BY <1>1, PromoteInvariant, PTL

-----------------------------------------------------------------------------
(* The last incident of a track is complete.                               *)

\* Worker w has read leg n, or is done with it.
PastRead(w, n) == n < job[w].leg \/ (n = job[w].leg /\ job[w].pc \notin Before \cup {"snapshot"})
Past(w, n) == n < job[w].leg \/ (n = job[w].leg /\ job[w].pc = "emit")

HasRead(w, k) == \E n \in Legs(w) : LegsOf[job[w].alert][n] = k /\ PastRead(w, n)

\* The incidents a worker is about to produce are of legs it is done with, one of each.
Handed(w) ==
    Busy(w) =>
        /\ \A m \in DOMAIN job[w].out : \E n \in Legs(w) : LegsOf[job[w].alert][n] = job[w].out[m].track /\ Past(w, n)
        /\ \A m, n \in DOMAIN job[w].out : job[w].out[m].track = job[w].out[n].track => m = n

\* Worker w has read track k for an incident it has yet to produce; one worker has at a
\* time, or the track is raced.
Holding(w, k) ==
    /\ Busy(w)
    /\ \/ job[w].pc \in Reading \cup Capping /\ Track(w) = k
       \/ \E i \in Outbox(w) : i.track = k

Exclusive == \A k \in Tracks \ raced, v, w \in Workers : Holding(v, k) /\ Holding(w, k) => v = w

\* Alert a will still be read on track k: it is counted there, not acked, and not read.
Waits(k, a) ==
    /\ hitAt[k][a] # 0 /\ a \notin acked
    /\ \A w \in Workers : Busy(w) /\ job[w].alert = a => ~HasRead(w, k)

\* Incident i, or what worker w goes by, is all there is of track k.
Whole(i, k) == i.track = k /\ i.members = Members(side[k]) /\ i.tactics = tac[k]

Views(w, k) ==
    /\ Busy(w)
    /\ \/ job[w].pc \in Reading \cup Capping /\ Track(w) = k /\ job[w].side = side[k] /\ job[w].tac = tac[k]
       \/ \E i \in Outbox(w) : Whole(i, k)

Known(k) == latest[k] # NoIncident /\ Whole(latest[k], k) /\ \A w \in Workers : ~Holding(w, k)

\* A track that makes an incident: an update is still to read it, or has read all there
\* is, or has produced it and nobody holds an older view.
Complete(k) ==
    Members(side[k]) # {} /\ Cardinality(tac[k]) >= 2 =>
        (\E a \in Alerts : Waits(k, a)) \/ (\E w \in Workers : Views(w, k)) \/ Known(k)

LatestInv ==
    /\ PromoteInv /\ DOMAIN latest = Tracks
    /\ (\A w \in Workers : Handed(w)) /\ Exclusive /\ \A k \in Tracks \ raced : Complete(k)

\* The steps of a worker, by where they take it.
InLeg(w) == job[w].pc \in Reading \cup Capping /\ \E to \in Reading \cup Capping : OnLeg(w, to)

LEMMA StepIs ==
    ASSUME Shape, NEW w \in Workers, Worker(w) \/ Abort(w)
    PROVE  /\ Moves(w)
           /\ \/ \E a \in Alerts : Take(w, a)
              \/ Ack(w) \/ Abort(w)
              \/ Hit(w) /\ OnLeg(w, "record") /\ job[w].pc = "hit"
              \/ Record(w) /\ OnLeg(w, "snapshot") /\ job[w].pc = "record"
              \/ Snapshot(w) /\ OnLeg(w, "members") /\ job[w].pc = "snapshot"
              \/ InLeg(w)
              \/ LegOver(w) /\ job[w].pc \in Capping /\ (job'[w].out = job[w].out \/ Bind(w))
              \/ Emit(w)
  <1>t. Types /\ Moves(w)
    BY WorkerIs DEF Shape
  <1>1. CASE Hit(w) \/ Record(w) \/ Snapshot(w)
    BY <1>1, <1>t, HitIs, RecordIs, SnapshotIs
  <1>2. CASE ReadMembers(w)
    BY <1>t, <1>2, ReadMembersIs DEF InLeg, Reading
  <1>3. CASE Prune(w)
    BY <1>t, <1>3, PruneIs DEF InLeg, Reading, Capping
  <1>4. CASE \E E \in SUBSET Alerts : Evict(w, E)
    BY <1>t, <1>4, EvictIs DEF InLeg, Capping
  <1>5. CASE MarkTruncated(w) \/ WithinCap(w)
    BY <1>t, <1>5, CapIs DEF InLeg, Capping
  <1>6. CASE Bind(w)
    BY <1>t, <1>6, BindIs DEF Capping
  <1>7. QED
    BY <1>t, <1>1, <1>2, <1>3, <1>4, <1>5, <1>6 DEF Worker

\* Only a snapshot reads a track.
LEMMA ReadBack ==
    ASSUME Shape, NEW w \in Workers, Worker(w) \/ Abort(w), NEW k \in Tracks, ~(Snapshot(w) /\ Track(w) = k),
           Busy(w)', HasRead(w, k)'
    PROVE  Busy(w) /\ job'[w].alert = job[w].alert /\ HasRead(w, k)
  <1>t. Types
    BY DEF Shape
  <1>1. PICK n \in DOMAIN LegsOf[job'[w].alert] : LegsOf[job'[w].alert][n] = k /\ PastRead(w, n)'
    BY DEF HasRead, Legs
  <1>2. ASSUME NEW a \in Alerts, Take(w, a) PROVE FALSE
    <2>1. job'[w].alert = a /\ job'[w].leg = 1 /\ job'[w].pc = IF LegsOf[a] = <<>> THEN "emit" ELSE "hit"
      BY <1>t, <1>2, TakeIs
    <2>2. n \in Nat \ {0} /\ LegsOf[a] # <<>>
      BY <1>1, <2>1, LegIs
    <2>3. n < 1
      BY <1>1, <2>1, <2>2 DEF PastRead, Before
    <2>4. QED
      BY <2>2, <2>3
  <1>3. ~Ack(w) /\ ~Abort(w)
    BY <1>t, DoneIs DEF Busy
  <1>g. ASSUME GoesOn(w) PROVE Busy(w) /\ job'[w].alert = job[w].alert /\ n \in Legs(w) /\ LegsOf[job[w].alert][n] = k
    BY <1>1, <1>g DEF GoesOn, Legs
  <1>4. CASE (Hit(w) /\ OnLeg(w, "record") /\ job[w].pc = "hit") \/ (Record(w) /\ OnLeg(w, "snapshot") /\ job[w].pc = "record")
    <2>1. GoesOn(w) /\ PastRead(w, n)
      BY <1>1, <1>4 DEF OnLeg, PastRead, Before
    <2>2. QED
      BY <1>g, <2>1 DEF HasRead
  <1>5. CASE Snapshot(w) /\ OnLeg(w, "members") /\ job[w].pc = "snapshot"
    <2>1. GoesOn(w)
      BY <1>5 DEF OnLeg
    <2>2. n # job[w].leg
      BY <1>5, <1>g, <2>1 DEF Track, Alert
    <2>3. PastRead(w, n)
      BY <1>1, <1>5, <2>2 DEF OnLeg, PastRead
    <2>4. QED
      BY <1>g, <2>1, <2>3 DEF HasRead
  <1>6. CASE InLeg(w)
    <2>1. GoesOn(w) /\ PastRead(w, n)
      BY <1>1, <1>6 DEF InLeg, OnLeg, PastRead, Before, Reading, Capping
    <2>2. QED
      BY <1>g, <2>1 DEF HasRead
  <1>7. CASE LegOver(w) /\ job[w].pc \in Capping
    <2>1. GoesOn(w) /\ Busy(w)
      BY <1>7 DEF LegOver, GoesOn
    <2>2. job[w].leg \in Nat /\ job[w].alert \in Alerts /\ n \in Nat
      BY <1>t, <1>g, <2>1, JobIs, LegIs DEF Legs
    <2>3. job'[w].leg = job[w].leg \/ (job'[w].leg = job[w].leg + 1 /\ job'[w].pc = "hit")
      BY <1>7 DEF LegOver
    <2>4. n <= job[w].leg
      BY <1>1, <2>2, <2>3 DEF PastRead, Before
    <2>5. PastRead(w, n)
      BY <1>7, <2>2, <2>4 DEF PastRead, Before, Capping
    <2>6. QED
      BY <1>g, <2>1, <2>5 DEF HasRead
  <1>8. CASE Emit(w)
    <2>1. GoesOn(w) /\ job[w].pc = "emit" /\ job'[w].pc = "emit" /\ job'[w].leg = job[w].leg
      BY <1>8, <1>t, EmitIs
    <2>2. PastRead(w, n)
      BY <1>1, <2>1 DEF PastRead
    <2>3. QED
      BY <1>g, <2>1, <2>2 DEF HasRead
  <1>9. QED
    BY <1>2, <1>3, <1>4, <1>5, <1>6, <1>7, <1>8, StepIs

\* What bind and produce do to the incidents a worker is about to produce.
LEMMA OutboxBind ==
    ASSUME Shape, NEW w \in Workers, Bind(w)
    PROVE  \E inc \in IncidentType :
              /\ inc.track = Track(w) /\ inc.tactics = job[w].tac /\ inc.members = Members(job[w].side) \cap job[w].live
              /\ job'[w].out = Append(job[w].out, inc) /\ Outbox(w)' = Outbox(w) \cup {inc}
  <1>1. PICK inc \in IncidentType :
          /\ inc.track = Track(w) /\ inc.tactics = job[w].tac /\ inc.members = Members(job[w].side) \cap job[w].live
          /\ job'[w].out = Append(job[w].out, inc)
    BY BindIs
  <1>2. GoesOn(w) /\ Busy(w) /\ job'[w] # Idle /\ Types
    BY BindIs DEF LegOver, GoesOn, Shape
  <1>3. PICK o \in Seq(IncidentType) : o = job[w].out
    BY <1>2, JobIs
  <1>4. /\ \A n \in DOMAIN o : n \in DOMAIN Append(o, inc) /\ Append(o, inc)[n] = o[n]
        /\ \A n \in DOMAIN Append(o, inc) : n \in DOMAIN o \/ Append(o, inc)[n] = inc
        /\ Len(o) + 1 \in DOMAIN Append(o, inc) /\ Append(o, inc)[Len(o) + 1] = inc
    OBVIOUS
  <1>5. Outbox(w)' = {Append(o, inc)[n] : n \in DOMAIN Append(o, inc)} /\ Outbox(w) = {o[n] : n \in DOMAIN o}
    BY <1>1, <1>2, <1>3 DEF Outbox, Busy
  <1>6. Outbox(w)' = Outbox(w) \cup {inc}
    BY <1>4, <1>5
  <1>7. QED
    BY <1>1, <1>6

LEMMA OutboxEmit ==
    ASSUME Shape, NEW w \in Workers, Emit(w)
    PROVE  /\ Busy(w) /\ job'[w] # Idle /\ job[w].pc = "emit" /\ job'[w].pc = "emit"
           /\ Head(job[w].out) = job[w].out[1] /\ job[w].out[1] \in Outbox(w) /\ job[w].out[1] \in IncidentType
           /\ 1 \in DOMAIN job[w].out
           /\ \A n \in DOMAIN job[w].out : n \in Nat /\ (n # 1 => job[w].out[n] \in Outbox(w)')
           /\ Outbox(w)' \subseteq Outbox(w)
           /\ \A i \in Outbox(w)' : \E n \in DOMAIN job[w].out \ {1} : i = job[w].out[n]
           /\ \A n \in DOMAIN job'[w].out :
                 n \in Nat /\ n + 1 \in DOMAIN job[w].out \ {1} /\ job'[w].out[n] = job[w].out[n + 1]
  <1>1. /\ GoesOn(w) /\ job[w].pc = "emit" /\ job'[w].pc = "emit"
        /\ job[w].out # <<>> /\ job'[w].out = Tail(job[w].out)
    BY EmitIs DEF Shape
  <1>2. PICK o \in Seq(IncidentType) : o = job[w].out
    BY <1>1, JobIs DEF GoesOn, Shape
  <1>3. /\ Head(o) = o[1] /\ 1 \in DOMAIN o /\ o[1] \in IncidentType
        /\ \A n \in DOMAIN o \ {1} : n - 1 \in DOMAIN Tail(o) /\ Tail(o)[n - 1] = o[n]
        /\ \A n \in DOMAIN Tail(o) : n \in Nat /\ n + 1 \in DOMAIN o \ {1} /\ Tail(o)[n] = o[n + 1]
        /\ \A n \in DOMAIN o : n \in Nat
    BY <1>1, <1>2
  <1>4. Outbox(w)' = {Tail(o)[n] : n \in DOMAIN Tail(o)} /\ Outbox(w) = {o[n] : n \in DOMAIN o}
    BY <1>1, <1>2 DEF Outbox, GoesOn, Busy
  <1>5. \A i \in Outbox(w)' : \E n \in DOMAIN o \ {1} : i = o[n]
    <2>1. ASSUME NEW i \in Outbox(w)' PROVE \E n \in DOMAIN o \ {1} : i = o[n]
      <3>1. PICK m \in DOMAIN Tail(o) : i = Tail(o)[m]
        BY <1>4, <2>1
      <3>2. m + 1 \in DOMAIN o \ {1} /\ i = o[m + 1]
        BY <1>3, <3>1
      <3>3. QED
        BY <3>2
    <2>2. QED
      BY <2>1
  <1>6. Outbox(w)' \subseteq Outbox(w) /\ o[1] \in Outbox(w)
    BY <1>3, <1>4, <1>5
  <1>7. \A n \in DOMAIN o : n # 1 => o[n] \in Outbox(w)'
    <2>1. ASSUME NEW n \in DOMAIN o \ {1} PROVE o[n] \in Outbox(w)'
      BY <1>3, <1>4
    <2>2. QED
      BY <2>1
  <1>8. Busy(w) /\ job'[w] # Idle
    BY <1>1 DEF GoesOn
  <1>9. QED
    BY <1>1, <1>2, <1>3, <1>5, <1>6, <1>7, <1>8

\* Only a snapshot makes a worker hold a track.
LEMMA HoldingBack ==
    ASSUME Shape, NEW w \in Workers, Worker(w) \/ Abort(w), NEW k \in Tracks, ~(Snapshot(w) /\ Track(w) = k),
           Holding(w, k)'
    PROVE  Holding(w, k)
  <1>t. Types /\ Busy(w)'
    BY DEF Shape, Holding
  <1>p. (job'[w].pc \in Reading \cup Capping /\ Track(w)' = k) \/ \E i \in Outbox(w)' : i.track = k
    BY DEF Holding
  <1>s. ASSUME GoesOn(w), job'[w].out = job[w].out PROVE Busy(w) /\ Outbox(w)' = Outbox(w)
    BY <1>s DEF GoesOn, Outbox, Busy
  <1>1. ASSUME NEW a \in Alerts, Take(w, a) PROVE FALSE
    <2>1. job'[w].out = <<>> /\ job'[w].pc \in {"emit", "hit"}
      BY <1>t, <1>1, TakeIs
    <2>2. Outbox(w)' = {}
      BY <1>t, <2>1 DEF Outbox
    <2>3. QED
      BY <1>p, <2>1, <2>2 DEF Reading, Capping
  <1>2. ~Ack(w) /\ ~Abort(w)
    BY <1>t, DoneIs DEF Busy
  <1>3. CASE OnLeg(w, "record") \/ OnLeg(w, "snapshot") \/ (LegOver(w) /\ job'[w].out = job[w].out)
    <2>1. GoesOn(w) /\ job'[w].out = job[w].out /\ job'[w].pc \notin Reading \cup Capping
      BY <1>3 DEF OnLeg, LegOver, Reading, Capping
    <2>2. QED
      BY <1>p, <1>s, <2>1 DEF Holding
  <1>4. CASE Snapshot(w) /\ OnLeg(w, "members")
    <2>1. GoesOn(w) /\ job'[w].out = job[w].out /\ Track(w)' = Track(w)
      BY <1>4 DEF OnLeg, GoesOn, Track, Alert
    <2>2. QED
      BY <1>p, <1>s, <1>4, <2>1 DEF Holding
  <1>5. CASE InLeg(w)
    <2>1. GoesOn(w) /\ job'[w].out = job[w].out /\ Track(w)' = Track(w) /\ job[w].pc \in Reading \cup Capping
      BY <1>5 DEF InLeg, OnLeg, GoesOn, Track, Alert
    <2>2. QED
      BY <1>p, <1>s, <2>1 DEF Holding
  <1>6. CASE Bind(w)
    <2>1. PICK inc \in IncidentType : inc.track = Track(w) /\ Outbox(w)' = Outbox(w) \cup {inc}
      BY <1>6, OutboxBind
    <2>2. Busy(w) /\ job[w].pc \in Reading \cup Capping /\ job'[w].pc \notin Reading \cup Capping
      BY <1>6, BindIs DEF LegOver, GoesOn, Reading, Capping
    <2>3. QED
      BY <1>p, <2>1, <2>2 DEF Holding
  <1>7. CASE Emit(w)
    <2>1. Busy(w) /\ job'[w].pc = "emit" /\ Outbox(w)' \subseteq Outbox(w)
      BY <1>7, OutboxEmit
    <2>2. QED
      BY <1>p, <2>1 DEF Holding, Reading, Capping
  <1>8. QED
    BY <1>1, <1>2, <1>3, <1>4, <1>5, <1>6, <1>7, StepIs

\* The worker the snapshot looks for.
LEMMA UnderWayIs ==
    ASSUME Shape, NEW v \in Workers, NEW k \in Tracks
    PROVE  UnderWay(v, k) <=> Holding(v, k)
  <1>1. At(v, "idle") <=> ~Busy(v)
    BY IdleIs DEF Shape
  <1>2. CASE ~Busy(v)
    BY <1>1, <1>2 DEF UnderWay, Holding
  <1>3. CASE Busy(v)
    <2>1. job[v].pc \in Before \cup Behind \cup {"emit"} /\ Outbox(v) = {job[v].out[n] : n \in DOMAIN job[v].out}
      BY <1>3, JobIs DEF Shape, Outbox
    <2>2. job[v].pc \in Reading \cup Capping
          <=> (~At(v, "emit") /\ ~At(v, "hit") /\ ~At(v, "record") /\ ~At(v, "snapshot"))
      BY <2>1 DEF At, Before, Behind, Reading, Capping
    <2>3. (\E n \in DOMAIN job[v].out : job[v].out[n].track = k) <=> \E i \in Outbox(v) : i.track = k
      BY <2>1
    <2>4. QED
      BY <1>1, <1>3, <2>2, <2>3 DEF UnderWay, Holding
  <1>4. QED
    BY <1>2, <1>3

\* What becomes of raced.
LEMMA RacedIs ==
    ASSUME Shape, [Next]_vars, NEW k \in Tracks, k \notin raced'
    PROVE  \/ k \notin raced /\ \A w \in Workers : ~(Snapshot(w) /\ Track(w) = k)
           \/ \E w \in Workers : Snapshot(w) /\ Track(w) = k /\ \A v \in Workers \ {w} : ~Holding(v, k)
  <1>1. ASSUME NEW w \in Workers, Snapshot(w), Track(w) = k PROVE \A v \in Workers \ {w} : ~Holding(v, k)
    <2>1. \A v \in Workers \ {w} : ~UnderWay(v, k)
      BY <1>1 DEF Snapshot
    <2>2. QED
      BY <2>1, UnderWayIs
  <1>2. ASSUME NEW w \in Workers, Snapshot(w), Track(w) # k PROVE k \notin raced
    BY <1>2 DEF Snapshot
  <1>3. UNCHANGED raced \/ \E w \in Workers : Snapshot(w)
    BY DEF Next, Worker, Take, Hit, Record, ReadMembers, Prune, Evict, MarkTruncated, WithinCap, Bind, Emit, Ack,
           Abort, Again, Tick, vars, historyVars
  <1>4. QED
    BY <1>1, <1>2, <1>3

LEMMA ExclusiveStep ==
    ASSUME Shape, Exclusive, [Next]_vars
    PROVE  Exclusive'
  <1> SUFFICES ASSUME NEW k \in Tracks, k \notin raced', NEW u \in Workers, NEW v \in Workers,
                      Holding(u, k)', Holding(v, k)'
               PROVE  u = v
    BY DEF Exclusive
  <1>1. ASSUME NEW x \in Workers, Holding(x, k)', ~(Snapshot(x) /\ Track(x) = k) PROVE Holding(x, k)
    <2>1. CASE job'[x] = job[x]
      BY <1>1, <2>1 DEF Holding, Busy, Track, Alert, Outbox
    <2>2. CASE Worker(x) \/ Abort(x)
      BY <1>1, <2>2, HoldingBack
    <2>3. ASSUME NEW w \in Workers, Worker(w) \/ Abort(w), w # x PROVE job'[x] = job[x]
      BY <2>3, WorkerIs DEF Moves
    <2>4. QED
      BY <2>1, <2>2, <2>3 DEF Next, Again, Tick, vars
  <1>2. CASE k \notin raced /\ \A w \in Workers : ~(Snapshot(w) /\ Track(w) = k)
    BY <1>1, <1>2 DEF Exclusive
  <1>3. ASSUME NEW w \in Workers, Snapshot(w), Track(w) = k, \A x \in Workers \ {w} : ~Holding(x, k) PROVE u = v
    <2>1. \A x \in Workers \ {w} : ~Holding(x, k)'
      <3>1. ASSUME NEW x \in Workers \ {w}, Holding(x, k)' PROVE FALSE
        <4>1. job'[x] = job[x]
          BY <1>3, <3>1, SnapshotIs DEF OnLeg, GoesOn, Moves
        <4>2. Holding(x, k)
          BY <3>1, <4>1 DEF Holding, Busy, Track, Alert, Outbox
        <4>3. QED
          BY <1>3, <4>2
      <3>2. QED
        BY <3>1
    <2>2. QED
      BY <2>1
  <1>4. QED
    BY <1>2, <1>3, RacedIs

\* A worker on a leg has no incident of its track to produce yet.
LEMMA OneOfEach ==
    ASSUME Shape, NEW w \in Workers, Busy(w), Handed(w), job[w].pc # "emit", NEW m \in DOMAIN job[w].out
    PROVE  job[w].out[m].track # Track(w)
  <1>1. job[w].leg \in Legs(w) /\ Track(w) = LegsOf[job[w].alert][job[w].leg] /\ job[w].alert \in Alerts /\ job[w].leg \in Nat
    BY TrackIs, JobIs DEF Shape
  <1>2. PICK n \in Legs(w) : LegsOf[job[w].alert][n] = job[w].out[m].track /\ n < job[w].leg
    BY DEF Handed, Past
  <1>3. n # job[w].leg
    BY <1>1, <1>2, LegIs DEF Legs
  <1>4. QED
    BY <1>1, <1>2, <1>3, LegsDiffer DEF Legs

LEMMA HandedStep ==
    ASSUME Shape, NEW w \in Workers, Worker(w) \/ Abort(w), Handed(w)
    PROVE  Handed(w)'
  <1>t. Types
    BY DEF Shape
  <1>1. ASSUME NEW a \in Alerts, Take(w, a) PROVE Handed(w)'
    <2>1. job'[w].out = <<>>
      BY <1>t, <1>1, TakeIs
    <2>2. QED
      BY <2>1 DEF Handed
  <1>2. CASE Ack(w) \/ Abort(w)
    BY <1>t, <1>2, DoneIs DEF Handed, Busy
  <1>n. ASSUME Busy(w) PROVE job[w].leg \in Nat /\ \A n \in Legs(w) : n \in Nat
    BY <1>n, <1>t, JobIs, LegIs DEF Legs
  <1>p. ASSUME GoesOn(w), NEW n \in Legs(w), Past(w, n),
               \/ job'[w].leg = job[w].leg /\ (job[w].pc = "emit" => job'[w].pc = "emit")
               \/ job'[w].leg = job[w].leg + 1 /\ job[w].pc # "emit"
        PROVE  n \in Legs(w)' /\ Past(w, n)'
    <2>1. Busy(w) /\ n \in Nat /\ job[w].leg \in Nat /\ Legs(w)' = Legs(w)
      BY <1>p, <1>n DEF GoesOn, Legs
    <2>2. Past(w, n)'
      BY <1>p, <2>1 DEF Past
    <2>3. QED
      BY <2>1, <2>2
  <1>3. CASE /\ GoesOn(w) /\ job'[w].out = job[w].out
             /\ \/ job'[w].leg = job[w].leg /\ (job[w].pc = "emit" => job'[w].pc = "emit")
                \/ job'[w].leg = job[w].leg + 1 /\ job[w].pc # "emit"
    <2>1. job'[w].alert = job[w].alert /\ Busy(w)
      BY <1>3 DEF GoesOn
    <2>2. QED
      BY <1>3, <1>p, <2>1 DEF Handed
  <1>4. CASE (\E to : OnLeg(w, to)) \/ (LegOver(w) /\ job'[w].out = job[w].out)
    <2>1. (\E to : OnLeg(w, to)) => GoesOn(w) /\ job'[w].out = job[w].out /\ job'[w].leg = job[w].leg /\ job[w].pc # "emit"
      BY DEF OnLeg
    <2>2. LegOver(w) => GoesOn(w) /\ job'[w].leg \in {job[w].leg, job[w].leg + 1} /\ job[w].pc # "emit"
      BY DEF LegOver, Behind
    <2>3. QED
      BY <1>3, <1>4, <2>1, <2>2
  <1>5. CASE Bind(w)
    <2>1. /\ GoesOn(w) /\ Busy(w) /\ job[w].pc = "bind" /\ job'[w].alert = job[w].alert
          /\ \/ job'[w].leg = job[w].leg + 1
             \/ job'[w].leg = job[w].leg /\ job'[w].pc = "emit"
      BY <1>5, BindIs DEF LegOver, GoesOn
    <2>2. PICK inc \in IncidentType : inc.track = Track(w) /\ job'[w].out = Append(job[w].out, inc)
      BY <1>5, BindIs
    <2>3. PICK o \in Seq(IncidentType) : o = job[w].out
      BY <1>t, <2>1, JobIs
    <2>4. \A m \in DOMAIN Append(o, inc) : (m \in DOMAIN o /\ Append(o, inc)[m] = o[m])
                                           \/ (m = Len(o) + 1 /\ Append(o, inc)[m] = inc)
      OBVIOUS
    <2>5. job[w].leg \in Legs(w) /\ Track(w) = LegsOf[job[w].alert][job[w].leg] /\ job[w].leg \in Nat
      BY <1>n, <2>1, TrackIs
    <2>6. ASSUME NEW m \in DOMAIN Append(o, inc)
          PROVE  \E n \in Legs(w)' : LegsOf[job[w].alert][n] = Append(o, inc)[m].track /\ Past(w, n)'
      <3>1. CASE m \in DOMAIN o /\ Append(o, inc)[m] = o[m]
        <4>1. PICK n \in Legs(w) : LegsOf[job[w].alert][n] = o[m].track /\ Past(w, n)
          BY <2>1, <2>3, <3>1 DEF Handed
        <4>2. n \in Legs(w)' /\ Past(w, n)'
          BY <1>p, <2>1, <4>1
        <4>3. QED
          BY <3>1, <4>1, <4>2
      <3>2. CASE Append(o, inc)[m] = inc
        <4>1. PICK n \in Legs(w) : n = job[w].leg /\ n \in Nat
          BY <2>5
        <4>2. Past(w, n)' /\ n \in Legs(w)'
          BY <2>1, <4>1 DEF Past, Legs
        <4>3. QED
          BY <2>2, <2>5, <3>2, <4>1, <4>2
      <3>3. QED
        BY <2>4, <3>1, <3>2
    <2>7. \A m \in DOMAIN o : o[m].track # inc.track
      BY <2>1, <2>2, <2>3, OneOfEach
    <2>8. \A m, n \in DOMAIN o : o[m].track = o[n].track => m = n
      BY <2>1, <2>3 DEF Handed
    <2>9. \A m, n \in DOMAIN Append(o, inc) : Append(o, inc)[m].track = Append(o, inc)[n].track => m = n
      BY <2>4, <2>7, <2>8
    <2>10. QED
      BY <2>1, <2>2, <2>3, <2>6, <2>9 DEF Handed
  <1>6. CASE Emit(w)
    <2>1. GoesOn(w) /\ Busy(w) /\ job[w].pc = "emit" /\ job'[w].pc = "emit" /\ job'[w].leg = job[w].leg
      BY <1>6, <1>t, EmitIs DEF GoesOn
    <2>2. \A n \in DOMAIN job'[w].out :
            n \in Nat /\ n + 1 \in DOMAIN job[w].out \ {1} /\ job'[w].out[n] = job[w].out[n + 1]
      BY <1>6, OutboxEmit
    <2>3. \A n \in DOMAIN job'[w].out : \E l \in Legs(w) : LegsOf[job[w].alert][l] = job'[w].out[n].track /\ Past(w, l)
      BY <2>1, <2>2 DEF Handed
    <2>4. \A l \in Legs(w) : Past(w, l) => l \in Legs(w)' /\ Past(w, l)'
      BY <1>p, <2>1
    <2>5. \A m, n \in DOMAIN job'[w].out : job'[w].out[m].track = job'[w].out[n].track => m = n
      <3>1. ASSUME NEW m \in DOMAIN job'[w].out, NEW n \in DOMAIN job'[w].out, job'[w].out[m].track = job'[w].out[n].track
            PROVE  m = n
        <4>1. m + 1 = n + 1
          BY <2>1, <2>2, <3>1 DEF Handed
        <4>2. QED
          BY <2>2, <4>1
      <3>2. QED
        BY <3>1
    <2>6. job'[w].alert = job[w].alert
      BY <2>1 DEF GoesOn
    <2>7. QED
      BY <2>3, <2>4, <2>5, <2>6 DEF Handed
  <1>7. QED
    BY <1>1, <1>2, <1>4, <1>5, <1>6, StepIs DEF InLeg

\* Only its entries' deletions change a track between a record and the end of its life.
Deletes(w) == Prune(w) \/ \E E \in SUBSET Alerts : Evict(w, E)

LEMMA TrackStill ==
    ASSUME Shape, [Next]_vars, NEW k \in Tracks, Members(side'[k]) # {}, \A w \in Workers : Record(w) => Track(w) # k
    PROVE  /\ tac'[k] = tac[k] /\ Members(side[k]) # {}
           /\ (\A w \in Workers : Deletes(w) => Track(w) # k) => side'[k] = side[k]
  <1>t. side \in [Tracks -> [Alerts -> Nat]] /\ tac \in [Tracks -> SUBSET Tactics]
    BY DEF Shape, Types, RedisTypes
  <1>1. ASSUME NEW w \in Workers, Record(w) PROVE side'[k] = side[k] /\ tac'[k] = tac[k]
    BY <1>1, <1>t DEF Record
  <1>2. ASSUME NEW w \in Workers, NEW S, HDel(w, S), UNCHANGED tac
        PROVE  tac'[k] = tac[k] /\ Members(side[k]) # {} /\ (Track(w) # k => side'[k] = side[k])
    <2>1. side'[k] = IF k = Track(w) THEN Without(side[k], S) ELSE side[k]
      BY <1>2, <1>t DEF HDel
    <2>2. Members(Without(side[k], S)) = Members(side[k]) \ S
      BY <1>t, LeftIs
    <2>3. QED
      BY <1>2, <2>1, <2>2
  <1>3. ASSUME NEW w \in Workers, Deletes(w)
        PROVE  tac'[k] = tac[k] /\ Members(side[k]) # {} /\ (Track(w) # k => side'[k] = side[k])
    <2>1. UNCHANGED tac
      BY <1>3 DEF Deletes, Prune, Evict
    <2>2. \E S : HDel(w, S)
      BY <1>3 DEF Deletes, Prune, Evict, HDel
    <2>3. QED
      BY <1>2, <2>1, <2>2
  <1>4. CASE Tick
    <2>1. side'[k] = (IF texp[k] = clock + 1 THEN None ELSE side[k]) /\ tac'[k] = IF texp[k] = clock + 1 THEN {} ELSE tac[k]
      BY <1>4 DEF Tick
    <2>2. Members(None) = {}
      BY DEF Members, None
    <2>3. QED
      BY <2>1, <2>2
  <1>5. CASE UNCHANGED <<side, tac>>
    BY <1>5
  <1>6. Tick \/ UNCHANGED <<side, tac>> \/ \E w \in Workers : Record(w) \/ Deletes(w)
    BY DEF Next, Worker, Take, Hit, Snapshot, ReadMembers, MarkTruncated, WithinCap, Bind, Emit, Ack,
           Abort, Again, vars, redisVars, Deletes
  <1>7. QED
    BY <1>1, <1>3, <1>4, <1>5, <1>6

\* A worker that deletes entries of a track holds it.
LEMMA DeletesHolds ==
    ASSUME Shape, NEW w \in Workers, Deletes(w)
    PROVE  Holding(w, Track(w)) /\ job'[w].pc # job[w].pc /\ job[w].pc # "emit" /\ Busy(w)
  <1>1. PICK to \in {"cap", "mark"} : OnLeg(w, to) /\ job[w].pc \in {"prune", "cap"} /\ to # job[w].pc
    BY PruneIs, EvictIs DEF Deletes, Shape
  <1>2. QED
    BY <1>1 DEF OnLeg, GoesOn, Holding, Reading, Capping

\* An alert that is still to be read stays so until a snapshot reads it.
LEMMA WaitsStay ==
    ASSUME Shape, HitsOK, [Next]_vars, NEW k \in Tracks, NEW a \in Alerts, Waits(k, a),
           \A w \in Workers : ~(Snapshot(w) /\ Track(w) = k)
    PROVE  Waits(k, a)'
  <1>t. Types
    BY DEF Shape
  <1>1. hitAt'[k][a] # 0
    <2>1. ASSUME NEW w \in Workers, Hit(w) PROVE hitAt'[k][a] # 0
      BY <2>1, HitWrites DEF Waits
    <2>2. QED
      BY <2>1, Frame DEF Waits
  <1>2. a \notin acked'
    <2>1. ASSUME NEW w \in Workers, Ack(w), job[w].alert = a PROVE FALSE
      <3>1. Busy(w) /\ job[w].pc = "emit"
        BY <1>t, <2>1, DoneIs
      <3>2. PICK n \in DOMAIN LegsOf[a] : LegsOf[a][n] = k
        BY DEF HitsOK, HitGood, Waits
      <3>3. n \in Nat /\ job[w].leg \in Nat /\ n <= job[w].leg
        BY <1>t, <2>1, <3>1, JobIs, LegIs DEF Shape, JobsOK, JobGood, Legs
      <3>4. PastRead(w, n)
        BY <3>1, <3>3 DEF PastRead, Before
      <3>5. QED
        BY <2>1, <3>1, <3>2, <3>4 DEF Waits, HasRead, Legs
    <2>2. ASSUME NEW w \in Workers, Ack(w) PROVE a \notin acked'
      BY <1>t, <2>1, <2>2, DoneIs DEF Waits
    <2>3. acked' \subseteq acked \/ \E w \in Workers : Ack(w)
      BY DEF Next, Worker, Take, Hit, Record, Snapshot, ReadMembers, Prune, Evict, MarkTruncated, WithinCap, Bind,
             Emit, Abort, Again, Tick, vars
    <2>4. QED
      BY <2>2, <2>3 DEF Waits
  <1>3. ASSUME NEW u \in Workers, Busy(u)', job'[u].alert = a, HasRead(u, k)' PROVE FALSE
    <2>1. CASE job'[u] = job[u]
      BY <1>3, <2>1 DEF Waits, HasRead, Busy, Legs, PastRead
    <2>2. CASE Worker(u) \/ Abort(u)
      BY <1>3, <2>2, ReadBack DEF Waits
    <2>3. ASSUME NEW w \in Workers, Worker(w) \/ Abort(w), w # u PROVE job'[u] = job[u]
      BY <2>3, WorkerIs DEF Moves
    <2>4. QED
      BY <2>1, <2>2, <2>3 DEF Next, Again, Tick, vars
  <1>4. QED
    BY <1>1, <1>2, <1>3 DEF Waits

\* What is known of a track that nobody holds stays known.
LEMMA KnownStays ==
    ASSUME Shape, [Next]_vars, DOMAIN latest = Tracks, NEW k \in Tracks, Known(k), Members(side'[k]) # {},
           \A w \in Workers : ~(Snapshot(w) /\ Track(w) = k), \A w \in Workers : Record(w) => Track(w) # k
    PROVE  Known(k)'
  <1>1. \A w \in Workers : ~Holding(w, k)
    BY DEF Known
  <1>2. \A w \in Workers : Deletes(w) => Track(w) # k
    BY <1>1, DeletesHolds
  <1>3. side'[k] = side[k] /\ tac'[k] = tac[k]
    BY <1>2, TrackStill
  <1>4. latest'[k] = latest[k]
    <2>1. ASSUME NEW w \in Workers, Emit(w) PROVE latest'[k] = latest[k]
      <3>1. Busy(w) /\ Head(job[w].out) \in Outbox(w)
        BY <2>1, OutboxEmit
      <3>2. Head(job[w].out).track # k
        BY <1>1, <3>1 DEF Holding
      <3>3. latest' = [latest EXCEPT ![Head(job[w].out).track] = Head(job[w].out)]
        BY <2>1 DEF Emit
      <3>4. QED
        BY <3>2, <3>3
    <2>2. UNCHANGED latest \/ \E w \in Workers : Emit(w)
      BY DEF Next, Worker, Take, Hit, Record, Snapshot, ReadMembers, Prune, Evict, MarkTruncated, WithinCap, Bind, Ack,
             Abort, Again, Tick, vars
    <2>3. QED
      BY <2>1, <2>2
  <1>5. ASSUME NEW u \in Workers PROVE ~Holding(u, k)'
    <2>1. CASE job'[u] = job[u]
      BY <1>1, <2>1 DEF Holding, Busy, Track, Alert, Outbox
    <2>2. CASE Worker(u) \/ Abort(u)
      BY <1>1, <2>2, HoldingBack
    <2>3. ASSUME NEW w \in Workers, Worker(w) \/ Abort(w), w # u PROVE job'[u] = job[u]
      BY <2>3, WorkerIs DEF Moves
    <2>4. QED
      BY <2>1, <2>2, <2>3 DEF Next, Again, Tick, vars
  <1>6. QED
    BY <1>3, <1>4, <1>5 DEF Known, Whole

\* An update that goes by all there is of its track comes to an incident of it.
LEMMA ViewOnLeg ==
    ASSUME Shape, [Next]_vars, NEW k \in Tracks, NEW w \in Workers, Worker(w), Busy(w), Sees(w),
           job[w].pc \in Reading \cup Capping, Track(w) = k, job[w].side = side[k], job[w].tac = tac[k],
           Members(side'[k]) # {}, Cardinality(tac'[k]) >= 2
    PROVE  Views(w, k)'
  <1>t. Types /\ side \in [Tracks -> [Alerts -> Nat]] /\ tac \in [Tracks -> SUBSET Tactics]
    BY DEF Shape, Types, RedisTypes
  <1>g. ASSUME NEW to \in Reading \cup Capping, OnLeg(w, to), job'[w].side = side'[k], job'[w].tac = tac'[k]
        PROVE  Views(w, k)'
    BY <1>g DEF OnLeg, GoesOn, Views, Busy, Track, Alert
  <1>1. CASE ReadMembers(w)
    <2>1. OnLeg(w, "prune") /\ job'[w].side = job[w].side /\ job'[w].tac = job[w].tac
      BY <1>1, <1>t, ReadMembersIs
    <2>2. UNCHANGED <<side, tac>>
      BY <1>1 DEF ReadMembers, redisVars
    <2>3. QED
      BY <1>g, <2>1, <2>2 DEF Reading
  <1>2. CASE Prune(w)
    <2>1. /\ OnLeg(w, "cap") /\ job'[w].tac = job[w].tac
          /\ job'[w].side = Without(job[w].side, Members(job[w].side) \ job[w].live)
      BY <1>2, <1>t, PruneIs
    <2>2. side'[k] = Without(side[k], Members(job[w].side) \ job[w].live) /\ UNCHANGED tac
      BY <1>2, <1>t DEF Prune
    <2>3. QED
      BY <1>g, <2>1, <2>2 DEF Capping
  <1>3. ASSUME NEW E \in SUBSET Alerts, Evict(w, E) PROVE Views(w, k)'
    <2>1. OnLeg(w, "mark") /\ job'[w].tac = job[w].tac /\ job'[w].side = Without(job[w].side, E)
      BY <1>3, <1>t, EvictIs
    <2>2. side'[k] = Without(side[k], E) /\ UNCHANGED tac
      BY <1>3, <1>t DEF Evict
    <2>3. QED
      BY <1>g, <2>1, <2>2 DEF Capping
  <1>4. CASE MarkTruncated(w) \/ WithinCap(w)
    <2>1. UNCHANGED <<side, tac>>
      BY <1>4 DEF MarkTruncated, WithinCap, redisVars
    <2>2. /\ job[w].pc \in {"cap", "mark"}
          /\ Promoted(job[w]) => OnLeg(w, "bind") /\ job'[w].side = job[w].side /\ job'[w].tac = job[w].tac
      BY <1>4, CapIs
    <2>3. Members(job[w].side) \subseteq job[w].live
      BY <2>2 DEF Sees, Capping
    <2>4. Promoted(job[w])
      BY <2>1, <2>3 DEF Promoted
    <2>5. QED
      BY <1>g, <2>1, <2>2, <2>4 DEF Capping
  <1>5. CASE Bind(w)
    <2>1. PICK inc \in IncidentType :
            /\ inc.track = Track(w) /\ inc.tactics = job[w].tac /\ inc.members = Members(job[w].side) \cap job[w].live
            /\ Outbox(w)' = Outbox(w) \cup {inc}
      BY <1>5, OutboxBind
    <2>2. job[w].pc = "bind" /\ job'[w] # Idle
      BY <1>5, BindIs DEF LegOver, GoesOn
    <2>3. Members(job[w].side) \subseteq job[w].live
      BY <2>2 DEF Sees, Capping
    <2>4. UNCHANGED <<side, tac>>
      BY <1>5 DEF Bind
    <2>5. Whole(inc, k)'
      BY <2>1, <2>3, <2>4 DEF Whole
    <2>6. inc \in Outbox(w)'
      BY <2>1
    <2>7. QED
      BY <2>2, <2>5, <2>6 DEF Views, Busy
  <1>6. ~Hit(w) /\ ~Record(w) /\ ~Snapshot(w) /\ ~Emit(w) /\ ~Ack(w)
    BY DEF Hit, Record, Snapshot, Emit, Ack, At, Reading, Capping
  <1>7. ~\E a \in Alerts : Take(w, a)
    BY <1>t, TakeIs
  <1>8. QED
    BY <1>1, <1>2, <1>3, <1>4, <1>5, <1>6, <1>7 DEF Worker

\* A whole incident that a worker is about to produce is produced.
LEMMA ViewInOutbox ==
    ASSUME Shape, [Next]_vars, DOMAIN latest = Tracks, Exclusive, NEW k \in Tracks, k \notin raced,
           \A x \in Workers : ~(Snapshot(x) /\ Track(x) = k),
           NEW w \in Workers, Worker(w), ~Abort(w), Busy(w), Handed(w), NEW i \in Outbox(w), Whole(i, k),
           side'[k] = side[k], tac'[k] = tac[k]
    PROVE  Views(w, k)' \/ Known(k)'
  <1>t. Types /\ Outbox(w) = {job[w].out[n] : n \in DOMAIN job[w].out}
    BY DEF Shape, Outbox
  <1>w. Whole(i, k)'
    BY DEF Whole
  <1>u. ASSUME Busy(w)', i \in Outbox(w)' PROVE Views(w, k)'
    BY <1>u, <1>w DEF Views
  <1>1. CASE GoesOn(w) /\ job'[w].out = job[w].out
    <2>1. Busy(w)' /\ Outbox(w)' = Outbox(w)
      BY <1>1 DEF GoesOn, Outbox, Busy
    <2>2. QED
      BY <1>u, <2>1
  <1>2. CASE Bind(w)
    <2>1. Busy(w)' /\ Outbox(w) \subseteq Outbox(w)'
      BY <1>2, OutboxBind, BindIs DEF LegOver, GoesOn, Busy
    <2>2. QED
      BY <1>u, <2>1
  <1>3. CASE Emit(w)
    <2>1. /\ job'[w] # Idle /\ job[w].pc = "emit" /\ job'[w].pc = "emit" /\ Head(job[w].out) = job[w].out[1]
          /\ 1 \in DOMAIN job[w].out /\ job[w].out[1] \in IncidentType
          /\ \A n \in DOMAIN job[w].out : n # 1 => job[w].out[n] \in Outbox(w)'
          /\ \A x \in Outbox(w)' : \E n \in DOMAIN job[w].out \ {1} : x = job[w].out[n]
      BY <1>3, OutboxEmit
    <2>2. PICK n \in DOMAIN job[w].out : i = job[w].out[n]
      BY <1>t
    <2>3. CASE n # 1
      BY <1>u, <2>1, <2>2, <2>3 DEF Busy
    <2>4. CASE n = 1
      <3>1. latest'[k] = i
        <4>1. latest' = [latest EXCEPT ![i.track] = i] /\ i.track = k
          BY <1>3, <2>1, <2>2, <2>4 DEF Emit, Whole
        <4>2. QED
          BY <4>1
      <3>2. i # NoIncident
        <4>1. i.id # 0
          BY <2>1, <2>2, <2>4 DEF IncidentType
        <4>2. QED
          BY <4>1 DEF NoIncident
      <3>3. ~Holding(w, k)'
        <4>1. \A x \in Outbox(w)' : x.track # k
          BY <2>1, <2>2, <2>4 DEF Handed, Whole
        <4>2. QED
          BY <2>1, <4>1 DEF Holding, Reading, Capping
      <3>4. Holding(w, k)
        BY DEF Holding, Whole
      <3>5. ASSUME NEW v \in Workers \ {w}, Holding(v, k)' PROVE FALSE
        <4>1. job'[v] = job[v]
          BY <3>5, WorkerIs DEF Moves
        <4>2. Holding(v, k)
          BY <3>5, <4>1 DEF Holding, Busy, Track, Alert, Outbox
        <4>3. QED
          BY <3>4, <4>2 DEF Exclusive
      <3>6. \A v \in Workers : ~Holding(v, k)'
        BY <3>3, <3>5
      <3>7. QED
        BY <1>w, <3>1, <3>2, <3>6 DEF Known, Whole
    <2>5. QED
      BY <2>3, <2>4
  <1>4. ~Ack(w)
    <2>1. ASSUME Ack(w) PROVE FALSE
      <3>1. job[w].out = <<>>
        BY <2>1 DEF Ack
      <3>2. QED
        BY <1>t, <3>1
    <2>2. QED
      BY <2>1
  <1>5. ~\E a \in Alerts : Take(w, a)
    BY <1>t, TakeIs
  <1>6. \/ Bind(w) \/ Emit(w) \/ (GoesOn(w) /\ job'[w].out = job[w].out)
    <2>1. (\E to : OnLeg(w, to)) => GoesOn(w) /\ job'[w].out = job[w].out
      BY DEF OnLeg
    <2>2. LegOver(w) => GoesOn(w)
      BY DEF LegOver
    <2>3. QED
      BY <1>4, <1>5, <2>1, <2>2, StepIs DEF InLeg
  <1>7. QED
    BY <1>1, <1>2, <1>3, <1>6

\* A worker that stops before it has produced what it read leaves an alert to be read again.
LEMMA AbortWaits ==
    ASSUME Shape, HitsOK, NEW k \in Tracks, NEW w \in Workers, Abort(w), Handed(w), Holding(w, k)
    PROVE  \E a \in Alerts : Waits(k, a)'
  <1>t. Types /\ Busy(w) /\ job[w].alert \in Alerts /\ job[w].now \in Nat \ {0}
    BY JobIs DEF Shape, Holding
  <1>1. \E n \in Legs(w) : LegsOf[job[w].alert][n] = k /\ HasHit(w, n)
    <2>1. CASE job[w].pc \in Reading \cup Capping /\ Track(w) = k
      <3>1. job[w].pc # "emit" /\ job[w].pc # "hit"
        BY <2>1 DEF Reading, Capping
      <3>2. QED
        BY <1>t, <2>1, <3>1, TrackIs DEF HasHit
    <2>2. CASE \E i \in Outbox(w) : i.track = k
      <3>1. PICK m \in DOMAIN job[w].out : job[w].out[m].track = k
        BY <1>t, <2>2 DEF Outbox
      <3>2. PICK n \in Legs(w) : LegsOf[job[w].alert][n] = k /\ Past(w, n)
        BY <1>t, <3>1 DEF Handed
      <3>3. QED
        BY <3>2 DEF Past, HasHit
    <2>3. QED
      BY <2>1, <2>2 DEF Holding
  <1>2. hitAt[k][job[w].alert] # 0
    BY <1>t, <1>1 DEF HitsOK, JobHits
  <1>3. PICK a \in Alerts : a = job[w].alert
    BY <1>t
  <1>4. Moves(w) /\ job'[w] = Idle /\ UNCHANGED <<hitAt, acked>>
    BY <1>t, DoneIs DEF Abort, historyVars
  <1>5. a \notin acked
    BY <1>t, <1>3 DEF Shape, JobsOK, JobGood
  <1>6. \A u \in Workers : Busy(u)' => job'[u].alert # a
    BY <1>t, <1>3, <1>4 DEF Shape, JobsOK, Busy, Moves
  <1>7. Waits(k, a)'
    BY <1>2, <1>3, <1>4, <1>5, <1>6 DEF Waits
  <1>8. QED
    BY <1>7

\* A record leaves its alert to be read, a snapshot reads all there is.
LEMMA RecordWaits ==
    ASSUME Shape, HitsOK, NEW k \in Tracks, NEW w \in Workers, Record(w), Track(w) = k
    PROVE  \E a \in Alerts : Waits(k, a)'
  <1>1. /\ Busy(w) /\ job[w].pc = "record" /\ job[w].alert \in Alerts /\ job[w].now \in Nat \ {0}
        /\ Track(w) = LegsOf[job[w].alert][job[w].leg] /\ job[w].leg \in Legs(w) /\ UNCHANGED <<acked, hitAt>>
    BY RecordWrites
  <1>2. OnLeg(w, "snapshot") /\ Moves(w) /\ job'[w].alert = job[w].alert /\ job'[w].leg = job[w].leg
    BY RecordIs DEF Shape, OnLeg, GoesOn
  <1>3. PICK a \in Alerts : a = job[w].alert
    BY <1>1
  <1>4. hitAt[k][a] # 0 /\ a \notin acked
    <2>1. HasHit(w, job[w].leg)
      BY <1>1 DEF HasHit
    <2>2. QED
      BY <1>1, <1>3, <2>1 DEF HitsOK, JobHits, Shape, JobsOK, JobGood
  <1>5. ASSUME NEW u \in Workers, Busy(u)', job'[u].alert = a, HasRead(u, k)' PROVE FALSE
    <2>1. u = w
      <3>1. u # w => Busy(u) /\ job[u].alert = a
        BY <1>2, <1>5 DEF Moves, Busy
      <3>2. QED
        BY <1>1, <1>3, <3>1 DEF Shape, JobsOK
    <2>2. PICK n \in DOMAIN LegsOf[a] : LegsOf[a][n] = k /\ PastRead(w, n)'
      BY <1>5, <2>1 DEF HasRead, Legs
    <2>3. n = job[w].leg
      BY <1>1, <1>3, <2>2, LegsDiffer DEF Legs
    <2>4. n < job[w].leg
      BY <1>2, <2>2, <2>3 DEF PastRead, OnLeg
    <2>5. job[w].leg \in Nat
      BY <1>1, JobIs DEF Shape
    <2>6. QED
      BY <2>3, <2>4, <2>5
  <1>6. Waits(k, a)'
    BY <1>1, <1>4, <1>5 DEF Waits
  <1>7. QED
    BY <1>6

LEMMA SnapshotViews ==
    ASSUME Shape, NEW k \in Tracks, NEW w \in Workers, Snapshot(w), Track(w) = k
    PROVE  Views(w, k)'
  <1>1. OnLeg(w, "members") /\ job'[w].side = side[k] /\ job'[w].tac = tac[k]
    BY SnapshotIs
  <1>2. UNCHANGED <<side, tac>>
    BY DEF Snapshot, redisVars
  <1>3. QED
    BY <1>1, <1>2 DEF OnLeg, GoesOn, Views, Busy, Reading, Track, Alert

LEMMA CompleteStep ==
    ASSUME LatestInv, [Next]_vars, NEW k \in Tracks, k \notin raced'
    PROVE  Complete(k)'
  <1>t. /\ Shape /\ Types /\ HitsOK /\ DOMAIN latest = Tracks /\ Exclusive
        /\ \A w \in Workers : Handed(w) /\ Sees(w)
    BY DEF LatestInv, PromoteInv, CorrInv, IdInv, Shape
  <1> SUFFICES ASSUME Members(side'[k]) # {}, Cardinality(tac'[k]) >= 2
               PROVE  (\E a \in Alerts : Waits(k, a)') \/ (\E w \in Workers : Views(w, k)') \/ Known(k)'
    BY DEF Complete, Members
  <1>1. CASE \E w \in Workers : Record(w) /\ Track(w) = k
    BY <1>1, <1>t, RecordWaits
  <1>2. CASE \E w \in Workers : Snapshot(w) /\ Track(w) = k
    BY <1>2, <1>t, SnapshotViews
  <1>3. ASSUME \A w \in Workers : ~(Record(w) /\ Track(w) = k), \A w \in Workers : ~(Snapshot(w) /\ Track(w) = k)
        PROVE  (\E a \in Alerts : Waits(k, a)') \/ (\E w \in Workers : Views(w, k)') \/ Known(k)'
    <2>1. k \notin raced
      BY <1>3, <1>t, RacedIs
    <2>2. /\ tac'[k] = tac[k] /\ Members(side[k]) # {}
          /\ (\A w \in Workers : Deletes(w) => Track(w) # k) => side'[k] = side[k]
      BY <1>3, <1>t, TrackStill
    <2>3. (\E a \in Alerts : Waits(k, a)) \/ (\E w \in Workers : Views(w, k)) \/ Known(k)
      BY <2>1, <2>2 DEF LatestInv, Complete
    <2>4. ASSUME NEW a \in Alerts, Waits(k, a) PROVE Waits(k, a)'
      BY <1>3, <1>t, <2>4, WaitsStay
    <2>5. CASE Known(k)
      BY <1>3, <1>t, <2>5, KnownStays
    <2>6. ASSUME NEW w \in Workers, Views(w, k)
          PROVE  (\E a \in Alerts : Waits(k, a)') \/ Views(w, k)' \/ Known(k)'
      <3>1. Holding(w, k) /\ Busy(w)
        BY <2>6 DEF Views, Holding, Whole
      <3>2. \A v \in Workers : Deletes(v) /\ Track(v) = k => v = w
        BY <1>t, <2>1, <3>1, DeletesHolds DEF Exclusive
      <3>3. CASE job'[w] = job[w]
        <4>1. \A v \in Workers : Deletes(v) => Track(v) # k
          BY <1>t, <3>2, <3>3, DeletesHolds
        <4>2. side'[k] = side[k]
          BY <2>2, <4>1
        <4>3. QED
          BY <2>2, <2>6, <3>3, <4>2 DEF Views, Busy, Track, Alert, Outbox, Whole
      <3>4. CASE Abort(w)
        BY <1>t, <3>1, <3>4, AbortWaits
      <3>5. CASE Worker(w) /\ ~Abort(w)
        <4>1. CASE job[w].pc \in Reading \cup Capping /\ Track(w) = k /\ job[w].side = side[k] /\ job[w].tac = tac[k]
          BY <1>t, <3>1, <3>5, <4>1, ViewOnLeg
        <4>2. ASSUME NEW i \in Outbox(w), Whole(i, k) PROVE Views(w, k)' \/ Known(k)'
          <5>1. PICK m \in DOMAIN job[w].out : job[w].out[m].track = k
            BY <3>1, <4>2 DEF Outbox, Whole
          <5>2. \A v \in Workers : Deletes(v) => Track(v) # k
            BY <1>t, <3>2, <5>1, DeletesHolds, OneOfEach
          <5>3. side'[k] = side[k]
            BY <2>2, <5>2
          <5>4. QED
            BY <1>t, <1>3, <2>1, <2>2, <3>1, <3>5, <4>2, <5>3, ViewInOutbox
        <4>3. QED
          BY <2>6, <4>1, <4>2 DEF Views
      <3>6. ASSUME NEW u \in Workers, Worker(u) \/ Abort(u), u # w PROVE job'[w] = job[w]
        BY <1>t, <3>6, WorkerIs DEF Moves
      <3>7. QED
        BY <3>3, <3>4, <3>5, <3>6 DEF Next, Again, Tick, vars
    <2>7. QED
      BY <2>3, <2>4, <2>5, <2>6
  <1>4. QED
    BY <1>1, <1>2, <1>3

\* The inductive invariant of what is produced.
THEOREM LatestInvariant == Spec => []LatestInv
  <1>1. Init => LatestInv
    <2> SUFFICES ASSUME Init PROVE LatestInv
      OBVIOUS
    <2>1. CorrInv /\ \A w \in Workers : ~Busy(w)
      BY CorrInit DEF Init, Busy
    <2>2. \A k \in Tracks, a \in Alerts : hitAt[k][a] = 0 /\ side[k][a] = 0
      BY DEF Init, None
    <2>3. TacticsOK /\ PairsOK /\ \A w \in Workers : Sees(w)
      BY <2>1, <2>2 DEF TacticsOK, PairsOK, PairGood, Meet, Fresh, Sees
    <2>4. DOMAIN latest = Tracks
      BY DEF Init
    <2>5. (\A w \in Workers : Handed(w)) /\ Exclusive
      BY <2>1 DEF Handed, Exclusive, Holding
    <2>6. \A k \in Tracks : Complete(k)
      BY <2>2 DEF Complete, Members
    <2>7. QED
      BY <2>1, <2>3, <2>4, <2>5, <2>6 DEF LatestInv, PromoteInv
  <1>2. LatestInv /\ PromoteInv' /\ [Next]_vars => LatestInv'
    <2> SUFFICES ASSUME LatestInv, PromoteInv', [Next]_vars PROVE LatestInv'
      OBVIOUS
    <2>1. Shape /\ DOMAIN latest = Tracks /\ Exclusive /\ \A w \in Workers : Handed(w)
      BY DEF LatestInv, PromoteInv, CorrInv, IdInv
    <2>2. DOMAIN latest' = Tracks
      <3>1. ASSUME NEW w \in Workers, Emit(w) PROVE DOMAIN latest' = Tracks
        <4>1. \E x, y : latest' = [latest EXCEPT ![x] = y]
          BY <3>1 DEF Emit
        <4>2. QED
          BY <2>1, <4>1
      <3>2. UNCHANGED latest \/ \E w \in Workers : Emit(w)
        BY DEF Next, Worker, Take, Hit, Record, Snapshot, ReadMembers, Prune, Evict, MarkTruncated, WithinCap, Bind, Ack,
               Abort, Again, Tick, vars
      <3>3. QED
        BY <2>1, <3>1, <3>2
    <2>3. ASSUME NEW u \in Workers PROVE Handed(u)'
      <3>1. CASE job'[u] = job[u]
        BY <2>1, <3>1 DEF Handed, Busy, Legs, Past
      <3>2. CASE Worker(u) \/ Abort(u)
        BY <2>1, <3>2, HandedStep
      <3>3. ASSUME NEW w \in Workers, Worker(w) \/ Abort(w), w # u PROVE job'[u] = job[u]
        BY <2>1, <3>3, WorkerIs DEF Moves
      <3>4. QED
        BY <3>1, <3>2, <3>3 DEF Next, Again, Tick, vars
    <2>4. Exclusive'
      BY <2>1, ExclusiveStep
    <2>5. \A k \in Tracks \ raced' : Complete(k)'
      BY CompleteStep
    <2>6. QED
      BY <2>2, <2>3, <2>4, <2>5 DEF LatestInv
  <1>3. QED
    BY <1>1, <1>2, PromoteInvariant, PTL DEF Spec

\* The document WS-3 ends up with is complete: once nothing is under way and nothing is
\* waiting on a track, the last incident produced for it has all its entries and tactics,
\* unless the last update ran while another replica was between its snapshot and its
\* produce; errors, crashes, evictions and redeliveries before that do not matter.
THEOREM LatestCompletes == Spec => []LatestIsComplete
  <1>1. LatestInv => LatestIsComplete
    <2> SUFFICES ASSUME LatestInv, NEW k \in Tracks, Settled(k), k \notin raced, Members(side[k]) # {},
                        Cardinality(tac[k]) >= 2
                 PROVE  latest[k] # NoIncident /\ latest[k].members = Members(side[k]) /\ latest[k].tactics = tac[k]
      BY DEF LatestIsComplete
    <2>1. \A w \in Workers : ~Busy(w)
      BY IdleIs DEF LatestInv, PromoteInv, CorrInv, IdInv, Shape, Settled
    <2>2. \A a \in Alerts : ~Waits(k, a)
      BY DEF Settled, Waits
    <2>3. \A w \in Workers : ~Views(w, k)
      BY <2>1 DEF Views
    <2>4. Known(k)
      BY <2>2, <2>3 DEF LatestInv, Complete
    <2>5. QED
      BY <2>4 DEF Known, Whole
  <1>2. QED
    BY <1>1, LatestInvariant, PTL
=============================================================================
