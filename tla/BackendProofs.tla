---------------------------- MODULE BackendProofs ----------------------------
(***************************************************************************)
(* The process-local backends keep what their Redis counterparts promise,  *)
(* proved for every value of the constants.                                *)
(*                                                                         *)
(* Window counters: DequeWindowCounter answers as the sorted sets of Redis *)
(* would, its per-member mirror is exact, and its sweep forgets idle keys  *)
(* only and leaves none behind.                                            *)
(*                                                                         *)
(* In-memory bus: a pending list exceeds its cap only by one batch, and on *)
(* a topic with one consumer group the bus keeps the delivery contract.    *)
(***************************************************************************)
EXTENDS WindowCounter, MemoryTopic, FiniteSetTheorems, SequenceTheorems,
        NaturalsInduction, WellFoundedInduction, TLAPS

\* What MemoryBus has besides the topic.
CONSTANT MaxRedeliveries
VARIABLES counts, acks

Mem == INSTANCE MemoryBus

-----------------------------------------------------------------------------
(* The window counters: the heap behind _sweep.                            *)

\* The part of the counter's state _touch and _sweep work on.
SweepState ==
    /\ last \in [Keys -> Nat]
    /\ exp \in [Keys -> Nat]
    /\ heap \subseteq Nat \X Keys
    /\ window \in [Keys -> Windows]

SweepInv == SweepState /\ HeapCovers

\* What Finish does to that state, with its abbreviations as parameters.
SweepStep(k, now, last1, exp1, heap1, due, gone) ==
    /\ last1 = [last EXCEPT ![k] = NewLast(k, now)]
    /\ exp1 = [exp EXCEPT ![k] = last1[k] + window[k]]
    /\ heap1 = IF PushNeeded(exp[k], exp1[k]) THEN heap \cup {<<exp1[k], k>>} ELSE heap
    /\ due = IF (hits + 1) % SweepEvery = 0 THEN {h \in heap1 : h[1] < now} ELSE {}
    /\ gone = SweptKeys(due, exp1, now)
    /\ last' = [x \in Keys |-> IF x \in gone THEN 0 ELSE last1[x]]
    /\ exp' = [x \in Keys |-> IF x \in gone THEN 0 ELSE exp1[x]]
    /\ heap' = (heap1 \ due)
                 \cup {<<exp1[h[2]], h[2]>> : h \in {g \in due : g[2] \notin gone}}
    /\ hits' = hits + 1

\* Finish is such a step.
LEMMA FinishSweeps ==
    ASSUME NEW k, NEW now, NEW s, NEW mem, Finish(k, now, s, mem)
    PROVE  \E last1, exp1, heap1, due, gone :
               SweepStep(k, now, last1, exp1, heap1, due, gone)
  <1> DEFINE last1 == [last EXCEPT ![k] = NewLast(k, now)]
             exp1  == [exp EXCEPT ![k] = last1[k] + window[k]]
             heap1 == IF PushNeeded(exp[k], exp1[k])
                      THEN heap \cup {<<exp1[k], k>>} ELSE heap
             due   == IF (hits + 1) % SweepEvery = 0 THEN {h \in heap1 : h[1] < now} ELSE {}
             gone  == SweptKeys(due, exp1, now)
  <1>1. SweepStep(k, now, last1, exp1, heap1, due, gone)
    BY DEF Finish, SweepStep
  <1> QED
    BY <1>1

\* One such step keeps the index invariant, and when it sweeps it leaves no
\* key whose deadline lies before the time of the sweeping hit.
LEMMA SweepStepKeeps ==
    ASSUME SweepInv, window' \in [Keys -> Windows],
           NEW k \in Keys, NEW now \in Times,
           NEW last1, NEW exp1, NEW heap1, NEW due, NEW gone,
           SweepStep(k, now, last1, exp1, heap1, due, gone)
    PROVE  /\ SweepInv'
           /\ (hits + 1) % SweepEvery = 0
                => \A x \in Keys : exp'[x] = 0 \/ exp'[x] >= now
  <1> USE ConstantsAssumption
  <1>1. now \in Nat \ {0}
    BY DEF Times
  <1>2. window[k] \in Nat \ {0}
    BY DEF SweepInv, SweepState
  <1>3. last1 \in [Keys -> Nat] /\ last1[k] \in Nat
    BY <1>1 DEF SweepStep, NewLast, SweepInv, SweepState
  <1>4. exp1 \in [Keys -> Nat] /\ \A x \in Keys \ {k} : exp1[x] = exp[x]
    BY <1>2, <1>3 DEF SweepStep, SweepInv, SweepState
  <1>5. heap1 \subseteq Nat \X Keys
    BY <1>4 DEF SweepStep, SweepInv, SweepState
  <1>6. \A x \in Keys : exp1[x] # 0 => \E h \in heap1 : h[2] = x /\ h[1] <= exp1[x]
    <2> SUFFICES ASSUME NEW x \in Keys, exp1[x] # 0
                 PROVE  \E h \in heap1 : h[2] = x /\ h[1] <= exp1[x]
      OBVIOUS
    <2>1. CASE x = k /\ PushNeeded(exp[k], exp1[k])
      <3>1. <<exp1[k], k>> \in heap1
        BY <2>1 DEF SweepStep
      <3> QED
        BY <3>1, <2>1, <1>4
    <2>2. CASE x = k /\ ~PushNeeded(exp[k], exp1[k])
      <3>1. exp[k] # 0 /\ exp[k] <= exp1[k] /\ heap1 = heap
        BY <2>2, <1>4 DEF SweepStep, PushNeeded, SweepInv, SweepState
      <3>2. PICK h \in heap : h[2] = k /\ h[1] <= exp[k]
        BY <3>1 DEF SweepInv, HeapCovers
      <3>3. h[1] \in Nat /\ exp[k] \in Nat /\ exp1[k] \in Nat
        BY <1>4 DEF SweepInv, SweepState
      <3> QED
        BY <3>1, <3>2, <3>3, <2>2
    <2>3. CASE x # k
      <3>1. PICK h \in heap : h[2] = x /\ h[1] <= exp[x]
        BY <2>3, <1>4 DEF SweepInv, HeapCovers
      <3>2. h \in heap1
        BY DEF SweepStep
      <3> QED
        BY <3>1, <3>2, <2>3, <1>4
    <2> QED
      BY <2>1, <2>2, <2>3
  <1>7. due \subseteq heap1 /\ \A h \in due : h[2] \in Keys /\ h[1] < now
    BY <1>5 DEF SweepStep
  <1>8. SweepState'
    <2>1. last' \in [Keys -> Nat] /\ exp' \in [Keys -> Nat]
      BY <1>3, <1>4 DEF SweepStep
    <2>2. ASSUME NEW h \in due PROVE <<exp1[h[2]], h[2]>> \in Nat \X Keys
      BY <1>4, <1>7
    <2>3. heap' \subseteq Nat \X Keys
      <3> SUFFICES ASSUME NEW p \in heap' PROVE p \in Nat \X Keys
        OBVIOUS
      <3>1. p \in heap1 \/ \E h \in due : p = <<exp1[h[2]], h[2]>>
        BY Zenon DEF SweepStep
      <3> QED
        BY <3>1, <2>2, <1>5, Zenon
    <2> QED
      BY <2>1, <2>3 DEF SweepState
  <1>9. HeapCovers'
    <2> SUFFICES ASSUME NEW x \in Keys, exp'[x] # 0
                 PROVE  \E h \in heap' : h[2] = x /\ h[1] <= exp'[x]
      BY DEF HeapCovers
    <2>1. x \notin gone /\ exp'[x] = exp1[x]
      BY DEF SweepStep
    <2>2. PICK h \in heap1 : h[2] = x /\ h[1] <= exp1[x]
      BY <2>1, <1>6
    <2>3. CASE h \in due
      <3>1. h \in {g \in due : g[2] \notin gone}
        BY <2>1, <2>2, <2>3
      <3>2. {<<exp1[g[2]], g[2]>> : g \in {f \in due : f[2] \notin gone}} \subseteq heap'
        BY DEF SweepStep
      <3>3. <<exp1[h[2]], h[2]>> \in heap'
        BY <3>1, <3>2
      <3>4. <<exp1[x], x>> \in heap'
        BY <3>3, <2>2
      <3> QED
        BY <3>4, <2>1, <1>4
    <2>4. CASE h \notin due
      BY <2>1, <2>2, <2>4 DEF SweepStep
    <2> QED
      BY <2>3, <2>4
  <1>10. ASSUME (hits + 1) % SweepEvery = 0, NEW x \in Keys
         PROVE  exp'[x] = 0 \/ exp'[x] >= now
    <2> SUFFICES ASSUME exp'[x] # 0, exp1[x] < now PROVE FALSE
      BY <1>1, <1>4 DEF SweepStep
    <2>1. x \notin gone /\ exp1[x] # 0
      BY DEF SweepStep
    <2>2. PICK h \in heap1 : h[2] = x /\ h[1] <= exp1[x]
      BY <2>1, <1>6
    <2>3. h[1] \in Nat /\ exp1[x] \in Nat
      BY <1>4, <1>5
    <2>4. h \in due
      BY <1>1, <1>10, <2>2, <2>3 DEF SweepStep
    <2>5. x \in gone
      BY <2>2, <2>4 DEF SweepStep, SweptKeys
    <2> QED
      BY <2>1, <2>5
  <1> QED
    BY <1>8, <1>9, <1>10 DEF SweepInv

\* Every step keeps the index invariant, and a step that sweeps is as the
\* lemma above says: a hit of either kind ends with Finish.
LEMMA NextSweeps ==
    ASSUME SweepInv, [Next]_vars
    PROVE  /\ SweepInv'
           /\ [hits' % SweepEvery = 0
                   => \A x \in Keys : exp'[x] = 0 \/ exp'[x] >= ret'.now]_deque
  <1>1. ASSUME NEW k \in Keys, NEW m \in Members, NEW now \in Times,
               Hit(k, m, now) \/ HitDistinct(k, m, now)
        PROVE  /\ SweepInv'
               /\ hits' % SweepEvery = 0
                    => \A x \in Keys : exp'[x] = 0 \/ exp'[x] >= ret'.now
    <2>1. PICK s, mem : Finish(k, now, s, mem)
      BY <1>1 DEF Hit, HitDistinct
    <2>2. window' = window /\ ret'.now = now
      BY <1>1 DEF Hit, HitDistinct
    <2>3. PICK last1, exp1, heap1, due, gone :
              SweepStep(k, now, last1, exp1, heap1, due, gone)
      BY <2>1, FinishSweeps
    <2>4. hits' = hits + 1
      BY <2>3 DEF SweepStep
    <2>5. window' \in [Keys -> Windows]
      BY <2>2 DEF SweepInv, SweepState
    <2> QED
      BY <2>2, <2>3, <2>4, <2>5, SweepStepKeeps
  <1>2. ASSUME NEW k \in Keys, NEW win \in Windows, Reload(k, win)
        PROVE  SweepInv' /\ UNCHANGED deque
    BY <1>2 DEF Reload, SweepInv, SweepState, HeapCovers, deque
  <1>3. CASE UNCHANGED vars
    BY <1>3 DEF vars, deque, SweepInv, SweepState, HeapCovers
  <1>4. ASSUME NEW k \in Keys, Expire(k)
        PROVE  SweepInv' /\ UNCHANGED deque
    BY <1>4 DEF Expire, SweepInv, SweepState, HeapCovers, deque
  <1> QED
    BY <1>1, <1>2, <1>3, <1>4 DEF Next

\* _sweep reclaims every idle key: after a sweeping hit no key is left whose
\* deadline lies before that hit, whatever reloads did to the windows.
THEOREM NoIdleKeyLeft == Spec => SweepLeavesNoIdleKey
  <1>1. Init => SweepInv
    BY DEF Init, SweepInv, SweepState, HeapCovers
  <1>2. SweepInv /\ [Next]_vars => SweepInv'
    BY NextSweeps
  <1>3. SweepInv /\ [Next]_vars
          => [hits' % SweepEvery = 0
                  => \A k \in Keys : exp'[k] = 0 \/ exp'[k] >= ret'.now]_deque
    BY NextSweeps
  <1> QED
    BY <1>1, <1>2, <1>3, PTL DEF Spec, SweepLeavesNoIdleKey

-----------------------------------------------------------------------------
(* The two backends agree.                                                 *)

InOrder(s) == \A i, j \in DOMAIN s : i < j => s[i].t <= s[j].t

\* A set of numbers that is not empty has a least one, which is what Min yields.
LEMMA MinIs ==
    ASSUME NEW S \in SUBSET Nat, S # {}
    PROVE  Min(S) \in S /\ \A x \in S : Min(S) <= x
  <1> DEFINE R == {p \in Nat \X Nat : p[1] < p[2]}
  <1>1. IsWellFoundedOn(R, Nat)
    BY NatLessThanWellFounded DEF OpToRel
  <1> HIDE DEF R
  <1>2. PICK t \in S : \A u \in S : ~(<<u, t>> \in R)
    BY <1>1, WFMin
  <1>3. \A u \in S : ~(u < t)
    BY <1>2 DEF R
  <1>4. \A u \in S : t <= u
    BY <1>3
  <1> QED
    BY <1>4 DEF Min

\* Ranks: where the sets B[i] of what comes no later than i are strictly nested,
\* their sizes number the elements.
LEMMA RanksNumber ==
    ASSUME NEW S, IsFiniteSet(S), NEW B \in [S -> SUBSET S], NEW f,
           \A i \in S : i \in B[i],
           \A i, j \in S : i # j => \/ B[i] \subseteq B[j] /\ j \notin B[i]
                                    \/ B[j] \subseteq B[i] /\ i \notin B[j],
           f = [i \in S |-> Cardinality(B[i])]
    PROVE  /\ f \in [S -> 1 .. Cardinality(S)]
           /\ \A i, j \in S : f[i] = f[j] => i = j
           /\ \A n \in 1 .. Cardinality(S) : \E i \in S : f[i] = n
  <1>1. Cardinality(S) \in Nat
    BY FS_CardinalityType
  <1>2. ASSUME NEW i \in S
        PROVE  IsFiniteSet(B[i]) /\ Cardinality(B[i]) \in 1 .. Cardinality(S)
    <2>1. B[i] \in SUBSET S
      OBVIOUS
    <2>2. IsFiniteSet(B[i]) /\ Cardinality(B[i]) <= Cardinality(S)
      BY <2>1, FS_Subset
    <2>3. Cardinality(B[i]) \in Nat /\ Cardinality(B[i]) # 0
      BY <2>2, FS_CardinalityType, FS_EmptySet
    <2> QED
      BY <1>1, <2>2, <2>3
  <1>3. f \in [S -> 1 .. Cardinality(S)]
    BY <1>2
  <1>4. ASSUME NEW i \in S, NEW j \in S, f[i] = f[j], i # j
        PROVE  FALSE
    <2>1. Cardinality(B[i]) = Cardinality(B[j])
      BY <1>4
    <2>2. ASSUME B[i] \subseteq B[j], j \notin B[i] PROVE FALSE
      <3>1. B[j] = B[i]
        BY <2>1, <2>2, <1>2, FS_Subset
      <3> QED
        BY <3>1, <2>2
    <2>3. ASSUME B[j] \subseteq B[i], i \notin B[j] PROVE FALSE
      <3>1. B[j] = B[i]
        BY <2>1, <2>3, <1>2, FS_Subset
      <3> QED
        BY <3>1, <2>3
    <2> QED
      BY <2>2, <2>3, <1>4
  <1>5. f \in Injection(S, 1 .. Cardinality(S))
    BY <1>3, <1>4 DEF Injection, IsInjective
  <1>6. IsFiniteSet(1 .. Cardinality(S)) /\ Cardinality(1 .. Cardinality(S)) = Cardinality(S)
    BY <1>1, FS_Interval
  <1>7. f \in Surjection(S, 1 .. Cardinality(S))
    BY <1>5, <1>6, FS_Injection
  <1> QED
    BY <1>3, <1>4, <1>7 DEF Surjection

\* What items.sort yields: the same entries, each once, in the order of time.
LEMMA ResortedIs ==
    ASSUME NEW s \in Seq(Entry)
    PROVE  \E p \in [DOMAIN s -> DOMAIN s] :
               /\ \A i, j \in DOMAIN s : p[i] = p[j] => i = j
               /\ \A i \in DOMAIN s : \E n \in DOMAIN s : p[n] = i
               /\ Resorted(s) \in Seq(Entry) /\ Len(Resorted(s)) = Len(s)
               /\ \A n \in DOMAIN s : Resorted(s)[n] = s[p[n]]
               /\ InOrder(Resorted(s))
  <1> DEFINE D == DOMAIN s
             B == [i \in D |-> {j \in D : s[j].t < s[i].t \/ (s[j].t = s[i].t /\ j <= i)}]
             f == [i \in D |-> Cardinality(B[i])]
             p == [n \in D |-> CHOOSE i \in D : Place(s, i) = n]
  <1>1. D = 1 .. Len(s) /\ Len(s) \in Nat
    OBVIOUS
  <1>2. \A i \in D : s[i].t \in Nat /\ s[i] \in Entry
    <2>1. \A i \in D : s[i] \in Entry
      OBVIOUS
    <2> QED
      BY <2>1, ConstantsAssumption DEF Entry, Times
  <1>3. IsFiniteSet(D) /\ Cardinality(D) = Len(s)
    BY <1>1, FS_Interval
  <1>4. B \in [D -> SUBSET D] /\ \A i \in D : i \in B[i]
    BY <1>1, <1>2
  <1>5. \A i, j \in D : i # j => \/ B[i] \subseteq B[j] /\ j \notin B[i]
                                 \/ B[j] \subseteq B[i] /\ i \notin B[j]
    <2> SUFFICES ASSUME NEW i \in D, NEW j \in D, i # j
                 PROVE  \/ B[i] \subseteq B[j] /\ j \notin B[i]
                        \/ B[j] \subseteq B[i] /\ i \notin B[j]
      OBVIOUS
    <2>0. i \in Nat /\ j \in Nat /\ s[i].t \in Nat /\ s[j].t \in Nat
      BY <1>1, <1>2
    <2>1. CASE s[i].t < s[j].t \/ (s[i].t = s[j].t /\ i < j)
      <3>1. j \notin B[i]
        BY <2>0, <2>1
      <3>2. ASSUME NEW x \in B[i] PROVE x \in B[j]
        <4>1. x \in D /\ x \in Nat /\ s[x].t \in Nat
          BY <1>1, <1>2
        <4>2. s[x].t < s[i].t \/ (s[x].t = s[i].t /\ x <= i)
          OBVIOUS
        <4>3. s[x].t < s[j].t \/ (s[x].t = s[j].t /\ x <= j)
          BY <4>1, <4>2, <2>0, <2>1
        <4> QED
          BY <4>1, <4>3
      <3> QED
        BY <3>1, <3>2
    <2>2. CASE s[j].t < s[i].t \/ (s[j].t = s[i].t /\ j < i)
      <3>1. i \notin B[j]
        BY <2>0, <2>2
      <3>2. ASSUME NEW x \in B[j] PROVE x \in B[i]
        <4>1. x \in D /\ x \in Nat /\ s[x].t \in Nat
          BY <1>1, <1>2
        <4>2. s[x].t < s[j].t \/ (s[x].t = s[j].t /\ x <= j)
          OBVIOUS
        <4>3. s[x].t < s[i].t \/ (s[x].t = s[i].t /\ x <= i)
          BY <4>1, <4>2, <2>0, <2>2
        <4> QED
          BY <4>1, <4>3
      <3> QED
        BY <3>1, <3>2
    <2> QED
      BY <2>0, <2>1, <2>2
  <1>6. \A i \in D : f[i] = Place(s, i)
    BY DEF Place
  <1> HIDE DEF B
  <1>7. /\ f \in [D -> D]
        /\ \A i, j \in D : f[i] = f[j] => i = j
        /\ \A n \in D : \E i \in D : f[i] = n
    <2>1. PICK g : g = f
      OBVIOUS
    <2>2. /\ g \in [D -> 1 .. Cardinality(D)]
          /\ \A i, j \in D : g[i] = g[j] => i = j
          /\ \A n \in 1 .. Cardinality(D) : \E i \in D : g[i] = n
      BY <1>3, <1>4, <1>5, <2>1, RanksNumber
    <2> QED
      BY <1>1, <1>3, <2>1, <2>2
  <1> HIDE DEF f
  <1>8. ASSUME NEW n \in D PROVE p[n] \in D /\ f[p[n]] = n
    BY <1>6, <1>7
  <1>9. Resorted(s) = [n \in D |-> s[p[n]]]
    BY DEF Resorted
  <1> HIDE DEF p
  <1>10. p \in [D -> D]
    BY <1>8 DEF p
  <1>11. \A i, j \in D : p[i] = p[j] => i = j
    BY <1>8
  <1>12. \A i \in D : \E n \in D : p[n] = i
    <2> SUFFICES ASSUME NEW i \in D PROVE p[f[i]] = i /\ f[i] \in D
      OBVIOUS
    <2> QED
      BY <1>7, <1>8
  <1>13. Resorted(s) \in Seq(Entry) /\ Len(Resorted(s)) = Len(s)
    BY <1>1, <1>2, <1>8, <1>9
  <1>14. \A n \in D : Resorted(s)[n] = s[p[n]]
    BY <1>9
  <1>15. InOrder(Resorted(s))
    <2> SUFFICES ASSUME NEW a \in D, NEW b \in D, a < b
                 PROVE  s[p[a]].t <= s[p[b]].t
      BY <1>1, <1>13, <1>14 DEF InOrder
    <2> SUFFICES ASSUME ~(s[p[a]].t <= s[p[b]].t) PROVE FALSE
      OBVIOUS
    <2>1. PICK i \in D, j \in D : i = p[a] /\ j = p[b]
      BY <1>8
    <2>2. s[j].t < s[i].t
      BY <1>2, <2>1
    <2>3. B[j] \subseteq B[i]
      BY <1>1, <1>2, <2>2 DEF B
    <2>4. f[j] = b /\ f[i] = a
      BY <1>8, <2>1
    <2>5. B[i] \in SUBSET D
      BY <1>4
    <2>6. IsFiniteSet(B[i])
      BY <1>3, <2>5, FS_Subset
    <2>7. Cardinality(B[j]) <= Cardinality(B[i])
      BY <2>3, <2>6, FS_Subset
    <2>8. b <= a
      BY <2>4, <2>7 DEF f
    <2> QED
      BY <2>8, <1>1
  <1> QED
    BY <1>10, <1>11, <1>12, <1>13, <1>14, <1>15

\* The loop that pops the front of a deque in order drops exactly the entries
\* before the horizon.
LEMMA FrontTrimIs ==
    ASSUME NEW s \in Seq(Entry), InOrder(s), NEW h \in Int
    PROVE  \E d \in 0 .. Len(s) :
               /\ Stale(s, h) = d
               /\ FrontTrim(s, h) \in Seq(Entry) /\ Len(FrontTrim(s, h)) = Len(s) - d
               /\ \A n \in 1 .. Len(s) - d : FrontTrim(s, h)[n] = s[n + d]
               /\ \A i \in 1 .. d : s[i].t < h
               /\ \A i \in d + 1 .. Len(s) : s[i].t >= h
               /\ InOrder(FrontTrim(s, h))
  <1> DEFINE fresh == {i \in DOMAIN s : s[i].t >= h}
  <1>1. DOMAIN s = 1 .. Len(s) /\ Len(s) \in Nat
    OBVIOUS
  <1>2. \A i \in DOMAIN s : s[i] \in Entry
    OBVIOUS
  <1>3. \A i \in DOMAIN s : s[i].t \in Nat
    BY <1>2, ConstantsAssumption DEF Entry, Times
  <1>4. PICK d \in 0 .. Len(s) : /\ Stale(s, h) = d
                                 /\ \A i \in 1 .. d : s[i].t < h
                                 /\ \A i \in d + 1 .. Len(s) : s[i].t >= h
    <2>1. CASE fresh = {}
      <3>1. Stale(s, h) = Len(s)
        BY <2>1 DEF Stale
      <3>2. \A i \in 1 .. Len(s) : s[i].t < h
        BY <2>1, <1>1, <1>3
      <3> QED
        BY <3>1, <3>2, <1>1
    <2>2. CASE fresh # {}
      <3>1. fresh \in SUBSET Nat
        BY <1>1
      <3>2. PICK x \in fresh : x = Min(fresh) /\ \A y \in fresh : x <= y
        BY <2>2, <3>1, MinIs
      <3>3. Stale(s, h) = x - 1
        BY <2>2, <3>2 DEF Stale
      <3>4. x \in 1 .. Len(s) /\ s[x].t >= h
        BY <1>1, <3>2
      <3>5. ASSUME NEW i \in 1 .. x - 1 PROVE s[i].t < h
        <4>1. i \in 1 .. Len(s) /\ i \in Nat /\ x \in Nat /\ i < x
          BY <1>1, <3>4
        <4>2. i \notin fresh
          <5>1. i \in fresh => x <= i
            BY <3>2, Zenon
          <5>2. ~(x <= i)
            BY <4>1
          <5>3. QED
            BY <5>1, <5>2, Zenon
        <4>3. ~(s[i].t >= h) /\ s[i].t \in Nat
          BY <1>1, <1>3, <4>1, <4>2
        <4>4. QED
          BY <4>3
      <3>6. ASSUME NEW i \in x .. Len(s) PROVE s[i].t >= h
        <4>1. i \in DOMAIN s /\ x \in DOMAIN s /\ (i = x \/ x < i)
          BY <1>1, <3>4
        <4>2. s[x].t <= s[i].t
          BY <4>1, <1>3 DEF InOrder
        <4> QED
          BY <4>1, <4>2, <1>3, <3>4
      <3>7. x - 1 \in 0 .. Len(s) /\ (x - 1) + 1 = x
        BY <1>1, <3>4
      <3> QED
        BY <3>3, <3>5, <3>6, <3>7
    <2> QED
      BY <2>1, <2>2
  <1>5. /\ FrontTrim(s, h) \in Seq(Entry) /\ Len(FrontTrim(s, h)) = Len(s) - d
        /\ \A n \in 1 .. Len(s) - d : FrontTrim(s, h)[n] = s[n + d]
    <2>1. FrontTrim(s, h) = SubSeq(s, d + 1, Len(s))
      BY <1>4 DEF FrontTrim
    <2>2. \A i \in d + 1 .. Len(s) : s[i] \in Entry
      BY <1>1, <1>2
    <2>3. /\ SubSeq(s, d + 1, Len(s)) \in Seq(Entry)
          /\ Len(SubSeq(s, d + 1, Len(s))) = IF d + 1 <= Len(s) THEN Len(s) - (d + 1) + 1 ELSE 0
          /\ \A i \in 1 .. Len(s) - (d + 1) + 1 : SubSeq(s, d + 1, Len(s))[i] = s[(d + 1) + i - 1]
      BY <1>1, <2>2, SubSeqProperties
    <2>4. \A i \in 1 .. Len(s) - d : (d + 1) + i - 1 = i + d
      BY <1>1
    <2>5. Len(s) - (d + 1) + 1 = Len(s) - d
      BY <1>1
    <2>6. (IF d + 1 <= Len(s) THEN Len(s) - (d + 1) + 1 ELSE 0) = Len(s) - d
      <3>1. PICK n \in Nat : n = Len(s) /\ d \in 0 .. n
        BY <1>1
      <3>2. (IF d + 1 <= n THEN n - (d + 1) + 1 ELSE 0) = n - d
        BY <3>1
      <3> QED
        BY <3>1, <3>2, SMTT(30)
    <2> QED
      BY <2>1, <2>3, <2>4, <2>5, <2>6
  <1>6. InOrder(FrontTrim(s, h))
    <2>1. DOMAIN FrontTrim(s, h) = 1 .. Len(s) - d
      BY <1>5
    <2>2. ASSUME NEW i \in 1 .. Len(s) - d, NEW j \in 1 .. Len(s) - d, i < j
          PROVE  s[i + d].t <= s[j + d].t
      <3>1. i + d \in DOMAIN s /\ j + d \in DOMAIN s /\ i + d < j + d
        BY <1>1, <2>2
      <3> QED
        BY <3>1 DEF InOrder
    <2> QED
      BY <2>1, <2>2, <1>5 DEF InOrder
  <1> QED
    BY <1>4, <1>5, <1>6

\* The deque of a counting rule and its mirror: a member has at most one entry,
\* and the mirror holds its time.
Mirror(s, mem) ==
    /\ s \in Seq(Entry) /\ mem \in [Members -> 0 .. MaxTime]
    /\ InOrder(s)
    /\ \A i, j \in DOMAIN s : s[i].m = s[j].m => i = j
    /\ \A i \in DOMAIN s : mem[s[i].m] = s[i].t
    /\ \A m \in Members : mem[m] # 0 => \E i \in DOMAIN s : s[i].m = m

\* Popping the front keeps the mirror exact and acts on it as ZREMRANGEBYSCORE
\* acts on the sorted set.
LEMMA TrimMirrors ==
    ASSUME NEW s, NEW mem, Mirror(s, mem), NEW h \in Int
    PROVE  /\ Evict(mem, s, h) = ZTrim(mem, h)
           /\ Mirror(FrontTrim(s, h), ZTrim(mem, h))
  <1> USE DEF Mirror
  <1>1. PICK d \in 0 .. Len(s) :
               /\ Stale(s, h) = d
               /\ FrontTrim(s, h) \in Seq(Entry) /\ Len(FrontTrim(s, h)) = Len(s) - d
               /\ \A n \in 1 .. Len(s) - d : FrontTrim(s, h)[n] = s[n + d]
               /\ \A i \in 1 .. d : s[i].t < h
               /\ \A i \in d + 1 .. Len(s) : s[i].t >= h
               /\ InOrder(FrontTrim(s, h))
    BY FrontTrimIs
  <1>2. DOMAIN s = 1 .. Len(s) /\ Len(s) \in Nat
    OBVIOUS
  <1>3. \A i \in DOMAIN s : s[i] \in Entry
    OBVIOUS
  <1>4. \A i \in DOMAIN s : s[i].t \in Nat \ {0} /\ s[i].m \in Members
    BY <1>3, ConstantsAssumption DEF Entry, Times
  <1>5. DOMAIN mem = Members /\ \A m \in Members : mem[m] \in Nat
    BY ConstantsAssumption
  <1>6. ZTrim(mem, h) = [m \in Members |-> IF mem[m] < h THEN 0 ELSE mem[m]]
    BY <1>5 DEF ZTrim
  <1> DEFINE out == {s[i].m : i \in 1 .. Stale(s, h)}
  <1>7. ASSUME NEW m \in Members
        PROVE  (IF m \in out THEN 0 ELSE mem[m]) = (IF mem[m] < h THEN 0 ELSE mem[m])
    <2>1. CASE mem[m] = 0
      BY <2>1
    <2>2. CASE mem[m] # 0
      <3>1. PICK i \in DOMAIN s : s[i].m = m
        BY <2>2
      <3>2. mem[m] = s[i].t
        BY <3>1
      <3>3. CASE i <= d
        <4>1. i \in 1 .. Stale(s, h)
          BY <1>1, <1>2, <3>3
        <4>2. m \in out
          BY <3>1, <4>1
        <4> QED
          BY <4>2, <1>1, <1>2, <3>2, <3>3
      <3>4. CASE i > d
        <4>1. i \in d + 1 .. Len(s)
          BY <1>2, <3>4
        <4>2. s[i].t >= h /\ s[i].t \in Nat
          BY <4>1, <1>1, <1>4
        <4>3. ~(mem[m] < h)
          BY <4>2, <3>2
        <4>4. m \notin out
          <5> SUFFICES ASSUME NEW j \in 1 .. Stale(s, h), s[j].m = m PROVE FALSE
            OBVIOUS
          <5>1. j \in DOMAIN s /\ j <= d
            BY <1>1, <1>2
          <5>2. j = i
            BY <3>1, <5>1
          <5> QED
            BY <5>1, <5>2, <3>4, <1>2
        <4> QED
          BY <4>3, <4>4
      <3> QED
        BY <3>3, <3>4, <1>1, <1>2
    <2> QED
      BY <2>1, <2>2
  <1>8. Evict(mem, s, h) = [m \in Members |-> IF m \in out THEN 0 ELSE mem[m]]
    BY DEF Evict
  <1>9. Evict(mem, s, h) = ZTrim(mem, h)
    BY <1>6, <1>7, <1>8
  <1>10. PICK q, z : q = FrontTrim(s, h) /\ z = ZTrim(mem, h)
    OBVIOUS
  <1>11. DOMAIN q = 1 .. Len(s) - d
    BY <1>1, <1>10
  <1>12. \A n \in DOMAIN q : q[n] = s[n + d] /\ n + d \in DOMAIN s /\ n + d \in d + 1 .. Len(s)
    BY <1>1, <1>2, <1>10, <1>11
  <1>13. z \in [Members -> 0 .. MaxTime]
    BY <1>5, <1>6, <1>10, ConstantsAssumption
  <1>14. \A i, j \in DOMAIN q : q[i].m = q[j].m => i = j
    <2> SUFFICES ASSUME NEW i \in DOMAIN q, NEW j \in DOMAIN q, q[i].m = q[j].m PROVE i = j
      OBVIOUS
    <2>1. i + d = j + d
      BY <1>12
    <2> QED
      BY <2>1, <1>11
  <1>15. \A i \in DOMAIN q : z[q[i].m] = q[i].t
    <2> SUFFICES ASSUME NEW i \in DOMAIN q PROVE z[q[i].m] = q[i].t
      OBVIOUS
    <2>1. q[i] = s[i + d] /\ i + d \in DOMAIN s /\ s[i + d].t >= h
      BY <1>1, <1>12
    <2>2. mem[q[i].m] = q[i].t /\ q[i].m \in Members /\ q[i].t \in Nat /\ q[i].t >= h
      BY <2>1, <1>4
    <2>3. ~(q[i].t < h)
      BY <2>2
    <2> QED
      BY <2>2, <2>3, <1>6, <1>10
  <1>16. \A m \in Members : z[m] # 0 => \E i \in DOMAIN q : q[i].m = m
    <2> SUFFICES ASSUME NEW m \in Members, z[m] # 0 PROVE \E i \in DOMAIN q : q[i].m = m
      OBVIOUS
    <2>1. mem[m] # 0 /\ ~(mem[m] < h)
      BY <1>6, <1>10
    <2>2. PICK i \in DOMAIN s : s[i].m = m
      BY <2>1
    <2>3. ~(s[i].t < h)
      BY <2>1, <2>2
    <2>4. i > d
      BY <2>3, <1>1, <1>2
    <2>5. i - d \in DOMAIN q /\ (i - d) + d = i
      BY <2>4, <1>2, <1>11
    <2>6. q[i - d].m = m
      BY <2>5, <2>2, <1>12
    <2> QED
      BY <2>5, <2>6
  <1>17. q \in Seq(Entry) /\ InOrder(q)
    BY <1>1, <1>10
  <1>18. Mirror(q, z)
    BY <1>13, <1>14, <1>15, <1>16, <1>17
  <1> QED
    BY <1>9, <1>10, <1>18

\* Sorting keeps everything about a mirrored deque but its order.
LEMMA ResortMirrors ==
    ASSUME NEW a \in Seq(Entry), NEW z \in [Members -> 0 .. MaxTime],
           \A i, j \in DOMAIN a : a[i].m = a[j].m => i = j,
           \A i \in DOMAIN a : z[a[i].m] = a[i].t,
           \A x \in Members : z[x] # 0 => \E i \in DOMAIN a : a[i].m = x
    PROVE  Mirror(Resorted(a), z)
  <1>1. PICK p \in [DOMAIN a -> DOMAIN a] :
               /\ \A i, j \in DOMAIN a : p[i] = p[j] => i = j
               /\ \A i \in DOMAIN a : \E n \in DOMAIN a : p[n] = i
               /\ Resorted(a) \in Seq(Entry) /\ Len(Resorted(a)) = Len(a)
               /\ \A n \in DOMAIN a : Resorted(a)[n] = a[p[n]]
               /\ InOrder(Resorted(a))
    BY ResortedIs
  <1>2. PICK q : q = Resorted(a)
    OBVIOUS
  <1>3. DOMAIN q = DOMAIN a /\ \A n \in DOMAIN a : q[n] = a[p[n]] /\ p[n] \in DOMAIN a
    BY <1>1, <1>2
  <1>4. \A i, j \in DOMAIN q : q[i].m = q[j].m => i = j
    <2> SUFFICES ASSUME NEW i \in DOMAIN a, NEW j \in DOMAIN a, q[i].m = q[j].m
                 PROVE  i = j
      BY <1>3
    <2>1. a[p[i]].m = a[p[j]].m /\ p[i] \in DOMAIN a /\ p[j] \in DOMAIN a
      BY <1>3
    <2>2. p[i] = p[j]
      BY <2>1
    <2> QED
      BY <2>2, <1>1
  <1>5. \A i \in DOMAIN q : z[q[i].m] = q[i].t
    BY <1>3
  <1>6. \A x \in Members : z[x] # 0 => \E i \in DOMAIN q : q[i].m = x
    <2> SUFFICES ASSUME NEW x \in Members, z[x] # 0 PROVE \E i \in DOMAIN q : q[i].m = x
      OBVIOUS
    <2>1. PICK i \in DOMAIN a : a[i].m = x
      OBVIOUS
    <2>2. PICK n \in DOMAIN a : p[n] = i
      BY <1>1
    <2> QED
      BY <2>1, <2>2, <1>3
  <1> QED
    BY <1>1, <1>2, <1>4, <1>5, <1>6 DEF Mirror

\* So does inserting a new member, wherever its time puts it.
LEMMA InsertMirrors ==
    ASSUME NEW s, NEW mem, Mirror(s, mem), NEW m \in Members, mem[m] = 0, NEW now \in Times
    PROVE  Mirror(Inserted(s, [t |-> now, m |-> m]), [mem EXCEPT ![m] = now])
  <1> DEFINE e == [t |-> now, m |-> m]
  <1> USE DEF Mirror
  <1>1. DOMAIN s = 1 .. Len(s) /\ Len(s) \in Nat /\ e \in Entry
    BY DEF Entry
  <1>2. \A i \in DOMAIN s : s[i] \in Entry
    OBVIOUS
  <1>3. \A i \in DOMAIN s : s[i].t \in Nat \ {0} /\ s[i].m \in Members
    BY <1>2, ConstantsAssumption DEF Entry, Times
  <1>4. PICK a, z : a = Append(s, e) /\ z = [mem EXCEPT ![m] = now]
    OBVIOUS
  <1>5. /\ a \in Seq(Entry) /\ Len(a) = Len(s) + 1 /\ DOMAIN a = 1 .. Len(s) + 1
        /\ \A i \in 1 .. Len(s) : a[i] = s[i]
        /\ a[Len(s) + 1] = e
    BY <1>1, <1>4, AppendProperties
  <1>6. \A i \in DOMAIN s : s[i].m # m
    BY <1>3
  <1>7. e.m = m /\ e.t = now
    OBVIOUS
  <1> HIDE DEF e
  <1>8. \A i \in DOMAIN a : (i \in DOMAIN s /\ a[i] = s[i]) \/ (i = Len(s) + 1 /\ a[i] = e)
    BY <1>1, <1>5
  <1>9. \A i, j \in DOMAIN a : a[i].m = a[j].m => i = j
    BY <1>8, <1>6, <1>7
  <1>10. z \in [Members -> 0 .. MaxTime] /\ \A x \in Members : z[x] = IF x = m THEN now ELSE mem[x]
    BY <1>4, ConstantsAssumption DEF Times
  <1>11. \A i \in DOMAIN a : z[a[i].m] = a[i].t
    BY <1>3, <1>6, <1>7, <1>8, <1>10
  <1>12. \A x \in Members : z[x] # 0 => \E i \in DOMAIN a : a[i].m = x
    <2> SUFFICES ASSUME NEW x \in Members, z[x] # 0 PROVE \E i \in DOMAIN a : a[i].m = x
      OBVIOUS
    <2>1. CASE x = m
      <3>1. Len(s) + 1 \in DOMAIN a
        BY <1>1, <1>5
      <3> QED
        BY <3>1, <2>1, <1>5, <1>7
    <2>2. CASE x # m
      <3>1. PICK i \in DOMAIN s : s[i].m = x
        BY <2>2, <1>10
      <3>2. i \in DOMAIN a /\ a[i] = s[i]
        BY <1>1, <1>5
      <3> QED
        BY <3>1, <3>2
    <2> QED
      BY <2>1, <2>2
  <1>13. CASE s # <<>> /\ e.t < s[Len(s)].t
    <2>1. Inserted(s, e) = Resorted(a)
      BY <1>13, <1>4 DEF Inserted
    <2> HIDE DEF Mirror
    <2>2. Mirror(Resorted(a), z)
      <3>1. a \in Seq(Entry) /\ z \in [Members -> 0 .. MaxTime]
        BY <1>5, <1>10
      <3> QED
        BY <3>1, <1>9, <1>11, <1>12, ResortMirrors
    <2> QED
      BY <2>1, <2>2, <1>4 DEF e
  <1>14. CASE ~(s # <<>> /\ e.t < s[Len(s)].t)
    <2>1. Inserted(s, e) = a
      BY <1>14, <1>4 DEF Inserted
    <2>2. \A i \in DOMAIN s : s[i].t <= now
      <3> SUFFICES ASSUME NEW i \in DOMAIN s PROVE s[i].t <= now
        OBVIOUS
      <3>1. s # <<>> /\ Len(s) \in DOMAIN s /\ (i = Len(s) \/ i < Len(s))
        BY <1>1
      <3>2. s[i].t <= s[Len(s)].t
        BY <3>1, <1>3 DEF InOrder
      <3>3. ~(now < s[Len(s)].t)
        BY <3>1, <1>14, <1>7
      <3> QED
        BY <3>1, <3>2, <3>3, <1>3, ConstantsAssumption DEF Times
    <2>3. InOrder(a)
      <3> SUFFICES ASSUME NEW i \in DOMAIN a, NEW j \in DOMAIN a, i < j
                   PROVE  a[i].t <= a[j].t
        BY DEF InOrder
      <3>1. i \in DOMAIN s /\ a[i] = s[i]
        BY <1>1, <1>5, <1>8
      <3>2. CASE j \in DOMAIN s /\ a[j] = s[j]
        BY <3>1, <3>2 DEF InOrder
      <3>3. CASE a[j] = e
        BY <3>1, <3>3, <2>2, <1>7
      <3> QED
        BY <3>2, <3>3, <1>8
    <2>4. Mirror(a, z)
      BY <2>3, <1>5, <1>9, <1>10, <1>11, <1>12
    <2> QED
      BY <2>1, <2>4, <1>4 DEF e
  <1> QED
    BY <1>13, <1>14

\* And so does re-stamping a member that is redelivered.
LEMMA RefreshMirrors ==
    ASSUME NEW s, NEW mem, Mirror(s, mem), NEW m \in Members, mem[m] # 0, NEW now \in Times
    PROVE  Mirror(Refreshed(s, [t |-> now, m |-> m]), [mem EXCEPT ![m] = now])
  <1>1. PICK e \in Entry : e = [t |-> now, m |-> m] /\ e.m = m /\ e.t = now
    <2>1. [t |-> now, m |-> m] \in Entry
      BY DEF Entry
    <2> QED
      BY <2>1
  <1>2. s \in Seq(Entry) /\ DOMAIN s = 1 .. Len(s) /\ Len(s) \in Nat
    BY DEF Mirror
  <1>3. \A i \in DOMAIN s : s[i] \in Entry
    BY <1>2
  <1>4. \A i \in DOMAIN s : s[i].m \in Members
    BY <1>3 DEF Entry
  <1>5. PICK a : a = [i \in DOMAIN s |-> IF s[i].m = e.m THEN e ELSE s[i]]
    OBVIOUS
  <1>6. a \in Seq(Entry) /\ DOMAIN a = DOMAIN s
    BY <1>2, <1>3, <1>5
  <1>7. \A i \in DOMAIN s : a[i].m = s[i].m /\ a[i].t = IF s[i].m = m THEN now ELSE s[i].t
    BY <1>1, <1>5
  <1>8. PICK z : z = [mem EXCEPT ![m] = now]
    OBVIOUS
  <1>9. z \in [Members -> 0 .. MaxTime] /\ \A x \in Members : z[x] = IF x = m THEN now ELSE mem[x]
    BY <1>8, ConstantsAssumption DEF Times, Mirror
  <1>10. \A i, j \in DOMAIN a : a[i].m = a[j].m => i = j
    BY <1>6, <1>7 DEF Mirror
  <1>11. \A i \in DOMAIN a : z[a[i].m] = a[i].t
    BY <1>4, <1>6, <1>7, <1>9 DEF Mirror
  <1>12. \A x \in Members : z[x] # 0 => \E i \in DOMAIN a : a[i].m = x
    <2> SUFFICES ASSUME NEW x \in Members, z[x] # 0 PROVE \E i \in DOMAIN a : a[i].m = x
      OBVIOUS
    <2>1. mem[x] # 0
      BY <1>9
    <2>2. PICK i \in DOMAIN s : s[i].m = x
      BY <2>1 DEF Mirror
    <2> QED
      BY <2>2, <1>6, <1>7
  <1>13. Mirror(Resorted(a), z)
    BY <1>6, <1>9, <1>10, <1>11, <1>12, ResortMirrors
  <1>14. Refreshed(s, e) = Resorted(a)
    BY <1>5 DEF Refreshed
  <1> QED
    BY <1>1, <1>8, <1>13, <1>14

\* hit(): whatever its case, the deque and its mirror end as ZADD and
\* ZREMRANGEBYSCORE would leave the mirror.
LEMMA HitMirrors ==
    ASSUME NEW s0, NEW mem0, Mirror(s0, mem0), NEW m \in Members, NEW now \in Times,
           NEW win \in Nat \ {0}, NEW s, NEW mem, NEW moved,
           s = FrontTrim(s0, now - win),
           mem = Evict(mem0, s0, now - win),
           moved = IF mem[m] = now THEN s
                   ELSE IF mem[m] # 0 THEN Refreshed(s, [t |-> now, m |-> m])
                   ELSE Inserted(s, [t |-> now, m |-> m])
    PROVE  /\ Mirror(FrontTrim(moved, now - win), ZHit(mem0, m, now, win))
           /\ Evict([mem EXCEPT ![m] = now], moved, now - win) = ZHit(mem0, m, now, win)
           /\ ZHit(mem0, m, now, win)[m] = now
  <1>1. PICK h \in Int : h = now - win
    BY ConstantsAssumption DEF Times
  <1>2. mem = ZTrim(mem0, h) /\ Mirror(s, mem)
    BY <1>1, TrimMirrors
  <1>3. now \in Nat \ {0} /\ now <= MaxTime /\ ~(now < h) /\ h < now
    BY <1>1, ConstantsAssumption DEF Times
  <1>4. /\ mem0 \in [Members -> 0 .. MaxTime] /\ DOMAIN mem0 = Members
        /\ mem \in [Members -> 0 .. MaxTime]
        /\ \A x \in Members : mem0[x] \in Nat /\ mem[x] \in Nat
    BY <1>2, ConstantsAssumption DEF Mirror
  <1>5. \A x \in Members : mem[x] = IF mem0[x] < h THEN 0 ELSE mem0[x]
    BY <1>2, <1>4 DEF ZTrim
  <1>6. PICK z : z = [mem EXCEPT ![m] = now]
    OBVIOUS
  <1>7. Mirror(moved, z)
    <2>1. CASE mem[m] = now
      <3>1. z = mem /\ moved = s
        BY <2>1, <1>4, <1>6
      <3> QED
        BY <3>1, <1>2
    <2>2. CASE mem[m] # now /\ mem[m] # 0
      BY <2>2, <1>2, <1>6, RefreshMirrors
    <2>3. CASE mem[m] # now /\ mem[m] = 0
      BY <2>3, <1>2, <1>6, InsertMirrors
    <2> QED
      BY <2>1, <2>2, <2>3
  <1>8. Evict(z, moved, h) = ZTrim(z, h) /\ Mirror(FrontTrim(moved, h), ZTrim(z, h))
    BY <1>7, TrimMirrors
  <1>9. z \in [Members -> 0 .. MaxTime] /\ \A x \in Members : z[x] = IF x = m THEN now ELSE mem[x]
    BY <1>3, <1>4, <1>6
  <1>10. ZHit(mem0, m, now, win) = ZTrim([mem0 EXCEPT ![m] = now], h)
    BY <1>1 DEF ZHit
  <1>11. PICK y : y = [mem0 EXCEPT ![m] = now]
    OBVIOUS
  <1>12. DOMAIN y = Members /\ \A x \in Members : y[x] = IF x = m THEN now ELSE mem0[x]
    BY <1>4, <1>11
  <1>13. DOMAIN z = Members
    BY <1>9
  <1>14. \A x \in Members : (IF y[x] < h THEN 0 ELSE y[x]) = (IF z[x] < h THEN 0 ELSE z[x])
    <2> SUFFICES ASSUME NEW x \in Members
                 PROVE  (IF y[x] < h THEN 0 ELSE y[x]) = (IF z[x] < h THEN 0 ELSE z[x])
      OBVIOUS
    <2>1. CASE x = m
      BY <2>1, <1>9, <1>12
    <2>2. CASE x # m
      <3>1. y[x] = mem0[x] /\ z[x] = mem[x]
        BY <2>2, <1>9, <1>12
      <3>2. CASE mem0[x] < h
        <4>1. mem[x] = 0
          BY <3>2, <1>5
        <4> QED
          BY <3>1, <3>2, <4>1
      <3>3. CASE ~(mem0[x] < h)
        BY <3>1, <3>3, <1>5
      <3> QED
        BY <3>2, <3>3
    <2> QED
      BY <2>1, <2>2
  <1>15. ZTrim(y, h) = ZTrim(z, h)
    BY <1>12, <1>13, <1>14 DEF ZTrim
  <1>16. ZTrim(y, h)[m] = now
    BY <1>3, <1>12 DEF ZTrim
  <1> QED
    BY <1>1, <1>6, <1>8, <1>10, <1>11, <1>15, <1>16

\* A mirrored deque is as long as its mirror has members.
LEMMA MirrorCounts ==
    ASSUME NEW s, NEW mem, Mirror(s, mem)
    PROVE  ZCard(mem) = Len(s) /\ Cardinality(Values(s)) = Len(s)
  <1>1. s \in Seq(Entry) /\ DOMAIN s = 1 .. Len(s) /\ Len(s) \in Nat /\ DOMAIN mem = Members
    BY DEF Mirror
  <1>2. \A i \in DOMAIN s : s[i] \in Entry
    BY <1>1
  <1>3. \A i \in DOMAIN s : s[i].t \in Nat \ {0} /\ s[i].m \in Members
    BY <1>2, ConstantsAssumption DEF Entry, Times
  <1>4. PICK T : T = {x \in DOMAIN mem : mem[x] # 0}
    OBVIOUS
  <1>5. PICK f : f = [i \in 1 .. Len(s) |-> s[i].m]
    OBVIOUS
  <1>6. f \in [1 .. Len(s) -> T]
    <2> SUFFICES ASSUME NEW i \in 1 .. Len(s) PROVE s[i].m \in T
      BY <1>5
    <2>1. mem[s[i].m] = s[i].t /\ s[i].t # 0 /\ s[i].m \in Members
      BY <1>1, <1>3 DEF Mirror
    <2> QED
      BY <2>1, <1>1, <1>4
  <1>7. \A i, j \in 1 .. Len(s) : f[i] = f[j] => i = j
    BY <1>1, <1>5 DEF Mirror
  <1>8. ASSUME NEW x \in T PROVE \E i \in 1 .. Len(s) : f[i] = x
    <2>1. x \in Members /\ mem[x] # 0
      BY <1>1, <1>4
    <2>2. PICK i \in DOMAIN s : s[i].m = x
      BY <2>1 DEF Mirror
    <2> QED
      BY <2>2, <1>1, <1>5
  <1>9. f \in Bijection(1 .. Len(s), T)
    BY <1>6, <1>7, <1>8 DEF Bijection, Injection, Surjection, IsInjective
  <1>10. Cardinality(T) = Len(s)
    BY <1>1, <1>9, FS_CountingElements DEF ExistsBijection
  <1>11. Values(s) = T
    <2>1. ASSUME NEW x \in Values(s) PROVE x \in T
      <3>1. PICK i \in DOMAIN s : x = s[i].m
        BY DEF Values
      <3>2. f[i] \in T /\ f[i] = x
        BY <3>1, <1>1, <1>5, <1>6
      <3> QED
        BY <3>2
    <2>2. ASSUME NEW x \in T PROVE x \in Values(s)
      <3>1. PICK i \in 1 .. Len(s) : f[i] = x
        BY <1>8
      <3> QED
        BY <3>1, <1>1, <1>5 DEF Values
    <2> QED
      BY <2>1, <2>2
  <1> QED
    BY <1>4, <1>10, <1>11 DEF ZCard

\* Inserting an entry adds it and nothing else, in the order of time.
LEMMA InsertedIs ==
    ASSUME NEW s \in Seq(Entry), InOrder(s), NEW e \in Entry
    PROVE  \E q \in Seq(Entry) :
               /\ q = Inserted(s, e) /\ InOrder(q)
               /\ \A n \in DOMAIN q : q[n] = e \/ \E i \in DOMAIN s : q[n] = s[i]
               /\ \A i \in DOMAIN s : \E n \in DOMAIN q : q[n] = s[i]
               /\ \E n \in DOMAIN q : q[n] = e
  <1>1. DOMAIN s = 1 .. Len(s) /\ Len(s) \in Nat
    OBVIOUS
  <1>2. \A i \in DOMAIN s : s[i] \in Entry
    OBVIOUS
  <1>3. e.t \in Nat /\ \A i \in DOMAIN s : s[i].t \in Nat
    BY <1>2, ConstantsAssumption DEF Entry, Times
  <1>4. PICK a : a = Append(s, e)
    OBVIOUS
  <1>5. /\ a \in Seq(Entry) /\ Len(a) = Len(s) + 1 /\ DOMAIN a = 1 .. Len(s) + 1
        /\ \A i \in 1 .. Len(s) : a[i] = s[i]
        /\ a[Len(s) + 1] = e
    BY <1>1, <1>4, AppendProperties
  <1>6. \A i \in DOMAIN a : (i \in DOMAIN s /\ a[i] = s[i]) \/ (i = Len(s) + 1 /\ a[i] = e)
    BY <1>1, <1>5
  <1>7. /\ \A i \in DOMAIN s : i \in DOMAIN a /\ a[i] = s[i]
        /\ Len(s) + 1 \in DOMAIN a
    BY <1>1, <1>5
  <1>8. CASE s # <<>> /\ e.t < s[Len(s)].t
    <2>1. PICK p \in [DOMAIN a -> DOMAIN a] :
               /\ \A i, j \in DOMAIN a : p[i] = p[j] => i = j
               /\ \A i \in DOMAIN a : \E n \in DOMAIN a : p[n] = i
               /\ Resorted(a) \in Seq(Entry) /\ Len(Resorted(a)) = Len(a)
               /\ \A n \in DOMAIN a : Resorted(a)[n] = a[p[n]]
               /\ InOrder(Resorted(a))
      BY <1>5, ResortedIs
    <2>2. PICK q : q = Resorted(a)
      OBVIOUS
    <2>3. q \in Seq(Entry) /\ InOrder(q) /\ q = Inserted(s, e)
      BY <1>4, <1>8, <2>1, <2>2 DEF Inserted
    <2>4. DOMAIN q = DOMAIN a /\ \A n \in DOMAIN q : q[n] = a[p[n]] /\ p[n] \in DOMAIN a
      BY <2>1, <2>2, <1>5
    <2>5. \A n \in DOMAIN q : q[n] = e \/ \E i \in DOMAIN s : q[n] = s[i]
      BY <2>4, <1>6
    <2>6. \A i \in DOMAIN a : \E n \in DOMAIN q : q[n] = a[i]
      BY <2>1, <2>4
    <2>7. \A i \in DOMAIN s : \E n \in DOMAIN q : q[n] = s[i]
      BY <2>6, <1>7
    <2>8. \E n \in DOMAIN q : q[n] = e
      BY <2>6, <1>7, <1>5
    <2> QED
      BY <2>3, <2>5, <2>7, <2>8
  <1>9. CASE ~(s # <<>> /\ e.t < s[Len(s)].t)
    <2>1. a = Inserted(s, e)
      BY <1>4, <1>9 DEF Inserted
    <2>2. \A i \in DOMAIN s : s[i].t <= e.t
      <3> SUFFICES ASSUME NEW i \in DOMAIN s PROVE s[i].t <= e.t
        OBVIOUS
      <3>1. s # <<>> /\ Len(s) \in DOMAIN s /\ (i = Len(s) \/ i < Len(s))
        BY <1>1
      <3>2. s[i].t <= s[Len(s)].t
        BY <3>1, <1>3 DEF InOrder
      <3>3. ~(e.t < s[Len(s)].t)
        BY <3>1, <1>9
      <3> QED
        BY <3>1, <3>2, <3>3, <1>3
    <2>3. InOrder(a)
      <3> SUFFICES ASSUME NEW i \in DOMAIN a, NEW j \in DOMAIN a, i < j
                   PROVE  a[i].t <= a[j].t
        BY DEF InOrder
      <3>1. i \in DOMAIN s /\ a[i] = s[i]
        BY <1>1, <1>5, <1>6
      <3>2. CASE j \in DOMAIN s /\ a[j] = s[j]
        BY <3>1, <3>2 DEF InOrder
      <3>3. CASE a[j] = e
        BY <3>1, <3>3, <2>2
      <3> QED
        BY <3>2, <3>3, <1>6
    <2>4. \A n \in DOMAIN a : a[n] = e \/ \E i \in DOMAIN s : a[n] = s[i]
      BY <1>6
    <2>5. \A i \in DOMAIN s : \E n \in DOMAIN a : a[n] = s[i]
      BY <1>7
    <2>6. \E n \in DOMAIN a : a[n] = e
      BY <1>5, <1>7
    <2> QED
      BY <1>5, <2>1, <2>3, <2>4, <2>5, <2>6
  <1> QED
    BY <1>8, <1>9

\* The deque of a distinct-count rule against the sorted set: z holds the newest
\* time of each value, and no other value.
Newest(s, z) ==
    /\ s \in Seq(Entry) /\ z \in [Members -> 0 .. MaxTime]
    /\ InOrder(s)
    /\ \A i \in DOMAIN s : s[i].t <= z[s[i].m]
    /\ \A m \in Members : z[m] # 0 => \E i \in DOMAIN s : s[i].m = m /\ s[i].t = z[m]

LEMMA InsertNewest ==
    ASSUME NEW s, NEW z, Newest(s, z), NEW v \in Members, NEW now \in Times
    PROVE  Newest(Inserted(s, [t |-> now, m |-> v]),
                  [z EXCEPT ![v] = IF now > z[v] THEN now ELSE z[v]])
  <1>1. PICK e \in Entry : e = [t |-> now, m |-> v] /\ e.m = v /\ e.t = now
    <2>1. [t |-> now, m |-> v] \in Entry
      BY DEF Entry
    <2> QED
      BY <2>1
  <1>2. s \in Seq(Entry) /\ InOrder(s)
    BY DEF Newest
  <1>3. PICK q \in Seq(Entry) :
               /\ q = Inserted(s, e) /\ InOrder(q)
               /\ \A n \in DOMAIN q : q[n] = e \/ \E i \in DOMAIN s : q[n] = s[i]
               /\ \A i \in DOMAIN s : \E n \in DOMAIN q : q[n] = s[i]
               /\ \E n \in DOMAIN q : q[n] = e
    BY <1>1, <1>2, InsertedIs
  <1>4. \A i \in DOMAIN s : s[i] \in Entry
    BY <1>2
  <1>5. /\ now \in Nat \ {0} /\ now <= MaxTime
        /\ \A i \in DOMAIN s : s[i].t \in Nat \ {0} /\ s[i].m \in Members
        /\ \A x \in Members : z[x] \in Nat /\ z[x] <= MaxTime
    BY <1>4, ConstantsAssumption, SMTT(30) DEF Newest, Entry, Times
  <1>6. PICK y : y = [z EXCEPT ![v] = IF now > z[v] THEN now ELSE z[v]]
    OBVIOUS
  <1>7. /\ y \in [Members -> 0 .. MaxTime]
        /\ \A x \in Members : y[x] = IF x = v /\ now > z[v] THEN now ELSE z[x]
    <2>1. z \in [Members -> 0 .. MaxTime]
      BY DEF Newest
    <2>2. (IF now > z[v] THEN now ELSE z[v]) \in 0 .. MaxTime
      BY <1>5, <2>1, ConstantsAssumption
    <2> QED
      BY <1>6, <2>1, <2>2
  <1>8. \A x \in Members : z[x] <= y[x] /\ y[x] \in Nat
    BY <1>5, <1>7
  <1>9. ASSUME NEW n \in DOMAIN q PROVE q[n].t <= y[q[n].m]
    <2>1. CASE q[n] = e
      BY <2>1, <1>1, <1>5, <1>7
    <2>2. ASSUME NEW i \in DOMAIN s, q[n] = s[i] PROVE q[n].t <= y[q[n].m]
      <3>1. s[i].t <= z[s[i].m] /\ z[s[i].m] <= y[s[i].m]
        BY <1>5, <1>8 DEF Newest
      <3>2. s[i].t \in Nat /\ z[s[i].m] \in Nat /\ y[s[i].m] \in Nat
        BY <1>5, <1>8
      <3> QED
        BY <2>2, <3>1, <3>2
    <2> QED
      BY <2>1, <2>2, <1>3
  <1>10. ASSUME NEW x \in Members, y[x] # 0
         PROVE  \E n \in DOMAIN q : q[n].m = x /\ q[n].t = y[x]
    <2>1. CASE x = v /\ now > z[v]
      <3>1. y[x] = now
        BY <2>1, <1>7
      <3> QED
        BY <2>1, <3>1, <1>1, <1>3
    <2>2. CASE ~(x = v /\ now > z[v])
      <3>1. y[x] = z[x]
        BY <2>2, <1>7
      <3>2. PICK i \in DOMAIN s : s[i].m = x /\ s[i].t = z[x]
        BY <3>1, <1>10 DEF Newest
      <3>3. PICK n \in DOMAIN q : q[n] = s[i]
        BY <1>3
      <3> QED
        BY <3>1, <3>2, <3>3
    <2> QED
      BY <2>1, <2>2
  <1>11. Newest(q, y)
    BY <1>3, <1>7, <1>9, <1>10 DEF Newest
  <1> QED
    BY <1>1, <1>3, <1>6, <1>11

LEMMA TrimNewest ==
    ASSUME NEW s, NEW z, Newest(s, z), NEW h \in Int
    PROVE  Newest(FrontTrim(s, h), ZTrim(z, h))
  <1>1. s \in Seq(Entry) /\ InOrder(s) /\ DOMAIN s = 1 .. Len(s) /\ Len(s) \in Nat
    <2>1. s \in Seq(Entry) /\ InOrder(s)
      BY Zenon DEF Newest
    <2>2. QED
      BY <2>1, SMTT(30)
  <1>2. PICK d \in 0 .. Len(s) :
               /\ Stale(s, h) = d
               /\ FrontTrim(s, h) \in Seq(Entry) /\ Len(FrontTrim(s, h)) = Len(s) - d
               /\ \A n \in 1 .. Len(s) - d : FrontTrim(s, h)[n] = s[n + d]
               /\ \A i \in 1 .. d : s[i].t < h
               /\ \A i \in d + 1 .. Len(s) : s[i].t >= h
               /\ InOrder(FrontTrim(s, h))
    BY <1>1, FrontTrimIs
  <1>3. \A i \in DOMAIN s : s[i] \in Entry
    BY <1>1
  <1>4. /\ \A i \in DOMAIN s : s[i].t \in Nat \ {0} /\ s[i].m \in Members
        /\ DOMAIN z = Members /\ \A x \in Members : z[x] \in Nat
    BY <1>3, ConstantsAssumption DEF Newest, Entry, Times
  <1>5. PICK q, y : q = FrontTrim(s, h) /\ y = ZTrim(z, h)
    OBVIOUS
  <1>6. /\ y \in [Members -> 0 .. MaxTime]
        /\ \A x \in Members : y[x] = IF z[x] < h THEN 0 ELSE z[x]
    <2>1. z \in [Members -> 0 .. MaxTime] /\ 0 \in 0 .. MaxTime
      BY ConstantsAssumption DEF Newest
    <2> QED
      BY <2>1, <1>4, <1>5 DEF ZTrim
  <1>7. DOMAIN q = 1 .. Len(s) - d
    BY <1>2, <1>5
  <1>8. \A n \in DOMAIN q : q[n] = s[n + d] /\ n + d \in DOMAIN s /\ n + d \in d + 1 .. Len(s)
    BY <1>1, <1>2, <1>5, <1>7
  <1>9. ASSUME NEW n \in DOMAIN q PROVE q[n].t <= y[q[n].m]
    <2>1. PICK i \in DOMAIN s : q[n] = s[i] /\ s[i].t >= h
      BY <1>2, <1>8
    <2>2. s[i].t <= z[s[i].m] /\ z[s[i].m] \in Nat /\ s[i].t \in Nat /\ s[i].m \in Members
      BY <1>4 DEF Newest
    <2>3. ~(z[s[i].m] < h)
      BY <2>1, <2>2
    <2>4. y[s[i].m] = z[s[i].m]
      BY <2>2, <2>3, <1>6
    <2> QED
      BY <2>1, <2>2, <2>4
  <1>10. ASSUME NEW x \in Members, y[x] # 0
         PROVE  \E n \in DOMAIN q : q[n].m = x /\ q[n].t = y[x]
    <2>1. y[x] = z[x] /\ ~(z[x] < h) /\ z[x] # 0
      BY <1>6, <1>10
    <2>2. PICK i \in DOMAIN s : s[i].m = x /\ s[i].t = z[x]
      BY <2>1 DEF Newest
    <2>3. ~(s[i].t < h)
      BY <2>1, <2>2
    <2>4. i > d
      BY <2>3, <1>1, <1>2
    <2>5. i - d \in DOMAIN q /\ (i - d) + d = i
      BY <2>4, <1>1, <1>7
    <2>6. q[i - d] = s[i]
      BY <2>5, <1>8
    <2> QED
      BY <2>1, <2>2, <2>5, <2>6
  <1> QED
    BY <1>2, <1>5, <1>6, <1>9, <1>10 DEF Newest

\* Both then count the same values.
LEMMA NewestCounts ==
    ASSUME NEW s, NEW z, Newest(s, z)
    PROVE  ZCard(z) = Cardinality(Values(s))
  <1>1. s \in Seq(Entry) /\ DOMAIN z = Members
    BY DEF Newest
  <1>2. \A i \in DOMAIN s : s[i] \in Entry
    BY <1>1
  <1>3. /\ \A i \in DOMAIN s : s[i].t \in Nat \ {0} /\ s[i].m \in Members
        /\ \A x \in Members : z[x] \in Nat
    BY <1>2, ConstantsAssumption DEF Newest, Entry, Times
  <1>4. ASSUME NEW x \in Values(s) PROVE x \in {y \in DOMAIN z : z[y] # 0}
    <2>1. PICK i \in DOMAIN s : x = s[i].m
      BY DEF Values
    <2>2. s[i].t <= z[x] /\ x \in Members /\ s[i].t \in Nat \ {0} /\ z[x] \in Nat
      BY <2>1, <1>3 DEF Newest
    <2> QED
      BY <2>2, <1>1
  <1>5. ASSUME NEW x \in {y \in DOMAIN z : z[y] # 0} PROVE x \in Values(s)
    <2>1. PICK i \in DOMAIN s : s[i].m = x
      BY <1>1 DEF Newest
    <2> QED
      BY <2>1 DEF Values
  <1>6. Values(s) = {y \in DOMAIN z : z[y] # 0}
    BY <1>4, <1>5
  <1> QED
    BY <1>6 DEF ZCard

\* A set of positions that is not empty has a last one.
LEMMA LastIs ==
    ASSUME NEW n \in Nat, NEW S \in SUBSET (1 .. n), S # {}
    PROVE  \E x \in S : \A y \in S : y <= x
  <1>1. PICK T : T = {n - y : y \in S}
    OBVIOUS
  <1>2. T \in SUBSET Nat /\ T # {}
    <2>1. \A y \in S : n - y \in Nat
      OBVIOUS
    <2> QED
      BY <2>1, <1>1
  <1>3. PICK u \in T : \A v \in T : u <= v
    BY <1>2, MinIs
  <1>4. PICK x \in S : u = n - x
    BY <1>1
  <1>5. ASSUME NEW y \in S PROVE y <= x
    <2>1. n - y \in T
      BY <1>1
    <2>2. n - x <= n - y
      BY <2>1, <1>3, <1>4
    <2> QED
      BY <2>2
  <1> QED
    BY <1>5

\* Compaction keeps the last copy of each value, in order, and nothing else.
LEMMA CompactedIs ==
    ASSUME NEW s \in Seq(Entry), InOrder(s)
    PROVE  \E q \in Seq(Entry) :
               /\ q = Compacted(s) /\ InOrder(q)
               /\ \A n \in DOMAIN q : \E i \in DOMAIN s : q[n] = s[i]
               /\ \A i \in DOMAIN s : (\A j \in DOMAIN s : j > i => s[j].m # s[i].m)
                                         => \E n \in DOMAIN q : q[n] = s[i]
  <1> DEFINE newest == {i \in DOMAIN s : \A j \in DOMAIN s : j > i => s[j].m # s[i].m}
             B == [i \in newest |-> {j \in newest : j <= i}]
             p == [n \in 1 .. Cardinality(newest) |->
                      CHOOSE i \in newest : Cardinality({j \in newest : j <= i}) = n]
             c == [n \in 1 .. Cardinality(newest) |-> s[p[n]]]
  <1>1. DOMAIN s = 1 .. Len(s) /\ Len(s) \in Nat
    OBVIOUS
  <1>2. \A i \in DOMAIN s : s[i] \in Entry
    OBVIOUS
  <1>3. newest \in SUBSET DOMAIN s
    OBVIOUS
  <1>4. CASE ~(Len(s) > 2 * Cardinality(Values(s)) + CompactSlack)
    <2>1. s = Compacted(s)
      BY <1>4 DEF Compacted
    <2> QED
      BY <2>1
  <1>5. CASE Len(s) > 2 * Cardinality(Values(s)) + CompactSlack
    <2>1. Compacted(s) = c
      BY <1>5 DEF Compacted
    <2>2. IsFiniteSet(DOMAIN s)
      BY <1>1, FS_Interval
    <2>3. IsFiniteSet(newest)
      BY <2>2, <1>3, FS_Subset
    <2>4. Cardinality(newest) \in Nat
      BY <2>3, FS_CardinalityType
    <2>5. \A i \in newest : i \in Nat /\ i \in DOMAIN s
      BY <1>1, <1>3
    <2> HIDE DEF newest
    <2>6. B \in [newest -> SUBSET newest] /\ \A i \in newest : i \in B[i]
      BY <2>5
    <2>7. \A i, j \in newest : i # j => \/ B[i] \subseteq B[j] /\ j \notin B[i]
                                        \/ B[j] \subseteq B[i] /\ i \notin B[j]
      <3> SUFFICES ASSUME NEW i \in newest, NEW j \in newest, i # j
                   PROVE  \/ B[i] \subseteq B[j] /\ j \notin B[i]
                          \/ B[j] \subseteq B[i] /\ i \notin B[j]
        OBVIOUS
      <3>1. CASE i < j
        BY <3>1, <2>5
      <3>2. CASE j < i
        BY <3>2, <2>5
      <3> QED
        BY <3>1, <3>2, <2>5
    <2>8. PICK f : f = [i \in newest |-> Cardinality(B[i])]
      OBVIOUS
    <2>9. \A i \in newest : f[i] = Cardinality({j \in newest : j <= i})
      BY <2>8
    <2> HIDE DEF B
    <2>10. /\ f \in [newest -> 1 .. Cardinality(newest)]
           /\ \A i, j \in newest : f[i] = f[j] => i = j
           /\ \A n \in 1 .. Cardinality(newest) : \E i \in newest : f[i] = n
      BY <2>3, <2>6, <2>7, <2>8, RanksNumber
    <2>11. ASSUME NEW n \in 1 .. Cardinality(newest) PROVE p[n] \in newest /\ f[p[n]] = n
      BY <2>9, <2>10
    <2>12. PICK q : q = c
      OBVIOUS
    <2>13. DOMAIN q = 1 .. Cardinality(newest) /\ \A n \in DOMAIN q : q[n] = s[p[n]]
      BY <2>12
    <2> HIDE DEF p
    <2>14. \A n \in DOMAIN q : p[n] \in newest /\ p[n] \in DOMAIN s /\ f[p[n]] = n /\ q[n] = s[p[n]]
      BY <2>5, <2>11, <2>13
    <2>15. q \in Seq(Entry)
      <3>1. \A n \in 1 .. Cardinality(newest) : s[p[n]] \in Entry
        BY <2>13, <2>14, <1>2
      <3> QED
        BY <3>1, <2>4, <2>12
    <2>16. ASSUME NEW a \in DOMAIN q, NEW b \in DOMAIN q, a < b
           PROVE  q[a].t <= q[b].t
      <3>1. PICK i \in newest, j \in newest : i = p[a] /\ j = p[b]
        BY <2>14
      <3>2. f[i] = a /\ f[j] = b
        BY <2>14, <3>1
      <3>3. i < j
        <4> SUFFICES ASSUME ~(i < j) PROVE FALSE
          OBVIOUS
        <4>1. B[j] \subseteq B[i]
          BY <2>5 DEF B
        <4>2. B[i] \in SUBSET newest
          BY <2>6
        <4>3. IsFiniteSet(B[i])
          BY <4>2, <2>3, FS_Subset
        <4>4. Cardinality(B[j]) <= Cardinality(B[i])
          BY <4>1, <4>3, FS_Subset
        <4>5. b <= a
          BY <4>4, <3>2, <2>8
        <4> QED
          BY <4>5, <2>4, <2>13, <2>16
      <3>4. s[i].t <= s[j].t
        BY <3>3, <2>5 DEF InOrder
      <3> QED
        BY <3>1, <3>4, <2>14
    <2>17. ASSUME NEW i \in DOMAIN s, \A j \in DOMAIN s : j > i => s[j].m # s[i].m
           PROVE  \E n \in DOMAIN q : q[n] = s[i]
      <3>1. i \in newest
        BY <2>17 DEF newest
      <3>2. f[i] \in DOMAIN q
        BY <3>1, <2>10, <2>13
      <3>3. p[f[i]] = i
        BY <3>1, <3>2, <2>10, <2>14
      <3> QED
        BY <3>2, <3>3, <2>14
    <2> QED
      BY <2>1, <2>12, <2>14, <2>15, <2>16, <2>17 DEF InOrder
  <1> QED
    BY <1>4, <1>5

LEMMA CompactNewest ==
    ASSUME NEW s, NEW z, Newest(s, z)
    PROVE  Newest(Compacted(s), z)
  <1>1. s \in Seq(Entry) /\ InOrder(s) /\ DOMAIN s = 1 .. Len(s) /\ Len(s) \in Nat
    BY DEF Newest
  <1>2. PICK q \in Seq(Entry) :
               /\ q = Compacted(s) /\ InOrder(q)
               /\ \A n \in DOMAIN q : \E i \in DOMAIN s : q[n] = s[i]
               /\ \A i \in DOMAIN s : (\A j \in DOMAIN s : j > i => s[j].m # s[i].m)
                                         => \E n \in DOMAIN q : q[n] = s[i]
    BY <1>1, CompactedIs
  <1>3. \A i \in DOMAIN s : s[i] \in Entry
    BY <1>1
  <1>4. /\ \A i \in DOMAIN s : s[i].t \in Nat
        /\ \A x \in Members : z[x] \in Nat
    BY <1>3, ConstantsAssumption DEF Newest, Entry, Times
  <1>5. ASSUME NEW n \in DOMAIN q PROVE q[n].t <= z[q[n].m]
    BY <1>2 DEF Newest
  <1>6. ASSUME NEW x \in Members, z[x] # 0
        PROVE  \E n \in DOMAIN q : q[n].m = x /\ q[n].t = z[x]
    <2>1. PICK i \in DOMAIN s : s[i].m = x /\ s[i].t = z[x]
      BY <1>6 DEF Newest
    <2>2. PICK S : S = {j \in DOMAIN s : s[j].m = x}
      OBVIOUS
    <2>3. S \in SUBSET (1 .. Len(s)) /\ S # {}
      BY <2>1, <2>2, <1>1
    <2>4. PICK g \in S : \A j \in S : j <= g
      BY <2>3, <1>1, LastIs
    <2>5. g \in DOMAIN s /\ s[g].m = x /\ g \in Nat
      BY <2>2, <1>1
    <2>6. \A j \in DOMAIN s : j > g => s[j].m # s[g].m
      BY <2>2, <2>4, <2>5, <1>1
    <2>7. PICK n \in DOMAIN q : q[n] = s[g]
      BY <2>5, <2>6, <1>2
    <2>8. i <= g /\ i \in Nat
      BY <2>1, <2>2, <2>4, <1>1
    <2>9. s[i].t <= s[g].t
      <3>1. CASE i = g
        BY <3>1, <1>4
      <3>2. CASE i < g
        BY <3>2, <2>5, <1>1 DEF InOrder
      <3> QED
        BY <3>1, <3>2, <2>5, <2>8
    <2>10. s[g].t <= z[x]
      BY <2>5 DEF Newest
    <2>11. s[g].t = z[x]
      BY <2>1, <2>5, <2>9, <2>10, <1>4
    <2> QED
      BY <2>5, <2>7, <2>11
  <1>7. z \in [Members -> 0 .. MaxTime]
    BY DEF Newest
  <1> QED
    BY <1>2, <1>5, <1>6, <1>7 DEF Newest

\* What the two backends hold of a key: the same, unless one of them has dropped the
\* key since its last hit.
Agrees(k) ==
    /\ k \in swept => w[k] = <<>>
    /\ k \in lapsed => redis[k] = Absent
    /\ k \notin swept \cup lapsed =>
          IF k \in DistinctKeys THEN Newest(w[k], redis[k]) ELSE redis[k] = live[k]

CountState ==
    /\ w \in [Keys -> Seq(Entry)]
    /\ live \in [Keys -> [Members -> 0 .. MaxTime]]
    /\ redis \in [Keys -> [Members -> 0 .. MaxTime]]

Ordered == \A k \in Keys : InOrder(w[k])
Mirrored == \A k \in Keys \ DistinctKeys : Mirror(w[k], live[k])
LastCovers ==
    \A k \in Keys : /\ last[k] = 0 <=> w[k] = <<>>
                    /\ \A i \in DOMAIN w[k] : w[k][i].t <= last[k]
Agreed == \A k \in Keys \ tardy : Agrees(k)

CountInv ==
    /\ SweepInv /\ CountState
    /\ Ordered /\ Mirrored /\ LastCovers /\ Agreed
    /\ CountsAgree

\* What Finish does to the entries: the hit key gets its new window, and the keys
\* that are swept are others whose deadline has passed.
LEMMA FinishIs ==
    ASSUME SweepInv, CountState, NEW k \in Keys, NEW now \in Times, NEW s, NEW mem,
           Finish(k, now, s, mem)
    PROVE  \E gone \in SUBSET Keys :
               /\ k \notin gone
               /\ \A x \in gone : exp[x] < now
               /\ w' = [x \in Keys |-> IF x \in gone THEN <<>> ELSE IF x = k THEN s ELSE w[x]]
               /\ live' = [x \in Keys |-> IF x \in gone THEN Absent
                                          ELSE IF x = k THEN mem ELSE live[x]]
               /\ last' = [x \in Keys |-> IF x \in gone THEN 0
                                          ELSE IF x = k THEN NewLast(k, now) ELSE last[x]]
               /\ swept' = (swept \ {k}) \cup gone /\ lapsed' = lapsed \ {k}
               /\ tardy' = IF HitsHalf(k, now - window[k]) THEN tardy \cup {k} ELSE tardy
  <1> DEFINE last1 == [last EXCEPT ![k] = NewLast(k, now)]
             exp1  == [exp EXCEPT ![k] = last1[k] + window[k]]
             heap1 == IF PushNeeded(exp[k], exp1[k])
                      THEN heap \cup {<<exp1[k], k>>} ELSE heap
             due   == IF (hits + 1) % SweepEvery = 0 THEN {h \in heap1 : h[1] < now} ELSE {}
  <1>1. PICK gone : gone = SweptKeys(due, exp1, now)
    OBVIOUS
  <1>2. /\ w' = [x \in Keys |-> IF x \in gone THEN <<>> ELSE [w EXCEPT ![k] = s][x]]
        /\ live' = [x \in Keys |-> IF x \in gone THEN Absent ELSE [live EXCEPT ![k] = mem][x]]
        /\ last' = [x \in Keys |-> IF x \in gone THEN 0 ELSE last1[x]]
        /\ swept' = (swept \ {k}) \cup gone /\ lapsed' = lapsed \ {k}
        /\ tardy' = IF HitsHalf(k, now - window[k]) THEN tardy \cup {k} ELSE tardy
    BY <1>1 DEF Finish
  <1>3. /\ now \in Nat \ {0} /\ window[k] \in Nat \ {0} /\ last[k] \in Nat
        /\ exp \in [Keys -> Nat] /\ last \in [Keys -> Nat] /\ heap \subseteq Nat \X Keys
    <2>1. now \in Nat \ {0}
      BY ConstantsAssumption DEF Times
    <2>2. /\ window \in [Keys -> Windows] /\ exp \in [Keys -> Nat] /\ last \in [Keys -> Nat]
          /\ heap \subseteq Nat \X Keys
      BY DEF SweepInv, SweepState
    <2>3. window[k] \in Nat \ {0} /\ last[k] \in Nat
      BY <2>2, ConstantsAssumption
    <2> QED
      BY <2>1, <2>2, <2>3
  <1>4. NewLast(k, now) \in Nat /\ now <= NewLast(k, now)
    BY <1>3 DEF NewLast
  <1>5. \A x \in Keys : last1[x] = IF x = k THEN NewLast(k, now) ELSE last[x]
    BY <1>3
  <1>6. \A x \in Keys : exp1[x] = IF x = k THEN NewLast(k, now) + window[k] ELSE exp[x]
    BY <1>3
  <1>7. heap1 \subseteq (Nat \X Keys) \cup {<<exp1[k], k>>}
    BY <1>3
  <1> HIDE DEF heap1, exp1, last1
  <1>8. \A h \in heap1 : h[2] \in Keys
    BY <1>7
  <1>9. ASSUME NEW x \in gone PROVE x \in Keys /\ exp1[x] < now
    <2>1. PICK h \in due : x = h[2] /\ exp1[h[2]] < now
      BY <1>1 DEF SweptKeys
    <2>2. h \in heap1
      OBVIOUS
    <2> QED
      BY <2>1, <2>2, <1>8
  <1>10. k \notin gone
    <2> SUFFICES ASSUME k \in gone PROVE FALSE
      OBVIOUS
    <2>1. NewLast(k, now) + window[k] < now
      BY <1>6, <1>9
    <2> QED
      BY <2>1, <1>3, <1>4
  <1>11. \A x \in gone : exp[x] < now
    BY <1>6, <1>9, <1>10
  <1>12. w' = [x \in Keys |-> IF x \in gone THEN <<>> ELSE IF x = k THEN s ELSE w[x]]
    BY <1>2 DEF CountState
  <1>13. live' = [x \in Keys |-> IF x \in gone THEN Absent
                                 ELSE IF x = k THEN mem ELSE live[x]]
    BY <1>2 DEF CountState
  <1>14. last' = [x \in Keys |-> IF x \in gone THEN 0
                                 ELSE IF x = k THEN NewLast(k, now) ELSE last[x]]
    BY <1>2, <1>5
  <1>15. gone \in SUBSET Keys
    BY <1>9
  <1> QED
    BY <1>2, <1>10, <1>11, <1>12, <1>13, <1>14, <1>15

\* The part of a hit that is common to both kinds.
LEMMA HitKeeps ==
    ASSUME CountInv, NEW k \in Keys, NEW now \in Times, NEW s \in Seq(Entry),
           NEW mem \in [Members -> 0 .. MaxTime], NEW z \in [Members -> 0 .. MaxTime],
           Finish(k, now, s, mem), window' = window, redis' = [redis EXCEPT ![k] = z],
           InOrder(s), s # <<>>, \A i \in DOMAIN s : s[i].t <= NewLast(k, now),
           k \notin DistinctKeys => Mirror(s, mem),
           k \notin tardy' => IF k \in DistinctKeys THEN Newest(s, z) ELSE z = mem,
           CountsAgree', ret'.key = k, ret'.now = now
    PROVE  /\ CountInv'
           /\ \A x \in Keys :
                  \/ w'[x] = w[x] \/ x = ret'.key
                  \/ \A i \in DOMAIN w[x] : w[x][i].t + (exp[x] - last[x]) < ret'.now
  <1>1. SweepInv /\ CountState /\ Ordered /\ Mirrored /\ LastCovers /\ Agreed
    BY DEF CountInv
  <1>2. PICK gone \in SUBSET Keys :
               /\ k \notin gone
               /\ \A x \in gone : exp[x] < now
               /\ w' = [x \in Keys |-> IF x \in gone THEN <<>> ELSE IF x = k THEN s ELSE w[x]]
               /\ live' = [x \in Keys |-> IF x \in gone THEN Absent
                                          ELSE IF x = k THEN mem ELSE live[x]]
               /\ last' = [x \in Keys |-> IF x \in gone THEN 0
                                          ELSE IF x = k THEN NewLast(k, now) ELSE last[x]]
               /\ swept' = (swept \ {k}) \cup gone /\ lapsed' = lapsed \ {k}
               /\ tardy' = IF HitsHalf(k, now - window[k]) THEN tardy \cup {k} ELSE tardy
    BY <1>1, FinishIs, SMTT(30)
  <1>3. SweepInv'
    <2>1. PICK last1, exp1, heap1, due, out :
              SweepStep(k, now, last1, exp1, heap1, due, out)
      BY FinishSweeps
    <2>2. window' \in [Keys -> Windows]
      BY <1>1 DEF SweepInv, SweepState
    <2> QED
      BY <1>1, <2>1, <2>2, SweepStepKeeps
  <1>4. last \in [Keys -> Nat] /\ exp \in [Keys -> Nat] /\ now \in Nat \ {0}
    BY <1>1, ConstantsAssumption DEF SweepInv, SweepState, Times
  <1>5. Absent \in [Members -> 0 .. MaxTime] /\ \A m \in Members : Absent[m] = 0
    BY ConstantsAssumption DEF Absent
  <1>6. redis' = [x \in Keys |-> IF x = k THEN z ELSE redis[x]]
    BY <1>1 DEF CountState
  <1>7. CountState'
    <2>1. w' \in [Keys -> Seq(Entry)]
      <3>1. <<>> \in Seq(Entry)
        OBVIOUS
      <3> QED
        BY <1>1, <1>2, <3>1 DEF CountState
    <2>2. live' \in [Keys -> [Members -> 0 .. MaxTime]]
      BY <1>1, <1>2, <1>5 DEF CountState
    <2>3. redis' \in [Keys -> [Members -> 0 .. MaxTime]]
      BY <1>1, <1>6 DEF CountState
    <2> QED
      BY <2>1, <2>2, <2>3 DEF CountState
  <1>8. ASSUME NEW x \in Keys, NEW g, g = w'[x] PROVE InOrder(g)
    <2>1. InOrder(<<>>)
      BY DEF InOrder
    <2> QED
      BY <1>1, <1>2, <1>8, <2>1 DEF Ordered
  <1>9. ASSUME NEW x \in Keys \ DistinctKeys PROVE Mirror(w'[x], live'[x])
    <2>1. Mirror(<<>>, Absent)
      BY <1>5 DEF Mirror, InOrder
    <2>2. CASE x \in gone
      BY <1>2, <2>1, <2>2
    <2>3. CASE x = k
      BY <1>2, <2>3
    <2>4. CASE x \notin gone /\ x # k
      BY <1>1, <1>2, <2>4 DEF Mirrored
    <2> QED
      BY <2>2, <2>3, <2>4
  <1>10. ASSUME NEW x \in Keys
         PROVE  /\ last'[x] = 0 <=> w'[x] = <<>>
                /\ \A i \in DOMAIN w'[x] : w'[x][i].t <= last'[x]
    <2>1. CASE x \in gone
      BY <1>2, <2>1
    <2>2. CASE x = k
      <3>1. NewLast(k, now) # 0
        BY <1>4 DEF NewLast
      <3> QED
        BY <1>2, <2>2, <3>1
    <2>3. CASE x \notin gone /\ x # k
      BY <1>1, <1>2, <2>3 DEF LastCovers
    <2> QED
      BY <2>1, <2>2, <2>3
  <1>11. tardy \subseteq tardy'
    BY <1>2
  <1>12. ASSUME NEW x \in Keys \ tardy' PROVE Agrees(x)'
    <2>1. CASE x \in gone
      <3>1. x # k /\ w'[x] = <<>> /\ redis'[x] = redis[x] /\ Agrees(x)
        BY <1>1, <1>2, <1>6, <1>11, <2>1 DEF Agreed
      <3>2. x \in swept' /\ (x \in lapsed' => x \in lapsed)
        BY <1>2, <2>1
      <3> QED
        BY <3>1, <3>2 DEF Agrees
    <2>2. CASE x = k
      <3>1. w'[x] = s /\ live'[x] = mem /\ redis'[x] = z /\ x \notin swept' \cup lapsed'
        BY <1>2, <1>6, <2>2
      <3> QED
        BY <1>12, <2>2, <3>1 DEF Agrees
    <2>3. CASE x \notin gone /\ x # k
      <3>1. /\ w'[x] = w[x] /\ live'[x] = live[x] /\ redis'[x] = redis[x]
            /\ (x \in swept' <=> x \in swept) /\ (x \in lapsed' <=> x \in lapsed)
        BY <1>2, <1>6, <2>3
      <3>2. Agrees(x)
        BY <1>1, <1>11 DEF Agreed
      <3> QED
        BY <3>1, <3>2 DEF Agrees
    <2> QED
      BY <2>1, <2>2, <2>3
  <1>13. ASSUME NEW x \in Keys, w'[x] # w[x], x # ret'.key, NEW i \in DOMAIN w[x]
         PROVE  w[x][i].t + (exp[x] - last[x]) < ret'.now
    <2>1. x \in gone
      BY <1>2, <1>13
    <2>2. exp[x] < now /\ w[x][i].t <= last[x]
      BY <2>1, <1>1, <1>2 DEF LastCovers
    <2>3. w[x] \in Seq(Entry)
      BY <1>1 DEF CountState
    <2>4. w[x][i] \in Entry
      BY <2>3
    <2>5. w[x][i].t \in Nat /\ exp[x] \in Nat /\ last[x] \in Nat
      BY <1>4, <2>4, ConstantsAssumption DEF Entry, Times
    <2> QED
      BY <2>2, <2>5, <1>4
  <1>14. Ordered' /\ Mirrored' /\ LastCovers' /\ Agreed'
    BY <1>8, <1>9, <1>10, <1>12 DEF Ordered, Mirrored, LastCovers, Agreed
  <1>15. CountInv'
    BY <1>3, <1>7, <1>14 DEF CountInv
  <1> QED
    BY <1>13, <1>15

\* What one backend alone still has of a dropped key is trimmed by a hit that does
\* not reach back to it.
LEMMA HalfTrimmed ==
    ASSUME CountState, NEW k \in Keys, Agrees(k), k \in swept \cup lapsed,
           NEW h \in Int, ~HitsHalf(k, h)
    PROVE  /\ \A i \in DOMAIN w[k] : w[k][i].t < h
           /\ \A x \in Members : redis[k][x] = 0 \/ redis[k][x] < h
  <1>1. w[k] \in Seq(Entry) /\ redis[k] \in [Members -> 0 .. MaxTime]
    BY DEF CountState
  <1>2. /\ \A x \in Members : redis[k][x] \in Nat
        /\ \A i \in DOMAIN w[k] : w[k][i].t \in Nat
    <2>1. \A i \in DOMAIN w[k] : w[k][i] \in Entry
      BY <1>1
    <2> QED
      BY <1>1, <2>1, ConstantsAssumption DEF Entry, Times
  <1>3. CASE k \in swept
    <2>1. w[k] = <<>>
      BY <1>3 DEF Agrees
    <2>2. k \in lapsed => \A x \in Members : redis[k][x] = 0
      BY DEF Agrees, Absent
    <2> QED
      BY <1>2, <1>3, <2>1, <2>2 DEF HitsHalf
  <1>4. CASE k \in lapsed
    <2>1. \A x \in Members : redis[k][x] = 0
      BY <1>4 DEF Agrees, Absent
    <2> QED
      BY <1>2, <1>4, <2>1 DEF HitsHalf
  <1> QED
    BY <1>3, <1>4

\* hit() keeps the invariant.
LEMMA HitStep ==
    ASSUME CountInv, NEW k \in Keys, NEW m \in Members, NEW now \in Times, Hit(k, m, now)
    PROVE  /\ CountInv'
           /\ \A x \in Keys :
                  \/ w'[x] = w[x] \/ x = ret'.key
                  \/ \A i \in DOMAIN w[x] : w[x][i].t + (exp[x] - last[x]) < ret'.now
  <1>1. SweepInv /\ CountState /\ Ordered /\ Mirrored /\ LastCovers /\ Agreed
    BY DEF CountInv
  <1>2. now \in Nat \ {0}
    BY ConstantsAssumption DEF Times
  <1>3. window[k] \in Nat \ {0} /\ last[k] \in Nat
    <2>1. window \in [Keys -> Windows] /\ last \in [Keys -> Nat]
      BY <1>1 DEF SweepInv, SweepState
    <2> QED
      BY <2>1, ConstantsAssumption
  <1>4. k \notin DistinctKeys /\ Mirror(w[k], live[k])
    BY <1>1 DEF Hit, Mirrored
  <1>5. PICK win \in Nat \ {0} : win = window[k]
    BY <1>3
  <1>6. PICK h \in Int : h = now - win /\ h < now
    BY <1>2
  <1>7. PICK s, mem : s = FrontTrim(w[k], now - win) /\ mem = Evict(live[k], w[k], now - win)
    OBVIOUS
  <1>8. PICK moved : moved = IF mem[m] = now THEN s
                             ELSE IF mem[m] # 0 THEN Refreshed(s, [t |-> now, m |-> m])
                             ELSE Inserted(s, [t |-> now, m |-> m])
    OBVIOUS
  <1>9. PICK s2, Z : s2 = FrontTrim(moved, now - win) /\ Z = ZHit(live[k], m, now, win)
    OBVIOUS
  <1>10. /\ Mirror(s2, Z) /\ Z[m] = now
         /\ Evict([mem EXCEPT ![m] = now], moved, now - win) = Z
    BY <1>4, <1>7, <1>8, <1>9, HitMirrors
  <1>11. PICK z : z = ZHit(redis[k], m, now, win)
    OBVIOUS
  <1>12. /\ Finish(k, now, s2, Z)
         /\ redis' = [redis EXCEPT ![k] = z]
         /\ ret' = [key |-> k, now |-> now, deque |-> Len(s2), redis |-> ZCard(z)]
         /\ window' = window
    BY <1>5, <1>7, <1>8, <1>9, <1>10, <1>11 DEF Hit
  <1>13. s2 \in Seq(Entry) /\ Z \in [Members -> 0 .. MaxTime] /\ InOrder(s2)
    BY <1>10 DEF Mirror
  <1>14. s2 # <<>>
    <2>1. \E i \in DOMAIN s2 : s2[i].m = m
      BY <1>2, <1>10 DEF Mirror
    <2> QED
      BY <2>1
  <1>15. /\ live[k] \in [Members -> 0 .. MaxTime] /\ redis[k] \in [Members -> 0 .. MaxTime]
         /\ \A x \in Members : live[k][x] \in Nat /\ redis[k][x] \in Nat
    <2>1. live[k] \in [Members -> 0 .. MaxTime] /\ redis[k] \in [Members -> 0 .. MaxTime]
      BY <1>1 DEF CountState
    <2> QED
      BY <2>1, ConstantsAssumption
  <1>16. \A y \in [Members -> 0 .. MaxTime] :
             /\ ZHit(y, m, now, win) \in [Members -> 0 .. MaxTime]
             /\ \A x \in Members :
                   ZHit(y, m, now, win)[x] = IF x = m THEN now
                                             ELSE IF y[x] < h THEN 0 ELSE y[x]
    <2> SUFFICES ASSUME NEW y \in [Members -> 0 .. MaxTime]
                 PROVE  /\ ZHit(y, m, now, win) \in [Members -> 0 .. MaxTime]
                        /\ \A x \in Members :
                              ZHit(y, m, now, win)[x] = IF x = m THEN now
                                                        ELSE IF y[x] < h THEN 0 ELSE y[x]
      OBVIOUS
    <2>1. PICK u : u = [y EXCEPT ![m] = now]
      OBVIOUS
    <2>2. DOMAIN u = Members /\ \A x \in Members : u[x] = IF x = m THEN now ELSE y[x]
      BY <2>1
    <2>3. ZHit(y, m, now, win) = [x \in Members |-> IF u[x] < h THEN 0 ELSE u[x]]
      BY <2>1, <2>2, <1>6 DEF ZHit, ZTrim
    <2>4. now \in 0 .. MaxTime /\ 0 \in 0 .. MaxTime /\ ~(now < h)
      BY <1>2, <1>6, ConstantsAssumption DEF Times
    <2>5. \A x \in Members : y[x] \in 0 .. MaxTime
      OBVIOUS
    <2> QED
      BY <2>2, <2>3, <2>4, <2>5
  <1>17. z \in [Members -> 0 .. MaxTime]
    BY <1>11, <1>15, <1>16
  <1>18. ASSUME NEW i \in DOMAIN s2 PROVE s2[i].t <= NewLast(k, now)
    <2>1. s2[i] \in Entry
      BY <1>13
    <2>2. PICK x \in Members : x = s2[i].m
      BY <2>1 DEF Entry
    <2>3. Z[x] = s2[i].t /\ s2[i].t \in Nat \ {0}
      BY <1>10, <2>1, <2>2, ConstantsAssumption DEF Mirror, Entry, Times
    <2>4. now <= NewLast(k, now) /\ last[k] <= NewLast(k, now) /\ NewLast(k, now) \in Nat
      BY <1>2, <1>3 DEF NewLast
    <2>5. Z[x] = now \/ Z[x] = live[k][x]
      BY <1>9, <1>15, <1>16, <2>3
    <2>6. CASE Z[x] = now
      BY <2>3, <2>4, <2>6
    <2>7. CASE Z[x] = live[k][x]
      <3>1. PICK j \in DOMAIN w[k] : w[k][j].m = x
        BY <1>4, <2>3, <2>7 DEF Mirror
      <3>2. w[k][j].t = live[k][x]
        BY <1>4, <3>1 DEF Mirror
      <3>3. w[k][j].t <= last[k]
        BY <1>1 DEF LastCovers
      <3> QED
        BY <2>3, <2>4, <2>7, <3>2, <3>3, <1>3
    <2> QED
      BY <2>5, <2>6, <2>7
  <1>19. ASSUME k \notin tardy' PROVE z = Z
    <2>1. k \notin tardy /\ ~HitsHalf(k, h)
      <3>1. tardy' = IF HitsHalf(k, now - window[k]) THEN tardy \cup {k} ELSE tardy
        BY <1>12 DEF Finish
      <3> QED
        BY <3>1, <1>19, <1>5, <1>6
    <2>2. Agrees(k)
      BY <1>1, <2>1 DEF Agreed
    <2>3. CASE k \notin swept \cup lapsed
      BY <2>2, <2>3, <1>4, <1>9, <1>11 DEF Agrees
    <2>4. CASE k \in swept \cup lapsed
      <3>1. /\ \A i \in DOMAIN w[k] : w[k][i].t < h
            /\ \A x \in Members : redis[k][x] = 0 \/ redis[k][x] < h
        BY <1>1, <2>1, <2>2, <2>4, HalfTrimmed
      <3>2. ASSUME NEW x \in Members PROVE live[k][x] = 0 \/ live[k][x] < h
        <4>1. CASE live[k][x] # 0
          <5>1. PICK i \in DOMAIN w[k] : w[k][i].m = x
            BY <4>1, <1>4 DEF Mirror
          <5>2. w[k][i].t = live[k][x]
            BY <5>1, <1>4 DEF Mirror
          <5> QED
            BY <5>2, <3>1
        <4> QED
          BY <4>1
      <3>5. \A x \in Members : z[x] = Z[x]
        <4> SUFFICES ASSUME NEW x \in Members, x # m PROVE z[x] = 0 /\ Z[x] = 0
          BY <1>9, <1>11, <1>15, <1>16
        <4>1. z[x] = IF redis[k][x] < h THEN 0 ELSE redis[k][x]
          BY <1>11, <1>15, <1>16
        <4>2. Z[x] = IF live[k][x] < h THEN 0 ELSE live[k][x]
          BY <1>9, <1>15, <1>16
        <4> QED
          BY <3>1, <3>2, <4>1, <4>2
      <3> QED
        BY <3>5, <1>13, <1>17
    <2> QED
      BY <2>3, <2>4
  <1>20. CountsAgree'
    <2>1. ZCard(Z) = Len(s2)
      BY <1>10, MirrorCounts
    <2>2. ret'.key = k /\ ret'.deque = Len(s2) /\ ret'.redis = ZCard(z)
      BY <1>12
    <2>3. k \notin tardy' => ret'.deque = ret'.redis
      BY <1>19, <2>1, <2>2
    <2> QED
      BY <2>2, <2>3 DEF CountsAgree
  <1>21. ret'.key = k /\ ret'.now = now
    BY <1>12
  <1>22. k \notin tardy' => IF k \in DistinctKeys THEN Newest(s2, z) ELSE z = Z
    BY <1>4, <1>19
  <1>23. k \notin DistinctKeys => Mirror(s2, Z)
    BY <1>10
  <1> QED
    BY <1>12, <1>13, <1>14, <1>17, <1>18, <1>20, <1>21, <1>22, <1>23, HitKeeps

\* hit_distinct() keeps the invariant.
LEMMA HitDistinctStep ==
    ASSUME CountInv, NEW k \in Keys, NEW v \in Members, NEW now \in Times,
           HitDistinct(k, v, now)
    PROVE  /\ CountInv'
           /\ \A x \in Keys :
                  \/ w'[x] = w[x] \/ x = ret'.key
                  \/ \A i \in DOMAIN w[x] : w[x][i].t + (exp[x] - last[x]) < ret'.now
  <1>1. SweepInv /\ CountState /\ Ordered /\ Mirrored /\ LastCovers /\ Agreed
    BY DEF CountInv
  <1>2. now \in Nat \ {0}
    BY ConstantsAssumption DEF Times
  <1>3. window[k] \in Nat \ {0} /\ last[k] \in Nat
    <2>1. window \in [Keys -> Windows] /\ last \in [Keys -> Nat]
      BY <1>1 DEF SweepInv, SweepState
    <2> QED
      BY <2>1, ConstantsAssumption
  <1>4. k \in DistinctKeys /\ w[k] \in Seq(Entry) /\ InOrder(w[k])
    BY <1>1 DEF HitDistinct, CountState, Ordered
  <1>5. PICK win \in Nat \ {0} : win = window[k]
    BY <1>3
  <1>6. PICK h \in Int : h = now - win /\ h < now
    BY <1>2
  <1>7. PICK e \in Entry : e = [t |-> now, m |-> v] /\ e.m = v /\ e.t = now
    <2>1. [t |-> now, m |-> v] \in Entry
      BY DEF Entry
    <2> QED
      BY <2>1
  <1>8. PICK q \in Seq(Entry) :
               /\ q = Inserted(w[k], e) /\ InOrder(q)
               /\ \A n \in DOMAIN q : q[n] = e \/ \E i \in DOMAIN w[k] : q[n] = w[k][i]
               /\ \A i \in DOMAIN w[k] : \E n \in DOMAIN q : q[n] = w[k][i]
               /\ \E n \in DOMAIN q : q[n] = e
    BY <1>4, InsertedIs
  <1>9. PICK d \in 0 .. Len(q) :
               /\ Stale(q, h) = d
               /\ FrontTrim(q, h) \in Seq(Entry) /\ Len(FrontTrim(q, h)) = Len(q) - d
               /\ \A n \in 1 .. Len(q) - d : FrontTrim(q, h)[n] = q[n + d]
               /\ \A i \in 1 .. d : q[i].t < h
               /\ \A i \in d + 1 .. Len(q) : q[i].t >= h
               /\ InOrder(FrontTrim(q, h))
    BY <1>8, FrontTrimIs
  <1>10. PICK s1 \in Seq(Entry) : s1 = FrontTrim(q, h) /\ InOrder(s1)
    BY <1>9
  <1>11. PICK s \in Seq(Entry) :
               /\ s = Compacted(s1) /\ InOrder(s)
               /\ \A n \in DOMAIN s : \E i \in DOMAIN s1 : s[n] = s1[i]
               /\ \A i \in DOMAIN s1 : (\A j \in DOMAIN s1 : j > i => s1[j].m # s1[i].m)
                                         => \E n \in DOMAIN s : s[n] = s1[i]
    BY <1>10, CompactedIs
  <1>12. PICK z : z = ZHitDistinct(redis[k], v, now, win)
    OBVIOUS
  <1>13. /\ Finish(k, now, s, Absent)
         /\ redis' = [redis EXCEPT ![k] = z]
         /\ ret' = [key |-> k, now |-> now, deque |-> Cardinality(Values(s1)), redis |-> ZCard(z)]
         /\ window' = window
    BY <1>5, <1>6, <1>7, <1>8, <1>10, <1>11, <1>12 DEF HitDistinct
  <1>14. DOMAIN q = 1 .. Len(q) /\ Len(q) \in Nat /\ DOMAIN s1 = 1 .. Len(q) - d /\ Len(s1) = Len(q) - d
    BY <1>8, <1>9, <1>10
  <1>15. \A n \in DOMAIN s1 : n + d \in DOMAIN q /\ s1[n] = q[n + d]
    BY <1>9, <1>10, <1>14
  <1>16. s # <<>>
    <2>1. PICK n \in DOMAIN q : q[n] = e
      BY <1>8
    <2>2. ~(q[n].t < h)
      BY <2>1, <1>2, <1>6, <1>7
    <2>3. n > d
      BY <2>2, <1>9, <1>14
    <2>4. Len(s1) \in DOMAIN s1
      BY <2>3, <1>14
    <2>5. \A j \in DOMAIN s1 : ~(j > Len(s1))
      BY <1>14
    <2>6. \E i \in DOMAIN s : s[i] = s1[Len(s1)]
      BY <2>4, <2>5, <1>11
    <2> QED
      BY <2>6
  <1>17. ASSUME NEW i \in DOMAIN s PROVE s[i].t <= NewLast(k, now)
    <2>1. PICK j \in DOMAIN s1 : s[i] = s1[j]
      BY <1>11
    <2>2. PICK n \in DOMAIN q : s[i] = q[n]
      BY <2>1, <1>15
    <2>3. now <= NewLast(k, now) /\ last[k] <= NewLast(k, now) /\ NewLast(k, now) \in Nat
      BY <1>2, <1>3 DEF NewLast
    <2>4. CASE q[n] = e
      BY <2>2, <2>3, <2>4, <1>7
    <2>5. ASSUME NEW x \in DOMAIN w[k], q[n] = w[k][x] PROVE s[i].t <= NewLast(k, now)
      <3>1. w[k][x].t <= last[k]
        BY <1>1 DEF LastCovers
      <3>2. w[k][x] \in Entry
        BY <1>4
      <3>3. w[k][x].t \in Nat
        BY <3>2, ConstantsAssumption, SMTT(30) DEF Entry, Times
      <3> QED
        BY <2>2, <2>3, <2>5, <3>1, <3>3, <1>3
    <2> QED
      BY <2>4, <2>5, <1>8
  <1>18. redis[k] \in [Members -> 0 .. MaxTime] /\ \A x \in Members : redis[k][x] \in Nat
    <2>1. redis[k] \in [Members -> 0 .. MaxTime]
      BY <1>1 DEF CountState
    <2> QED
      BY <2>1, ConstantsAssumption
  <1>19. /\ Absent \in [Members -> 0 .. MaxTime]
         /\ \A x \in Members : Absent[x] = 0
    BY ConstantsAssumption DEF Absent
  <1> DEFINE Up(y) == [y EXCEPT ![v] = IF now > y[v] THEN now ELSE y[v]]
  <1>20. \A y : ZHitDistinct(y, v, now, win) = ZTrim(Up(y), h)
    BY <1>6 DEF ZHitDistinct
  <1>21. \A y \in [Members -> 0 .. MaxTime] :
             /\ Up(y) \in [Members -> 0 .. MaxTime]
             /\ \A x \in Members : Up(y)[x] = IF x = v /\ now > y[v] THEN now ELSE y[x]
    <2> SUFFICES ASSUME NEW y \in [Members -> 0 .. MaxTime]
                 PROVE  /\ Up(y) \in [Members -> 0 .. MaxTime]
                        /\ \A x \in Members : Up(y)[x] = IF x = v /\ now > y[v] THEN now ELSE y[x]
      OBVIOUS
    <2>1. (IF now > y[v] THEN now ELSE y[v]) \in 0 .. MaxTime
      BY <1>2, ConstantsAssumption DEF Times
    <2> QED
      BY <2>1
  <1> HIDE DEF Up
  <1>22. \A y \in [Members -> 0 .. MaxTime] :
             /\ ZTrim(Up(y), h) \in [Members -> 0 .. MaxTime]
             /\ \A x \in Members : ZTrim(Up(y), h)[x] = IF Up(y)[x] < h THEN 0 ELSE Up(y)[x]
    <2> SUFFICES ASSUME NEW y \in [Members -> 0 .. MaxTime]
                 PROVE  /\ ZTrim(Up(y), h) \in [Members -> 0 .. MaxTime]
                        /\ \A x \in Members :
                              ZTrim(Up(y), h)[x] = IF Up(y)[x] < h THEN 0 ELSE Up(y)[x]
      OBVIOUS
    <2>1. PICK u \in [Members -> 0 .. MaxTime] : u = Up(y)
      BY <1>21
    <2>2. 0 \in 0 .. MaxTime
      BY ConstantsAssumption
    <2> QED
      BY <2>1, <2>2 DEF ZTrim
  <1>23. z \in [Members -> 0 .. MaxTime]
    BY <1>12, <1>18, <1>20, <1>22
  <1>24. ASSUME k \notin tardy' PROVE Newest(s1, z)
    <2>1. k \notin tardy /\ ~HitsHalf(k, h)
      <3>1. tardy' = IF HitsHalf(k, now - window[k]) THEN tardy \cup {k} ELSE tardy
        BY <1>13 DEF Finish
      <3> QED
        BY <3>1, <1>24, <1>5, <1>6
    <2>2. Agrees(k)
      BY <1>1, <2>1 DEF Agreed
    <2>3. CASE k \notin swept \cup lapsed
      <3>1. Newest(w[k], redis[k])
        BY <2>2, <2>3, <1>4 DEF Agrees
      <3>2. Newest(q, Up(redis[k]))
        BY <3>1, <1>7, <1>8, InsertNewest DEF Up
      <3>3. Newest(s1, ZTrim(Up(redis[k]), h))
        BY <3>2, <1>10, TrimNewest
      <3> QED
        BY <3>3, <1>12, <1>20
    <2>4. CASE k \in swept \cup lapsed
      <3>1. /\ \A i \in DOMAIN w[k] : w[k][i].t < h
            /\ \A x \in Members : redis[k][x] = 0 \/ redis[k][x] < h
        BY <1>1, <2>1, <2>2, <2>4, HalfTrimmed
      <3>2. ASSUME NEW n \in DOMAIN s1 PROVE s1[n] = e
        <4>1. n + d \in DOMAIN q /\ s1[n] = q[n + d] /\ n + d \in d + 1 .. Len(q)
          BY <1>14, <1>15
        <4>2. q[n + d].t >= h
          BY <4>1, <1>9
        <4>3. ASSUME NEW i \in DOMAIN w[k], q[n + d] = w[k][i] PROVE FALSE
          <5>1. w[k][i] \in Entry
            BY <1>4
          <5>2. w[k][i].t \in Nat
            BY <5>1, ConstantsAssumption, SMTT(30) DEF Entry, Times
          <5>3. w[k][i].t < h /\ w[k][i].t >= h
            BY <4>2, <4>3, <3>1
          <5> QED
            BY <5>2, <5>3
        <4> QED
          BY <4>1, <4>3, <1>8
      <3>3. \E n \in DOMAIN s1 : s1[n] = e
        <4>1. PICK n \in DOMAIN s : n = 1
          <5>1. s \in Seq(Entry) /\ Len(s) # 0
            BY <1>11, <1>16
          <5> QED
            BY <5>1
        <4>2. PICK i \in DOMAIN s1 : s[n] = s1[i]
          BY <1>11
        <4> QED
          BY <4>2, <3>2
      <3>4. ASSUME NEW x \in Members PROVE z[x] = IF x = v THEN now ELSE 0
        <4>1. z[x] = IF Up(redis[k])[x] < h THEN 0 ELSE Up(redis[k])[x]
          BY <1>12, <1>18, <1>20, <1>22
        <4>2. Up(redis[k])[x] = IF x = v /\ now > redis[k][v] THEN now ELSE redis[k][x]
          BY <1>18, <1>21
        <4>3. now > redis[k][v]
          BY <3>1, <1>2, <1>6, <1>18
        <4>4. redis[k][x] = 0 \/ redis[k][x] < h
          BY <3>1
        <4>5. ~(now < h) /\ (0 < h \/ ~(0 < h))
          BY <1>2, <1>6
        <4> QED
          BY <4>1, <4>2, <4>3, <4>4, <4>5
      <3> QED
        BY <3>2, <3>3, <3>4, <1>2, <1>7, <1>10, <1>23 DEF Newest
    <2> QED
      BY <2>3, <2>4
  <1>25. CountsAgree'
    <2>1. k \notin tardy' => ZCard(z) = Cardinality(Values(s1))
      BY <1>24, NewestCounts
    <2>2. ret'.key = k /\ ret'.deque = Cardinality(Values(s1)) /\ ret'.redis = ZCard(z)
      BY <1>13
    <2> QED
      BY <2>1, <2>2 DEF CountsAgree
  <1>26. ret'.key = k /\ ret'.now = now
    BY <1>13
  <1>27. k \notin tardy' => IF k \in DistinctKeys THEN Newest(s, z) ELSE z = Absent
    BY <1>4, <1>11, <1>24, CompactNewest
  <1>28. k \notin DistinctKeys => Mirror(s, Absent)
    BY <1>4
  <1>29. InOrder(s)
    BY <1>11
  <1> QED
    BY <1>13, <1>16, <1>17, <1>19, <1>23, <1>25, <1>26, <1>27, <1>28, <1>29, HitKeeps

LEMMA CountInit == Init => CountInv
  <1> SUFFICES ASSUME Init PROVE CountInv
    OBVIOUS
  <1> USE ConstantsAssumption
  <1>1. SweepInv
    BY DEF Init, SweepInv, SweepState, HeapCovers
  <1>2. Absent \in [Members -> 0 .. MaxTime] /\ \A m \in Members : Absent[m] = 0
    BY DEF Absent
  <1>3. \A k \in Keys : /\ w[k] = <<>> /\ live[k] = Absent /\ redis[k] = Absent
                        /\ last[k] = 0
    BY DEF Init
  <1>4. <<>> \in Seq(Entry)
    OBVIOUS
  <1>5. CountState
    BY <1>2, <1>4 DEF Init, CountState
  <1>6. Mirror(<<>>, Absent)
    BY <1>2, <1>4 DEF Mirror, InOrder
  <1>7. Ordered /\ Mirrored /\ LastCovers
    BY <1>3, <1>6 DEF Ordered, Mirrored, LastCovers, InOrder
  <1>8. Agreed
    <2>1. swept = {} /\ lapsed = {}
      BY DEF Init
    <2>2. Newest(<<>>, Absent)
      BY <1>2, <1>4 DEF Newest, InOrder
    <2> QED
      BY <1>3, <2>1, <2>2 DEF Agreed, Agrees
  <1>9. CountsAgree
    BY DEF Init, CountsAgree
  <1> QED
    BY <1>1, <1>5, <1>7, <1>8, <1>9 DEF CountInv

\* Every step keeps the invariant and sweeps only idle keys.
LEMMA NextCounts ==
    ASSUME CountInv, [Next]_vars
    PROVE  /\ CountInv'
           /\ [\A k \in Keys :
                  \/ w'[k] = w[k] \/ k = ret'.key
                  \/ \A i \in DOMAIN w[k] : w[k][i].t + (exp[k] - last[k]) < ret'.now]_w
  <1>1. ASSUME NEW k \in Keys, NEW m \in Members, NEW now \in Times,
               Hit(k, m, now) \/ HitDistinct(k, m, now)
        PROVE  /\ CountInv'
               /\ \A x \in Keys :
                      \/ w'[x] = w[x] \/ x = ret'.key
                      \/ \A i \in DOMAIN w[x] : w[x][i].t + (exp[x] - last[x]) < ret'.now
    BY <1>1, HitStep, HitDistinctStep
  <1>2. ASSUME UNCHANGED <<w, live, redis, last, swept, lapsed, tardy, ret>>, SweepInv'
        PROVE  CountInv' /\ w' = w
    <2>1. CountState' /\ Ordered' /\ Mirrored' /\ LastCovers'
      BY <1>2 DEF CountInv, CountState, Ordered, Mirrored, LastCovers
    <2>2. Agreed'
      BY <1>2 DEF CountInv, Agreed, Agrees
    <2>3. CountsAgree'
      BY <1>2 DEF CountInv, CountsAgree
    <2> QED
      BY <1>2, <2>1, <2>2, <2>3 DEF CountInv
  <1>3. SweepInv'
    BY NextSweeps DEF CountInv
  <1>4. ASSUME NEW k \in Keys, NEW win \in Windows, Reload(k, win)
        PROVE  CountInv' /\ w' = w
    BY <1>2, <1>3, <1>4 DEF Reload
  <1>5. CASE UNCHANGED vars
    BY <1>2, <1>3, <1>5 DEF vars
  <1>6. ASSUME NEW k \in Keys, Expire(k)
        PROVE  CountInv' /\ w' = w
    <2>1. /\ redis' = [redis EXCEPT ![k] = Absent] /\ lapsed' = lapsed \cup {k}
          /\ UNCHANGED <<w, live, last, swept, tardy, ret>>
      BY <1>6 DEF Expire
    <2>2. redis \in [Keys -> [Members -> 0 .. MaxTime]] /\ Absent \in [Members -> 0 .. MaxTime]
      BY ConstantsAssumption DEF CountInv, CountState, Absent
    <2>3. CountState' /\ Ordered' /\ Mirrored' /\ LastCovers'
      BY <2>1, <2>2 DEF CountInv, CountState, Ordered, Mirrored, LastCovers
    <2>4. ASSUME NEW x \in Keys \ tardy' PROVE Agrees(x)'
      <3>1. Agrees(x)
        BY <2>1 DEF CountInv, Agreed
      <3>2. redis'[x] = IF x = k THEN Absent ELSE redis[x]
        BY <2>1, <2>2
      <3> QED
        BY <2>1, <3>1, <3>2 DEF Agrees
    <2>5. CountsAgree' /\ Agreed'
      BY <2>1, <2>4 DEF CountInv, CountsAgree, Agreed
    <2> QED
      BY <1>3, <2>1, <2>3, <2>5 DEF CountInv
  <1> QED
    BY <1>1, <1>4, <1>5, <1>6 DEF Next

\* The whole invariant: the deques are sorted and mirrored, and each agrees with
\* its sorted set unless a hit reached back to what one of the two had dropped.
THEOREM CountInvariant == Spec => []CountInv
  <1>1. CountInv /\ [Next]_vars => CountInv'
    BY NextCounts
  <1> QED
    BY CountInit, <1>1, PTL DEF Spec

\* The in-process counter answers every hit and hit_distinct as the Redis one
\* does, whatever the order of the events, the redeliveries, re-stampings,
\* compactions, reloads, sweeps and expiries, but for a hit inside the window of
\* entries that a sweep or the key's EXPIRE has dropped from one of them.
THEOREM BackendsAgree == Spec => []CountsAgree
  <1>1. CountInv => CountsAgree
    BY DEF CountInv
  <1> QED
    BY CountInvariant, <1>1, PTL

\* hit()'s deque stays sorted with one entry per member, and _live_members is
\* exactly its mirror.
THEOREM MirrorStaysExact == Spec => []MirrorExact
  <1>1. ASSUME CountInv PROVE MirrorExact
    <2> SUFFICES ASSUME NEW k \in Keys
                 PROVE  /\ \A i, j \in DOMAIN w[k] : i < j => w[k][i].t <= w[k][j].t
                        /\ k \notin DistinctKeys =>
                               \A m \in Members :
                                   {w[k][i].t : i \in {j \in DOMAIN w[k] : w[k][j].m = m}}
                                       = IF live[k][m] = 0 THEN {} ELSE {live[k][m]}
                        /\ k \notin DistinctKeys => Cardinality(Values(w[k])) = Len(w[k])
      BY DEF MirrorExact
    <2>1. \A i, j \in DOMAIN w[k] : i < j => w[k][i].t <= w[k][j].t
      BY <1>1 DEF CountInv, Ordered, InOrder
    <2>2. ASSUME k \notin DistinctKeys, NEW m \in Members
          PROVE  {w[k][i].t : i \in {j \in DOMAIN w[k] : w[k][j].m = m}}
                     = IF live[k][m] = 0 THEN {} ELSE {live[k][m]}
      <3>1. Mirror(w[k], live[k])
        BY <1>1, <2>2 DEF CountInv, Mirrored
      <3>2. \A i \in DOMAIN w[k] : w[k][i].m = m => w[k][i].t = live[k][m]
        BY <3>1 DEF Mirror
      <3>3. \A i \in DOMAIN w[k] : w[k][i].t # 0
        <4>1. \A i \in DOMAIN w[k] : w[k][i] \in Entry
          BY <3>1 DEF Mirror
        <4> QED
          BY <4>1, ConstantsAssumption DEF Entry, Times
      <3>4. CASE live[k][m] = 0
        BY <3>2, <3>3, <3>4
      <3>5. CASE live[k][m] # 0
        <4>1. PICK i \in DOMAIN w[k] : w[k][i].m = m
          BY <3>1, <3>5 DEF Mirror
        <4> QED
          BY <3>2, <3>5, <4>1
      <3> QED
        BY <3>4, <3>5
    <2>3. ASSUME k \notin DistinctKeys PROVE Cardinality(Values(w[k])) = Len(w[k])
      BY <1>1, <2>3, MirrorCounts DEF CountInv, Mirrored
    <2> QED
      BY <2>1, <2>2, <2>3
  <1> QED
    BY CountInvariant, <1>1, PTL

\* A sweep drops only keys all of whose entries lie before their own window.
THEOREM SweepsOnlyIdle == Spec => SweepKeepsLive
  <1>1. CountInv /\ [Next]_vars
          => [\A k \in Keys :
                  \/ w'[k] = w[k] \/ k = ret'.key
                  \/ \A i \in DOMAIN w[k] : w[k][i].t + (exp[k] - last[k]) < ret'.now]_w
    BY NextCounts
  <1> QED
    BY CountInvariant, <1>1, PTL DEF Spec, SweepKeepsLive

-----------------------------------------------------------------------------
(* The in-memory bus: places in the pending list, and its cap.             *)

LEMMA MemCardinality == \A S : Mem!Cardinality(S) = Cardinality(S)
  BY DEF Mem!Cardinality, Cardinality, Mem!IsFiniteSet, IsFiniteSet

\* f ranks the elements of S by their keys, which are distinct.
Ranked(S, key, B, f) ==
    /\ key \in [S -> Nat] /\ \A x, y \in S : key[x] = key[y] => x = y
    /\ B \in [S -> SUBSET S] /\ \A x, y \in S : y \in B[x] <=> key[y] <= key[x]
    /\ f = [x \in S |-> Cardinality(B[x])]

\* Distinct keys number a finite set by rank.
LEMMA KeysNumber ==
    ASSUME NEW S, IsFiniteSet(S), NEW key, NEW B, NEW f, Ranked(S, key, B, f)
    PROVE  /\ f \in [S -> 1 .. Cardinality(S)]
           /\ \A x, y \in S : f[x] = f[y] => x = y
           /\ \A n \in 1 .. Cardinality(S) : \E x \in S : f[x] = n
  <1>0. /\ key \in [S -> Nat] /\ \A x, y \in S : key[x] = key[y] => x = y
        /\ B \in [S -> SUBSET S] /\ \A x, y \in S : y \in B[x] <=> key[y] <= key[x]
        /\ f = [x \in S |-> Cardinality(B[x])]
    BY DEF Ranked
  <1>1. \A x \in S : x \in B[x]
    BY <1>0
  <1>2. ASSUME NEW x \in S, NEW y \in S, key[x] < key[y] PROVE B[x] \subseteq B[y] /\ y \notin B[x]
    BY <1>0, <1>2
  <1>3. \A x, y \in S : x # y => key[x] < key[y] \/ key[y] < key[x]
    BY <1>0
  <1>4. \A x, y \in S : x # y => \/ B[x] \subseteq B[y] /\ y \notin B[x]
                                 \/ B[y] \subseteq B[x] /\ x \notin B[y]
    BY <1>2, <1>3
  <1>5. QED
    BY <1>0, <1>1, <1>4, RanksNumber

\* The greatest of a finite set of numbers.
LEMMA MaxIs ==
    ASSUME NEW S \in SUBSET Nat, IsFiniteSet(S), S # {}
    PROVE  Max(S) \in S /\ \A y \in S : y <= Max(S)
  <1>1. PICK key : key = [x \in S |-> x]
    OBVIOUS
  <1>2b. PICK B : B = [x \in S |-> {y \in S : key[y] <= key[x]}]
    OBVIOUS
  <1>2. PICK f : f = [x \in S |-> Cardinality(B[x])]
    OBVIOUS
  <1>2c. B \in [S -> SUBSET S] /\ \A x, y \in S : y \in B[x] <=> key[y] <= key[x]
    BY <1>2b
  <1>3. key \in [S -> Nat] /\ \A x, y \in S : key[x] = key[y] => x = y
    BY <1>1
  <1>5. \A n \in 1 .. Cardinality(S) : \E x \in S : f[x] = n
    <2>1. Ranked(S, key, B, f)
      BY <1>2, <1>2c, <1>3 DEF Ranked
    <2>2. QED
      BY <2>1, KeysNumber
  <1>6. Cardinality(S) \in 1 .. Cardinality(S)
    <2>1. Cardinality(S) \in Nat /\ Cardinality(S) # 0
      BY FS_CardinalityType, FS_EmptySet
    <2>2. QED
      BY <2>1
  <1>7. PICK x \in S : f[x] = Cardinality(S)
    BY <1>5, <1>6
  <1>8. B[x] \subseteq S /\ Cardinality(B[x]) = Cardinality(S)
    BY <1>2, <1>2c, <1>7
  <1>9. B[x] = S
    BY <1>8, FS_Subset
  <1>10. \A y \in S : x >= y
    BY <1>1, <1>2c, <1>9
  <1>11. PICK m : m = Max(S)
    OBVIOUS
  <1>12. m \in S /\ \A y \in S : m >= y
    BY <1>10, <1>11 DEF Max
  <1>13. QED
    BY <1>11, <1>12

\* Pending entries of ids of H, every id and every place once.
PelGood(p, H) ==
    /\ p \subseteq [id : H, at : Nat] /\ IsFiniteSet(p)
    /\ \A x, y \in p : x.id = y.id \/ x.at = y.at => x = y

IdsIn(p) == {x.id : x \in p}

\* The places of a batch, in the order of its ids.
LEMMA PlacesIs ==
    ASSUME NEW mine \in SUBSET Nat, IsFiniteSet(mine)
    PROVE  /\ \A i \in mine : Cardinality({k \in mine : k <= i}) \in Nat \ {0}
           /\ \A i, j \in mine : Cardinality({k \in mine : k <= i}) = Cardinality({k \in mine : k <= j}) => i = j
  <1>1. PICK key : key = [x \in mine |-> x]
    OBVIOUS
  <1>2b. PICK B : B = [x \in mine |-> {k \in mine : key[k] <= key[x]}]
    OBVIOUS
  <1>2. PICK f : f = [x \in mine |-> Cardinality(B[x])]
    OBVIOUS
  <1>2c. B \in [mine -> SUBSET mine] /\ \A x, y \in mine : y \in B[x] <=> key[y] <= key[x]
    BY <1>2b
  <1>3. key \in [mine -> Nat] /\ \A x, y \in mine : key[x] = key[y] => x = y
    BY <1>1
  <1>5. f \in [mine -> 1 .. Cardinality(mine)] /\ \A i, j \in mine : f[i] = f[j] => i = j
    <2>1. Ranked(mine, key, B, f)
      BY <1>2, <1>2c, <1>3 DEF Ranked
    <2>2. QED
      BY <2>1, KeysNumber
  <1>6. ASSUME NEW i \in mine PROVE f[i] = Cardinality({k \in mine : k <= i})
    <2>1. B[i] = {k \in mine : k <= i}
      BY <1>1, <1>2b
    <2>2. QED
      BY <1>2, <2>1
  <1>7. \A i \in mine : f[i] \in Nat \ {0}
    <2>1. Cardinality(mine) \in Nat
      BY FS_CardinalityType
    <2>2. QED
      BY <1>5, <2>1
  <1>8. QED
    BY <1>5, <1>6, <1>7

\* consume(): the batch enters behind what is there.
LEMMA FilledIs ==
    ASSUME NEW H \in SUBSET Nat, NEW p, PelGood(p, H), NEW mine \in SUBSET H, IsFiniteSet(mine), mine \cap IdsIn(p) = {},
           NEW q, q = Mem!Filled(p, mine)
    PROVE  PelGood(q, H) /\ p = {x \in q : x.id \notin mine} /\ IdsIn(q) = IdsIn(p) \cup mine
  <1>1. PICK A : A = {0} \cup {x.at : x \in p}
    OBVIOUS
  <1>2. A \in SUBSET Nat /\ IsFiniteSet(A) /\ A # {}
    <2>1. \A x \in p : x.at \in Nat
      BY DEF PelGood
    <2>2. PICK h : h = [x \in p |-> x.at]
      OBVIOUS
    <2>3. PICK R : R = {x.at : x \in p}
      OBVIOUS
    <2>4. h \in Surjection(p, R)
      BY <2>2, <2>3 DEF Surjection
    <2>5. IsFiniteSet(R)
      BY <2>4, FS_Surjection DEF PelGood
    <2>6. IsFiniteSet(R \cup {0})
      BY <2>5, FS_AddElement
    <2>7. A = R \cup {0}
      BY <1>1, <2>3
    <2>8. A \subseteq Nat
      BY <2>1, <2>3, <2>7
    <2>9. QED
      BY <2>6, <2>7, <2>8
  <1>3. PICK top \in Nat : top = Max(A) /\ \A x \in p : x.at <= top
    <2>1. Max(A) \in A /\ \A y \in A : y <= Max(A)
      BY <1>2, MaxIs
    <2>2. QED
      BY <1>1, <1>2, <2>1
  <1>4. PICK rank : rank = [i \in mine |-> Cardinality({k \in mine : k <= i})]
    OBVIOUS
  <1>5. rank \in [mine -> Nat \ {0}] /\ \A i, j \in mine : rank[i] = rank[j] => i = j
    BY <1>4, PlacesIs
  <1>6. PICK new : new = {[id |-> i, at |-> top + rank[i]] : i \in mine}
    OBVIOUS
  <1>7. q = p \cup new
    <2>1. Mem!Max(A) = top
      BY <1>3 DEF Mem!Max, Max
    <2>2. q = p \cup {[id |-> i, at |-> top + Cardinality({k \in mine : k <= i})] : i \in mine}
      BY <1>1, <2>1, MemCardinality DEF Mem!Filled
    <2>3. \A i \in mine : rank[i] = Cardinality({k \in mine : k <= i})
      BY <1>4
    <2>4. QED
      BY <1>6, <2>2, <2>3
  <1>8. /\ new \subseteq [id : H, at : Nat]
        /\ \A x \in new : x.id \in mine /\ x.at = top + rank[x.id]
    BY <1>5, <1>6
  <1>9. ASSUME NEW i \in mine PROVE \E x \in new : x.id = i
    <2>1. PICK x : x = [id |-> i, at |-> top + rank[i]]
      OBVIOUS
    <2>2. QED
      BY <1>6, <2>1
  <1>10. IsFiniteSet(new)
    <2>1. PICK h : h = [i \in mine |-> [id |-> i, at |-> top + rank[i]]]
      OBVIOUS
    <2>2. h \in Surjection(mine, new)
      BY <1>6, <2>1 DEF Surjection
    <2>3. QED
      BY <2>2, FS_Surjection
  <1>11. IsFiniteSet(q)
    <2>1. IsFiniteSet(p)
      BY DEF PelGood
    <2>2. IsFiniteSet(p \cup new)
      BY <1>10, <2>1, FS_Union
    <2>3. QED
      BY <1>7, <2>2
  <1>12. \A x, y \in new : x.id = y.id \/ x.at = y.at => x = y
    <2>1. ASSUME NEW x \in new, NEW y \in new, x.id = y.id \/ x.at = y.at PROVE x = y
      <3>1. x.id \in mine /\ y.id \in mine /\ x.at = top + rank[x.id] /\ y.at = top + rank[y.id]
        BY <1>8
      <3>2. rank[x.id] \in Nat /\ rank[y.id] \in Nat
        BY <1>5, <3>1
      <3>3. x.at = y.at => rank[x.id] = rank[y.id]
        BY <3>1, <3>2
      <3>4. x.id = y.id
        BY <1>5, <2>1, <3>1, <3>3
      <3>5. x = [id |-> x.id, at |-> x.at] /\ y = [id |-> y.id, at |-> y.at]
        BY <1>8
      <3>6. QED
        BY <3>1, <3>4, <3>5
    <2>2. QED
      BY <2>1
  <1>13. \A x \in p, y \in new : x.id # y.id /\ x.at # y.at
    <2>1. ASSUME NEW x \in p, NEW y \in new PROVE x.id # y.id /\ x.at # y.at
      <3>1. x.id # y.id
        BY <1>8 DEF IdsIn
      <3>2. x.at \in Nat /\ x.at <= top
        BY <1>3 DEF PelGood
      <3>3. PICK n \in Nat \ {0} : n = rank[y.id] /\ y.at = top + n
        BY <1>5, <1>8
      <3>4. QED
        BY <3>1, <3>2, <3>3
    <2>2. QED
      BY <2>1
  <1>14. PelGood(q, H)
    BY <1>7, <1>8, <1>11, <1>12, <1>13 DEF PelGood
  <1>15. p = {x \in q : x.id \notin mine}
    BY <1>7, <1>8 DEF IdsIn
  <1>16. IdsIn(q) = IdsIn(p) \cup mine
    BY <1>7, <1>8, <1>9 DEF IdsIn
  <1>17. QED
    BY <1>14, <1>15, <1>16

\* Entries at distinct places, and the first n of them.
Placed(p) == IsFiniteSet(p) /\ \A x \in p : x.at \in Nat /\ \A y \in p : x.at = y.at => x = y
Front(p, n) == {x \in p : Cardinality({y \in p : y.at <= x.at}) <= n}

\* Taking the first n of a list of distinct places takes n of them, or all.
LEMMA FrontIs ==
    ASSUME NEW p, Placed(p), NEW n \in Nat
    PROVE  Front(p, n) = p \/ n <= Cardinality(Front(p, n))
  <1>1. PICK gone : gone = Front(p, n)
    OBVIOUS
  <1>2. IsFiniteSet(p) /\ \A x \in p : x.at \in Nat /\ \A y \in p : x.at = y.at => x = y
    BY DEF Placed
  <1>3. gone = {x \in p : Cardinality({y \in p : y.at <= x.at}) <= n}
    BY <1>1 DEF Front
  <1>5. IsFiniteSet(gone)
    BY <1>2, <1>3, FS_Subset
  <1>9. PICK key : key = [x \in p |-> x.at]
    OBVIOUS
  <1>10b. PICK B : B = [x \in p |-> {y \in p : key[y] <= key[x]}]
    OBVIOUS
  <1>10. PICK f : f = [x \in p |-> Cardinality(B[x])]
    OBVIOUS
  <1>10c. B \in [p -> SUBSET p] /\ \A x, y \in p : y \in B[x] <=> key[y] <= key[x]
    BY <1>10b
  <1>12. key \in [p -> Nat] /\ \A x, y \in p : key[x] = key[y] => x = y
    BY <1>2, <1>9
  <1>14. /\ f \in [p -> 1 .. Cardinality(p)]
         /\ \A k \in 1 .. Cardinality(p) : \E x \in p : f[x] = k
    <2>1. Ranked(p, key, B, f)
      BY <1>2, <1>10, <1>10c, <1>12 DEF Ranked
    <2>2. IsFiniteSet(p)
      BY <1>2
    <2>3. QED
      BY <2>1, <2>2, KeysNumber
  <1>15. \A x \in p : x \in gone <=> f[x] <= n
    <2>1. ASSUME NEW x \in p PROVE f[x] = Cardinality({y \in p : y.at <= x.at})
      <3>1. B[x] = {y \in p : y.at <= x.at}
        BY <1>9, <1>10b
      <3>2. QED
        BY <1>10, <3>1
    <2>2. QED
      BY <1>3, <2>1
  <1>16. PICK d \in Nat : d = Cardinality(p)
    BY <1>2, FS_CardinalityType
  <1>17. CASE d <= n
    <2>1. \A x \in p : f[x] <= n
      BY <1>14, <1>16, <1>17
    <2>2. gone = p
      BY <1>3, <1>15, <2>1
    <2>3. QED
      BY <1>1, <2>2
  <1>18. CASE n < d
    <2>1. PICK h : h = [x \in gone |-> f[x]]
      OBVIOUS
    <2>2. h \in Surjection(gone, 1 .. n)
      <3>1. \A x \in gone : f[x] \in 1 .. n
        <4>1. gone \subseteq p
          BY <1>3
        <4>2. QED
          BY <1>14, <1>15, <1>16, <4>1
      <3>2. \A k \in 1 .. n : \E x \in gone : f[x] = k
        <4>1. ASSUME NEW k \in 1 .. n PROVE \E x \in gone : f[x] = k
          <5>1. k \in 1 .. Cardinality(p)
            BY <1>16, <1>18
          <5>2. PICK x \in p : f[x] = k
            BY <1>14, <5>1
          <5>3. x \in gone
            BY <1>15, <5>2
          <5>4. QED
            BY <5>2, <5>3
        <4>2. QED
          BY <4>1
      <3>3. QED
        BY <2>1, <3>1, <3>2 DEF Surjection
    <2>3. Cardinality(1 .. n) = n
      BY FS_Interval
    <2>4. n <= Cardinality(gone)
      BY <1>5, <2>2, <2>3, FS_Surjection
    <2>5. QED
      BY <1>1, <2>4
  <1>19. QED
    BY <1>16, <1>17, <1>18

\* The cap: what is left is within it, or is the batch alone.
LEMMA EvictIs ==
    ASSUME NEW H, NEW q, PelGood(q, H), NEW mine, NEW p, p = {x \in q : x.id \notin mine},
           NEW gone, gone = Mem!Evictees(q, mine)
    PROVE  gone \subseteq p /\ (Cardinality(q \ gone) > PelCap => gone = p)
  <1>1. PICK n : n = Mem!EvictCount(q)
    OBVIOUS
  <1>2. gone = {x \in p : Cardinality({y \in p : y.at <= x.at}) <= n}
    BY <1>1, MemCardinality DEF Mem!Evictees
  <1>3. PICK c \in Nat : c = Cardinality(q) /\ IsFiniteSet(q)
    BY FS_CardinalityType DEF PelGood
  <1>4. n \in Nat /\ (c > PelCap => n = c - PelCap) /\ PelCap \in Nat
    BY <1>1, <1>3, MemoryTopicAssumption, MemCardinality DEF Mem!EvictCount
  <1>5. IsFiniteSet(p) /\ IsFiniteSet(gone) /\ gone \subseteq q
    BY <1>2, <1>3, FS_Subset
  <1>6. Cardinality(q \ gone) = c - Cardinality(gone) /\ Cardinality(gone) \in Nat /\ Cardinality(gone) <= c
    <2>1. q \cap gone = gone
      BY <1>5
    <2>2. Cardinality(q \ gone) = Cardinality(q) - Cardinality(q \cap gone)
      BY <1>3, FS_Difference
    <2>3. QED
      BY <1>3, <1>5, <2>1, <2>2, FS_Subset, FS_CardinalityType
  <1>7. \A x \in p : x.at \in Nat /\ \A y \in p : x.at = y.at => x = y
    BY DEF PelGood
  <1>8. gone = p \/ n <= Cardinality(gone)
    <2>1. Placed(p)
      BY <1>5, <1>7 DEF Placed
    <2>2. gone = Front(p, n)
      BY <1>2 DEF Front
    <2>3. QED
      BY <1>4, <2>1, <2>2, FrontIs
  <1>9. QED
    BY <1>2, <1>4, <1>6, <1>8

-----------------------------------------------------------------------------
(* The bus as MemoryBus has it, in MemoryTopic's terms.                    *)

\* How much of the stream group g has read, trimmed entries included.
Pos(g) == (seq - Len(queue)) + Cursor(g)

\* What is left of the stream is its newest entries, and the cursors point into it.
StreamOK ==
    /\ seq \in Nat /\ seq <= MaxMsgs
    /\ queue \in Seq(Nat) /\ Len(queue) <= seq
    /\ \A k \in 1 .. Len(queue) : queue[k] = (seq - Len(queue)) + k
    /\ DOMAIN cursors \subseteq Groups
    /\ \A g \in DOMAIN cursors : cursors[g] \in 1 .. Len(queue)

ShapeOK ==
    /\ DOMAIN pel = Groups /\ DOMAIN evicted = Groups /\ DOMAIN handed = Groups
    /\ DOMAIN outcome = Groups /\ DOMAIN batchOf = Groups
    /\ DOMAIN pc = Threads /\ DOMAIN batch = Threads /\ DOMAIN acks = Threads

OneBatch(g, S) == \A i, k \in S : batchOf[g][i] = batchOf[g][k]

GroupOK(g) ==
    /\ handed[g] \subseteq 1 .. Pos(g)
    /\ PelGood(pel[g], handed[g])
    /\ outcome[g] \subseteq handed[g] /\ evicted[g] \subseteq handed[g]
    /\ Cardinality(pel[g]) > PelCap => OneBatch(g, PelIds(g))

\* Nothing between the two locks is pending yet, and it is of one call.
ThreadOK(t) ==
    /\ BatchIds(t) \subseteq handed[GroupOf[t]]
    /\ acks[t] \subseteq outcome[GroupOf[t]]
    /\ pc[t] = "claimed" => /\ BatchIds(t) \cap PelIds(GroupOf[t]) = {}
                            /\ OneBatch(GroupOf[t], BatchIds(t))

\* No two threads have one entry between the locks.
PairOK(t, u) ==
    t # u /\ GroupOf[t] = GroupOf[u] /\ pc[t] = "claimed" /\ pc[u] = "claimed" =>
        BatchIds(t) \cap BatchIds(u) = {}

MemInv ==
    /\ StreamOK
    /\ ShapeOK
    /\ \A g \in Groups : GroupOK(g)
    /\ \A t \in Threads : ThreadOK(t)
    /\ \A t, u \in Threads : PairOK(t, u)

LEMMA MemOps ==
    /\ Mem!Ids = Ids
    /\ \A g : Mem!Cursor(g) = Cursor(g)
    /\ \A g : Mem!PelIds(g) = PelIds(g)
    /\ \A t : Mem!BatchIds(t) = BatchIds(t)
  BY DEF Mem!Ids, Ids, Mem!Cursor, Cursor, Mem!PelIds, PelIds, Mem!BatchIds, BatchIds

LEMMA CursorIs ==
    ASSUME StreamOK, NEW g \in Groups
    PROVE  /\ Cursor(g) \in 0 .. Len(queue) /\ Len(queue) \in Nat
           /\ Pos(g) \in Nat /\ Pos(g) <= seq
           /\ Pos(g) = (seq - Len(queue)) + Cursor(g)
  <1>1. Len(queue) \in Nat /\ seq \in Nat /\ Len(queue) <= seq
    BY LenProperties DEF StreamOK
  <1>2. Cursor(g) \in 0 .. Len(queue)
    BY <1>1 DEF StreamOK, Cursor
  <1>3. QED
    BY <1>1, <1>2 DEF Pos

\* The unread tail of the stream.
LEMMA TailIs ==
    ASSUME StreamOK, NEW g \in Groups
    PROVE  Mem!TailFrom(Cursor(g)) = (Pos(g) + 1) .. seq
  <1>1. PICK c \in Nat : c = Cursor(g) /\ c <= Len(queue)
    BY CursorIs
  <1>2. PICK l \in Nat : l = Len(queue) /\ c <= l
    BY <1>1, CursorIs
  <1>3. PICK p \in Nat : p = Pos(g) /\ p = (seq - l) + c /\ p <= seq /\ seq \in Nat /\ l <= seq
    BY <1>1, <1>2, CursorIs DEF StreamOK
  <1>4. \A k \in 1 .. l : queue[k] = (seq - l) + k
    BY <1>2 DEF StreamOK
  <1>5. Mem!TailFrom(c) = {queue[k] : k \in (c + 1) .. l}
    BY <1>2 DEF Mem!TailFrom
  <1>6. ASSUME NEW i \in Mem!TailFrom(c) PROVE i \in (p + 1) .. seq
    <2>1. PICK k \in (c + 1) .. l : i = queue[k]
      BY <1>5, <1>6
    <2>2. i = (seq - l) + k
      BY <1>1, <1>2, <1>4, <2>1
    <2>3. QED
      BY <1>1, <1>2, <1>3, <2>1, <2>2
  <1>7. ASSUME NEW i \in (p + 1) .. seq PROVE i \in Mem!TailFrom(c)
    <2>1. PICK k \in (c + 1) .. l : i = (seq - l) + k
      <3>1. i - (seq - l) \in (c + 1) .. l /\ i = (seq - l) + (i - (seq - l))
        BY <1>1, <1>2, <1>3
      <3>2. QED
        BY <3>1
    <2>2. i = queue[k]
      BY <1>1, <1>2, <1>4, <2>1
    <2>3. QED
      BY <1>5, <2>1, <2>2
  <1>8. QED
    BY <1>1, <1>3, <1>6, <1>7

LEMMA MemInit == Mem!Init => MemInv
  <1>1. SUFFICES ASSUME Mem!Init PROVE MemInv
    OBVIOUS
  <1>2. MaxMsgs \in Nat /\ GroupOf \in [Threads -> Groups] /\ PelCap \in Nat
    BY MemoryTopicAssumption
  <1>3. seq = 0 /\ queue = << >> /\ cursors = << >>
    BY <1>1 DEF Mem!Init
  <1>4. Len(queue) = 0 /\ DOMAIN cursors = {} /\ queue \in Seq(Nat)
    BY <1>3
  <1>5. StreamOK
    BY <1>2, <1>3, <1>4 DEF StreamOK
  <1>6. /\ \A g \in Groups : pel[g] = {} /\ evicted[g] = {} /\ handed[g] = {} /\ outcome[g] = {}
        /\ \A t \in Threads : pc[t] = "idle" /\ batch[t] = {} /\ acks[t] = {}
    BY <1>1 DEF Mem!Init
  <1>7. ShapeOK
    BY <1>1 DEF Mem!Init, ShapeOK
  <1>8. ASSUME NEW g \in Groups PROVE GroupOK(g)
    <2>1. PelIds(g) = {} /\ PelGood(pel[g], handed[g])
      BY <1>6, FS_EmptySet DEF PelIds, PelGood
    <2>2. QED
      BY <1>6, <2>1 DEF GroupOK, OneBatch
  <1>9. ASSUME NEW t \in Threads PROVE ThreadOK(t)
    <2>1. BatchIds(t) = {}
      BY <1>6 DEF BatchIds
    <2>2. QED
      BY <1>6, <2>1 DEF ThreadOK
  <1>10. \A t, u \in Threads : PairOK(t, u)
    BY <1>6 DEF PairOK
  <1>11. QED
    BY <1>5, <1>7, <1>8, <1>9, <1>10 DEF MemInv

LEMMA SameGroup ==
    ASSUME StreamOK, StreamOK', NEW g \in Groups, GroupOK(g), Pos(g) <= Pos(g)',
           pel'[g] = pel[g], handed'[g] = handed[g], outcome'[g] = outcome[g],
           evicted'[g] = evicted[g], batchOf'[g] = batchOf[g]
    PROVE  GroupOK(g)'
  <1>1. PICK a \in Nat : a = Pos(g)
    BY CursorIs
  <1>2. PICK b \in Nat : b = Pos(g)'
    <2>1. (Len(queue) \in Nat)' /\ (seq \in Nat)' /\ (Len(queue) <= seq)'
      BY LenProperties DEF StreamOK
    <2>2. (Cursor(g) \in 0 .. Len(queue))'
      BY <2>1 DEF StreamOK, Cursor
    <2>3. Pos(g)' \in Nat
      BY <2>1, <2>2 DEF Pos
    <2>4. QED
      BY <2>3
  <1>3. handed'[g] \subseteq 1 .. b
    BY <1>1, <1>2 DEF GroupOK
  <1>4. PelIds(g)' = PelIds(g)
    BY DEF PelIds
  <1>5. QED
    BY <1>2, <1>3, <1>4 DEF GroupOK, OneBatch

LEMMA SameThread ==
    ASSUME NEW t \in Threads, NEW g, g = GroupOf[t], ThreadOK(t), BatchIds(t)' = BatchIds(t), acks'[t] = acks[t],
           handed[g] \subseteq handed'[g], outcome[g] \subseteq outcome'[g],
           pc'[t] = "claimed" => /\ pc[t] = "claimed" /\ BatchIds(t) \cap PelIds(g)' = {}
                                 /\ \A i \in BatchIds(t) : batchOf'[g][i] = batchOf[g][i]
    PROVE  ThreadOK(t)'
  <1>1. BatchIds(t) \subseteq handed[g] /\ acks[t] \subseteq outcome[g]
    BY DEF ThreadOK
  <1>2. ASSUME pc'[t] = "claimed" PROVE BatchIds(t) \cap PelIds(g)' = {} /\ OneBatch(g, BatchIds(t))'
    <2>1. OneBatch(g, BatchIds(t))
      BY <1>2 DEF ThreadOK
    <2>2. QED
      BY <1>2, <2>1 DEF OneBatch
  <1>3. QED
    BY <1>1, <1>2 DEF ThreadOK

LEMMA MemProduce ==
    ASSUME MemInv, Mem!Produce
    PROVE  MemInv' /\ (\A g \in Groups : Pos(g)' = Pos(g))
  <1>1. /\ seq < MaxMsgs /\ seq' = seq + 1 /\ queue' = Append(queue, seq + 1)
        /\ cursors' = cursors /\ pel' = pel /\ evicted' = evicted
        /\ pc' = pc /\ batch' = batch /\ acks' = acks
        /\ handed' = handed /\ outcome' = outcome /\ batchOf' = batchOf
    BY DEF Mem!Produce, Mem!threadVars, Mem!historyVars
  <1>2. PICK l \in Nat : l = Len(queue) /\ l <= seq /\ seq \in Nat /\ MaxMsgs \in Nat
    BY LenProperties, MemoryTopicAssumption DEF MemInv, StreamOK
  <1>3. /\ queue' \in Seq(Nat) /\ Len(queue') = l + 1 /\ queue'[l + 1] = seq + 1
        /\ \A k \in 1 .. l : queue'[k] = queue[k]
    BY <1>1, <1>2, AppendProperties DEF MemInv, StreamOK
  <1>4. StreamOK'
    <2>1. ASSUME NEW k \in 1 .. l + 1 PROVE queue'[k] = (seq' - (l + 1)) + k
      <3>1. CASE k = l + 1
        BY <1>1, <1>2, <1>3, <3>1
      <3>2. CASE k \in 1 .. l
        <4>1. queue[k] = (seq - l) + k
          BY <1>2, <3>2 DEF MemInv, StreamOK
        <4>2. QED
          BY <1>1, <1>2, <1>3, <3>2, <4>1
      <3>3. QED
        BY <1>2, <3>1, <3>2
    <2>2. DOMAIN cursors \subseteq Groups /\ \A g \in DOMAIN cursors : cursors[g] \in 1 .. l
      BY <1>2 DEF MemInv, StreamOK
    <2>3. seq' \in Nat /\ seq' <= MaxMsgs /\ l + 1 <= seq' /\ \A g \in DOMAIN cursors' : cursors'[g] \in 1 .. l + 1
      BY <1>1, <1>2, <2>2
    <2>4. QED
      BY <1>1, <1>3, <2>1, <2>2, <2>3 DEF StreamOK
  <1>5. ASSUME NEW g \in Groups PROVE Pos(g)' = Pos(g) /\ Pos(g) \in Nat
    <2>1. Cursor(g)' = Cursor(g) /\ Cursor(g) \in Nat
      BY <1>1, CursorIs DEF Cursor, MemInv
    <2>2. QED
      BY <1>1, <1>2, <1>3, <2>1 DEF Pos
  <1>6. ShapeOK'
    BY <1>1 DEF ShapeOK, MemInv
  <1>7. ASSUME NEW g \in Groups PROVE GroupOK(g)'
    <2>1. GroupOK(g) /\ StreamOK /\ Pos(g) <= Pos(g)'
      BY <1>5 DEF MemInv
    <2>2. QED
      BY <1>1, <1>4, <2>1, SameGroup
  <1>8. ASSUME NEW t \in Threads PROVE ThreadOK(t)' /\ BatchIds(t)' = BatchIds(t)
    BY <1>1 DEF MemInv, ThreadOK, BatchIds, PelIds, OneBatch
  <1>9. ASSUME NEW t \in Threads, NEW u \in Threads PROVE PairOK(t, u)'
    BY <1>1, <1>8 DEF MemInv, PairOK
  <1>10. QED
    BY <1>4, <1>5, <1>6, <1>7, <1>8, <1>9 DEF MemInv

LEMMA MemClaim ==
    ASSUME MemInv, NEW t \in Threads, Mem!ConsumeClaim(t), NEW g, g = GroupOf[t]
    PROVE  /\ MemInv'
           /\ pc[t] = "idle" /\ pc' = [pc EXCEPT ![t] = "claimed"]
           /\ seq' = seq /\ queue' = queue /\ Pos(g)' = seq
           /\ BatchIds(t)' = (Pos(g) + 1) .. seq
           /\ \A u \in Threads \ {t} : BatchIds(u)' = BatchIds(u)
           /\ handed' = [handed EXCEPT ![g] = @ \cup ((Pos(g) + 1) .. seq)]
           /\ pel' = pel /\ outcome' = outcome /\ evicted' = evicted
  <1>0. g \in Groups /\ StreamOK /\ ShapeOK /\ GroupOK(g)
    BY MemoryTopicAssumption DEF MemInv
  <1>1. PICK p \in Nat : p = Pos(g) /\ p <= seq /\ seq \in Nat /\ seq <= MaxMsgs
    BY <1>0, CursorIs DEF StreamOK
  <1>2. PICK new : new = (p + 1) .. seq
    OBVIOUS
  <1>3. /\ pc[t] = "idle" /\ Cursor(g) < Len(queue)
        /\ batch' = [batch EXCEPT ![t] = new \X {1}]
        /\ cursors' = [h \in DOMAIN cursors \cup {g} |-> IF h = g THEN Len(queue) ELSE cursors[h]]
        /\ pc' = [pc EXCEPT ![t] = "claimed"]
        /\ handed' = [handed EXCEPT ![g] = @ \cup new]
        /\ batchOf' = [batchOf EXCEPT ![g] = [i \in Ids |-> IF i \in new THEN seq ELSE @[i]]]
        /\ seq' = seq /\ queue' = queue /\ pel' = pel /\ evicted' = evicted /\ acks' = acks
        /\ outcome' = outcome
    BY <1>0, <1>1, <1>2, TailIs, MemOps DEF Mem!ConsumeClaim
  <1>4. Len(queue) \in Nat /\ Cursor(g) \in Nat /\ Len(queue) <= seq /\ 1 <= Len(queue)
    BY <1>0, <1>3, CursorIs DEF StreamOK
  <1>5. StreamOK'
    <2>1. DOMAIN cursors' \subseteq Groups /\ \A h \in DOMAIN cursors' : cursors'[h] \in 1 .. Len(queue)
      BY <1>0, <1>3, <1>4 DEF StreamOK
    <2>2. QED
      BY <1>0, <1>3, <2>1 DEF StreamOK
  <1>6. Cursor(g)' = Len(queue) /\ \A h \in Groups \ {g} : Cursor(h)' = Cursor(h)
    BY <1>3 DEF Cursor
  <1>7. Pos(g)' = seq /\ \A h \in Groups \ {g} : Pos(h)' = Pos(h)
    BY <1>1, <1>3, <1>4, <1>6 DEF Pos
  <1>8. ShapeOK'
    BY <1>0, <1>3 DEF ShapeOK
  <1>9. /\ handed'[g] = handed[g] \cup new /\ \A h \in Groups \ {g} : handed'[h] = handed[h] /\ batchOf'[h] = batchOf[h]
        /\ batchOf'[g] = [i \in Ids |-> IF i \in new THEN seq ELSE batchOf[g][i]]
        /\ batch'[t] = new \X {1} /\ \A u \in Threads \ {t} : batch'[u] = batch[u] /\ pc'[u] = pc[u]
        /\ pc'[t] = "claimed"
    BY <1>0, <1>3 DEF ShapeOK
  <1>10. BatchIds(t)' = new
    <2>1. BatchIds(t)' = {e[1] : e \in new \X {1}}
      BY <1>9 DEF BatchIds
    <2>2. ASSUME NEW i \in new PROVE i \in {e[1] : e \in new \X {1}}
      <3>1. <<i, 1>> \in new \X {1} /\ <<i, 1>>[1] = i
        OBVIOUS
      <3>2. QED
        BY <3>1
    <2>3. {e[1] : e \in new \X {1}} \subseteq new
      OBVIOUS
    <2>4. QED
      BY <2>1, <2>2, <2>3
  <1>11. \A u \in Threads \ {t} : BatchIds(u)' = BatchIds(u)
    BY <1>9 DEF BatchIds
  <1>12. \A h \in Groups : PelIds(h)' = PelIds(h)
    BY <1>3 DEF PelIds
  <1>13. /\ new \subseteq Ids /\ handed[g] \subseteq 1 .. p /\ handed[g] \subseteq Ids
         /\ new \cap handed[g] = {} /\ PelIds(g) \subseteq handed[g]
    <2>1. handed[g] \subseteq 1 .. p
      BY <1>0, <1>1 DEF GroupOK
    <2>2. PelIds(g) \subseteq handed[g]
      BY <1>0 DEF GroupOK, PelGood, PelIds
    <2>3. MaxMsgs \in Nat
      BY MemoryTopicAssumption
    <2>4. QED
      BY <1>1, <1>2, <2>1, <2>2, <2>3 DEF Ids
  <1>14. \A i \in handed[g] : batchOf'[g][i] = batchOf[g][i]
    BY <1>9, <1>13
  <1>15. GroupOK(g)'
    <2>1. handed'[g] \subseteq 1 .. seq
      BY <1>1, <1>2, <1>9, <1>13
    <2>2. PelGood(pel[g], handed'[g])
      BY <1>0, <1>9 DEF GroupOK, PelGood
    <2>3. ASSUME Cardinality(pel[g]) > PelCap PROVE OneBatch(g, PelIds(g))'
      <3>1. OneBatch(g, PelIds(g))
        BY <1>0, <2>3 DEF GroupOK
      <3>2. QED
        BY <1>0, <1>12, <1>13, <1>14, <3>1 DEF OneBatch
    <2>4. outcome[g] \subseteq handed'[g] /\ evicted[g] \subseteq handed'[g]
      BY <1>0, <1>9 DEF GroupOK
    <2>5. QED
      BY <1>0, <1>3, <1>7, <2>1, <2>2, <2>3, <2>4 DEF GroupOK
  <1>16. ASSUME NEW h \in Groups, h # g PROVE GroupOK(h)'
    <2>1. GroupOK(h) /\ Pos(h) <= Pos(h)'
      <3>1. Pos(h) \in Nat
        BY <1>0, CursorIs
      <3>2. QED
        BY <1>7, <1>16, <3>1 DEF MemInv
    <2>2. h \in Groups \ {g}
      BY <1>16
    <2>3. QED
      BY <1>0, <1>3, <1>5, <1>9, <2>1, <2>2, SameGroup
  <1>17. ThreadOK(t)'
    <2>1. \A i \in new : batchOf'[g][i] = seq
      BY <1>9, <1>13
    <2>2. new \cap PelIds(g) = {} /\ new \subseteq handed'[g]
      BY <1>9, <1>13
    <2>3. acks[t] \subseteq outcome[g]
      BY DEF MemInv, ThreadOK
    <2>4. QED
      BY <1>0, <1>3, <1>10, <1>12, <2>1, <2>2, <2>3 DEF ThreadOK, OneBatch
  <1>18. ASSUME NEW u \in Threads, u # t PROVE ThreadOK(u)'
    <2>0. u \in Threads \ {t}
      BY <1>18
    <2>1. PICK h \in Groups : h = GroupOf[u]
      BY MemoryTopicAssumption
    <2>2. ThreadOK(u)
      BY DEF MemInv
    <2>3. BatchIds(u)' = BatchIds(u) /\ acks'[u] = acks[u] /\ pc'[u] = pc[u] /\ BatchIds(u) \subseteq handed[h]
      BY <1>3, <1>9, <1>11, <2>0, <2>1, <2>2 DEF ThreadOK
    <2>4. handed[h] \subseteq handed'[h] /\ outcome[h] \subseteq outcome'[h]
      BY <1>3, <1>9
    <2>5. \A i \in handed[h] : batchOf'[h][i] = batchOf[h][i]
      BY <1>9, <1>14
    <2>6. pc'[u] = "claimed" => /\ pc[u] = "claimed" /\ BatchIds(u) \cap PelIds(h)' = {}
                                /\ \A i \in BatchIds(u) : batchOf'[h][i] = batchOf[h][i]
      BY <1>12, <2>1, <2>2, <2>3, <2>5 DEF ThreadOK
    <2>7. QED
      BY <2>1, <2>2, <2>3, <2>4, <2>6, SameThread
  <1>19. ASSUME NEW u \in Threads, u # t, GroupOf[u] = g PROVE BatchIds(u)' \cap new = {}
    <2>1. BatchIds(u)' \subseteq handed[g]
      BY <1>11, <1>19 DEF MemInv, ThreadOK
    <2>2. QED
      BY <1>13, <2>1
  <1>20. ASSUME NEW u \in Threads, NEW v \in Threads PROVE PairOK(u, v)'
    <2>1. CASE u = t
      BY <1>10, <1>19, <2>1 DEF PairOK
    <2>2. CASE v = t
      BY <1>10, <1>19, <2>2 DEF PairOK
    <2>3. CASE u # t /\ v # t
      <3>1. PairOK(u, v)
        BY DEF MemInv
      <3>2. BatchIds(u)' = BatchIds(u) /\ BatchIds(v)' = BatchIds(v) /\ pc'[u] = pc[u] /\ pc'[v] = pc[v]
        BY <1>9, <1>11, <2>3
      <3>3. QED
        BY <3>1, <3>2 DEF PairOK
    <2>4. QED
      BY <2>1, <2>2, <2>3
  <1>21. MemInv'
    BY <1>5, <1>8, <1>15, <1>16, <1>17, <1>18, <1>20 DEF MemInv
  <1>22. QED
    BY <1>1, <1>2, <1>3, <1>7, <1>10, <1>11, <1>21

LEMMA MemPend ==
    ASSUME MemInv, NEW t \in Threads, Mem!ConsumePend(t), NEW g, g = GroupOf[t]
    PROVE  /\ MemInv'
           /\ pc[t] = "claimed" /\ pc' = [pc EXCEPT ![t] = "work"] /\ batch' = batch
           /\ seq' = seq /\ queue' = queue /\ cursors' = cursors /\ handed' = handed /\ outcome' = outcome
           /\ \A h \in Groups \ {g} : PelIds(h)' = PelIds(h) /\ evicted'[h] = evicted[h]
           /\ \E lost \in SUBSET PelIds(g) :
                 /\ PelIds(g)' = (PelIds(g) \ lost) \cup BatchIds(t)
                 /\ evicted'[g] = evicted[g] \cup lost
  <1>0. g \in Groups /\ StreamOK /\ ShapeOK /\ GroupOK(g) /\ ThreadOK(t)
    BY MemoryTopicAssumption DEF MemInv
  <1>1. PICK p : p = pel[g]
    OBVIOUS
  <1>1a. PICK H : H = handed[g]
    OBVIOUS
  <1>1b. PICK mine : mine = BatchIds(t)
    OBVIOUS
  <1>2. PICK q : q = Mem!Filled(p, mine)
    OBVIOUS
  <1>3. PICK gone : gone = Mem!Evictees(q, mine)
    OBVIOUS
  <1>4. /\ pc[t] = "claimed" /\ pel' = [pel EXCEPT ![g] = q \ gone]
        /\ evicted' = [evicted EXCEPT ![g] = @ \cup {x.id : x \in gone}]
        /\ pc' = [pc EXCEPT ![t] = "work"]
        /\ seq' = seq /\ queue' = queue /\ cursors' = cursors /\ batch' = batch /\ acks' = acks
        /\ handed' = handed /\ outcome' = outcome /\ batchOf' = batchOf
    BY <1>1, <1>1b, <1>2, <1>3, MemOps DEF Mem!ConsumePend, Mem!historyVars
  <1>5. mine \subseteq H /\ mine \cap IdsIn(p) = {} /\ OneBatch(g, mine) /\ PelIds(g) = IdsIn(p)
    BY <1>0, <1>1, <1>1a, <1>1b, <1>4 DEF ThreadOK, IdsIn, PelIds
  <1>6. H \in SUBSET Nat /\ IsFiniteSet(mine) /\ PelGood(p, H)
    <2>1. PICK n \in Nat : H \subseteq 1 .. n
      BY <1>0, <1>1a, CursorIs DEF GroupOK
    <2>2. IsFiniteSet(1 .. n)
      BY FS_Interval
    <2>3. mine \subseteq 1 .. n /\ H \subseteq Nat
      BY <1>5, <2>1
    <2>4. IsFiniteSet(mine)
      BY <2>2, <2>3, FS_Subset
    <2>5. QED
      BY <1>0, <1>1, <1>1a, <2>3, <2>4 DEF GroupOK
  <1>7. PelGood(q, H) /\ p = {x \in q : x.id \notin mine} /\ IdsIn(q) = IdsIn(p) \cup mine
    BY <1>2, <1>5, <1>6, FilledIs
  <1>8. gone \subseteq p /\ (Cardinality(q \ gone) > PelCap => gone = p)
    BY <1>3, <1>7, EvictIs
  <1>9. PICK lost : lost = IdsIn(gone)
    OBVIOUS
  <1>10. lost \in SUBSET IdsIn(p)
    BY <1>8, <1>9 DEF IdsIn
  <1>11. PelGood(q \ gone, H)
    <2>1. IsFiniteSet(q \ gone)
      BY <1>7, FS_Subset DEF PelGood
    <2>2. QED
      BY <1>7, <2>1 DEF PelGood
  <1>12. IdsIn(q \ gone) = (IdsIn(p) \ lost) \cup mine
    <2>1. ASSUME NEW x \in q \ gone PROVE x.id \in (IdsIn(p) \ lost) \cup mine
      <3>1. CASE x.id \in mine
        BY <3>1
      <3>2. CASE x.id \notin mine
        <4>1. x \in p
          BY <1>7, <3>2
        <4>2. x.id \notin lost
          <5>1. ASSUME x.id \in lost PROVE FALSE
            <6>1. PICK y \in gone : y.id = x.id
              BY <1>9, <5>1 DEF IdsIn
            <6>2. y = x
              BY <1>6, <1>8, <4>1, <6>1 DEF PelGood
            <6>3. QED
              BY <6>1, <6>2
          <5>2. QED
            BY <5>1
        <4>3. QED
          BY <4>1, <4>2 DEF IdsIn
      <3>3. QED
        BY <3>1, <3>2
    <2>2. ASSUME NEW i \in IdsIn(p) \ lost PROVE i \in IdsIn(q \ gone)
      <3>1. PICK x \in p : x.id = i
        BY DEF IdsIn
      <3>2. x \in q \ gone
        BY <1>7, <1>9, <3>1 DEF IdsIn
      <3>3. QED
        BY <3>1, <3>2 DEF IdsIn
    <2>3. ASSUME NEW i \in mine PROVE i \in IdsIn(q \ gone)
      <3>1. PICK x \in q : x.id = i
        BY <1>7 DEF IdsIn
      <3>2. x \in q \ gone
        BY <1>7, <1>8, <3>1
      <3>3. QED
        BY <3>1, <3>2 DEF IdsIn
    <2>4. IdsIn(q \ gone) \subseteq (IdsIn(p) \ lost) \cup mine
      BY <2>1 DEF IdsIn
    <2>5. QED
      BY <2>2, <2>3, <2>4
  <1>13. /\ pel'[g] = q \ gone /\ evicted'[g] = evicted[g] \cup lost
         /\ \A h \in Groups \ {g} : pel'[h] = pel[h] /\ evicted'[h] = evicted[h]
         /\ pc'[t] = "work" /\ \A u \in Threads \ {t} : pc'[u] = pc[u]
    BY <1>0, <1>4, <1>9 DEF ShapeOK, IdsIn
  <1>14. PelIds(g)' = (PelIds(g) \ lost) \cup mine
    BY <1>5, <1>12, <1>13 DEF PelIds, IdsIn
  <1>15. \A h \in Groups \ {g} : PelIds(h)' = PelIds(h)
    BY <1>13 DEF PelIds
  <1>16. StreamOK' /\ ShapeOK' /\ (\A h \in Groups : Pos(h)' = Pos(h) /\ Pos(h) \in Nat)
    <2>1. StreamOK' /\ ShapeOK'
      BY <1>0, <1>4 DEF StreamOK, ShapeOK
    <2>2. \A h \in Groups : Pos(h) \in Nat
      BY <1>0, CursorIs
    <2>3. QED
      BY <1>4, <2>1, <2>2 DEF Pos, Cursor
  <1>17. GroupOK(g)'
    <2>1. handed'[g] \subseteq 1 .. Pos(g)'
      BY <1>0, <1>4, <1>16 DEF GroupOK
    <2>2. evicted'[g] \subseteq H /\ outcome'[g] \subseteq H
      <3>1. IdsIn(p) \subseteq H
        BY <1>6 DEF PelGood, IdsIn
      <3>2. QED
        BY <1>0, <1>1a, <1>4, <1>10, <1>13, <3>1 DEF GroupOK
    <2>3. ASSUME Cardinality(q \ gone) > PelCap PROVE OneBatch(g, PelIds(g))'
      <3>1. gone = p
        BY <1>8, <2>3
      <3>2. PelIds(g)' \subseteq mine
        BY <1>5, <1>9, <1>14, <3>1
      <3>3. QED
        BY <1>4, <1>5, <3>2 DEF OneBatch
    <2>4. PelGood(pel[g], handed[g])'
      BY <1>1a, <1>4, <1>11, <1>13
    <2>5. QED
      BY <1>1a, <1>4, <1>13, <2>1, <2>2, <2>3, <2>4 DEF GroupOK
  <1>18. ASSUME NEW h \in Groups, h # g PROVE GroupOK(h)'
    <2>1. GroupOK(h) /\ Pos(h) <= Pos(h)' /\ h \in Groups \ {g}
      BY <1>16, <1>18 DEF MemInv
    <2>2. QED
      BY <1>0, <1>4, <1>13, <1>16, <2>1, SameGroup
  <1>19. \A u \in Threads : BatchIds(u)' = BatchIds(u)
    BY <1>4 DEF BatchIds
  <1>20. ASSUME NEW u \in Threads PROVE ThreadOK(u)'
    <2>1. PICK h \in Groups : h = GroupOf[u]
      BY MemoryTopicAssumption
    <2>2. ThreadOK(u)
      BY DEF MemInv
    <2>3. ASSUME pc'[u] = "claimed" PROVE pc[u] = "claimed" /\ BatchIds(u) \cap PelIds(h)' = {}
      <3>1. u # t /\ u \in Threads \ {t} /\ pc[u] = "claimed"
        BY <1>13, <2>3
      <3>2. BatchIds(u) \cap PelIds(h) = {}
        BY <2>1, <2>2, <3>1 DEF ThreadOK
      <3>3. CASE h = g
        <4>1. PairOK(u, t)
          BY DEF MemInv
        <4>2. BatchIds(u) \cap mine = {}
          BY <1>1b, <1>4, <2>1, <3>1, <3>3, <4>1 DEF PairOK
        <4>3. QED
          BY <1>14, <3>1, <3>2, <3>3, <4>2
      <3>4. CASE h # g
        BY <1>15, <3>1, <3>2, <3>4
      <3>5. QED
        BY <3>3, <3>4
    <2>4. BatchIds(u)' = BatchIds(u) /\ acks'[u] = acks[u] /\ handed[h] \subseteq handed'[h] /\ outcome[h] \subseteq outcome'[h]
      BY <1>4, <1>19
    <2>5. pc'[u] = "claimed" => /\ pc[u] = "claimed" /\ BatchIds(u) \cap PelIds(h)' = {}
                                /\ \A i \in BatchIds(u) : batchOf'[h][i] = batchOf[h][i]
      BY <1>4, <2>3
    <2>6. QED
      BY <2>1, <2>2, <2>4, <2>5, SameThread
  <1>21. ASSUME NEW u \in Threads, NEW v \in Threads PROVE PairOK(u, v)'
    BY <1>13, <1>19 DEF MemInv, PairOK
  <1>22. MemInv'
    BY <1>16, <1>17, <1>18, <1>20, <1>21 DEF MemInv
  <1>23. QED
    BY <1>1b, <1>4, <1>5, <1>10, <1>13, <1>14, <1>15, <1>22

\* What the actions of a thread outside consume() leave alone.
LEMMA MemQuiet ==
    ASSUME MemInv, NEW t \in Threads, NEW g, g = GroupOf[t],
           seq' = seq /\ queue' = queue /\ cursors' = cursors,
           handed' = handed /\ batchOf' = batchOf /\ evicted' = evicted,
           ShapeOK', pc[t] # "claimed", pc'[t] # "claimed",
           \A u \in Threads \ {t} : pc'[u] = pc[u] /\ batch'[u] = batch[u] /\ acks'[u] = acks[u],
           \A h \in Groups \ {g} : pel'[h] = pel[h] /\ outcome'[h] = outcome[h],
           pel'[g] \subseteq pel[g], outcome[g] \subseteq outcome'[g], outcome'[g] \subseteq handed[g],
           BatchIds(t)' \subseteq handed[g], acks'[t] \subseteq outcome'[g]
    PROVE  MemInv'
  <1>0. g \in Groups /\ StreamOK /\ GroupOK(g) /\ ThreadOK(t)
    BY MemoryTopicAssumption DEF MemInv
  <1>1. StreamOK' /\ (\A h \in Groups : Pos(h)' = Pos(h) /\ Pos(h) \in Nat)
    <2>1. StreamOK'
      BY <1>0 DEF StreamOK
    <2>2. \A h \in Groups : Pos(h) \in Nat
      BY <1>0, CursorIs
    <2>3. QED
      BY <2>1, <2>2 DEF Pos, Cursor
  <1>2. PelIds(g)' \subseteq PelIds(g) /\ \A h \in Groups \ {g} : PelIds(h)' = PelIds(h)
    BY DEF PelIds
  <1>3. GroupOK(g)'
    <2>1. IsFiniteSet(pel[g]) /\ PelGood(pel[g], handed[g])
      BY <1>0 DEF GroupOK, PelGood
    <2>2. /\ IsFiniteSet(pel'[g]) /\ Cardinality(pel'[g]) <= Cardinality(pel[g])
          /\ Cardinality(pel[g]) \in Nat /\ Cardinality(pel'[g]) \in Nat /\ PelCap \in Nat
      BY <2>1, FS_Subset, FS_CardinalityType, MemoryTopicAssumption
    <2>3. PelGood(pel'[g], handed[g])
      BY <2>1, <2>2 DEF PelGood
    <2>4. ASSUME Cardinality(pel'[g]) > PelCap PROVE OneBatch(g, PelIds(g))'
      <3>1. Cardinality(pel[g]) > PelCap
        BY <2>2, <2>4
      <3>2. OneBatch(g, PelIds(g))
        BY <1>0, <3>1 DEF GroupOK
      <3>3. QED
        BY <1>2, <3>2 DEF OneBatch
    <2>5. handed[g] \subseteq 1 .. Pos(g)' /\ evicted[g] \subseteq handed[g]
      BY <1>0, <1>1 DEF GroupOK
    <2>6. QED
      BY <2>3, <2>4, <2>5 DEF GroupOK
  <1>4. ASSUME NEW h \in Groups, h # g PROVE GroupOK(h)'
    <2>1. GroupOK(h) /\ Pos(h) <= Pos(h)' /\ h \in Groups \ {g}
      BY <1>1, <1>4 DEF MemInv
    <2>2. QED
      BY <1>0, <1>1, <2>1, SameGroup
  <1>5. \A u \in Threads \ {t} : BatchIds(u)' = BatchIds(u)
    BY DEF BatchIds
  <1>6. ThreadOK(t)'
    BY DEF ThreadOK
  <1>7. ASSUME NEW u \in Threads, u # t PROVE ThreadOK(u)'
    <2>0. u \in Threads \ {t}
      BY <1>7
    <2>1. PICK h \in Groups : h = GroupOf[u]
      BY MemoryTopicAssumption
    <2>2. ThreadOK(u)
      BY DEF MemInv
    <2>3. BatchIds(u)' = BatchIds(u) /\ acks'[u] = acks[u] /\ pc'[u] = pc[u] /\ handed[h] \subseteq handed'[h] /\ outcome[h] \subseteq outcome'[h]
      BY <1>5, <2>0
    <2>4. PelIds(h)' \subseteq PelIds(h)
      BY <1>2
    <2>5. pc'[u] = "claimed" => /\ pc[u] = "claimed" /\ BatchIds(u) \cap PelIds(h)' = {}
                                /\ \A i \in BatchIds(u) : batchOf'[h][i] = batchOf[h][i]
      BY <2>1, <2>2, <2>3, <2>4 DEF ThreadOK
    <2>6. QED
      BY <2>1, <2>2, <2>3, <2>5, SameThread
  <1>8. ASSUME NEW u \in Threads, NEW v \in Threads PROVE PairOK(u, v)'
    <2>1. CASE u = t \/ v = t
      BY <2>1 DEF PairOK
    <2>2. CASE u # t /\ v # t
      BY <1>5, <2>2 DEF MemInv, PairOK
    <2>3. QED
      BY <2>1, <2>2
  <1>9. QED
    BY <1>1, <1>3, <1>4, <1>6, <1>7, <1>8 DEF MemInv

LEMMA MemRedeliver ==
    ASSUME MemInv, NEW t \in Threads, NEW S, Mem!ClaimPending(t, S), NEW g, g = GroupOf[t]
    PROVE  /\ MemInv'
           /\ pc[t] = "idle" /\ pc' = [pc EXCEPT ![t] = "work"]
           /\ seq' = seq /\ queue' = queue /\ cursors' = cursors /\ handed' = handed
           /\ pel' = pel /\ evicted' = evicted /\ outcome' = outcome
           /\ \A u \in Threads \ {t} : BatchIds(u)' = BatchIds(u)
  <1>0. g \in Groups /\ StreamOK /\ ShapeOK /\ GroupOK(g) /\ ThreadOK(t)
    BY MemoryTopicAssumption DEF MemInv
  <1>1. PICK b : b = {<<i, counts[g][i] + 1>> : i \in S}
    OBVIOUS
  <1>2. /\ pc[t] = "idle" /\ S \subseteq PelIds(g) /\ batch' = [batch EXCEPT ![t] = b]
        /\ pc' = [pc EXCEPT ![t] = "work"]
        /\ seq' = seq /\ queue' = queue /\ cursors' = cursors /\ pel' = pel /\ evicted' = evicted
        /\ acks' = acks /\ handed' = handed /\ outcome' = outcome /\ batchOf' = batchOf
    BY <1>1, MemOps DEF Mem!ClaimPending, Mem!historyVars
  <1>3. ShapeOK'
    BY <1>0, <1>2 DEF ShapeOK
  <1>4. /\ batch'[t] = b /\ pc'[t] = "work"
        /\ \A u \in Threads \ {t} : batch'[u] = batch[u] /\ pc'[u] = pc[u] /\ acks'[u] = acks[u]
    BY <1>0, <1>2 DEF ShapeOK
  <1>5. BatchIds(t)' \subseteq handed[g]
    <2>1. \A e \in b : e[1] \in S
      BY <1>1
    <2>2. PelIds(g) \subseteq handed[g]
      BY <1>0 DEF GroupOK, PelGood, PelIds
    <2>3. QED
      BY <1>2, <1>4, <2>1, <2>2 DEF BatchIds
  <1>6. acks'[t] \subseteq outcome'[g] /\ outcome'[g] \subseteq handed[g]
    BY <1>0, <1>2 DEF ThreadOK, GroupOK
  <1>7. MemInv'
    BY <1>2, <1>3, <1>4, <1>5, <1>6, MemQuiet
  <1>8. QED
    BY <1>2, <1>4, <1>7 DEF BatchIds

LEMMA MemProcess ==
    ASSUME MemInv, NEW t \in Threads, NEW ok, Mem!Process(t, ok), NEW g, g = GroupOf[t]
    PROVE  /\ MemInv'
           /\ pc[t] = "work" /\ pc' = [pc EXCEPT ![t] = "flush"]
           /\ seq' = seq /\ queue' = queue /\ cursors' = cursors /\ handed' = handed
           /\ pel' = pel /\ evicted' = evicted
           /\ \A u \in Threads \ {t} : BatchIds(u)' = BatchIds(u)
           /\ \E done \in SUBSET handed[g] : outcome' = [outcome EXCEPT ![g] = @ \cup done]
  <1>0. g \in Groups /\ StreamOK /\ ShapeOK /\ GroupOK(g) /\ ThreadOK(t)
    BY MemoryTopicAssumption DEF MemInv
  <1>1. PICK exhausted : exhausted = {e[1] : e \in {p \in batch[t] : p[2] > MaxRedeliveries}}
    OBVIOUS
  <1>1b. PICK done : done = ok \cup exhausted
    OBVIOUS
  <1>2. /\ pc[t] = "work" /\ ok \subseteq BatchIds(t) \ exhausted
        /\ outcome' = [outcome EXCEPT ![g] = @ \cup done]
        /\ acks' = [acks EXCEPT ![t] = done]
        /\ batch' = [batch EXCEPT ![t] = {}] /\ pc' = [pc EXCEPT ![t] = "flush"]
        /\ seq' = seq /\ queue' = queue /\ cursors' = cursors /\ pel' = pel /\ evicted' = evicted
        /\ handed' = handed /\ batchOf' = batchOf
    BY <1>1, <1>1b, MemOps DEF Mem!Process, Mem!busVars
  <1>3. ShapeOK'
    BY <1>0, <1>2 DEF ShapeOK
  <1>4. /\ batch'[t] = {} /\ pc'[t] = "flush" /\ acks'[t] = done /\ outcome'[g] = outcome[g] \cup done
        /\ \A u \in Threads \ {t} : batch'[u] = batch[u] /\ pc'[u] = pc[u] /\ acks'[u] = acks[u]
        /\ \A h \in Groups \ {g} : outcome'[h] = outcome[h]
    BY <1>0, <1>2 DEF ShapeOK
  <1>5. BatchIds(t)' = {} /\ done \subseteq handed[g]
    <2>1. exhausted \subseteq BatchIds(t)
      BY <1>1 DEF BatchIds
    <2>2. QED
      BY <1>0, <1>1b, <1>2, <1>4, <2>1 DEF BatchIds, ThreadOK
  <1>6. acks'[t] \subseteq outcome'[g] /\ outcome'[g] \subseteq handed[g] /\ outcome[g] \subseteq outcome'[g]
    BY <1>0, <1>4, <1>5 DEF GroupOK
  <1>6b. BatchIds(t)' \subseteq handed[g] /\ pc[t] # "claimed" /\ pc'[t] # "claimed"
    BY <1>2, <1>4, <1>5
  <1>7. MemInv'
    BY <1>2, <1>3, <1>4, <1>6, <1>6b, MemQuiet
  <1>8. QED
    BY <1>2, <1>4, <1>5, <1>7 DEF BatchIds

LEMMA MemAck ==
    ASSUME MemInv, NEW t \in Threads, Mem!AckBatch(t), NEW g, g = GroupOf[t]
    PROVE  /\ MemInv'
           /\ pc[t] = "flush" /\ pc' = [pc EXCEPT ![t] = "idle"] /\ batch' = batch
           /\ seq' = seq /\ queue' = queue /\ cursors' = cursors /\ handed' = handed
           /\ evicted' = evicted /\ outcome' = outcome
           /\ PelIds(g)' = PelIds(g) \ acks[t]
           /\ \A h \in Groups \ {g} : PelIds(h)' = PelIds(h)
  <1>0. g \in Groups /\ StreamOK /\ ShapeOK /\ GroupOK(g) /\ ThreadOK(t)
    BY MemoryTopicAssumption DEF MemInv
  <1>2. /\ pc[t] = "flush" /\ pel' = [pel EXCEPT ![g] = {x \in @ : x.id \notin acks[t]}]
        /\ acks' = [acks EXCEPT ![t] = {}] /\ pc' = [pc EXCEPT ![t] = "idle"]
        /\ seq' = seq /\ queue' = queue /\ cursors' = cursors /\ evicted' = evicted /\ batch' = batch
        /\ handed' = handed /\ outcome' = outcome /\ batchOf' = batchOf
    BY DEF Mem!AckBatch, Mem!historyVars
  <1>3. ShapeOK'
    BY <1>0, <1>2 DEF ShapeOK
  <1>4. /\ pc'[t] = "idle" /\ acks'[t] = {} /\ pel'[g] = {x \in pel[g] : x.id \notin acks[t]}
        /\ \A u \in Threads \ {t} : batch'[u] = batch[u] /\ pc'[u] = pc[u] /\ acks'[u] = acks[u]
        /\ \A h \in Groups \ {g} : pel'[h] = pel[h]
    BY <1>0, <1>2 DEF ShapeOK
  <1>5. BatchIds(t)' \subseteq handed[g]
    BY <1>0, <1>2 DEF BatchIds, ThreadOK
  <1>6. acks'[t] \subseteq outcome'[g] /\ outcome'[g] \subseteq handed[g] /\ outcome[g] \subseteq outcome'[g] /\ pel'[g] \subseteq pel[g]
    BY <1>0, <1>2, <1>4 DEF GroupOK
  <1>6b. pc[t] # "claimed" /\ pc'[t] # "claimed" /\ \A h \in Groups \ {g} : pel'[h] = pel[h] /\ outcome'[h] = outcome[h]
    BY <1>2, <1>4
  <1>7. MemInv'
    BY <1>2, <1>3, <1>4, <1>5, <1>6, <1>6b, MemQuiet
  <1>8. PelIds(g)' = PelIds(g) \ acks[t]
    BY <1>4 DEF PelIds
  <1>9. QED
    BY <1>2, <1>4, <1>7, <1>8 DEF PelIds

\* The prefix that is trimmed is one every group with a cursor has read.
LEMMA TrimIs ==
    ASSUME StreamOK, NEW n, n = Mem!TrimCount
    PROVE  n \in 0 .. Len(queue) /\ \A g \in DOMAIN cursors : n <= cursors[g]
  <1>1. PICK P : P = {m \in 0 .. Len(queue) : \A g \in DOMAIN cursors : Mem!AckedPrefix(g, m)}
    OBVIOUS
  <1>2. Len(queue) \in Nat
    BY LenProperties DEF StreamOK
  <1>3. P \in SUBSET Nat /\ IsFiniteSet(P)
    <2>1. P \subseteq 0 .. Len(queue) /\ IsFiniteSet(0 .. Len(queue))
      BY <1>1, <1>2, FS_Interval
    <2>2. P \subseteq Nat
      BY <1>2, <2>1
    <2>3. IsFiniteSet(P)
      BY <2>1, FS_Subset
    <2>4. QED
      BY <2>2, <2>3
  <1>4. 0 \in P
    <2>1. \A g \in DOMAIN cursors : 0 <= cursors[g]
      BY <1>2 DEF StreamOK
    <2>2. QED
      BY <1>1, <1>2, <2>1 DEF Mem!AckedPrefix
  <1>5. PICK m \in P : \A k \in P : k <= m
    <2>1. Max(P) \in P /\ \A y \in P : y <= Max(P)
      BY <1>3, <1>4, MaxIs
    <2>2. QED
      BY <2>1
  <1>6. \A k \in (m + 1) .. Len(queue) : \E g \in DOMAIN cursors : ~Mem!AckedPrefix(g, k)
    <2>1. ASSUME NEW k \in (m + 1) .. Len(queue) PROVE k \notin P
      <3>1. m \in Nat
        BY <1>3, <1>5
      <3>2. k \in Nat /\ ~(k <= m)
        BY <1>2, <3>1
      <3>3. QED
        BY <1>5, <3>2
    <2>2. ASSUME NEW k \in (m + 1) .. Len(queue) PROVE k \in 0 .. Len(queue)
      BY <1>2, <1>3, <1>5
    <2>3. QED
      BY <1>1, <2>1, <2>2
  <1>7. m \in 0 .. Len(queue) /\ \A g \in DOMAIN cursors : Mem!AckedPrefix(g, m)
    BY <1>1, <1>5
  <1>8. n \in 0 .. Len(queue) /\ \A g \in DOMAIN cursors : Mem!AckedPrefix(g, n)
    BY <1>6, <1>7 DEF Mem!TrimCount
  <1>9. QED
    BY <1>8 DEF Mem!AckedPrefix

LEMMA MemTrim ==
    ASSUME MemInv, Mem!TrimAcked
    PROVE  /\ MemInv'
           /\ DOMAIN cursors # {} /\ \A g \in DOMAIN cursors : g \in Groups /\ Pos(g)' = Pos(g)
           /\ seq' = seq /\ pc' = pc /\ batch' = batch
           /\ pel' = pel /\ evicted' = evicted /\ handed' = handed /\ outcome' = outcome
  <1>0. StreamOK /\ ShapeOK
    BY DEF MemInv
  <1>1. PICK n : n = Mem!TrimCount
    OBVIOUS
  <1>1b. PICK kept : kept = {g \in DOMAIN cursors : cursors[g] > n}
    OBVIOUS
  <1>2. /\ DOMAIN cursors # {} /\ n > 0
        /\ queue' = SubSeq(queue, n + 1, Len(queue))
        /\ cursors' = [g \in kept |-> cursors[g] - n]
        /\ seq' = seq /\ pel' = pel /\ evicted' = evicted
        /\ pc' = pc /\ batch' = batch /\ acks' = acks
        /\ handed' = handed /\ outcome' = outcome /\ batchOf' = batchOf
    BY <1>1, <1>1b DEF Mem!TrimAcked, Mem!threadVars, Mem!historyVars
  <1>3. PICK l \in Nat : l = Len(queue) /\ l <= seq /\ seq \in Nat
    BY <1>0, LenProperties DEF StreamOK
  <1>4. n \in 1 .. l /\ \A g \in DOMAIN cursors : cursors[g] \in n .. l
    <2>1. n \in 0 .. l /\ \A g \in DOMAIN cursors : n <= cursors[g]
      BY <1>0, <1>1, <1>3, TrimIs
    <2>2. QED
      BY <1>0, <1>2, <1>3, <2>1 DEF StreamOK
  <1>5. /\ queue' \in Seq(Nat) /\ Len(queue') = l - n
        /\ \A k \in 1 .. l - n : queue'[k] = queue[n + k]
    <2>1. \A k \in n + 1 .. l : queue[k] \in Nat
      <3>1. \A k \in 1 .. l : queue[k] \in Nat
        BY <1>0, <1>3 DEF StreamOK
      <3>2. QED
        BY <1>3, <1>4, <3>1
    <2>2. /\ queue' \in Seq(Nat) /\ Len(queue') = IF n + 1 <= l THEN l - (n + 1) + 1 ELSE 0
          /\ \A k \in 1 .. l - (n + 1) + 1 : queue'[k] = queue[(n + 1) + k - 1]
      <3>1. n + 1 \in Int /\ l \in Int /\ queue' = SubSeq(queue, n + 1, l)
        BY <1>2, <1>3, <1>4
      <3>2. QED
        BY <2>1, <3>1, SubSeqProperties
    <2>3. l - (n + 1) + 1 = l - n /\ \A k \in 1 .. l - n : (n + 1) + k - 1 = n + k
      BY <1>3, <1>4
    <2>4. QED
      BY <1>3, <1>4, <2>2, <2>3, SMTT(30)
  <1>6. StreamOK'
    <2>1. ASSUME NEW k \in 1 .. l - n PROVE queue'[k] = (seq' - (l - n)) + k
      <3>1. n + k \in 1 .. l
        BY <1>3, <1>4
      <3>2. queue[n + k] = (seq - l) + (n + k)
        BY <1>0, <1>3, <3>1 DEF StreamOK
      <3>3. QED
        BY <1>2, <1>3, <1>4, <1>5, <3>2
    <2>2. \A g \in kept : cursors[g] - n \in 1 .. l - n
      BY <1>1b, <1>3, <1>4
    <2>3. kept \subseteq Groups /\ seq' \in Nat /\ seq' <= MaxMsgs /\ l - n <= seq'
      BY <1>0, <1>1b, <1>2, <1>3, <1>4 DEF StreamOK
    <2>4. QED
      BY <1>2, <1>5, <2>1, <2>2, <2>3 DEF StreamOK
  <1>7. ASSUME NEW g \in Groups
        PROVE  /\ Pos(g) \in Nat /\ Pos(g)' \in Nat /\ Pos(g) <= Pos(g)'
               /\ g \in DOMAIN cursors => Pos(g)' = Pos(g)
    <2>1. CASE g \in DOMAIN cursors
      <3>1. Cursor(g) = cursors[g] /\ cursors[g] \in n .. l
        BY <1>4, <2>1 DEF Cursor
      <3>2. Cursor(g)' = cursors[g] - n
        <4>1. CASE g \in kept
          BY <1>2, <4>1 DEF Cursor
        <4>2. CASE g \notin kept
          <5>1. cursors[g] = n /\ Cursor(g)' = 0
            BY <1>1b, <1>2, <1>3, <1>4, <2>1, <3>1, <4>2 DEF Cursor
          <5>2. QED
            BY <1>3, <1>4, <5>1
        <4>3. QED
          BY <4>1, <4>2
      <3>3. Pos(g) = (seq - l) + cursors[g] /\ Pos(g)' = (seq - (l - n)) + (cursors[g] - n)
        BY <1>2, <1>3, <1>5, <3>1, <3>2 DEF Pos
      <3>4. l \in Nat /\ n \in Nat /\ cursors[g] \in Nat /\ seq \in Nat /\ l <= seq
        BY <1>3, <1>4, <3>1
      <3>5. QED
        BY <3>3, <3>4
    <2>2. CASE g \notin DOMAIN cursors
      <3>1. Cursor(g) = 0 /\ Cursor(g)' = 0
        BY <1>1b, <1>2, <2>2 DEF Cursor
      <3>2. QED
        BY <1>2, <1>3, <1>4, <1>5, <2>2, <3>1 DEF Pos
    <2>3. QED
      BY <2>1, <2>2
  <1>8. ASSUME NEW g \in Groups PROVE GroupOK(g)'
    <2>1. GroupOK(g) /\ Pos(g) <= Pos(g)'
      BY <1>7 DEF MemInv
    <2>2. QED
      BY <1>0, <1>2, <1>6, <2>1, SameGroup
  <1>9. ASSUME NEW t \in Threads PROVE ThreadOK(t)' /\ BatchIds(t)' = BatchIds(t)
    BY <1>2 DEF MemInv, ThreadOK, BatchIds, PelIds, OneBatch
  <1>10. ASSUME NEW t \in Threads, NEW u \in Threads PROVE PairOK(t, u)'
    BY <1>2, <1>9 DEF MemInv, PairOK
  <1>11. ShapeOK'
    BY <1>0, <1>2 DEF ShapeOK
  <1>12. MemInv'
    BY <1>6, <1>8, <1>9, <1>10, <1>11 DEF MemInv
  <1>13. DOMAIN cursors \subseteq Groups
    BY <1>0 DEF StreamOK
  <1>14. QED
    BY <1>2, <1>7, <1>12, <1>13

LEMMA MemStutter ==
    ASSUME MemInv, UNCHANGED Mem!vars
    PROVE  /\ MemInv'
           /\ seq' = seq /\ queue' = queue /\ cursors' = cursors /\ pc' = pc /\ batch' = batch
           /\ pel' = pel /\ evicted' = evicted /\ handed' = handed /\ outcome' = outcome
  <1>1. /\ seq' = seq /\ queue' = queue /\ cursors' = cursors /\ pc' = pc /\ batch' = batch
        /\ pel' = pel /\ evicted' = evicted /\ handed' = handed /\ outcome' = outcome
        /\ acks' = acks /\ batchOf' = batchOf
    BY DEF Mem!vars, Mem!busVars, Mem!threadVars, Mem!historyVars
  <1>2. StreamOK' /\ ShapeOK'
    BY <1>1 DEF MemInv, StreamOK, ShapeOK
  <1>3. \A g \in Groups : GroupOK(g)'
    BY <1>1 DEF MemInv, GroupOK, Pos, Cursor, PelIds, OneBatch
  <1>4. \A t \in Threads : ThreadOK(t)'
    BY <1>1 DEF MemInv, ThreadOK, BatchIds, PelIds, OneBatch
  <1>5. \A t, u \in Threads : PairOK(t, u)'
    BY <1>1 DEF MemInv, PairOK, BatchIds
  <1>6. QED
    BY <1>1, <1>2, <1>3, <1>4, <1>5 DEF MemInv

LEMMA MemNext == MemInv /\ [Mem!Next]_Mem!vars => MemInv'
  <1>1. SUFFICES ASSUME MemInv, [Mem!Next]_Mem!vars PROVE MemInv'
    OBVIOUS
  <1>2. CASE Mem!Produce
    BY <1>1, <1>2, MemProduce
  <1>3. CASE Mem!TrimAcked
    BY <1>1, <1>3, MemTrim
  <1>4. ASSUME NEW t \in Threads, Mem!Consumer(t) PROVE MemInv'
    <2>1. CASE Mem!ConsumeClaim(t)
      BY <1>1, <2>1, MemClaim
    <2>2. CASE Mem!ConsumePend(t)
      BY <1>1, <2>2, MemPend
    <2>3. ASSUME NEW S \in SUBSET Mem!Ids, Mem!ClaimPending(t, S) PROVE MemInv'
      BY <1>1, <2>3, MemRedeliver
    <2>4. ASSUME NEW ok \in SUBSET Mem!Ids, Mem!Process(t, ok) PROVE MemInv'
      BY <1>1, <2>4, MemProcess
    <2>5. CASE Mem!AckBatch(t)
      BY <1>1, <2>5, MemAck
    <2>6. QED
      BY <1>4, <2>1, <2>2, <2>3, <2>4, <2>5 DEF Mem!Consumer
  <1>5. CASE UNCHANGED Mem!vars
    BY <1>1, <1>5, MemStutter
  <1>6. QED
    BY <1>1, <1>2, <1>3, <1>4, <1>5 DEF Mem!Next

LEMMA MemInvariant == Mem!Spec => []MemInv
  BY MemInit, MemNext, PTL DEF Mem!Spec

\* bus.py, _MemoryBus.consume: for any number of groups and threads, any cap and
\* any interleaving of the two lock scopes with trims and redeliveries, a pending
\* list is over its cap only with the entries of one consume() call.
THEOREM CapIsExceededByOneBatch == Mem!Spec => []OverCapIsOneBatch
  <1>1. MemInv => OverCapIsOneBatch
    BY DEF MemInv, GroupOK, OneBatch, OverCapIsOneBatch
  <1>2. QED
    BY <1>1, MemInvariant, PTL

-----------------------------------------------------------------------------
(* With one group on the topic, the bus keeps the delivery contract.       *)

\* The stages of a stream of s entries of which p have been read and L are live.
Stage(s, p, L) ==
    [i \in Ids |-> IF i > s THEN "absent" ELSE
                   IF i > p THEN "queued" ELSE
                   IF i \in L THEN "pending" ELSE "done"]

Transit(g) == {i \in handed[g] : InTransit(g, i)}

Live(g) == PelIds(g) \cup Transit(g)

\* Everything the group has read was handed to it.
NothingSkipped == \A g \in Groups : handed[g] = 1 .. Pos(g)

StatusByStage == TopicStatus = [g \in Groups |-> Stage(seq, Pos(g), Live(g))]

Given == [g \in Groups |-> outcome[g] \cup evicted[g]]

LEMMA StatusIs == MemInv /\ NothingSkipped => StatusByStage
  <1>1. SUFFICES ASSUME MemInv, NothingSkipped PROVE StatusByStage
    OBVIOUS
  <1>2. ASSUME NEW g \in Groups, NEW i \in Ids
        PROVE  StatusOf(g, i) = Stage(seq, Pos(g), Live(g))[i]
    <2>1. PICK p \in Nat : p = Pos(g) /\ p <= seq /\ seq \in Nat /\ handed[g] = 1 .. p
      BY <1>1, CursorIs DEF MemInv, NothingSkipped, StreamOK
    <2>2. i \in Nat \ {0}
      BY MemoryTopicAssumption DEF Ids
    <2>3. i > p /\ i <= seq => Ahead(g, i)
      <3>1. SUFFICES ASSUME i > p, i <= seq PROVE Ahead(g, i)
        OBVIOUS
      <3>2. Mem!TailFrom(Cursor(g)) = (p + 1) .. seq
        BY <1>1, <2>1, TailIs DEF MemInv
      <3>3. i \in Mem!TailFrom(Cursor(g))
        BY <2>1, <2>2, <3>1, <3>2
      <3>4. QED
        BY <3>3 DEF Mem!TailFrom, Ahead
    <2>4. i <= p <=> i \in handed[g]
      BY <2>1, <2>2
    <2>5. i \in handed[g] => (i \in Live(g) <=> i \in PelIds(g) \/ InTransit(g, i))
      BY DEF Live, Transit
    <2>6. StatusOf(g, i) =
            CASE i > seq -> "absent"
              [] i <= seq /\ i \notin handed[g] /\ Ahead(g, i) -> "queued"
              [] i <= seq /\ i \notin handed[g] /\ ~Ahead(g, i) -> "lost"
              [] i \in handed[g] /\ (i \in PelIds(g) \/ InTransit(g, i)) -> "pending"
              [] i \in handed[g] /\ i \notin PelIds(g) /\ ~InTransit(g, i) -> "done"
      BY DEF StatusOf
    <2>7. Stage(seq, p, Live(g))[i] = IF i > seq THEN "absent" ELSE
                                      IF i > p THEN "queued" ELSE
                                      IF i \in Live(g) THEN "pending" ELSE "done"
      BY DEF Stage
    <2>8. CASE i > seq
      BY <2>1, <2>2, <2>4, <2>6, <2>7, <2>8
    <2>9. CASE i <= seq /\ i > p
      BY <2>1, <2>2, <2>3, <2>4, <2>6, <2>7, <2>9
    <2>10. CASE i <= p /\ i \in Live(g)
      BY <2>1, <2>2, <2>4, <2>5, <2>6, <2>7, <2>10
    <2>11. CASE i <= p /\ i \notin Live(g)
      BY <2>1, <2>2, <2>4, <2>5, <2>6, <2>7, <2>11
    <2>12. QED
      BY <2>1, <2>2, <2>8, <2>9, <2>10, <2>11
  <1>3. ASSUME NEW g \in Groups PROVE [i \in Ids |-> StatusOf(g, i)] = Stage(seq, Pos(g), Live(g))
    <2>1. PICK b : b = Stage(seq, Pos(g), Live(g))
      OBVIOUS
    <2>2. b = [i \in Ids |-> b[i]]
      BY <2>1 DEF Stage
    <2>3. \A i \in Ids : StatusOf(g, i) = b[i]
      BY <1>2, <2>1
    <2>4. [i \in Ids |-> StatusOf(g, i)] = [i \in Ids |-> b[i]]
      BY <2>3
    <2>5. QED
      BY <2>1, <2>2, <2>4, Zenon
  <1>4. QED
    BY <1>3 DEF StatusByStage, TopicStatus

LEMMA StagePublish ==
    ASSUME NEW s \in Nat, s + 1 \in Ids, NEW p \in 0 .. s, NEW L
    PROVE  /\ Stage(s + 1, p, L) = [Stage(s, p, L) EXCEPT ![s + 1] = "queued"]
           /\ Stage(s, p, L)[s + 1] = "absent"
  <1>1. \A i \in Ids : i \in Nat
    BY MemoryTopicAssumption DEF Ids
  <1>2. PICK a : a = Stage(s, p, L)
    OBVIOUS
  <1>3. PICK b : b = Stage(s + 1, p, L)
    OBVIOUS
  <1>4. /\ a = [i \in Ids |-> IF i > s THEN "absent" ELSE IF i > p THEN "queued" ELSE
                             IF i \in L THEN "pending" ELSE "done"]
        /\ b = [i \in Ids |-> IF i > s + 1 THEN "absent" ELSE IF i > p THEN "queued" ELSE
                             IF i \in L THEN "pending" ELSE "done"]
    BY <1>2, <1>3 DEF Stage
  <1>5. a[s + 1] = "absent" /\ b[s + 1] = "queued"
    BY <1>4
  <1>6. \A i \in Ids : i # s + 1 => b[i] = a[i]
    BY <1>1, <1>4
  <1>7. b = [a EXCEPT ![s + 1] = "queued"]
    <2>1. DOMAIN a = Ids /\ DOMAIN b = Ids /\ b = [i \in Ids |-> b[i]]
      BY <1>4
    <2>2. [a EXCEPT ![s + 1] = "queued"] = [i \in Ids |-> IF i = s + 1 THEN "queued" ELSE a[i]]
      BY <2>1
    <2>3. [i \in Ids |-> IF i = s + 1 THEN "queued" ELSE a[i]] = [i \in Ids |-> b[i]]
      BY <1>5, <1>6
    <2>4. QED
      BY <2>1, <2>2, <2>3, Zenon
  <1>8. QED
    BY <1>2, <1>3, <1>5, <1>7

LEMMA AsPublish ==
    ASSUME NEW g, Groups = {g}, NEW a, TopicStatus = [h \in Groups |-> a],
           NEW i \in Ids, a[i] = "absent",
           TopicStatus' = [h \in Groups |-> [a EXCEPT ![i] = "queued"]], Given' = Given
    PROVE  Topic!Next
  <1>1. Topic!Absent(i)
    BY DEF Topic!Absent
  <1>2. TopicStatus' = [h \in Groups |-> [TopicStatus[h] EXCEPT ![i] = "queued"]]
    OBVIOUS
  <1>3. Topic!Publish(i)
    BY <1>1, <1>2 DEF Topic!Publish, Given
  <1>4. QED
    BY <1>3 DEF Topic!Next

LEMMA AsMove ==
    ASSUME NEW g, Groups = {g}, NEW a, TopicStatus = [h \in Groups |-> a], NEW S, NEW s,
           TopicStatus' = [h \in Groups |-> [i \in Ids |-> IF i \in S THEN s ELSE a[i]]]
    PROVE  Topic!Move(g, S, s)
  <1>1. PICK b : b = [i \in Ids |-> IF i \in S THEN s ELSE a[i]]
    OBVIOUS
  <1>2. TopicStatus[g] = a /\ TopicStatus' = [h \in Groups |-> b]
    BY <1>1
  <1>3. [TopicStatus EXCEPT ![g] = b] = [h \in Groups |-> b]
    OBVIOUS
  <1>4. TopicStatus' = [TopicStatus EXCEPT ![g] = [i \in Ids |-> IF i \in S THEN s ELSE TopicStatus[g][i]]]
    BY <1>1, <1>2, <1>3
  <1>5. QED
    BY <1>4 DEF Topic!Move

LEMMA AsDeliver ==
    ASSUME NEW g, Groups = {g}, NEW a, TopicStatus = [h \in Groups |-> a],
           NEW S \in SUBSET Ids, \A i \in S : a[i] = "queued",
           TopicStatus' = [h \in Groups |-> [i \in Ids |-> IF i \in S THEN "pending" ELSE a[i]]],
           Given' = Given
    PROVE  Topic!Next
  <1>1. S \subseteq Topic!At(g, "queued")
    BY DEF Topic!At
  <1>2. Topic!Move(g, S, "pending")
    BY AsMove
  <1>3. Topic!Deliver(g, S)
    BY <1>1, <1>2 DEF Topic!Deliver, Given
  <1>4. QED
    BY <1>3 DEF Topic!Next

LEMMA AsConclude ==
    ASSUME NEW g, Groups = {g}, NEW a, TopicStatus = [h \in Groups |-> a],
           NEW C \in SUBSET Ids, \A i \in C : a[i] # "absent",
           NEW S \in SUBSET Ids, \A i \in S : a[i] = "pending", S \subseteq Given[g] \cup C,
           TopicStatus' = [h \in Groups |-> [i \in Ids |-> IF i \in S THEN "done" ELSE a[i]]],
           Given'[g] = Given[g] \cup C
    PROVE  Topic!Next
  <1>1. C \subseteq Topic!Present(g) /\ S \subseteq Topic!At(g, "pending")
    BY DEF Topic!Present, Topic!At
  <1>2. Topic!Move(g, S, "done")
    BY AsMove
  <1>3. PICK d : d = Given
    OBVIOUS
  <1>4. PICK e : e = Given'
    OBVIOUS
  <1>5. d = [h \in Groups |-> outcome[h] \cup evicted[h]] /\ e = [h \in Groups |-> outcome'[h] \cup evicted'[h]]
    BY <1>3, <1>4 DEF Given
  <1>6. e = [d EXCEPT ![g] = @ \cup C]
    BY <1>3, <1>4, <1>5
  <1>7. Topic!Conclude(g, C, S)
    BY <1>1, <1>2, <1>3, <1>4, <1>5, <1>6 DEF Topic!Conclude
  <1>8. QED
    BY <1>7 DEF Topic!Next

\* The entries between the locks, thread by thread.
LEMMA TransitIs ==
    ASSUME MemInv, NEW g \in Groups
    PROVE  /\ Transit(g) = UNION {BatchIds(t) : t \in {u \in Threads : GroupOf[u] = g /\ pc[u] = "claimed"}}
           /\ Transit(g) \subseteq handed[g] /\ Transit(g) \cap PelIds(g) = {} /\ PelIds(g) \subseteq handed[g]
  <1>1. \A t \in Threads : GroupOf[t] = g => BatchIds(t) \subseteq handed[g]
    BY DEF MemInv, ThreadOK
  <1>2. \A t \in Threads : GroupOf[t] = g /\ pc[t] = "claimed" => BatchIds(t) \cap PelIds(g) = {}
    BY DEF MemInv, ThreadOK
  <1>3. Transit(g) = UNION {BatchIds(t) : t \in {u \in Threads : GroupOf[u] = g /\ pc[u] = "claimed"}}
    BY <1>1 DEF Transit, InTransit
  <1>4. PelIds(g) \subseteq handed[g]
    BY DEF MemInv, GroupOK, PelGood, PelIds
  <1>5. QED
    BY <1>2, <1>3, <1>4 DEF Transit

\* Steps in which no thread enters or leaves the gap between the locks.
LEMMA TransitSame ==
    ASSUME NEW g \in Groups, NEW t \in Threads, DOMAIN pc = Threads, handed' = handed,
           NEW s, pc' = [pc EXCEPT ![t] = s], pc[t] # "claimed", s # "claimed",
           \A u \in Threads \ {t} : BatchIds(u)' = BatchIds(u)
    PROVE  Transit(g)' = Transit(g)
  <1>1. pc'[t] = s /\ \A u \in Threads \ {t} : pc'[u] = pc[u]
    OBVIOUS
  <1>2. \A i : InTransit(g, i)' <=> InTransit(g, i)
    BY <1>1 DEF InTransit
  <1>3. QED
    BY <1>2 DEF Transit

\* A step of the bus is one of the contract, or none.
Conforms ==
    /\ NothingSkipped'
    /\ StatusByStage /\ StatusByStage' => Topic!Next \/ (TopicStatus' = TopicStatus /\ Given' = Given)

LEMMA OneGroupView ==
    ASSUME NEW g, Groups = {g}, MemInv, NothingSkipped
    PROVE  /\ g \in Groups /\ seq \in Nat /\ Pos(g) \in 0 .. seq /\ seq <= MaxMsgs /\ MaxMsgs \in Nat
           /\ handed[g] = 1 .. Pos(g) /\ Live(g) \in SUBSET (1 .. Pos(g))
           /\ StatusByStage <=> TopicStatus = [h \in Groups |-> Stage(seq, Pos(g), Live(g))]
  <1>1. g \in Groups /\ StreamOK
    BY DEF MemInv
  <1>2. Pos(g) \in 0 .. seq /\ seq \in Nat /\ seq <= MaxMsgs /\ MaxMsgs \in Nat
    BY <1>1, CursorIs, MemoryTopicAssumption DEF StreamOK
  <1>3. handed[g] = 1 .. Pos(g)
    BY <1>1 DEF NothingSkipped
  <1>4. Live(g) \subseteq handed[g]
    BY <1>1, TransitIs DEF Live
  <1>5. [h \in Groups |-> Stage(seq, Pos(h), Live(h))] = [h \in Groups |-> Stage(seq, Pos(g), Live(g))]
    OBVIOUS
  <1>6. QED
    BY <1>1, <1>2, <1>3, <1>4, <1>5 DEF StatusByStage

\* A step that leaves the stream, what was handed out and the live entries alone,
\* up to those it concludes.
LEMMA ConformsQuiet ==
    ASSUME NEW g, Groups = {g}, MemInv, NothingSkipped, seq' = seq, Pos(g)' = Pos(g), handed' = handed,
           NEW C \in SUBSET handed[g], NEW S \in SUBSET Live(g), S \subseteq Given[g] \cup C,
           Live(g)' = Live(g) \ S, Given'[g] = Given[g] \cup C
    PROVE  Conforms
  <1>1. NothingSkipped'
    BY DEF NothingSkipped
  <1>2. SUFFICES ASSUME StatusByStage, StatusByStage' PROVE Topic!Next
    BY <1>1 DEF Conforms
  <1>3. PICK s \in Nat : s = seq
    BY OneGroupView
  <1>4. PICK p \in 0 .. s : p = Pos(g)
    BY <1>3, OneGroupView
  <1>5. PICK L \in SUBSET (1 .. p) : L = Live(g)
    BY <1>4, OneGroupView
  <1>6. PICK a : a = Stage(s, p, L)
    OBVIOUS
  <1>7. TopicStatus = [h \in Groups |-> a]
    BY <1>2, <1>3, <1>4, <1>5, <1>6, OneGroupView
  <1>8. TopicStatus' = [h \in Groups |-> Stage(s, p, L \ S)]
    <2>1. TopicStatus' = [h \in Groups |-> Stage(seq, Pos(h), Live(h))']
      BY <1>2 DEF StatusByStage
    <2>2. Stage(seq, Pos(g), Live(g))' = Stage(s, p, L \ S)
      BY <1>3, <1>4, <1>5 DEF Stage
    <2>3. QED
      BY <2>1, <2>2
  <1>9. /\ Stage(s, p, L \ S) = [i \in Ids |-> IF i \in S THEN "done" ELSE a[i]]
        /\ \A i \in Ids : i \in S => a[i] = "pending"
        /\ \A i \in Ids : i <= p => a[i] # "absent"
    <2>1. S \in SUBSET L
      BY <1>5
    <2>2. /\ Stage(s, p, L \ S) = [i \in Ids |-> IF i \in S THEN "done" ELSE Stage(s, p, L)[i]]
          /\ \A i \in Ids : i \in S => Stage(s, p, L)[i] = "pending"
          /\ \A i \in Ids : i <= p => Stage(s, p, L)[i] # "absent"
      <3>1. \A i \in Ids : i \in Nat
        BY MemoryTopicAssumption DEF Ids
      <3>2. QED
        BY <2>1, <3>1 DEF Stage
    <2>3. QED
      BY <1>6, <2>2
  <1>10. C \subseteq 1 .. p /\ 1 .. p \subseteq Ids /\ S \subseteq Ids
    <2>1. C \subseteq 1 .. p /\ p <= MaxMsgs /\ MaxMsgs \in Nat
      BY <1>3, <1>4, OneGroupView
    <2>2. QED
      BY <1>4, <1>5, <2>1 DEF Ids
  <1>11. \A i \in C : a[i] # "absent"
    BY <1>4, <1>9, <1>10
  <1>12. \A i \in S : a[i] = "pending"
    BY <1>9, <1>10
  <1>13. C \in SUBSET Ids /\ S \in SUBSET Ids
    BY <1>10
  <1>14. TopicStatus' = [h \in Groups |-> [i \in Ids |-> IF i \in S THEN "done" ELSE a[i]]]
    BY <1>8, <1>9
  <1>15. QED
    BY <1>7, <1>11, <1>12, <1>13, <1>14, AsConclude

\* The same, when nothing is concluded.
LEMMA ConformsStill ==
    ASSUME NEW g, Groups = {g}, MemInv, NothingSkipped, seq' = seq, Pos(g)' = Pos(g), handed' = handed,
           Live(g)' = Live(g), outcome' = outcome, evicted' = evicted
    PROVE  Conforms
  <1>1. PICK C : C = {}
    OBVIOUS
  <1>2. C \in SUBSET handed[g] /\ C \in SUBSET Live(g) /\ C \subseteq Given[g] \cup C /\ Live(g)' = Live(g) \ C
    BY <1>1
  <1>3. Given'[g] = Given[g] \cup C
    BY <1>1 DEF Given
  <1>4. QED
    BY <1>2, <1>3, ConformsQuiet

LEMMA ProduceConforms ==
    ASSUME NEW g, Groups = {g}, MemInv, NothingSkipped, Mem!Produce
    PROVE  Conforms
  <1>1. /\ seq < MaxMsgs /\ seq' = seq + 1
        /\ pel' = pel /\ evicted' = evicted /\ pc' = pc /\ batch' = batch
        /\ handed' = handed /\ outcome' = outcome
    BY DEF Mem!Produce, Mem!threadVars, Mem!historyVars
  <1>2. Pos(g)' = Pos(g)
    BY MemProduce
  <1>3. NothingSkipped'
    BY <1>1, <1>2 DEF NothingSkipped
  <1>4. Live(g)' = Live(g)
    BY <1>1 DEF Live, Transit, InTransit, PelIds, BatchIds
  <1>5. SUFFICES ASSUME StatusByStage, StatusByStage' PROVE Topic!Next
    BY <1>3 DEF Conforms
  <1>6. PICK s \in Nat : s = seq
    BY OneGroupView
  <1>7. PICK p \in 0 .. s : p = Pos(g)
    BY <1>6, OneGroupView
  <1>8. PICK L : L = Live(g)
    OBVIOUS
  <1>9. PICK a : a = Stage(s, p, L)
    OBVIOUS
  <1>10. TopicStatus = [h \in Groups |-> a]
    BY <1>5, <1>6, <1>7, <1>8, <1>9, OneGroupView
  <1>11. TopicStatus' = [h \in Groups |-> Stage(s + 1, p, L)]
    <2>1. TopicStatus' = [h \in Groups |-> Stage(seq, Pos(h), Live(h))']
      BY <1>5 DEF StatusByStage
    <2>2. Stage(seq, Pos(g), Live(g))' = Stage(s + 1, p, L)
      BY <1>1, <1>2, <1>4, <1>6, <1>7, <1>8 DEF Stage
    <2>3. QED
      BY <2>1, <2>2
  <1>12. s + 1 \in Ids
    BY <1>1, <1>6, MemoryTopicAssumption DEF Ids
  <1>13. Stage(s + 1, p, L) = [a EXCEPT ![s + 1] = "queued"] /\ a[s + 1] = "absent"
    BY <1>9, <1>12, StagePublish
  <1>14. Given' = Given
    BY <1>1 DEF Given
  <1>15. QED
    BY <1>10, <1>11, <1>12, <1>13, <1>14, AsPublish

LEMMA ClaimConforms ==
    ASSUME NEW g, Groups = {g}, MemInv, NothingSkipped, NEW t \in Threads, Mem!ConsumeClaim(t)
    PROVE  Conforms
  <1>0. GroupOf[t] = g /\ g \in Groups
    BY MemoryTopicAssumption
  <1>1. PICK s \in Nat : s = seq
    BY OneGroupView
  <1>2. PICK p \in 0 .. s : p = Pos(g)
    BY <1>1, OneGroupView
  <1>3. PICK L \in SUBSET (1 .. p) : L = Live(g)
    BY <1>2, OneGroupView
  <1>4. PICK S : S = (p + 1) .. s
    OBVIOUS
  <1>5. /\ pc[t] = "idle" /\ pc' = [pc EXCEPT ![t] = "claimed"]
        /\ seq' = s /\ Pos(g)' = s /\ BatchIds(t)' = S
        /\ \A u \in Threads \ {t} : BatchIds(u)' = BatchIds(u)
        /\ handed' = [handed EXCEPT ![g] = @ \cup S]
        /\ pel' = pel /\ outcome' = outcome /\ evicted' = evicted
    BY <1>0, <1>1, <1>2, <1>4, MemClaim
  <1>6. ShapeOK
    BY DEF MemInv
  <1>7. handed'[g] = 1 .. s /\ handed[g] = 1 .. p
    <2>1. handed[g] = 1 .. p /\ handed'[g] = handed[g] \cup S
      BY <1>0, <1>2, <1>5, <1>6, OneGroupView DEF ShapeOK
    <2>2. QED
      BY <1>2, <1>4, <2>1
  <1>8. NothingSkipped'
    BY <1>5, <1>7 DEF NothingSkipped
  <1>9. Live(g)' = L \cup S
    <2>1. pc'[t] = "claimed" /\ \A u \in Threads \ {t} : pc'[u] = pc[u]
      BY <1>5, <1>6 DEF ShapeOK
    <2>2. \A i : InTransit(g, i)' <=> (InTransit(g, i) \/ i \in S)
      <3>1. \A i : InTransit(g, i) => \E u \in Threads \ {t} : GroupOf[u] = g /\ pc[u] = "claimed" /\ i \in BatchIds(u)
        BY <1>5 DEF InTransit
      <3>2. \A i : InTransit(g, i)' => InTransit(g, i) \/ i \in S
        BY <1>5, <2>1 DEF InTransit
      <3>3. \A i : InTransit(g, i) => InTransit(g, i)'
        BY <1>5, <2>1, <3>1 DEF InTransit
      <3>4. \A i \in S : InTransit(g, i)'
        BY <1>0, <1>5, <2>1 DEF InTransit
      <3>5. QED
        BY <3>2, <3>3, <3>4
    <2>3. Transit(g)' = Transit(g) \cup S
      <3>1. \A i : InTransit(g, i) => i \in handed[g]
        BY DEF InTransit, MemInv, ThreadOK
      <3>2. handed'[g] = handed[g] \cup S
        BY <1>0, <1>5, <1>6 DEF ShapeOK
      <3>3. QED
        BY <2>2, <3>1, <3>2 DEF Transit
    <2>4. PelIds(g)' = PelIds(g)
      BY <1>5 DEF PelIds
    <2>5. QED
      BY <1>3, <2>3, <2>4 DEF Live
  <1>10. SUFFICES ASSUME StatusByStage, StatusByStage' PROVE Topic!Next
    BY <1>8 DEF Conforms
  <1>11. PICK a : a = Stage(s, p, L)
    OBVIOUS
  <1>12. TopicStatus = [h \in Groups |-> a]
    BY <1>1, <1>2, <1>3, <1>10, <1>11, OneGroupView
  <1>13. TopicStatus' = [h \in Groups |-> Stage(s, s, L \cup S)]
    <2>1. TopicStatus' = [h \in Groups |-> Stage(seq, Pos(h), Live(h))']
      BY <1>10 DEF StatusByStage
    <2>2. Stage(seq, Pos(g), Live(g))' = Stage(s, s, L \cup S)
      BY <1>5, <1>9 DEF Stage
    <2>3. QED
      BY <2>1, <2>2
  <1>14. /\ Stage(s, s, L \cup S) = [i \in Ids |-> IF i \in S THEN "pending" ELSE a[i]]
         /\ \A i \in Ids : i \in S => a[i] = "queued"
    <2>1. /\ Stage(s, s, L \cup S) = [i \in Ids |-> IF i \in S THEN "pending" ELSE Stage(s, p, L)[i]]
          /\ \A i \in Ids : i \in S => Stage(s, p, L)[i] = "queued"
      <3>1. \A i \in Ids : i \in Nat
        BY MemoryTopicAssumption DEF Ids
      <3>2. QED
        BY <1>4, <3>1 DEF Stage
    <2>2. QED
      BY <1>11, <2>1
  <1>15. S \in SUBSET Ids
    BY <1>1, <1>2, <1>4, OneGroupView DEF Ids
  <1>16. \A i \in S : a[i] = "queued"
    BY <1>14, <1>15
  <1>17. Given' = Given
    BY <1>5 DEF Given
  <1>18. TopicStatus' = [h \in Groups |-> [i \in Ids |-> IF i \in S THEN "pending" ELSE a[i]]]
    BY <1>13, <1>14
  <1>19. QED
    BY <1>12, <1>15, <1>16, <1>17, <1>18, AsDeliver

LEMMA PendConforms ==
    ASSUME NEW g, Groups = {g}, MemInv, NothingSkipped, NEW t \in Threads, Mem!ConsumePend(t)
    PROVE  Conforms
  <1>0. GroupOf[t] = g /\ g \in Groups /\ ShapeOK
    BY MemoryTopicAssumption DEF MemInv
  <1>1. /\ pc[t] = "claimed" /\ pc' = [pc EXCEPT ![t] = "work"] /\ batch' = batch
        /\ seq' = seq /\ queue' = queue /\ cursors' = cursors /\ handed' = handed /\ outcome' = outcome
        /\ \E lost \in SUBSET PelIds(g) :
              /\ PelIds(g)' = (PelIds(g) \ lost) \cup BatchIds(t)
              /\ evicted'[g] = evicted[g] \cup lost
    BY <1>0, MemPend
  <1>2. PICK lost \in SUBSET PelIds(g) :
              /\ PelIds(g)' = (PelIds(g) \ lost) \cup BatchIds(t)
              /\ evicted'[g] = evicted[g] \cup lost
    BY <1>1
  <1>3. Transit(g) \cap PelIds(g) = {} /\ PelIds(g) \subseteq handed[g]
    BY <1>0, TransitIs
  <1>4. BatchIds(t) \subseteq Transit(g) /\ Transit(g)' \subseteq Transit(g) /\ Transit(g) \subseteq Transit(g)' \cup BatchIds(t)
    <2>1. pc'[t] = "work" /\ \A u \in Threads \ {t} : pc'[u] = pc[u]
      BY <1>0, <1>1 DEF ShapeOK
    <2>2. \A u \in Threads : BatchIds(u)' = BatchIds(u)
      BY <1>1 DEF BatchIds
    <2>3. \A i : InTransit(g, i)' => InTransit(g, i)
      BY <2>1, <2>2 DEF InTransit
    <2>4. \A i : InTransit(g, i) => InTransit(g, i)' \/ i \in BatchIds(t)
      BY <2>1, <2>2 DEF InTransit
    <2>5. BatchIds(t) \subseteq handed[g] /\ \A i \in BatchIds(t) : InTransit(g, i)
      BY <1>0, <1>1 DEF InTransit, MemInv, ThreadOK
    <2>6. QED
      BY <1>1, <2>3, <2>4, <2>5 DEF Transit
  <1>5. Live(g)' = Live(g) \ lost
    BY <1>2, <1>3, <1>4 DEF Live
  <1>6. Given'[g] = Given[g] \cup lost
    BY <1>0, <1>1, <1>2 DEF Given
  <1>7. Pos(g)' = Pos(g)
    BY <1>1 DEF Pos, Cursor
  <1>8. lost \in SUBSET handed[g] /\ lost \in SUBSET Live(g) /\ lost \subseteq Given[g] \cup lost
    BY <1>3 DEF Live
  <1>9. QED
    BY <1>1, <1>5, <1>6, <1>7, <1>8, ConformsQuiet

LEMMA RedeliverConforms ==
    ASSUME NEW g, Groups = {g}, MemInv, NothingSkipped, NEW t \in Threads, NEW S, Mem!ClaimPending(t, S)
    PROVE  Conforms
  <1>0. GroupOf[t] = g /\ g \in Groups /\ DOMAIN pc = Threads
    BY MemoryTopicAssumption DEF MemInv, ShapeOK
  <1>1. /\ pc[t] = "idle" /\ pc' = [pc EXCEPT ![t] = "work"]
        /\ seq' = seq /\ queue' = queue /\ cursors' = cursors /\ handed' = handed
        /\ pel' = pel /\ evicted' = evicted /\ outcome' = outcome
        /\ \A u \in Threads \ {t} : BatchIds(u)' = BatchIds(u)
    BY <1>0, MemRedeliver
  <1>2. "idle" # "claimed" /\ "work" # "claimed"
    OBVIOUS
  <1>3. Transit(g)' = Transit(g)
    BY <1>0, <1>1, <1>2, TransitSame
  <1>4. Live(g)' = Live(g) /\ Pos(g)' = Pos(g)
    BY <1>1, <1>3 DEF Live, PelIds, Pos, Cursor
  <1>5. QED
    BY <1>1, <1>4, ConformsStill

LEMMA ProcessConforms ==
    ASSUME NEW g, Groups = {g}, MemInv, NothingSkipped, NEW t \in Threads, NEW ok, Mem!Process(t, ok)
    PROVE  Conforms
  <1>0. GroupOf[t] = g /\ g \in Groups /\ DOMAIN pc = Threads /\ ShapeOK
    BY MemoryTopicAssumption DEF MemInv, ShapeOK
  <1>1. /\ pc[t] = "work" /\ pc' = [pc EXCEPT ![t] = "flush"]
        /\ seq' = seq /\ queue' = queue /\ cursors' = cursors /\ handed' = handed
        /\ pel' = pel /\ evicted' = evicted
        /\ \A u \in Threads \ {t} : BatchIds(u)' = BatchIds(u)
        /\ \E done \in SUBSET handed[g] : outcome' = [outcome EXCEPT ![g] = @ \cup done]
    BY <1>0, MemProcess
  <1>1b. PICK done \in SUBSET handed[g] : outcome' = [outcome EXCEPT ![g] = @ \cup done]
    BY <1>1
  <1>2. pc[t] # "claimed" /\ "flush" # "claimed"
    BY <1>1
  <1>3. Transit(g)' = Transit(g)
    BY <1>0, <1>1, <1>2, TransitSame
  <1>4. Live(g)' = Live(g) /\ Pos(g)' = Pos(g)
    BY <1>1, <1>3 DEF Live, PelIds, Pos, Cursor
  <1>5. Given'[g] = Given[g] \cup done
    <2>1. outcome'[g] = outcome[g] \cup done
      BY <1>0, <1>1b DEF ShapeOK
    <2>2. QED
      BY <1>0, <1>1, <2>1 DEF Given
  <1>6. PICK none : none = {}
    OBVIOUS
  <1>7. none \in SUBSET Live(g) /\ none \subseteq Given[g] \cup done /\ Live(g)' = Live(g) \ none
    BY <1>4, <1>6
  <1>8. QED
    BY <1>1, <1>4, <1>5, <1>7, ConformsQuiet

LEMMA AckConforms ==
    ASSUME NEW g, Groups = {g}, MemInv, NothingSkipped, NEW t \in Threads, Mem!AckBatch(t)
    PROVE  Conforms
  <1>0. GroupOf[t] = g /\ g \in Groups /\ DOMAIN pc = Threads /\ ThreadOK(t)
    BY MemoryTopicAssumption DEF MemInv, ShapeOK
  <1>1. /\ pc[t] = "flush" /\ pc' = [pc EXCEPT ![t] = "idle"] /\ batch' = batch
        /\ seq' = seq /\ queue' = queue /\ cursors' = cursors /\ handed' = handed
        /\ evicted' = evicted /\ outcome' = outcome
        /\ PelIds(g)' = PelIds(g) \ acks[t]
    BY <1>0, MemAck
  <1>2. pc[t] # "claimed" /\ "idle" # "claimed" /\ \A u \in Threads \ {t} : BatchIds(u)' = BatchIds(u)
    BY <1>1 DEF BatchIds
  <1>3. Transit(g)' = Transit(g)
    BY <1>0, <1>1, <1>2, TransitSame
  <1>4. Pos(g)' = Pos(g)
    BY <1>1 DEF Pos, Cursor
  <1>5. PICK S : S = PelIds(g) \cap acks[t]
    OBVIOUS
  <1>6. Live(g)' = Live(g) \ S
    <2>1. Transit(g) \cap PelIds(g) = {}
      BY <1>0, TransitIs
    <2>2. QED
      BY <1>1, <1>3, <1>5, <2>1 DEF Live
  <1>7. S \subseteq Given[g]
    BY <1>0, <1>5 DEF ThreadOK, Given
  <1>8. PICK none : none = {}
    OBVIOUS
  <1>9. /\ none \in SUBSET handed[g] /\ S \in SUBSET Live(g) /\ S \subseteq Given[g] \cup none
        /\ Given'[g] = Given[g] \cup none
    <2>1. Given'[g] = Given[g]
      BY <1>0, <1>1 DEF Given
    <2>2. QED
      BY <1>5, <1>7, <1>8, <2>1 DEF Live
  <1>10. QED
    BY <1>1, <1>4, <1>6, <1>9, ConformsQuiet

LEMMA TrimConforms ==
    ASSUME NEW g, Groups = {g}, MemInv, NothingSkipped, Mem!TrimAcked
    PROVE  Conforms
  <1>1. /\ DOMAIN cursors # {} /\ \A h \in DOMAIN cursors : h \in Groups /\ Pos(h)' = Pos(h)
        /\ seq' = seq /\ pc' = pc /\ batch' = batch
        /\ pel' = pel /\ evicted' = evicted /\ handed' = handed /\ outcome' = outcome
    BY MemTrim
  <1>2. Pos(g)' = Pos(g)
    BY <1>1
  <1>3. Live(g)' = Live(g)
    BY <1>1 DEF Live, Transit, InTransit, PelIds, BatchIds
  <1>4. QED
    BY <1>1, <1>2, <1>3, ConformsStill

LEMMA StutterConforms ==
    ASSUME NEW g, Groups = {g}, MemInv, NothingSkipped, UNCHANGED Mem!vars
    PROVE  Conforms
  <1>1. /\ seq' = seq /\ queue' = queue /\ cursors' = cursors /\ pc' = pc /\ batch' = batch
        /\ pel' = pel /\ evicted' = evicted /\ handed' = handed /\ outcome' = outcome
    BY MemStutter
  <1>2. Live(g)' = Live(g) /\ Pos(g)' = Pos(g)
    BY <1>1 DEF Live, Transit, InTransit, PelIds, BatchIds, Pos, Cursor
  <1>3. QED
    BY <1>1, <1>2, ConformsStill

LEMMA NextConforms ==
    ASSUME NEW g, Groups = {g}
    PROVE  MemInv /\ NothingSkipped /\ [Mem!Next]_Mem!vars => Conforms
  <1>1. SUFFICES ASSUME MemInv, NothingSkipped, [Mem!Next]_Mem!vars PROVE Conforms
    OBVIOUS
  <1>2. CASE Mem!Produce
    BY <1>1, <1>2, ProduceConforms
  <1>3. CASE Mem!TrimAcked
    BY <1>1, <1>3, TrimConforms
  <1>4. ASSUME NEW t \in Threads, Mem!Consumer(t) PROVE Conforms
    <2>1. CASE Mem!ConsumeClaim(t)
      BY <1>1, <2>1, ClaimConforms
    <2>2. CASE Mem!ConsumePend(t)
      BY <1>1, <2>2, PendConforms
    <2>3. ASSUME NEW S \in SUBSET Mem!Ids, Mem!ClaimPending(t, S) PROVE Conforms
      BY <1>1, <2>3, RedeliverConforms
    <2>4. ASSUME NEW ok \in SUBSET Mem!Ids, Mem!Process(t, ok) PROVE Conforms
      BY <1>1, <2>4, ProcessConforms
    <2>5. CASE Mem!AckBatch(t)
      BY <1>1, <2>5, AckConforms
    <2>6. QED
      BY <1>4, <2>1, <2>2, <2>3, <2>4, <2>5 DEF Mem!Consumer
  <1>5. CASE UNCHANGED Mem!vars
    BY <1>1, <1>5, StutterConforms
  <1>6. QED
    BY <1>1, <1>2, <1>3, <1>4, <1>5 DEF Mem!Next

LEMMA MemInitConforms ==
    ASSUME NEW g, Groups = {g}
    PROVE  Mem!Init => NothingSkipped /\ Topic!Init
  <1>1. SUFFICES ASSUME Mem!Init PROVE NothingSkipped /\ Topic!Init
    OBVIOUS
  <1>2. MemInv
    BY <1>1, MemInit
  <1>3. seq = 0 /\ Pos(g) = 0 /\ handed[g] = {} /\ outcome[g] = {} /\ evicted[g] = {}
    <2>1. seq = 0 /\ g \in Groups /\ handed[g] = {} /\ outcome[g] = {} /\ evicted[g] = {}
      BY <1>1 DEF Mem!Init
    <2>2. Pos(g) \in Nat /\ Pos(g) <= 0
      BY <1>2, <2>1, CursorIs DEF MemInv
    <2>3. QED
      BY <2>1, <2>2
  <1>4. NothingSkipped
    BY <1>3 DEF NothingSkipped
  <1>5. TopicStatus = [h \in Groups |-> Stage(0, 0, Live(g))]
    BY <1>2, <1>3, <1>4, StatusIs, OneGroupView
  <1>6. Stage(0, 0, Live(g)) = [i \in Ids |-> "absent"]
    <2>1. \A i \in Ids : i > 0
      BY MemoryTopicAssumption DEF Ids
    <2>2. QED
      BY <2>1 DEF Stage
  <1>7. Given = [h \in Groups |-> {}]
    BY <1>3 DEF Given
  <1>8. QED
    BY <1>4, <1>5, <1>6, <1>7 DEF Topic!Init, Given

\* bus.py, _MemoryBus with the runner's pass: on a topic with one consumer group,
\* whatever its threads, cap and bounds, the in-memory bus implements the delivery
\* contract the Redis bus is held to, an entry evicted by the cap counting as given up.
THEOREM OneGroupKeepsContract ==
    ASSUME NEW g, Groups = {g}
    PROVE  Mem!Spec => TopicKeepsContract
  <1>1. Mem!Init => NothingSkipped /\ Topic!Init
    BY MemInitConforms
  <1>2. MemInv /\ NothingSkipped /\ [Mem!Next]_Mem!vars => Conforms
    BY NextConforms
  <1>3. Conforms => NothingSkipped'
    BY DEF Conforms
  <1>4. Conforms /\ StatusByStage /\ StatusByStage' => [Topic!Next]_Topic!contractVars
    BY DEF Conforms, Topic!contractVars, Given
  <1>5. MemInv /\ NothingSkipped => StatusByStage
    BY StatusIs
  <1>6. QED
    BY <1>1, <1>2, <1>3, <1>4, <1>5, MemInvariant, PTL DEF Mem!Spec, Topic!Spec, TopicKeepsContract
=============================================================================
