----------------------------- MODULE IngestProofs -----------------------------
(***************************************************************************)
(* Proofs about Ingest, for any number of datagrams, workers and faults,   *)
(* any queue and any spool size: every datagram is counted, what the spool *)
(* accepted is kept, and it is replayed in order.                          *)
(***************************************************************************)
EXTENDS Ingest, FiniteSetTheorems, SequenceTheorems, TLAPS

Lines == Datagrams \cup {Junk}
JobType == [pc : {"limit", "produce", "shed", "fail"}, e : Datagrams]
Taking == {"check", "put", "discarded"}
HandType == [pc : Taking, e : Datagrams] \cup [pc : {"idle", "ended"}]
DrainType == [pc : {"replay", "rewrite"}, lines : Seq(Lines), i : Nat \ {0}, replayed : Nat]

Types ==
    /\ got \in Nat
    /\ hand \in HandType
    /\ queue \in Seq(Datagrams)
    /\ phase \in {"up", "stopping", "stopped", "down"}
    /\ job \in [Workers -> JobType \cup {Idle}]
    /\ file \in [lines : Seq(Lines), open : BOOLEAN]
    /\ drain \in DrainType \cup {Idle}
    /\ count \in [Counters -> Nat]
    /\ arrived \in Nat
    /\ replayed \subseteq Datagrams
    /\ accepted \in Seq(Datagrams)

Elems(s) == {s[k] : k \in DOMAIN s}

\* The datagram the receive thread has taken from the socket.
Taken == IF hand.pc \in Taking THEN {hand.e} ELSE {}

\* The datagrams in the queue and with the workers.
Held ==
    Elems(queue) \cup {job[w].e : w \in {u \in Workers : job[u] # Idle}}

\* The lines of the drain thread's snapshot.
Snapshot == IF drain = Idle THEN <<>> ELSE drain.lines

\* The datagrams the spool or the drain thread has met.
Met ==
    Elems(accepted) \cup replayed \cup Elems(file.lines) \cup Elems(Snapshot)

\* A datagram is in one place: none in the hands of the process has been spooled.
OnePlace ==
    /\ Taken \cup Held \cup Met \subseteq 0 .. got
    /\ Alive =>
          /\ Taken \cap (Held \cup Met) = {}
          /\ Held \cap Met = {}
          /\ \A i, k \in DOMAIN queue : queue[i] = queue[k] => i = k
          /\ \A u, v \in Workers : job[u] # Idle /\ job[v] # Idle /\ job[u].e = job[v].e => u = v
          /\ \A i \in DOMAIN queue, w \in Workers : job[w] # Idle => job[w].e # queue[i]

\* What was accepted is done with or in the file.
KeptIn(acc, done, lines) == \A i \in DOMAIN acc : acc[i] \in done \/ InSeq(acc[i], lines)

\* Before an accepted event come those accepted before it, unless they are done with.
OrderIn(acc, done, lines) ==
    \A i, j \in DOMAIN acc, k \in DOMAIN lines :
        i < j /\ lines[k] = acc[j] => acc[i] \in done \/ \E l \in DOMAIN lines : l < k /\ lines[l] = acc[i]

PlayedInOrder(acc, done, rep) ==
    \A i, j \in DOMAIN acc : i < j /\ acc[j] \in rep => acc[i] \in done

\* The file still begins with the snapshot, but for a line spoiled since; the lines
\* before the drain's position have been replayed.
SnapshotHolds(snap, pos, lines, rep) ==
    /\ Len(snap) <= Len(lines) /\ pos <= Len(snap) + 1
    /\ \A k \in DOMAIN snap : lines[k] \in {snap[k], Junk} /\ (k < pos => snap[k] \in rep \cup {Junk})

Finished == replayed \cup damaged

SpoolInv ==
    /\ KeptIn(accepted, Finished, file.lines)
    /\ OrderIn(accepted, Finished, file.lines)
    /\ PlayedInOrder(accepted, Finished, replayed)
    /\ drain # Idle => /\ OrderIn(accepted, Finished, drain.lines)
                       /\ SnapshotHolds(drain.lines, drain.i, file.lines, replayed)

IngestInv == Types /\ EveryDatagramCounted /\ OnePlace /\ SpoolInv
-----------------------------------------------------------------------------
(* Lists of lines.                                                         *)

\* A line that holds an event is not one that does not parse.
LEMMA NotJunk == Datagrams \subseteq Nat \ {0} /\ \A e \in Datagrams : e # Junk
  BY IngestAssumption DEF Datagrams, Junk

\* A line more, of an event that was not accepted.
LEMMA LineMore ==
    ASSUME NEW acc \in Seq(Datagrams), NEW lines \in Seq(Lines), NEW x \in Lines, NEW done,
           \A i \in DOMAIN acc : acc[i] # x,
           KeptIn(acc, done, lines), OrderIn(acc, done, lines)
    PROVE  KeptIn(acc, done, Append(lines, x)) /\ OrderIn(acc, done, Append(lines, x))
  <1> DEFINE new == Append(lines, x)
  <1>1. /\ DOMAIN lines = 1 .. Len(lines) /\ DOMAIN new = 1 .. (Len(lines) + 1) /\ Len(lines) \in Nat
        /\ \A k \in 1 .. Len(lines) : new[k] = lines[k]
        /\ new[Len(lines) + 1] = x
    OBVIOUS
  <1>2. \A k \in DOMAIN new : k \in DOMAIN lines \/ new[k] = x
    BY <1>1
  <1>3. \A k \in DOMAIN lines : k \in DOMAIN new /\ new[k] = lines[k]
    BY <1>1
  <1> HIDE DEF new
  <1>4. KeptIn(acc, done, new)
    BY <1>3 DEF KeptIn, InSeq
  <1>5. OrderIn(acc, done, new)
    BY <1>2, <1>3 DEF OrderIn
  <1>6. QED
    BY <1>4, <1>5 DEF new

\* The last line is spoiled, and the event on it is done with if it was accepted.
LEMMA LineSpoiled ==
    ASSUME NEW acc \in Seq(Datagrams), NEW lines \in Seq(Lines), NEW done, NEW more, done \subseteq more,
           \A i \in DOMAIN acc, k \in DOMAIN lines : k = Len(lines) /\ lines[k] = acc[i] => acc[i] \in more,
           KeptIn(acc, done, lines), OrderIn(acc, done, lines)
    PROVE  KeptIn(acc, more, Spoiled(lines)) /\ OrderIn(acc, more, Spoiled(lines))
  <1> DEFINE new == Spoiled(lines)
  <1>1. /\ DOMAIN new = DOMAIN lines /\ DOMAIN lines = 1 .. Len(lines)
        /\ \A k \in DOMAIN lines : new[k] = IF k = Len(lines) THEN Junk ELSE lines[k]
    BY DEF Spoiled
  <1>2. \A i \in DOMAIN acc : acc[i] # Junk
    <2>1. \A i \in DOMAIN acc : acc[i] \in Datagrams
      OBVIOUS
    <2>2. QED
      BY <2>1, NotJunk
  <1>3. \A k, l \in DOMAIN lines : l < k => l # Len(lines)
    BY <1>1
  <1> HIDE DEF new
  <1>4. KeptIn(acc, more, new)
    BY <1>1 DEF KeptIn, InSeq
  <1>5. OrderIn(acc, more, new)
    <2> SUFFICES ASSUME NEW i \in DOMAIN acc, NEW j \in DOMAIN acc, NEW k \in DOMAIN new, i < j, new[k] = acc[j],
                        acc[i] \notin more
                 PROVE  \E l \in DOMAIN new : l < k /\ new[l] = acc[i]
      BY DEF OrderIn
    <2>1. k \in DOMAIN lines /\ lines[k] = acc[j]
      BY <1>1, <1>2
    <2>2. PICK l \in DOMAIN lines : l < k /\ lines[l] = acc[i]
      BY <2>1 DEF OrderIn
    <2>3. new[l] = lines[l]
      BY <1>1, <1>3, <2>1, <2>2
    <2>4. QED
      BY <1>1, <2>2, <2>3
  <1>6. QED
    BY <1>4, <1>5 DEF new

\* An event more is accepted, which the lines do not hold.
LEMMA AcceptMore ==
    ASSUME NEW acc \in Seq(Datagrams), NEW e \in Datagrams, NEW lines, NEW done, NEW rep,
           \A k \in DOMAIN lines : lines[k] # e, e \notin rep
    PROVE  /\ OrderIn(acc, done, lines) => OrderIn(Append(acc, e), done, lines)
           /\ PlayedInOrder(acc, done, rep) => PlayedInOrder(Append(acc, e), done, rep)
           /\ KeptIn(acc, done, lines) /\ e \in done => KeptIn(Append(acc, e), done, lines)
  <1> DEFINE new == Append(acc, e)
  <1>1. /\ DOMAIN acc = 1 .. Len(acc) /\ DOMAIN new = 1 .. (Len(acc) + 1) /\ Len(acc) \in Nat
        /\ \A i \in 1 .. Len(acc) : new[i] = acc[i]
        /\ new[Len(acc) + 1] = e
    OBVIOUS
  <1>2. \A i \in DOMAIN new : (i \in DOMAIN acc /\ new[i] = acc[i]) \/ new[i] = e
    BY <1>1
  <1>3. \A i, j \in DOMAIN new : i < j /\ j \in DOMAIN acc => i \in DOMAIN acc
    BY <1>1
  <1>4. \A i, j \in DOMAIN new : i < j => i \in DOMAIN acc /\ new[i] = acc[i]
    BY <1>1
  <1> HIDE DEF new
  <1>5. OrderIn(acc, done, lines) => OrderIn(new, done, lines)
    BY <1>2, <1>4 DEF OrderIn
  <1>6. PlayedInOrder(acc, done, rep) => PlayedInOrder(new, done, rep)
    BY <1>2, <1>4 DEF PlayedInOrder
  <1>7. KeptIn(acc, done, lines) /\ e \in done => KeptIn(new, done, lines)
    BY <1>2 DEF KeptIn
  <1>8. QED
    BY <1>5, <1>6, <1>7 DEF new

\* An event more is accepted and its line is the last one.
LEMMA AcceptWritten ==
    ASSUME NEW acc \in Seq(Datagrams), NEW e \in Datagrams, NEW lines \in Seq(Lines), NEW done,
           \A k \in DOMAIN lines : lines[k] # e,
           KeptIn(acc, done, lines), OrderIn(acc, done, lines)
    PROVE  KeptIn(Append(acc, e), done, Append(lines, e)) /\ OrderIn(Append(acc, e), done, Append(lines, e))
  <1> DEFINE new == Append(acc, e)
             long == Append(lines, e)
             last == Len(lines) + 1
  <1>1. \A i \in DOMAIN new : (i \in DOMAIN acc /\ new[i] = acc[i]) \/ new[i] = e
    OBVIOUS
  <1>2. \A i, j \in DOMAIN new : i < j => i \in DOMAIN acc /\ new[i] = acc[i]
    OBVIOUS
  <1>3. /\ last \in DOMAIN long /\ long[last] = e
        /\ \A k \in DOMAIN lines : k \in DOMAIN long /\ long[k] = lines[k] /\ k < last
        /\ \A k \in DOMAIN long : k = last \/ k \in DOMAIN lines
    <2>1. /\ DOMAIN lines = 1 .. Len(lines) /\ DOMAIN long = 1 .. (Len(lines) + 1) /\ Len(lines) \in Nat
          /\ \A k \in 1 .. Len(lines) : long[k] = lines[k]
          /\ long[Len(lines) + 1] = e
      OBVIOUS
    <2>2. QED
      BY <2>1
  <1> HIDE DEF new, long, last
  <1>4. KeptIn(new, done, long)
    BY <1>1, <1>3 DEF KeptIn, InSeq
  <1>5. OrderIn(new, done, long)
    <2> SUFFICES ASSUME NEW i \in DOMAIN new, NEW j \in DOMAIN new, NEW k \in DOMAIN long, i < j, long[k] = new[j],
                        new[i] \notin done
                 PROVE  \E l \in DOMAIN long : l < k /\ long[l] = new[i]
      BY DEF OrderIn
    <2>1. i \in DOMAIN acc /\ new[i] = acc[i]
      BY <1>2
    <2>2. CASE k = last
      <3>1. PICK l \in DOMAIN lines : lines[l] = acc[i]
        BY <2>1 DEF KeptIn, InSeq
      <3>2. QED
        BY <2>1, <2>2, <3>1, <1>3
    <2>3. CASE k \in DOMAIN lines
      <3>1. j \in DOMAIN acc /\ new[j] = acc[j] /\ lines[k] = acc[j]
        BY <2>3, <1>1, <1>3
      <3>2. PICK l \in DOMAIN lines : l < k /\ lines[l] = acc[i]
        BY <2>1, <2>3, <3>1 DEF OrderIn
      <3>3. QED
        BY <2>1, <3>2, <1>3
    <2>4. QED
      BY <2>2, <2>3, <1>3
  <1>6. QED
    BY <1>4, <1>5 DEF new, long

\* More is done with.
LEMMA DoneMore ==
    ASSUME NEW acc, NEW lines, NEW done, NEW more, done \subseteq more
    PROVE  /\ KeptIn(acc, done, lines) => KeptIn(acc, more, lines)
           /\ OrderIn(acc, done, lines) => OrderIn(acc, more, lines)
           /\ \A rep : PlayedInOrder(acc, done, rep) => PlayedInOrder(acc, more, rep)
  BY DEF KeptIn, OrderIn, PlayedInOrder

\* The snapshot stays the beginning of a file that grows or whose last line is spoiled.
LEMMA SnapshotStays ==
    ASSUME NEW snap \in Seq(Lines), NEW lines \in Seq(Lines), NEW pos \in Nat, NEW rep, NEW x \in Lines,
           SnapshotHolds(snap, pos, lines, rep)
    PROVE  SnapshotHolds(snap, pos, Append(lines, x), rep) /\ SnapshotHolds(snap, pos, Spoiled(lines), rep)
  <1>1. Len(snap) \in Nat /\ Len(lines) \in Nat /\ DOMAIN snap = 1 .. Len(snap) /\ DOMAIN lines = 1 .. Len(lines)
        /\ Len(snap) <= Len(lines)
    BY DEF SnapshotHolds
  <1>2. \A k \in DOMAIN snap : k \in DOMAIN lines
    BY <1>1
  <1>3. SnapshotHolds(snap, pos, Append(lines, x), rep)
    <2> DEFINE new == Append(lines, x)
    <2>1. Len(new) = Len(lines) + 1 /\ \A k \in DOMAIN lines : new[k] = lines[k]
      OBVIOUS
    <2> HIDE DEF new
    <2>2. Len(snap) <= Len(new)
      BY <1>1, <2>1
    <2>3. QED
      BY <1>2, <2>1, <2>2 DEF SnapshotHolds, new
  <1>4. SnapshotHolds(snap, pos, Spoiled(lines), rep)
    <2> DEFINE new == Spoiled(lines)
    <2>1. Len(new) = Len(lines) /\ \A k \in DOMAIN lines : new[k] \in {lines[k], Junk}
      <3>1. new \in [1 .. Len(lines) -> Lines] /\ \A k \in DOMAIN lines : new[k] \in {lines[k], Junk}
        <4>1. lines \in [1 .. Len(lines) -> Lines] /\ Junk \in Lines
          BY DEF Lines
        <4>2. QED
          BY <4>1 DEF Spoiled
      <3> HIDE DEF new
      <3>2. new \in Seq(Lines) /\ Len(new) = Len(lines)
        BY <3>1, <1>1
      <3>3. QED
        BY <3>1, <3>2
    <2> HIDE DEF new
    <2>2. QED
      BY <1>1, <1>2, <2>1 DEF SnapshotHolds, new
  <1>5. QED
    BY <1>3, <1>4

\* The end of one list and what another, which is no shorter, has beyond it.
RestOf(s, m, t) == SubSeq(s, m, Len(s)) \o SubSeq(t, Len(s) + 1, Len(t))

\* What that list holds.
IsRest(S, s, m, t, new) ==
    /\ new \in Seq(S) /\ Len(new) = Len(t) - m + 1
    /\ \A k \in 1 .. Len(s) : k >= m => new[k - m + 1] = s[k]
    /\ \A k \in 1 .. Len(t) : k > Len(s) => new[k - m + 1] = t[k]

LEMMA Joined ==
    ASSUME NEW S, NEW s \in Seq(S), NEW t \in Seq(S), NEW m \in Nat \ {0}, m <= Len(s) + 1, Len(s) <= Len(t),
           NEW new, new = RestOf(s, m, t)
    PROVE  IsRest(S, s, m, t, new)
  <1>1. PICK n \in Nat : n = Len(s)
    OBVIOUS
  <1>2. PICK o \in Nat : o = Len(t)
    OBVIOUS
  <1>3. (\A k \in 1 .. n : s[k] \in S) /\ (\A k \in 1 .. o : t[k] \in S)
    BY <1>1, <1>2
  <1> DEFINE left == SubSeq(s, m, n)
             since == SubSeq(t, n + 1, o)
  <1>4. new = left \o since
    BY <1>1, <1>2 DEF RestOf
  <1>5. m <= n + 1 /\ n <= o
    BY <1>1, <1>2
  <1>6. left \in Seq(S) /\ Len(left) = n - m + 1 /\ \A k \in 1 .. n - m + 1 : left[k] = s[m + k - 1]
    <2>1. \A k \in m .. n : s[k] \in S
      BY <1>3
    <2>2. /\ left \in Seq(S) /\ Len(left) = IF m <= n THEN n - m + 1 ELSE 0
          /\ \A k \in 1 .. n - m + 1 : left[k] = s[m + k - 1]
      BY <2>1, SubSeqProperties
    <2> HIDE DEF left
    <2>3. QED
      BY <2>2, <1>5
  <1>7. since \in Seq(S) /\ Len(since) = o - n /\ \A k \in 1 .. o - n : since[k] = t[n + k]
    <2>1. (\A k \in n + 1 .. o : t[k] \in S) /\ n + 1 \in Int /\ o \in Int
      BY <1>3
    <2>2. /\ since \in Seq(S) /\ Len(since) = IF n + 1 <= o THEN o - (n + 1) + 1 ELSE 0
          /\ \A k \in 1 .. o - (n + 1) + 1 : since[k] = t[(n + 1) + k - 1]
      BY <2>1, SubSeqProperties
    <2> HIDE DEF since
    <2>3. Len(since) = o - n /\ o - (n + 1) + 1 = o - n
      BY <2>2, <1>5
    <2>4. \A k \in 1 .. o - n : (n + 1) + k - 1 = n + k
      OBVIOUS
    <2>5. QED
      BY <2>2, <2>3, <2>4
  <1> HIDE DEF left, since
  <1>8. /\ new \in Seq(S) /\ Len(new) = Len(left) + Len(since)
        /\ \A k \in 1 .. Len(left) + Len(since) : new[k] = IF k <= Len(left) THEN left[k] ELSE since[k - Len(left)]
    <2>1. left \in Seq(S) /\ since \in Seq(S)
      BY <1>6, <1>7
    <2>2. /\ left \o since \in Seq(S) /\ Len(left \o since) = Len(left) + Len(since)
          /\ \A k \in 1 .. Len(left) + Len(since) :
                (left \o since)[k] = IF k <= Len(left) THEN left[k] ELSE since[k - Len(left)]
      BY <2>1, ConcatProperties, Zenon
    <2>3. QED
      BY <2>2, <1>4, Zenon
  <1>9. Len(new) = o - m + 1
    BY <1>5, <1>6, <1>7, <1>8
  <1>10. ASSUME NEW k \in 1 .. n, k >= m PROVE new[k - m + 1] = s[k]
    <2>1. k - m + 1 \in 1 .. n - m + 1 /\ m + (k - m + 1) - 1 = k
      BY <1>10, <1>5
    <2>2. k - m + 1 \in 1 .. Len(left) + Len(since) /\ k - m + 1 <= Len(left)
      BY <2>1, <1>5, <1>6, <1>7
    <2>3. new[k - m + 1] = left[k - m + 1]
      BY <2>2, <1>8
    <2>4. left[k - m + 1] = s[k]
      BY <2>1, <1>6
    <2>5. QED
      BY <2>3, <2>4
  <1>11. ASSUME NEW k \in 1 .. o, k > n PROVE new[k - m + 1] = t[k]
    <2>1. k - n \in 1 .. o - n /\ n + (k - n) = k /\ (k - m + 1) - Len(left) = k - n
      BY <1>11, <1>5, <1>6
    <2>2. k - m + 1 \in 1 .. Len(left) + Len(since) /\ ~(k - m + 1 <= Len(left))
      BY <1>11, <1>5, <1>6, <1>7
    <2>3. new[k - m + 1] = since[k - n]
      BY <2>1, <2>2, <1>8
    <2>4. since[k - n] = t[k]
      BY <2>1, <1>7
    <2>5. QED
      BY <2>3, <2>4
  <1>12. QED
    BY <1>1, <1>2, <1>8, <1>9, <1>10, <1>11 DEF IsRest

\* drain_into puts the rest of the snapshot back, and behind it what came since.
LEMMA PutBackKeeps ==
    ASSUME NEW acc \in Seq(Datagrams), NEW snap \in Seq(Lines), NEW lines \in Seq(Lines), NEW pos \in Nat \ {0},
           NEW done, NEW rep, rep \subseteq done, SnapshotHolds(snap, pos, lines, rep),
           KeptIn(acc, done, lines), OrderIn(acc, done, lines), OrderIn(acc, done, snap),
           NEW new, new = RestOf(snap, pos, lines)
    PROVE  new \in Seq(Lines) /\ KeptIn(acc, done, new) /\ OrderIn(acc, done, new)
  <1> DEFINE n == Len(snap)
  <1>1. n \in Nat /\ Len(lines) \in Nat /\ n <= Len(lines) /\ pos <= n + 1
        /\ DOMAIN snap = 1 .. n /\ DOMAIN lines = 1 .. Len(lines)
    BY DEF SnapshotHolds
  <1>2. /\ new \in Seq(Lines) /\ Len(new) = Len(lines) - pos + 1
        /\ \A k \in 1 .. n : k >= pos => new[k - pos + 1] = snap[k]
        /\ \A k \in 1 .. Len(lines) : k > n => new[k - pos + 1] = lines[k]
    <2>1. pos <= Len(snap) + 1 /\ Len(snap) <= Len(lines)
      BY <1>1
    <2>2. IsRest(Lines, snap, pos, lines, new)
      BY <2>1, Joined
    <2>3. QED
      BY <2>2 DEF IsRest
  <1> HIDE DEF n
  <1>3. DOMAIN new = 1 .. (Len(lines) - pos + 1)
    BY <1>2
  <1>4. \A k \in 1 .. Len(lines) : k >= pos => k - pos + 1 \in DOMAIN new
    BY <1>1, <1>3
  <1>5. \A k \in DOMAIN snap : k >= pos => k - pos + 1 \in DOMAIN new /\ new[k - pos + 1] = snap[k]
    <2>1. \A k \in DOMAIN snap : k \in 1 .. Len(lines)
      BY <1>1
    <2>2. QED
      BY <2>1, <1>1, <1>2, <1>4
  <1>6. \A k \in DOMAIN lines : k > n => k - pos + 1 \in DOMAIN new /\ new[k - pos + 1] = lines[k]
    <2>1. \A k \in DOMAIN lines : k > n => k >= pos
      BY <1>1
    <2>2. QED
      BY <2>1, <1>1, <1>2, <1>4
  <1>7. ASSUME NEW m \in DOMAIN new
        PROVE  \/ \E k \in DOMAIN snap : k >= pos /\ m = k - pos + 1
               \/ \E k \in DOMAIN lines : k > n /\ m = k - pos + 1
    <2>1. PICK k \in 1 .. Len(lines) : k >= pos /\ m = k - pos + 1
      <3>1. m + pos - 1 \in 1 .. Len(lines) /\ m + pos - 1 >= pos /\ m = (m + pos - 1) - pos + 1
        BY <1>1, <1>3
      <3>2. QED
        BY <3>1
    <2>2. k > n \/ k \in 1 .. n
      BY <1>1
    <2>3. QED
      BY <2>1, <2>2, <1>1
  <1>8. \A k \in DOMAIN lines, i \in DOMAIN acc :
            lines[k] = acc[i] /\ acc[i] \notin done => k - pos + 1 \in DOMAIN new /\ new[k - pos + 1] = acc[i]
    <2> SUFFICES ASSUME NEW k \in DOMAIN lines, NEW i \in DOMAIN acc, lines[k] = acc[i], acc[i] \notin done
                 PROVE  k - pos + 1 \in DOMAIN new /\ new[k - pos + 1] = acc[i]
      OBVIOUS
    <2>1. CASE k > n
      BY <2>1, <1>6
    <2>2. CASE ~(k > n)
      <3>1. k \in DOMAIN snap
        BY <2>2, <1>1
      <3>2. acc[i] \in Datagrams
        OBVIOUS
      <3>3. acc[i] # Junk
        BY <3>2, NotJunk
      <3>4. snap[k] = acc[i] /\ ~(k < pos)
        BY <3>1, <3>3 DEF SnapshotHolds
      <3>5. k >= pos
        BY <3>4, <1>1
      <3>6. QED
        BY <3>1, <3>4, <3>5, <1>5
    <2>3. QED
      BY <2>1, <2>2
  <1>9. \A k \in DOMAIN snap, i \in DOMAIN acc :
            snap[k] = acc[i] /\ acc[i] \notin done => k - pos + 1 \in DOMAIN new /\ new[k - pos + 1] = acc[i]
    <2> SUFFICES ASSUME NEW k \in DOMAIN snap, NEW i \in DOMAIN acc, snap[k] = acc[i], acc[i] \notin done
                 PROVE  k - pos + 1 \in DOMAIN new /\ new[k - pos + 1] = acc[i]
      OBVIOUS
    <2>1. acc[i] \in Datagrams
      OBVIOUS
    <2>2. ~(k < pos)
      BY <2>1, NotJunk DEF SnapshotHolds
    <2>3. k >= pos
      BY <2>2, <1>1
    <2>4. QED
      BY <2>3, <1>5
  <1>10. KeptIn(acc, done, new)
    BY <1>8 DEF KeptIn, InSeq
  <1>11. OrderIn(acc, done, new)
    <2> SUFFICES ASSUME NEW i \in DOMAIN acc, NEW j \in DOMAIN acc, NEW m \in DOMAIN new, i < j, new[m] = acc[j],
                        acc[i] \notin done
                 PROVE  \E l \in DOMAIN new : l < m /\ new[l] = acc[i]
      BY DEF OrderIn
    <2>1. \A k, l : k \in Nat /\ l \in Nat /\ l < k => l - pos + 1 < k - pos + 1
      OBVIOUS
    <2>2. \A k \in DOMAIN snap \cup DOMAIN lines : k \in Nat
      BY <1>1
    <2>3. CASE \E k \in DOMAIN snap : k >= pos /\ m = k - pos + 1
      <3>1. PICK k \in DOMAIN snap : k >= pos /\ m = k - pos + 1
        BY <2>3
      <3>2. snap[k] = acc[j]
        BY <3>1, <1>5
      <3>3. PICK l \in DOMAIN snap : l < k /\ snap[l] = acc[i]
        BY <3>2 DEF OrderIn
      <3>4. l - pos + 1 \in DOMAIN new /\ new[l - pos + 1] = acc[i] /\ l - pos + 1 < m
        BY <3>1, <3>3, <1>9, <2>1, <2>2
      <3>5. QED
        BY <3>4
    <2>4. CASE \E k \in DOMAIN lines : k > n /\ m = k - pos + 1
      <3>1. PICK k \in DOMAIN lines : k > n /\ m = k - pos + 1
        BY <2>4
      <3>2. lines[k] = acc[j]
        BY <3>1, <1>6
      <3>3. PICK l \in DOMAIN lines : l < k /\ lines[l] = acc[i]
        BY <3>2 DEF OrderIn
      <3>4. l - pos + 1 \in DOMAIN new /\ new[l - pos + 1] = acc[i] /\ l - pos + 1 < m
        BY <3>1, <3>3, <1>8, <2>1, <2>2
      <3>5. QED
        BY <3>4
    <2>5. QED
      BY <2>3, <2>4, <1>7
  <1>12. QED
    BY <1>2, <1>10, <1>11

-----------------------------------------------------------------------------
(* Writes to the spool file.                                               *)

\* What append() does to the file and to the history, when it succeeds and when it
\* stops half way: the file is as before but for the newline, a line is added, or
\* the unterminated last one is spoiled.
WriteStep(e) ==
    /\ file' \in [lines : Seq(Lines), open : BOOLEAN]
    /\ damaged \subseteq damaged'
    /\ \/ file'.lines = file.lines
       \/ \E x \in {Junk, e} : file'.lines = Append(file.lines, x)
       \/ file'.lines = Spoiled(file.lines) /\ OnTail \subseteq damaged'

AppendStep(e) ==
    /\ WriteStep(e)
    /\ \/ file'.lines = Append(file.lines, e)
       \/ file'.lines = Spoiled(file.lines) /\ OnTail \cup {e} \subseteq damaged'

\* A spoiled list is a list of the same length.
LEMMA SpoiledSeq ==
    ASSUME NEW lines \in Seq(Lines)
    PROVE  Spoiled(lines) \in Seq(Lines)
  <1> DEFINE new == Spoiled(lines)
  <1>1. lines \in [1 .. Len(lines) -> Lines] /\ Junk \in Lines /\ Len(lines) \in Nat
    BY DEF Lines
  <1>2. new \in [1 .. Len(lines) -> Lines]
    BY <1>1 DEF Spoiled
  <1> HIDE DEF new
  <1>3. new \in Seq(Lines)
    BY <1>1, <1>2
  <1>4. QED
    BY <1>3 DEF new

\* append() terminates a line or leaves it; the lines are those of the file.
LEMMA ClosedLines ==
    ASSUME Types
    PROVE  Closed \in [lines : Seq(Lines), open : BOOLEAN] /\ Closed.lines = file.lines
  <1>1. file \in [lines : Seq(Lines), open : BOOLEAN]
    BY DEF Types
  <1>2. QED
    BY <1>1 DEF Closed

LEMMA WrittenIs ==
    ASSUME Types, NEW e \in Datagrams, NEW S, e \in S, file' = Written(e), Harm(S)
    PROVE  AppendStep(e)
  <1>1. file.lines \in Seq(Lines) /\ Closed.lines = file.lines /\ e \in Lines
    BY ClosedLines DEF Types, Lines
  <1>2. CASE Closed.open
    <2>1. file' = [lines |-> Spoiled(file.lines), open |-> FALSE]
      BY <1>1, <1>2 DEF Written
    <2>2. damaged' = damaged \cup OnTail \cup S
      BY <1>2 DEF Harm
    <2>3. QED
      BY <1>1, <2>1, <2>2, SpoiledSeq DEF AppendStep, WriteStep
  <1>3. CASE ~Closed.open
    <2>1. file' = [lines |-> Append(file.lines, e), open |-> FALSE]
      BY <1>1, <1>3 DEF Written
    <2>2. damaged' = damaged
      BY <1>3 DEF Harm
    <2>3. Append(file.lines, e) \in Seq(Lines)
      BY <1>1
    <2>4. QED
      BY <2>1, <2>2, <2>3 DEF AppendStep, WriteStep
  <1>4. QED
    BY <1>2, <1>3

LEMMA PartialIs ==
    ASSUME Types, NEW e \in Datagrams, file' \in Partial(e),
           \/ file' \in {file, Closed} /\ UNCHANGED damaged
           \/ file' \notin {file, Closed} /\ Harm({})
    PROVE  WriteStep(e)
  <1>1. file.lines \in Seq(Lines) /\ Closed.lines = file.lines /\ e \in Lines /\ Junk \in Lines
    BY ClosedLines DEF Types, Lines
  <1>2. CASE file' \in {file, Closed} /\ UNCHANGED damaged
    <2>1. file' \in [lines : Seq(Lines), open : BOOLEAN] /\ file'.lines = file.lines
      BY <1>2, ClosedLines DEF Types
    <2>2. QED
      BY <1>2, <2>1 DEF WriteStep
  <1>3. CASE file' \notin {file, Closed} /\ Harm({})
    <2>1. PICK x \in {Junk, e} :
             file' = [lines |-> IF Closed.open THEN Spoiled(Closed.lines) ELSE Append(Closed.lines, x), open |-> TRUE]
      BY <1>3 DEF Partial
    <2>2. CASE Closed.open
      <3>1. file' = [lines |-> Spoiled(file.lines), open |-> TRUE]
        BY <1>1, <2>1, <2>2
      <3>2. damaged' = damaged \cup OnTail
        BY <1>3, <2>2 DEF Harm
      <3>3. QED
        BY <1>1, <3>1, <3>2, SpoiledSeq DEF WriteStep
    <2>3. CASE ~Closed.open
      <3>1. file' = [lines |-> Append(file.lines, x), open |-> TRUE]
        BY <1>1, <2>1, <2>3
      <3>2. damaged' = damaged
        BY <1>3, <2>3 DEF Harm
      <3>3. Append(file.lines, x) \in Seq(Lines)
        BY <1>1, <2>1
      <3>4. QED
        BY <3>1, <3>2, <3>3 DEF WriteStep
    <2>4. QED
      BY <2>2, <2>3
  <1>4. QED
    BY <1>2, <1>3

-----------------------------------------------------------------------------
(* Types.                                                                  *)

\* A worker that is somewhere in handle_line has a datagram.
LEMMA Busy ==
    ASSUME Types, NEW w \in Workers
    PROVE  /\ job[w].pc = "idle" <=> job[w] = Idle
           /\ job[w] # Idle => job[w] \in JobType /\ job[w].e \in Datagrams
  BY DEF Types, JobType, Idle

LEMMA BusyDrain ==
    ASSUME Types
    PROVE  /\ drain.pc = "idle" <=> drain = Idle
           /\ drain # Idle => drain \in DrainType /\ drain.lines \in Seq(Lines) /\ drain.i \in Nat \ {0} /\ drain.replayed \in Nat
  BY DEF Types, DrainType, Idle

\* So has a receive thread that is past recvfrom.
LEMMA Receiving ==
    ASSUME Types, hand.pc \in Taking
    PROVE  hand \in [pc : Taking, e : Datagrams] /\ hand.e \in Datagrams
  BY DEF Types, HandType, Taking

LEMMA ReceiveTypes ==
    ASSUME Types, Recv \/ Check \/ Put
    PROVE  got' \in Nat /\ arrived' \in Nat /\ hand' \in HandType
  <1>1. CASE Recv
    <2>1. got' \in Nat /\ got' \in Datagrams /\ arrived' \in Nat
      BY <1>1, IngestAssumption DEF Recv, Types, Datagrams
    <2>2. hand' = [pc |-> "check", e |-> got']
      BY <1>1 DEF Recv
    <2>3. QED
      BY <2>1, <2>2 DEF HandType, Taking
  <1>2. CASE Check
    <2>1. hand \in [pc : Taking, e : Datagrams]
      BY <1>2, Receiving DEF Check, Taking
    <2>2. \E l \in Taking : hand' = [hand EXCEPT !.pc = l]
      BY <1>2 DEF Check, Taking
    <2>3. hand' \in HandType
      BY <2>1, <2>2 DEF HandType
    <2>4. QED
      BY <1>2, <2>3 DEF Check, Types
  <1>3. CASE Put
    <2>1. hand' \in [pc : {"idle", "ended"}]
      BY <1>3 DEF Put
    <2>2. QED
      BY <1>3, <2>1 DEF Put, Types, HandType
  <1>4. QED
    BY <1>1, <1>2, <1>3

\* A worker's own steps: it goes on with its datagram or is done with it.
WorkerMoves(w) ==
    /\ Alive /\ job[w] # Idle
    /\ job' \in [Workers -> JobType \cup {Idle}]
    /\ \A u \in Workers \ {w} : job'[u] = job[u]
    /\ job'[w] # Idle => job'[w].e = job[w].e
    /\ UNCHANGED <<got, hand, queue, phase, drain, arrived, replayed>>

LEMMA WorkerMovesIs ==
    ASSUME Types, NEW w \in Workers,
           \/ HandleEmpty(w) \/ TakeToken(w) \/ Produce(w) \/ ProduceFails(w) \/ SpoolAppend(w) \/ SpoolRefuses(w)
    PROVE  WorkerMoves(w)
  <1>1. Alive /\ job[w].pc # "idle"
    BY DEF HandleEmpty, TakeToken, Produce, ProduceFails, SpoolAppend, SpoolRefuses, Spooling, At
  <1>2. job[w] # Idle /\ job[w].e \in Datagrams
    BY <1>1, Busy
  <1>3. UNCHANGED <<got, hand, queue, phase, drain, arrived, replayed>>
    BY DEF HandleEmpty, TakeToken, Produce, ProduceFails, SpoolAppend, SpoolRefuses, spoolVars
  <1>4. \E j \in JobType \cup {Idle} : job' = [job EXCEPT ![w] = j] /\ (j # Idle => j.e = job[w].e)
    <2> DEFINE J(l) == [pc |-> l, e |-> job[w].e]
    <2>1. \A l \in {"produce", "shed", "fail"} : J(l) \in JobType /\ J(l).e = job[w].e
      BY <1>2 DEF JobType
    <2>2. job' = [job EXCEPT ![w] = Idle] \/ \E l \in {"produce", "shed", "fail"} : job' = [job EXCEPT ![w] = J(l)]
      BY DEF HandleEmpty, TakeToken, Produce, ProduceFails, SpoolAppend, SpoolRefuses, Done, Goto
    <2> HIDE DEF J
    <2>3. QED
      BY <2>1, <2>2
  <1>5. QED
    BY <1>1, <1>2, <1>3, <1>4 DEF WorkerMoves, Types

\* The spool's part of a worker's step, and of the end of the process.
LEMMA AppendIs ==
    ASSUME Types, NEW w \in Workers, SpoolAppend(w)
    PROVE  job[w].e \in Datagrams /\ AppendStep(job[w].e) /\ accepted' = Append(accepted, job[w].e)
  <1>1. job[w].e \in Datagrams
    BY Busy DEF SpoolAppend, Spooling, At
  <1>2. file' = Written(job[w].e) /\ Harm({job[w].e}) /\ accepted' = Append(accepted, job[w].e)
    BY DEF SpoolAppend
  <1>3. QED
    BY <1>1, <1>2, WrittenIs

LEMMA RefuseIs ==
    ASSUME Types, NEW w \in Workers, SpoolRefuses(w)
    PROVE  job[w].e \in Datagrams /\ WriteStep(job[w].e) /\ UNCHANGED accepted
  <1>1. job[w].e \in Datagrams /\ UNCHANGED accepted
    BY Busy DEF SpoolRefuses, Spooling, At
  <1>2. CASE UNCHANGED <<file, damaged>>
    BY <1>1, <1>2 DEF WriteStep, Types
  <1>3. CASE file' \in Partial(job[w].e) /\ IF file' \in {file, Closed} THEN UNCHANGED damaged ELSE Harm({})
    BY <1>1, <1>3, PartialIs
  <1>4. QED
    BY <1>2, <1>3 DEF SpoolRefuses

LEMMA DieIs ==
    ASSUME Types, Die
    PROVE  /\ \/ UNCHANGED <<file, damaged>>
              \/ \E w \in Workers : Alive /\ job[w] # Idle /\ job[w].e \in Datagrams /\ WriteStep(job[w].e)
           /\ UNCHANGED <<got, hand, queue, job, drain, count, arrived, replayed, accepted>>
           /\ phase' = "down"
  <1>1. CASE UNCHANGED <<file, damaged>>
    BY <1>1 DEF Die
  <1>2. ASSUME NEW w \in Workers, Spooling(w), file' \in Partial(job[w].e) \ {file, Closed}, Harm({})
        PROVE  Alive /\ job[w] # Idle /\ job[w].e \in Datagrams /\ WriteStep(job[w].e)
    <2>1. Alive /\ job[w] # Idle /\ job[w].e \in Datagrams
      BY <1>2, Busy DEF Spooling, At
    <2>2. QED
      BY <1>2, <2>1, PartialIs
  <1>3. QED
    BY <1>1, <1>2 DEF Die

\* The drain thread's last step puts back what is left, or leaves the file alone.
LEMMA RewriteIs ==
    ASSUME IngestInv, Rewrite \/ RewriteBlind \/ RewriteFails
    PROVE  /\ drain # Idle /\ drain' = Idle /\ damaged \subseteq damaged'
           /\ UNCHANGED <<got, hand, queue, phase, job, count, arrived, replayed, accepted>>
           /\ \/ UNCHANGED file
              \/ file' = [lines |-> RestOf(drain.lines, drain.i, file.lines), open |-> FALSE]
              \/ /\ file' = [lines |-> SubSeq(drain.lines, drain.i, Len(drain.lines)), open |-> FALSE]
                 /\ Elems(Since(file.lines)) \ {Junk} \subseteq damaged'
  <1>1. /\ drain # Idle /\ drain' = Idle /\ damaged \subseteq damaged'
        /\ UNCHANGED <<got, hand, queue, phase, job, count, arrived, replayed, accepted>>
    BY DEF Rewrite, RewriteBlind, RewriteFails, DrainAt, Idle, spoolVars
  <1>2. CASE Rewrite
    <2>1. PutBack(Left \o Since(file.lines), file.lines)
      BY <1>2 DEF Rewrite
    <2>2. UNCHANGED file \/ file' = [lines |-> Left \o Since(file.lines), open |-> FALSE]
      BY <2>1 DEF PutBack
    <2>3. Left \o Since(file.lines) = RestOf(drain.lines, drain.i, file.lines)
      BY DEF Left, Since, RestOf
    <2>4. QED
      BY <1>1, <2>2, <2>3
  <1>3. CASE RewriteBlind
    <2>1. PutBack(Left, drain.lines)
      BY <1>3 DEF RewriteBlind
    <2>2. UNCHANGED file \/ file' = [lines |-> Left, open |-> FALSE]
      BY <2>1 DEF PutBack
    <2>3. file' # file => Elems(Since(file.lines)) \ {Junk} \subseteq damaged'
      BY <1>3 DEF RewriteBlind, Elems
    <2>4. QED
      BY <1>1, <2>2, <2>3 DEF Left
  <1>4. CASE RewriteFails
    BY <1>1, <1>4 DEF RewriteFails, spoolVars
  <1>5. QED
    BY <1>2, <1>3, <1>4

\* The drain's progress through its snapshot.
Progress ==
    /\ drain # Idle /\ drain' \in DrainType /\ drain'.lines = drain.lines
    /\ UNCHANGED <<got, hand, queue, phase, job, file, count, arrived, accepted, damaged>>
    /\ \/ drain'.i = drain.i /\ UNCHANGED replayed
       \/ /\ More /\ Line = Junk /\ drain'.i = drain.i + 1 /\ UNCHANGED replayed
       \/ /\ More /\ Line # Junk /\ drain'.i \in {drain.i, drain.i + 1} /\ replayed' = replayed \cup {Line}

LEMMA ProgressIs ==
    ASSUME Types, SkipJunk \/ Replay \/ ReplayFails \/ DrainEnd
    PROVE  Progress
  <1>1. drain # Idle /\ UNCHANGED <<got, hand, queue, phase, job, file, count, arrived, accepted, damaged>>
    BY DEF SkipJunk, Replay, ReplayFails, DrainEnd, DrainAt, Idle, spoolVars
  <1>2. drain \in DrainType /\ drain.i \in Nat \ {0} /\ drain.replayed \in Nat /\ drain.lines \in Seq(Lines)
    BY <1>1, BusyDrain
  <1>3. CASE SkipJunk
    <2> DEFINE d == [drain EXCEPT !.i = @ + 1]
    <2>1. d \in DrainType /\ d.lines = drain.lines /\ d.i = drain.i + 1
      BY <1>2 DEF DrainType
    <2>2. drain' = d /\ More /\ Line = Junk /\ UNCHANGED replayed
      BY <1>3 DEF SkipJunk
    <2> HIDE DEF d
    <2>3. QED
      BY <1>1, <2>1, <2>2 DEF Progress
  <1>4. CASE Replay
    <2>a. PICK a \in Nat \ {0}, b \in Nat : a = drain.i + 1 /\ b = drain.replayed + 1
      BY <1>2
    <2> DEFINE d == [drain EXCEPT !.i = a, !.replayed = b]
    <2>1. d \in DrainType /\ d.lines = drain.lines /\ d.i = drain.i + 1
      BY <1>2, <2>a DEF DrainType
    <2>2. drain' = d /\ More /\ Line # Junk /\ replayed' = replayed \cup {Line}
      BY <1>4, <2>a DEF Replay
    <2> HIDE DEF d
    <2>3. QED
      BY <1>1, <2>1, <2>2 DEF Progress
  <1>5. CASE ReplayFails \/ DrainEnd
    <2> DEFINE d == [drain EXCEPT !.pc = "rewrite"]
    <2>1. d \in DrainType /\ d.lines = drain.lines /\ d.i = drain.i
      BY <1>2 DEF DrainType
    <2>2. drain' = d /\ (UNCHANGED replayed \/ (More /\ Line # Junk /\ replayed' = replayed \cup {Line}))
      BY <1>5 DEF ReplayFails, DrainEnd
    <2> HIDE DEF d
    <2>3. QED
      BY <1>1, <2>1, <2>2 DEF Progress
  <1>6. QED
    BY <1>3, <1>4, <1>5

\* A line that holds an event is an event's.
LEMMA LineIs ==
    ASSUME Types, drain # Idle, More
    PROVE  drain.i \in DOMAIN drain.lines /\ Line \in Lines /\ (Line # Junk => Line \in Datagrams)
  <1>1. drain.lines \in Seq(Lines) /\ drain.i \in Nat \ {0}
    BY BusyDrain
  <1>2. drain.i \in DOMAIN drain.lines
    BY <1>1 DEF More
  <1>3. Line \in Lines
    BY <1>1, <1>2 DEF Line
  <1>4. QED
    BY <1>2, <1>3 DEF Lines

\* A counter goes up.
LEMMA CountedUp ==
    ASSUME Types, NEW c \in Counters, Counted(c)
    PROVE  count' \in [Counters -> Nat]
  BY DEF Types, Counted

\* What is put back is a list of lines.
LEMMA PutBackTypes ==
    ASSUME IngestInv, drain # Idle
    PROVE  /\ RestOf(drain.lines, drain.i, file.lines) \in Seq(Lines)
           /\ SubSeq(drain.lines, drain.i, Len(drain.lines)) \in Seq(Lines)
  <1>1. /\ drain.lines \in Seq(Lines) /\ drain.i \in Nat \ {0} /\ file.lines \in Seq(Lines)
        /\ drain.i <= Len(drain.lines) + 1 /\ Len(drain.lines) <= Len(file.lines)
    BY BusyDrain DEF IngestInv, Types, SpoolInv, SnapshotHolds
  <1>2. IsRest(Lines, drain.lines, drain.i, file.lines, RestOf(drain.lines, drain.i, file.lines))
    BY <1>1, Joined
  <1>3. \A k \in drain.i .. Len(drain.lines) : drain.lines[k] \in Lines
    BY <1>1
  <1>4. drain.i \in Int /\ Len(drain.lines) \in Int
    BY <1>1
  <1>5. SubSeq(drain.lines, drain.i, Len(drain.lines)) \in Seq(Lines)
    BY <1>3, <1>4, SubSeqProperties
  <1>6. QED
    BY <1>2, <1>5 DEF IsRest

LEMMA TypesStep ==
    ASSUME IngestInv, [Next]_vars
    PROVE  Types'
  <1>t. Types
    BY DEF IngestInv
  <1>1. CASE Recv \/ Check \/ Put
    <2>1. got' \in Nat /\ arrived' \in Nat /\ hand' \in HandType
      BY <1>1, <1>t, ReceiveTypes
    <2>2. queue' \in Seq(Datagrams) /\ count' \in [Counters -> Nat]
      <3>1. CASE Recv \/ Check
        BY <3>1, <1>t DEF Recv, Check, Types
      <3>2. CASE Put
        <4>1. queue \in Seq(Datagrams) /\ hand.e \in Datagrams
          BY <3>2, <1>t, Receiving DEF Put, Types, Taking
        <4>2. Append(queue, hand.e) \in Seq(Datagrams)
          BY <4>1, AppendProperties
        <4>3. QED
          BY <3>2, <4>1, <4>2, <1>t, CountedUp DEF Put, Counters, Types
      <3>3. QED
        BY <1>1, <3>1, <3>2
    <2>3. UNCHANGED <<phase, job, file, drain, replayed, accepted>>
      BY <1>1 DEF Recv, Check, Put, spoolVars
    <2>4. QED
      BY <2>1, <2>2, <2>3, <1>t DEF Types
  <1>2. ASSUME NEW w \in Workers, Get(w) PROVE Types'
    <2>1. queue # <<>> /\ queue \in Seq(Datagrams)
      BY <1>2, <1>t DEF Get, Types
    <2>2. Head(queue) \in Datagrams /\ Tail(queue) \in Seq(Datagrams)
      BY <2>1
    <2>3. [pc |-> "limit", e |-> Head(queue)] \in JobType
      BY <2>2 DEF JobType
    <2>4. job' \in [Workers -> JobType \cup {Idle}]
      BY <2>3, <1>2, <1>t DEF Get, Goto, Types
    <2>5. queue' = Tail(queue) /\ UNCHANGED <<got, hand, phase, file, drain, count, arrived, replayed, accepted>>
      BY <1>2 DEF Get, spoolVars
    <2>6. QED
      BY <2>2, <2>4, <2>5, <1>t DEF Types
  <1>3. ASSUME NEW w \in Workers,
               \/ HandleEmpty(w) \/ TakeToken(w) \/ Produce(w) \/ ProduceFails(w) \/ SpoolAppend(w) \/ SpoolRefuses(w)
        PROVE  Types'
    <2>1. job' \in [Workers -> JobType \cup {Idle}] /\ UNCHANGED <<got, hand, queue, phase, drain, arrived, replayed>>
      BY <1>3, <1>t, WorkerMovesIs DEF WorkerMoves
    <2>2. count' \in [Counters -> Nat]
      <3>1. UNCHANGED count \/ \E c \in Counters : Counted(c)
        BY <1>3 DEF HandleEmpty, TakeToken, Produce, ProduceFails, SpoolAppend, SpoolRefuses, Counters
      <3>2. QED
        BY <3>1, <1>t, CountedUp DEF Types
    <2>3. file' \in [lines : Seq(Lines), open : BOOLEAN] /\ accepted' \in Seq(Datagrams)
      <3>1. CASE SpoolAppend(w)
        <4>1. /\ file' \in [lines : Seq(Lines), open : BOOLEAN] /\ job[w].e \in Datagrams
              /\ accepted' = Append(accepted, job[w].e)
          BY <3>1, <1>t, AppendIs DEF AppendStep, WriteStep
        <4>2. accepted \in Seq(Datagrams)
          BY <1>t DEF Types
        <4>3. Append(accepted, job[w].e) \in Seq(Datagrams)
          BY <4>1, <4>2, AppendProperties
        <4>4. QED
          BY <4>1, <4>3
      <3>2. CASE SpoolRefuses(w)
        BY <3>2, <1>t, RefuseIs DEF WriteStep, Types
      <3>3. CASE HandleEmpty(w) \/ TakeToken(w) \/ Produce(w) \/ ProduceFails(w)
        BY <3>3, <1>t DEF HandleEmpty, TakeToken, Produce, ProduceFails, spoolVars, Types
      <3>4. QED
        BY <1>3, <3>1, <3>2, <3>3
    <2>4. QED
      BY <2>1, <2>2, <2>3, <1>t DEF Types
  <1>4. CASE DrainStart
    <2>1. drain' \in DrainType
      BY <1>4, <1>t DEF DrainStart, DrainType, Types
    <2>2. UNCHANGED <<got, hand, queue, phase, job, file, count, arrived, replayed, accepted>>
      BY <1>4 DEF DrainStart, spoolVars
    <2>3. QED
      BY <2>1, <2>2, <1>t DEF Types
  <1>5. CASE SkipJunk \/ Replay \/ ReplayFails \/ DrainEnd
    <2>1. Progress
      BY <1>5, <1>t, ProgressIs
    <2>2. replayed' \subseteq Datagrams
      BY <2>1, <1>t, LineIs DEF Progress, Types
    <2>3. QED
      BY <2>1, <2>2, <1>t DEF Progress, Types
  <1>6. CASE Rewrite \/ RewriteBlind \/ RewriteFails
    <2>1. drain' = Idle /\ UNCHANGED <<got, hand, queue, phase, job, count, arrived, replayed, accepted>>
      BY <1>6, RewriteIs
    <2>2. file' \in [lines : Seq(Lines), open : BOOLEAN]
      <3>1. \A l : l \in Seq(Lines) => [lines |-> l, open |-> FALSE] \in [lines : Seq(Lines), open : BOOLEAN]
        OBVIOUS
      <3>2. \/ UNCHANGED file
            \/ file' = [lines |-> RestOf(drain.lines, drain.i, file.lines), open |-> FALSE]
            \/ file' = [lines |-> SubSeq(drain.lines, drain.i, Len(drain.lines)), open |-> FALSE]
        BY <1>6, RewriteIs
      <3>3. drain # Idle
        BY <1>6, RewriteIs
      <3>4. file \in [lines : Seq(Lines), open : BOOLEAN]
        BY <1>t DEF Types
      <3>5. QED
        BY <3>1, <3>2, <3>3, <3>4, PutBackTypes, Zenon
    <2>3. QED
      BY <2>1, <2>2, <1>t DEF Types
  <1>7. CASE Stop \/ BusDown \/ BusBack \/ UNCHANGED vars
    BY <1>7, <1>t DEF Stop, BusDown, BusBack, vars, spoolVars, Types
  <1>8. CASE StopQueue
    <2>1. count' \in [Counters -> Nat]
      <3>1. Len(queue) \in Nat /\ count["lost"] \in Nat
        BY <1>t DEF Types, Counters
      <3>2. count' = [count EXCEPT !["lost"] = count["lost"] + Len(queue)]
        BY <1>8 DEF StopQueue
      <3>3. count["lost"] + Len(queue) \in Nat
        BY <3>1
      <3>4. count \in [Counters -> Nat]
        BY <1>t DEF Types
      <3>5. QED
        BY <3>2, <3>3, <3>4
    <2>2. phase' = "stopped" /\ queue' = <<>>
          /\ UNCHANGED <<got, hand, job, file, drain, arrived, replayed, accepted>>
      BY <1>8 DEF StopQueue, spoolVars
    <2>3. QED
      BY <2>1, <2>2, <1>t DEF Types
  <1>9. CASE Die
    <2>1. phase' = "down" /\ UNCHANGED <<got, hand, queue, job, drain, count, arrived, replayed, accepted>>
      BY <1>9, <1>t, DieIs
    <2>2. file' \in [lines : Seq(Lines), open : BOOLEAN]
      BY <1>9, <1>t, DieIs DEF WriteStep, Types
    <2>3. QED
      BY <2>1, <2>2, <1>t DEF Types
  <1>10. CASE Restart
    <2>1. Idle \in HandType
      BY DEF HandType, Idle
    <2>2. QED
      BY <1>10, <2>1, <1>t DEF Restart, Types, Zero
  <1>11. QED
    BY <1>1, <1>2, <1>3, <1>4, <1>5, <1>6, <1>7, <1>8, <1>9, <1>10 DEF Next, Worker, DrainStep

-----------------------------------------------------------------------------
(* The counters.                                                           *)

Total == count["produced"] + count["dropped"] + count["spooled"] + count["lost"] + count["empty"] + count["queue_full"]
InHand == {w \in Workers : job[w] # Idle}
WithThread == IF hand.pc \in Taking THEN 1 ELSE 0

LEMMA InHandFinite ==
    /\ IsFiniteSet(InHand) /\ Cardinality(InHand) \in Nat
    /\ IsFiniteSet(InHand') /\ Cardinality(InHand') \in Nat
  <1>1. InHand \in SUBSET Workers /\ InHand' \in SUBSET Workers
    BY DEF InHand
  <1>2. IsFiniteSet(InHand) /\ IsFiniteSet(InHand')
    BY <1>1, FS_Subset, IngestAssumption
  <1>3. QED
    BY <1>2, FS_CardinalityType

\* The property in terms of the workers that have a datagram.
LEMMA CountedRead ==
    ASSUME Types
    PROVE  EveryDatagramCounted <=>
              (Alive => /\ arrived = Total + Len(queue) + WithThread + Cardinality(InHand)
                        /\ hand.pc = "discarded" => phase # "up")
  <1>1. Alive => {w \in Workers : ~At(w, "idle")} = InHand
    BY Busy DEF At, InHand
  <1>2. QED
    BY <1>1 DEF EveryDatagramCounted, Total, WithThread, Taking

LEMMA CountedReadAfter ==
    ASSUME Types'
    PROVE  EveryDatagramCounted' <=>
              (Alive' => /\ arrived' = Total' + Len(queue') + WithThread' + Cardinality(InHand')
                         /\ hand'.pc = "discarded" => phase' # "up")
  <1>1. \A w \in Workers : job'[w].pc = "idle" <=> job'[w] = Idle
    <2>1. job' \in [Workers -> JobType \cup {Idle}]
      BY DEF Types
    <2>2. Idle.pc = "idle" /\ \A j \in JobType : j.pc # "idle"
      BY DEF Idle, JobType
    <2>3. QED
      BY <2>1, <2>2
  <1>2. Alive' => {w \in Workers : ~At(w, "idle")}' = InHand'
    BY <1>1 DEF At, InHand
  <1>3. QED
    BY <1>2 DEF EveryDatagramCounted, Total, WithThread, Taking

LEMMA TotalNat ==
    ASSUME Types
    PROVE  Total \in Nat /\ \A c \in Counters : count[c] \in Nat
  <1>1. \A c \in Counters : count[c] \in Nat
    BY DEF Types
  <1>2. QED
    BY <1>1 DEF Total, Counters

\* A datagram is counted once.
LEMMA TotalUp ==
    ASSUME Types, NEW c \in Counters, Counted(c)
    PROVE  Total' = Total + 1
  <1>1. \A d \in Counters : count[d] \in Nat
    BY TotalNat
  <1>2. \A d \in Counters : count'[d] = IF d = c THEN count[d] + 1 ELSE count[d]
    BY DEF Types, Counted
  <1>3. QED
    BY <1>1, <1>2 DEF Total, Counters

\* A worker takes a datagram, goes on with it, or is done with it.
LEMMA InHandMoves ==
    ASSUME Types, NEW w \in Workers, \A u \in Workers \ {w} : job'[u] = job[u]
    PROVE  Cardinality(InHand') =
              IF job[w] = Idle THEN IF job'[w] = Idle THEN Cardinality(InHand) ELSE Cardinality(InHand) + 1
              ELSE IF job'[w] = Idle THEN Cardinality(InHand) - 1 ELSE Cardinality(InHand)
  <1>1. CASE job'[w] = Idle
    <2>1. InHand' = InHand \ {w}
      BY <1>1 DEF InHand
    <2>2. Cardinality(InHand \ {w}) = IF w \in InHand THEN Cardinality(InHand) - 1 ELSE Cardinality(InHand)
      BY InHandFinite, FS_RemoveElement
    <2>3. QED
      BY <1>1, <2>1, <2>2 DEF InHand
  <1>2. CASE job'[w] # Idle
    <2>1. InHand' = InHand \cup {w}
      BY <1>2 DEF InHand
    <2>2. Cardinality(InHand \cup {w}) = IF w \in InHand THEN Cardinality(InHand) ELSE Cardinality(InHand) + 1
      BY InHandFinite, FS_AddElement
    <2>3. QED
      BY <1>2, <2>1, <2>2 DEF InHand
  <1>3. QED
    BY <1>1, <1>2

LEMMA CountedStep ==
    ASSUME IngestInv, [Next]_vars
    PROVE  EveryDatagramCounted'
  <1>t. Types /\ Types'
    BY TypesStep DEF IngestInv
  <1>n. /\ Total \in Nat /\ Cardinality(InHand) \in Nat /\ Cardinality(InHand') \in Nat /\ Len(queue) \in Nat
        /\ arrived \in Nat /\ WithThread \in Nat
    BY <1>t, TotalNat, InHandFinite DEF Types, WithThread
  <1>a. /\ Alive => arrived = Total + Len(queue) + WithThread + Cardinality(InHand)
        /\ Alive /\ hand.pc = "discarded" => phase # "up"
    BY <1>t, CountedRead DEF IngestInv
  <1>d. hand'.pc = "discarded" /\ Alive' => phase' # "up"
    <2>1. CASE Check
      BY <2>1 DEF Check
    <2>2. CASE Recv \/ Put \/ Restart
      BY <2>2 DEF Recv, Put, Restart, Idle
    <2>3. CASE UNCHANGED hand /\ (phase' = "up" => phase = "up")
      BY <2>3, <1>a DEF Alive
    <2>4. CASE \E w \in Workers : Worker(w)
      <3>1. UNCHANGED <<hand, phase>>
        BY <2>4 DEF Worker, Get, HandleEmpty, TakeToken, Produce, ProduceFails, SpoolAppend, SpoolRefuses
      <3>2. QED
        BY <3>1, <2>3
    <2>5. CASE DrainStep \/ ReplayFails \/ RewriteBlind \/ RewriteFails
      <3>1. UNCHANGED <<hand, phase>>
        BY <2>5 DEF DrainStep, DrainStart, SkipJunk, Replay, DrainEnd, Rewrite, ReplayFails, RewriteBlind, RewriteFails
      <3>2. QED
        BY <3>1, <2>3
    <2>6. CASE Stop \/ StopQueue \/ Die \/ BusDown \/ BusBack \/ UNCHANGED vars
      <3>1. UNCHANGED hand /\ (phase' = "up" => phase = "up")
        BY <2>6 DEF Stop, StopQueue, Die, BusDown, BusBack, vars
      <3>2. QED
        BY <3>1, <2>3
    <2>7. QED
      BY <2>1, <2>2, <2>4, <2>5, <2>6 DEF Next
  <1> DEFINE Sum == arrived' = Total' + Len(queue') + WithThread' + Cardinality(InHand')
  <1> SUFFICES ASSUME Alive' PROVE Sum
    BY <1>t, <1>d, CountedReadAfter
  <1>1. CASE Recv \/ Check
    <2>1. Alive /\ UNCHANGED <<job, queue, count>>
      BY <1>1 DEF Recv, Check
    <2>2. InHand' = InHand /\ Total' = Total
      BY <2>1 DEF InHand, Total
    <2>3. CASE Recv
      <3>1. arrived' = arrived + 1 /\ WithThread = 0 /\ WithThread' = 1
        BY <2>3 DEF Recv, WithThread, Taking
      <3>2. QED
        BY <2>1, <2>2, <3>1, <1>a, <1>n
    <2>4. CASE Check
      <3>1. hand \in [pc : Taking, e : Datagrams]
        BY <2>4, <1>t, Receiving DEF Check, Taking
      <3>2. arrived' = arrived /\ WithThread' = WithThread
        BY <2>4, <3>1 DEF Check, WithThread, Taking
      <3>3. QED
        BY <2>1, <2>2, <3>2, <1>a
    <2>5. QED
      BY <1>1, <2>3, <2>4
  <1>11. CASE Put
    <2>1. Alive /\ UNCHANGED <<job, arrived>> /\ WithThread = 1 /\ WithThread' = 0
      BY <1>11 DEF Put, WithThread, Taking
    <2>2. InHand' = InHand
      BY <2>1 DEF InHand
    <2>3. CASE queue' = Append(queue, hand.e) /\ UNCHANGED count
      <3>1. Len(queue') = Len(queue) + 1
        BY <2>3, <1>t DEF Types
      <3>2. Total' = Total
        BY <2>3 DEF Total
      <3>3. QED
        BY <2>1, <2>2, <3>1, <3>2, <1>a, <1>n
    <2>4. CASE Counted("queue_full") /\ UNCHANGED queue
      <3>1. Total' = Total + 1
        BY <2>4, <1>t, TotalUp DEF Counters
      <3>2. QED
        BY <2>1, <2>2, <2>4, <3>1, <1>a, <1>n
    <2>5. QED
      BY <1>11, <2>3, <2>4 DEF Put
  <1>2. ASSUME NEW w \in Workers, Get(w) PROVE Sum
    <2>1. Alive /\ job[w] = Idle /\ UNCHANGED <<arrived, count>> /\ queue # <<>> /\ queue' = Tail(queue)
      BY <1>2, <1>t, Busy DEF Get, At
    <2>2. job'[w] # Idle /\ \A u \in Workers \ {w} : job'[u] = job[u]
      BY <1>2, <1>t DEF Get, Goto, Types, Idle
    <2>3. Cardinality(InHand') = Cardinality(InHand) + 1
      BY <2>1, <2>2, <1>t, InHandMoves
    <2>4. Len(queue') = Len(queue) - 1
      BY <2>1, <1>t DEF Types
    <2>5. Total' = Total /\ WithThread' = WithThread
      BY <1>2, <2>1 DEF Total, WithThread, Get
    <2>6. QED
      BY <2>1, <2>3, <2>4, <2>5, <1>a, <1>n
  <1>3. ASSUME NEW w \in Workers,
               \/ HandleEmpty(w) \/ TakeToken(w) \/ Produce(w) \/ ProduceFails(w) \/ SpoolAppend(w) \/ SpoolRefuses(w)
        PROVE  Sum
    <2>1. Alive /\ job[w] # Idle /\ (\A u \in Workers \ {w} : job'[u] = job[u]) /\ UNCHANGED <<hand, queue, arrived>>
      BY <1>3, <1>t, WorkerMovesIs DEF WorkerMoves
    <2>a. WithThread' = WithThread
      BY <2>1 DEF WithThread
    <2>2. CASE HandleEmpty(w) \/ Produce(w) \/ SpoolAppend(w) \/ SpoolRefuses(w)
      <3>1. job'[w] = Idle
        BY <2>2, <1>t DEF HandleEmpty, Produce, SpoolAppend, SpoolRefuses, Done, Types
      <3>2. \E c \in Counters : Counted(c)
        BY <2>2 DEF HandleEmpty, Produce, SpoolAppend, SpoolRefuses, Counters
      <3>3. Total' = Total + 1
        BY <3>2, <1>t, TotalUp
      <3>4. Cardinality(InHand') = Cardinality(InHand) - 1
        BY <2>1, <3>1, <1>t, InHandMoves
      <3>5. QED
        BY <2>1, <2>a, <3>3, <3>4, <1>a, <1>n
    <2>3. CASE TakeToken(w) \/ ProduceFails(w)
      <3>1. job'[w] # Idle /\ UNCHANGED count
        BY <2>3, <1>t DEF TakeToken, ProduceFails, Goto, Types, Idle
      <3>2. Total' = Total
        BY <3>1 DEF Total
      <3>3. Cardinality(InHand') = Cardinality(InHand)
        BY <2>1, <3>1, <1>t, InHandMoves
      <3>4. QED
        BY <2>1, <2>a, <3>2, <3>3, <1>a
    <2>4. QED
      BY <1>3, <2>2, <2>3
  <1>4. CASE Alive /\ UNCHANGED <<arrived, hand, count, queue, job>>
    <2>1. Total' = Total /\ InHand' = InHand /\ WithThread' = WithThread
      BY <1>4 DEF Total, InHand, WithThread
    <2>2. QED
      BY <1>4, <2>1, <1>a
  <1>5. CASE DrainStep \/ ReplayFails \/ RewriteBlind \/ RewriteFails \/ Stop
    <2>1. UNCHANGED <<arrived, hand, count, queue, job>> /\ Alive
      BY <1>5 DEF DrainStep, DrainStart, SkipJunk, Replay, DrainEnd, Rewrite, ReplayFails, RewriteBlind,
                  RewriteFails, Stop, DrainAt, Alive
    <2>2. QED
      BY <2>1, <1>4
  <1>6. CASE BusDown \/ BusBack \/ UNCHANGED vars
    <2>1. UNCHANGED <<arrived, hand, count, queue, job, phase>>
      BY <1>6 DEF BusDown, BusBack, vars
    <2>2. Alive
      BY <2>1 DEF Alive
    <2>3. QED
      BY <2>1, <2>2, <1>4
  <1>7. CASE StopQueue
    <2>1. Alive /\ UNCHANGED <<job, arrived>> /\ queue' = <<>> /\ count' = [count EXCEPT !["lost"] = count["lost"] + Len(queue)]
      BY <1>7 DEF StopQueue, Alive
    <2>2. InHand' = InHand /\ Len(queue') = 0 /\ WithThread' = WithThread
      BY <1>7, <2>1 DEF InHand, WithThread, StopQueue
    <2>3. Total' = Total + Len(queue)
      <3>1. \A c \in Counters : count[c] \in Nat
        BY <1>t, TotalNat
      <3>2. \A c \in Counters : count'[c] = IF c = "lost" THEN count[c] + Len(queue) ELSE count[c]
        BY <2>1, <1>t DEF Types
      <3>3. /\ count'["lost"] = count["lost"] + Len(queue)
            /\ \A c \in Counters \ {"lost"} : count'[c] = count[c]
        BY <3>2 DEF Counters
      <3>4. count["lost"] \in Nat /\ count["produced"] \in Nat /\ count["dropped"] \in Nat
            /\ count["spooled"] \in Nat /\ count["empty"] \in Nat /\ count["queue_full"] \in Nat
        BY <3>1 DEF Counters
      <3>5. count'["produced"] = count["produced"] /\ count'["dropped"] = count["dropped"]
            /\ count'["spooled"] = count["spooled"] /\ count'["empty"] = count["empty"]
            /\ count'["queue_full"] = count["queue_full"]
        BY <3>3 DEF Counters
      <3>6. PICK a \in Nat, b \in Nat, c \in Nat, d \in Nat, e \in Nat, f \in Nat, n \in Nat :
               /\ a = count["produced"] /\ b = count["dropped"] /\ c = count["spooled"] /\ d = count["lost"]
               /\ e = count["empty"] /\ f = count["queue_full"] /\ n = Len(queue)
        BY <3>4, <1>n
      <3>7. Total = a + b + c + d + e + f /\ Total' = a + b + c + (d + n) + e + f
        BY <3>3, <3>5, <3>6 DEF Total
      <3>8. a + b + c + (d + n) + e + f = (a + b + c + d + e + f) + n
        OBVIOUS
      <3>9. QED
        BY <3>6, <3>7, <3>8
    <2>4. QED
      BY <2>1, <2>2, <2>3, <1>a, <1>n
  <1>8. CASE Die
    BY <1>8 DEF Die, Alive
  <1>9. CASE Restart
    <2>1. arrived' = 0 /\ Len(queue') = 0 /\ WithThread' = 0
      BY <1>9 DEF Restart, WithThread, Taking, Idle
    <2>2. InHand' = {}
      BY <1>9 DEF Restart, InHand
    <2>3. Cardinality(InHand') = 0
      BY <2>2, FS_EmptySet
    <2>4. Total' = 0
      BY <1>9 DEF Restart, Zero, Total, Counters
    <2>5. QED
      BY <2>1, <2>3, <2>4
  <1>10. QED
    BY <1>1, <1>11, <1>2, <1>3, <1>5, <1>6, <1>7, <1>8, <1>9 DEF Next, Worker, DrainStep

-----------------------------------------------------------------------------
(* One place for a datagram.                                               *)

LEMMA ElemsAppend ==
    ASSUME NEW S, NEW s \in Seq(S), NEW x \in S
    PROVE  Elems(Append(s, x)) = Elems(s) \cup {x}
  <1> DEFINE a == Append(s, x)
  <1>1. /\ DOMAIN s = 1 .. Len(s) /\ DOMAIN a = 1 .. (Len(s) + 1) /\ Len(s) \in Nat
        /\ \A k \in 1 .. Len(s) : a[k] = s[k]
        /\ a[Len(s) + 1] = x
    OBVIOUS
  <1> HIDE DEF a
  <1>2. \A k \in DOMAIN a : k \in DOMAIN s \/ k = Len(s) + 1
    BY <1>1
  <1>3. (\A k \in DOMAIN s : k \in DOMAIN a /\ a[k] = s[k]) /\ Len(s) + 1 \in DOMAIN a
    BY <1>1
  <1>4. Elems(a) = Elems(s) \cup {x}
    BY <1>1, <1>2, <1>3 DEF Elems
  <1>5. QED
    BY <1>4 DEF a

LEMMA ElemsSpoiled ==
    ASSUME NEW lines \in Seq(Lines)
    PROVE  Elems(Spoiled(lines)) \subseteq Elems(lines) \cup {Junk}
  BY DEF Elems, Spoiled

LEMMA ElemsTail ==
    ASSUME NEW S, NEW s \in Seq(S), s # <<>>
    PROVE  Elems(Tail(s)) \subseteq Elems(s) /\ Head(s) \in Elems(s)
  <1>1. /\ DOMAIN s = 1 .. Len(s) /\ Len(s) \in Nat \ {0} /\ Head(s) = s[1]
        /\ DOMAIN Tail(s) = 1 .. (Len(s) - 1) /\ \A k \in 1 .. (Len(s) - 1) : Tail(s)[k] = s[k + 1]
    OBVIOUS
  <1>2. 1 \in DOMAIN s /\ \A k \in DOMAIN Tail(s) : k + 1 \in DOMAIN s
    BY <1>1
  <1>3. QED
    BY <1>1, <1>2 DEF Elems

\* What is put back was in the snapshot or in the file.
LEMMA ElemsRest ==
    ASSUME NEW snap \in Seq(Lines), NEW lines \in Seq(Lines), NEW pos \in Nat \ {0},
           pos <= Len(snap) + 1, Len(snap) <= Len(lines), NEW new, new = RestOf(snap, pos, lines)
    PROVE  /\ Elems(RestOf(snap, pos, lines)) \subseteq Elems(snap) \cup Elems(lines)
           /\ Elems(SubSeq(snap, pos, Len(snap))) \subseteq Elems(snap)
  <1>1. /\ snap \in Seq(Lines) /\ pos \in Nat \ {0} /\ lines \in Seq(Lines)
        /\ pos <= Len(snap) + 1 /\ Len(snap) <= Len(lines)
    OBVIOUS
  <1>2. /\ Len(snap) \in Nat /\ Len(lines) \in Nat /\ DOMAIN snap = 1 .. Len(snap) /\ DOMAIN lines = 1 .. Len(lines)
    BY <1>1
  <1>3. new = RestOf(snap, pos, lines)
    OBVIOUS
  <1>4. /\ new \in Seq(Lines) /\ Len(new) = Len(lines) - pos + 1
        /\ \A k \in 1 .. Len(snap) : k >= pos => new[k - pos + 1] = snap[k]
        /\ \A k \in 1 .. Len(lines) : k > Len(snap) => new[k - pos + 1] = lines[k]
    <2>1. IsRest(Lines, snap, pos, lines, new)
      BY Joined
    <2>2. QED
      BY <2>1 DEF IsRest
  <1>5. ASSUME NEW m \in DOMAIN new PROVE new[m] \in Elems(snap) \cup Elems(lines)
    <2>1. PICK k \in 1 .. Len(lines) : k >= pos /\ m = k - pos + 1
      <3>1. m \in 1 .. (Len(lines) - pos + 1)
        BY <1>4
      <3>2. m + pos - 1 \in 1 .. Len(lines) /\ m + pos - 1 >= pos /\ m = (m + pos - 1) - pos + 1
        BY <1>1, <1>2, <3>1
      <3>3. QED
        BY <3>2
    <2>2. k > Len(snap) \/ k \in 1 .. Len(snap)
      BY <1>2
    <2>3. QED
      BY <2>1, <2>2, <1>2, <1>4 DEF Elems
  <1>6. Elems(new) \subseteq Elems(snap) \cup Elems(lines)
    BY <1>5 DEF Elems
  <1>7. PICK left : left = SubSeq(snap, pos, Len(snap))
    OBVIOUS
  <1>8. /\ left \in Seq(Lines) /\ Len(left) = IF pos <= Len(snap) THEN Len(snap) - pos + 1 ELSE 0
        /\ \A k \in 1 .. Len(snap) - pos + 1 : left[k] = snap[pos + k - 1]
    <2>1. (\A k \in pos .. Len(snap) : snap[k] \in Lines) /\ pos \in Int /\ Len(snap) \in Int
      BY <1>1
    <2>2. QED
      BY <2>1, <1>7, SubSeqProperties
  <1>9. ASSUME NEW m \in DOMAIN left PROVE left[m] \in Elems(snap)
    <2>1. m \in 1 .. Len(left)
      BY <1>8
    <2>2. m \in 1 .. Len(snap) - pos + 1 /\ pos + m - 1 \in 1 .. Len(snap)
      BY <2>1, <1>1, <1>2, <1>8
    <2>3. QED
      BY <2>2, <1>2, <1>8 DEF Elems
  <1>10. Elems(left) \subseteq Elems(snap)
    BY <1>9 DEF Elems
  <1>11. QED
    BY <1>3, <1>6, <1>7, <1>10

LEMMA ElemsPutBack ==
    ASSUME IngestInv, drain # Idle
    PROVE  /\ Elems(RestOf(drain.lines, drain.i, file.lines)) \subseteq Elems(drain.lines) \cup Elems(file.lines)
           /\ Elems(SubSeq(drain.lines, drain.i, Len(drain.lines))) \subseteq Elems(drain.lines)
  <1>1. /\ drain.lines \in Seq(Lines) /\ drain.i \in Nat \ {0} /\ file.lines \in Seq(Lines)
        /\ drain.i <= Len(drain.lines) + 1 /\ Len(drain.lines) <= Len(file.lines)
    BY BusyDrain DEF IngestInv, Types, SpoolInv, SnapshotHolds
  <1>2. QED
    BY <1>1, ElemsRest

\* What the process has is an event.
LEMMA HeldTypes ==
    ASSUME Types
    PROVE  /\ Held \subseteq Datagrams /\ Junk \notin Held /\ \A w \in Workers : job[w] # Idle => job[w].e \in Held
           /\ Taken \subseteq Datagrams /\ Junk \notin Taken
  <1>1. Elems(queue) \subseteq Datagrams
    BY DEF Types, Elems
  <1>2. \A w \in Workers : job[w] # Idle => job[w].e \in Datagrams
    BY Busy
  <1>3. Held \subseteq Datagrams
    BY <1>1, <1>2 DEF Held
  <1>4. Taken \subseteq Datagrams
    BY Receiving DEF Taken
  <1>5. QED
    BY <1>3, <1>4, NotJunk DEF Held

\* The spool and the drain thread meet nothing new.
LEMMA PlaceSame ==
    ASSUME Types, OnePlace, UNCHANGED <<got, hand, queue, job>>, Alive' => Alive, Met' \subseteq Met \cup {Junk}
    PROVE  OnePlace'
  <1>1. Held' = Held /\ Taken' = Taken
    BY DEF Held, Elems, Taken
  <1>2. Junk \in 0 .. got /\ Junk \notin Held /\ Junk \notin Taken
    BY HeldTypes DEF Types, Junk
  <1>3. Taken' \cup Held' \cup Met' \subseteq 0 .. got'
    BY <1>1, <1>2 DEF OnePlace
  <1>4. QED
    BY <1>1, <1>2, <1>3 DEF OnePlace

\* A worker goes on, or hands its datagram over and is done.
LEMMA PlaceWorker ==
    ASSUME Types, OnePlace, NEW w \in Workers, WorkerMoves(w),
           \/ Met' \subseteq Met \cup {Junk}
           \/ job'[w] = Idle /\ Met' \subseteq Met \cup {Junk, job[w].e}
    PROVE  OnePlace'
  <1>1. /\ Alive /\ job[w] # Idle /\ (\A u \in Workers \ {w} : job'[u] = job[u])
        /\ (job'[w] # Idle => job'[w].e = job[w].e) /\ UNCHANGED <<got, queue>> /\ Taken' = Taken
    BY DEF WorkerMoves, Taken
  <1>2. \A u \in Workers : job'[u] # Idle => job[u] # Idle /\ job'[u].e = job[u].e
    BY <1>1
  <1>3. Held' \subseteq Held /\ (job'[w] = Idle => job[w].e \notin Held')
    <2>1. Held' \subseteq Held
      BY <1>1, <1>2 DEF Held, Elems
    <2>2. ASSUME job'[w] = Idle, job[w].e \in Held' PROVE FALSE
      <3>1. job[w].e \notin Elems(queue')
        BY <1>1 DEF OnePlace, Elems
      <3>2. PICK u \in Workers : job'[u] # Idle /\ job'[u].e = job[w].e
        BY <2>2, <3>1 DEF Held
      <3>3. u # w /\ job[u] # Idle /\ job[u].e = job[w].e
        BY <1>2, <2>2, <3>2
      <3>4. QED
        BY <1>1, <3>3 DEF OnePlace
    <2>3. QED
      BY <2>1, <2>2
  <1>4. Junk \in 0 .. got /\ Junk \notin Held \cup Taken /\ job[w].e \in Held
    BY <1>1, HeldTypes DEF Types, Junk
  <1>5. Taken' \cup Held' \cup Met' \subseteq 0 .. got'
    BY <1>1, <1>3, <1>4 DEF OnePlace
  <1>6. Held' \cap Met' = {} /\ Taken' \cap (Held' \cup Met') = {}
    BY <1>1, <1>3, <1>4 DEF OnePlace
  <1>7. /\ \A i, k \in DOMAIN queue' : queue'[i] = queue'[k] => i = k
        /\ \A u, v \in Workers : job'[u] # Idle /\ job'[v] # Idle /\ job'[u].e = job'[v].e => u = v
        /\ \A i \in DOMAIN queue', u \in Workers : job'[u] # Idle => job'[u].e # queue'[i]
    BY <1>1, <1>2 DEF OnePlace
  <1>8. QED
    BY <1>5, <1>6, <1>7 DEF OnePlace

\* What a write adds to the file.
LEMMA WriteMeets ==
    ASSUME Types, NEW e \in Datagrams, WriteStep(e)
    PROVE  Elems(file'.lines) \subseteq Elems(file.lines) \cup {Junk, e}
  <1>1. file.lines \in Seq(Lines) /\ Junk \in Lines /\ e \in Lines
    BY DEF Types, Lines
  <1>2. \A x \in {Junk, e} : Elems(Append(file.lines, x)) = Elems(file.lines) \cup {x}
    BY <1>1, ElemsAppend
  <1>3. Elems(Spoiled(file.lines)) \subseteq Elems(file.lines) \cup {Junk}
    BY <1>1, ElemsSpoiled
  <1>4. QED
    BY <1>2, <1>3 DEF WriteStep

LEMMA PlaceRecv ==
    ASSUME Types, OnePlace, Recv \/ Check
    PROVE  OnePlace'
  <1>1. Alive /\ UNCHANGED <<queue, phase, job, file, drain, replayed, accepted>>
    BY DEF Recv, Check, spoolVars
  <1>2. Met' = Met /\ Held' = Held
    BY <1>1 DEF Met, Snapshot, Held, Elems
  <1>3. Taken \cup Held \cup Met \subseteq 0 .. got /\ Taken \cap (Held \cup Met) = {}
    BY <1>1 DEF OnePlace
  <1>4. Taken' \cup Held \cup Met \subseteq 0 .. got' /\ Taken' \cap (Held \cup Met) = {}
    <2>1. CASE Recv
      <3>1. got \in Nat /\ got' = got + 1 /\ Taken' = {got + 1}
        BY <2>1 DEF Recv, Taken, Taking, Types
      <3>2. got + 1 \notin 0 .. got /\ 0 .. got \subseteq 0 .. got' /\ got + 1 \in 0 .. got'
        BY <3>1
      <3>3. QED
        BY <1>3, <3>1, <3>2
    <2>2. CASE Check
      <3>1. hand \in [pc : Taking, e : Datagrams] /\ UNCHANGED got
        BY <2>2, Receiving DEF Check, Taking
      <3>2. hand'.pc \in Taking /\ hand'.e = hand.e /\ hand.pc \in Taking
        BY <2>2, <3>1 DEF Check, Taking
      <3>3. QED
        BY <1>3, <3>1, <3>2 DEF Taken
    <2>3. QED
      BY <2>1, <2>2
  <1>5. QED
    BY <1>1, <1>2, <1>4 DEF OnePlace

LEMMA PlacePut ==
    ASSUME Types, OnePlace, Put
    PROVE  OnePlace'
  <1>1. /\ Alive /\ hand.pc \in Taking
        /\ UNCHANGED <<got, phase, job, file, drain, replayed, accepted>>
    BY DEF Put, spoolVars, Taking
  <1>2. Met' = Met /\ Taken = {hand.e} /\ Taken' = {}
    BY <1>1 DEF Met, Snapshot, Put, Taken, Taking
  <1>3. hand.e \notin Held \cup Met /\ hand.e \in 0 .. got
    BY <1>1, <1>2 DEF OnePlace
  <1>4. CASE UNCHANGED queue
    <2>1. Held' = Held
      BY <1>1, <1>4 DEF Held, Elems
    <2>2. QED
      BY <1>1, <1>2, <1>4, <2>1 DEF OnePlace
  <1>5. CASE queue' = Append(queue, hand.e)
    <2>1. PICK e \in Datagrams : e = hand.e
      BY <1>1, Receiving
    <2>2. queue \in Seq(Datagrams) /\ queue' = Append(queue, e)
      BY <1>5, <2>1 DEF Types
    <2>3. Elems(queue') = Elems(queue) \cup {e}
      BY <2>2, ElemsAppend
    <2>4. Held' = Held \cup {e}
      BY <2>3, <1>1 DEF Held
    <2>5. Taken' \cup Held' \cup Met' \subseteq 0 .. got' /\ Held' \cap Met' = {}
      BY <2>1, <2>4, <1>1, <1>2, <1>3 DEF OnePlace
    <2>6. \A i \in DOMAIN queue' : (i \in DOMAIN queue /\ queue'[i] = queue[i]) \/ (i = Len(queue) + 1 /\ queue'[i] = e)
      <3>1. /\ DOMAIN Append(queue, e) = 1 .. (Len(queue) + 1) /\ DOMAIN queue = 1 .. Len(queue)
            /\ Len(queue) \in Nat
            /\ \A k \in 1 .. Len(queue) : Append(queue, e)[k] = queue[k]
            /\ Append(queue, e)[Len(queue) + 1] = e
        BY <2>2
      <3>2. \A i \in 1 .. (Len(queue) + 1) : i \in 1 .. Len(queue) \/ i = Len(queue) + 1
        BY <3>1
      <3>3. QED
        BY <2>2, <3>1, <3>2
    <2>7. \A i \in DOMAIN queue : queue[i] \in Held
      BY DEF Held, Elems
    <2>8. \A w \in Workers : job[w] # Idle => job[w].e \in Held
      BY HeldTypes
    <2>9. /\ \A i, k \in DOMAIN queue' : queue'[i] = queue'[k] => i = k
          /\ \A i \in DOMAIN queue', w \in Workers : job'[w] # Idle => job'[w].e # queue'[i]
      BY <2>1, <2>6, <2>7, <2>8, <1>1, <1>3 DEF OnePlace
    <2>10. QED
      BY <2>5, <2>9, <1>1, <1>2 DEF OnePlace
  <1>6. QED
    BY <1>4, <1>5 DEF Put

LEMMA PlaceGet ==
    ASSUME Types, OnePlace, NEW w \in Workers, Get(w)
    PROVE  OnePlace'
  <1>1. /\ Alive /\ job[w] = Idle /\ queue # <<>> /\ queue \in Seq(Datagrams) /\ queue' = Tail(queue)
        /\ UNCHANGED <<got, hand, phase, file, drain, replayed, accepted>>
    BY Busy DEF Get, At, spoolVars, Types
  <1>2. Met' = Met /\ Taken' = Taken
    BY <1>1 DEF Met, Snapshot, Taken
  <1>3. job'[w] # Idle /\ job'[w].e = Head(queue) /\ \A u \in Workers \ {w} : job'[u] = job[u]
    BY DEF Get, Goto, Types, Idle
  <1>4. /\ DOMAIN queue = 1 .. Len(queue) /\ Len(queue) \in Nat \ {0} /\ Head(queue) = queue[1]
        /\ DOMAIN queue' = 1 .. (Len(queue) - 1) /\ \A k \in 1 .. (Len(queue) - 1) : queue'[k] = queue[k + 1]
    BY <1>1
  <1>5. 1 \in DOMAIN queue /\ \A k \in DOMAIN queue' : k \in Nat /\ k + 1 \in DOMAIN queue /\ k + 1 # 1 /\ queue'[k] = queue[k + 1]
    BY <1>4
  <1>6. Held' \subseteq Held
    <2>1. Elems(queue') \subseteq Elems(queue) /\ Head(queue) \in Elems(queue)
      BY <1>1, ElemsTail
    <2>2. QED
      BY <2>1, <1>3 DEF Held
  <1>7. \A i, k \in DOMAIN queue' : queue'[i] = queue'[k] => i = k
    <2>1. \A i, k \in DOMAIN queue' : queue'[i] = queue'[k] => i + 1 = k + 1
      BY <1>1, <1>5 DEF OnePlace
    <2>2. QED
      BY <2>1, <1>5
  <1>8. \A u, v \in Workers : job'[u] # Idle /\ job'[v] # Idle /\ job'[u].e = job'[v].e => u = v
    BY <1>1, <1>3, <1>4, <1>5 DEF OnePlace
  <1>9. \A i \in DOMAIN queue', u \in Workers : job'[u] # Idle => job'[u].e # queue'[i]
    BY <1>1, <1>3, <1>4, <1>5 DEF OnePlace
  <1>10. QED
    BY <1>1, <1>2, <1>6, <1>7, <1>8, <1>9 DEF OnePlace

LEMMA PlaceStep ==
    ASSUME IngestInv, [Next]_vars
    PROVE  OnePlace'
  <1>t. Types /\ OnePlace
    BY DEF IngestInv
  <1>1. CASE Recv \/ Check \/ Put
    BY <1>1, <1>t, PlaceRecv, PlacePut
  <1>2. ASSUME NEW w \in Workers, Worker(w) PROVE OnePlace'
    <2>1. CASE Get(w)
      BY <2>1, <1>t, PlaceGet
    <2>2. CASE HandleEmpty(w) \/ TakeToken(w) \/ Produce(w) \/ ProduceFails(w)
      <3>1. WorkerMoves(w) /\ UNCHANGED <<file, drain, replayed, accepted>>
        BY <2>2, <1>t, WorkerMovesIs DEF HandleEmpty, TakeToken, Produce, ProduceFails, spoolVars
      <3>2. Met' = Met
        BY <3>1 DEF Met, Snapshot
      <3>3. QED
        BY <3>1, <3>2, <1>t, PlaceWorker
    <2>3. CASE SpoolAppend(w) \/ SpoolRefuses(w)
      <3>1. WorkerMoves(w) /\ job'[w] = Idle /\ UNCHANGED <<drain, replayed>>
        BY <2>3, <1>t, WorkerMovesIs DEF WorkerMoves, SpoolAppend, SpoolRefuses, Done, Types
      <3>2. /\ job[w].e \in Datagrams /\ WriteStep(job[w].e)
            /\ accepted' = Append(accepted, job[w].e) \/ UNCHANGED accepted
        BY <2>3, <1>t, AppendIs, RefuseIs DEF AppendStep
      <3>3. Elems(file'.lines) \subseteq Elems(file.lines) \cup {Junk, job[w].e}
        BY <3>2, <1>t, WriteMeets
      <3>4. Elems(accepted') \subseteq Elems(accepted) \cup {job[w].e}
        <4>1. accepted \in Seq(Datagrams)
          BY <1>t DEF Types
        <4>2. Elems(Append(accepted, job[w].e)) = Elems(accepted) \cup {job[w].e}
          BY <3>2, <4>1, ElemsAppend
        <4>3. QED
          BY <3>2, <4>2
      <3>5. Snapshot' = Snapshot
        BY <3>1 DEF Snapshot
      <3>6. Met' \subseteq Met \cup {Junk, job[w].e}
        BY <3>1, <3>3, <3>4, <3>5 DEF Met
      <3>7. QED
        BY <3>1, <3>6, <1>t, PlaceWorker
    <2>4. QED
      BY <1>2, <2>1, <2>2, <2>3 DEF Worker
  <1>3. CASE DrainStart
    <2>1. UNCHANGED <<got, hand, queue, phase, job, file, replayed, accepted>> /\ drain' # Idle /\ drain'.lines = file.lines
      BY <1>3 DEF DrainStart, spoolVars, Idle
    <2>2. Met' \subseteq Met /\ Alive' = Alive
      BY <2>1 DEF Met, Snapshot, Alive
    <2>3. QED
      BY <2>1, <2>2, <1>t, PlaceSame
  <1>4. CASE SkipJunk \/ Replay \/ ReplayFails \/ DrainEnd
    <2>1. Progress
      BY <1>4, <1>t, ProgressIs
    <2>2. drain' # Idle
      BY <2>1 DEF Progress, DrainType, Idle
    <2>3. Elems(Snapshot') = Elems(Snapshot) /\ Elems(Snapshot) = Elems(drain.lines)
      BY <2>1, <2>2 DEF Progress, Snapshot
    <2>4. replayed' \subseteq replayed \cup Elems(drain.lines)
      <3>1. UNCHANGED replayed \/ (More /\ replayed' = replayed \cup {Line})
        BY <2>1 DEF Progress
      <3>2. More => Line \in Elems(drain.lines)
        BY <2>1, <1>t, LineIs DEF Progress, Line, Elems
      <3>3. QED
        BY <3>1, <3>2
    <2>5. Met' \subseteq Met /\ Alive' = Alive
      BY <2>1, <2>3, <2>4 DEF Progress, Met, Alive
    <2>6. QED
      BY <2>1, <2>5, <1>t, PlaceSame DEF Progress
  <1>5. CASE Rewrite \/ RewriteBlind \/ RewriteFails
    <2>1. drain # Idle /\ drain' = Idle /\ UNCHANGED <<got, hand, queue, phase, job, replayed, accepted>>
      BY <1>5, RewriteIs
    <2>2. \/ UNCHANGED file
          \/ file'.lines = RestOf(drain.lines, drain.i, file.lines)
          \/ file'.lines = SubSeq(drain.lines, drain.i, Len(drain.lines))
      BY <1>5, RewriteIs
    <2>3. Elems(file'.lines) \subseteq Elems(file.lines) \cup Elems(drain.lines)
      BY <2>1, <2>2, ElemsPutBack
    <2>4. Elems(Snapshot') = {} /\ Elems(Snapshot) = Elems(drain.lines)
      BY <2>1 DEF Snapshot, Elems
    <2>5. Met' \subseteq Met /\ Alive' = Alive
      BY <2>1, <2>3, <2>4 DEF Met, Alive
    <2>6. QED
      BY <2>1, <2>5, <1>t, PlaceSame
  <1>6. CASE Stop \/ BusDown \/ BusBack \/ UNCHANGED vars
    <2>1. UNCHANGED <<got, hand, queue, job, file, drain, replayed, accepted>> /\ (Alive' => Alive)
      BY <1>6 DEF Stop, BusDown, BusBack, vars, spoolVars, Alive
    <2>2. Met' = Met
      BY <2>1 DEF Met, Snapshot
    <2>3. QED
      BY <2>1, <2>2, <1>t, PlaceSame
  <1>7. CASE StopQueue
    <2>1. Alive /\ queue' = <<>> /\ UNCHANGED <<got, hand, job, file, drain, replayed, accepted>>
      BY <1>7 DEF StopQueue, spoolVars, Alive
    <2>2. Met' = Met /\ Taken' = Taken
      BY <2>1 DEF Met, Snapshot, Taken
    <2>3. Held' \subseteq Held
      BY <2>1 DEF Held, Elems
    <2>4. QED
      BY <2>1, <2>2, <2>3, <1>t DEF OnePlace
  <1>8. CASE Die
    <2>1. ~Alive' /\ UNCHANGED <<got, hand, queue, job, drain, replayed, accepted>>
      BY <1>8, <1>t, DieIs DEF Alive
    <2>2. Held' = Held /\ Snapshot' = Snapshot /\ Taken' = Taken
      BY <2>1 DEF Held, Elems, Snapshot, Taken
    <2>3. Elems(file'.lines) \subseteq Elems(file.lines) \cup {Junk} \cup Held
      <3>1. CASE UNCHANGED file
        BY <3>1
      <3>2. ASSUME NEW w \in Workers, job[w] # Idle, job[w].e \in Datagrams, WriteStep(job[w].e)
            PROVE  Elems(file'.lines) \subseteq Elems(file.lines) \cup {Junk} \cup Held
        BY <3>2, <1>t, WriteMeets, HeldTypes
      <3>3. QED
        BY <1>8, <1>t, <3>1, <3>2, DieIs
    <2>4. Met' \subseteq Met \cup {Junk} \cup Held
      BY <2>1, <2>2, <2>3 DEF Met
    <2>5. Junk \in 0 .. got
      BY <1>t DEF Types, Junk
    <2>6. QED
      BY <2>1, <2>2, <2>4, <2>5, <1>t DEF OnePlace
  <1>9. CASE Restart
    <2>1. queue' = <<>> /\ job' = [w \in Workers |-> Idle] /\ drain' = Idle /\ UNCHANGED <<got, file, replayed, accepted>>
      BY <1>9 DEF Restart
    <2>2. Held' = {} /\ Taken' = {}
      BY <1>9, <2>1 DEF Held, Elems, Taken, Restart, Taking, Idle
    <2>3. Elems(Snapshot') = {}
      BY <2>1 DEF Snapshot, Elems
    <2>4. Met' \subseteq Met
      BY <2>1, <2>3 DEF Met
    <2>5. QED
      BY <2>1, <2>2, <2>4, <1>t DEF OnePlace
  <1>10. QED
    BY <1>1, <1>2, <1>3, <1>4, <1>5, <1>6, <1>7, <1>8, <1>9 DEF Next, DrainStep

-----------------------------------------------------------------------------
(* The spool.                                                              *)

\* The parts of the invariant a write does not concern, once more is done with.
LEMMA MoreDamage ==
    ASSUME damaged \subseteq damaged', replayed \subseteq replayed'
    PROVE  Finished \subseteq Finished'
  BY DEF Finished

\* A write that is refused or cut short: nothing is accepted.
LEMMA RefusedKeeps ==
    ASSUME IngestInv, NEW e \in Datagrams, e \notin Met, WriteStep(e), UNCHANGED <<accepted, replayed, drain>>
    PROVE  SpoolInv'
  <1>1. /\ accepted \in Seq(Datagrams) /\ file.lines \in Seq(Lines) /\ Finished \subseteq Finished'
        /\ KeptIn(accepted, Finished, file.lines) /\ OrderIn(accepted, Finished, file.lines)
        /\ PlayedInOrder(accepted, Finished, replayed)
    BY MoreDamage DEF IngestInv, Types, SpoolInv, WriteStep
  <1>2. \A x \in {Junk, e} : x \in Lines /\ \A i \in DOMAIN accepted : accepted[i] # x
    <2>1. \A i \in DOMAIN accepted : accepted[i] \in Datagrams
      BY <1>1
    <2>2. \A i \in DOMAIN accepted : accepted[i] # e
      BY DEF Met, Elems
    <2>3. QED
      BY <2>1, <2>2, NotJunk DEF Lines
  <1>3. /\ KeptIn(accepted, Finished', file'.lines) /\ OrderIn(accepted, Finished', file'.lines)
        /\ \A snap \in Seq(Lines), pos \in Nat :
              SnapshotHolds(snap, pos, file.lines, replayed) => SnapshotHolds(snap, pos, file'.lines, replayed)
    <2>1. CASE file'.lines = file.lines
      BY <2>1, <1>1, DoneMore
    <2>2. ASSUME NEW x \in {Junk, e}, file'.lines = Append(file.lines, x)
          PROVE  /\ KeptIn(accepted, Finished', file'.lines) /\ OrderIn(accepted, Finished', file'.lines)
                 /\ \A snap \in Seq(Lines), pos \in Nat :
                       SnapshotHolds(snap, pos, file.lines, replayed) => SnapshotHolds(snap, pos, file'.lines, replayed)
      <3>1. KeptIn(accepted, Finished, Append(file.lines, x)) /\ OrderIn(accepted, Finished, Append(file.lines, x))
        BY <1>1, <1>2, LineMore
      <3>2. QED
        BY <1>1, <1>2, <2>2, <3>1, DoneMore, SnapshotStays
    <2>3. CASE file'.lines = Spoiled(file.lines) /\ OnTail \subseteq damaged'
      <3>1. \A i \in DOMAIN accepted, k \in DOMAIN file.lines :
               k = Len(file.lines) /\ file.lines[k] = accepted[i] => accepted[i] \in Finished'
        BY <2>3 DEF OnTail, Finished
      <3>2. KeptIn(accepted, Finished', Spoiled(file.lines)) /\ OrderIn(accepted, Finished', Spoiled(file.lines))
        BY <1>1, <3>1, LineSpoiled
      <3>3. QED
        BY <1>1, <1>2, <2>3, <3>2, SnapshotStays
    <2>4. QED
      BY <2>1, <2>2, <2>3 DEF WriteStep
  <1>4. PlayedInOrder(accepted, Finished', replayed)
    BY <1>1, DoneMore
  <1>5. drain # Idle => /\ OrderIn(accepted, Finished', drain.lines)
                        /\ SnapshotHolds(drain.lines, drain.i, file'.lines, replayed)
    BY <1>1, <1>3, BusyDrain, DoneMore DEF IngestInv, SpoolInv
  <1>6. QED
    BY <1>3, <1>4, <1>5 DEF SpoolInv

\* A record that is written: the event is accepted.
LEMMA AppendKeeps ==
    ASSUME IngestInv, NEW e \in Datagrams, e \notin Met, AppendStep(e),
           accepted' = Append(accepted, e), UNCHANGED <<replayed, drain>>
    PROVE  SpoolInv'
  <1>1. /\ accepted \in Seq(Datagrams) /\ file.lines \in Seq(Lines) /\ Finished \subseteq Finished'
        /\ KeptIn(accepted, Finished, file.lines) /\ OrderIn(accepted, Finished, file.lines)
        /\ PlayedInOrder(accepted, Finished, replayed)
    BY MoreDamage DEF IngestInv, Types, SpoolInv, AppendStep, WriteStep
  <1>2. /\ e \in Lines /\ e # Junk /\ e \notin replayed
        /\ \A k \in DOMAIN file.lines : file.lines[k] # e
        /\ drain # Idle => \A k \in DOMAIN drain.lines : drain.lines[k] # e
    BY NotJunk DEF Lines, Met, Elems, Snapshot
  <1>3. PlayedInOrder(accepted', Finished', replayed')
    <2>1. PlayedInOrder(accepted, Finished', replayed)
      BY <1>1, DoneMore
    <2>2. PlayedInOrder(Append(accepted, e), Finished', replayed)
      BY <1>1, <1>2, <2>1, AcceptMore
    <2>3. QED
      BY <2>2
  <1>4. KeptIn(accepted', Finished', file'.lines) /\ OrderIn(accepted', Finished', file'.lines)
    <2>1. CASE file'.lines = Append(file.lines, e)
      <3>1. /\ KeptIn(Append(accepted, e), Finished, Append(file.lines, e))
            /\ OrderIn(Append(accepted, e), Finished, Append(file.lines, e))
        BY <1>1, <1>2, AcceptWritten
      <3>2. QED
        BY <1>1, <2>1, <3>1, DoneMore
    <2>2. CASE file'.lines = Spoiled(file.lines) /\ OnTail \cup {e} \subseteq damaged'
      <3>1. \A i \in DOMAIN accepted, k \in DOMAIN file.lines :
               k = Len(file.lines) /\ file.lines[k] = accepted[i] => accepted[i] \in Finished'
        BY <2>2 DEF OnTail, Finished
      <3>2. KeptIn(accepted, Finished', Spoiled(file.lines)) /\ OrderIn(accepted, Finished', Spoiled(file.lines))
        BY <1>1, <3>1, LineSpoiled
      <3>3. \A k \in DOMAIN Spoiled(file.lines) : Spoiled(file.lines)[k] # e
        BY <1>1, <1>2 DEF Spoiled
      <3>4. e \in Finished'
        BY <2>2 DEF Finished
      <3>5. /\ KeptIn(Append(accepted, e), Finished', Spoiled(file.lines))
            /\ OrderIn(Append(accepted, e), Finished', Spoiled(file.lines))
        BY <1>1, <1>2, <3>2, <3>3, <3>4, AcceptMore
      <3>6. QED
        BY <2>2, <3>5
    <2>3. QED
      BY <2>1, <2>2 DEF AppendStep
  <1>5. ASSUME drain # Idle
        PROVE  OrderIn(accepted', Finished', drain.lines) /\ SnapshotHolds(drain.lines, drain.i, file'.lines, replayed)
    <2>1. /\ drain.lines \in Seq(Lines) /\ drain.i \in Nat
          /\ OrderIn(accepted, Finished, drain.lines) /\ SnapshotHolds(drain.lines, drain.i, file.lines, replayed)
      BY <1>5, BusyDrain DEF IngestInv, SpoolInv
    <2>2. OrderIn(accepted, Finished', drain.lines)
      BY <1>1, <2>1, DoneMore
    <2>3. OrderIn(Append(accepted, e), Finished', drain.lines)
      BY <1>1, <1>2, <1>5, <2>2, AcceptMore
    <2>4. SnapshotHolds(drain.lines, drain.i, file'.lines, replayed)
      BY <1>1, <1>2, <2>1, SnapshotStays DEF AppendStep
    <2>5. QED
      BY <2>3, <2>4
  <1>6. QED
    BY <1>3, <1>4, <1>5 DEF SpoolInv

\* The drain thread's snapshot as it goes on: a line is replayed after those before it.
LEMMA ProgressKeeps ==
    ASSUME IngestInv, Progress
    PROVE  SpoolInv'
  <1>1. /\ Types /\ drain # Idle /\ drain' # Idle /\ drain'.lines = drain.lines /\ drain'.i \in {drain.i, drain.i + 1}
        /\ UNCHANGED <<file, accepted, damaged>> /\ Finished \subseteq Finished' /\ replayed \subseteq replayed'
    BY MoreDamage DEF IngestInv, Progress, DrainType, Idle
  <1>2. /\ drain.lines \in Seq(Lines) /\ drain.i \in Nat \ {0} /\ accepted \in Seq(Datagrams)
        /\ OrderIn(accepted, Finished, drain.lines) /\ SnapshotHolds(drain.lines, drain.i, file.lines, replayed)
        /\ KeptIn(accepted, Finished, file.lines) /\ OrderIn(accepted, Finished, file.lines)
        /\ PlayedInOrder(accepted, Finished, replayed)
    BY <1>1, BusyDrain DEF IngestInv, Types, SpoolInv
  <1>3. /\ KeptIn(accepted, Finished', file.lines) /\ OrderIn(accepted, Finished', file.lines)
        /\ OrderIn(accepted, Finished', drain.lines) /\ PlayedInOrder(accepted, Finished', replayed)
    BY <1>1, <1>2, DoneMore
  <1>4. \A i \in DOMAIN accepted : accepted[i] \in Datagrams /\ accepted[i] # Junk
    <2>1. \A i \in DOMAIN accepted : accepted[i] \in Datagrams
      BY <1>2
    <2>2. QED
      BY <2>1, NotJunk
  <1>5. PlayedInOrder(accepted, Finished', replayed')
    <2>1. CASE UNCHANGED replayed
      BY <1>3, <2>1
    <2>2. CASE More /\ replayed' = replayed \cup {Line}
      <3>1. drain.i \in DOMAIN drain.lines /\ Line = drain.lines[drain.i]
        BY <1>1, <2>2, LineIs DEF Line
      <3> SUFFICES ASSUME NEW i \in DOMAIN accepted, NEW j \in DOMAIN accepted, i < j, accepted[j] = Line
                   PROVE  accepted[i] \in Finished'
        BY <1>3, <2>2 DEF PlayedInOrder
      <3>2. accepted[i] \in Finished' \/ \E l \in DOMAIN drain.lines : l < drain.i /\ drain.lines[l] = accepted[i]
        BY <1>3, <3>1 DEF OrderIn
      <3>3. \A l \in DOMAIN drain.lines : l < drain.i => drain.lines[l] \in replayed \cup {Junk}
        BY <1>2 DEF SnapshotHolds
      <3>4. QED
        BY <1>1, <1>4, <3>2, <3>3 DEF Finished
    <2>3. QED
      BY <2>1, <2>2 DEF Progress
  <1>6. SnapshotHolds(drain.lines, drain'.i, file.lines, replayed')
    <2>1. CASE drain'.i = drain.i
      BY <1>1, <1>2, <2>1 DEF SnapshotHolds
    <2>2. CASE drain'.i = drain.i + 1
      <3>1. /\ drain.i \in DOMAIN drain.lines /\ drain.lines[drain.i] \in replayed' \cup {Junk}
        <4>1. More /\ Line \in replayed' \cup {Junk}
          BY <1>2, <2>2 DEF Progress
        <4>2. QED
          BY <1>1, <4>1, LineIs DEF Line
      <3>2. /\ DOMAIN drain.lines = 1 .. Len(drain.lines) /\ Len(drain.lines) \in Nat
        BY <1>2
      <3>3. drain'.i <= Len(drain.lines) + 1 /\ \A k \in DOMAIN drain.lines : k < drain'.i => k < drain.i \/ k = drain.i
        BY <1>2, <2>2, <3>1, <3>2
      <3>4. QED
        BY <1>1, <1>2, <3>1, <3>3 DEF SnapshotHolds
    <2>3. QED
      BY <1>1, <2>1, <2>2
  <1>7. QED
    BY <1>1, <1>3, <1>5, <1>6 DEF SpoolInv

\* A list that ends with the snapshot has nothing to put behind what is left of it.
LEMMA NothingSince ==
    ASSUME NEW s \in Seq(Lines), NEW m \in Nat \ {0}
    PROVE  RestOf(s, m, s) = SubSeq(s, m, Len(s))
  <1>1. Len(s) \in Nat
    OBVIOUS
  <1>2. Len(s) + 1 \in Int /\ Len(s) \in Int /\ Len(s) < Len(s) + 1 /\ m \in Int
    BY <1>1
  <1>3. SubSeq(s, Len(s) + 1, Len(s)) = <<>>
    BY <1>2, SubSeqEmpty
  <1>4. \A k \in m .. Len(s) : s[k] \in Lines
    BY <1>1
  <1>5. SubSeq(s, m, Len(s)) \in Seq(Lines)
    BY <1>2, <1>4, SubSeqProperties
  <1>6. SubSeq(s, m, Len(s)) \o <<>> = SubSeq(s, m, Len(s))
    BY <1>5, ConcatEmptySeq, Zenon
  <1>7. QED
    BY <1>3, <1>6, Zenon DEF RestOf

\* An event that is in the file is in the snapshot or came since.
LEMMA InSnapshotOrSince ==
    ASSUME IngestInv, drain # Idle, NEW d \in Datagrams, InSeq(d, file.lines)
    PROVE  InSeq(d, drain.lines) \/ d \in Elems(Since(file.lines))
  <1>1. /\ drain.lines \in Seq(Lines) /\ file.lines \in Seq(Lines)
        /\ SnapshotHolds(drain.lines, drain.i, file.lines, replayed)
    BY BusyDrain DEF IngestInv, Types, SpoolInv
  <1>2. PICK k \in DOMAIN file.lines : file.lines[k] = d
    BY DEF InSeq
  <1>3. PICK n \in Nat, o \in Nat : n = Len(drain.lines) /\ o = Len(file.lines)
    BY <1>1
  <1>4. DOMAIN drain.lines = 1 .. n /\ k \in 1 .. o
    BY <1>1, <1>2, <1>3
  <1>5. CASE k \in 1 .. n
    <2>1. file.lines[k] \in {drain.lines[k], Junk}
      BY <1>1, <1>4, <1>5 DEF SnapshotHolds
    <2>2. QED
      BY <1>2, <1>4, <1>5, <2>1, NotJunk DEF InSeq
  <1>6. CASE k > n
    <2>1. (\A l \in n + 1 .. o : file.lines[l] \in Lines) /\ n + 1 \in Int /\ o \in Int
      BY <1>1, <1>3
    <2> DEFINE since == SubSeq(file.lines, n + 1, o)
    <2>2. /\ since \in Seq(Lines) /\ Len(since) = IF n + 1 <= o THEN o - (n + 1) + 1 ELSE 0
          /\ \A l \in 1 .. o - (n + 1) + 1 : since[l] = file.lines[(n + 1) + l - 1]
      BY <2>1, SubSeqProperties
    <2>3. since = Since(file.lines)
      BY <1>3 DEF Since
    <2> HIDE DEF since
    <2>4. k - n \in 1 .. o - (n + 1) + 1 /\ (n + 1) + (k - n) - 1 = k /\ n + 1 <= o
      BY <1>4, <1>6
    <2>5. since[k - n] = d
      BY <1>2, <2>2, <2>4
    <2>6. k - n \in DOMAIN since
      BY <2>2, <2>4
    <2>7. QED
      BY <2>3, <2>5, <2>6 DEF Elems
  <1>7. QED
    BY <1>4, <1>5, <1>6

\* The drain ends: the file is left alone, or what is left is put back, with what
\* came since or without it.
LEMMA RewriteKeeps ==
    ASSUME IngestInv, Rewrite \/ RewriteBlind \/ RewriteFails
    PROVE  SpoolInv'
  <1>1. /\ Types /\ drain # Idle /\ drain' = Idle /\ UNCHANGED <<replayed, accepted>>
        /\ Finished \subseteq Finished'
    BY RewriteIs, MoreDamage DEF IngestInv
  <1>2. /\ drain.lines \in Seq(Lines) /\ drain.i \in Nat \ {0} /\ accepted \in Seq(Datagrams) /\ file.lines \in Seq(Lines)
        /\ OrderIn(accepted, Finished, drain.lines) /\ SnapshotHolds(drain.lines, drain.i, file.lines, replayed)
        /\ KeptIn(accepted, Finished, file.lines) /\ OrderIn(accepted, Finished, file.lines)
        /\ PlayedInOrder(accepted, Finished, replayed)
    BY <1>1, BusyDrain DEF IngestInv, Types, SpoolInv
  <1>3. /\ KeptIn(accepted, Finished', file.lines) /\ OrderIn(accepted, Finished', file.lines)
        /\ OrderIn(accepted, Finished', drain.lines) /\ PlayedInOrder(accepted, Finished', replayed)
    BY <1>1, <1>2, DoneMore
  <1>4. replayed \subseteq Finished'
    BY <1>1 DEF Finished
  <1>5. KeptIn(accepted, Finished', file'.lines) /\ OrderIn(accepted, Finished', file'.lines)
    <2>1. CASE UNCHANGED file
      BY <1>3, <2>1
    <2>2. CASE file'.lines = RestOf(drain.lines, drain.i, file.lines)
      BY <1>2, <1>3, <1>4, <2>2, PutBackKeeps
    <2>3. CASE /\ file'.lines = SubSeq(drain.lines, drain.i, Len(drain.lines))
               /\ Elems(Since(file.lines)) \ {Junk} \subseteq damaged'
      <3>1. file'.lines = RestOf(drain.lines, drain.i, drain.lines)
        BY <1>2, <2>3, NothingSince
      <3>2. SnapshotHolds(drain.lines, drain.i, drain.lines, replayed)
        <4>1. Len(drain.lines) <= Len(drain.lines)
          BY <1>2
        <4>2. QED
          BY <1>2, <4>1 DEF SnapshotHolds
      <3>3. KeptIn(accepted, Finished', drain.lines)
        <4> SUFFICES ASSUME NEW i \in DOMAIN accepted, accepted[i] \notin Finished'
                     PROVE  InSeq(accepted[i], drain.lines)
          BY DEF KeptIn
        <4>1. accepted[i] \in Datagrams
          BY <1>2
        <4>2. InSeq(accepted[i], file.lines)
          BY <1>3 DEF KeptIn
        <4>3. accepted[i] # Junk /\ accepted[i] \notin damaged'
          BY <4>1, NotJunk DEF Finished
        <4>4. QED
          BY <1>1, <2>3, <4>1, <4>2, <4>3, InSnapshotOrSince
      <3>4. QED
        BY <1>2, <1>3, <1>4, <3>1, <3>2, <3>3, PutBackKeeps
    <2>4. QED
      BY <2>1, <2>2, <2>3, RewriteIs
  <1>6. QED
    BY <1>1, <1>3, <1>5 DEF SpoolInv

\* A step that leaves the spool and the snapshot alone.
LEMMA SpoolSame ==
    ASSUME SpoolInv, UNCHANGED <<file, accepted, replayed, damaged>>, UNCHANGED drain \/ drain' = Idle
    PROVE  SpoolInv'
  BY DEF SpoolInv, Finished

LEMMA SpoolStep ==
    ASSUME IngestInv, [Next]_vars
    PROVE  SpoolInv'
  <1>t. Types /\ OnePlace /\ SpoolInv
    BY DEF IngestInv
  <1>1. ASSUME NEW w \in Workers, Worker(w) PROVE SpoolInv'
    <2>1. CASE Get(w) \/ HandleEmpty(w) \/ TakeToken(w) \/ Produce(w) \/ ProduceFails(w)
      BY <2>1, <1>t, SpoolSame DEF Get, HandleEmpty, TakeToken, Produce, ProduceFails, spoolVars
    <2>2. CASE SpoolAppend(w) \/ SpoolRefuses(w)
      <3>1. Alive /\ job[w] # Idle /\ UNCHANGED <<drain, replayed>>
        BY <2>2, <1>t, WorkerMovesIs DEF WorkerMoves
      <3>2. job[w].e \notin Met
        BY <3>1, <1>t, HeldTypes DEF OnePlace
      <3>3. CASE SpoolAppend(w)
        BY <3>1, <3>2, <3>3, <1>t, AppendIs, AppendKeeps
      <3>4. CASE SpoolRefuses(w)
        BY <3>1, <3>2, <3>4, <1>t, RefuseIs, RefusedKeeps
      <3>5. QED
        BY <2>2, <3>3, <3>4
    <2>3. QED
      BY <1>1, <2>1, <2>2 DEF Worker
  <1>2. CASE DrainStart
    <2>1. /\ UNCHANGED <<file, accepted, replayed, damaged>>
          /\ drain' # Idle /\ drain'.lines = file.lines /\ drain'.i = 1
      BY <1>2 DEF DrainStart, spoolVars, Idle
    <2>2. SnapshotHolds(file.lines, 1, file.lines, replayed)
      <3>1. file.lines \in Seq(Lines)
        BY <1>t DEF Types
      <3>2. Len(file.lines) <= Len(file.lines) /\ 1 <= Len(file.lines) + 1 /\ \A k \in DOMAIN file.lines : ~(k < 1)
        BY <3>1
      <3>3. QED
        BY <3>2 DEF SnapshotHolds
    <2>3. QED
      BY <2>1, <2>2, <1>t DEF SpoolInv, Finished
  <1>3. CASE SkipJunk \/ Replay \/ ReplayFails \/ DrainEnd
    BY <1>3, <1>t, ProgressIs, ProgressKeeps
  <1>4. CASE Rewrite \/ RewriteBlind \/ RewriteFails
    BY <1>4, RewriteKeeps
  <1>5. CASE Recv \/ Check \/ Put \/ Stop \/ StopQueue \/ BusDown \/ BusBack \/ Restart \/ UNCHANGED vars
    BY <1>5, <1>t, SpoolSame DEF Recv, Check, Put, Stop, StopQueue, BusDown, BusBack, Restart, vars, spoolVars
  <1>6. CASE Die
    <2>1. UNCHANGED <<drain, replayed, accepted>>
      BY <1>6, <1>t, DieIs
    <2>2. CASE UNCHANGED <<file, damaged>>
      BY <2>1, <2>2, <1>t, SpoolSame
    <2>3. ASSUME NEW w \in Workers, Alive, job[w] # Idle, job[w].e \in Datagrams, WriteStep(job[w].e)
          PROVE  SpoolInv'
      <3>1. job[w].e \notin Met
        BY <2>3, <1>t, HeldTypes DEF OnePlace
      <3>2. QED
        BY <2>1, <2>3, <3>1, RefusedKeeps
    <2>4. QED
      BY <1>6, <1>t, <2>2, <2>3, DieIs
  <1>7. QED
    BY <1>1, <1>2, <1>3, <1>4, <1>5, <1>6 DEF Next, DrainStep

-----------------------------------------------------------------------------
(* The theorems.                                                           *)

LEMMA IngestInit ==
    ASSUME Init
    PROVE  IngestInv
  <1>1. Types
    BY DEF Init, Types, Lines, Zero, Idle, HandType
  <1>2. EveryDatagramCounted
    <2>1. {w \in Workers : ~At(w, "idle")} = {}
      BY DEF Init, At, Alive, Idle
    <2>2. Cardinality({w \in Workers : ~At(w, "idle")}) = 0
      BY <2>1, FS_EmptySet
    <2>3. Len(queue) = 0 /\ arrived = 0 /\ \A c \in Counters : count[c] = 0
      BY DEF Init, Zero
    <2>4. hand.pc = "idle"
      BY DEF Init, Idle
    <2>5. QED
      BY <2>2, <2>3, <2>4 DEF EveryDatagramCounted, Counters
  <1>3. Held = {} /\ Met = {} /\ Taken = {}
    BY DEF Init, Held, Met, Elems, Snapshot, Taken, Taking, Idle
  <1>4. OnePlace
    BY <1>3 DEF Init, OnePlace
  <1>5. SpoolInv
    BY DEF Init, SpoolInv, KeptIn, OrderIn, PlayedInOrder
  <1>6. QED
    BY <1>1, <1>2, <1>4, <1>5 DEF IngestInv

\* The types, the counters, the places of the datagrams and the spool's file and
\* snapshot are as IngestInv says, through crashes in the middle of a write, appends
\* during a drain and failed reads and rewrites of the file.
THEOREM IngestInvariant == Spec => []IngestInv
  <1>1. Init => IngestInv
    BY IngestInit
  <1>2. IngestInv /\ [Next]_vars => IngestInv'
    <2> SUFFICES ASSUME IngestInv, [Next]_vars PROVE IngestInv'
      OBVIOUS
    <2>1. Types' /\ EveryDatagramCounted' /\ OnePlace' /\ SpoolInv'
      BY TypesStep, CountedStep, PlaceStep, SpoolStep
    <2>2. QED
      BY <2>1 DEF IngestInv
  <1>3. QED
    BY <1>1, <1>2, PTL DEF Spec

\* handle_line and the receive thread count every datagram once: the counters, the
\* queue and the datagrams in the hands of the receive thread and the workers add up to
\* what arrived.  stop() leaves at most the one uncounted which the receive thread has
\* when it finds _running cleared.
THEOREM DatagramsCounted == Spec => []EveryDatagramCounted
  <1>1. IngestInv => EveryDatagramCounted
    BY DEF IngestInv
  <1>2. QED
    BY <1>1, IngestInvariant, PTL

\* BoundedSpool loses nothing it accepted: what append() returned True for has been
\* replayed or stands in the file, unless a failed read or write of the file itself
\* has destroyed it; appends race the drain, and a crash may cut a write short.
THEOREM SpoolKeeps == Spec => []AcceptedIsKept
  <1>1. IngestInv => AcceptedIsKept
    BY DEF IngestInv, SpoolInv, KeptIn, Finished, AcceptedIsKept
  <1>2. QED
    BY <1>1, IngestInvariant, PTL

\* drain_into replays first in, first out: what it puts on the bus comes after all
\* that append() accepted earlier and no fault destroyed.
THEOREM ReplayOrdered == Spec => []ReplayInOrder
  <1>1. IngestInv => ReplayInOrder
    BY DEF IngestInv, SpoolInv, PlayedInOrder, Finished, ReplayInOrder
  <1>2. QED
    BY <1>1, IngestInvariant, PTL
=============================================================================
