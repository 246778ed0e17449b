-------------------------------- MODULE Ingest --------------------------------
(***************************************************************************)
(* The syslog ingest edge: services/ws1-collectors/collectors.             *)
(*   syslog_udp_server.py  receive thread, bounded queue, worker threads,  *)
(*                         spool-drain thread, stop()                      *)
(*   syslog_dispatch.py    SyslogDispatcher.handle_line and its counters   *)
(*   spool.py              BoundedSpool                                    *)
(* with the spool configured (SYSLOG_SPOOL_PATH).  A TCP connection thread  *)
(* calls handle_line as a worker thread does.                              *)
(*                                                                         *)
(* Datagrams are numbered in the order they arrive.  The spool file is a   *)
(* sequence of lines: the number of the event a line holds, or Junk when   *)
(* it does not parse; `open' says that the last line has no newline yet.   *)
(* The byte cap is counted in lines.                                       *)
(***************************************************************************)
EXTENDS Naturals, Sequences, FiniteSets

CONSTANTS
    MaxDatagrams,  \* bound on the datagrams that arrive
    Empty,         \* the datagrams with no payload
    Workers,       \* threads that call handle_line
    QueueMax,      \* queue_maxsize
    SpoolMax,      \* max_bytes of the spool, in lines
    MaxFaults      \* bound on outages, I/O errors, crashes and stops

Datagrams == 1 .. MaxDatagrams
Junk == 0

ASSUME IngestAssumption ==
    /\ MaxDatagrams \in Nat /\ Empty \subseteq Datagrams /\ IsFiniteSet(Workers)
    /\ QueueMax \in Nat \ {0} /\ SpoolMax \in Nat /\ MaxFaults \in Nat

VARIABLES
    got,        \* datagrams received so far
    hand,       \* what the receive thread is doing
    queue,      \* _queue
    phase,      \* "up", "stopping" (stop() called), "stopped" (queue emptied), "down"
    job,        \* job[w]: what worker w is doing
    file,       \* the spool file
    tailGood,   \* _tail_known_good
    drain,      \* the drain thread's locals
    count,      \* the counters of this process
    arrived,    \* history: datagrams received by this process
    busUp,      \* the bus answers
    sent,       \* events a worker put on the bus
    replayed,   \* events the drain thread put on the bus
    accepted,   \* history: events append() returned True for, in order
    damaged,    \* history: accepted events a failed read or write has destroyed
    faults

vars == <<got, hand, queue, phase, job, file, tailGood, drain, count, arrived, busUp, sent,
          replayed, accepted, damaged, faults>>
spoolVars == <<file, tailGood, accepted, damaged>>

Counters == {"produced", "dropped", "spooled", "lost", "empty", "queue_full"}
Zero == [c \in Counters |-> 0]
Idle == [pc |-> "idle"]

Init ==
    /\ got = 0
    /\ hand = Idle
    /\ queue = <<>>
    /\ phase = "up"
    /\ job = [w \in Workers |-> Idle]
    /\ file = [lines |-> <<>>, open |-> FALSE]
    /\ tailGood = TRUE
    /\ drain = Idle
    /\ count = Zero
    /\ arrived = 0
    /\ busUp = TRUE
    /\ sent = {}
    /\ replayed = {}
    /\ accepted = <<>>
    /\ damaged = {}
    /\ faults = 0

Fault == faults < MaxFaults /\ faults' = faults + 1
Alive == phase \in {"up", "stopping", "stopped"}
At(w, label) == Alive /\ job[w].pc = label
Counted(c) == count' = [count EXCEPT ![c] = @ + 1]
Done(w) == job' = [job EXCEPT ![w] = Idle]
Goto(w, j) == job' = [job EXCEPT ![w] = j]
InSeq(e, s) == \E i \in DOMAIN s : s[i] = e

-----------------------------------------------------------------------------
(* The receive thread and the worker threads.                              *)

\* _recv_loop: recvfrom returns a datagram.  A thread that stop() finds waiting there
\* may still get one: it is what its kernel call was waiting for.
Recv ==
    /\ Alive
    /\ hand.pc = "idle"
    /\ got < MaxDatagrams
    /\ got' = got + 1
    /\ arrived' = arrived + 1
    /\ hand' = [pc |-> "check", e |-> got']
    /\ UNCHANGED <<queue, phase, job, spoolVars, drain, count, busUp, sent, replayed, faults>>

\* Once stop() has cleared _running the thread ends, and the datagram it holds is in
\* no counter.
Check ==
    /\ Alive
    /\ hand.pc = "check"
    /\ hand' = [hand EXCEPT !.pc = IF phase = "up" THEN "put" ELSE "discarded"]
    /\ UNCHANGED <<got, queue, phase, job, spoolVars, drain, count, arrived, busUp, sent, replayed, faults>>

\* put_nowait: a full queue refuses the datagram.
Put ==
    /\ Alive
    /\ hand.pc = "put"
    /\ \/ Len(queue) < QueueMax /\ queue' = Append(queue, hand.e) /\ UNCHANGED count
       \/ Len(queue) >= QueueMax /\ Counted("queue_full") /\ UNCHANGED queue
    /\ hand' = [pc |-> IF phase = "up" THEN "idle" ELSE "ended"]
    /\ UNCHANGED <<got, phase, job, spoolVars, drain, arrived, busUp, sent, replayed, faults>>

\* _worker_loop: it goes on after stop() until the queue is empty.
Get(w) ==
    /\ At(w, "idle")
    /\ queue # <<>>
    /\ queue' = Tail(queue)
    /\ Goto(w, [pc |-> "limit", e |-> Head(queue)])
    /\ UNCHANGED <<got, hand, phase, spoolVars, drain, count, arrived, busUp, sent, replayed, faults>>

\* An empty line is only counted.
HandleEmpty(w) ==
    /\ At(w, "limit")
    /\ job[w].e \in Empty
    /\ Counted("empty")
    /\ Done(w)
    /\ UNCHANGED <<got, hand, queue, phase, spoolVars, drain, arrived, busUp, sent, replayed, faults>>

\* TenantTokenBuckets.take: whether a token is left depends on the time that has
\* passed.  A refused event goes to the spool, or it is shed.
TakeToken(w) ==
    /\ At(w, "limit")
    /\ job[w].e \notin Empty
    /\ \E next \in {"produce", "shed"} : Goto(w, [pc |-> next, e |-> job[w].e])
    /\ UNCHANGED <<got, hand, queue, phase, spoolVars, drain, count, arrived, busUp, sent, replayed, faults>>

Produce(w) ==
    /\ At(w, "produce")
    /\ busUp
    /\ sent' = sent \cup {job[w].e}
    /\ Counted("produced")
    /\ Done(w)
    /\ UNCHANGED <<got, hand, queue, phase, spoolVars, drain, arrived, busUp, replayed, faults>>

\* bus.produce raises: nothing was added, or only the answer got lost.
ProduceFails(w) ==
    /\ At(w, "produce")
    /\ \/ ~busUp /\ UNCHANGED <<sent, faults>>
       \/ busUp /\ Fault /\ sent' = sent \cup {job[w].e}
    /\ Goto(w, [pc |-> "fail", e |-> job[w].e])
    /\ UNCHANGED <<got, hand, queue, phase, spoolVars, drain, count, arrived, busUp, replayed>>

-----------------------------------------------------------------------------
(* BoundedSpool.append, under the spool's lock.                            *)

\* The last line with more text after it.
Spoiled(lines) == [lines EXCEPT ![Len(lines)] = Junk]

\* append() looks at the last byte only while the tail is not known to be good.
Prefix == ~tailGood /\ file.open

\* The file as append() finds it once the terminator is written.
Closed == IF Prefix THEN [file EXCEPT !.open = FALSE] ELSE file

\* The record and its newline have been written.
Written(e) ==
    [lines |-> IF Closed.open THEN Spoiled(Closed.lines) ELSE Append(Closed.lines, e), open |-> FALSE]

\* What a write that stops half way leaves: nothing, the terminator, a part of the
\* record, or all of it but the newline.
Partial(e) ==
    {file, Closed} \cup
    {[lines |-> IF Closed.open THEN Spoiled(Closed.lines) ELSE Append(Closed.lines, x), open |-> TRUE]
        : x \in {Junk, e}}

\* Accepted events that were on the last line, which is not terminated.
OnTail == {file.lines[i] : i \in {Len(file.lines)} \cap DOMAIN file.lines} \cap
          {accepted[i] : i \in DOMAIN accepted}

Spooling(w) == At(w, "shed") \/ At(w, "fail")
Room == Len(file.lines) + 1 <= SpoolMax

\* A write that lands on an unterminated line destroys what was on it.
Harm(S) == damaged' = IF Closed.open THEN damaged \cup OnTail \cup S ELSE damaged

SpoolAppend(w) ==
    LET e == job[w].e IN
    /\ Spooling(w)
    /\ Room
    /\ file' = Written(e)
    /\ tailGood' = TRUE
    /\ accepted' = Append(accepted, e)
    /\ Harm({e})
    /\ Counted("spooled")
    /\ Done(w)
    /\ UNCHANGED <<got, hand, queue, phase, drain, arrived, busUp, sent, replayed, faults>>

\* Refused: the byte cap, the volume's free space, or a failed write; a failed
\* write may leave a part of the record and tailGood stays what it was.  The
\* event is counted as dropped after a bus error, else as lost.
SpoolRefuses(w) ==
    /\ Spooling(w)
    /\ \/ ~Room /\ UNCHANGED <<file, damaged, faults>>
       \/ Room /\ Fault /\ file' \in Partial(job[w].e)
          /\ IF file' \in {file, Closed} THEN UNCHANGED damaged ELSE Harm({})
    /\ Counted(IF job[w].pc = "fail" THEN "dropped" ELSE "lost")
    /\ Done(w)
    /\ UNCHANGED <<got, hand, queue, phase, tailGood, drain, arrived, busUp, sent, replayed, accepted>>

-----------------------------------------------------------------------------
(* drain_into, in the drain thread.  Only the first and the last step hold  *)
(* the spool's lock.                                                        *)

\* Once told to end, the thread finishes the drain it is in and starts no other.
DrainAt(label) ==
    /\ drain.pc = label
    /\ phase \in {"up", "stopping"} \/ (phase = "stopped" /\ label # "idle")

DrainStart ==
    /\ DrainAt("idle")
    /\ file.lines # <<>>
    /\ drain' = [pc |-> "replay", lines |-> file.lines, i |-> 1, replayed |-> 0]
    /\ UNCHANGED <<got, hand, queue, phase, job, spoolVars, count, arrived, busUp, sent, replayed, faults>>

Line == drain.lines[drain.i]
More == drain.i <= Len(drain.lines)

\* Faulty variant: a line that does not parse ends the drain.
SkipJunk_Stops ==
    /\ DrainAt("replay")
    /\ More /\ Line = Junk
    /\ drain' = [drain EXCEPT !.pc = "rewrite"]
    /\ UNCHANGED <<got, hand, queue, phase, job, spoolVars, count, arrived, busUp, sent, replayed, faults>>

\* A line that does not parse is dropped.
SkipJunk ==
    /\ DrainAt("replay")
    /\ More /\ Line = Junk
    /\ drain' = [drain EXCEPT !.i = @ + 1]
    /\ UNCHANGED <<got, hand, queue, phase, job, spoolVars, count, arrived, busUp, sent, replayed, faults>>

Replay ==
    /\ DrainAt("replay")
    /\ More /\ Line # Junk
    /\ busUp
    /\ replayed' = replayed \cup {Line}
    /\ drain' = [drain EXCEPT !.i = @ + 1, !.replayed = @ + 1]
    /\ UNCHANGED <<got, hand, queue, phase, job, spoolVars, count, arrived, busUp, sent, faults>>

\* Faulty variant: the drain goes on behind an event it could not produce.
ReplayFails_GoesOn ==
    /\ DrainAt("replay")
    /\ More /\ Line # Junk
    /\ \/ ~busUp /\ UNCHANGED <<replayed, faults>>
       \/ busUp /\ Fault /\ replayed' \in {replayed, replayed \cup {Line}}
    /\ drain' = [drain EXCEPT !.i = @ + 1]
    /\ UNCHANGED <<got, hand, queue, phase, job, spoolVars, count, arrived, busUp, sent>>

\* The first event that cannot be produced ends the drain.
ReplayFails ==
    /\ DrainAt("replay")
    /\ More /\ Line # Junk
    /\ \/ ~busUp /\ UNCHANGED <<replayed, faults>>
       \/ busUp /\ Fault /\ replayed' \in {replayed, replayed \cup {Line}}
    /\ drain' = [drain EXCEPT !.pc = "rewrite"]
    /\ UNCHANGED <<got, hand, queue, phase, job, spoolVars, count, arrived, busUp, sent>>

DrainEnd ==
    /\ DrainAt("replay")
    /\ ~More
    /\ drain' = [drain EXCEPT !.pc = "rewrite"]
    /\ UNCHANGED <<got, hand, queue, phase, job, spoolVars, count, arrived, busUp, sent, replayed, faults>>

Left == SubSeq(drain.lines, drain.i, Len(drain.lines))
Since(current) == SubSeq(current, Len(drain.lines) + 1, Len(current))

\* The file is replaced by `remaining', unless nothing has changed.
PutBack(remaining, current) ==
    IF drain.replayed > 0 \/ remaining # current
    THEN file' = [lines |-> remaining, open |-> FALSE] /\ tailGood' = TRUE
    ELSE UNCHANGED <<file, tailGood>>

\* Faulty variant: what was appended since the snapshot is forgotten.
Rewrite_Snapshot ==
    /\ DrainAt("rewrite")
    /\ PutBack(Left, file.lines)
    /\ drain' = Idle
    /\ UNCHANGED <<got, hand, queue, phase, job, count, arrived, busUp, sent, replayed, accepted, damaged, faults>>

\* The lines left over and the lines appended since, in a new file put in place
\* by os.replace.
Rewrite ==
    /\ DrainAt("rewrite")
    /\ PutBack(Left \o Since(file.lines), file.lines)
    /\ drain' = Idle
    /\ UNCHANGED <<got, hand, queue, phase, job, count, arrived, busUp, sent, replayed, accepted, damaged, faults>>

\* The file cannot be read again: the snapshot is taken for the whole file.
RewriteBlind ==
    /\ DrainAt("rewrite")
    /\ Fault
    /\ PutBack(Left, drain.lines)
    /\ drain' = Idle
    /\ LET new == Since(file.lines) IN
       damaged' = IF UNCHANGED file THEN damaged ELSE damaged \cup ({new[i] : i \in DOMAIN new} \ {Junk})
    /\ UNCHANGED <<got, hand, queue, phase, job, count, arrived, busUp, sent, replayed, accepted>>

\* The new file cannot be written: _rewrite raises and the old one stays.
RewriteFails ==
    /\ DrainAt("rewrite")
    /\ Fault
    /\ drain' = Idle
    /\ UNCHANGED <<got, hand, queue, phase, job, spoolVars, count, arrived, busUp, sent, replayed>>

-----------------------------------------------------------------------------
(* stop(), crashes, restarts and the bus.                                  *)

\* stop(): _running is cleared and the socket closed.
Stop ==
    /\ phase = "up"
    /\ Fault
    /\ phase' = "stopping"
    /\ UNCHANGED <<got, hand, queue, job, spoolVars, drain, count, arrived, busUp, sent, replayed>>

\* Faulty variant: what the workers left in the queue is thrown away.
StopQueue_Uncounted ==
    /\ phase = "stopping"
    /\ hand.pc # "put"
    /\ phase' = "stopped"
    /\ queue' = <<>>
    /\ UNCHANGED <<got, hand, job, spoolVars, drain, count, arrived, busUp, sent, replayed, faults>>

\* The receive thread has ended, or still waits in recvfrom; the workers have ended or
\* their join has timed out: what is still queued is counted as lost, and the drain
\* thread is told to end.
StopQueue ==
    /\ phase = "stopping"
    /\ hand.pc # "put"
    /\ phase' = "stopped"
    /\ queue' = <<>>
    /\ count' = [count EXCEPT !.lost = @ + Len(queue)]
    /\ UNCHANGED <<got, hand, job, spoolVars, drain, arrived, busUp, sent, replayed, faults>>

\* The process ends, on its own after stop() or in a crash; an append that was
\* under way may leave a part of its record.
Die ==
    /\ \/ phase = "stopped" /\ UNCHANGED faults
       \/ phase \in {"up", "stopping"} /\ Fault
    /\ phase' = "down"
    /\ \/ UNCHANGED <<file, damaged>>
       \/ \E w \in Workers :
            /\ Spooling(w) /\ Room
            /\ file' \in Partial(job[w].e) \ {file, Closed}
            /\ Harm({})
    /\ UNCHANGED <<got, hand, queue, job, tailGood, drain, count, arrived, busUp, sent, replayed, accepted>>

\* A new process: __init__ of the spool looks at the tail of the file.
Restart ==
    /\ phase = "down"
    /\ phase' = "up"
    /\ hand' = Idle
    /\ queue' = <<>>
    /\ job' = [w \in Workers |-> Idle]
    /\ tailGood' = ~file.open
    /\ drain' = Idle
    /\ count' = Zero
    /\ arrived' = 0
    /\ UNCHANGED <<got, file, busUp, sent, replayed, accepted, damaged, faults>>

BusDown ==
    /\ busUp
    /\ Fault
    /\ busUp' = FALSE
    /\ UNCHANGED <<got, hand, queue, phase, job, spoolVars, drain, count, arrived, sent, replayed>>

BusBack ==
    /\ ~busUp
    /\ busUp' = TRUE
    /\ UNCHANGED <<got, hand, queue, phase, job, spoolVars, drain, count, arrived, sent, replayed, faults>>

Worker(w) ==
    \/ Get(w)
    \/ HandleEmpty(w)
    \/ TakeToken(w)
    \/ Produce(w)
    \/ ProduceFails(w)
    \/ SpoolAppend(w)
    \/ SpoolRefuses(w)

DrainStep == DrainStart \/ SkipJunk \/ Replay \/ DrainEnd \/ Rewrite

Next ==
    \/ Recv
    \/ Check
    \/ Put
    \/ \E w \in Workers : Worker(w)
    \/ DrainStep
    \/ ReplayFails
    \/ RewriteBlind
    \/ RewriteFails
    \/ Stop
    \/ StopQueue
    \/ Die
    \/ Restart
    \/ BusDown
    \/ BusBack

Spec == Init /\ [][Next]_vars

\* The drain thread loops for ever, put_nowait does not block, stop() ends, the container is started again
\* (restart policy of the compose file), and outages end.
FairSpec ==
    /\ Spec
    /\ WF_vars(DrainStep)
    /\ WF_vars(Put)
    /\ WF_vars(StopQueue)
    /\ WF_vars(phase = "stopped" /\ Die)
    /\ WF_vars(Restart)
    /\ WF_vars(BusBack)

-----------------------------------------------------------------------------
(* Properties.                                                             *)

TypeOK ==
    /\ got \in 0 .. MaxDatagrams
    /\ hand.pc \in {"idle", "check", "put", "discarded", "ended"}
    /\ queue \in Seq(Datagrams) /\ Len(queue) <= QueueMax
    /\ phase \in {"up", "stopping", "stopped", "down"}
    /\ file.lines \in Seq(Datagrams \cup {Junk}) /\ file.open \in BOOLEAN
    /\ Len(file.lines) <= SpoolMax
    /\ tailGood \in BOOLEAN
    /\ count \in [Counters -> Nat] /\ arrived \in Nat
    /\ sent \subseteq Datagrams /\ replayed \subseteq Datagrams /\ damaged \subseteq Datagrams
    /\ accepted \in Seq(Datagrams)
    /\ faults \in 0 .. MaxFaults

\* The spool loses nothing it accepted: an event append() took is replayed or
\* still in the file as a line that parses, whatever is appended while a drain
\* runs, across crashes in the middle of a write, unless an I/O error of the
\* spool's own file has destroyed it.
AcceptedIsKept ==
    \A i \in DOMAIN accepted :
        accepted[i] \in replayed \cup damaged \/ InSeq(accepted[i], file.lines)

\* Replay is first in, first out: an event is never replayed before one that was
\* spooled before it, whatever failed in between.
ReplayInOrder ==
    \A i, j \in DOMAIN accepted :
        i < j /\ accepted[j] \in replayed => accepted[i] \in replayed \cup damaged

\* Every datagram this process received is in one counter exactly, or still in
\* its hands.  A stop leaves at most one uncounted: the one the receive thread had
\* taken from the socket but not yet put into the queue.
EveryDatagramCounted ==
    LET total == count["produced"] + count["dropped"] + count["spooled"]
                    + count["lost"] + count["empty"] + count["queue_full"]
        taken == IF hand.pc \in {"check", "put", "discarded"} THEN 1 ELSE 0
    IN  Alive => /\ arrived = total + Len(queue) + taken + Cardinality({w \in Workers : ~At(w, "idle")})
                 /\ hand.pc = "discarded" => phase # "up"

\* A spooled event reaches the bus in the end.
SpooledIsReplayed ==
    \A e \in Datagrams : InSeq(e, accepted) ~> e \in replayed \cup damaged
=============================================================================
