------------------------------- MODULE AiTriage -------------------------------
(***************************************************************************)
(* The AI triage worker: services/ws5-ai, main.py AiWorker and its handler, *)
(* llm_adapter.py FallbackLLM.                                             *)
(*                                                                         *)
(* Consumer threads of the group cg-ai call handle(); the LLM call runs in  *)
(* a pool.  A task is named after the thread that waits for its future, or   *)
(* after its request if submit() raised and nobody does.                     *)
(* The verdict is the engine that gave it: "ollama" or "stub".             *)
(***************************************************************************)
EXTENDS Naturals, Sequences, FiniteSets

CONSTANTS
    Requests,   \* entries of ai.requests
    EventOf,    \* EventOf[r]: the event's id, NoId if it has none
    Light,      \* the requests of the classifier tier
    NoId,
    Threads,    \* consumer threads (topic_workers)
    Pool,       \* threads of the pool (max_workers)
    QueueCap,   \* queue_cap
    SeenCap,    \* _SEEN_CAP
    MaxFaults   \* bound on errors, repeated deliveries and crashes

Events == {EventOf[r] : r \in Requests} \ {NoId}
TotalCap == Cardinality(Pool) + QueueCap

ASSUME AiTriageAssumption ==
    /\ IsFiniteSet(Requests) /\ IsFiniteSet(Threads) /\ IsFiniteSet(Pool)
    /\ Light \subseteq Requests /\ Requests \cap Threads = {}
    /\ QueueCap \in Nat /\ SeenCap \in Nat \ {0} /\ MaxFaults \in Nat

VARIABLES
    todo,       \* requests not acked that no thread has
    job,        \* job[t]: the request thread t handles
    lockOf,     \* _key_locks: event -> lock object (a number)
    lockOrder,  \* _key_locks_order
    cache,      \* _TriageCache, oldest first
    permits,    \* the admission semaphore
    tasks,      \* the executor's queue
    pool,       \* pool[p]: what pool thread p does
    available,  \* FallbackLLM._available
    published,  \* published[e]: verdicts on e put on ai.results in the life of this process
    alerted,    \* requests whose enriched alert is on the topic alerts
    calls,      \* history: calls[e], analyses of e that came to a verdict in this process
    excused,    \* history: events that fell out of the cache or the lock map, or whose
                \* task is in the queue although submit() raised
    extra,      \* history: how many tasks are or were in the queue that way
    faults

dedupVars == <<lockOf, lockOrder>>
poolVars == <<permits, tasks, pool, extra>>
outVars == <<published, alerted>>
vars == <<todo, job, dedupVars, cache, poolVars, available, outVars, calls,
          excused, faults>>

Idle == [pc |-> "idle"]
NoLock == 0

\* make_llm probes the model server when the process starts.
Init ==
    /\ todo = Requests
    /\ job = [t \in Threads |-> Idle]
    /\ lockOf = [e \in Events |-> NoLock]
    /\ lockOrder = <<>>
    /\ cache = <<>>
    /\ permits = TotalCap
    /\ tasks = <<>>
    /\ pool = [p \in Pool |-> Idle]
    /\ available \in BOOLEAN
    /\ published = [e \in Events |-> {}]
    /\ alerted = {}
    /\ calls = [e \in Events |-> 0]
    /\ excused = {}
    /\ extra = 0
    /\ faults = 0

Fault == faults < MaxFaults /\ faults' = faults + 1
At(t, label) == job[t].pc = label
Set(t, j) == job' = [job EXCEPT ![t] = j]
Goto(t, label) == Set(t, [job[t] EXCEPT !.pc = label])
Event(t) == EventOf[job[t].req]
\* The steps of handle() between acquire() and release().
Holds(t, k) == job[t].pc \in {"cached", "admit", "wait", "unlock", "raise"} /\ job[t].lock = k
\* A lock object is gone when neither the map nor a thread knows it.
InUse(k) == (\E e \in Events : lockOf[e] = k) \/ (\E t \in Threads : ~At(t, "idle") /\ job[t].lock = k)
NewLock == CHOOSE k \in 1..(Cardinality(Events) + Cardinality(Threads)) : ~InUse(k)
Pending == todo \cup {job[t].req : t \in {u \in Threads : ~At(u, "idle")}}
Cached(e) == {i \in DOMAIN cache : cache[i].event = e}

-----------------------------------------------------------------------------
(* handle()                                                                *)

\* A request of the classifier tier is answered at once, one without an id goes to
\* the pool.
TakeUnkeyed(t, r) ==
    /\ At(t, "idle")
    /\ r \in todo
    /\ r \in Light \/ EventOf[r] = NoId
    /\ todo' = todo \ {r}
    /\ Set(t, [pc |-> IF r \in Light THEN "publish" ELSE "admit", req |-> r, lock |-> NoLock, verdict |-> "none"])
    /\ UNCHANGED <<dedupVars, cache, poolVars, available, outVars, calls, excused, faults>>

\* The others need the lock of their event.  _key_lock makes it if there is none;
\* the oldest one falls out of a full map, held or not.
TakeKeyed(t, r) ==
    LET e == EventOf[r]
        known == lockOf[e] # NoLock
        order == Append(lockOrder, e)
        full == Len(order) > SeenCap
        lock == IF known THEN lockOf[e] ELSE NewLock
    IN
    /\ At(t, "idle")
    /\ r \in todo \ Light
    /\ e # NoId
    /\ todo' = todo \ {r}
    /\ Set(t, [pc |-> "lock", req |-> r, lock |-> lock, verdict |-> "none"])
    /\ IF known THEN UNCHANGED <<dedupVars, excused>>
       ELSE /\ lockOrder' = IF full THEN Tail(order) ELSE order
            /\ lockOf' = [x \in Events |-> IF full /\ x = Head(order) THEN NoLock
                                           ELSE IF x = e THEN lock ELSE lockOf[x]]
            /\ excused' = IF full THEN excused \cup {Head(order)} ELSE excused
    /\ UNCHANGED <<cache, poolVars, available, outVars, calls, faults>>

\* Faulty variant: nobody waits for the lock.
Lock_DoesNotWait(t) ==
    /\ At(t, "lock")
    /\ Goto(t, "cached")
    /\ UNCHANGED <<todo, dedupVars, cache, poolVars, available, outVars, calls, excused, faults>>

Lock(t) ==
    /\ At(t, "lock")
    /\ ~\E u \in Threads : Holds(u, job[t].lock)
    /\ Goto(t, "cached")
    /\ UNCHANGED <<todo, dedupVars, cache, poolVars, available, outVars, calls, excused, faults>>

\* The verdict of an earlier delivery is given again.
Lookup(t) ==
    /\ At(t, "cached")
    /\ \/ Cached(Event(t)) = {} /\ Goto(t, "admit")
       \/ \E i \in Cached(Event(t)) :
            Set(t, [job[t] EXCEPT !.pc = "publish", !.lock = NoLock, !.verdict = cache[i].verdict])
    /\ UNCHANGED <<todo, dedupVars, cache, poolVars, available, outVars, calls, excused, faults>>

\* The semaphore is taken and the task submitted; the thread waits for the future.
Admit(t) ==
    /\ At(t, "admit")
    /\ permits > 0
    /\ permits' = permits - 1
    /\ tasks' = Append(tasks, t)
    /\ Goto(t, "wait")
    /\ UNCHANGED <<todo, dedupVars, cache, pool, available, outVars, calls, excused, extra, faults>>

\* submit() raises.  The permit is given back and the request stays unacked.  If what
\* failed was the start of another pool thread, the task is in the executor's queue all
\* the same: it will run, and give the permit back once more.
SubmitFails(t) ==
    /\ At(t, "admit")
    /\ permits > 0
    /\ Fault
    /\ \/ UNCHANGED <<tasks, excused, extra>>
       \/ /\ tasks' = Append(tasks, job[t].req)
          /\ excused' = excused \cup {Event(t)}
          /\ extra' = extra + 1
    /\ Goto(t, "raise")
    /\ UNCHANGED <<todo, dedupVars, cache, permits, pool, available, outVars, calls>>

Unlock(t) ==
    /\ At(t, "unlock")
    /\ Set(t, [job[t] EXCEPT !.pc = "publish", !.lock = NoLock])
    /\ UNCHANGED <<todo, dedupVars, cache, poolVars, available, outVars, calls, excused, faults>>

\* The future or submit() raises: handle() gives the lock back and the request stays unacked.
Failed(t) ==
    /\ At(t, "raise")
    /\ todo' = todo \cup {job[t].req}
    /\ Set(t, Idle)
    /\ UNCHANGED <<dedupVars, cache, poolVars, available, outVars, calls, excused, faults>>

-----------------------------------------------------------------------------
(* The handler publishes the result, then the enriched alert; the runner acks. *)

Publish(t) ==
    /\ At(t, "publish")
    /\ published' = [e \in Events |-> published[e] \cup IF e = Event(t) /\ job[t].req \notin Light
                                                       THEN {job[t].verdict} ELSE {}]
    /\ Goto(t, "alert")
    /\ UNCHANGED <<todo, dedupVars, cache, poolVars, available, alerted, calls,
                   excused, faults>>

PublishAlert(t) ==
    /\ At(t, "alert")
    /\ alerted' = alerted \cup {job[t].req}
    /\ Set(t, Idle)
    /\ UNCHANGED <<todo, dedupVars, cache, poolVars, available, published, calls,
                   excused, faults>>

\* A produce raises: the request is delivered again.
PublishFails(t) ==
    /\ At(t, "publish") \/ At(t, "alert")
    /\ Fault
    /\ todo' = todo \cup {job[t].req}
    /\ Set(t, Idle)
    /\ UNCHANGED <<dedupVars, cache, poolVars, available, outVars, calls, excused>>

-----------------------------------------------------------------------------
(* _llm_task in the pool, with FallbackLLM.analyze.                        *)

PoolAt(p, label) == pool[p].pc = label
Run(p, j) == pool' = [pool EXCEPT ![p] = j]

\* _use_primary: yes while the primary is believed up; else it is probed if
\* re_probe_s have passed, and if not the backup answers.
Start(p) ==
    /\ PoolAt(p, "idle")
    /\ tasks # <<>>
    /\ tasks' = Tail(tasks)
    /\ \/ available /\ Run(p, [pc |-> "primary", task |-> Head(tasks), verdict |-> "none"])
       \/ ~available /\ Run(p, [pc |-> "probe", task |-> Head(tasks), verdict |-> "none"])
       \/ ~available /\ Run(p, [pc |-> "answered", task |-> Head(tasks), verdict |-> "stub"])
    /\ UNCHANGED <<todo, job, dedupVars, cache, permits, available, outVars, calls, excused, extra, faults>>

\* ping() answers, or it does not and the backup does.
Probe(p) ==
    /\ PoolAt(p, "probe")
    /\ \/ available' = TRUE /\ Run(p, [pool[p] EXCEPT !.pc = "primary"])
       \/ available' = FALSE /\ Run(p, [pool[p] EXCEPT !.pc = "answered", !.verdict = "stub"])
    /\ UNCHANGED <<todo, job, dedupVars, cache, permits, tasks, outVars, calls, excused, extra, faults>>

\* The primary answers, or it fails in whatever way and the backup answers.
Primary(p) ==
    /\ PoolAt(p, "primary")
    /\ \/ available' = TRUE /\ Run(p, [pool[p] EXCEPT !.pc = "answered", !.verdict = "ollama"])
       \/ available' = FALSE /\ Run(p, [pool[p] EXCEPT !.pc = "answered", !.verdict = "stub"])
    /\ UNCHANGED <<todo, job, dedupVars, cache, permits, tasks, outVars, calls, excused, extra, faults>>

Awaited(p) == pool[p].task \in Threads
TaskEvent(p) == EventOf[IF Awaited(p) THEN job[pool[p].task].req ELSE pool[p].task]

\* The future has a result; the thread that waits for it, if any, goes on.
Resume(p, label, verdict) ==
    IF Awaited(p) THEN Set(pool[p].task, [job[pool[p].task] EXCEPT !.pc = label, !.verdict = verdict])
    ELSE UNCHANGED job

\* _TriageCache.put: the first verdict stays, the oldest entry falls out of a full
\* cache, a result without an id is not kept.  The finally clause gives the permit
\* back and the future has its result.
Complete(p) ==
    LET e == TaskEvent(p)
        full == Len(cache) >= SeenCap
        kept == IF full THEN Tail(cache) ELSE cache
    IN
    /\ PoolAt(p, "answered")
    /\ calls' = IF e = NoId THEN calls ELSE [calls EXCEPT ![e] = @ + 1]
    /\ IF e = NoId \/ Cached(e) # {}
       THEN UNCHANGED <<cache, excused>>
       ELSE /\ cache' = Append(kept, [event |-> e, verdict |-> pool[p].verdict])
            /\ excused' = IF full THEN excused \cup {Head(cache).event} ELSE excused
    /\ permits' = permits + 1
    /\ Resume(p, "unlock", pool[p].verdict)
    /\ Run(p, Idle)
    /\ UNCHANGED <<todo, dedupVars, tasks, available, outVars, extra, faults>>

\* Faulty variants: the permit of a task that raises is lost; it is given back
\* twice, by the task and by handle().
TaskRaises_KeepsPermit(p) ==
    /\ PoolAt(p, "answered")
    /\ Fault
    /\ Resume(p, "raise", "none")
    /\ Run(p, Idle)
    /\ UNCHANGED <<todo, dedupVars, cache, permits, tasks, available, outVars, calls, excused, extra>>

TaskRaises_ReleasesTwice(p) ==
    /\ PoolAt(p, "answered")
    /\ Fault
    /\ permits' = permits + 2
    /\ Resume(p, "raise", "none")
    /\ Run(p, Idle)
    /\ UNCHANGED <<todo, dedupVars, cache, tasks, available, outVars, calls, excused, extra>>

\* The analysis or the classifier raises; the finally clause runs all the same.
TaskRaises(p) ==
    /\ PoolAt(p, "answered")
    /\ Fault
    /\ permits' = permits + 1
    /\ Resume(p, "raise", "none")
    /\ Run(p, Idle)
    /\ UNCHANGED <<todo, dedupVars, cache, tasks, available, outVars, calls, excused, extra>>

-----------------------------------------------------------------------------
(* The environment.                                                        *)

\* A request is delivered again: its ack got lost, another thread claims it because
\* it has been pending for long, or the detector sent it twice.
Again(r) ==
    /\ r \in (alerted \cup Pending) \ todo
    /\ Fault
    /\ todo' = todo \cup {r}
    /\ UNCHANGED <<job, dedupVars, cache, poolVars, available, outVars, calls, excused>>

\* The process dies and is started again.
Restart ==
    /\ Fault
    /\ todo' = Pending
    /\ job' = [t \in Threads |-> Idle]
    /\ lockOf' = [e \in Events |-> NoLock]
    /\ lockOrder' = <<>>
    /\ cache' = <<>>
    /\ permits' = TotalCap
    /\ tasks' = <<>>
    /\ pool' = [p \in Pool |-> Idle]
    /\ available' \in BOOLEAN
    /\ published' = [e \in Events |-> {}]
    /\ calls' = [e \in Events |-> 0]
    /\ excused' = {}
    /\ extra' = 0
    /\ UNCHANGED alerted

Thread(t) ==
    \/ \E r \in Requests : TakeUnkeyed(t, r) \/ TakeKeyed(t, r)
    \/ Lock(t)
    \/ Lookup(t)
    \/ Admit(t)
    \/ Unlock(t)
    \/ Failed(t)
    \/ Publish(t)
    \/ PublishAlert(t)

Worker(p) == Start(p) \/ Probe(p) \/ Primary(p) \/ Complete(p)

Next ==
    \/ \E t \in Threads : Thread(t) \/ SubmitFails(t) \/ PublishFails(t)
    \/ \E p \in Pool : Worker(p) \/ TaskRaises(p)
    \/ \E r \in Requests : Again(r)
    \/ Restart

Spec == Init /\ [][Next]_vars

\* The runner's threads and the pool's threads keep running; a lock or a permit
\* given back again and again is obtained in the end.
FairSpec ==
    /\ Spec
    /\ \A t \in Threads : WF_vars(Thread(t)) /\ SF_vars(Lock(t)) /\ SF_vars(Admit(t))
    /\ \A p \in Pool : WF_vars(Worker(p))

-----------------------------------------------------------------------------
(* Properties.                                                             *)

Labels == {"idle", "lock", "cached", "admit", "wait", "unlock", "raise", "publish", "alert"}

TypeOK ==
    /\ todo \subseteq Requests /\ alerted \subseteq Requests
    /\ \A t \in Threads : job[t].pc \in Labels /\ (~At(t, "idle") => job[t].req \in Requests)
    /\ lockOf \in [Events -> Nat]
    /\ lockOrder \in Seq(Events)
    /\ cache \in Seq([event : Events, verdict : {"ollama", "stub"}])
    /\ extra \in Nat /\ permits \in 0..(TotalCap + extra)
    /\ tasks \in Seq(Threads \cup Requests)
    /\ \A p \in Pool : pool[p].pc \in {"idle", "probe", "primary", "answered"}
    /\ published \in [Events -> SUBSET {"ollama", "stub"}]
    /\ calls \in [Events -> Nat]
    /\ faults \in 0..MaxFaults

\* However often an event is delivered, and to how many threads at once, it is
\* analysed once in the life of a process and every delivery gets that verdict,
\* although the model server may have failed or come back in between: as long as
\* the event has not fallen out of the bounded cache or lock map, and no task of it
\* is left in the queue by a submit() that raised.
OneVerdict == \A e \in Events \ excused : calls[e] <= 1 /\ Cardinality(published[e]) <= 1

\* The semaphore is exact: what is not free belongs to a task that is queued or
\* running, whichever way tasks and submit() end, so none leaks and at most TotalCap
\* requests are in the pool; but for a submit() that raises with its task in the queue,
\* for each of which there is one permit too many.
PermitsExact ==
    permits + Len(tasks) + Cardinality({p \in Pool : ~PoolAt(p, "idle")}) = TotalCap + extra

\* Every request is answered in the end: neither a lock, nor the semaphore, nor the
\* pool, nor a server that is away keeps it for ever.
EveryRequestAnswered == <>(alerted = Requests)
=============================================================================
