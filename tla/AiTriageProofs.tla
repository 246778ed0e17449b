---------------------------- MODULE AiTriageProofs ----------------------------
(***************************************************************************)
(* Proofs about AiTriage, for any requests, consumer threads and pool: the *)
(* admission semaphore is exact, and an event that stays in the bounded    *)
(* maps is analysed once and has one verdict.                              *)
(***************************************************************************)
EXTENDS AiTriage, FiniteSetTheorems, TLAPS

Verdicts == {"none", "ollama", "stub"}
JobType == [pc : Labels \ {"idle"}, req : Requests, lock : Nat, verdict : Verdicts]
Tasks == Threads \cup Requests
TaskType == [pc : {"probe", "primary", "answered"}, task : Tasks, verdict : Verdicts]
EntryType == [event : Events, verdict : Verdicts]

JobsOK == job \in [Threads -> JobType \cup {Idle}]
PoolOK == pool \in [Pool -> TaskType \cup {Idle}] /\ tasks \in Seq(Tasks) /\ permits \in Nat /\ extra \in Nat
MemoryOK ==
    /\ todo \subseteq Requests
    /\ lockOf \in [Events -> Nat]
    /\ cache \in Seq(EntryType)
    /\ published \in [Events -> SUBSET Verdicts]
    /\ calls \in [Events -> Nat]

StateOK == JobsOK /\ PoolOK /\ MemoryOK

\* A task, queued or running, is the one its thread waits for; or nobody waits for it,
\* and its event is excused.
Busied(p) == pool[p] # Idle /\ pool[p].task \in Threads
Excused(r) == EventOf[r] \in excused \cup {NoId}

TasksWait ==
    /\ \A i \in DOMAIN tasks : tasks[i] \in Threads => At(tasks[i], "wait")
    /\ \A i, k \in DOMAIN tasks : tasks[i] \in Threads /\ tasks[i] = tasks[k] => i = k
    /\ \A p \in Pool : Busied(p) =>
          /\ At(pool[p].task, "wait")
          /\ \A i \in DOMAIN tasks : tasks[i] # pool[p].task
          /\ \A q \in Pool : Busied(q) /\ pool[q].task = pool[p].task => p = q

Submitted == {tasks[i] : i \in DOMAIN tasks} \cup {pool[p].task : p \in {q \in Pool : pool[q] # Idle}}
StraysExcused == \A r \in Submitted \cap Requests : Excused(r)

PoolInv == StateOK /\ TasksWait /\ StraysExcused /\ PermitsExact

-----------------------------------------------------------------------------
(* Threads and their jobs.                                                 *)

\* A thread that is somewhere in handle() has a request.
LEMMA Busy ==
    ASSUME JobsOK, NEW t \in Threads, ~At(t, "idle")
    PROVE  /\ job[t] # Idle /\ job[t] \in JobType
           /\ job[t].pc \in Labels \ {"idle"} /\ job[t].req \in Requests /\ job[t].lock \in Nat /\ job[t].verdict \in Verdicts
  <1>1. job[t] # Idle
    BY DEF At, Idle
  <1>2. job[t] \in JobType
    BY <1>1 DEF JobsOK
  <1>3. QED
    BY <1>1, <1>2 DEF JobType

\* An idle thread has none.
LEMMA IdleThread ==
    ASSUME JobsOK, NEW t \in Threads
    PROVE  At(t, "idle") <=> job[t] = Idle
  BY DEF JobsOK, JobType, At, Idle

\* A thread is given a job.
LEMMA SetMoves ==
    ASSUME JobsOK, NEW t \in Threads, NEW j \in JobType \cup {Idle}, Set(t, j)
    PROVE  JobsOK' /\ job'[t] = j /\ \A u \in Threads \ {t} : job'[u] = job[u]
  BY DEF JobsOK, Set

\* A thread goes on with its job.
LEMMA GotoMoves ==
    ASSUME JobsOK, NEW t \in Threads, ~At(t, "idle"), NEW label \in Labels \ {"idle"}, Goto(t, label)
    PROVE  /\ JobsOK' /\ \A u \in Threads \ {t} : job'[u] = job[u]
           /\ job'[t] \in JobType /\ job'[t].pc = label
           /\ job'[t].req = job[t].req /\ job'[t].lock = job[t].lock /\ job'[t].verdict = job[t].verdict
  <1> DEFINE j == [job[t] EXCEPT !.pc = label]
  <1>1. job[t] \in JobType
    BY Busy
  <1>2. /\ j \in JobType /\ j.pc = label /\ j.req = job[t].req /\ j.lock = job[t].lock
        /\ j.verdict = job[t].verdict
    BY <1>1 DEF JobType
  <1>3. Set(t, j)
    BY DEF Goto
  <1> HIDE DEF j
  <1>4. JobsOK' /\ job'[t] = j /\ \A u \in Threads \ {t} : job'[u] = job[u]
    BY <1>2, <1>3, SetMoves
  <1>5. QED
    BY <1>2, <1>4

-----------------------------------------------------------------------------
(* The semaphore.                                                          *)

Running == {p \in Pool : ~PoolAt(p, "idle")}

\* The pool's threads are finitely many, and so are the permits.
LEMMA RunningFinite ==
    /\ IsFiniteSet(Running) /\ Cardinality(Running) \in Nat
    /\ IsFiniteSet(Running') /\ Cardinality(Running') \in Nat
    /\ TotalCap \in Nat
  <1>1. Running \in SUBSET Pool /\ Running' \in SUBSET Pool
    BY DEF Running
  <1>2. IsFiniteSet(Pool)
    BY AiTriageAssumption
  <1>3. IsFiniteSet(Running) /\ IsFiniteSet(Running')
    BY <1>1, <1>2, FS_Subset
  <1>4. QED
    BY <1>2, <1>3, FS_CardinalityType, AiTriageAssumption DEF TotalCap

\* A pool thread is busy exactly with a task.
LEMMA PoolBusy ==
    ASSUME PoolOK, NEW p \in Pool
    PROVE  /\ PoolAt(p, "idle") <=> pool[p] = Idle
           /\ pool[p] # Idle => pool[p] \in TaskType /\ pool[p].task \in Tasks /\ pool[p].verdict \in Verdicts
  <1>1. pool[p] \in TaskType \cup {Idle}
    BY DEF PoolOK
  <1>2. \A k \in TaskType : k.pc \in {"probe", "primary", "answered"} /\ k.task \in Tasks /\ k.verdict \in Verdicts
    BY DEF TaskType
  <1>3. Idle.pc = "idle"
    BY DEF Idle
  <1>4. QED
    BY <1>1, <1>2, <1>3 DEF PoolAt

\* What a step of pool thread p makes of the number of running tasks.
LEMMA RunCounts ==
    ASSUME PoolOK, NEW p \in Pool, NEW k \in TaskType \cup {Idle}, Run(p, k)
    PROVE  /\ pool' \in [Pool -> TaskType \cup {Idle}]
           /\ pool'[p] = k /\ \A q \in Pool \ {p} : pool'[q] = pool[q]
           /\ Cardinality(Running') =
                 IF pool[p] = Idle THEN IF k = Idle THEN Cardinality(Running) ELSE Cardinality(Running) + 1
                 ELSE IF k = Idle THEN Cardinality(Running) - 1 ELSE Cardinality(Running)
  <1>1. /\ pool' \in [Pool -> TaskType \cup {Idle}] /\ pool'[p] = k
        /\ \A q \in Pool \ {p} : pool'[q] = pool[q]
    BY DEF PoolOK, Run
  <1>2. \A x \in TaskType : x.pc # "idle"
    BY DEF TaskType
  <1>3. /\ \A q \in Pool : q \in Running <=> pool[q] # Idle
        /\ \A q \in Pool : q \in Running' <=> pool'[q] # Idle
    BY <1>1, <1>2 DEF Running, PoolAt, PoolOK, Idle
  <1>4. Running \subseteq Pool /\ Running' \subseteq Pool
    BY DEF Running
  <1>5. CASE k = Idle
    <2>1. Running' = Running \ {p}
      BY <1>1, <1>3, <1>4, <1>5
    <2>2. Cardinality(Running \ {p}) = IF p \in Running THEN Cardinality(Running) - 1 ELSE Cardinality(Running)
      BY RunningFinite, FS_RemoveElement
    <2>3. QED
      BY <1>1, <1>3, <1>5, <2>1, <2>2
  <1>6. CASE k # Idle
    <2>1. Running' = Running \cup {p}
      BY <1>1, <1>3, <1>4, <1>6
    <2>2. Cardinality(Running \cup {p}) = IF p \in Running THEN Cardinality(Running) ELSE Cardinality(Running) + 1
      BY RunningFinite, FS_AddElement
    <2>3. QED
      BY <1>1, <1>3, <1>6, <2>1, <2>2
  <1>7. QED
    BY <1>5, <1>6

\* The semaphore's equation in terms of the running tasks.
LEMMA PermitsRead == PermitsExact <=> permits + Len(tasks) + Cardinality(Running) = TotalCap + extra
  BY DEF PermitsExact, Running

\* A thread and a request are not the same, and a task is one of them.
LEMMA TaskIs == \A x \in Tasks : x \in Threads <=> x \notin Requests
  BY AiTriageAssumption DEF Tasks

\* No stray comes, and an excused event stays one.
LEMMA StraysKept ==
    ASSUME StraysExcused, excused \subseteq excused', Submitted' \cap Requests \subseteq Submitted
    PROVE  StraysExcused'
  BY DEF StraysExcused, Excused

\* A step of a thread that waits for no task leaves the tasks of the others alone.
LEMMA TasksUntouched ==
    ASSUME PoolInv, NEW t \in Threads, ~At(t, "wait"), excused \subseteq excused',
           \A u \in Threads \ {t} : job'[u] = job[u], UNCHANGED poolVars
    PROVE  PoolOK' /\ TasksWait' /\ StraysExcused' /\ PermitsExact'
  <1>1. UNCHANGED <<permits, tasks, pool, extra>>
    BY DEF poolVars
  <1>2. PoolOK' /\ PermitsExact'
    BY <1>1 DEF PoolInv, StateOK, PoolOK, PermitsExact, PoolAt
  <1>3. \A u \in Threads : At(u, "wait") => At(u, "wait")'
    BY DEF At
  <1>4. TasksWait'
    BY <1>1, <1>3 DEF PoolInv, TasksWait, Busied
  <1>5. StraysExcused'
    BY <1>1, StraysKept DEF PoolInv, Submitted
  <1>6. QED
    BY <1>2, <1>4, <1>5

\* Admit: the permit becomes a queued task.
LEMMA AdmitPool ==
    ASSUME PoolInv, NEW t \in Threads, Admit(t)
    PROVE  JobsOK' /\ PoolOK' /\ TasksWait' /\ StraysExcused' /\ PermitsExact'
  <1>t. JobsOK /\ PoolOK /\ TasksWait /\ tasks \in Seq(Tasks) /\ permits \in Nat /\ extra \in Nat
    BY DEF PoolInv, StateOK, PoolOK
  <1>a. At(t, "admit") /\ ~At(t, "idle") /\ ~At(t, "wait") /\ Goto(t, "wait")
    BY DEF Admit, At
  <1>j. JobsOK' /\ At(t, "wait")' /\ \A u \in Threads \ {t} : job'[u] = job[u]
    BY <1>t, <1>a, GotoMoves DEF Labels, At
  <1>1. permits' = permits - 1 /\ permits > 0 /\ tasks' = Append(tasks, t) /\ UNCHANGED <<pool, extra, excused>> /\ t \in Tasks
    BY DEF Admit, Tasks
  <1>2. tasks' \in Seq(Tasks) /\ Len(tasks') = Len(tasks) + 1 /\ Len(tasks) \in Nat
    BY <1>1, <1>t
  <1>3. PoolOK'
    BY <1>1, <1>2, <1>t DEF PoolOK
  <1>4. PermitsExact'
    <2>1. permits + Len(tasks) + Cardinality(Running) = TotalCap + extra
      BY PermitsRead DEF PoolInv
    <2>2. Running' = Running
      BY <1>1 DEF Running, PoolAt
    <2>3. permits' + Len(tasks') + Cardinality(Running') = TotalCap + extra'
      BY <1>1, <1>2, <1>t, <2>1, <2>2, RunningFinite
    <2>4. QED
      BY <2>3, <1>1 DEF PermitsExact, Running, PoolAt
  <1>5. /\ DOMAIN tasks' = 1 .. (Len(tasks) + 1) /\ DOMAIN tasks = 1 .. Len(tasks)
        /\ \A i \in DOMAIN tasks : tasks'[i] = tasks[i] 
        /\ tasks'[Len(tasks) + 1] = t
    <2>1. /\ DOMAIN Append(tasks, t) = 1 .. (Len(tasks) + 1) /\ DOMAIN tasks = 1 .. Len(tasks)
          /\ \A i \in 1 .. Len(tasks) : Append(tasks, t)[i] = tasks[i] 
          /\ Append(tasks, t)[Len(tasks) + 1] = t
      BY <1>t, <1>1
    <2>2. QED
      BY <2>1, <1>1
  <1>6. \A i \in DOMAIN tasks : tasks[i] # t
    BY <1>a, <1>t DEF TasksWait
  <1>7. \A i \in DOMAIN tasks' : i \in DOMAIN tasks \/ i = Len(tasks) + 1
    BY <1>2, <1>5
  <1>8. \A u \in Threads : At(u, "wait") => At(u, "wait")'
    BY <1>a, <1>j DEF At
  <1>9. \A p \in Pool : Busied(p) => pool[p].task # t
    BY <1>t, <1>a DEF TasksWait
  <1>10. TasksWait'
    <2>1. \A i \in DOMAIN tasks' : tasks'[i] \in Threads => job'[tasks'[i]].pc = "wait"
      <3> SUFFICES ASSUME NEW i \in DOMAIN tasks', tasks'[i] \in Threads PROVE job'[tasks'[i]].pc = "wait"
        OBVIOUS
      <3>1. CASE i \in DOMAIN tasks
        BY <3>1, <1>5, <1>8, <1>t DEF TasksWait, At
      <3>2. CASE i = Len(tasks) + 1
        BY <3>2, <1>5, <1>j DEF At
      <3>3. QED
        BY <3>1, <3>2, <1>7
    <2>2. \A i, k \in DOMAIN tasks' : tasks'[i] \in Threads /\ tasks'[i] = tasks'[k] => i = k
      BY <1>5, <1>6, <1>7, <1>t DEF TasksWait
    <2>3. ASSUME NEW p \in Pool, Busied(p)
          PROVE  /\ job'[pool[p].task].pc = "wait"
                 /\ \A i \in DOMAIN tasks' : tasks'[i] # pool[p].task
                 /\ \A q \in Pool : Busied(q) /\ pool[q].task = pool[p].task => p = q
      <3>1. pool[p].task \in Threads /\ job'[pool[p].task].pc = "wait"
        BY <2>3, <1>8, <1>9, <1>t DEF TasksWait, At, Busied
      <3>2. \A i \in DOMAIN tasks' : tasks'[i] # pool[p].task
        BY <2>3, <1>5, <1>7, <1>9, <1>t DEF TasksWait
      <3>3. QED
        BY <2>3, <3>1, <3>2, <1>t DEF TasksWait
    <2>4. QED
      BY <2>1, <2>2, <2>3, <1>1 DEF TasksWait, At, Busied
  <1>11. StraysExcused'
    <2>1. Submitted' \subseteq Submitted \cup {t}
      BY <1>1, <1>5, <1>7 DEF Submitted
    <2>2. t \notin Requests
      BY AiTriageAssumption
    <2>3. QED
      BY <2>1, <2>2, <1>1, StraysKept DEF PoolInv
  <1>12. QED
    BY <1>j, <1>3, <1>4, <1>10, <1>11

\* submit() raises: the permit is back, and the task may be in the queue.
LEMMA SubmitFailsPool ==
    ASSUME PoolInv, NEW t \in Threads, SubmitFails(t)
    PROVE  JobsOK' /\ PoolOK' /\ TasksWait' /\ StraysExcused' /\ PermitsExact'
  <1>t. JobsOK /\ PoolOK /\ TasksWait /\ StraysExcused /\ tasks \in Seq(Tasks) /\ permits \in Nat /\ extra \in Nat
    BY DEF PoolInv, StateOK, PoolOK
  <1>a. At(t, "admit") /\ ~At(t, "idle") /\ ~At(t, "wait") /\ Goto(t, "raise") /\ UNCHANGED <<permits, pool>>
    BY DEF SubmitFails, At
  <1>j. JobsOK' /\ \A u \in Threads \ {t} : job'[u] = job[u]
    BY <1>t, <1>a, GotoMoves DEF Labels
  <1>1. CASE UNCHANGED <<tasks, excused, extra>>
    BY <1>1, <1>a, <1>j, TasksUntouched DEF poolVars
  <1>2. CASE tasks' = Append(tasks, job[t].req) /\ excused' = excused \cup {Event(t)} /\ extra' = extra + 1
    <2>1. PICK r \in Requests : r = job[t].req
      BY <1>t, <1>a, Busy
    <2>2. r \in Tasks /\ r \notin Threads
      BY AiTriageAssumption DEF Tasks
    <2>3. /\ tasks' \in Seq(Tasks) /\ Len(tasks') = Len(tasks) + 1 /\ Len(tasks) \in Nat
          /\ DOMAIN tasks' = 1 .. (Len(tasks) + 1) /\ DOMAIN tasks = 1 .. Len(tasks)
          /\ \A i \in DOMAIN tasks : tasks'[i] = tasks[i]
          /\ tasks'[Len(tasks) + 1] = r
      <3>1. tasks' = Append(tasks, r)
        BY <1>2, <2>1
      <3>2. /\ Append(tasks, r) \in Seq(Tasks) /\ Len(Append(tasks, r)) = Len(tasks) + 1 /\ Len(tasks) \in Nat
            /\ DOMAIN Append(tasks, r) = 1 .. (Len(tasks) + 1) /\ DOMAIN tasks = 1 .. Len(tasks)
            /\ \A i \in 1 .. Len(tasks) : Append(tasks, r)[i] = tasks[i]
            /\ Append(tasks, r)[Len(tasks) + 1] = r
        BY <2>2, <1>t
      <3>3. QED
        BY <3>1, <3>2
    <2>4. \A i \in DOMAIN tasks' : (i \in DOMAIN tasks /\ tasks'[i] = tasks[i]) \/ tasks'[i] = r
      BY <2>3
    <2>5. PoolOK'
      BY <2>3, <1>2, <1>a, <1>t DEF PoolOK
    <2>6. PermitsExact'
      <3>1. permits + Len(tasks) + Cardinality(Running) = TotalCap + extra
        BY PermitsRead DEF PoolInv
      <3>2. Running' = Running
        BY <1>a DEF Running, PoolAt
      <3>3. permits' + Len(tasks') + Cardinality(Running') = TotalCap + extra'
        BY <1>2, <1>a, <1>t, <2>3, <3>1, <3>2, RunningFinite
      <3>4. QED
        BY <3>3 DEF PermitsExact, Running, PoolAt
    <2>7. TasksWait'
      <3>1. \A u \in Threads : At(u, "wait") => job'[u].pc = "wait"
        BY <1>a, <1>j DEF At
      <3>2. \A i \in DOMAIN tasks' : tasks'[i] \in Threads => i \in DOMAIN tasks /\ tasks'[i] = tasks[i]
        BY <2>2, <2>4
      <3>3. \A p \in Pool : Busied(p) => \A i \in DOMAIN tasks' : tasks'[i] # pool[p].task
        BY <2>2, <2>4, <1>t DEF TasksWait, Busied
      <3>4. QED
        BY <3>1, <3>2, <3>3, <1>a, <1>t DEF TasksWait, At, Busied
    <2>8. StraysExcused'
      <3>1. Submitted' \subseteq Submitted \cup {r}
        BY <2>4, <1>a DEF Submitted
      <3>2. EventOf[r] \in excused'
        BY <1>2, <2>1 DEF Event
      <3>3. QED
        BY <3>1, <3>2, <1>2, <1>t DEF StraysExcused, Excused
    <2>9. QED
      BY <1>j, <2>5, <2>6, <2>7, <2>8
  <1>3. QED
    BY <1>1, <1>2, <1>j DEF SubmitFails

\* Start, Probe and Primary: a queued task runs, and goes on.
LEMMA RunPool ==
    ASSUME PoolInv, NEW p \in Pool, Start(p) \/ Probe(p) \/ Primary(p)
    PROVE  PoolOK' /\ TasksWait' /\ StraysExcused' /\ PermitsExact'
  <1>t. PoolOK /\ TasksWait /\ tasks \in Seq(Tasks) /\ permits \in Nat /\ extra \in Nat
    BY DEF PoolInv, StateOK, PoolOK
  <1>u. UNCHANGED <<job, permits, extra, excused>>
    BY DEF Start, Probe, Primary
  <1>e. permits + Len(tasks) + Cardinality(Running) = TotalCap + extra /\ Len(tasks) \in Nat
    BY <1>t, PermitsRead DEF PoolInv
  <1>1. CASE Start(p)
    <2>1. pool[p] = Idle /\ tasks # <<>> /\ tasks' = Tail(tasks)
      BY <1>1, <1>t, PoolBusy DEF Start
    <2>2. /\ Head(tasks) \in Tasks /\ Head(tasks) = tasks[1] /\ 1 \in DOMAIN tasks
          /\ tasks' \in Seq(Tasks) /\ Len(tasks') = Len(tasks) - 1
          /\ DOMAIN tasks' = 1 .. (Len(tasks) - 1) /\ DOMAIN tasks = 1 .. Len(tasks)
          /\ \A i \in DOMAIN tasks' : tasks'[i] = tasks[i + 1] /\ i + 1 \in DOMAIN tasks
      BY <2>1, <1>t
    <2>3. PICK k : Run(p, k) /\ k \in TaskType /\ k # Idle /\ k.task = tasks[1]
      <3> DEFINE K(l, v) == [pc |-> l, task |-> Head(tasks), verdict |-> v]
      <3>1. Run(p, K("primary", "none")) \/ Run(p, K("probe", "none")) \/ Run(p, K("answered", "stub"))
        BY <1>1 DEF Start
      <3>2. \A l \in {"primary", "probe", "answered"}, v \in Verdicts :
               K(l, v) \in TaskType /\ K(l, v) # Idle /\ K(l, v).task = tasks[1]
        BY <2>2 DEF TaskType, Idle
      <3> HIDE DEF K
      <3>3. QED
        BY <3>1, <3>2 DEF Verdicts
    <2>4. /\ pool' \in [Pool -> TaskType \cup {Idle}] /\ pool'[p] = k
          /\ \A q \in Pool \ {p} : pool'[q] = pool[q]
          /\ Cardinality(Running') = Cardinality(Running) + 1
      BY <1>t, <2>1, <2>3, RunCounts
    <2>5. PoolOK'
      BY <1>t, <1>u, <2>2, <2>4 DEF PoolOK
    <2>6. PermitsExact'
      <3>1. permits' + Len(tasks') + Cardinality(Running') = TotalCap + extra
        BY <1>e, <1>t, <1>u, <2>2, <2>4, RunningFinite
      <3>2. QED
        BY <3>1, <1>u DEF PermitsExact, Running, PoolAt
    <2>7. TasksWait'
      <3>1. \A i \in DOMAIN tasks' : tasks'[i] \in Threads => job'[tasks'[i]].pc = "wait"
        BY <2>2, <1>u, <1>t DEF TasksWait, At
      <3>2. \A i, n \in DOMAIN tasks' : tasks'[i] \in Threads /\ tasks'[i] = tasks'[n] => i = n
        <4>1. \A i, n \in DOMAIN tasks' : i \in Nat /\ n \in Nat
          BY <2>2
        <4>2. \A i, n \in DOMAIN tasks' : tasks'[i] \in Threads /\ tasks'[i] = tasks'[n] => i + 1 = n + 1
          BY <2>2, <1>t DEF TasksWait
        <4>3. QED
          BY <4>1, <4>2
      <3>3. tasks[1] \in Threads => \A i \in DOMAIN tasks' : tasks'[i] # tasks[1]
        <4>1. \A i \in DOMAIN tasks' : i + 1 # 1
          BY <2>2
        <4>2. QED
          BY <4>1, <2>2, <1>t DEF TasksWait
      <3>4. ASSUME NEW q \in Pool, pool'[q] # Idle, pool'[q].task \in Threads
            PROVE  /\ job'[pool'[q].task].pc = "wait"
                   /\ \A i \in DOMAIN tasks' : tasks'[i] # pool'[q].task
                   /\ \A r \in Pool : pool'[r] # Idle /\ pool'[r].task \in Threads /\ pool'[r].task = pool'[q].task
                         => q = r
        <4>1. CASE q = p
          <5>1. pool'[q].task = tasks[1]
            BY <4>1, <2>3, <2>4
          <5>2. job'[pool'[q].task].pc = "wait"
            BY <5>1, <3>4, <2>2, <1>u, <1>t DEF TasksWait, At
          <5>3. \A r \in Pool \ {p} : pool'[r] # Idle /\ pool'[r].task \in Threads => pool'[r].task # tasks[1]
            BY <2>2, <2>4, <1>t DEF TasksWait, Busied
          <5>4. QED
            BY <4>1, <5>1, <5>2, <5>3, <3>3, <3>4
        <4>2. CASE q # p
          <5>1. pool'[q] = pool[q] /\ Busied(q)
            BY <3>4, <4>2, <2>4 DEF Busied
          <5>2. job'[pool'[q].task].pc = "wait"
            BY <5>1, <1>u, <1>t DEF TasksWait, At
          <5>3. \A i \in DOMAIN tasks' : tasks'[i] # pool'[q].task
            BY <5>1, <2>2, <1>t DEF TasksWait
          <5>4. \A r \in Pool : pool'[r] # Idle /\ pool'[r].task \in Threads /\ pool'[r].task = pool'[q].task => q = r
            BY <5>1, <2>2, <2>3, <2>4, <1>t DEF TasksWait, Busied
          <5>5. QED
            BY <5>2, <5>3, <5>4
        <4>3. QED
          BY <4>1, <4>2
      <3>5. QED
        BY <3>1, <3>2, <3>4 DEF TasksWait, At, Busied
    <2>a. StraysExcused'
      <3>1. {tasks'[i] : i \in DOMAIN tasks'} \subseteq {tasks[i] : i \in DOMAIN tasks}
        BY <2>2
      <3>2. \A q \in Pool : pool'[q] # Idle => pool'[q].task = tasks[1] \/ (pool[q] # Idle /\ pool'[q].task = pool[q].task)
        <4> SUFFICES ASSUME NEW q \in Pool, pool'[q] # Idle
                     PROVE  pool'[q].task = tasks[1] \/ (pool[q] # Idle /\ pool'[q].task = pool[q].task)
          OBVIOUS
        <4>1. CASE q = p
          <5>1. pool'[q] = k
            BY <4>1, <2>4
          <5>2. QED
            BY <5>1, <2>3
        <4>2. CASE q # p
          <5>1. pool'[q] = pool[q]
            BY <4>2, <2>4
          <5>2. QED
            BY <5>1
        <4>3. QED
          BY <4>1, <4>2
      <3>3. Submitted' \subseteq Submitted
        BY <3>1, <3>2, <2>2 DEF Submitted
      <3>4. QED
        BY <3>3, <1>u, StraysKept DEF PoolInv
    <2>8. QED
      BY <2>5, <2>6, <2>7, <2>a
  <1>2. CASE Probe(p) \/ Primary(p)
    <2>1. pool[p] # Idle /\ UNCHANGED tasks
      BY <1>2 DEF Probe, Primary, PoolAt, Idle
    <2>2. pool[p] \in TaskType
      BY <1>t, <2>1, PoolBusy
    <2>3. PICK k : Run(p, k) /\ k \in TaskType /\ k # Idle /\ k.task = pool[p].task
      <3> DEFINE K(l, v) == [pool[p] EXCEPT !.pc = l, !.verdict = v]
                 P == [pool[p] EXCEPT !.pc = "primary"]
      <3>1. Run(p, K("answered", "ollama")) \/ Run(p, K("answered", "stub")) \/ Run(p, P)
        BY <1>2 DEF Probe, Primary
      <3>2. \A v \in Verdicts :
               K("answered", v) \in TaskType /\ K("answered", v) # Idle /\ K("answered", v).task = pool[p].task
        BY <2>2 DEF TaskType, Idle
      <3>3. P \in TaskType /\ P # Idle /\ P.task = pool[p].task
        BY <2>2 DEF TaskType, Idle
      <3> HIDE DEF K, P
      <3>4. QED
        BY <3>1, <3>2, <3>3 DEF Verdicts
    <2>4. /\ pool' \in [Pool -> TaskType \cup {Idle}] /\ pool'[p] = k
          /\ \A q \in Pool \ {p} : pool'[q] = pool[q]
          /\ Cardinality(Running') = Cardinality(Running)
      BY <1>t, <2>1, <2>3, RunCounts
    <2>5. PoolOK'
      BY <1>t, <1>u, <2>1, <2>4 DEF PoolOK
    <2>6. PermitsExact'
      <3>1. permits' + Len(tasks') + Cardinality(Running') = TotalCap + extra
        BY <1>e, <1>u, <2>1, <2>4
      <3>2. QED
        BY <3>1, <1>u DEF PermitsExact, Running, PoolAt
    <2>7. \A q \in Pool : /\ pool'[q] # Idle <=> pool[q] # Idle
                          /\ pool[q] # Idle => pool'[q].task = pool[q].task
      BY <2>1, <2>3, <2>4
    <2>8. TasksWait'
      <3>1. \A q \in Pool : Busied(q)' <=> Busied(q)
        BY <2>7 DEF Busied
      <3>2. QED
        BY <3>1, <2>7, <2>1, <1>u, <1>t DEF TasksWait, At, Busied
    <2>9. StraysExcused'
      <3>1. Submitted' = Submitted
        BY <2>7, <2>1 DEF Submitted
      <3>2. QED
        BY <3>1, <1>u, StraysKept DEF PoolInv
    <2>10. QED
      BY <2>5, <2>6, <2>8, <2>9
  <1>3. QED
    BY <1>1, <1>2

\* A task that ends, with a verdict or not, gives its permit back.
LEMMA EndPool ==
    ASSUME PoolInv, NEW p \in Pool, PoolAt(p, "answered"), permits' = permits + 1, Run(p, Idle), UNCHANGED <<tasks, extra>>,
           excused \subseteq excused',
           \A u \in Threads \ {pool[p].task} : job'[u] = job[u]
    PROVE  PoolOK' /\ TasksWait' /\ StraysExcused' /\ PermitsExact'
  <1>t. PoolOK /\ TasksWait /\ tasks \in Seq(Tasks) /\ permits \in Nat /\ extra \in Nat
    BY DEF PoolInv, StateOK, PoolOK
  <1>i. pool[p] # Idle
    BY DEF PoolAt, Idle
  <1>1. /\ pool' \in [Pool -> TaskType \cup {Idle}] /\ pool'[p] = Idle
        /\ \A q \in Pool \ {p} : pool'[q] = pool[q]
        /\ Cardinality(Running') = Cardinality(Running) - 1
    BY <1>t, <1>i, RunCounts
  <1>2. PoolOK'
    BY <1>t, <1>1 DEF PoolOK
  <1>3. PermitsExact'
    <2>1. permits + Len(tasks) + Cardinality(Running) = TotalCap + extra /\ Len(tasks) \in Nat
      BY <1>t, PermitsRead DEF PoolInv
    <2>2. permits' + Len(tasks') + Cardinality(Running') = TotalCap + extra
      BY <2>1, <1>t, <1>1, RunningFinite
    <2>3. QED
      BY <2>2 DEF PermitsExact, Running, PoolAt
  <1>4. \A i \in DOMAIN tasks : tasks[i] \in Threads => tasks[i] # pool[p].task
    BY <1>t, <1>i DEF TasksWait, Busied
  <1>5. \A q \in Pool : pool'[q] # Idle /\ pool'[q].task \in Threads
           => pool'[q] = pool[q] /\ Busied(q) /\ pool[q].task # pool[p].task
    BY <1>t, <1>i, <1>1 DEF TasksWait, Busied
  <1>6. TasksWait'
    <2>1. \A i \in DOMAIN tasks : tasks[i] \in Threads => job'[tasks[i]].pc = "wait"
      BY <1>4, <1>t DEF TasksWait, At
    <2>2. \A q \in Pool : pool'[q] # Idle /\ pool'[q].task \in Threads => job'[pool'[q].task].pc = "wait"
      BY <1>5, <1>t DEF TasksWait, At, Busied
    <2>3. QED
      BY <2>1, <2>2, <1>5, <1>t DEF TasksWait, At, Busied
  <1>7. StraysExcused'
    <2>1. Submitted' \subseteq Submitted
      BY <1>1 DEF Submitted
    <2>2. QED
      BY <2>1, StraysKept DEF PoolInv
  <1>8. QED
    BY <1>2, <1>3, <1>6, <1>7

-----------------------------------------------------------------------------
(* One verdict.  What thread t may do with job j while the event of j has  *)
(* not fallen out of the bounded maps: it uses the event's one lock, is    *)
(* alone between acquire() and release(), reaches the pool only if nothing *)
(* is cached, and leaves with the verdict that is.  The classifier tier    *)
(* takes no lock.                                                          *)

Inside == {"cached", "admit", "wait", "unlock", "raise"}

On(j, e) == j # Idle /\ EventOf[j.req] = e /\ j.req \notin Light

CachedVerdicts(e) == {cache[i].verdict : i \in Cached(e)}

GoodOn(t, j, e) ==
    /\ j.pc \in Inside \cup {"lock"} => j.lock = lockOf[e] /\ lockOf[e] # NoLock
    /\ j.pc \in Inside => \A u \in Threads \ {t} : ~(On(job[u], e) /\ job[u].pc \in Inside)
    /\ j.pc \in {"admit", "wait"} => CachedVerdicts(e) = {}
    /\ j.pc \in {"unlock", "publish", "alert"} => j.verdict \in CachedVerdicts(e)

JobGood(t, j) ==
    /\ j.pc \in Inside \cup {"lock"} => j.req \notin Light
    /\ \A e \in Events \ excused : On(j, e) => GoodOn(t, j, e)

\* The history agrees with the cache.
CallsCached ==
    \A e \in Events \ excused :
        /\ calls[e] = IF CachedVerdicts(e) = {} THEN 0 ELSE 1
        /\ \A v, w \in CachedVerdicts(e) : v = w
        /\ published[e] \subseteq CachedVerdicts(e)

VerdictInv ==
    /\ \A t \in Threads : JobGood(t, job[t])
    /\ CallsCached

AiInv == PoolInv /\ VerdictInv

\* A job that is good, in a step of its thread alone, leaves every job good.
LEMMA KeepGood ==
    ASSUME VerdictInv, NEW t \in Threads, UNCHANGED <<lockOf, cache>>, excused \subseteq excused',
           \A u \in Threads \ {t} : job'[u] = job[u], JobGood(t, job'[t])
    PROVE  \A u \in Threads : JobGood(u, job[u])'
  <1>1. \A e : CachedVerdicts(e)' = CachedVerdicts(e)
    BY DEF CachedVerdicts, Cached
  <1>2. \A u \in Threads \ {t} : JobGood(u, job[u])
    BY DEF VerdictInv
  <1>3. \A u \in Threads : job'[u].pc \in Inside \cup {"lock"} => job'[u].req \notin Light
    BY <1>2 DEF JobGood
  <1>4. ASSUME NEW u \in Threads, NEW e \in Events \ excused, On(job'[u], e)
        PROVE  /\ job'[u].pc \in Inside \cup {"lock"} => job'[u].lock = lockOf[e] /\ lockOf[e] # NoLock
               /\ job'[u].pc \in Inside
                     => \A w \in Threads \ {u} : ~(On(job'[w], e) /\ job'[w].pc \in Inside)
               /\ job'[u].pc \in {"admit", "wait"} => CachedVerdicts(e) = {}
               /\ job'[u].pc \in {"unlock", "publish", "alert"} => job'[u].verdict \in CachedVerdicts(e)
    <2>1. CASE u = t
      BY <1>4, <2>1 DEF JobGood, GoodOn
    <2>2. CASE u # t
      <3>1. job'[u] = job[u] /\ GoodOn(u, job[u], e)
        BY <2>2, <1>4, <1>2 DEF JobGood
      <3>2. job'[t].pc \in Inside /\ On(job'[t], e) => ~(On(job[u], e) /\ job[u].pc \in Inside)
        BY <2>2 DEF JobGood, GoodOn
      <3>3. job'[u].pc \in Inside
               => \A w \in Threads \ {u} : ~(On(job'[w], e) /\ job'[w].pc \in Inside)
        BY <1>4, <3>1, <3>2 DEF GoodOn, On
      <3>4. QED
        BY <3>1, <3>3 DEF GoodOn
    <2>3. QED
      BY <2>1, <2>2
  <1>5. QED
    BY <1>1, <1>3, <1>4 DEF JobGood, GoodOn, On

\* Only _TriageCache.put and the handler's produce concern the cached verdicts.
LEMMA KeepCalls ==
    ASSUME VerdictInv, UNCHANGED <<cache, calls, published>>, excused \subseteq excused'
    PROVE  CallsCached'
  <1>1. \A e : CachedVerdicts(e)' = CachedVerdicts(e)
    BY DEF CachedVerdicts, Cached
  <1>2. CallsCached
    BY DEF VerdictInv
  <1>3. QED
    BY <1>1, <1>2 DEF CallsCached

\* There is always a number for a new lock: an event without one and an idle thread
\* leave the others too few.
LEMMA NewLockExists ==
    ASSUME JobsOK, MemoryOK, NEW t \in Threads, At(t, "idle"), NEW e \in Events, lockOf[e] = NoLock
    PROVE  NewLock \in Nat /\ NewLock # NoLock
  <1> DEFINE n == Cardinality(Events) + Cardinality(Threads)
             A == {lockOf[x] : x \in Events}
             g == [u \in Threads \ {t} |-> job[u].lock]
             B == {g[u] : u \in Threads \ {t}}
  <1>1. IsFiniteSet(Events)
    <2> DEFINE ev == [r \in Requests |-> EventOf[r]]
               All == {EventOf[r] : r \in Requests}
    <2>1. ev \in Surjection(Requests, All)
      BY DEF Surjection
    <2>2. IsFiniteSet(All)
      BY <2>1, FS_Surjection, AiTriageAssumption
    <2>3. Events \in SUBSET All
      BY DEF Events
    <2>4. QED
      BY <2>2, <2>3, FS_Subset
  <1>2. IsFiniteSet(Threads \ {t}) /\ Cardinality(Threads \ {t}) = Cardinality(Threads) - 1
        /\ Cardinality(Threads) \in Nat /\ Cardinality(Events) \in Nat
    BY <1>1, FS_RemoveElement, FS_CardinalityType, AiTriageAssumption
  <1>3. IsFiniteSet(A) /\ Cardinality(A) <= Cardinality(Events)
    <2>1. lockOf \in Surjection(Events, A)
      BY DEF Surjection, MemoryOK
    <2>2. QED
      BY <1>1, <2>1, FS_Surjection
  <1>4. IsFiniteSet(B) /\ Cardinality(B) <= Cardinality(Threads) - 1
    <2>1. g \in Surjection(Threads \ {t}, B)
      BY DEF Surjection
    <2> HIDE DEF g, B
    <2>2. QED
      BY <1>2, <2>1, FS_Surjection
  <1>5. IsFiniteSet(A \cup B) /\ Cardinality(A \cup B) <= n - 1
    <2>1. /\ IsFiniteSet(A \cup B)
          /\ Cardinality(A \cup B) = Cardinality(A) + Cardinality(B) - Cardinality(A \cap B)
      BY <1>3, <1>4, FS_Union
    <2>2. IsFiniteSet(A \cap B)
      BY <1>3, FS_Intersection
    <2>3. Cardinality(A \cap B) \in Nat /\ Cardinality(A) \in Nat /\ Cardinality(B) \in Nat
      BY <1>3, <1>4, <2>2, FS_CardinalityType
    <2> HIDE DEF A, B
    <2>4. QED
      BY <1>2, <1>3, <1>4, <2>1, <2>3
  <1>6. \E k \in 1 .. n : ~InUse(k)
    <2> SUFFICES ASSUME \A k \in 1 .. n : InUse(k) PROVE FALSE
      OBVIOUS
    <2>1. 1 .. n \in SUBSET (A \cup B)
      <3> SUFFICES ASSUME NEW k \in 1 .. n PROVE k \in A \cup B
        OBVIOUS
      <3>1. (\E x \in Events : lockOf[x] = k) \/ (\E u \in Threads : ~At(u, "idle") /\ job[u].lock = k)
        BY DEF InUse
      <3>2. QED
        BY <3>1
    <2>2. n \in Nat /\ IsFiniteSet(1 .. n) /\ Cardinality(1 .. n) = n
      <3>1. n \in Nat
        BY <1>2
      <3> HIDE DEF n
      <3>2. IsFiniteSet(1 .. n) /\ Cardinality(1 .. n) = IF 1 > n THEN 0 ELSE n - 1 + 1
        BY <3>1, FS_Interval
      <3>3. QED
        BY <3>1, <3>2
    <2> HIDE DEF n, A, B
    <2>3. n <= Cardinality(A \cup B)
      BY <1>5, <2>1, <2>2, FS_Subset
    <2>4. Cardinality(A \cup B) \in Nat
      BY <1>5, FS_CardinalityType
    <2>5. QED
      BY <1>5, <2>2, <2>3, <2>4
  <1>7. NewLock \in 1 .. n
    BY <1>6 DEF NewLock
  <1>8. QED
    BY <1>7, <1>2 DEF NoLock

-----------------------------------------------------------------------------
(* The cache.                                                              *)

\* _TriageCache.put keeps the one verdict of the new event, and those of the events
\* that do not fall out.
LEMMA CachePut ==
    ASSUME cache \in Seq(EntryType), NEW e \in Events, NEW v \in Verdicts, Cached(e) = {},
           cache' = Append(IF Len(cache) >= SeenCap THEN Tail(cache) ELSE cache, [event |-> e, verdict |-> v]),
           excused' = IF Len(cache) >= SeenCap THEN excused \cup {Head(cache).event} ELSE excused
    PROVE  /\ cache' \in Seq(EntryType)
           /\ \A x \in Events \ excused' : CachedVerdicts(x)' = IF x = e THEN {v} ELSE CachedVerdicts(x)
  <1> DEFINE kept == IF Len(cache) >= SeenCap THEN Tail(cache) ELSE cache
             new == [event |-> e, verdict |-> v]
  <1>1. new \in EntryType /\ new.event = e /\ new.verdict = v
    BY DEF EntryType
  <1>2. Len(cache) \in Nat /\ SeenCap \in Nat \ {0}
    BY AiTriageAssumption
  <1>3. /\ kept \in Seq(EntryType)
        /\ \A i \in 1 .. Len(kept) : \E k \in 1 .. Len(cache) : kept[i] = cache[k]
        /\ \A k \in 1 .. Len(cache) :
              (\E i \in 1 .. Len(kept) : kept[i] = cache[k]) \/ (Len(cache) >= SeenCap /\ cache[k] = Head(cache))
    <2>1. CASE Len(cache) >= SeenCap
      <3>1. kept = Tail(cache) /\ cache # <<>>
        BY <1>2, <2>1
      <3> HIDE DEF kept
      <3>2. /\ kept \in Seq(EntryType) /\ Len(kept) = Len(cache) - 1 /\ Head(cache) = cache[1]
            /\ \A i \in 1 .. Len(kept) : kept[i] = cache[i + 1]
        BY <3>1
      <3>3. \A i \in 1 .. Len(kept) : i + 1 \in 1 .. Len(cache)
        BY <3>2, <1>2
      <3>4. \A k \in 1 .. Len(cache) : k = 1 \/ (k - 1 \in 1 .. Len(kept) /\ (k - 1) + 1 = k)
        BY <3>2, <1>2
      <3>5. \A k \in 1 .. Len(cache) : k = 1 \/ \E i \in 1 .. Len(kept) : kept[i] = cache[k]
        BY <3>4, <3>2
      <3>6. QED
        BY <2>1, <3>2, <3>3, <3>5
    <2>2. CASE ~(Len(cache) >= SeenCap)
      BY <2>2
    <2>3. QED
      BY <2>1, <2>2
  <1>4. cache' = Append(kept, new)
    OBVIOUS
  <1> HIDE DEF kept, new
  <1>5. /\ cache' \in Seq(EntryType) /\ DOMAIN cache' = 1 .. (Len(kept) + 1) /\ Len(kept) \in Nat
        /\ \A i \in 1 .. Len(kept) : cache'[i] = kept[i]
        /\ cache'[Len(kept) + 1] = new
    <2>1. /\ Append(kept, new) \in Seq(EntryType) /\ DOMAIN Append(kept, new) = 1 .. (Len(kept) + 1) /\ Len(kept) \in Nat
          /\ \A i \in 1 .. Len(kept) : Append(kept, new)[i] = kept[i]
          /\ Append(kept, new)[Len(kept) + 1] = new
      BY <1>1, <1>3
    <2>2. QED
      BY <2>1, <1>4
  <1>6. DOMAIN cache = 1 .. Len(cache)
    OBVIOUS
  <1>7. \A x, w : w \in CachedVerdicts(x) <=> \E k \in 1 .. Len(cache) : cache[k].event = x /\ cache[k].verdict = w
    BY <1>6 DEF CachedVerdicts, Cached
  <1>8. 1 .. (Len(kept) + 1) = (1 .. Len(kept)) \cup {Len(kept) + 1}
    BY <1>5
  <1>9. \A x, w : w \in CachedVerdicts(x)'
            <=> (x = e /\ w = v) \/ \E i \in 1 .. Len(kept) : kept[i].event = x /\ kept[i].verdict = w
    <2> DEFINE D == 1 .. Len(kept)
               last == Len(kept) + 1
    <2>1. /\ cache'[last] = new /\ \A i \in D : cache'[i] = kept[i]
          /\ DOMAIN cache' = D \cup {last}
      BY <1>5, <1>8
    <2> HIDE DEF D, last
    <2>2. \A x, w : w \in CachedVerdicts(x)'
            <=> (new.event = x /\ new.verdict = w) \/ \E i \in D : kept[i].event = x /\ kept[i].verdict = w
      <3> TAKE x, w
      <3>1. w \in CachedVerdicts(x)' <=> \E i \in D \cup {last} : cache'[i].event = x /\ cache'[i].verdict = w
        BY <2>1 DEF CachedVerdicts, Cached
      <3>2. (\E i \in D \cup {last} : cache'[i].event = x /\ cache'[i].verdict = w)
            <=> (cache'[last].event = x /\ cache'[last].verdict = w)
                \/ \E i \in D : cache'[i].event = x /\ cache'[i].verdict = w
        OBVIOUS
      <3>3. (\E i \in D : cache'[i].event = x /\ cache'[i].verdict = w)
            <=> \E i \in D : kept[i].event = x /\ kept[i].verdict = w
        BY <2>1
      <3>4. QED
        BY <2>1, <3>1, <3>2, <3>3
    <2>3. QED
      BY <2>2, <1>1 DEF D
  <1>11. \A k \in 1 .. Len(cache) : cache[k].event # e
    BY <1>6 DEF Cached
  <1>12. ASSUME NEW x \in Events \ excused'
         PROVE  CachedVerdicts(x)' = IF x = e THEN {v} ELSE CachedVerdicts(x)
    <2>1. \A k \in 1 .. Len(cache) : cache[k].event = x => \E i \in 1 .. Len(kept) : kept[i] = cache[k]
      BY <1>3, <1>12
    <2>2. CASE x = e
      <3>1. \A i \in 1 .. Len(kept) : kept[i].event # e
        BY <1>3, <1>11
      <3>2. \A w : w \in CachedVerdicts(x)' <=> w = v
        BY <2>2, <3>1, <1>9
      <3>3. QED
        BY <2>2, <3>2
    <2>3. CASE x # e
      <3>1. \A w : w \in CachedVerdicts(x)' <=> \E i \in 1 .. Len(kept) : kept[i].event = x /\ kept[i].verdict = w
        BY <2>3, <1>9
      <3>2. \A w : w \in CachedVerdicts(x)' <=> w \in CachedVerdicts(x)
        <4> TAKE w
        <4>1. ASSUME w \in CachedVerdicts(x)' PROVE w \in CachedVerdicts(x)
          <5>1. PICK i \in 1 .. Len(kept) : kept[i].event = x /\ kept[i].verdict = w
            BY <3>1, <4>1
          <5>2. PICK k \in 1 .. Len(cache) : cache[k] = kept[i]
            BY <1>3
          <5>3. QED
            BY <1>7, <5>1, <5>2
        <4>2. ASSUME w \in CachedVerdicts(x) PROVE w \in CachedVerdicts(x)'
          <5>1. PICK k \in 1 .. Len(cache) : cache[k].event = x /\ cache[k].verdict = w
            BY <1>7, <4>2
          <5>2. PICK i \in 1 .. Len(kept) : kept[i] = cache[k]
            BY <2>1, <5>1
          <5>3. QED
            BY <3>1, <5>1, <5>2
        <4>3. QED
          BY <4>1, <4>2
      <3>3. QED
        BY <2>3, <3>2
    <2>4. QED
      BY <2>2, <2>3
  <1>13. QED
    BY <1>5, <1>12

-----------------------------------------------------------------------------
(* The steps of handle().                                                  *)

\* A step of thread t that leaves the pool, the cache and the locks alone.
LEMMA JobStep ==
    ASSUME AiInv, NEW t \in Threads, ~At(t, "wait"), JobsOK', todo' \subseteq Requests,
           \A u \in Threads \ {t} : job'[u] = job[u], JobGood(t, job'[t]),
           UNCHANGED <<poolVars, lockOf, cache, excused, calls, published>>
    PROVE  AiInv'
  <1>1. PoolOK' /\ TasksWait' /\ StraysExcused' /\ PermitsExact'
    BY TasksUntouched DEF AiInv
  <1>2. MemoryOK'
    BY DEF AiInv, PoolInv, StateOK, MemoryOK
  <1>3. CallsCached'
    BY KeepCalls DEF AiInv
  <1>4. \A u \in Threads : JobGood(u, job[u])'
    BY KeepGood DEF AiInv
  <1>5. QED
    BY <1>1, <1>2, <1>3, <1>4 DEF AiInv, PoolInv, StateOK, VerdictInv

\* An idle thread's job is good whatever happens.
LEMMA IdleGood ==
    ASSUME NEW t \in Threads
    PROVE  JobGood(t, Idle)
  BY DEF JobGood, On, Inside, Idle

\* A request of the classifier tier, or one without an id, is none of the lock's business.
LEMMA UnkeyedGood ==
    ASSUME NEW t \in Threads, NEW j \in JobType, j.req \in Light \/ EventOf[j.req] = NoId,
           j.req \in Light => j.pc \notin Inside \cup {"lock"}
    PROVE  JobGood(t, j)
  <1>1. \A e \in Events : ~On(j, e)
    BY DEF On, Events
  <1>2. QED
    BY <1>1 DEF JobGood

LEMMA TakeUnkeyedStep ==
    ASSUME AiInv, NEW t \in Threads, NEW r \in Requests, TakeUnkeyed(t, r)
    PROVE  AiInv'
  <1> DEFINE l == IF r \in Light THEN "publish" ELSE "admit"
             j == [pc |-> l, req |-> r, lock |-> NoLock, verdict |-> "none"]
  <1>t. JobsOK /\ MemoryOK
    BY DEF AiInv, PoolInv, StateOK
  <1>1. j \in JobType /\ j.req = r /\ j.pc = l
    BY DEF JobType, Labels, Verdicts, NoLock
  <1>2. JobGood(t, j)
    <2>1. r \in Light \/ EventOf[r] = NoId
      BY DEF TakeUnkeyed
    <2>2. r \in Light => j.pc \notin Inside \cup {"lock"}
      BY DEF Inside
    <2> HIDE DEF j, l
    <2>3. QED
      BY <1>1, <2>1, <2>2, UnkeyedGood
  <1>3. Set(t, j) /\ todo' = todo \ {r} /\ ~At(t, "wait")
        /\ UNCHANGED <<poolVars, lockOf, cache, excused, calls, published>>
    BY DEF TakeUnkeyed, dedupVars, outVars, At
  <1> HIDE DEF j, l
  <1>4. JobsOK' /\ job'[t] = j /\ \A u \in Threads \ {t} : job'[u] = job[u]
    BY <1>t, <1>1, <1>3, SetMoves
  <1>5. todo' \subseteq Requests
    BY <1>t, <1>3 DEF MemoryOK
  <1>6. QED
    BY <1>2, <1>3, <1>4, <1>5, JobStep

\* acquire(): nobody else has the lock, and it is the one lock of its event.
LEMMA LockStep ==
    ASSUME AiInv, NEW t \in Threads, Lock(t)
    PROVE  AiInv'
  <1>t. JobsOK /\ MemoryOK /\ \A u \in Threads : JobGood(u, job[u])
    BY DEF AiInv, PoolInv, StateOK, VerdictInv
  <1>1. /\ At(t, "lock") /\ ~At(t, "idle") /\ ~At(t, "wait") /\ Goto(t, "cached")
        /\ \A u \in Threads : ~Holds(u, job[t].lock)
        /\ UNCHANGED <<todo, poolVars, lockOf, cache, excused, calls, published>>
    BY DEF Lock, dedupVars, outVars, At
  <1>2. /\ JobsOK' /\ \A u \in Threads \ {t} : job'[u] = job[u]
        /\ job'[t] \in JobType /\ job'[t].pc = "cached"
        /\ job'[t].req = job[t].req /\ job'[t].lock = job[t].lock
    BY <1>t, <1>1, GotoMoves DEF Labels
  <1>3. JobGood(t, job'[t])
    <2>1. job[t].pc = "lock" /\ job[t].req \notin Light /\ job[t] # Idle
      BY <1>1, <1>t DEF At, JobGood, Idle
    <2>2. ASSUME NEW e \in Events \ excused, On(job'[t], e)
          PROVE  GoodOn(t, job'[t], e)
      <3>1. On(job[t], e)
        BY <2>1, <2>2, <1>2 DEF On
      <3>2. job[t].lock = lockOf[e] /\ lockOf[e] # NoLock
        BY <3>1, <2>1, <1>t DEF JobGood, GoodOn
      <3>3. ASSUME NEW u \in Threads, On(job[u], e), job[u].pc \in Inside
            PROVE  FALSE
        <4>1. job[u].lock = lockOf[e]
          BY <3>3, <1>t DEF JobGood, GoodOn
        <4>2. Holds(u, job[t].lock)
          BY <4>1, <3>2, <3>3 DEF Holds, Inside
        <4>3. QED
          BY <4>2, <1>1
      <3>4. QED
        BY <3>2, <3>3, <1>2 DEF GoodOn
    <2>3. QED
      BY <2>1, <2>2, <1>2 DEF JobGood
  <1>4. todo' \subseteq Requests
    BY <1>t, <1>1 DEF MemoryOK
  <1>5. QED
    BY <1>1, <1>2, <1>3, <1>4, JobStep

\* The cache answers, or the thread goes on to the pool.
LEMMA LookupStep ==
    ASSUME AiInv, NEW t \in Threads, Lookup(t)
    PROVE  AiInv'
  <1>t. JobsOK /\ MemoryOK /\ JobGood(t, job[t])
    BY DEF AiInv, PoolInv, StateOK, VerdictInv
  <1>1. /\ At(t, "cached") /\ ~At(t, "idle") /\ ~At(t, "wait")
        /\ UNCHANGED <<todo, poolVars, lockOf, cache, excused, calls, published>>
    BY DEF Lookup, dedupVars, outVars, At
  <1>2. job[t].pc = "cached" /\ job[t].req \notin Light /\ job[t] # Idle
    BY <1>1, <1>t DEF At, JobGood, Inside, Idle
  <1>3. todo' \subseteq Requests
    BY <1>t, <1>1 DEF MemoryOK
  <1>4. CASE Cached(Event(t)) = {} /\ Goto(t, "admit")
    <2>1. /\ JobsOK' /\ \A u \in Threads \ {t} : job'[u] = job[u]
          /\ job'[t] \in JobType /\ job'[t].pc = "admit"
          /\ job'[t].req = job[t].req /\ job'[t].lock = job[t].lock
      BY <1>t, <1>1, <1>4, GotoMoves DEF Labels
    <2>2. ASSUME NEW e \in Events \ excused, On(job'[t], e)
          PROVE  GoodOn(t, job'[t], e)
      <3>1. On(job[t], e) /\ e = Event(t)
        BY <2>1, <2>2, <1>2 DEF On, Event
      <3>2. GoodOn(t, job[t], e)
        BY <3>1, <1>t DEF JobGood
      <3>3. CachedVerdicts(e) = {}
        BY <3>1, <1>4 DEF CachedVerdicts
      <3>4. QED
        BY <3>2, <3>3, <2>1, <1>2 DEF GoodOn, Inside
    <2>3. JobGood(t, job'[t])
      BY <2>1, <2>2, <1>2 DEF JobGood
    <2>4. QED
      BY <1>1, <1>3, <2>1, <2>3, JobStep
  <1>5. ASSUME NEW i \in Cached(Event(t)),
               Set(t, [job[t] EXCEPT !.pc = "publish", !.lock = NoLock, !.verdict = cache[i].verdict])
        PROVE  AiInv'
    <2> DEFINE v == cache[i].verdict
               j == [job[t] EXCEPT !.pc = "publish", !.lock = NoLock, !.verdict = v]
    <2>1. v \in Verdicts
      <3>1. cache[i] \in EntryType
        BY <1>t DEF MemoryOK, Cached
      <3>2. QED
        BY <3>1 DEF EntryType
    <2> HIDE DEF v
    <2>2. j \in JobType /\ j.pc = "publish" /\ j.req = job[t].req /\ j.verdict = v
      <3>1. job[t] \in JobType
        BY <1>t, <1>1, Busy
      <3>2. QED
        BY <2>1, <3>1 DEF JobType, Labels, NoLock
    <2> HIDE DEF j
    <2>3. JobsOK' /\ job'[t] = j /\ \A u \in Threads \ {t} : job'[u] = job[u]
      BY <1>t, <1>5, <2>2, SetMoves DEF j, v
    <2>4. ASSUME NEW e \in Events \ excused, On(job'[t], e)
          PROVE  GoodOn(t, job'[t], e)
      <3>1. e = Event(t)
        BY <2>2, <2>3, <2>4 DEF On, Event
      <3>2. v \in CachedVerdicts(e)
        BY <3>1, <1>5 DEF CachedVerdicts, v
      <3>3. QED
        BY <3>2, <2>2, <2>3 DEF GoodOn, Inside
    <2>5. JobGood(t, job'[t])
      BY <2>2, <2>3, <2>4, <1>2 DEF JobGood
    <2>6. QED
      BY <1>1, <1>3, <2>3, <2>5, JobStep
  <1>6. QED
    BY <1>4, <1>5 DEF Lookup

\* The task is submitted while the thread has the lock and nothing is cached.
LEMMA AdmitStep ==
    ASSUME AiInv, NEW t \in Threads, Admit(t)
    PROVE  AiInv'
  <1>t. JobsOK /\ MemoryOK /\ JobGood(t, job[t]) /\ PoolInv /\ VerdictInv
    BY DEF AiInv, PoolInv, StateOK, VerdictInv
  <1>1. /\ At(t, "admit") /\ ~At(t, "idle") /\ Goto(t, "wait")
        /\ UNCHANGED <<todo, lockOf, cache, excused, calls, published>>
    BY DEF Admit, dedupVars, outVars, At
  <1>2. JobsOK' /\ PoolOK' /\ TasksWait' /\ StraysExcused' /\ PermitsExact'
    BY <1>t, AdmitPool
  <1>3. /\ \A u \in Threads \ {t} : job'[u] = job[u]
        /\ job'[t] \in JobType /\ job'[t].pc = "wait"
        /\ job'[t].req = job[t].req /\ job'[t].lock = job[t].lock
    BY <1>t, <1>1, GotoMoves DEF Labels
  <1>4. JobGood(t, job'[t])
    <2>1. job[t].pc = "admit" /\ job[t].req \notin Light /\ job[t] # Idle
      BY <1>1, <1>t DEF At, JobGood, Inside, Idle
    <2>2. ASSUME NEW e \in Events \ excused, On(job'[t], e)
          PROVE  GoodOn(t, job'[t], e)
      <3>1. On(job[t], e)
        BY <2>1, <2>2, <1>3 DEF On
      <3>2. GoodOn(t, job[t], e)
        BY <3>1, <1>t DEF JobGood
      <3>3. QED
        BY <3>2, <2>1, <1>3 DEF GoodOn, Inside
    <2>3. QED
      BY <2>1, <2>2, <1>3 DEF JobGood
  <1>5. MemoryOK'
    BY <1>t, <1>1 DEF MemoryOK
  <1>6. CallsCached' /\ \A u \in Threads : JobGood(u, job[u])'
    BY <1>t, <1>1, <1>3, <1>4, KeepCalls, KeepGood
  <1>7. QED
    BY <1>2, <1>5, <1>6 DEF AiInv, PoolInv, StateOK, VerdictInv

\* submit() raises: the thread has the lock, and leaves without a verdict.
LEMMA SubmitFailsStep ==
    ASSUME AiInv, NEW t \in Threads, SubmitFails(t)
    PROVE  AiInv'
  <1>t. JobsOK /\ MemoryOK /\ JobGood(t, job[t]) /\ PoolInv /\ VerdictInv
    BY DEF AiInv, PoolInv, StateOK, VerdictInv
  <1>1. /\ At(t, "admit") /\ ~At(t, "idle") /\ Goto(t, "raise")
        /\ UNCHANGED <<todo, lockOf, cache, calls, published>> /\ excused \subseteq excused'
    BY DEF SubmitFails, dedupVars, outVars, At
  <1>2. JobsOK' /\ PoolOK' /\ TasksWait' /\ StraysExcused' /\ PermitsExact'
    BY <1>t, SubmitFailsPool
  <1>3. /\ \A u \in Threads \ {t} : job'[u] = job[u]
        /\ job'[t] \in JobType /\ job'[t].pc = "raise"
        /\ job'[t].req = job[t].req /\ job'[t].lock = job[t].lock
    BY <1>t, <1>1, GotoMoves DEF Labels
  <1>4. JobGood(t, job'[t])
    <2>1. job[t].pc = "admit" /\ job[t].req \notin Light /\ job[t] # Idle
      BY <1>1, <1>t DEF At, JobGood, Inside, Idle
    <2>2. ASSUME NEW e \in Events \ excused, On(job'[t], e)
          PROVE  GoodOn(t, job'[t], e)
      <3>1. GoodOn(t, job[t], e)
        BY <2>1, <2>2, <1>3, <1>t DEF On, JobGood
      <3>2. QED
        BY <3>1, <2>1, <1>3 DEF GoodOn, Inside
    <2>3. QED
      BY <2>1, <2>2, <1>3 DEF JobGood
  <1>5. MemoryOK'
    BY <1>t, <1>1 DEF MemoryOK
  <1>6. CallsCached' /\ \A u \in Threads : JobGood(u, job[u])'
    BY <1>t, <1>1, <1>3, <1>4, KeepCalls, KeepGood
  <1>7. QED
    BY <1>2, <1>5, <1>6 DEF AiInv, PoolInv, StateOK, VerdictInv

\* release(): the verdict the thread leaves with is in the cache.
LEMMA UnlockStep ==
    ASSUME AiInv, NEW t \in Threads, Unlock(t)
    PROVE  AiInv'
  <1>t. JobsOK /\ MemoryOK /\ JobGood(t, job[t])
    BY DEF AiInv, PoolInv, StateOK, VerdictInv
  <1> DEFINE j == [job[t] EXCEPT !.pc = "publish", !.lock = NoLock]
  <1>1. /\ At(t, "unlock") /\ ~At(t, "idle") /\ ~At(t, "wait") /\ Set(t, j)
        /\ UNCHANGED <<todo, poolVars, lockOf, cache, excused, calls, published>>
    BY DEF Unlock, dedupVars, outVars, At
  <1>2. job[t].pc = "unlock" /\ job[t].req \notin Light /\ job[t] # Idle
    BY <1>1, <1>t DEF At, JobGood, Inside, Idle
  <1>3. j \in JobType /\ j.pc = "publish" /\ j.req = job[t].req /\ j.verdict = job[t].verdict
    <2>1. job[t] \in JobType
      BY <1>t, <1>1, Busy
    <2>2. QED
      BY <2>1 DEF JobType, Labels, NoLock
  <1> HIDE DEF j
  <1>4. JobsOK' /\ job'[t] = j /\ \A u \in Threads \ {t} : job'[u] = job[u]
    BY <1>t, <1>1, <1>3, SetMoves
  <1>5. JobGood(t, j)
    <2>1. ASSUME NEW e \in Events \ excused, On(j, e)
          PROVE  GoodOn(t, j, e)
      <3>1. GoodOn(t, job[t], e)
        BY <2>1, <1>2, <1>3, <1>t DEF On, JobGood
      <3>2. QED
        BY <3>1, <1>2, <1>3 DEF GoodOn, Inside
    <2>2. QED
      BY <2>1, <1>2, <1>3 DEF JobGood
  <1>6. todo' \subseteq Requests
    BY <1>t, <1>1 DEF MemoryOK
  <1>7. QED
    BY <1>1, <1>4, <1>5, <1>6, JobStep

\* A thread that ends its job, with the alert out or with the request given back.
LEMMA EndStep ==
    ASSUME AiInv, NEW t \in Threads, Failed(t) \/ PublishAlert(t) \/ PublishFails(t)
    PROVE  AiInv'
  <1>t. JobsOK /\ MemoryOK
    BY DEF AiInv, PoolInv, StateOK
  <1>1. /\ ~At(t, "idle") /\ ~At(t, "wait") /\ Set(t, Idle)
        /\ UNCHANGED <<poolVars, lockOf, cache, excused, calls, published>>
        /\ todo' \subseteq todo \cup {job[t].req}
    BY DEF Failed, PublishAlert, PublishFails, dedupVars, outVars, At
  <1>2. JobsOK' /\ job'[t] = Idle /\ \A u \in Threads \ {t} : job'[u] = job[u]
    BY <1>t, <1>1, SetMoves
  <1>3. todo' \subseteq Requests
    BY <1>t, <1>1, Busy DEF MemoryOK
  <1>4. JobGood(t, job'[t])
    BY <1>2, IdleGood
  <1>5. QED
    BY <1>1, <1>2, <1>3, <1>4, JobStep

\* The verdict that is published is the cached one.
LEMMA PublishStep ==
    ASSUME AiInv, NEW t \in Threads, Publish(t)
    PROVE  AiInv'
  <1>t. JobsOK /\ MemoryOK /\ JobGood(t, job[t]) /\ VerdictInv
    BY DEF AiInv, PoolInv, StateOK, VerdictInv
  <1>1. /\ At(t, "publish") /\ ~At(t, "idle") /\ ~At(t, "wait") /\ Goto(t, "alert")
        /\ UNCHANGED <<todo, poolVars, lockOf, cache, excused, calls>>
        /\ published' = [e \in Events |-> published[e] \cup IF e = Event(t) /\ job[t].req \notin Light
                                                            THEN {job[t].verdict} ELSE {}]
    BY DEF Publish, dedupVars, At
  <1>2. /\ JobsOK' /\ \A u \in Threads \ {t} : job'[u] = job[u]
        /\ job'[t] \in JobType /\ job'[t].pc = "alert"
        /\ job'[t].req = job[t].req /\ job'[t].verdict = job[t].verdict
    BY <1>t, <1>1, GotoMoves DEF Labels
  <1>3. job[t].pc = "publish" /\ job[t] # Idle /\ job[t].verdict \in Verdicts
    BY <1>t, <1>1, Busy DEF At
  <1>4. JobGood(t, job'[t])
    <2>1. ASSUME NEW e \in Events \ excused, On(job'[t], e)
          PROVE  GoodOn(t, job'[t], e)
      <3>1. GoodOn(t, job[t], e)
        BY <2>1, <1>2, <1>3, <1>t DEF On, JobGood
      <3>2. QED
        BY <3>1, <1>2, <1>3 DEF GoodOn, Inside
    <2>2. QED
      BY <2>1, <1>2 DEF JobGood, Inside
  <1>5. PoolOK' /\ TasksWait' /\ StraysExcused' /\ PermitsExact'
    BY <1>1, <1>2, TasksUntouched DEF AiInv
  <1>6. MemoryOK'
    <2>1. published' \in [Events -> SUBSET Verdicts]
      BY <1>t, <1>1, <1>3 DEF MemoryOK
    <2>2. QED
      BY <2>1, <1>t, <1>1 DEF MemoryOK
  <1>7. \A u \in Threads : JobGood(u, job[u])'
    BY <1>t, <1>1, <1>2, <1>4, KeepGood
  <1>8. CallsCached'
    <2>1. \A e : CachedVerdicts(e)' = CachedVerdicts(e)
      BY <1>1 DEF CachedVerdicts, Cached
    <2>2. ASSUME NEW e \in Events \ excused
          PROVE  published'[e] \subseteq CachedVerdicts(e)
      <3>1. published[e] \subseteq CachedVerdicts(e)
        BY <1>t DEF VerdictInv, CallsCached
      <3>2. CASE e = Event(t) /\ job[t].req \notin Light
        <4>1. job[t].verdict \in CachedVerdicts(e)
          BY <3>2, <1>3, <1>t DEF JobGood, GoodOn, On, Event
        <4>2. QED
          BY <4>1, <3>1, <3>2, <1>1
      <3>3. CASE ~(e = Event(t) /\ job[t].req \notin Light)
        BY <3>1, <3>3, <1>1
      <3>4. QED
        BY <3>2, <3>3
    <2>3. QED
      BY <2>1, <2>2, <1>1, <1>t DEF VerdictInv, CallsCached
  <1>9. QED
    BY <1>2, <1>5, <1>6, <1>7, <1>8 DEF AiInv, PoolInv, StateOK, VerdictInv

\* _key_lock gives the event's lock; a new one is made only when no thread uses one.
LEMMA TakeKeyedStep ==
    ASSUME AiInv, NEW t \in Threads, NEW r \in Requests, TakeKeyed(t, r)
    PROVE  AiInv'
  <1> DEFINE e == EventOf[r]
             lock == IF lockOf[e] # NoLock THEN lockOf[e] ELSE NewLock
             j == [pc |-> "lock", req |-> r, lock |-> lock, verdict |-> "none"]
  <1>t. JobsOK /\ MemoryOK /\ VerdictInv /\ CallsCached /\ \A u \in Threads : JobGood(u, job[u])
    BY DEF AiInv, PoolInv, StateOK, VerdictInv
  <1>1. /\ At(t, "idle") /\ ~At(t, "wait") /\ r \notin Light /\ e \in Events /\ todo' = todo \ {r} /\ Set(t, j)
        /\ UNCHANGED <<poolVars, cache, calls, published>>
    BY DEF TakeKeyed, outVars, At, Events
  <1>2. lock \in Nat /\ lock # NoLock
    <2>1. CASE lockOf[e] # NoLock
      BY <2>1, <1>1, <1>t DEF MemoryOK
    <2>2. CASE lockOf[e] = NoLock
      BY <2>2, <1>1, <1>t, NewLockExists
    <2>3. QED
      BY <2>1, <2>2
  <1>n. lockOf[e] # NoLock => lock = lockOf[e]
    OBVIOUS
  <1>c. \/ lockOf[e] # NoLock /\ UNCHANGED <<lockOf, excused>>
        \/ /\ lockOf[e] = NoLock
           /\ lockOf' \in [Events -> Nat]
           /\ excused \subseteq excused'
           /\ \A x \in Events \ excused' : lockOf'[x] = IF x = e THEN lock ELSE lockOf[x]
    <2> DEFINE order == Append(lockOrder, e)
               full == Len(order) > SeenCap
               h == Head(order)
    <2>1. CASE lockOf[e] # NoLock
      BY <2>1 DEF TakeKeyed, dedupVars
    <2>2. CASE lockOf[e] = NoLock
      <3>1. /\ lockOf' = [x \in Events |-> IF full /\ x = h THEN NoLock ELSE IF x = e THEN lock ELSE lockOf[x]]
            /\ excused' = IF full THEN excused \cup {h} ELSE excused
        BY <2>2 DEF TakeKeyed
      <3> HIDE DEF full, h, lock
      <3>2. lockOf' \in [Events -> Nat]
        <4>1. lockOf \in [Events -> Nat] /\ NoLock \in Nat
          BY <1>t DEF MemoryOK, NoLock
        <4>2. QED
          BY <4>1, <3>1, <1>2
      <3>3. QED
        BY <2>2, <3>1, <3>2
    <2>3. QED
      BY <2>1, <2>2
  <1> HIDE DEF lock
  <1>3. j \in JobType /\ j.pc = "lock" /\ j.req = r /\ j.lock = lock /\ j # Idle
    BY <1>2 DEF JobType, Labels, Verdicts, Idle
  <1> HIDE DEF j
  <1>4. JobsOK' /\ job'[t] = j /\ \A u \in Threads \ {t} : job'[u] = job[u]
    BY <1>t, <1>1, <1>3, SetMoves
  <1>5. todo' \subseteq Requests
    BY <1>t, <1>1 DEF MemoryOK
  <1>6. CASE lockOf[e] # NoLock /\ UNCHANGED <<lockOf, excused>>
    <2>1. ASSUME NEW x \in Events \ excused, On(j, x)
          PROVE  GoodOn(t, j, x)
      BY <2>1, <1>2, <1>3, <1>6, <1>n DEF On, GoodOn, Inside
    <2>2. JobGood(t, job'[t])
      BY <2>1, <1>1, <1>3, <1>4 DEF JobGood
    <2>3. QED
      BY <2>2, <1>1, <1>4, <1>5, <1>6, JobStep
  <1>7. CASE /\ lockOf[e] = NoLock
             /\ lockOf' \in [Events -> Nat]
             /\ excused \subseteq excused'
             /\ \A x \in Events \ excused' : lockOf'[x] = IF x = e THEN lock ELSE lockOf[x]
    <2>1. PoolOK' /\ TasksWait' /\ StraysExcused' /\ PermitsExact'
      BY <1>1, <1>4, <1>7, TasksUntouched DEF AiInv
    <2>3. MemoryOK'
      BY <1>7, <1>1, <1>5, <1>t DEF MemoryOK
    <2>4. \A x : CachedVerdicts(x)' = CachedVerdicts(x)
      BY <1>1 DEF CachedVerdicts, Cached
    <2>5. CallsCached'
      BY <2>4, <1>1, <1>7, <1>t DEF CallsCached
    <2>6. \A u \in Threads : job'[u].pc \in Inside \cup {"lock"} => job'[u].req \notin Light
      BY <1>1, <1>3, <1>4, <1>t DEF JobGood
    <2>7. ASSUME NEW u \in Threads, NEW x \in Events \ excused', On(job'[u], x)
          PROVE  /\ job'[u].pc \in Inside \cup {"lock"} => job'[u].lock = lockOf'[x] /\ lockOf'[x] # NoLock
                 /\ job'[u].pc \in Inside
                       => \A w \in Threads \ {u} : ~(On(job'[w], x) /\ job'[w].pc \in Inside)
                 /\ job'[u].pc \in {"admit", "wait"} => CachedVerdicts(x) = {}
                 /\ job'[u].pc \in {"unlock", "publish", "alert"} => job'[u].verdict \in CachedVerdicts(x)
      <3>0. x \in Events \ excused
        BY <1>7
      <3>1. CASE u = t
        <4>1. x = e
          BY <3>1, <2>7, <1>3, <1>4 DEF On
        <4>2. QED
          BY <4>1, <3>1, <2>7, <1>2, <1>3, <1>4, <1>7 DEF Inside
      <3>2. CASE u # t
        <4>1. job'[u] = job[u] /\ On(job[u], x) /\ GoodOn(u, job[u], x)
          BY <3>0, <3>2, <2>7, <1>4, <1>t DEF JobGood
        <4>2. job'[t].pc \notin Inside
          BY <1>3, <1>4 DEF Inside
        <4>3. job'[u].pc \in Inside
                 => \A w \in Threads \ {u} : ~(On(job'[w], x) /\ job'[w].pc \in Inside)
          BY <4>1, <4>2, <1>4 DEF GoodOn
        <4>4. x = e => job[u].pc \notin Inside \cup {"lock"}
          BY <4>1, <1>7 DEF GoodOn
        <4>5. job'[u].pc \in Inside \cup {"lock"} => job'[u].lock = lockOf'[x] /\ lockOf'[x] # NoLock
          BY <4>1, <4>4, <1>7 DEF GoodOn
        <4>6. QED
          BY <4>1, <4>3, <4>5 DEF GoodOn
      <3>3. QED
        BY <3>1, <3>2
    <2>8. \A u \in Threads : JobGood(u, job[u])'
      BY <2>4, <2>6, <2>7 DEF JobGood, GoodOn, On
    <2>9. QED
      BY <1>4, <2>1, <2>3, <2>5, <2>8 DEF AiInv, PoolInv, StateOK, VerdictInv
  <1>8. QED
    BY <1>c, <1>6, <1>7

-----------------------------------------------------------------------------
(* The steps of the pool.                                                  *)

\* Start, Probe and Primary concern only the pool.
LEMMA RunStep ==
    ASSUME AiInv, NEW p \in Pool, Start(p) \/ Probe(p) \/ Primary(p)
    PROVE  AiInv'
  <1>1. UNCHANGED <<todo, job, lockOf, cache, published, calls, excused>>
    BY DEF Start, Probe, Primary, dedupVars, outVars
  <1>2. PoolOK' /\ TasksWait' /\ StraysExcused' /\ PermitsExact'
    BY RunPool DEF AiInv
  <1>3. JobsOK' /\ MemoryOK'
    BY <1>1 DEF AiInv, PoolInv, StateOK, JobsOK, MemoryOK
  <1>4. CallsCached'
    BY <1>1, KeepCalls DEF AiInv
  <1>5. ASSUME NEW t \in Threads PROVE JobGood(t, job[t])'
    <2>1. JobGood(t, job'[t]) /\ \A u \in Threads \ {t} : job'[u] = job[u]
      BY <1>1 DEF AiInv, VerdictInv
    <2>2. QED
      BY <2>1, <1>1, KeepGood DEF AiInv
  <1>6. QED
    BY <1>2, <1>3, <1>4, <1>5 DEF AiInv, PoolInv, StateOK, VerdictInv

\* The task whose pool thread has its answer is the one its thread waits for.
LEMMA AwaitedTask ==
    ASSUME AiInv, NEW p \in Pool, PoolAt(p, "answered")
    PROVE  /\ pool[p].verdict \in Verdicts
           /\ Awaited(p) => At(pool[p].task, "wait") /\ ~At(pool[p].task, "idle")
           /\ ~Awaited(p) => pool[p].task \in Requests /\ Excused(pool[p].task)
  <1>1. pool[p] # Idle
    BY DEF PoolAt, Idle
  <1>2. pool[p].verdict \in Verdicts /\ pool[p].task \in Tasks
    BY <1>1, PoolBusy DEF AiInv, PoolInv, StateOK
  <1>3. Awaited(p) => At(pool[p].task, "wait")
    BY <1>1 DEF AiInv, PoolInv, TasksWait, Busied, Awaited
  <1>4. ~Awaited(p) => pool[p].task \in Requests /\ Excused(pool[p].task)
    BY <1>1, <1>2 DEF AiInv, PoolInv, StraysExcused, Submitted, Tasks, Awaited
  <1>5. QED
    BY <1>2, <1>3, <1>4 DEF At

\* The other threads do not notice.
LEMMA OthersGood ==
    ASSUME VerdictInv, UNCHANGED <<job, lockOf, cache>>, excused \subseteq excused'
    PROVE  \A u \in Threads : JobGood(u, job[u])'
  <1> SUFFICES ASSUME NEW t \in Threads PROVE JobGood(t, job[t])'
    OBVIOUS
  <1>1. JobGood(t, job'[t]) /\ \A u \in Threads \ {t} : job'[u] = job[u]
    BY DEF VerdictInv
  <1>2. QED
    BY <1>1, KeepGood

LEMMA TaskRaisesStep ==
    ASSUME AiInv, NEW p \in Pool, TaskRaises(p)
    PROVE  AiInv'
  <1>t. JobsOK /\ MemoryOK /\ VerdictInv /\ PoolInv
    BY DEF AiInv, PoolInv, StateOK
  <1>u. /\ PoolAt(p, "answered") /\ permits' = permits + 1 /\ Run(p, Idle) /\ UNCHANGED <<tasks, extra>>
        /\ Resume(p, "raise", "none")
        /\ UNCHANGED <<todo, lockOf, cache, excused, calls, published>>
    BY DEF TaskRaises, dedupVars, outVars
  <1>s. CASE ~Awaited(p)
    <2>1. UNCHANGED job
      BY <1>s, <1>u DEF Resume
    <2>2. PoolOK' /\ TasksWait' /\ StraysExcused' /\ PermitsExact'
      BY <1>t, <1>u, <2>1, EndPool
    <2>3. JobsOK' /\ MemoryOK'
      BY <1>t, <1>u, <2>1 DEF JobsOK, MemoryOK
    <2>4. CallsCached' /\ \A u \in Threads : JobGood(u, job[u])'
      BY <1>t, <1>u, <2>1, KeepCalls, OthersGood
    <2>5. QED
      BY <2>2, <2>3, <2>4 DEF AiInv, PoolInv, StateOK, VerdictInv
  <1> SUFFICES ASSUME Awaited(p) PROVE AiInv'
    BY <1>s
  <1>0. PICK t \in Threads : t = pool[p].task /\ At(t, "wait") /\ ~At(t, "idle")
    BY <1>u, AwaitedTask DEF Awaited
  <1>1. /\ PoolAt(p, "answered") /\ permits' = permits + 1 /\ Run(p, Idle) /\ UNCHANGED <<tasks, extra>>
        /\ UNCHANGED <<todo, lockOf, cache, excused, calls, published>>
    BY <1>u
  <1>2. /\ JobsOK' /\ \A u \in Threads \ {t} : job'[u] = job[u]
        /\ job'[t] \in JobType /\ job'[t].pc = "raise"
        /\ job'[t].req = job[t].req /\ job'[t].lock = job[t].lock
    <2> DEFINE j == [job[t] EXCEPT !.pc = "raise", !.verdict = "none"]
    <2>1. job[t] \in JobType
      BY <1>t, <1>0, Busy
    <2>2. j \in JobType /\ j.pc = "raise" /\ j.req = job[t].req /\ j.lock = job[t].lock
      BY <2>1 DEF JobType, Labels, Verdicts
    <2>3. Set(t, j)
      BY <1>0, <1>u DEF Resume
    <2> HIDE DEF j
    <2>4. JobsOK' /\ job'[t] = j /\ \A u \in Threads \ {t} : job'[u] = job[u]
      BY <1>t, <2>2, <2>3, SetMoves
    <2>5. QED
      BY <2>2, <2>4
  <1>3. PoolOK' /\ TasksWait' /\ StraysExcused' /\ PermitsExact'
    BY <1>t, <1>0, <1>1, <1>2, EndPool
  <1>4. JobGood(t, job'[t])
    <2>1. job[t].pc = "wait" /\ job[t] # Idle /\ JobGood(t, job[t])
      BY <1>0, <1>t DEF At, Idle, VerdictInv
    <2>2. ASSUME NEW e \in Events \ excused, On(job'[t], e)
          PROVE  GoodOn(t, job'[t], e)
      <3>1. GoodOn(t, job[t], e)
        BY <2>1, <2>2, <1>2 DEF On, JobGood
      <3>2. QED
        BY <3>1, <2>1, <1>2 DEF GoodOn, Inside
    <2>3. QED
      BY <2>1, <2>2, <1>2 DEF JobGood, Inside
  <1>5. MemoryOK'
    BY <1>t, <1>1 DEF MemoryOK
  <1>6. CallsCached' /\ \A u \in Threads : JobGood(u, job[u])'
    BY <1>t, <1>1, <1>2, <1>4, KeepCalls, KeepGood
  <1>7. QED
    BY <1>2, <1>3, <1>5, <1>6 DEF AiInv, PoolInv, StateOK, VerdictInv

\* The thread waits for its task with the lock of the event and nothing cached: the
\* first verdict is put in the cache, and it is the one the future gives.
LEMMA CompleteAwaited ==
    ASSUME AiInv, NEW p \in Pool, Complete(p), Awaited(p)
    PROVE  AiInv'
  <1>t. /\ JobsOK /\ MemoryOK /\ VerdictInv /\ PoolInv /\ CallsCached
        /\ \A u \in Threads : JobGood(u, job[u])
    BY DEF AiInv, PoolInv, StateOK, VerdictInv
  <1>a. PoolAt(p, "answered")
    BY DEF Complete
  <1>0. PICK t \in Threads : t = pool[p].task /\ At(t, "wait") /\ ~At(t, "idle")
    BY <1>a, AwaitedTask DEF Awaited
  <1>v. PICK v \in Verdicts : v = pool[p].verdict
    BY <1>a, AwaitedTask
  <1> DEFINE e == EventOf[job[t].req]
             j == [job[t] EXCEPT !.pc = "unlock", !.verdict = v]
             full == Len(cache) >= SeenCap
  <1>1. /\ permits' = permits + 1 /\ Run(p, Idle) /\ UNCHANGED <<tasks, extra>> /\ Set(t, j)
        /\ UNCHANGED <<todo, lockOf, published>>
        /\ calls' = IF e = NoId THEN calls ELSE [calls EXCEPT ![e] = @ + 1]
    BY <1>0, <1>v DEF Complete, TaskEvent, Resume, dedupVars, outVars
  <1>2. \/ (e = NoId \/ Cached(e) # {}) /\ UNCHANGED <<cache, excused>>
        \/ /\ e # NoId /\ Cached(e) = {}
           /\ cache' = Append(IF full THEN Tail(cache) ELSE cache, [event |-> e, verdict |-> v])
           /\ excused' = IF full THEN excused \cup {Head(cache).event} ELSE excused
    BY <1>0, <1>v DEF Complete, TaskEvent
  <1>e. excused \subseteq excused'
    BY <1>2
  <1>3. /\ job[t] \in JobType /\ job[t] # Idle /\ job[t].pc = "wait" /\ job[t].req \in Requests
        /\ job[t].req \notin Light
    <2>1. job[t] \in JobType /\ job[t] # Idle /\ job[t].pc = "wait" /\ job[t].req \in Requests
      BY <1>0, <1>t, Busy DEF At
    <2>2. JobGood(t, job[t])
      BY <1>t
    <2>3. QED
      BY <2>1, <2>2 DEF JobGood, Inside
  <1>4. j \in JobType /\ j.pc = "unlock" /\ j.req = job[t].req /\ j.lock = job[t].lock /\ j.verdict = v
    BY <1>3 DEF JobType, Labels
  <1>5. e # NoId => e \in Events /\ On(job[t], e)
    BY <1>3 DEF Events, On
  <1>6. \A x \in Events : On(j, x) <=> x = e
    BY <1>3, <1>4 DEF On, Idle
  <1> HIDE DEF j, full
  <1>7. JobsOK' /\ job'[t] = j /\ \A u \in Threads \ {t} : job'[u] = job[u]
    BY <1>t, <1>1, <1>4, SetMoves
  <1>8. PoolOK' /\ TasksWait' /\ StraysExcused' /\ PermitsExact'
    BY <1>t, <1>a, <1>0, <1>1, <1>e, <1>7, EndPool
  <1>9. calls' \in [Events -> Nat] /\ \A x \in Events : calls'[x] = IF x = e THEN calls[x] + 1 ELSE calls[x]
    <2>1. calls \in [Events -> Nat] /\ \A x \in Events : calls[x] \in Nat
      BY <1>t DEF MemoryOK
    <2>2. NoId \notin Events
      BY DEF Events
    <2> HIDE DEF e
    <2>3. CASE e = NoId
      BY <2>1, <2>2, <2>3, <1>1
    <2>4. CASE e # NoId
      BY <2>1, <2>4, <1>1, <1>5
    <2>5. QED
      BY <2>3, <2>4
  <1>10. e \in Events \ excused => GoodOn(t, job[t], e) /\ CachedVerdicts(e) = {}
    <2>1. NoId \notin Events
      BY DEF Events
    <2>2. e \in Events \ excused => GoodOn(t, job[t], e)
      BY <2>1, <1>5, <1>t DEF JobGood
    <2>3. QED
      BY <2>2, <1>3 DEF GoodOn
  <1> HIDE DEF e
  <1>11. CASE (e = NoId \/ Cached(e) # {}) /\ UNCHANGED <<cache, excused>>
    <2>1. e \notin Events \ excused
      <3>1. NoId \notin Events
        BY DEF Events
      <3>2. Cached(e) # {} => CachedVerdicts(e) # {}
        BY DEF CachedVerdicts
      <3>3. QED
        BY <3>1, <3>2, <1>10, <1>11
    <2>2. JobGood(t, job'[t])
      BY <2>1, <1>3, <1>4, <1>6, <1>7 DEF JobGood
    <2>3. \A u \in Threads : JobGood(u, job[u])'
      BY <2>2, <1>t, <1>1, <1>7, <1>11, KeepGood
    <2>4. MemoryOK'
      BY <1>t, <1>1, <1>9, <1>11 DEF MemoryOK
    <2>5. CallsCached'
      <3>1. \A x : CachedVerdicts(x)' = CachedVerdicts(x)
        BY <1>11 DEF CachedVerdicts, Cached
      <3>2. \A x \in Events \ excused : calls'[x] = calls[x]
        BY <2>1, <1>9
      <3>3. QED
        BY <3>1, <3>2, <1>1, <1>11, <1>t DEF CallsCached
    <2>6. QED
      BY <1>7, <1>8, <2>3, <2>4, <2>5 DEF AiInv, PoolInv, StateOK, VerdictInv
  <1>12. CASE /\ e # NoId /\ Cached(e) = {}
              /\ cache' = Append(IF full THEN Tail(cache) ELSE cache, [event |-> e, verdict |-> v])
              /\ excused' = IF full THEN excused \cup {Head(cache).event} ELSE excused
    <2>0. e \in Events
      BY <1>5, <1>12
    <2>1. /\ cache' \in Seq(EntryType)
          /\ \A x \in Events \ excused' : CachedVerdicts(x)' = IF x = e THEN {v} ELSE CachedVerdicts(x)
      BY <2>0, <1>12, <1>t, CachePut DEF MemoryOK, full
    <2>2. excused \subseteq excused'
      BY <1>12
    <2>3. MemoryOK'
      BY <2>1, <1>t, <1>1, <1>9 DEF MemoryOK
    <2>4. ASSUME NEW x \in Events \ excused'
          PROVE  /\ calls'[x] = IF CachedVerdicts(x)' = {} THEN 0 ELSE 1
                 /\ \A a, b \in CachedVerdicts(x)' : a = b
                 /\ published'[x] \subseteq CachedVerdicts(x)'
      <3>1. x \in Events \ excused
        BY <2>2
      <3>2. /\ calls[x] = IF CachedVerdicts(x) = {} THEN 0 ELSE 1
            /\ \A a, b \in CachedVerdicts(x) : a = b
            /\ published[x] \subseteq CachedVerdicts(x)
        BY <3>1, <1>t DEF CallsCached
      <3>3. CASE x = e
        <4>1. CachedVerdicts(x) = {} /\ calls[x] = 0
          BY <3>1, <3>2, <3>3, <1>10
        <4>2. CachedVerdicts(x)' = {v}
          BY <2>1, <2>4, <3>3
        <4>3. calls'[x] = 1
          BY <4>1, <3>3, <1>9
        <4>4. published'[x] = {}
          BY <4>1, <3>2, <1>1
        <4>5. QED
          BY <4>2, <4>3, <4>4
      <3>4. CASE x # e
        <4>1. CachedVerdicts(x)' = CachedVerdicts(x)
          BY <2>1, <2>4, <3>4
        <4>2. QED
          BY <4>1, <3>2, <3>4, <1>1, <1>9
      <3>5. QED
        BY <3>3, <3>4
    <2>5. CallsCached'
      BY <2>4 DEF CallsCached
    <2>6. ASSUME NEW u \in Threads, NEW x \in Events \ excused', On(job'[u], x)
          PROVE  /\ job'[u].pc \in Inside \cup {"lock"} => job'[u].lock = lockOf[x] /\ lockOf[x] # NoLock
                 /\ job'[u].pc \in Inside
                       => \A w \in Threads \ {u} : ~(On(job'[w], x) /\ job'[w].pc \in Inside)
                 /\ job'[u].pc \in {"admit", "wait"} => CachedVerdicts(x)' = {}
                 /\ job'[u].pc \in {"unlock", "publish", "alert"} => job'[u].verdict \in CachedVerdicts(x)'
      <3>0. x \in Events \ excused
        BY <2>2
      <3>1. CASE u = t
        <4>1. x = e /\ GoodOn(t, job[t], e)
          BY <3>0, <3>1, <2>6, <1>6, <1>7, <1>10
        <4>2. v \in CachedVerdicts(x)'
          BY <4>1, <2>1, <2>6
        <4>3. /\ j.lock = lockOf[x] /\ lockOf[x] # NoLock
              /\ \A w \in Threads \ {t} : ~(On(job[w], x) /\ job[w].pc \in Inside)
          BY <4>1, <1>3, <1>4 DEF GoodOn, Inside
        <4>4. QED
          BY <4>2, <4>3, <3>1, <1>4, <1>7
      <3>2. CASE u # t
        <4>1. job'[u] = job[u] /\ On(job[u], x) /\ GoodOn(u, job[u], x)
          BY <3>0, <3>2, <2>6, <1>7, <1>t DEF JobGood
        <4>2. CASE x = e
          <5>1. GoodOn(t, job[t], e) /\ CachedVerdicts(e) = {}
            BY <3>0, <4>2, <1>10
          <5>2. job[u].pc \notin Inside
            BY <5>1, <4>1, <4>2, <3>2, <1>3 DEF GoodOn, Inside
          <5>3. job[u].pc \notin {"unlock", "publish", "alert"}
            BY <5>1, <4>1, <4>2 DEF GoodOn
          <5>4. QED
            BY <5>2, <5>3, <4>1 DEF GoodOn, Inside
        <4>3. CASE x # e
          <5>1. CachedVerdicts(x)' = CachedVerdicts(x)
            BY <2>1, <2>6, <4>3
          <5>2. ~On(job'[t], x)
            BY <4>3, <1>6, <1>7
          <5>3. job'[u].pc \in Inside
                   => \A w \in Threads \ {u} : ~(On(job'[w], x) /\ job'[w].pc \in Inside)
            BY <5>2, <4>1, <1>7 DEF GoodOn
          <5>4. QED
            BY <5>1, <5>3, <4>1 DEF GoodOn
        <4>4. QED
          BY <4>2, <4>3
      <3>3. QED
        BY <3>1, <3>2
    <2>7. \A u \in Threads : job'[u].pc \in Inside \cup {"lock"} => job'[u].req \notin Light
      BY <1>3, <1>4, <1>7, <1>t DEF JobGood
    <2>8. \A u \in Threads : JobGood(u, job[u])'
      BY <2>6, <2>7, <1>1 DEF JobGood, GoodOn, On
    <2>9. QED
      BY <1>7, <1>8, <2>3, <2>5, <2>8 DEF AiInv, PoolInv, StateOK, VerdictInv
  <1>13. QED
    BY <1>2, <1>11, <1>12

\* The verdict of a task nobody waits for may be put in the cache; its event is excused.
LEMMA CompleteStray ==
    ASSUME AiInv, NEW p \in Pool, Complete(p), ~Awaited(p)
    PROVE  AiInv'
  <1>t. /\ JobsOK /\ MemoryOK /\ VerdictInv /\ PoolInv /\ CallsCached
        /\ \A u \in Threads : JobGood(u, job[u])
    BY DEF AiInv, PoolInv, StateOK, VerdictInv
  <1>a. PoolAt(p, "answered")
    BY DEF Complete
  <1>0. PICK r \in Requests : r = pool[p].task /\ Excused(r)
    BY <1>a, AwaitedTask
  <1>v. PICK v \in Verdicts : v = pool[p].verdict
    BY <1>a, AwaitedTask
  <1> DEFINE e == EventOf[r]
             full == Len(cache) >= SeenCap
  <1>1. /\ permits' = permits + 1 /\ Run(p, Idle) /\ UNCHANGED <<tasks, extra, job>>
        /\ UNCHANGED <<todo, lockOf, published>>
        /\ calls' = IF e = NoId THEN calls ELSE [calls EXCEPT ![e] = @ + 1]
    BY <1>0 DEF Complete, TaskEvent, Resume, dedupVars, outVars
  <1>2. \/ UNCHANGED <<cache, excused>>
        \/ /\ e # NoId /\ Cached(e) = {}
           /\ cache' = Append(IF full THEN Tail(cache) ELSE cache, [event |-> e, verdict |-> v])
           /\ excused' = IF full THEN excused \cup {Head(cache).event} ELSE excused
    BY <1>0, <1>v DEF Complete, TaskEvent
  <1>3. e \notin Events \ excused /\ (e # NoId => e \in Events)
    BY <1>0 DEF Excused, Events
  <1> HIDE DEF e, full
  <1>4. excused \subseteq excused'
    BY <1>2
  <1>5. PoolOK' /\ TasksWait' /\ StraysExcused' /\ PermitsExact'
    BY <1>t, <1>a, <1>1, <1>4, EndPool
  <1>6. calls' \in [Events -> Nat] /\ \A x \in Events \ excused : calls'[x] = calls[x]
    <2>1. calls \in [Events -> Nat]
      BY <1>t DEF MemoryOK
    <2>2. CASE e = NoId
      BY <2>1, <2>2, <1>1
    <2>3. CASE e # NoId
      <3>1. calls[e] + 1 \in Nat
        BY <2>1, <2>3, <1>3
      <3>2. QED
        BY <2>1, <2>3, <3>1, <1>1, <1>3
    <2>4. QED
      BY <2>2, <2>3
  <1>7. /\ cache' \in Seq(EntryType)
        /\ \A x \in Events \ excused' : CachedVerdicts(x)' = CachedVerdicts(x)
    <2>1. CASE UNCHANGED <<cache, excused>>
      <3>1. cache' \in Seq(EntryType)
        BY <2>1, <1>t DEF MemoryOK
      <3>2. QED
        BY <2>1, <3>1 DEF CachedVerdicts, Cached
    <2>2. CASE /\ e # NoId /\ Cached(e) = {}
               /\ cache' = Append(IF full THEN Tail(cache) ELSE cache, [event |-> e, verdict |-> v])
               /\ excused' = IF full THEN excused \cup {Head(cache).event} ELSE excused
      <3>1. e \in Events /\ \A x \in Events \ excused' : x # e
        BY <2>2, <1>3, <1>4
      <3>2. /\ cache' \in Seq(EntryType)
            /\ \A x \in Events \ excused' : CachedVerdicts(x)' = IF x = e THEN {v} ELSE CachedVerdicts(x)
        BY <3>1, <2>2, <1>t, CachePut DEF MemoryOK, full
      <3>3. QED
        BY <3>1, <3>2
    <2>3. QED
      BY <1>2, <2>1, <2>2
  <1>8. JobsOK' /\ MemoryOK'
    BY <1>t, <1>1, <1>6, <1>7 DEF JobsOK, MemoryOK
  <1>9. CallsCached'
    BY <1>t, <1>1, <1>4, <1>6, <1>7 DEF CallsCached
  <1>10. \A u \in Threads : JobGood(u, job[u])'
    <2> SUFFICES ASSUME NEW u \in Threads PROVE JobGood(u, job[u])'
      OBVIOUS
    <2>1. JobGood(u, job[u])
      BY <1>t
    <2>2. ASSUME NEW x \in Events \ excused', On(job[u], x)
          PROVE  GoodOn(u, job[u], x)'
      <3>1. GoodOn(u, job[u], x) /\ CachedVerdicts(x)' = CachedVerdicts(x)
        BY <2>1, <2>2, <1>4, <1>7 DEF JobGood
      <3>2. QED
        BY <3>1, <1>1 DEF GoodOn, On
    <2>3. QED
      BY <2>1, <2>2, <1>1 DEF JobGood, On
  <1>11. QED
    BY <1>5, <1>8, <1>9, <1>10 DEF AiInv, PoolInv, StateOK, VerdictInv

LEMMA CompleteStep ==
    ASSUME AiInv, NEW p \in Pool, Complete(p)
    PROVE  AiInv'
  BY CompleteAwaited, CompleteStray

-----------------------------------------------------------------------------
(* The environment, and the theorems.                                      *)

\* A process that starts knows nothing: no job, no task, no lock, no verdict.
LEMMA FreshStart ==
    ASSUME todo \subseteq Requests, job = [t \in Threads |-> Idle], lockOf = [e \in Events |-> NoLock],
           cache = <<>>, permits = TotalCap, extra = 0, tasks = <<>>, pool = [p \in Pool |-> Idle],
           published = [e \in Events |-> {}], calls = [e \in Events |-> 0]
    PROVE  AiInv
  <1>1. JobsOK /\ MemoryOK
    BY DEF JobsOK, MemoryOK, NoLock
  <1>2. PoolOK
    BY RunningFinite DEF PoolOK, Tasks
  <1>3. TasksWait /\ StraysExcused
    BY DEF TasksWait, Busied, StraysExcused, Submitted
  <1>4. PermitsExact
    <2>1. Running = {}
      BY DEF Running, PoolAt, Idle
    <2>2. Cardinality(Running) = 0
      BY <2>1, FS_EmptySet
    <2>3. QED
      BY <2>2, PermitsRead, RunningFinite
  <1>5. \A t \in Threads : JobGood(t, job[t])
    BY IdleGood
  <1>6. CallsCached
    <2>1. \A e : CachedVerdicts(e) = {}
      BY DEF CachedVerdicts, Cached
    <2>2. QED
      BY <2>1 DEF CallsCached
  <1>7. QED
    BY <1>1, <1>2, <1>3, <1>4, <1>5, <1>6 DEF AiInv, PoolInv, StateOK, VerdictInv

\* What no step of a thread or of the pool touches stays as it is.
LEMMA NothingMoves ==
    ASSUME AiInv, UNCHANGED <<job, lockOf, cache, poolVars, published, calls, excused>>, todo' \subseteq Requests
    PROVE  AiInv'
  <1>1. UNCHANGED <<permits, tasks, pool, extra>>
    BY DEF poolVars
  <1>2. JobsOK' /\ PoolOK' /\ MemoryOK' /\ TasksWait' /\ PermitsExact'
    BY <1>1 DEF AiInv, PoolInv, StateOK, JobsOK, PoolOK, MemoryOK, TasksWait, Busied, PermitsExact, At, PoolAt
  <1>s. StraysExcused'
    BY <1>1 DEF AiInv, PoolInv, StraysExcused, Submitted, Excused
  <1>3. CallsCached'
    BY KeepCalls DEF AiInv
  <1>4. ASSUME NEW t \in Threads PROVE JobGood(t, job[t])'
    <2>1. JobGood(t, job'[t]) /\ \A u \in Threads \ {t} : job'[u] = job[u]
      BY DEF AiInv, VerdictInv
    <2>2. QED
      BY <2>1, KeepGood DEF AiInv
  <1>5. QED
    BY <1>2, <1>s, <1>3, <1>4 DEF AiInv, PoolInv, StateOK, VerdictInv

\* The process dies: what was pending is delivered to the new one.
LEMMA RestartStep ==
    ASSUME AiInv, Restart
    PROVE  AiInv'
  <1>1. Pending \subseteq Requests
    BY Busy DEF Pending, AiInv, PoolInv, StateOK, MemoryOK
  <1>2. /\ (todo \subseteq Requests)' /\ (job = [t \in Threads |-> Idle])' /\ (lockOf = [e \in Events |-> NoLock])'
        /\ (cache = <<>>)' /\ (permits = TotalCap)' /\ (extra = 0)' /\ (tasks = <<>>)' /\ (pool = [p \in Pool |-> Idle])'
        /\ (published = [e \in Events |-> {}])' /\ (calls = [e \in Events |-> 0])'
    BY <1>1 DEF Restart
  <1>3. QED
    BY <1>2, FreshStart, PTL

\* The strengthened invariant.
THEOREM AiTriageInvariant == Spec => []AiInv
  <1>1. Init => AiInv
    BY FreshStart DEF Init
  <1>2. AiInv /\ [Next]_vars => AiInv'
    <2> SUFFICES ASSUME AiInv, [Next]_vars PROVE AiInv'
      OBVIOUS
    <2>1. CASE \E t \in Threads : Thread(t) \/ SubmitFails(t) \/ PublishFails(t)
      <3>1. PICK t \in Threads : Thread(t) \/ SubmitFails(t) \/ PublishFails(t)
        BY <2>1
      <3>2. QED
        BY <3>1, TakeUnkeyedStep, TakeKeyedStep, LockStep, LookupStep, AdmitStep, SubmitFailsStep, UnlockStep, EndStep, PublishStep
           DEF Thread
    <2>2. CASE \E p \in Pool : Worker(p) \/ TaskRaises(p)
      <3>1. PICK p \in Pool : Worker(p) \/ TaskRaises(p)
        BY <2>2
      <3>2. QED
        BY <3>1, RunStep, CompleteStep, TaskRaisesStep DEF Worker
    <2>3. CASE \E r \in Requests : Again(r)
      BY <2>3, NothingMoves DEF Again, dedupVars, outVars, AiInv, PoolInv, StateOK, MemoryOK
    <2>4. CASE Restart
      BY <2>4, RestartStep
    <2>5. CASE UNCHANGED vars
      BY <2>5, NothingMoves DEF vars, dedupVars, outVars, AiInv, PoolInv, StateOK, MemoryOK
    <2>6. QED
      BY <2>1, <2>2, <2>3, <2>4, <2>5 DEF Next
  <1>3. QED
    BY <1>1, <1>2, PTL DEF Spec

\* The admission semaphore: what is not free belongs to a task that is queued or
\* running, whichever way tasks and submit() end, for any pool and any number of
\* threads; a submit() that raises with its task in the queue leaves one permit too
\* many, and nothing else does.
THEOREM SemaphoreExact == Spec => []PermitsExact
  <1>1. AiInv => PermitsExact
    BY DEF AiInv, PoolInv
  <1>2. QED
    BY <1>1, AiTriageInvariant, PTL

\* Deduplication by event: one analysis and one verdict for an event that stays in
\* the cache and the lock map and of which no task was left in the queue, however its
\* deliveries to the threads interleave.
THEOREM VerdictIsOne == Spec => []OneVerdict
  <1>1. AiInv => OneVerdict
    <2> SUFFICES ASSUME AiInv, NEW e \in Events \ excused
                 PROVE  calls[e] <= 1 /\ Cardinality(published[e]) <= 1
      BY DEF OneVerdict
    <2>1. /\ calls[e] = IF CachedVerdicts(e) = {} THEN 0 ELSE 1
          /\ \A v, w \in CachedVerdicts(e) : v = w
          /\ published[e] \subseteq CachedVerdicts(e)
      BY DEF AiInv, VerdictInv, CallsCached
    <2>2. calls[e] <= 1
      BY <2>1
    <2>3. CASE published[e] = {}
      <3>1. Cardinality(published[e]) = 0
        BY <2>3, FS_EmptySet
      <3>2. QED
        BY <2>2, <3>1
    <2>4. CASE published[e] # {}
      <3>1. PICK v : v \in published[e]
        BY <2>4
      <3>2. published[e] = {v}
        BY <2>1, <3>1
      <3>3. Cardinality(published[e]) = 1
        BY <3>2, FS_Singleton
      <3>4. QED
        BY <2>2, <3>3
    <2>5. QED
      BY <2>3, <2>4
  <1>2. QED
    BY <1>1, AiTriageInvariant, PTL
=============================================================================
