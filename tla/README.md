# Verification of the fengarde event pipeline

fengarde is a SIEM made of small Python services (`src/services/ws1 … ws9`) that
never call each other: they exchange messages over a bus, keep documents in
OpenSearch and small pieces of shared state in Redis. This project models the
parts whose correctness depends on interleavings, failures and retries, checks
them with TLC on small instances and proves every safety property the runs check
with TLAPS for instances of any size: the delivery guarantees of both buses and both
worker loops, the indexer's two write paths, the window counters, detection,
correlation, the ingest edge, the accounts and AI triage. Liveness is model-checked.

## 1. Inventory

| component | state | operations | interacts with |
|---|---|---|---|
| Redis bus (`shared/bus.py`, `_RedisBus`) | per topic: a stream, consumer groups with their last-delivered id, a pending list (PEL) with delivery counters | `produce`, `consume`, `claim_pending`, `ack`, `ack_batch`, `trim_acked`, quarantine in `_decode_entry` | every service |
| In-memory bus (`_MemoryBus`) | per topic: a deque, a cursor and a capped pending list per group, two locks | the same interface, `depth` | tests, single-process deployments |
| Runner (`shared/runner.py`) | per worker: the messages of a pass, deferred acks, gathered batch | `_topic_worker`, `_process_message`, `_process_batch`, `_flush_gathered`, stream reaper | bus, every handler |
| Indexer (WS-3 `main.py`, `storage/opensearch.py`, `router.py`) | OpenSearch documents with versions | `handle_batch`, `_plan_alerts`, `_flush`, the compare-and-swap loop | runner, OpenSearch, triage API |
| Triage API (WS-3 `triage_api.py`) | the `triage` part of an alert; sessions | `POST /alerts/{id}/triage`, read routes, login | OpenSearch, users, sessions |
| Window counters (`shared/window.py`) | per rule and group: the events of a sliding window, in a deque with a deadline heap or in a Redis sorted set | `hit`, `hit_distinct`, `hit_periodic`, `members`, sweep | detection, correlation |
| Detection (WS-4) | windows, triage cooldown table, rule set | `process`, `_emit`, rule reload | normalized.events in; scored.events, alerts, ai.requests out |
| Correlation (WS-8) | per entity in Redis: a window, member entries, first_seen, tactics, a truncated mark, the sticky incident id; graph cache | `ingest_alert`, `_update_track`, `bind_incident_id` | alerts in; incidents, incident.graph out |
| AI triage (WS-5) | lock per event, verdict cache, admission semaphore, pool, model availability | `AiWorker.handle`, `FallbackLLM` | ai.requests in; ai.results, alerts out |
| Collectors (WS-1) | receive queue, token buckets, spool file, counters | `_recv_loop`, `handle_line`, `append`, `drain_into`, `stop` | raw.events out |
| Users, sessions, lockout, MFA (`shared/`) | SQLite rows, session table, failed attempts | login, account check of each request, user administration, TOTP | triage API |
| Resolver (WS-9), normalization (WS-2) | alias maps, parser registry | one handler each | bus |
| Inventory and keys (WS-6) | SQLite/JSON stores | upserts, key rotation | HTTP API |

The hard behaviours, listed line by line under `hazards` in `PROJECT.json`:
several workers and services share a group and a stream while a reaper trims it;
acks are deferred and may be lost or applied in part; entries are claimed while
another worker is still busy with them; a client times out on a read the server
has carried out; documents are read, merged and written back while an analyst
does the same; bulk writes succeed for some items only; replicas interleave
between the Redis commands of one track update while keys expire; a spool file is
appended to while it is drained and the process is killed in mid-write; requests
use an account another request is demoting; any process may die between two steps.

What makes each part correct:

* bus and runner: at-least-once delivery to every group. A message ends with an
  outcome (handled, dead-lettered, or dropped as unparseable) or can still be
  delivered; the handler runs at most `max_redeliveries` times on a pending
  message; nothing circulates for ever; trimming never removes what a group
  still needs and does remove what none does;
* indexer: an acked message is stored, unless it cannot be routed; an analyst's update survives re-emitted
  and redelivered alerts; a score is never overwritten by the unscored copy; the
  last version of a batch wins; conflicts do not starve a writer;
* window counters: both backends answer alike whatever the order of the events, as
  long as neither has forgotten the whole key alone; idle keys are dropped and live ones never;
* detection: no match without the events for it; a burst is counted whatever times
  its records claim, and leaves an alert under one id, or two across the boundary of a
  bucket, however often and on whatever replica it is processed; an alert is suppressed only for another one that exists; an acked event
  that scores high enough has been sent to triage;
* correlation: two tactics on one entity become an incident whichever replicas saw
  them; an incident has one id for the life of its track; a replica never removes a
  peer's entry; the last document of an incident is complete;
* collectors: what the spool accepted is replayed, in order, across outages and
  kills; every datagram is in one counter, but for one that a stop may discard;
* access: an admin who may log in always remains; no request acts with authority its
  account has lost; a one-time code works once; password guesses are bounded;
* AI triage: one verdict per event; permits do not leak; every request is answered.

## 2. Modules

| module | models |
|---|---|
| `RedisBus` | one topic of the Redis bus and `trim_acked`, one action per Redis command |
| `Delivery` | what the two worker loops share: workers, cap, outcomes, properties |
| `DeliveryContract` | the abstract specification: absent, queued, pending, done per group; done only with an outcome |
| `TopicWorker` | `_topic_worker` with a plain handler |
| `BatchWorker` | `_topic_worker` with a `handle_batch` handler, `_process_batch`, `_flush_gathered` |
| `DeliveryProofs` | theorems about `TopicWorker` and `BatchWorker` |
| `MemoryTopic` | one topic of the in-memory bus as its groups see it: state and promises |
| `MemoryBus` | the threads that consume it, one action per lock scope |
| `AlertContract` | what WS-3 promises about one stored alert: documents, acks, promises |
| `AlertIndexer` | that alert between indexer workers, OpenSearch and triage requests |
| `BulkIndexer` | the bulk path of every other document |
| `IndexerProofs` | theorems about `BulkIndexer` and `AlertIndexer` |
| `RedisWindow` | the sorted set of a Redis window counter, one operator per script |
| `WindowCounter` | the in-process window counter next to the Redis one |
| `BackendProofs` | theorems about the process-local backends, `WindowCounter` and `MemoryBus` |
| `Detector` | WS-4 replicas: evaluation, suppression, emission, cooldown |
| `DetectorProofs` | theorems about `Detector` |
| `Correlator` | WS-8 replicas: `ingest_alert` and `_update_track` on Redis |
| `CorrelatorProofs` | theorems about `Correlator` |
| `Ingest` | WS-1: UDP queue and workers, the dispatcher, the spool and its drain |
| `IngestProofs` | theorems about `Ingest` |
| `Access` | WS-3 request threads: login, lockout, TOTP, sessions, user administration |
| `AccessProofs` | theorems about `Access` |
| `AiTriage` | WS-5: consumer threads, lock map, cache, semaphore, pool, fallback |
| `AiTriageProofs` | theorems about `AiTriage` |
| `MC…` | constants for TLC |

`TopicWorker` and `BatchWorker` extend `Delivery`, which extends `RedisBus`;
`Delivery` and `MemoryTopic` instantiate `DeliveryContract` with a refinement
mapping, so the two buses are held to the same contract. `WindowCounter`,
`Detector` and `Correlator` extend `RedisWindow`. `MemoryBus` extends `MemoryTopic`
and `AlertIndexer` extends `AlertContract`; the state and the properties are apart
from the actions so that a proof module about two components can extend the one's
promises and instantiate its actions (`Mem`, `Alert`, `Batch`).

### State and actions against the code

*RedisBus.* A stream id is a number: the code only compares ids
(`_stream_id_lt`) and takes the next one (`_next_stream_id`). `delivered`, `pel`
and `times` are the group's last-delivered-id, its PEL and the XPENDING counter.
`trim_acked` is `TrimSnapshot` (XINFO GROUPS), one `TrimExamine` per group
(XPENDING) and `TrimApply` (XTRIM MINID), with everyone else free to run in
between; `TrimGiveUp` is the early return or the exception. Entries claimed after
they left the stream drop out of the PEL, as XAUTOCLAIM does.

*TopicWorker.* `pc` says which read comes next or that a pass is being worked
through; `inbox` is what the generator has yet to yield, `cur`/`count` the message
in the handler and its delivery count, `acks` the deferred acks. A claim pass is
one XAUTOCLAIM of an arbitrary set of pending entries: which entries are idle long
enough is time, so any set may be; the several rounds of 50 of `claim_pending` are
one claim. `HandleOk`, `HandleFail` and `DeadLetter` are the three results of
`_process_message`. Faults: `BusError` (a bus call raises, possibly after part of
the ack pipeline was applied), `ReadLost` and `ClaimLost` (carried out, answer
lost), `DeadLetterError`, `Break` (shutdown) and `Crash`.

*BatchWorker.* Same reads; `batch` is `batch_entries`. It keeps its contents after
the remainder was processed, as the code does, so an error in the ack flush sends
the processed batch through `_flush_gathered` again. The group exists from the
start (creating it is `TopicWorker`'s `Register`).

*MemoryBus.* A lock scope is a step. `consume` is `ConsumeClaim` and
`ConsumePend`; `trim_acked` holds `_seq_lock` throughout. The two nested loops of
the runner are `Process` and `AckBatch`. `pel[g]`, a dict, is a set of ids with their
places in it: `Filled` enters a batch behind what is there, `Evictees` takes the first
places. `handed`, `outcome` and `batchOf` are history. `TopicKeepsContract` maps this
state to the contract: an entry between the locks of `consume` is pending although it
is in no pending list, and one the cap evicts counts as given up.

*AlertIndexer.* A document is a version, the message whose payload it holds and
the set of analysts whose update it contains. A GET is real time, a search sees
the last `Refresh`. `ipc` is the handler's next store request: `mget`, `bulk`,
then for unknown or conflicting alerts the loop `get`, `drift`, `create`/`cas`.
`alertAcks` are the messages the group has acked.

*BulkIndexer.* `pending` holds the coalesced items with the messages that share
their outcome; a request is answered item by item (`BulkAnswered`) or raises after
any part of it was applied (`BulkRaised`). The messages of `Unroutable` are those
`route()` refuses (no tenant or sector it knows, no id): they get no item and are acked
with the rest of their batch, or alone (`DropBatch`); `AckedIsStored` names them. The
alert path drops an alert without a route in the same loop; `AlertIndexer` is about one
alert that has one.

*WindowCounter.* `w`, `live`, `last`, `exp`, `heap`, `hits` are the counter's maps
(`_w`/`_dw`, `_live_members`, `_last`, `_exp`, `_heap`, `_hits`); a key belongs to
one rule, hence to one of `_w` and `_dw`. `Hit` and `HitDistinct` are the whole
calls: eviction, insertion or re-stamping, compaction, `_touch` and `_sweep`
(`Finish`). `redis` receives the same calls. The heap is a set: a second entry
with the same deadline and key changes nothing. The stable sort of a re-stamped deque
puts each entry at its rank (`Place`). The key just hit has a deadline
in the future and is never swept by its own call. `Expire` is Redis' EXPIRE: it goes by
the wall clock, event times lag behind it by any amount, so it may fall between any two
hits. `swept`, `lapsed` and `tardy` are history variables for the keys one backend alone
has forgotten, by the limit `_sweep` documents or by the EXPIRE, and for those hit again
so far in the past that the dropped entries would still have counted. A call without a
member is not modelled: `_plan_stateful` falls back to the event's time
(`engine.py:1056`), and only the behavioural baselines pass none.

*Detector.* A handler goes through `eval` (one window call per step, other
replicas in between), `mine`/`theirs` (the two reads of `_covered`), `Emit`,
`funnel` (check and produce), `record` (one kept rule's cooldown per step) and `ack`.
A cooldown table is a set of keys with their times and places. Whether a rule's condition holds and
is enabled for the tenant is the constant `Matching`. Events have their own time
and a receipt time; `WindowTime`, `Valid` and `PlanTime` are the clamp, the plausibility
check and the minimum with the wall clock, and an alert's id (`AlertKey`) has the bucket
of `WindowTime`. `Tick` is the wall clock
and Redis' EXPIRE. `EmitRaises`, `EnqueueRaises`, `Raise` and `Crash` are the
failures; `Take` redelivers whatever is not acked, also an entry another replica
is still busy with. Routing keeps the weights, the gated floors and the two
thresholds; OT exposure points are left out.

*Correlator.* Every Redis command is a step, a Lua script or a MULTI block is one
command. `win` (with `wexp`) is the window's sorted set, `side` the HASH of member
entries, `first`, `trunc` and `tac` the meta HASH and the SET of tactics (they expire
at `texp`), `cid` the incident id (`cexp`). For each entity of its alert, a worker
goes through `Hit`, `Record`, `Snapshot`, `ReadMembers`, `Prune`, then
`Evict`/`MarkTruncated` or `WithinCap`, `Bind` when two tactics were seen, and at
last `Emit` and `Ack`. `Abort` is a Redis error or a crash before any command,
`Again` an alert that comes a second time, `Tick` the clock and the expiry of keys.
The tracks of an alert (actor, ip, device) are different ones. One replica at a time
has a given alert (`Take`): two that handle it at once, after a claim of an entry that
is still held, are left out, as is an alert without a tactic, which adds an entry and no
tactic.
History variables: `hitAt`, `gen` (lives of a track), `raced`, `capped`, `tardy`,
`robbed` (a peer deleted a replica's entry between its record and its snapshot).
A worker holds an alert for at most `MaxStall` ticks, which is below the horizon.

*Ingest.* Datagrams are numbered as they arrive. `hand` is the receive thread: `Recv`
(`recvfrom`), `Check` (the look at `_running` after it) and `Put` are steps, with `stop()`
possible between them; a datagram it discards because of a stop stays in `hand`. The
socket's close need not wake it (disagreement 7), so it may receive one more after `Stop`.
`job[w]` is a worker inside `handle_line`; a token is there or not (`TakeToken`), a
produce succeeds or fails with the bus. The spool file is a sequence of lines, the last one possibly without its
newline (`open`); `tailGood` is `_tail_known_good`. `SpoolAppend` is the whole of
`append`, its torn and failed writes included. `DrainStart` reads the file under the
spool's lock, `Replay` and its alternatives run without it, `Rewrite` takes it again
and puts back what is left and what was appended since. `Stop`, `StopQueue`, `Die`
and `Restart` are `stop()`, a kill and `BoundedSpool.__init__` of the next process. A
`handle_line` that raises, which it promises not to, is not modelled.
History variables: `accepted`, `damaged`, `arrived`.

*Access.* `row` is the users table, `sessions` the session table, `attempts` the
limiter: the failures of an account with their times and the requests that made them. A request is a thread's `job`; every statement that takes the store's, the
limiter's or the sessions' lock is a step. Login is `Login` (the lockout check),
`Password`, `RecordFailure`/`RecordSuccess`, `TotpMatch` and `TotpCommit` (read and
compare-and-set of the last accepted time step), `CreateSession`. Other requests are
`Request` (the session), `CheckAccount` (the row and role) and what the route does.
`MfaReauth` takes its limiter check and the password check as one step, on a limiter key
of its own (`mfa:<user>`; a login with that very name would share it). A `get_user` or
`invalidate` that raises refuses the request and is left out.
History variables: `guesses`, `steps`, `changes`.

*AiTriage.* `lockOf` and `lockOrder` are `_key_locks`, `cache` the verdict cache,
`permits` the semaphore, `tasks` and `pool` the executor, `available` the fallback's
view of the model server. `Complete` is the end of a task: the cache entry, the
released permit and the future's result; between the last two, one more request may be
admitted in the code. `SubmitFails` is a `submit()` that raises: the permit is given
back, and the task may be in the executor's queue all the same, as a stray nobody waits
for (`ThreadPoolExecutor.submit` queues the item before it starts a thread, which can
fail). `published` and `calls` are about the running process, since the cache does not
outlive it; `calls` counts analyses that came to a verdict. `excused` records events that
fell out of a full cache or lock map or have a stray task, `extra` counts the strays.

## 3. Runs

| run | instance | shows |
|---|---|---|
| `topic_worker` | 2 groups, a worker each, 2 messages, one unparseable, cap 1, 1 fault | `NothingLost`, `SafeInv`, `TrimRemovesOnlyFinished`, `KeepsContract` |
| `topic_worker_shared` | 2 workers of one group that is not registered yet, 1 message, cap 2, 2 faults, fairness | `RunsCapped`, `EverythingSettles`, `FinishedIsTrimmed` |
| `batch_worker` | 3 messages, batches of 2, one unparseable, 2 faults | `KeepsContract` |
| `memory_bus` | 2 threads of one group, 3 messages, cap 1 | `OverCapIsOneBatch`, `TopicKeepsContract` |
| `alert_indexer` | 2 indexers, 1 analyst, 2 emissions on either side of midnight, 1 fault, fairness | `AckedAlertStored`, `OnlyCreateErases`, `EveryEmissionAcked` |
| `bulk_indexer` | 2 documents, 2 creates, 4 upserts, one of them without a route, batches of 3, 4 faults | `AckedIsStored`, `ScoreNeverStripped`, `LastOfBatchWins` |
| `window_counter` | a counting and a distinct-count key, 2 members, times 1..4, windows 1 and 2, 4 calls, 1 reload, a sweep every 2 calls, keys expiring at any time | `CountsAgree`, `MirrorExact`, `SweepKeepsLive`, `SweepLeavesNoIdleKey` |
| `detector` | 4 rules (per address, its companion per account, distinct values, stateless); 1 replica with 3 events or 2 with 2; 1 fault, 1 redelivery, 6 ticks, a cooldown table of 2 | `AckedIsTriaged`, `NeverFabricated`, `BurstIsCounted`, `BurstIsOneIncident`, `SuppressionHasAlert` |
| `correlator` | 2 replicas, 3 alerts of 2 tactics, one of them dated and two without a usable time, 2 tracks, horizon 2, entry cap 2, clock to 4, 1 fault | `TwoTacticsPromote`, `OneIdPerTrack`, `FreshEntryKept`, `LatestIsComplete` |
| `ingest` | 4 datagrams, one empty, 2 workers, a queue of 1, a spool of 2 lines, 2 faults, fairness | `AcceptedIsKept`, `ReplayInOrder`, `EveryDatagramCounted`, `SpooledIsReplayed` |
| `access` | 2 accounts, 2 threads, 5 requests, 2 attempts per window of 1, clock to 3 | `AdminRemains`, `NoStaleAuthority`, `StepAcceptedOnce`, `GuessesBounded` |
| `ai_triage` | 4 requests (two of one event, one without an id, one light), 2 threads, 1 pool thread, no waiting room, a cache of 1, 1 fault, fairness | `OneVerdict`, `PermitsExact`, `EveryRequestAnswered` |

Why the bounds are enough. A trim goes wrong on a pair of entries, one finished
and one not, seen by two groups: two messages and two groups. The redelivery cap
concerns one message and two workers that hold it at the same time. A batch fills
up and leaves a remainder with three messages and batches of two. Compare-and-swap
conflicts need two writers and a third to keep them busy. A window counter goes
wrong on a late or repeated member next to another one, then a sweep by another
key: two members, two keys, four calls with a sweep at the second and the fourth.
A detection needs a burst of two, a companion with another key, and a third event
from elsewhere that makes the two disagree; the burst's record times lie on both sides
of a bucket's boundary, one of them forged, so that two ids and a third one could occur. A track goes wrong between two replicas
with a third alert that makes the cap bind or brings an older time, and a horizon
short enough for keys to expire within the clock's bound. A spool of two lines is
full with two events and refuses the third, while a drain that has replayed the first
meets an append. An account is in danger when one request demotes it between two
steps of another; five requests are two logins, a creation, a change and a use. A
pool of one thread and no queue makes the second request wait. `TypeOK` of every
module was checked on these instances too; among the runs' properties it appears only
inside `SafeInv`. Faults are counted
(`MaxFaults`) so that the liveness properties say what happens once the faults
stop. Versions are bounded by the number of writes; clocks, calls, reloads and
redeliveries have bounds of their own (`MaxTime`, `MaxClock`, `MaxHits`,
`MaxReloads`, `MaxRedeliveries`, `MaxDatagrams`, `MaxRequests`). Runs with such a bound stop there, so they do not
check for deadlock.

Fairness. `serve` runs each worker until shutdown and restarts it after an error,
handlers return or raise, so a worker that can step does (`WF` on `Worker(w)`).
An unacked entry ages past `claim_idle_ms` and the worker polls for ever, so an
entry that can be claimed again and again is claimed (`SF` on `ClaimsEntry`). The
reaper is a loop with a fixed interval (`WF`). The spool's drain thread is such a
loop too (`WF` on `DrainStep`); `stop()` runs to its end and the process then exits
(`StopQueue`, `Die`); a process that is down is started again (`Restart`:
`restart: unless-stopped` in `infra/docker-compose.yml`); an outage of the bus ends
(`BusBack`), without which nothing can be delivered. In WS-5, consumer and pool
threads run (`WF`), and a thread that waits for a lock or a permit that is released
again and again gets it (`SF` on `Lock` and `Admit`: both calls block, and each
release wakes a waiter). Faults, producers, analysts and index refreshes have no
fairness.

## 4. Disagreements noticed

Where the code and its comments or documents part. No run is kept for them; where a
property depends on one, its definition names the exception.

1. `trim_acked` of the in-memory bus (`shared/bus.py:420`) deletes the cursor of a group
   that has read the whole stream. A later trim does not count the group any more and
   removes entries it has never seen: two groups read message 1, a trim, one reads
   message 2, a trim, the other never receives it. The class says that each group
   receives every message. The `memory_bus` run has one group, and
   `OneGroupKeepsContract` has that hypothesis.
2. `trim_acked` of the Redis bus (`shared/bus.py:735`) is said to be safe against a group
   that appears after its snapshot; a group created at id 0 in between loses the entries
   the XTRIM removes. `TrimRemovesOnlyFinished` is about groups that are registered.
3. A new alert is written unconditionally (`ws3-indexer/main.py:333`), though the comment
   says the CAS path resolves concurrent writers: of two workers creating it, the slower
   one erases an analyst's update made in between. `OnlyCreateErases` says that nothing
   else does.
4. WS-4's companion suppression (`ws4-detection/main.py:346`) relies on a redelivered
   event matching its rules again. It need not: the window key expires `window_s + 1`
   seconds after its last hit, and a failed entry is only claimed after `claim_idle_ms`
   (60 s by default). A 60-second rule whose alert could not be produced can find its
   window empty on redelivery; the event is then acked without that alert.
5. The reaper's docstring calls the in-memory `trim_acked` a no-op, which it is not (this
   is what makes 1 reachable). After a failed ack flush the batch loop does not wait for
   redelivery, as its comment at `runner.py:421` says, but `_flush_gathered` hands the
   batch to the handler again at once. `record_enqueue` says it evicts the oldest
   entries, but a key recorded again keeps its old place in the dict and may go first.
   `handle_batch` acks a document it cannot route, and unlike one that keeps failing it
   leaves no copy on a deadletter topic. Its docstring says so (`ws3-indexer/main.py:69`),
   a comment of the router speaks of dead-lettering (`ws3-indexer/router.py:48`);
   `AckedIsStored` names it.
6. WS-8. An error between the eviction and `mark_truncated` loses the mark: the retry
   finds the entries within the cap. Two replicas that update a track at once may produce
   their documents in the opposite order, the older one last (`raced` in
   `LatestIsComplete`). With the cap binding, a replica may evict the entry of an alert
   whose own replica has recorded it and not read the track yet, and then die: when the
   entries it kept age out first, the update finds no live entry and promotes nothing
   (`robbed` in `TwoTacticsPromote`; the proof failed on it and TLC confirms it with five
   alerts and a cap of one). A comment of the router says that first_seen never changes once
   set; an alert with an older event time lowers it. The design document says that a
   replica cannot prune a peer's fresh entry; it can when an alert comes back after its
   member has left the window (`tardy` in `FreshEntryKept`).
7. WS-1. After a failed partial write `_tail_known_good` is still true, so the next line
   is glued to the torn one and both are lost to the drain; when the drain's second read
   fails, the lines appended since the first are dropped (both are in `damaged`). A
   datagram `recvfrom` has returned when `stop()` clears `_running` is thrown away and in
   no counter (`syslog_udp_server.py:378`), where the comments of the stop (lines 414 and
   479) want none discarded uncounted; it may come after the stop too, since on
   Linux closing a socket does not wake a `recvfrom` another thread is blocked in.
   `EveryDatagramCounted` allows for that one. The HTTP collector answers 202, "accepted for later delivery", for events it spools, and
   nothing drains its spool; it answers 202 for a rate-limited event too.
8. Users. Logout invalidates the session before it is looked up for the audit entry, so
   the entry is never written. A login with a code that races `enable_totp` activates a
   secret nobody has confirmed. No route calls `confirm_totp`. A password change leaves
   the account's sessions as they are.
9. WS-5. `ai_llm_fallbacks` is said to be exposed and `_metrics_provider` does not. A lock
   that is held may fall out of the lock map, after which two threads analyse one event
   (`excused` in `OneVerdict`). Verdicts are not shared with the next process. The comment
   at `ws5-ai/main.py:244` says that `handle` releases the permit only when the task never
   ran; a `submit()` that raises after it has queued the task (the start of another pool
   thread failed) releases it and so does the task, after which the bound is one higher
   for good (`extra` in `PermitsExact`).
10. `_window_time_of` (`ws4-detection/engine.py:338`) says that a burst that arrives
   together is counted in one window whatever times the log author forges. For a rule
   with a window above 600 s (the repository has rules of 3600 and 86400 s) it is not:
   the clamp trusts a record time up to min(600 s, half the window) from receipt
   (`engine.py:361`), and `_valid_window_time` then refuses one more than
   `_MAX_CLOCK_SKEW_MS`, 300 s, ahead of the clock (`engine.py:379`), so an event whose
   author wrote a time 300 to 600 s ahead is not counted at all. The proof of
   `BurstIsCounted` failed on it, and TLC confirms it; the property names such events
   (`Refused`) and leaves them out.
11. `window.py` says that the in-process counter matches the Redis one. Besides the
   documented limit of `_sweep`, the Redis key expires `window_s + 1` seconds of wall time
   after its last hit, whatever the times of the events: a late event then finds the
   sorted set empty and the deque not (`lapsed` in `WindowCounter`). `CountsAgree` leaves
   out both.
12. A comment of `alert_key` (`ws4-detection/engine.py:811`) says that a redelivered burst
   that fires on an earlier event lands on the same id. The docstring above it admits two
   ids when the burst straddles a bucket, and the redelivery may then get the other one:
   `BurstIsOneIncident` says two neighbouring buckets, and the run has such bursts.

## 5. Proofs

Every theorem below holds for all values of the constants that satisfy the
assumption named in its module, the bounds (`MaxFaults`, `MaxClock`, ...) included.
They all rest on the same argument: an inductive invariant, one lemma per action and
part of it. What makes each invariant more than the property it serves:

`DeliveryProofs` (`RedisBusAssumption`, `DeliveryAssumption`):

* `TypeCorrect`: `TypeOK` is an invariant.
* `SafeInvariant`: `SafeInv` is inductive and consists of `TypeOK`; `StillRegistered`;
  `PendingWasDelivered` (only delivered entries are pending); `AcksAreEarned` (deferred
  acks have an outcome already); `TrimBoundSafe` (the half-computed boundary is at or
  below everything the groups examined so far still need, and the snapshot of the
  others is not ahead of them); and `NothingLost`. `NothingLost` alone is not inductive:
  an ack could come for an entry without outcome, and an XTRIM with any boundary.
* `AtLeastOnce`: `NothingLost` follows.
* `TrimIsSafe`: `TrimRemovesOnlyFinished`, when every group is registered from the
  start. Without that hypothesis it is false (disagreement 2).
* `ImplementsContract`: every step of the worker loop on the Redis bus is a step of
  `DeliveryContract` or leaves its status alone (`KeepsContract`). The mapping needs
  `TrimmedIsSettled` (what a trim removed maps to done) and `HeldWasDelivered` (a worker
  acks only what its group was handed), the invariant `ContractInv`.
* `BatchImplementsContract`: the same for the batched loop. What `ContractInv` says of
  the bus (`BusInv`) does not depend on the loop; `BatchInv` adds the gathered list:
  what a worker holds was produced, and its deferred acks have an outcome even when
  `_flush_gathered` works through the list a second time.
* `RedeliveryCapped`: `RunsCapped`. Comparing the handler's runs with the delivery count
  is not enough, since several workers may hold one entry: `RunsCounted` adds the
  workers that hold it and have still to run it, a cardinality, so the workers of a group
  are finitely many. `HandsClean` and `UnreadNotRun` complete `CapInv`.

`BackendProofs` (`ConstantsAssumption` of `WindowCounter`, `MemoryTopicAssumption`):

* `NoIdleKeyLeft`: `SweepLeavesNoIdleKey`. `SweepInv` is the types of the sweep's own
  state (`SweepState`) and `HeapCovers`, the comment's "every key in `_exp` has a heap
  entry whose deadline is <= its real one"; without it a due key need not be found.
* `BackendsAgree`: `CountsAgree`; `MirrorStaysExact`: `MirrorExact`; `SweepsOnlyIdle`:
  `SweepKeepsLive`. `CountInv` relates the two backends key by key (`Agrees`): the mirror
  of a counting rule is the sorted set, the newest time of each value in the deque of a
  distinct-count rule is its score there, a swept key has no deque and an expired one no
  sorted set; a key hit while one side is empty becomes `tardy` unless the hit trims all
  the other still has. The order of the
  deque (`Ordered`) makes front-only eviction remove what ZREMRANGEBYSCORE removes, and
  `LastCovers` makes a key's deadline cover its entries. What sorting yields is proved
  without induction: distinct ranks number a finite set (`RanksNumber`).
* `CapIsExceededByOneBatch`: `OverCapIsOneBatch`, for any groups. `MemInv` says that what
  is left of the stream are its newest entries and every cursor points into it
  (`StreamOK`), so that what a group reads was never handed to it; that what a thread
  has between the two locks is of one call, not pending yet, and nobody else's
  (`ThreadOK`, `PairOK`); and that ids and places of a pending list are distinct, so that
  the cap takes as many as it counts, or everything but the batch (`EvictIs`).
* `OneGroupKeepsContract`: `TopicKeepsContract` for a topic with one group. Besides
  `MemInv` it needs `NothingSkipped`: all the group has read was handed to it. The status
  of an entry is then determined by the length of the stream, the group's position and
  the live entries (`StatusIs`), and each action is a step of the contract on these
  three; a trim moves neither. With two groups `NothingSkipped` is not invariant
  (disagreement 1).

`IndexerProofs` (`BulkIndexerAssumption`, `AlertContractAssumption`):

* `AckMeansStored`: `AckedIsStored`; `ScoresStay`: `ScoreNeverStripped`; `LastUpsertWins`:
  `LastOfBatchWins`. `BulkInv` follows a batch through the retries: it is finite and what
  is pending are items coalesced from it (`BatchOK`), the messages of one item fail
  together or not at all (`OutcomesShared`), and a message whose item is no longer
  pending has failed, cannot be routed or is in the store (`WrittenOrFailed`).
* `AckedAlertsAreStored`: `AckedAlertStored`; `OnlyTheCreateErases`: `OnlyCreateErases`.
  `AlertInv` says that whatever a worker, an analyst or a search has read is behind the
  document (`WorkersBehind`, `AnalystsBehind`, `SearchBehind`): an older version, or this
  one with this content. A conditional write whose version still matches therefore
  carries every update over.

`DetectorProofs` (`ConstantsAssumption`: events are finitely many and thresholds
positive, as `tools/validate_rules.py` wants them):

* `BurstsAreIncidents`: `BurstIsOneIncident`. That the burst has fired is not enough, since
  the attempt that matched may fail before its alert is out and a later one match less.
  `IncidentInv` says of a countable burst that fills its window that it has an event
  which nobody evaluated before the window was full: every replica that has evaluated it
  matched, and so did the attempt that acked it (`Convinced`). What an acked attempt
  matched and kept is on the bus, and its sibling's alert for what it gave up. The ids
  follow from the clamp: window times of events received together lie within half a
  window of the receipt, hence in neighbouring buckets.
* `SuppressionsCovered`: `SuppressionHasAlert`. `JobGood` carries it through a delivery:
  what is dropped has a sibling that matched, and after the emission the alerts of all
  rules kept are on the bus. A sibling is itself kept because companions do not chain.
* `NothingFabricated`: `NeverFabricated`. `WindowsBacked` says that every entry of a
  sorted set stands for a delivered event of the rule and group, with a score no later
  than the event's own time; the count is then one of delivered members.
* `BurstsCounted`: `BurstIsCounted`. `BurstsOK` says of each burst received together
  that its entries lie within half a window of the receipt, so that none evicts another;
  that events a replica has behind it are in the set; and that a full set has fired.
* `AckedAreTriaged`: `AckedIsTriaged`. `TriageInv` says that a cooldown is on record only
  for a key some request names, and that a replica about to record or to ack has nothing
  left to ask for.

`CorrelatorProofs` (`CorrelatorAssumption`):

* `OneIdPerLife`: `OneIdPerTrack`. `IdsOK` extends it to the incidents a replica has
  built and not produced yet, which carry the id that is bound now if their life of the
  track is the present one; `TracksLast` says that a track does not expire under a
  replica that has recorded its alert, the reason no second id appears.
* `FreshEntriesStay`: `FreshEntryKept`, with `HitsOK` (what is counted and not aged out
  is a member, and what a replica is about to prune has aged out or came back late) and
  `EntriesOK` (an alert recorded since it was last counted has its entry, on a track
  that outlives the horizon).
* `TwoTacticsAlwaysPromote`: `TwoTacticsPromote`. `PromoteInv` follows two alerts of
  different tactics from the moment both are recorded: their incident is produced, or
  the replica of one of them is on its way to it with both tactics (`PairsOK`), which
  finds a live entry because its own is there (`Sees`).
* `LatestCompletes`: `LatestIsComplete`. `LatestInv` says of a track with two tactics that
  an update has still to read it, or one has read all there is and has still to produce,
  or the last document is whole and nobody holds an older view (`Complete`); without a
  race at most one replica holds a view (`Exclusive`).

`IngestProofs` (`IngestAssumption`):

* `DatagramsCounted`: `EveryDatagramCounted`; the hands of the receive thread and of the
  workers are places too, and the workers are finitely many. `OnePlace`: no event is in two places.
* `SpoolKeeps`: `AcceptedIsKept`; `ReplayOrdered`: `ReplayInOrder`. `SpoolInv` relates
  the file to what the drain read of it: the lines it has not replayed are still there
  (`SnapshotHolds`), in the order of acceptance (`OrderIn`, `PlayedInOrder`), appends
  during the drain included.

`AccessProofs` (`AccessAssumption`):

* `AlwaysAnAdmin`: `AdminRemains`; `AuthorityIsCurrent`: `NoStaleAuthority`;
  `TotpStepsRise`: `StepAcceptedOnce`, with `StepsSeen`, a row's last step is the
  largest one accepted, and the types of rows, counters and requests (`BaseInv`).
* `GuessesAreBounded`: `GuessesBounded`. The limiter is checked before the password and
  told after it, so the recorded failures do not bound the guesses. `GuessInv` bounds
  the failures in the window together with the logins past the check (`PlayBounded`): a
  login passes only below the limit, and at most one per thread is under way. Each
  guess of the window is one of these (`GuessesCarried`), and no login guesses twice.

`AiTriageProofs` (`AiTriageAssumption`: requests, threads and the pool are finite):

* `SemaphoreExact`: `PermitsExact`. `TasksWait` says that queued and running tasks are
  those of threads that wait for them, one per thread, or strays of a failed `submit()`.
* `VerdictIsOne`: `OneVerdict`. `JobGood` says what a thread knows at each point of
  `handle()`, the lock it holds included; `CallsCached`: what was published is
  in the cache, unless excused, and nothing was analysed twice; strays are excused. A new lock object differs
  from those in use because a finite set of numbers leaves one out.

Where a proof needs an induction over a finite set or a list, it takes the least or
largest element of a set of positions, or numbers a set by rank, since the prover cannot
instantiate the induction theorems. Filters and folds of lists are out of its reach for
the same reason; the model states such tables as sets with places.

Two proofs failed on the first statement of the property, each for a reason in the code
that a larger instance then showed: `BurstIsCounted` (disagreement 10) and
`TwoTacticsPromote` (6).

Only model-checked is liveness, which is outside the prover's reach: `EverythingSettles`
and `FinishedIsTrimmed` for the plain loop, `EveryEmissionAcked` for the alert indexer,
`SpooledIsReplayed` for the spool, `EveryRequestAnswered` for WS-5.

## 6. Plan

Every invariant and action property of the runs has its theorem. Modelling that is left,
in this order:

1. `Resolver` (WS-9): alias maps between replicas, as `Correlator` does for tracks.
2. `RuleReload`: the fingerprint watcher and the swap of the rule set during `process`.
3. Key rotation and revocation (WS-6).
4. `FairConsumeBus` and the Sentinel client's retried commands as wrappers of
   `RedisBus`.
5. `Correlator` composed with `BulkIndexer`: which of two versions of an incident the
   store ends up with.

## 7. Not modelled, and why

* Parsers, enrichment, rule conditions, prompts, reports, evidence packages and
  templates: functions of one document to another, without state or concurrency.
  They are covered by the repository's tests.
* HTTP servers, sockets, TLS, syslog over TCP, the HTTP collector and the dashboard:
  input and output. Behind the TCP collector is the dispatcher `Ingest` models.
* The offline tools, the evaluation harness and the digital twin (`tools/`, `eval/`):
  sequential scripts that generate and score reports, more than half of the
  repository's Python and no part of the running system.
* The language model and OpenSearch's own behaviour beyond versions, refresh and
  per-item results.
* Health, metrics and depth listings: they read state and change none.
* Periodicity rules and OT exposure points of WS-4: statistics and constants added to
  a score, which no property here tells apart.
* Campaigns, timelines and graphs of WS-8, derived from the documents `Correlator`
  produces; tenants, CSRF tokens and password changes of the triage API.
* Hazards seen and not covered: a batch that kills the process raises the delivery
  counters of its neighbours (`runner.py:349`); `_times_delivered` answers 0 for an entry
  acked meanwhile (`bus.py:616`); a produce repeated after a failover adds the entry twice
  (`bus.py:890`); a classifier-tier request starts the cooldown of its alert key
  (`ws4-detection/main.py:526`); the reload watcher remembers a fingerprint before the
  reload has succeeded (`ws4-detection/main.py:643`).
* The components marked `not_modelled` in `PROJECT.json` and named in the plan are
  left for later.
