# TLA+ models of the Revenium Python SDK

The SDK wraps AI providers' clients, reads the usage of every call and reports it
to Revenium as *usage records*. It must never fail, block or slow the customer's
call, so almost everything difficult in it happens behind that call: a bounded
queue and worker threads, a circuit that stops sending while the endpoint is down,
a store-and-forward buffer that replays later, an exit drain with a time budget,
and a poller that keeps spending caps up to date for a check made before each call.

All paths below are relative to `src/revenium_middleware/`.

## 1. Inventory

| component | state | operations | speaks to | what is hard | correct when |
|---|---|---|---|---|---|
| delivery circuit, `_core/delivery_circuit.py` | failure count, open flag, next probe time | `allows_send`, `record_success`, `record_failure`, `is_open` | asked by the workers, told by workers and buffer | outcomes of overlapping sends, in any order | open iff the last outcomes failed; probes rationed |
| worker pool, `_core/metering_pool.py` | queue, slots, two counters, worker list, overflow episode | `submit`, worker loop, `wait_until_idle`, `stop` | hands overflow to the buffer, settles tasks | unlocked steps, re-entrance by finalizers, worker death, stop | no slot or count leaks, waits answered truly, no lost wake-up |
| store-and-forward buffer, `_core/metering_buffer.py` | two deques, builds in progress, build thread, flush lock, counters | `push`, `push_overflow`, `flush`, `materialize_overflow`, `build_all_overflow`, `stats` | circuit, status, HTTP client, exit drain | takeover of builds, deadlines, eviction under a flush, two endpoints failing apart | each record leaves once with one outcome; order kept; bounded; counted |
| exit drain and flush, `_core/metering.py` | `shutdown_event`, the running drain | `flush_metering`, `drain_or_await_exit` | pool, then buffer | one budget for every wait, SIGTERM in the middle | ends; warns unless all was sent |
| signals, `_core/shutdown_signals.py` | the deferred signal | SIGTERM handler, `terminate_if_deferred` | exit drain | runs on top of the drain it asks for | the process ends, and not under a drain that goes on |
| submission, `_core/metering_submission.py` | none of its own | `submit_ai_event`, `is_retryable_failure` | circuit, buffer, HTTP client | which failures are held, which dropped | every outcome reaches the circuit; nothing dropped that a retry would bring home |
| HTTP client, `_metering/_base_client.py` | none across calls | `request` with its retries, one method per endpoint (generated) | the metering endpoint | an answer lost after the backend has stored the record | a retry carries the first request's key |
| status, `_core/metering_status.py` | counters, subscribers | record, subscribe, snapshot | called by all | callbacks that call back | never called under another lock |
| spending caps, `_core/enforcement.py` | cached rules, owner, cooldown, poller, snapshot on disk | `check_enforcement`, refresh, `stop_polling` | HTTP, disk, every wrapper | owner switched mid-fetch, slow disk, lost wake-ups | a call is judged by its own team's rules, never the network's speed |
| call ownership, `_core/call_ownership.py`, `openai/langchain/` | claim counters, publications, response ids, run infos, run groups | publish, take, claim; `on_llm_start` ... `on_llm_end`, abandoned runs | LangChain callbacks, wrappers, transports | order chosen by the framework; child tasks with copied contexts; failed and cancelled batches | one record per call, with its own attribution |
| contexts, `_core/context.py` | contextvars, the block's counter `_issued` | `next_idempotency_key`, context managers | every record | one block drawn on by workers and flush thread | one key per record |
| jobs and outcomes, `job_context.py`, `_core/outcomes.py` | entity version, report flag, last error, HTTP client | report, amend, append, enter and exit, sync and async | HTTP | lost answers, conflicts, a worker that outlives a cancelled exit | no write applied twice, none over an outcome its handle has not seen, true answers |
| fal ledger, `fal/_queue.py` | tracked calls, claimed ids | track, claim | fal handles | races of fetches, eviction | one record per job |
| LiteLLM, `litellm/` | registered owner | guardrail, callbacks | proxy | both attached | one record per request |
| provider integrations | none shared | wrap, read usage, submit | pool, ownership, caps | shape of vendor data | the record says what the vendor said |
| field, cost, token helpers; config; redaction; generated HTTP client; webhooks | none | pure functions | | | |

`PROJECT.json` lists the same parts with their files and status, and under
`hazards` the places where this code is hard to test, each with the properties
that guard it or the reason none does yet.

### How a record travels

`run_async_in_thread` wraps the coroutine that builds and sends a record in a
`MeteringTask` and submits it. With a free slot it is queued; a worker asks the
circuit, sends it and reports the outcome, or has its event built into the buffer
unsent. Without a slot the task itself overflows into the buffer and the flush
thread builds it there. A send that fails in a way worth a retry pushes its event
into the buffer as well. The flush thread, `flush_metering` and the exit drain all
flush: build the waiting tasks, take the flush lock, replay batch by batch, return
what could not be sent. At exit the queue is drained, the buffer's tasks are built
(the exit takes over builds others have begun), `shutdown_event` is set, and a last
flush ends with a count that decides whether the exit warns.

## 2. Modules

| module | models | kind |
|---|---|---|
| `DeliveryCircuit` | the circuit, its senders and the replays that report to it | machine |
| `DeliveryCircuitProofs` | theorems about it | proofs |
| `MeteringPool` | tasks, slots, workers, waiters, stop | machine |
| `MeteringPoolProofs` | theorems about it | proofs |
| `DeliveryContract` | what the buffer promises of a record | abstract specification |
| `MeteringBuffer` | the buffer, its builds and build thread, its flushers, the end of the exit drain | machine, refines `DeliveryContract` |
| `MeteringBufferProofs` | theorems about it, the refinement among them | proofs |
| `EnforcementCache` | the spending-cap cache, its snapshot, the poller, the checks, `stop_polling`, restart and fork | machine |
| `EnforcementCacheProofs` | theorems about it | proofs |
| `RecordDelivery` | records from the call to the backend: worker, client retries, replay, network, backend, around the circuit | composition, extends and refines `DeliveryCircuit` |
| `RecordDeliveryProofs` | theorems about it, the refinement among them | proofs |
| `ExitDrain` | `handle_exit` on several threads, SIGTERM, exceptions, `flush_metering`, the drain's stages | machine |
| `ExitDrainProofs` | theorems about it | proofs |
| `CallOwnership` | the LangChain callback, the wrap and the call ownership between them | machine |
| `CallOwnershipProofs` | theorems about it | proofs |
| `JobOutcome` | outcome calls on one job, their transport, the with block and its clients | machine |
| `JobOutcomeProofs` | theorems about it | proofs |
| `MC...` | small instances for TLC | |

### DeliveryCircuit

`failures`, `isOpen` and `probeIn` are `_consecutive_failures`, `_open` and the time
left until `_next_probe_at`; the code only ever compares the latter with the clock,
so a distance is enough. `Grant` and `Refuse` are the two answers of `allows_send`,
`RecordSuccess` and `RecordFailure` the two reports. `sending` holds what each
worker has on the wire, so an outcome may be recorded long after the circuit has
changed its mind. The counter saturates at `FailureCap`: the code compares it with
the threshold only.

### MeteringPool

`place[t]` is the point of the code task `t` has reached. Only what a lock, or a
container whose operation is one C call, makes atomic is one step: taking the slot,
counting, and queueing are three (`TakeSlot`, `Count`, `Put`), an overflow charges
the counter, registers its callback and is handed over (`Charge`, `Watch`,
`HandOver`), a worker takes, gives the slot back, ends the overflow episode, runs and
finishes. A finalizer that submits inside another submit is one more submit, which
finds `_ensuring_workers` set (`ReenterEnsure`). `stop` discards tasks beside the
workers. `wait` holds the waiters on the condition `_idle`, woken by `NotifyIfIdle`
exactly where the code notifies. `owed` is a history variable: the tasks accepted
and unsettled when a wait began. `Disturbances` turns stops, worker deaths and
refused threads on.

### MeteringBuffer

A record enters as an event of its endpoint (`Push`) or as a task (`PushOverflow`).
`events` and `parked` are the deques, `batch` what a flush has taken out, `builds`
the `_OverflowBuild` objects: `tasks` not begun, `current` the one being built,
`built` whether it has appended its event, `stopped`, and `mode`, which says who
runs it (`held` by its flusher before it is handed over, `queued` at the build
thread, `own` thread, `inline`) or that it is `over`: forgotten by the buffer, still
running. `jobs` is the queue of the build thread.

A flusher (`FlushThread`, a caller of `flush_metering`, the exit) walks through
`flush` with `pc`; each step is what the code does under one lock. The steps of the
code with a name keep it (`TakeBatch`, `SettleReplays`, `Unpark`, `BuildAllOverflow`,
`ReturnToFront`). `stage` says which of a flusher's builds it is at: the exit's
takeover, the tasks it found first, or the late ones its replay met.

Time is not a number. A record may grow too old (`GrowOld`) and a deadline may pass
(`Deadline`) at any moment, which includes every order the real clock can produce.
A replay is a choice between delivered, refused for good, worth a retry and, after
the deadline, not tried. Left out because nothing here tells it apart: HTTP, the
cache of replay clients, the log, `_was_full`. The threads of one batch settle
together, as the flush that waits for them does; one that outlives the deadline may
deliver a record that is already back in the buffer. What then happens at the backend is
the module `RecordDelivery`.

`DeliveryContract` keeps only which records are held and how each left. The
mapping takes as held the records found anywhere in the deques, the batch, the
builds and the hand-backs (`Present`), so a record that slips out of all of them, or
comes back after it left, breaks the refinement. `EachRecordInOnePlace` says of the same
places that none shares a record with another: the line `batch \o parked \o events`, the
unfinished tasks of each build, and what each flusher is about to hand back.

### EnforcementCache

The module is about whose rules are where, and when they are asked for. A team is an
owner of the cache (an enforcement address and a team id), and rules are reduced to
the team they are for and the version the server had. `rules`, `departments`, `fresh`,
`cacheOwner`, `cooldown`, `cooldownOwner` are `_cached_rules`, the department maps,
the age of `_cache_timestamp`, `_cache_owner`, `_refresh_cooldown_until` and
`_refresh_cooldown_owner`; `NoRules` stands for a cache not initialised and for no
maps, `Torn` for a file truncated and not yet written. `team` is what
`_current_owner()` would answer now; the process may change it at any step
(`SwitchTeam`).

`checks[c]` is where a caller is in `check_enforcement`: `forget` and `wake` are
`_forget_another_owners_rules` after its unlocked comparison, `load`, `read`,
`departments` and `install` the one load from the disk, `ensure` the start of the
poller, `rules` the read under the lock by which the call is judged, `nudge` the
wake-up after it. `poller` is `_poll_loop` around `_refresh_cache`, with the locals of
the refresh: the owner is read when it begins (`BeginRefresh`) and the target of the
request is read again (`BeginFetch`), as the code does; the owner is compared twice,
without the lock (`RecheckOwner`) and under it (`InstallFetched`). A snapshot is
written in four steps, maps before rules, each file truncated first (`Save`); any of
them may fail, and the process may die between them (`Restart`).

A step is what a thread does under one lock, or between two reads of shared state; two
reads of the environment in `_current_owner` are one. Time is not a number here
either: the cache may expire, a wait may end and a backoff may pass at any moment.
Judging a call by the rules it read, the once-only warnings, the retries inside one
fetch and the recovered address are left out. A fork is followed in the child; it
happens between lock regions, and what a half-written file of the parent becomes is
not followed. `heldOff` (the team whose failed fetch is being waited out) and `during`
(the teams the process had during a check) are histories for the properties.

### RecordDelivery

The module EXTENDS `DeliveryCircuit` and adds what happens around it, so that each of its
steps is a step of the circuit or leaves it alone. `place[r]` is where a record is:
`queued` or `overflowed` after the call, `allowed` or `deferred` by a worker that has
asked the circuit, `sending`, `held`, `replaying`, and in the end `delivered` or
`dropped`. `issued` is the counter `_issued` that the copies of a context share,
`key[r]` the number under which the record was built (`order-42` is 1, `order-42:2` is
2). A record draws its key when a worker or the flush thread builds it (`DrawKey`), as
in the code, not when the call is made.

`wire` holds requests on their way, `working[k]` the request the backend is working on,
`answer[r]` the answer to the request somebody waits for. A request whose caller has
stopped waiting goes on with `live = FALSE` (`Abandoned`): it may still be stored, which
is how one call can reach the backend twice. `Retried` is `_should_retry` of the client,
`Retryable` is `is_retryable_failure`: of the two 409s, "still working on it" carries
Retry-After and is held, "the key belongs to another record" does not and is dropped.
`TakeBatch` is `_batch_limits` with the circuit open or closed, `SettleBatch`
`_settle_replays`, with one report to the circuit for the whole batch. The backend is
external: `Arrive` and `Process` state what an Idempotency-Key means there.

### ExitDrain

`stack[t]` is a thread's calls, the innermost last. A SIGTERM pushes its handler on
whatever the main thread is doing, a drain included; an exception marks the top
call `raised` and `Unwind` takes it off, through the `finally` of each drain.
`drains[d]` is an `_ExitDrain` with its thread, `over`, whether its deadline has passed
(`late`), and, as histories, whether it ran to its end and the records it owes. `running`
is `_running_exit_drain`. `Enter` is the acquisition of the reentrant `_exit_lock`;
`Join`, `AlreadyDrained` and `StartDrain` the three ways out of
`_start_or_join_exit_drain`. The stages of `_drain_within` are `queue`; `take over` and
`overflow`, the two halves of `build_all_overflow`; `flag`; `lock` and `flush`; and
`remaining` and `in build`, the two reads of the count. `SetOver`, `EndDrain` and
`TerminateIfDeferred` are the `finally`, in the order of the code.

Pool and buffer are reduced to the place of each record. An overflowed task is in the buffer
(`overflow`), in a build registered by a flush (`taken`), handed to the build thread
(`handed`), in the drain's own build (`taken over`), being built, or reclaimed and not yet
put back (`returning`); `batch[t]` is what the flush on thread `t` has taken out, `exiting`
is `_exit_build_started`. `Undelivered` and `InBuild` are the two counts: a returning task is
in neither. `call tasks` ... `call flush` are the steps of a flush beside the drain, that of
a caller of `flush_metering`, which has a deadline, or of the buffer's own thread, which
has none and goes on replaying until the flag is set. A build that has begun goes on past
the takeover, the deadline and the flag (`EndBuild`), pushes its event then, or skips itself. Two
histories name what the counts and the takeover cannot see: `missed`, per drain, the tasks
that were returning at its takeover, and `adrift`, the records another thread moved between
the two counts, was putting back at the first, or whose build skipped itself.

### CallOwnership

A run is one model call of a LangChain chat model. `kind[r]` says how it is made (in
line, batched by `generate`, in child tasks by `agenerate`, or streamed), whether its
client is wrapped, and the providers its callback publishes for; `pc[r]` how far it is.
`claims`, `published` and `taken` are the context variables of `call_ownership.py`, per
context: the caller's, and a copy for each child task of `agenerate`. What is published is
a set in the model; its order is that of the publications, the same in every context, and
is kept once, in `before` (`Start` lets the runs of a batch be published in any order). `closed` and
`claimed` are fields of the publication objects, which the copies share; `ids` stands
for `_claimed_response_ids`. `info[r][h]` is what handler `h` has for the run (active, set
aside, recorded, ...), `sent` its run group's flag, which makes one handler of several
record. `Start`, `FirstToken`, `End`, `Fail` and `Cancel` are the hooks and the wraps of
`_abandoned_runs.py`; `TakeMetadata` and `ClaimCall` the wrapped transport; `DirectCall`
a call of the application, outside LangChain, in the same context. `metered`, `got`,
`misled` and `crowded` are histories.

### JobOutcome

A handle is a `JobContext` in a process of its own; `Block` is the one used with `with`.
`call[s]` is the outcome call in progress, with its tries, whether a gateway error has put
it in `doubt`, its answer, and as a history how often the backend applied it. `known` is
`_entity_version`, `reported` is `_outcome_reported`, `foundNoJob` the part of
`_last_report_error` that matters, `client`, `owns` and `open` the HTTP clients. `Retry`
and `Confirm` are `_request_with_retry` and the read that follows a 409 met in doubt;
`Result` and `Remember` what `report_outcome`, `amend_outcome` and
`append_outcome_metrics` make of an answer. `LeaveReporting` is `__exit__` on an
exception, `LeaveOnWorker` is `__aexit__`, which reports on a worker thread with copies
and hands it the client, so that a cancelled await (`CancelAwait`) leaves the worker
posting while the instance goes on. The backend, external, is "modern" (versions and
guidance in its answers) or "legacy", the two the transport has code for.

## 3. Runs

| run | instance | question |
|---|---|---|
| `delivery` | 2 records of one block, 2 workers, threshold 2, probe interval 1, 2 tries, batches of 2, 1 outage | stored once; dropped only when refused; probes rationed; recovery brings everything out |
| `pool` | 2 tasks, 1 worker (2 names), queue of 1, two waiters, stop, death, refusal | slots, counts, answers, wake-ups, size; what is queued is settled |
| `buffer_exit` | an AI and a tool record, either way in, `MaxSize` 1, flush thread and exit, ageing | a record in one place; a quiet exit is complete |
| `buffer_no_thread` | the same as tasks, no thread to be had, event loops, failing tasks | counters; the contract; the exit ends |
| `buffer_replay` | two AI and one tool record, either way in, `MaxSize` 2, flush thread, circuit flipping, ageing | the bound; order within an endpoint; every record leaves |
| `buffer_answer` | two records, flush thread and a caller | **violated**: see findings |
| `enforcement` | two teams, two callers, a switch, a fork or an inspection read (two of them) | rules and backoff are the owner's; one fetch per backoff; caps take hold |
| `enforcement_snapshot` | two teams with snapshots, one caller, new rules, a switch, a stop or a restart (two of them) | maps match rules; files hold their own team's rules; no stop is missed |
| `enforcement_judged` | two teams, two callers, one switch | **violated**: see findings |
| `job` | a with block and a second handle, 1 content besides FAILED, 2 tries, versions up to 2, 2 calls at once, 2 client names | no write applied twice; no lost update; true answers; flag, lock and clients |
| `exit` | main thread and a second one, 1 record, 1 SIGTERM, 1 exception, 1 call or flush of the buffer's thread | one drain; no mutual wait; not cut short; what is left is tried or counted; the process ends |
| `ownership` | 2 runs of 3 kinds, wrapped or not, 2 handlers, 2 providers, 2 direct calls | one record per call, by whom, with whose attribution |

**Bounds.** `delivery`: two workers are needed for an old outcome to land after a new one,
two records for a key to belong to another, two tries for the client to meet its own first
request at the backend; one outage opens the circuit (threshold 2) and ends, after which
the replays must close it; requests lost, slow or stored without an answer are possible
throughout the outage. One slot, one worker and a spare name are the smallest pool in
which a task overflows while another is queued and a replacement starts beside a worker
that outlived a stop; the second task may be submitted by a finalizer inside the first
one's submit at any of its steps. Two records of different endpoints with room for one
are enough for eviction, parking and a takeover; order needs two of one endpoint and one
of the other, with room for two. `MaxBuilds` is the number of `_OverflowBuild` objects at
once: a flusher holds one, the exit takes over and adds its own, and forgotten ones may
still run; in none of the passing runs is `Free` ever empty, so the bound refuses no step. `Width` 1 and `ExitWidth` 2 exercise
both batch sizes. `FailureCap` may be the threshold: the counter is only compared with it.

The rare events of `EnforcementCache` (switch, stop, restart, fork, inspection) have a
`Budget` each and one together, `MaxVersion` bounds how often the server's rules
change. One switch is a real limit for two properties: with a switch away and back
between `BeginRefresh` and `BeginFetch`, a refresh begun for one team fetches the
rules of the other and files them, in memory and on disk, under the first.
`CacheIsOwners` and `SnapshotIsOwners` therefore hold on the runs because they allow one
switch only. What is proved of them is for any number of switches, none of them between
those two reads; the other safety properties of the module are proved of every behaviour
(section 4).

`job`: two handles are needed for one to overtake the other's version; a third version
would only repeat the second conflict. `Contents` and `Failed` are two outcomes, enough
for an answer to be about another one. Two client names suffice because the instance and
one detached worker hold at most one each. `exit`: the SIGTERM interrupts the drain of
atexit, of a call or a flush, or begins one that atexit follows, the exception unwinds any
of them, and the second thread is enough for a drain to be waited for or for a flush to
move tasks beside it; with one record the warning is right or wrong about it. The safety
properties also hold with two SIGTERMs (3.8 million states), where a run with
`EndsWhenAsked` would take too long; the theorems have no such bound.
`ownership`: two runs are the smallest batch, one of which can fail; two handlers the
smallest run group; a direct call of the serving provider and one of the other.
Handlers are interchangeable, and the run uses that symmetry for its invariants.

**Deadlock** is checked in `buffer_replay`, the enforcement runs and `job`, where the flush
thread, a check or a caller always has a step. It is not checked in the others: there
everything may be delivered or the process ended.

**Fairness.** `FairSpec` of the pool: threads are scheduled, so a submit that began, a
worker and a woken waiter go on, a stop that began ends, and the buffer builds what it
holds; nobody has to submit. `FairSpec` of the buffer: every flusher goes on, each
deadline passes, a build goes on (its coroutine ends), a record ages. No fairness is
placed on delivery: the endpoint may be down for good. `ExitSpec` is weaker: only the
exit's own steps, its deadline and the builds it runs itself go on, so `ExitEnds` holds
although the other flushes, builds and replays may hang.

`FairDeliverySpec`: some worker and the flush thread go on, a wait for an answer ends (the
client has a timeout), a request that is not lost arrives, and the backend finishes what
it took. Neither the outage nor the recovery is fair, and no further call is made:
`RecoveryDelivers` says that if the endpoint answers from some point on for good, the
replays alone bring everything out. `FairSpec` of `ExitDrain`: a thread that can step does,
deadlines pass, an exception goes on unwinding; nothing makes a record be sent, so the
drain may have to use up its budget.

`FairSpec` of `EnforcementCache`: calls keep coming and go through their check (a poller
that died with its process is started by a check only), the poller is scheduled, its
waits and its backoffs end, and a stop that has begun goes on to its wake-up. Strong
fairness of `FetchAnswered` says that a server asked again and again answers now and
then; nothing is assumed of any single fetch. Switches, stops and forks are
not fair: they need not happen.

## 4. Proofs

TLAPS proves, for every value of the constants that satisfies the named assumptions:

* `DeliveryCircuitProofs` (from `CircuitAssumption`): type correctness, that the flag
  agrees with the counter, and that probes are rationed. The last is an action
  property and needs the strengthening `TimerCovers`: the time that has been quiet and
  the time left until the next probe make up a whole interval while the circuit is
  open.
* `RecordDeliveryProofs` (also from `RecordAssumption`): `ImplementsCircuit`, each step of
  the composition is a step of `DeliveryCircuit` or stutters, through which the circuit's
  theorems hold of the composed path (`DeliveryRationsProbes`). `EachStoredOnce` and
  `OnlyDeniedAreDropped` rest on the invariant `DInv`: a record has a key of its own as
  soon as it has been built, every request, piece of work and stored entry carries the
  key of its record, so a "mismatch" answer never happens and a 409 is always the record's
  own first request. `KeysAreCounted` (there are as many keys as records), `KeysAreOwn`,
  `UnderOwnKey` and `AnswersFit` are its parts.
* `MeteringPoolProofs` (from `PoolAssumption`): types, slots, counts, truthful
  answers, no lost wake-up, bounded workers. The counts are cardinalities of sets of
  tasks by place, so the proof rests on lemmas about one task moving from a place to
  another (`MoveCounts`, `MoveShifts`); `Counting` adds to them where each
  worker's and the stopper's task is, without which a `Finish` could decrement for a
  task that is elsewhere. `IdleMeansSettled` needs `OwedAccepted`: what a waiter is
  owed was accepted before it began. Each action family has a lemma, and
  `NextCounting`, `NextIdle`, `NextWakes` and `NextBounded` combine them.
* `EnforcementCacheProofs` (from `CacheAssumption`), for any number of teams, callers,
  switches, forks and restarts: types (with `OwnersKnown`: a request in flight has a
  team); `StopNeverMissed`, inductive as it stands; `MapsMatchRules`, with the pairs the
  checks carry (`PairsMatch`); `LateRulesAreDropped`, from the steps alone;
  `CooldownIsOwners` and `AskedOncePerBackoff`, from `CooldownHeld` (a cooldown has a
  team, a failure waited out has a cooldown) and `Unadopted` (before the first adoption
  no poller runs and no check has gone past it: otherwise a snapshot could give an
  ownerless cache to one team under the backoff of another).

  `CacheIsOwners` and `SnapshotIsOwners` are parts of `KeptApart`, which adds what a check
  or the poller carries from one to the other. It is preserved as long as what a refresh
  is about to install is of the team the refresh is for (`TargetStands`). That is proved
  from `OwnerReadOnce`: any number of switches, but none between the two reads a refresh
  makes of the team (1457 and 1458). `JudgedByOwnTeam`,
  which the run `enforcement_judged` violates, follows from `KeptApart` and `AdoptedAtOnce`:
  no switch between a check's comparison of the owner and its adoption of the cache. So
  these two windows are the only ones through which one team's rules can reach the other.
* `JobOutcomeProofs` (from `JobAssumption`), for any number of handles, contents, retries
  and versions: every property of the run `job`. The invariant `JInv` adds to `TypeOK`,
  `FlagIsTrue` and `ClientsFit` (which call and which side holds which client) three
  conjuncts over handles and calls: `CallFits`, an answer agrees with what the backend
  applied for the call; `VersionFits`, a version answered is at most the job's, and while
  it is the job's the outcome is the call's; `HandleFits`, as long as the job has the version a handle knows,
  its outcome is the one the handle left. The last is what makes a locked amendment
  lose nothing. The two client names of the assumption are for `Fresh`, which picks an
  unused one; the SDK never runs out of clients.

* `MeteringBufferProofs` (from `BufferAssumption`), for any number of records, flushers and
  builds, any size and batch width, and with every disturbance: types,
  `EachRecordInOnePlace`, `HeldIsBounded`, `TotalsExact`, `KeepsReplayOrder` and
  `KeepsContract`, the refinement. `IInv` adds to the first four: `Control`, which says who
  holds the flush lock and what only its holder has (`LockFits`, `BatchFits`), what is at
  hand when a flusher returns tasks (`BackFits`), which builds are a flusher's and which
  have been handed over or forgotten (`MineFits`, `BuildsFit`), and that only a flusher
  with a deadline is late and none began with more cut-short tasks than there are now
  (`CountsFit`); `KindsFit`, only tasks are built and only events replayed; and
  `ParkedFits`, a flush replays nothing it has parked. Two flushers' batches, or a build
  that its flusher and the exit's takeover both finish, would otherwise let a record out
  twice. Every action has a lemma for `Control`, one for the places and the order of the
  line, and one that names what it takes in and lets go (`Exchanges`), from which both the
  counters and the steps of `DeliveryContract` follow. `ControlStep`, `PlaceStep`,
  `ParkedStep`, `BoundStep`, `ExchangeStep`, `TotalsStep` and `ContractStep` combine them.
  What the contract alone implies then holds of the buffer too: a record leaves once, with
  one outcome, and is not found in it again (`LeavesOnce`).
  The module begins with what the proofs need of sequences: the order of the elements of a
  sequence without repetition (`Before`) under concatenation and selection (`Only`), and
  what making room drops from the deques (`Excess`, `Evicted`).

  `QuietExitIsComplete` has three assumptions in its statement: threads can be started
  (`ThreadsStart`) and there is one exit drain (`OneExitThread`), both about the constants,
  and `TakeoverFindsAll`, no caller of `flush_metering` is just about to hand tasks back
  when `build_all_overflow` begins. Without the first or the last it is false (section 5).
  Without callers the last holds by itself (`QuietExitWithoutCallers`), as in
  the run `buffer_exit`. The invariant follows each overflowed record the exit drain found:
  until the deadline it is in the drain's own build, or it is the task of a build that could
  not be stopped and is waited for (`Chased`, `ChaseFits`). It needs that a stopped build
  has no tasks left to start (`StopsFit`) and that the flush thread hands nothing back
  before the takeover (`ExitFits`). When the drain counts, all it owes has left or is on the
  line, where `undelivered` sees it (`AnswerFits`).
* `ExitDrainProofs` (from `ExitAssumption`), for any number of threads, records, signals,
  exceptions and calls: types, `OneDrain`, `NoMutualWait`, `NotCutShort`,
  `WarningCountsTheRest` and `InTimeAllAreTried`. `Control` is over the threads' stacks: what
  a signal or an exception may have put where (`StackFits`), that the running drain
  is the last and is held by one call on its own thread's stack (`DrainsFit`, `OneHolder`,
  `HolderFits`, `RunningIsHeld`), and how far the exit has come, as each call knows it
  (`StagesFit`). `RecordsFit` follows the records a drain owes past
  its stages: what it has dequeued and tried if it is in time (`CountFits`), and what its
  count must cover, before the first read those on the queue or skipped (`Queued`), between
  the two all but those in build (`Counted`), after the second all that are not sent
  (`Unsent`), each without what is `adrift`. `OwedFit` says why no build starts between the takeover
  and the flag but the drain's own: once `exiting` is set no task is handed over. Each step of another thread
  either keeps a record within the counts or puts it in `adrift`.
* `CallOwnershipProofs` (from `OwnershipAssumption`), for any number of runs, handlers and
  providers: types, `RecordedOnce`, `NoRecordIsLost`, `OwnAttribution` and `ClaimsAreTrue`.
  One call at a time is on its way in a context (`InTurn`), so a transport takes its own
  run's publication (`TakesItsOwn`); while the application's own code runs, nothing is on
  offer (`NothingOnOffer`). So a claim marks only what is recorded (`TakenFits`,
  `RecordsFit`), and the callback of a run nobody else's call crowds sees no other claim
  than its own transport's (`MarksFit`).

Model-checked only are:

* liveness, whose fairness rests on ENABLED, which is out of this prover's reach:
  `RecoveryDelivers`, `QueuedIsSettled`, `EveryRecordLeaves`, `ExitEnds`, `EndsWhenAsked`,
  `CapsTakeHold`.

Every safety invariant and action property that holds on a run is proved. Three of them,
`QuietExitIsComplete`, `CacheIsOwners` and `SnapshotIsOwners`, do not follow from `Spec`
alone, and are proved from the assumptions named above: no switch between the two reads of
a refresh, threads that start, no caller between reclaim and hand-back. Without any one of
these they are false; that there is one exit drain is how the process begins it
(`_start_or_join_exit_drain`). `WarningCountsTheRest` and `InTimeAllAreTried` are proved from
`Spec`, and say themselves which records they leave out (`Unseen`, `missed`): without the
exceptions TLC violates both.

## 5. Findings

The first concerns what `_drain_buffer` returns ("how many events it still holds or is
still building", `_core/metering.py:533`), which becomes the answer of
`flush_metering` and decides whether the exit warns.

* `buffer_answer`. It reads what the flush left, then what is in build. A task whose
  wait ended at the deadline is in build at the first read; it appends its event and
  is done by the second. It is in neither count, and `flush_metering` answers 0 with
  the record still held. The exit warning is made of the same two reads, at the end of
  `_drain_within`: past its deadline a build, or a flush that puts tasks back, moves a
  record from one count to the other between them, and the warning is one short.
  `ExitDrain` reproduces it, as `adrift`.
* `enforcement_judged`. `_forget_another_owners_rules` reads the owner and compares it
  before it takes the cache lock, and writes that value under it. A check delayed in
  between hands the cache back to the team the process has left; a fetch for that
  team which has passed its recheck then passes the one under the lock as well, and a
  call begun after the switch is judged by the old team's rules, against the comment
  at `_core/enforcement.py:1524`.

The models have further behaviours that no text of the repository rules out, or that its
README documents:

* A build that finds the exit drain started is removed from `_active_builds` before its
  tasks return to the buffer (`_build_unless_exiting`, `_core/metering_buffer.py:1004`). An
  exit that counts in between answers 0 in time and warns of nothing. It takes a process
  that can start no thread, a blocking task set aside by the takeover, and a flush that
  takes it out again: `QuietExitIsComplete` is therefore checked in `buffer_exit`, where
  threads start, and not in `buffer_no_thread`.
* A caller of `flush_metering` whose deadline has passed takes the tasks its build has not
  started (`_return_unstarted`) and puts them back at the front in a later step. A
  `build_all_overflow` in between finds them in neither place, although its docstring
  counts among what it builds "those a flush has taken out of the buffer and not started";
  the exit can answer 0 in time with such a record still to come. TLC finds this with a
  caller added to `buffer_exit`; it is what `TakeoverFindsAll` excludes there and `missed`
  in `ExitDrain`, where `InTimeAllAreTried` is violated without it.
* A build begun before the takeover goes on after `shutdown_event` is set, once the drain is
  late. If its coroutine has not yet looked at the flag, it skips itself and leaves no event:
  the record is in no count, although it was in one until then.
* `flush_metering` answers 0 at once while the exit's last flush is still sending
  (`_core/metering.py:568`): the records are out of the buffer and `shutdown_event` is set.
* The Nth key of an idempotency block goes to the Nth record *built*, not to the Nth call
  (`DrawKey`). The repository's README says so ("in the order its usage record is
  delivered"); the docstring at `_core/context.py:367` ("maps its Nth call to the same
  key") is looser.
* After an async exit that handed its client to the worker, the instance does not own
  clients until it is entered again; one created by a call made on it before that stays
  attached and open, and `close()` leaves it alone.
* The second of two first callers goes on without the snapshot the first is still reading
  (`_core/enforcement.py:740`); a slow read of the snapshot replaces rules fetched
  meanwhile (762), until the next refresh; owner and target of a refresh may differ (1458,
  see Bounds).

## 6. Not modelled

Choices that are pure functions of vendor data (usage fields, costs, prompts), text
(logging, redaction, error messages), the generated part of the HTTP client (types and one
method per endpoint), configuration, and the webhook check have no protocol; the
repository's tests fit them better. They are most of the repository's lines: the provider
integrations are wrappers that read usage out of a response and hand a coroutine to the
pool, and what they share across calls (claims, contexts, the pool) is modelled.
The judgement of one call against one rule is data-heavy and pure.

Inside the modelled components:

* `MeteringBuffer` and `MeteringPool`: the at-fork hooks, which replace locks and
  singletons in the child; a status callback that raises.
* `ExitDrain`: an exception is raised inside the stages of a drain, a flush or a wait, not
  between registering the drain and its `try` (`_core/metering.py:453`); a handler the
  application had installed is not chained to; the exit flush of a spawned child. Threads
  start, so no build runs inline and none is cut short: `overflow_lost_to_deadlines` is 0
  here, and its part in the warning is in `MeteringBuffer`. Evictions and ageing are there
  too. The build thread may begin handed tasks in any order and beside each other, more
  than it does. The drain's own flush finds `exiting` set, so it puts the tasks it meets
  back before it counts; they stay where they are.
* Re-entrance by a finalizer is modelled inside a submit only. Left out are a submit inside
  `stop` while it makes its last list of workers (`_core/metering_pool.py:314`), which could
  start a worker that the assignment then drops from the books, and a push inside `_append`
  (`_core/metering_buffer.py:706`).
* `CallOwnership`: eviction of the oldest response ids; an executor thread that goes on
  after its `agenerate` was cancelled; a langchain-core too old for the end-hook marker; a
  LiteLLM call served through an OpenAI client; binding of costs.
* `JobOutcome`: a cancellation that lands before the executor has started the report,
  which then is not sent; reading the economics of a job; the entries of an append,
  whose identity is the server's.
* `EnforcementCache`: the retries inside one fetch, the recovered address, once-only
  warnings.

## 7. Plan

Done so far: the circuit and the delivery path around it, the pool, the buffer, the exit
and its signals, the enforcement cache, call ownership, jobs and outcomes. Next, in this
order:

1. `QueuedJobs`: the fal ledger (`track`, `claim`, eviction), one record per queue job.
2. The owner of a LiteLLM request when guardrail and callback are both attached.
3. Forks: parent and child after `os.fork`, with queued and held records, and the locks
   of the enforcement cache a fork may fall into.

Of the safety properties the runs check none is left unproved; what is worth proving next
comes with these modules. One result would join two of those there are: that the stages of
`ExitDrain` are steps of `MeteringBuffer`'s exit drain, so that `QuietExitHolds` and
`WarningCountsTheRest` speak of the same records.
