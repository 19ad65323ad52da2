---------------------------- MODULE MeteringBuffer ----------------------------
(***************************************************************************)
(* The store-and-forward buffer of _core/metering_buffer.py: MeteringBuffer, *)
(* _OverflowBuild and _BuildWorker, with the callers of metering.py that     *)
(* flush it: the flush thread, flush_metering and the exit drain.            *)
(*                                                                          *)
(* A record enters as an event of its endpoint (push) or as an overflowed    *)
(* task (push_overflow) that a build turns into such an event.  Every flush  *)
(* builds the waiting tasks, takes the flush lock, replays batches, gives    *)
(* the lock up and builds the tasks it met.  A step is what the code does    *)
(* under one lock: the exit drain can take over a build, a deadline can pass *)
(* and a record can arrive between any two of them.                          *)
(*                                                                          *)
(* Time is not a number here.  A record may become too old, and a deadline   *)
(* may pass, at any moment; the circuit may be opened or closed by the       *)
(* delivery workers.  Status recording, logging and closing of the replay    *)
(* clients change nothing this module tells apart.                           *)
(***************************************************************************)
EXTENDS Naturals, Sequences, FiniteSets, Functions

CONSTANTS
    Records,          \* the usage records
    Endpoint,         \* per record, "ai" or "tool"
    Entry,            \* per record, the ways it may enter: "event", "task"
    BlockingTasks,    \* the records whose task has blocks_synchronously
    MaxSize,          \* REVENIUM_BUFFER_MAX_SIZE
    Width,            \* replay_concurrency
    ExitWidth,        \* exit_replay_concurrency, the width of a flush with a deadline
    FlushThread,      \* the thread of _run
    Callers,          \* threads that call flush_metering, once each
    ExitThreads,      \* the thread of the exit drain, or none
    Nobody,
    MaxBuilds,        \* how many _OverflowBuild objects can be in use at once
    Disturbances      \* which of "nothread", "eventloop", "traffic", "failure", "age" can happen

Flushers == {FlushThread} \cup Callers \cup ExitThreads
BuildIds == 1 .. MaxBuilds

ASSUME BufferAssumption ==
    /\ IsFiniteSet(Records)
    /\ Endpoint \in [Records -> {"ai", "tool"}]
    /\ Entry \in [Records -> SUBSET {"event", "task"}]
    /\ BlockingTasks \subseteq Records
    /\ MaxSize \in Nat \ {0}
    /\ Width \in Nat \ {0} /\ ExitWidth \in Nat \ {0}
    /\ FlushThread \notin Callers \cup ExitThreads /\ Callers \cap ExitThreads = {}
    /\ Nobody \notin Flushers
    /\ MaxBuilds \in Nat
    /\ Disturbances \subseteq {"nothread", "eventloop", "traffic", "failure", "age"}

VARIABLES
    kind,         \* per record, the kind it is held under; "none" before it enters
    old,          \* the held records that are older than max_age_seconds
    fate,         \* history, per record: how it left the buffer, or "none"
    settled,      \* the records whose overflow task has been settled
    events,       \* _events
    parked,       \* _parked
    lock,         \* who holds _flush_lock
    batch,        \* the batch the holder of _flush_lock is replaying
    inFlight,     \* _replays_in_flight
    unreachable,  \* unreachable_kinds of that flush
    total,        \* the _total_ counters
    builds,       \* the _OverflowBuild objects
    jobs,         \* _build_worker._jobs, the running one first
    workerUp,     \* _build_worker has its thread
    exitBuild,    \* _exit_build_started
    shutdown,     \* shutdown_event
    circuitOpen,  \* get_circuit().is_open()
    pc,           \* per flusher, where it is
    stage,        \* per flusher, which of its builds it is at
    mine,         \* per flusher, that build; 0 for none
    back,         \* per flusher, the tasks it is about to return to the front
    late,         \* the flushers whose deadline has passed
    awaits,       \* the builds the exit drain waits for
    report,       \* per flusher, what it has counted so far
    base,         \* per flusher, overflow_lost_to_deadlines when it began
    owed          \* history, per flusher: the records held when it began

recordVars == <<kind, old, fate, settled>>
queueVars  == <<events, parked>>
replayVars == <<lock, batch, inFlight, unreachable>>
buildVars  == <<builds, jobs, workerUp, exitBuild>>
envVars    == <<shutdown, circuitOpen>>
askVars    == <<report, base, owed>>
flushVars  == <<pc, stage, mine, back, late, awaits, askVars>>
vars == <<recordVars, queueVars, replayVars, total, buildVars, envVars, flushVars>>

Fates == {"sent", "discarded", "evicted", "expired", "cutShort", "unbuilt"}
NoBuild == [tasks |-> <<>>, current |-> <<>>, built |-> FALSE, stopped |-> FALSE, mode |-> "free"]

Init ==
    /\ kind = [r \in Records |-> "none"] /\ old = {} /\ settled = {}
    /\ fate = [r \in Records |-> "none"]
    /\ events = <<>> /\ parked = <<>>
    /\ lock = Nobody /\ batch = <<>> /\ inFlight = 0 /\ unreachable = {}
    /\ total = [buffered |-> 0, overflowed |-> 0, replayed |-> 0, discarded |-> 0,
                evicted |-> 0, expired |-> 0, cutShort |-> 0]
    /\ builds = [b \in BuildIds |-> NoBuild]
    /\ jobs = <<>> /\ workerUp = FALSE /\ exitBuild = FALSE
    /\ shutdown = FALSE /\ circuitOpen = FALSE
    /\ pc = [f \in Flushers |-> "idle"] /\ stage = [f \in Flushers |-> "first"]
    /\ mine = [f \in Flushers |-> 0] /\ back = [f \in Flushers |-> <<>>]
    /\ late = {} /\ awaits = {}
    /\ report = [f \in Flushers |-> 0] /\ base = [f \in Flushers |-> 0]
    /\ owed = [f \in Flushers |-> {}]

-----------------------------------------------------------------------------
(* Sequences of records.                                                     *)

\* The elements of s that are in S, in their order.
Only(s, S) ==
    LET upTo[i \in 0 .. Len(s)] ==
            IF i = 0 THEN <<>> ELSE IF s[i] \in S THEN Append(upTo[i - 1], s[i]) ELSE upTo[i - 1]
    IN  upTo[Len(s)]

Drop(s, n) == SubSeq(s, n + 1, Len(s))
Minus(m, n) == IF m > n THEN m - n ELSE 0

SumTo(g, n) ==
    LET sum[i \in 0 .. n] == IF i = 0 THEN 0 ELSE sum[i - 1] + g[i] IN sum[n]

-----------------------------------------------------------------------------
(* Holding records: the two deques under _lock.                              *)

HeldRecords == {r \in Records : kind[r] # "none" /\ fate[r] = "none"}

\* Mutants: one too many is evicted; the parked records do not count.
ExcessOffByOne(p, e, size) == Minus(Len(p) + Len(e) + 1, size)
ExcessIgnoresParked(p, e, size) == Minus(Len(e), size)

\* _evict_down_to: how many of the parked, then of the rest, have to go.
Excess(p, e, size) == Minus(Len(p) + Len(e), size)
Evicted(p, e, size) == Range(SubSeq(p \o e, 1, Excess(p, e, size)))

HoldAtMost(p, e, size) ==
    /\ parked' = Drop(p, Excess(p, e, size))
    /\ events' = Drop(e, Minus(Excess(p, e, size), Len(p)))

\* Records leave the buffer; an overflow task among them is discarded, which settles it.
Leave(how) ==
    /\ fate' = [r \in Records |-> IF r \in DOMAIN how THEN how[r] ELSE fate[r]]
    /\ settled' = settled \cup {r \in DOMAIN how : kind[r] = "overflow"}
    /\ old' = old \ DOMAIN how

All(S, what) == [r \in S |-> what]

\* _append: room is made first; MaxSize is at least 1, so r itself stays.
AppendEvent(r, k, counted) ==
    LET gone == Evicted(parked, Append(events, r), MaxSize)
    IN  /\ kind' = [kind EXCEPT ![r] = k]
        /\ HoldAtMost(parked, Append(events, r), MaxSize)
        /\ Leave(All(gone, "evicted"))
        /\ total' = [total EXCEPT !.evicted = @ + Cardinality(gone),
                                  !.buffered = IF counted THEN @ ELSE @ + 1,
                                  !.overflowed = IF k = "overflow" THEN @ + 1 ELSE @]

\* push: a delivery failed in a way worth a retry, or the circuit is open.
Push(r) ==
    /\ kind[r] = "none" /\ "event" \in Entry[r]
    /\ AppendEvent(r, Endpoint[r], FALSE)
    /\ UNCHANGED <<replayVars, buildVars, envVars, flushVars>>

\* _BuildWorker.ensure_started: the thread is up, unless none can be started.
EnsureStarted ==
    \/ workerUp' = TRUE
    \/ "nothread" \in Disturbances /\ UNCHANGED workerUp

\* push_overflow: the delivery queue had no room.
PushOverflow(r) ==
    /\ kind[r] = "none" /\ "task" \in Entry[r]
    /\ AppendEvent(r, "overflow", FALSE)
    /\ EnsureStarted
    /\ UNCHANGED <<replayVars, builds, jobs, exitBuild, envVars, flushVars>>

\* max_age_seconds go by.
GrowOld(r) ==
    /\ "age" \in Disturbances /\ r \in HeldRecords \ old
    /\ old' = old \cup {r}
    /\ UNCHANGED <<kind, fate, settled, queueVars, replayVars, total, buildVars, envVars, flushVars>>

\* The delivery workers report to the circuit too.
Traffic ==
    /\ "traffic" \in Disturbances
    /\ circuitOpen' = ~circuitOpen
    /\ UNCHANGED <<recordVars, queueVars, replayVars, total, buildVars, shutdown, flushVars>>

-----------------------------------------------------------------------------
(* Overflow builds.  A build is in _active_builds from its registration      *)
(* until _forget_build, that is in the modes of Active.                      *)

Free == {b \in BuildIds : builds[b].mode = "free"}
Active == {b \in BuildIds : builds[b].mode \in {"held", "queued", "own", "inline"}}
Unbuilt(b) == Len(builds[b].tasks) + Len(builds[b].current)
InBuild == SumTo([b \in BuildIds |-> IF b \in Active THEN Unbuilt(b) ELSE 0], MaxBuilds)

Overflow == {r \in Records : kind[r] = "overflow"}
Blocks(r) == r \in BlockingTasks

Held == Len(events) + Len(parked)
Undelivered == Held + inFlight

HasDeadline(f) == f # FlushThread
Go(f, to) == pc' = [pc EXCEPT ![f] = to]
Put(v, f, x) == [v EXCEPT ![f] = x]

\* _register_build: a build of these tasks.
NewBuild == CHOOSE b \in Free : TRUE

RegisterBuild(f, tasks) ==
    /\ Free # {}
    /\ builds' = [builds EXCEPT ![NewBuild] = [NoBuild EXCEPT !.tasks = tasks, !.mode = "held"]]
    /\ mine' = Put(mine, f, NewBuild)

\* Where a flusher goes when it is through with the build of this stage.
After(s) == IF s = "takeover" THEN "await" ELSE IF s = "first" THEN "lock" ELSE "count"

\* flush: materialize_overflow takes the waiting tasks.
StartFlush(f) ==
    /\ \/ f \in ExitThreads /\ pc[f] = "flush"
       \/ f \notin ExitThreads /\ pc[f] = "idle" /\ ~shutdown
    /\ RegisterBuild(f, Only(events, Overflow))
    /\ events' = Only(events, Records \ Overflow)
    /\ Go(f, "check")
    /\ stage' = Put(stage, f, "first")
    /\ IF f \in Callers
       THEN base' = Put(base, f, total.cutShort) /\ owed' = Put(owed, f, HeldRecords)
       ELSE UNCHANGED <<base, owed>>
    /\ UNCHANGED <<recordVars, parked, replayVars, total, jobs, workerUp, exitBuild, envVars,
                   back, late, awaits, report>>

\* _build_unless_exiting, once the exit drain has started building.
CheckExiting(f) ==
    /\ pc[f] = "check" /\ exitBuild /\ Unbuilt(mine[f]) > 0
    /\ back' = Put(back, f, builds[mine[f]].tasks)
    /\ builds' = [builds EXCEPT ![mine[f]] = NoBuild]
    /\ mine' = Put(mine, f, 0)
    /\ Go(f, "return")
    /\ UNCHANGED <<recordVars, queueVars, replayVars, total, jobs, workerUp, exitBuild, envVars,
                   stage, late, awaits, askVars>>

CheckGoesOn(f) ==
    /\ pc[f] = "check" /\ ~exitBuild /\ Unbuilt(mine[f]) > 0
    /\ Go(f, "hand")
    /\ UNCHANGED <<recordVars, queueVars, replayVars, total, buildVars, envVars,
                   stage, mine, back, late, awaits, askVars>>

\* A build with nothing left to build is forgotten at once; one that never had a task is
\* invisible to the other threads, so its check needs no step of its own.
ForgetEmpty(f) ==
    /\ pc[f] \in {"check", "hand"} /\ Unbuilt(mine[f]) = 0
    /\ builds' = [builds EXCEPT ![mine[f]] = NoBuild]
    /\ mine' = Put(mine, f, 0)
    /\ Go(f, After(stage[f]))
    /\ UNCHANGED <<recordVars, queueVars, replayVars, total, jobs, workerUp, exitBuild, envVars,
                   stage, back, late, awaits, askVars>>

\* The takeover passes a busy build thread over.
WantsOwnThread(f) == stage[f] = "takeover" /\ jobs # <<>>

HandToThread(f) ==
    /\ pc[f] = "hand" /\ Unbuilt(mine[f]) > 0
    /\ IF WantsOwnThread(f)
       THEN /\ builds' = [builds EXCEPT ![mine[f]].mode = "own"]
            /\ UNCHANGED <<jobs, workerUp>>
       ELSE /\ builds' = [builds EXCEPT ![mine[f]].mode = "queued"]
            /\ jobs' = Append(jobs, mine[f])
            /\ workerUp' = TRUE
    /\ Go(f, "wait")
    /\ UNCHANGED <<recordVars, queueVars, replayVars, total, exitBuild, envVars,
                   stage, mine, back, late, awaits, askVars>>

\* Mutant: no task is set aside.
SetsNoneAside(f, r) == FALSE

\* set_aside_blocking, which only a flusher with a deadline calls.
SetsAside(f, r) == HasDeadline(f) /\ Blocks(r)

\* _build_on_this_thread: no thread could be started; with a deadline the tasks that
\* block synchronously are set aside.
HandToSelf(f) ==
    LET b == mine[f]
        blocking == {r \in Records : SetsAside(f, r)}
        aside == Only(builds[b].tasks, blocking)
        kept == Only(builds[b].tasks, Records \ blocking)
    IN  /\ pc[f] = "hand" /\ Unbuilt(b) > 0
        /\ "nothread" \in Disturbances /\ (workerUp => WantsOwnThread(f))
        /\ builds' = [builds EXCEPT ![b].mode = "inline", ![b].tasks = kept]
        /\ back' = Put(back, f, aside)
        /\ Go(f, IF aside = <<>> THEN "wait" ELSE "return")
        /\ UNCHANGED <<recordVars, queueVars, replayVars, total, jobs, workerUp, exitBuild, envVars,
                       stage, mine, late, awaits, askVars>>

\* The same on a thread that runs an event loop: every task goes back unbuilt.
HandOnEventLoop(f) ==
    /\ pc[f] = "hand" /\ Unbuilt(mine[f]) > 0
    /\ {"nothread", "eventloop"} \subseteq Disturbances /\ HasDeadline(f)
    /\ workerUp => WantsOwnThread(f)
    /\ back' = Put(back, f, builds[mine[f]].tasks)
    /\ builds' = [builds EXCEPT ![mine[f]] = NoBuild]
    /\ mine' = Put(mine, f, 0)
    /\ Go(f, "return")
    /\ UNCHANGED <<recordVars, queueVars, replayVars, total, jobs, workerUp, exitBuild, envVars,
                   stage, late, awaits, askVars>>

\* Mutant: a reclaimed build keeps its tasks.
ReclaimedKeepsTasks(build) == [build EXCEPT !.stopped = TRUE]

\* reclaim: the build is stopped and loses its unstarted tasks.
Reclaimed(build) == [build EXCEPT !.tasks = <<>>, !.stopped = TRUE]

\* The wait for the build ends, at its end or at the deadline; _return_unstarted stops it
\* and takes its unstarted tasks.
EndWait(f) ==
    LET b == mine[f]
        rest == IF b = 0 THEN <<>> ELSE builds[b].tasks
    IN  /\ pc[f] = "wait"
        /\ b # 0 => \/ builds[b].mode = "over"
                    \/ builds[b].mode \in {"queued", "own"} /\ f \in late
        /\ back' = Put(back, f, rest)
        /\ mine' = Put(mine, f, 0)
        /\ builds' = IF b = 0 THEN builds
                     ELSE IF builds[b].mode = "over" THEN [builds EXCEPT ![b] = NoBuild]
                     ELSE [builds EXCEPT ![b] = Reclaimed(@)]
        /\ Go(f, IF rest = <<>> THEN After(stage[f]) ELSE "return")
        /\ UNCHANGED <<recordVars, queueVars, replayVars, total, jobs, workerUp, exitBuild, envVars,
                       stage, late, awaits, askVars>>

\* _return_to_front.
ReturnToFront(f) ==
    LET front == back[f] \o events
        gone == Evicted(parked, front, MaxSize)
    IN  /\ pc[f] = "return"
        /\ HoldAtMost(parked, front, MaxSize)
        /\ Leave(All(gone, "evicted"))
        /\ total' = [total EXCEPT !.evicted = @ + Cardinality(gone)]
        /\ back' = Put(back, f, <<>>)
        /\ Go(f, IF mine[f] # 0 THEN "wait" ELSE After(stage[f]))
        /\ UNCHANGED <<kind, replayVars, buildVars, envVars, stage, mine, late, awaits, askVars>>

-----------------------------------------------------------------------------
(* Running a build: _OverflowBuild.run on the build thread, on a takeover    *)
(* thread or on the flusher itself.                                          *)

IsRun(b) ==
    \/ builds[b].mode = "own"
    \/ builds[b].mode = "queued" /\ b = Head(jobs)
    \/ builds[b].mode = "inline" /\ \E f \in Flushers : mine[f] = b /\ pc[f] = "wait"

RunsOutOfTime(b) == builds[b].mode = "inline" /\ \E f \in late : mine[f] = b

StartTask(b) ==
    /\ IsRun(b) /\ builds[b].current = <<>> /\ builds[b].tasks # <<>>
    /\ ~builds[b].stopped /\ ~RunsOutOfTime(b)
    /\ builds' = [builds EXCEPT ![b].current = <<Head(builds[b].tasks)>>, ![b].tasks = Tail(@)]
    /\ UNCHANGED <<recordVars, queueVars, replayVars, total, jobs, workerUp, exitBuild, envVars, flushVars>>

\* Mutant: the event of a built task counts as one more buffered.
BuildEventCountedAgain(b) ==
    /\ builds[b].current # <<>> /\ ~builds[b].built
    /\ LET r == Head(builds[b].current) IN AppendEvent(r, Endpoint[r], FALSE)
    /\ builds' = [builds EXCEPT ![b].built = TRUE]
    /\ UNCHANGED <<replayVars, jobs, workerUp, exitBuild, envVars, flushVars>>

\* The task's coroutine reaches buffer_deferred_event, which appends its event.
BuildEvent(b) ==
    /\ builds[b].current # <<>> /\ ~builds[b].built
    /\ LET r == Head(builds[b].current) IN AppendEvent(r, Endpoint[r], TRUE)
    /\ builds' = [builds EXCEPT ![b].built = TRUE]
    /\ UNCHANGED <<replayVars, jobs, workerUp, exitBuild, envVars, flushVars>>

\* materialize settles the task, and the build counts it.
EndTask(b) ==
    /\ builds[b].built
    /\ settled' = settled \cup {Head(builds[b].current)}
    /\ builds' = [builds EXCEPT ![b].built = FALSE, ![b].current = <<>>]
    /\ UNCHANGED <<kind, old, fate, queueVars, replayVars, total, jobs, workerUp, exitBuild, envVars, flushVars>>

\* The coroutine ends without an event: it failed, or it saw shutdown_event and skipped itself.
SkipTask(b) ==
    /\ builds[b].current # <<>> /\ ~builds[b].built
    /\ shutdown \/ "failure" \in Disturbances
    /\ Leave(All({Head(builds[b].current)}, "unbuilt"))
    /\ builds' = [builds EXCEPT ![b].current = <<>>]
    /\ UNCHANGED <<kind, queueVars, replayVars, total, jobs, workerUp, exitBuild, envVars, flushVars>>

\* Built on the flusher itself, a task still awaiting at the deadline is cut short; one
\* that blocks synchronously cannot be.
CutTaskShort(b) ==
    /\ builds[b].current # <<>> /\ ~builds[b].built /\ RunsOutOfTime(b)
    /\ ~Blocks(Head(builds[b].current))
    /\ Leave(All({Head(builds[b].current)}, "cutShort"))
    /\ total' = [total EXCEPT !.cutShort = @ + 1]
    /\ builds' = [builds EXCEPT ![b].current = <<>>]
    /\ UNCHANGED <<kind, queueVars, replayVars, jobs, workerUp, exitBuild, envVars, flushVars>>

\* run returns and the build is forgotten; whoever waits for it finds it finished.
EndRun(b) ==
    /\ IsRun(b) /\ builds[b].current = <<>>
    /\ builds[b].tasks = <<>> \/ builds[b].stopped \/ RunsOutOfTime(b)
    /\ jobs' = IF builds[b].mode = "queued" THEN Tail(jobs) ELSE jobs
    /\ IF builds[b].tasks = <<>>
       THEN /\ builds' = [builds EXCEPT ![b] = NoBuild]
            /\ mine' = [f \in Flushers |-> IF mine[f] = b THEN 0 ELSE mine[f]]
       ELSE /\ builds' = [builds EXCEPT ![b].mode = "over"]
            /\ UNCHANGED mine
    /\ awaits' = awaits \ {b}
    /\ UNCHANGED <<recordVars, queueVars, replayVars, total, workerUp, exitBuild, envVars,
                   pc, stage, back, late, askVars>>

-----------------------------------------------------------------------------
(* The replay loop of flush, under _flush_lock.                              *)

MayReplayMore(f) == IF HasDeadline(f) THEN f \notin late ELSE ~shutdown

\* The lock is taken and a build registered for the tasks the loop will meet.
TakeLock(f) ==
    /\ pc[f] = "lock" /\ lock = Nobody
    /\ HasDeadline(f) => f \notin late
    /\ lock' = f /\ unreachable' = {}
    /\ RegisterBuild(f, <<>>)
    /\ stage' = Put(stage, f, "late")
    /\ Go(f, "take")
    /\ UNCHANGED <<recordVars, queueVars, batch, inFlight, total, jobs, workerUp, exitBuild, envVars,
                   back, late, awaits, askVars>>

\* The deadline passed while another flush held the lock: nothing is replayed.
SkipLock(f) ==
    /\ pc[f] = "lock" /\ HasDeadline(f) /\ f \in late
    /\ Go(f, "count")
    /\ UNCHANGED <<recordVars, queueVars, replayVars, total, buildVars, envVars,
                   stage, mine, back, late, awaits, askVars>>

Ai == {r \in Records : kind[r] = "ai"}

\* Mutant: no record is ever too old.
VisitForgetsAge(r) ==
    IF kind[r] = "overflow" THEN "build"
    ELSE IF kind[r] \in unreachable THEN "park"
    ELSE "replay"

\* What becomes of a record met at the front.
Visit(r) ==
    IF r \in old THEN "expire"
    ELSE IF kind[r] = "overflow" THEN "build"
    ELSE IF kind[r] \in unreachable THEN "park"
    ELSE "replay"

Visited(n, what) == Only(SubSeq(events, 1, n), {r \in Records : Visit(r) = what})

\* The loop of _take_replay_batch ends with its first n events visited.
Stops(n, size, ai) ==
    \/ n = Len(events)
    \/ Len(Visited(n, "replay")) >= size
    \/ /\ n < Len(events) /\ events[n + 1] \in Ai /\ "ai" \notin unreachable
       /\ Len(Only(Visited(n, "replay"), Ai)) = ai

\* _batch_limits; after a replay thread was refused a flush replays one at a time.
Sizes(f) == {IF HasDeadline(f) THEN ExitWidth ELSE Width}
            \cup (IF "nothread" \in Disturbances THEN {1} ELSE {})

TakeBatch(f) ==
    /\ pc[f] = "take" /\ MayReplayMore(f)
    /\ \E size \in Sizes(f), n \in 0 .. Len(events) :
        LET ai == IF circuitOpen THEN 1 ELSE size
            gone == Range(Visited(n, "expire"))
        IN  /\ Stops(n, size, ai) /\ \A m \in 0 .. n : m < n => ~Stops(m, size, ai)
            /\ batch' = Visited(n, "replay")
            /\ inFlight' = inFlight + Len(batch')
            /\ parked' = parked \o Visited(n, "park")
            /\ events' = Drop(events, n)
            /\ builds' = [builds EXCEPT ![mine[f]].tasks = @ \o Visited(n, "build")]
            /\ Leave(All(gone, "expired"))
            /\ total' = [total EXCEPT !.expired = @ + Cardinality(gone)]
            /\ Go(f, IF batch' = <<>> THEN "unpark" ELSE "send")
    /\ UNCHANGED <<kind, lock, unreachable, jobs, workerUp, exitBuild, envVars,
                   stage, mine, back, late, awaits, askVars>>

\* What a replay can come to: delivered, refused for good, worth a retry, or not tried
\* (or not waited for) because the deadline passed.
ReplayOutcomes(f) == {"sent", "discarded", "retry"} \cup (IF f \in late THEN {"untried"} ELSE {})

\* What _replays_in_flight goes down by: sent, discarded and records to retry.
Answered(outcome) == Cardinality(DOMAIN outcome)

\* _sort_outcomes and _settle_replays, then the circuit hears of the AI records.
SettleReplays(f) ==
    /\ pc[f] = "send"
    /\ \E outcome \in [Range(batch) -> ReplayOutcomes(f)] :
        LET Ended(what) == {r \in Range(batch) : outcome[r] = what}
            line == parked \o Only(batch, Ended("retry") \cup Ended("untried"))
            gone == Evicted(line, events, MaxSize)
            failed == {kind[r] : r \in Ended("retry")}
        IN  /\ HoldAtMost(line, events, MaxSize)
            /\ Leave([r \in Ended("sent") \cup Ended("discarded") \cup gone |->
                         IF r \in gone THEN "evicted" ELSE outcome[r]])
            /\ total' = [total EXCEPT !.replayed = @ + Cardinality(Ended("sent")),
                                      !.discarded = @ + Cardinality(Ended("discarded")),
                                      !.evicted = @ + Cardinality(gone)]
            /\ inFlight' = inFlight - Answered(outcome)
            /\ unreachable' = unreachable \cup failed
            /\ IF Ended("sent") \cap Ai # {} THEN circuitOpen' = FALSE
               ELSE circuitOpen' \in IF "ai" \in failed THEN {circuitOpen, TRUE} ELSE {circuitOpen}
    /\ batch' = <<>>
    /\ Go(f, "take")
    /\ UNCHANGED <<kind, lock, buildVars, shutdown, stage, mine, back, late, awaits, askVars>>

\* Mutant: the parked records go behind those that arrived meanwhile.
UnparkedBehind == events \o parked

Unparked == parked \o events

\* _unpark, and the lock is released.
Unpark(f) ==
    /\ \/ pc[f] = "unpark"
       \/ pc[f] = "take" /\ ~MayReplayMore(f)
    /\ events' = Unparked /\ parked' = <<>>
    /\ lock' = Nobody /\ unreachable' = {}
    /\ Go(f, "check")
    /\ UNCHANGED <<recordVars, batch, inFlight, total, buildVars, envVars,
                   stage, mine, back, late, awaits, askVars>>

-----------------------------------------------------------------------------
(* What a flush answers: flush returns undelivered(), _drain_buffer adds     *)
(* overflow_in_build(), the caller the tasks cut short since it began.       *)

CountUndelivered(f) ==
    /\ pc[f] = "count"
    /\ IF HasDeadline(f)
       THEN /\ report' = Put(report, f, Undelivered)
            /\ Go(f, "tally")
            /\ UNCHANGED stage
       ELSE /\ Go(f, "idle")
            /\ stage' = Put(stage, f, "first")
            /\ UNCHANGED report
    /\ UNCHANGED <<recordVars, queueVars, replayVars, total, buildVars, envVars,
                   mine, back, late, awaits, base, owed>>

CountInBuild(f) ==
    /\ pc[f] = "tally"
    /\ report' = Put(report, f, report[f] + InBuild + (total.cutShort - base[f]))
    /\ Go(f, "done")
    /\ UNCHANGED <<recordVars, queueVars, replayVars, total, buildVars, envVars,
                   stage, mine, back, late, awaits, base, owed>>

Deadline(f) ==
    /\ HasDeadline(f) /\ pc[f] \notin {"idle", "done"}
    /\ late' = late \cup {f}
    /\ UNCHANGED <<recordVars, queueVars, replayVars, total, buildVars, envVars,
                   pc, stage, mine, back, awaits, askVars>>

-----------------------------------------------------------------------------
(* The exit drain: build_all_overflow, shutdown_event, flush.                *)

TasksOf(order) ==
    LET upTo[i \in 0 .. Cardinality(Active)] ==
            IF i = 0 THEN <<>> ELSE upTo[i - 1] \o builds[order[i]].tasks
    IN  upTo[Cardinality(Active)]

\* Mutant: the builds in progress are not waited for.
AwaitNone == {}

\* The builds with a task they could not be stopped in.
InProgress == {b \in Active : builds[b].current # <<>>}

\* Every build is stopped and its unstarted tasks taken over, in an order the set decides.
BuildAllOverflow(f) ==
    /\ f \in ExitThreads /\ pc[f] = "idle"
    /\ Free # {}
    /\ exitBuild' = TRUE
    /\ \E order \in Bijection(1 .. Cardinality(Active), Active) :
        builds' = [b \in BuildIds |->
            IF b \in Active THEN Reclaimed(builds[b])
            ELSE IF b = NewBuild
            THEN [NoBuild EXCEPT !.tasks = TasksOf(order) \o Only(events, Overflow), !.mode = "held"]
            ELSE builds[b]]
    /\ events' = Only(events, Records \ Overflow)
    /\ mine' = Put(mine, f, NewBuild)
    /\ awaits' = InProgress
    /\ stage' = Put(stage, f, "takeover")
    /\ base' = Put(base, f, total.cutShort) /\ owed' = Put(owed, f, HeldRecords)
    /\ Go(f, "hand")
    /\ UNCHANGED <<recordVars, parked, replayVars, total, jobs, workerUp, envVars, back, late, report>>

\* The builds it could not stop have finished or the deadline passed; metering then ends.
SetShutdown(f) ==
    /\ pc[f] = "await"
    /\ awaits = {} \/ f \in late
    /\ shutdown' = TRUE
    /\ awaits' = {}
    /\ Go(f, "flush")
    /\ UNCHANGED <<recordVars, queueVars, replayVars, total, buildVars, circuitOpen,
                   stage, mine, back, late, askVars>>

-----------------------------------------------------------------------------
Arrive == \E r \in Records : Push(r) \/ PushOverflow(r) \/ GrowOld(r)

Build(b) == StartTask(b) \/ BuildEvent(b) \/ EndTask(b) \/ SkipTask(b) \/ CutTaskShort(b) \/ EndRun(b)

\* A flusher's own steps, in the order of flush.
Step(f) ==
    \/ BuildAllOverflow(f) \/ SetShutdown(f)
    \/ StartFlush(f) \/ CheckExiting(f) \/ CheckGoesOn(f)
    \/ ForgetEmpty(f) \/ HandToThread(f) \/ HandToSelf(f) \/ HandOnEventLoop(f)
    \/ EndWait(f) \/ ReturnToFront(f)
    \/ TakeLock(f) \/ SkipLock(f) \/ TakeBatch(f) \/ SettleReplays(f) \/ Unpark(f)
    \/ CountUndelivered(f) \/ CountInBuild(f)

Next ==
    \/ Arrive \/ Traffic
    \/ \E b \in BuildIds : Build(b)
    \/ \E f \in Flushers : Step(f) \/ Deadline(f)

Spec == Init /\ [][Next]_vars

-----------------------------------------------------------------------------
TypeOK ==
    /\ kind \in [Records -> {"none", "ai", "tool", "overflow"}]
    /\ fate \in [Records -> Fates \cup {"none"}]
    /\ old \subseteq Records /\ settled \subseteq Records
    /\ events \in Seq(Records) /\ parked \in Seq(Records) /\ batch \in Seq(Records)
    /\ lock \in Flushers \cup {Nobody}
    /\ inFlight \in Nat
    /\ unreachable \subseteq {"ai", "tool"}
    /\ total \in [{"buffered", "overflowed", "replayed", "discarded", "evicted", "expired", "cutShort"} -> Nat]
    /\ builds \in [BuildIds -> [tasks : Seq(Records), current : Seq(Records), built : BOOLEAN, stopped : BOOLEAN,
                                mode : {"free", "held", "queued", "own", "inline", "over"}]]
    /\ jobs \in Seq(BuildIds)
    /\ workerUp \in BOOLEAN /\ exitBuild \in BOOLEAN /\ shutdown \in BOOLEAN /\ circuitOpen \in BOOLEAN
    /\ pc \in [Flushers -> {"idle", "hand", "await", "flush", "check", "wait", "return", "lock", "take",
                            "send", "unpark", "count", "tally", "done"}]
    /\ stage \in [Flushers -> {"takeover", "first", "late"}]
    /\ mine \in [Flushers -> BuildIds \cup {0}]
    /\ back \in [Flushers -> Seq(Records)]
    /\ late \subseteq Flushers /\ awaits \subseteq BuildIds
    /\ report \in [Flushers -> Nat] /\ base \in [Flushers -> Nat]
    /\ owed \in [Flushers -> SUBSET Records]

-----------------------------------------------------------------------------
(* Where a record is.                                                        *)

\* What is being replayed, then what this flush parked, then the rest.
Queue == parked \o events
Line == batch \o Queue

\* A task being built counts until its event is appended.
Unfinished(build) == (IF build.built THEN <<>> ELSE build.current) \o build.tasks

OnLine(r) == r \in Range(Line)
InBuildOf(r, b) == r \in Range(Unfinished(builds[b]))
HandedBack(r, f) == r \in Range(back[f])
Present(r) == OnLine(r) \/ (\E b \in BuildIds : InBuildOf(r, b)) \/ \E f \in Flushers : HandedBack(r, f)

\* Every record that entered and has not left is in exactly one of the deques, the batch, a
\* build or a hand-back, and a task that left, on whichever path, has answered who joins it:
\* whatever deadlines, takeovers and evictions do, none is dropped without a fate and none is
\* held twice, which would bill a call twice.
EachRecordInOnePlace ==
    /\ IsInjective(Line)
    /\ \A b \in BuildIds : IsInjective(Unfinished(builds[b]))
    /\ \A f \in Flushers : IsInjective(back[f])
    /\ \A r \in Records :
        /\ r \in HeldRecords <=> Present(r)
        /\ \A b \in BuildIds : InBuildOf(r, b) => ~OnLine(r) /\ \A c \in BuildIds \ {b} : ~InBuildOf(r, c)
        /\ \A f \in Flushers : HandedBack(r, f) =>
               /\ ~OnLine(r) /\ \A b \in BuildIds : ~InBuildOf(r, b)
               /\ \A g \in Flushers \ {f} : ~HandedBack(r, g)
        /\ fate[r] # "none" /\ kind[r] = "overflow" => r \in settled

\* REVENIUM_BUFFER_MAX_SIZE bounds the deques at every moment, also while a flush returns
\* parked records and a build appends its own.
HeldIsBounded == Held <= MaxSize

\* The counters of stats() agree with what happened to the records, and size counts the
\* batch being replayed.
TotalsExact ==
    LET Ended(what) == Cardinality({r \in Records : fate[r] = what})
    IN  /\ total.buffered = Cardinality({r \in Records : kind[r] # "none"})
        /\ total.replayed = Ended("sent") /\ total.discarded = Ended("discarded")
        /\ total.evicted = Ended("evicted") /\ total.expired = Ended("expired")
        /\ total.cutShort = Ended("cutShort")
        /\ inFlight = Len(batch)

Before(s, x, y) == \E i, j \in DOMAIN s : i < j /\ s[i] = x /\ s[j] = y
Ahead(r, s) == kind[r] = kind[s] /\ kind[r] \in {"ai", "tool"} /\ Before(Line, r, s)

\* Records of one endpoint never overtake each other: a step keeps their order, however a
\* flush parks, returns, expires and evicts around them.
KeepsReplayOrder ==
    [][\A r, s \in Records : Ahead(r, s) => ~Ahead(s, r)']_vars

\* The exit drain's answer decides whether it warns: when it answers 0 in time, every record
\* held when it began has been sent or has left with a status of its own.
QuietExitIsComplete ==
    \A f \in ExitThreads : pc[f] = "done" /\ f \notin late /\ report[f] = 0 =>
        \A r \in owed[f] : fate[r] # "none"

\* The same of every caller: what _drain_buffer returns counts each record held when the
\* caller began that is still held or still being built.
AnswerCountsWhatIsLeft ==
    \A f \in Flushers : pc[f] = "done" =>
        report[f] >= Cardinality({r \in owed[f] : fate[r] = "none"})

-----------------------------------------------------------------------------
(* The buffer keeps the contract of DeliveryContract: the records held are   *)
(* those found in its deques, batch, builds and hand-backs.                  *)

Contract == INSTANCE DeliveryContract WITH
    Outcomes <- Fates,
    Room <- MaxSize,
    held <- {r \in Records : Present(r)},
    outcome <- fate

\* Every step of the buffer is a step of the contract, or changes nothing of it.
KeepsContract == Contract!Spec

-----------------------------------------------------------------------------
\* The flush thread and the callers go on, a deadline passes, a build's coroutine ends, and
\* a record that is not delivered becomes too old.
FairSpec ==
    /\ Spec
    /\ \A f \in Flushers : WF_vars(Step(f)) /\ WF_vars(Deadline(f))
    /\ \A b \in BuildIds : WF_vars(Build(b))
    /\ \A r \in Records : WF_vars(GrowOld(r))

\* No record stays in the buffer for good, with its endpoint down or its task handed back
\* unbuilt any number of times: it is delivered, or it leaves with a status.
EveryRecordLeaves ==
    \A r \in Records : (kind[r] # "none") ~> (fate[r] # "none")

\* What the exit drain runs on its own thread, short of what blocks in a task's coroutine.
OwnBuildStep(b) ==
    builds[b].mode = "inline" /\ (StartTask(b) \/ EndTask(b) \/ CutTaskShort(b) \/ EndRun(b))

\* Only the exit drain itself and its deadline are sure to go on: a build, another flush
\* and the replays it waits for may hang.
ExitSpec ==
    /\ Spec
    /\ \A f \in ExitThreads : WF_vars(Step(f)) /\ WF_vars(Deadline(f))
    /\ \A b \in BuildIds : WF_vars(OwnBuildStep(b))

\* The exit drain ends, so that the process can.
ExitEnds == \A f \in ExitThreads : (pc[f] = "hand") ~> (pc[f] = "done")
=============================================================================
