----------------------------- MODULE MeteringPool -----------------------------
(***************************************************************************)
(* The delivery pool of _core/metering_pool.py: MeteringTask, _QueueSlots    *)
(* and MeteringWorkerPool.                                                   *)
(*                                                                          *)
(* One thread submits each task (a finalizer that meters inside another      *)
(* submit is one more of them), worker threads drain the queue, another      *)
(* thread may stop the pool, others wait for it to become idle.  Only what a *)
(* lock or a C-implemented container makes atomic is one step: a slot is     *)
(* taken, the task counted and the task queued in three steps, and a worker  *)
(* gives the slot back before it runs the task.                              *)
(*                                                                          *)
(* place[t] is where the threads working on task t are in that code.  The    *)
(* store-and-forward buffer, which builds overflowed tasks, is the           *)
(* environment here and the module MeteringBuffer elsewhere.                 *)
(***************************************************************************)
EXTENDS Naturals, Sequences, FiniteSets

CONSTANTS
    Tasks,            \* the tasks handed to submit
    WorkerIds,        \* names for worker threads; a dead one's name is reused
    WorkerCount,      \* REVENIUM_METERING_WORKERS
    QueueSize,        \* REVENIUM_METERING_QUEUE_SIZE
    IdleWaiters,      \* threads in wait_until_idle
    QueueWaiters,     \* threads in wait_until_queue_drained
    NoTask,
    Disturbances      \* which of "stop", "death", "refused" can happen

ASSUME PoolAssumption ==
    /\ IsFiniteSet(Tasks)
    /\ IsFiniteSet(WorkerIds)
    /\ WorkerCount \in Nat \ {0} /\ WorkerCount <= Cardinality(WorkerIds)
    /\ QueueSize \in Nat \ {0}
    /\ NoTask \notin Tasks
    /\ Disturbances \subseteq {"stop", "death", "refused"}

VARIABLES
    place,        \* per task, the point of the code it has reached
    queue,        \* _queue, a SimpleQueue
    free,         \* len(_slots._free)
    unfinished,   \* _unfinished
    unbuilt,      \* _overflow_unbuilt
    overflowing,  \* _overflowing
    episode,      \* _overflowed_this_episode
    members,      \* the threads in _workers
    alive,        \* the threads that have not ended
    flagged,      \* the threads whose stop_requested is set
    job,          \* per worker, the task it has taken from the queue
    stopper,      \* where the thread in stop() is
    discarding,   \* the task stop() has taken from the queue
    wait,         \* per waiter: out, asleep on _idle, woken, or its answer
    owed          \* history, per waiter: the tasks accepted, unsettled when its wait began

countVars == <<unfinished, unbuilt>>
episodeVars == <<overflowing, episode>>
threadVars == <<members, alive, flagged>>
stopVars == <<stopper, discarding>>
waitVars == <<wait, owed>>
vars == <<place, queue, free, countVars, episodeVars, threadVars, job, stopVars, waitVars>>

Waiters == IdleWaiters \cup QueueWaiters

Places == {"new", "starting", "ready", "slotted", "counted", "queued", "taken",
           "given", "ending", "running", "doomed", "settled",
           "refused", "charged", "watched", "held", "built", "done"}

HoldsSlot  == {"slotted", "counted", "queued", "taken"}
Unfinished == {"counted", "queued", "taken", "given", "ending", "running", "doomed", "settled"}
Unbuilt    == {"charged", "watched", "held", "built"}
Settled    == {"settled", "built", "done"}

At(places) == {t \in Tasks : place[t] \in places}

Init ==
    /\ place = [t \in Tasks |-> "new"]
    /\ queue = <<>>
    /\ free = QueueSize
    /\ unfinished = 0 /\ unbuilt = 0
    /\ overflowing = FALSE /\ episode = 0
    /\ members = {} /\ alive = {} /\ flagged = {}
    /\ job = [w \in WorkerIds |-> NoTask]
    /\ stopper = "out" /\ discarding = NoTask
    /\ wait = [v \in Waiters |-> "out"]
    /\ owed = [v \in Waiters |-> {}]

Move(t, from, to) ==
    /\ place[t] = from
    /\ place' = [place EXCEPT ![t] = to]

-----------------------------------------------------------------------------
(* submit: first _ensure_workers, under _workers_lock.                       *)

EnterEnsure(t) ==
    /\ At({"starting"}) = {}
    /\ Move(t, "new", "starting")
    /\ members' = members \cap alive
    /\ UNCHANGED <<queue, free, countVars, episodeVars, alive, flagged, job, stopVars, waitVars>>

\* A finalizer that meters while its thread is starting workers: _ensuring_workers.
ReenterEnsure(t) ==
    /\ At({"starting"}) # {}
    /\ Move(t, "new", "ready")
    /\ UNCHANGED <<queue, free, countVars, episodeVars, threadVars, job, stopVars, waitVars>>

StartWorker(t) ==
    /\ place[t] = "starting"
    /\ Cardinality(members) < WorkerCount
    /\ \E w \in WorkerIds \ (members \cup alive) :
          /\ members' = members \cup {w}
          /\ alive' = alive \cup {w}
          /\ flagged' = flagged \ {w}
    /\ UNCHANGED <<place, queue, free, countVars, episodeVars, job, stopVars, waitVars>>

\* Thread.start raises RuntimeError: run_async_in_thread discards the task.
StartRefused(t) ==
    /\ "refused" \in Disturbances
    /\ Cardinality(members) < WorkerCount
    /\ Move(t, "starting", "done")
    /\ UNCHANGED <<queue, free, countVars, episodeVars, threadVars, job, stopVars, waitVars>>

LeaveEnsure(t) ==
    /\ Cardinality(members) >= WorkerCount
    /\ Move(t, "starting", "ready")
    /\ UNCHANGED <<queue, free, countVars, episodeVars, threadVars, job, stopVars, waitVars>>

(* Then a slot, the count and the queue, or the overflow.                    *)

TakeSlot(t) ==
    /\ free > 0
    /\ Move(t, "ready", "slotted")
    /\ free' = free - 1
    /\ UNCHANGED <<queue, countVars, episodeVars, threadVars, job, stopVars, waitVars>>

Count(t) ==
    /\ Move(t, "slotted", "counted")
    /\ unfinished' = unfinished + 1
    /\ UNCHANGED <<queue, free, unbuilt, episodeVars, threadVars, job, stopVars, waitVars>>

Put(t) ==
    /\ Move(t, "counted", "queued")
    /\ queue' = Append(queue, t)
    /\ UNCHANGED <<free, countVars, episodeVars, threadVars, job, stopVars, waitVars>>

NoSlot(t) ==
    /\ free = 0
    /\ Move(t, "ready", "refused")
    /\ UNCHANGED <<queue, free, countVars, episodeVars, threadVars, job, stopVars, waitVars>>

Charge(t) ==
    /\ Move(t, "refused", "charged")
    /\ overflowing' = TRUE
    /\ episode' = episode + 1
    /\ unbuilt' = unbuilt + 1
    /\ UNCHANGED <<queue, free, unfinished, threadVars, job, stopVars, waitVars>>

\* on_settled(_mark_overflow_built)
Watch(t) ==
    /\ Move(t, "charged", "watched")
    /\ UNCHANGED <<queue, free, countVars, episodeVars, threadVars, job, stopVars, waitVars>>

\* _overflow(task), the buffer's push_overflow
HandOver(t) ==
    /\ Move(t, "watched", "held")
    /\ UNCHANGED <<queue, free, countVars, episodeVars, threadVars, job, stopVars, waitVars>>

Submit(t) ==
    \/ EnterEnsure(t) \/ ReenterEnsure(t) \/ StartWorker(t) \/ StartRefused(t) \/ LeaveEnsure(t)
    \/ TakeSlot(t) \/ Count(t) \/ Put(t)
    \/ NoSlot(t) \/ Charge(t) \/ Watch(t) \/ HandOver(t)

-----------------------------------------------------------------------------
(* _idle and who sleeps on it.                                               *)

\* Mutant: wakes the sleepers only when both counters are zero.
NotifyIfAllIdle ==
    wait' = IF unfinished' = 0 /\ unbuilt' = 0
            THEN [v \in Waiters |-> IF wait[v] = "asleep" THEN "woken" ELSE wait[v]]
            ELSE wait

NotifyIfIdle ==
    wait' = IF unfinished' = 0 \/ unbuilt' = 0
            THEN [v \in Waiters |-> IF wait[v] = "asleep" THEN "woken" ELSE wait[v]]
            ELSE wait

MarkFinished ==
    /\ unfinished' = unfinished - 1
    /\ UNCHANGED <<unbuilt, owed>>
    /\ NotifyIfIdle

MarkOverflowBuilt ==
    /\ unbuilt' = unbuilt - 1
    /\ UNCHANGED <<unfinished, owed>>
    /\ NotifyIfIdle

\* Mutant: every waiter ignores the overflow.
DoneIgnoringOverflow(v) == unfinished = 0

Done(v) == unfinished = 0 /\ (v \in IdleWaiters => unbuilt = 0)

\* Tasks whose submit has returned and that v waits for.
Owed(v) ==
    At({"queued", "taken", "given", "ending", "running", "doomed"}
       \cup (IF v \in IdleWaiters THEN {"held"} ELSE {}))

BeginWait(v) ==
    /\ wait[v] = "out"
    /\ owed' = [owed EXCEPT ![v] = Owed(v)]
    /\ wait' = [wait EXCEPT ![v] = IF Done(v) THEN "yes" ELSE "asleep"]
    /\ UNCHANGED <<place, queue, free, countVars, episodeVars, threadVars, job, stopVars>>

\* wait_for evaluates its predicate again, woken or timed out.
WakeUp(v) ==
    /\ wait[v] = "woken"
    /\ wait' = [wait EXCEPT ![v] = IF Done(v) THEN "yes" ELSE "asleep"]
    /\ UNCHANGED <<place, queue, free, countVars, episodeVars, threadVars, job, stopVars, owed>>

TimeOut(v) ==
    /\ wait[v] \in {"asleep", "woken"}
    /\ wait' = [wait EXCEPT ![v] = IF Done(v) THEN "yes" ELSE "no"]
    /\ UNCHANGED <<place, queue, free, countVars, episodeVars, threadVars, job, stopVars, owed>>

EndWait(v) ==
    /\ wait[v] \in {"yes", "no"}
    /\ wait' = [wait EXCEPT ![v] = "out"]
    /\ owed' = [owed EXCEPT ![v] = {}]
    /\ UNCHANGED <<place, queue, free, countVars, episodeVars, threadVars, job, stopVars>>

-----------------------------------------------------------------------------
(* A worker's loop.  It may get a task after its stop was requested, blocked *)
(* in get or past the check.                                                 *)

\* Mutant: a worker takes nothing while an overflow episode lasts.
GetOutsideEpisode(w) ==
    /\ ~overflowing
    /\ w \in alive /\ job[w] = NoTask
    /\ queue # <<>>
    /\ Move(Head(queue), "queued", "taken")
    /\ job' = [job EXCEPT ![w] = Head(queue)]
    /\ queue' = Tail(queue)
    /\ UNCHANGED <<free, countVars, episodeVars, threadVars, stopVars, waitVars>>

Get(w) ==
    /\ w \in alive /\ job[w] = NoTask
    /\ queue # <<>>
    /\ Move(Head(queue), "queued", "taken")
    /\ job' = [job EXCEPT ![w] = Head(queue)]
    /\ queue' = Tail(queue)
    /\ UNCHANGED <<free, countVars, episodeVars, threadVars, stopVars, waitVars>>

GiveBack(w) ==
    /\ job[w] # NoTask
    /\ Move(job[w], "taken", "given")
    /\ free' = free + 1
    /\ UNCHANGED <<queue, countVars, episodeVars, threadVars, job, stopVars, waitVars>>

\* Reads _overflowing and the slots without a lock.
CheckEpisode(w) ==
    /\ job[w] # NoTask
    /\ Move(job[w], "given", IF overflowing /\ free = QueueSize THEN "ending" ELSE "running")
    /\ UNCHANGED <<queue, free, countVars, episodeVars, threadVars, job, stopVars, waitVars>>

EndEpisode(w) ==
    /\ job[w] # NoTask
    /\ Move(job[w], "ending", "running")
    /\ overflowing' = FALSE
    /\ episode' = 0
    /\ UNCHANGED <<queue, free, countVars, threadVars, job, stopVars, waitVars>>

\* task.run: sent, held back into the buffer, or failed; settled in every case.
Run(w) ==
    /\ job[w] # NoTask
    /\ Move(job[w], "running", "settled")
    /\ UNCHANGED <<queue, free, countVars, episodeVars, threadVars, job, stopVars, waitVars>>

Finish(w) ==
    /\ job[w] # NoTask
    /\ Move(job[w], "settled", "done")
    /\ MarkFinished
    /\ job' = [job EXCEPT ![w] = NoTask]
    /\ UNCHANGED <<queue, free, episodeVars, members, flagged, stopVars>>
    /\ \/ alive' = alive
       \/ "death" \in Disturbances /\ alive' = alive \ {w}   \* a BaseException ends the thread

Exit(w) ==
    /\ w \in alive /\ w \in flagged
    /\ job[w] = NoTask
    /\ alive' = alive \ {w}
    /\ UNCHANGED <<place, queue, free, countVars, episodeVars, members, flagged, job, stopVars, waitVars>>

Work(w) == Get(w) \/ GiveBack(w) \/ CheckEpisode(w) \/ EndEpisode(w) \/ Run(w) \/ Finish(w) \/ Exit(w)

-----------------------------------------------------------------------------
(* The buffer builds an overflowed task, or discards it (evicted, expired):  *)
(* either settles it, and the callback counts it.                            *)

SettleOverflow(t) ==
    /\ Move(t, "held", "built")
    /\ UNCHANGED <<queue, free, countVars, episodeVars, threadVars, job, stopVars, waitVars>>

CountBuilt(t) ==
    /\ Move(t, "built", "done")
    /\ MarkOverflowBuilt
    /\ UNCHANGED <<queue, free, episodeVars, threadVars, job, stopVars>>

Build(t) == SettleOverflow(t) \/ CountBuilt(t)

-----------------------------------------------------------------------------
(* stop().                                                                   *)

RequestStop ==
    /\ "stop" \in Disturbances
    /\ stopper = "out"
    /\ At({"starting"}) = {}
    /\ flagged' = flagged \cup members
    /\ stopper' = "discarding"
    /\ UNCHANGED <<place, queue, free, countVars, episodeVars, members, alive, job, discarding, waitVars>>

TakeDiscarded ==
    /\ stopper = "discarding" /\ discarding = NoTask
    /\ queue # <<>>
    /\ Move(Head(queue), "queued", "taken")
    /\ discarding' = Head(queue)
    /\ queue' = Tail(queue)
    /\ UNCHANGED <<free, countVars, episodeVars, threadVars, job, stopper, waitVars>>

\* Mutant: stop forgets the slot of a task it discards.
GiveBackDiscardedNothing ==
    /\ discarding # NoTask
    /\ Move(discarding, "taken", "doomed")
    /\ UNCHANGED <<queue, free, countVars, episodeVars, threadVars, job, stopVars, waitVars>>

GiveBackDiscarded ==
    /\ discarding # NoTask
    /\ Move(discarding, "taken", "doomed")
    /\ free' = free + 1
    /\ UNCHANGED <<queue, countVars, episodeVars, threadVars, job, stopVars, waitVars>>

Discard ==
    /\ discarding # NoTask
    /\ Move(discarding, "doomed", "settled")
    /\ UNCHANGED <<queue, free, countVars, episodeVars, threadVars, job, stopVars, waitVars>>

\* Mutant: a discarded task stays counted.
FinishDiscardedUncounted ==
    /\ discarding # NoTask
    /\ Move(discarding, "settled", "done")
    /\ discarding' = NoTask
    /\ UNCHANGED <<queue, free, countVars, episodeVars, threadVars, job, stopper, waitVars>>

FinishDiscarded ==
    /\ discarding # NoTask
    /\ Move(discarding, "settled", "done")
    /\ MarkFinished
    /\ discarding' = NoTask
    /\ UNCHANGED <<queue, free, episodeVars, threadVars, job, stopper>>

QueueEmptied ==
    /\ stopper = "discarding" /\ discarding = NoTask
    /\ queue = <<>>
    /\ stopper' = "joining"
    /\ UNCHANGED <<place, queue, free, countVars, episodeVars, threadVars, job, discarding, waitVars>>

\* Mutant: stop forgets its workers, busy ones included.
StopForgetsWorkers ==
    /\ stopper = "joining"
    /\ At({"starting"}) = {}
    /\ members' = {}
    /\ stopper' = "out"
    /\ UNCHANGED <<place, queue, free, countVars, episodeVars, alive, flagged, job, discarding, waitVars>>

\* The joins ended or timed out: the workers still alive stay counted.
StopReturns ==
    /\ stopper = "joining"
    /\ At({"starting"}) = {}
    /\ members' = members \cap alive
    /\ stopper' = "out"
    /\ UNCHANGED <<place, queue, free, countVars, episodeVars, alive, flagged, job, discarding, waitVars>>

Stop == RequestStop \/ TakeDiscarded \/ GiveBackDiscarded \/ Discard \/ FinishDiscarded
        \/ QueueEmptied \/ StopReturns

-----------------------------------------------------------------------------
Next ==
    \/ \E t \in Tasks : Submit(t) \/ Build(t)
    \/ \E w \in WorkerIds : Work(w)
    \/ \E v \in Waiters : BeginWait(v) \/ WakeUp(v) \/ TimeOut(v) \/ EndWait(v)
    \/ Stop

Spec == Init /\ [][Next]_vars

\* Threads the operating system keeps scheduling: a submit that began goes on,
\* a worker takes what is queued, the buffer's flush thread builds what it holds.
Fairness ==
    /\ \A t \in Tasks : WF_vars(Submit(t) /\ place[t] # "new") /\ WF_vars(Build(t))
    /\ \A w \in WorkerIds : WF_vars(Work(w))
    /\ \A v \in Waiters : WF_vars(WakeUp(v))
    /\ WF_vars(Stop /\ stopper # "out")

FairSpec == Spec /\ Fairness

-----------------------------------------------------------------------------
TypeOK ==
    /\ place \in [Tasks -> Places]
    /\ queue \in Seq(Tasks)
    /\ free \in 0..QueueSize
    /\ unfinished \in Nat /\ unbuilt \in Nat
    /\ overflowing \in BOOLEAN /\ episode \in Nat
    /\ members \subseteq WorkerIds /\ alive \subseteq WorkerIds /\ flagged \subseteq WorkerIds
    /\ job \in [WorkerIds -> Tasks \cup {NoTask}]
    /\ stopper \in {"out", "discarding", "joining"}
    /\ discarding \in Tasks \cup {NoTask}
    /\ wait \in [Waiters -> {"out", "asleep", "woken", "yes", "no"}]
    /\ owed \in [Waiters -> SUBSET Tasks]

\* Every slot is free or held by exactly one task on its way from take to
\* give_back, with take, queueing, get and give_back in four unlocked steps of
\* two threads: the queue never holds more than its size and loses no room.
SlotsConserved == free + Cardinality(At(HoldsSlot)) = QueueSize

\* _unfinished and _overflow_unbuilt count the tasks between their increment in
\* submit and their decrement by a worker, the buffer or stop, never twice.
CountsExact ==
    /\ unfinished = Cardinality(At(Unfinished))
    /\ unbuilt = Cardinality(At(Unbuilt))

\* wait_until_idle answers True only when every task whose submit had returned
\* before the wait began is delivered, built into a buffered event or dropped;
\* wait_until_queue_drained the same for the tasks that did not overflow.
IdleMeansSettled ==
    \A v \in Waiters : wait[v] = "yes" => \A t \in owed[v] : place[t] \in Settled

\* No thread sleeps on _idle while what it waits for has come true, although
\* two counters share the condition and their last decrements may race.
NoMissedWakeup == \A v \in Waiters : wait[v] = "asleep" => ~Done(v)

\* Workers never outnumber the pool's size, whatever mix of submits, worker
\* deaths and timed-out stops replaces them.
WorkersBounded == alive \subseteq members /\ Cardinality(members) <= WorkerCount

\* A queued task is settled in the end, with no later submit to help it, although workers
\* die and a stop races it, unless no worker is left but those that were told to stop.
QueuedIsSettled ==
    \A t \in Tasks : place[t] = "queued" ~> place[t] \in Settled \/ alive \subseteq flagged

=============================================================================
