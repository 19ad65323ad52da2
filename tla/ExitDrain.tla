------------------------------- MODULE ExitDrain -------------------------------
(***************************************************************************)
(* How the process ends: the exit drain and flush_metering of                *)
(* _core/metering.py and the opt-in handler of _core/shutdown_signals.py.    *)
(*                                                                          *)
(* A thread is a stack of calls.  SIGTERM puts its handler on top of         *)
(* whatever the main thread is doing, the drain itself included, and a       *)
(* KeyboardInterrupt (or the SystemExit of a handler the application had     *)
(* installed) unwinds the main thread's stack, running the finally of each   *)
(* drain it passes.  Another thread may call handle_exit or flush_metering   *)
(* at the same time.                                                         *)
(*                                                                          *)
(* The pool and the buffer are abstract here (see MeteringPool and           *)
(* MeteringBuffer): what matters of a record is where it is.  A flush takes  *)
(* overflowed tasks out of the buffer, has them built on the build thread    *)
(* and puts the unbuilt ones back, in steps of their own, while the drain    *)
(* takes over, builds and counts.  Threads start; MeteringBuffer has what    *)
(* is built where they do not.                                               *)
(***************************************************************************)
EXTENDS Naturals, Sequences, FiniteSets

CONSTANTS
    Main,           \* the main thread
    Helpers,        \* other threads that call handle_exit or flush_metering
    Records,        \* usage records
    Unchecking,     \* those of the proxy and of tools, sent whenever they run
    MaxSignals,     \* bound: SIGTERMs
    MaxInterrupts,  \* bound: exceptions raised in the main thread
    MaxCalls        \* bound: calls of handle_exit and flush_metering

ASSUME ExitAssumption ==
    /\ Main \notin Helpers
    /\ IsFiniteSet(Records) /\ Unchecking \subseteq Records
    /\ {MaxSignals, MaxInterrupts, MaxCalls} \subseteq Nat

Threads == {Main} \cup Helpers

VARIABLES
    stack,      \* per thread, its calls, the innermost last
    running,    \* _running_exit_drain: the number of a drain, or 0
    drains,     \* per drain: its thread, whether it is over, late or complete, what it owes
    shutdown,   \* shutdown_event
    deferred,   \* whether _deferred_signal is set
    record,     \* per record, where it is
    batch,      \* per thread, the tasks its flush took out of the buffer
    exiting,    \* _exit_build_started
    adrift,     \* history: the records that moved past the counts of a drain
    ended,      \* how the process ended, if it did
    budget      \* how often each bounded event may still happen

drainVars == <<running, drains>>
flagVars == <<shutdown, deferred>>
taskVars == <<batch, exiting, adrift>>
recordVars == <<record, taskVars>>
vars == <<stack, drainVars, flagVars, recordVars, ended, budget>>

-----------------------------------------------------------------------------
(* Calls on a stack.                                                         *)

\* A call of handle_exit stands for all who wait for its answer: `why` says who.
Frame(at, why) == [at |-> at, why |-> why, drain |-> 0, late |-> FALSE, raised |-> FALSE, left |-> 0,
                   replayed |-> FALSE]

Top(t) == stack[t][Len(stack[t])]
Below(t) == SubSeq(stack[t], 1, Len(stack[t]) - 1)
Called(t, frame) == stack' = [stack EXCEPT ![t] = Append(@, frame)]
Becomes(t, frame) == stack' = [stack EXCEPT ![t] = Append(Below(t), frame)]
Goes(t, at) == Becomes(t, [Top(t) EXCEPT !.at = at])
Returned(t) == stack' = [stack EXCEPT ![t] = Below(t)]

FramesOf(t) == {stack[t][i] : i \in 1..Len(stack[t])}
AllFrames == UNION {FramesOf(t) : t \in Threads}

On(t, at) == ended = "no" /\ Top(t).at = at /\ ~Top(t).raised

Draining == {"queue", "take over", "overflow", "flag", "lock", "flush", "remaining", "in build"}
Finishing == {"over", "end", "deferred"}
Flushing == {"call queue", "call tasks", "call check", "call build", "call back", "call lock", "call flush"}

\* _exit_lock, reentrant: a thread is inside while one of its calls is.
Enterable(t) == \A u \in Threads \ {t} : \A f \in FramesOf(u) : f.at # "inside"

\* _flush_lock, which is not.
FlushLockFree == \A f \in AllFrames : f.at \notin {"flush", "call flush"}

At(places) == {r \in Records : record[r] \in places}
Put(rs, place) == [r \in Records |-> IF r \in rs THEN place ELSE record[r]]

\* An overflowed task waits in the buffer ("overflow") or is out of it: registered by a
\* flush, handed to the build thread, taken over by the drain, being built, or reclaimed
\* and not yet put back.  Two counts see two parts of them.
Tasks == {"overflow", "taken", "handed", "taken over", "building", "returning"}
InBuild == At({"taken", "handed", "taken over", "building"})
Undelivered == At({"overflow", "held", "sending"})

\* The drain is between its two counts.
Counting == \E f \in AllFrames : f.at = "in build"

Init ==
    /\ stack = [t \in Threads |-> <<Frame("app", "app")>>]
    /\ running = 0 /\ drains = <<>>
    /\ shutdown = FALSE /\ deferred = FALSE
    /\ record = [r \in Records |-> "new"]
    /\ batch = [t \in Threads |-> {}] /\ exiting = FALSE /\ adrift = {}
    /\ ended = "no"
    /\ budget = [signals |-> MaxSignals, interrupts |-> MaxInterrupts, calls |-> MaxCalls]

-----------------------------------------------------------------------------
(* Who asks for a drain.                                                     *)

\* handle_exit, called by the application, or at the end of the main thread.
CallExit(t) ==
    /\ On(t, "app")
    /\ \/ t = Main /\ Called(t, Frame("enter", "atexit")) /\ UNCHANGED budget
       \/ /\ budget.calls > 0
          /\ budget' = [budget EXCEPT !.calls = @ - 1]
          /\ Called(t, Frame("enter", "app"))
    /\ UNCHANGED <<drainVars, flagVars, recordVars, ended>>

\* handle_sigterm, between two steps of whatever the main thread does.
Signal ==
    /\ ended = "no" /\ budget.signals > 0
    /\ budget' = [budget EXCEPT !.signals = @ - 1]
    /\ Called(Main, Frame("enter", "handler"))
    /\ UNCHANGED <<drainVars, flagVars, recordVars, ended>>

\* The answer of drain_or_await_exit, given to the handler, to atexit or to a caller.
Answer(t, over) ==
    CASE Top(t).why = "handler" /\ over ->
            ended' = "terminated" /\ UNCHANGED <<stack, deferred>>
      [] Top(t).why = "handler" /\ ~over ->
            deferred' = TRUE /\ Returned(t) /\ UNCHANGED ended
      [] Top(t).why = "atexit" ->
            ended' = "exited" /\ UNCHANGED <<stack, deferred>>
      [] OTHER ->
            Returned(t) /\ UNCHANGED <<deferred, ended>>

-----------------------------------------------------------------------------
(* _start_or_join_exit_drain and drain_or_await_exit.                        *)

Enter(t) ==
    /\ On(t, "enter") /\ Enterable(t)
    /\ Goes(t, "inside")
    /\ UNCHANGED <<drainVars, flagVars, recordVars, ended, budget>>

\* Mutant: a caller on any thread is told that the drain runs underneath it.
OnAnyThread(t) == TRUE

\* Mutant: the drain's own thread waits for itself.
OnNoThread(t) == FALSE

Underneath(t) == drains[running].thread = t

Join(t) ==
    /\ On(t, "inside") /\ running # 0
    /\ IF Underneath(t)
       THEN Answer(t, FALSE)
       ELSE Becomes(t, [Top(t) EXCEPT !.at = "wait", !.drain = running]) /\ UNCHANGED <<deferred, ended>>
    /\ UNCHANGED <<drainVars, shutdown, recordVars, budget>>

AlreadyDrained(t) ==
    /\ On(t, "inside") /\ running = 0 /\ shutdown
    /\ Answer(t, TRUE)
    /\ UNCHANGED <<drainVars, shutdown, recordVars, budget>>

\* Mutant: the drain is started without a look at the one running.
StartsItsOwn(t) ==
    /\ On(t, "inside") /\ ~shutdown
    /\ running' = Len(drains) + 1
    /\ drains' = Append(drains, [thread |-> t, over |-> FALSE, late |-> FALSE, complete |-> FALSE,
                                 owes |-> {}, missed |-> {}])
    /\ Becomes(t, [Top(t) EXCEPT !.at = "queue", !.drain = Len(drains) + 1])
    /\ UNCHANGED <<flagVars, recordVars, ended, budget>>

StartDrain(t) ==
    /\ On(t, "inside") /\ running = 0 /\ ~shutdown
    /\ running' = Len(drains) + 1
    /\ drains' = Append(drains, [thread |-> t, over |-> FALSE, late |-> FALSE, complete |-> FALSE,
                                 owes |-> At({"queued", "running", "held", "sending"} \cup Tasks),
                                 missed |-> {}])
    /\ Becomes(t, [Top(t) EXCEPT !.at = "queue", !.drain = Len(drains) + 1])
    /\ UNCHANGED <<flagVars, recordVars, ended, budget>>

\* over.wait, until the deadline of the drain.
Await(t) ==
    /\ On(t, "wait")
    /\ drains[Top(t).drain].over \/ drains[Top(t).drain].late
    /\ Answer(t, TRUE)
    /\ UNCHANGED <<drainVars, shutdown, recordVars, budget>>

-----------------------------------------------------------------------------
(* _drain_within.                                                            *)

Late(t) == drains[Top(t).drain].late

\* The deadline of a drain passes, whatever the drain is doing.
Deadline(d) ==
    /\ ended = "no" /\ ~drains[d].late /\ ~drains[d].over
    /\ drains' = [drains EXCEPT ![d].late = TRUE]
    /\ UNCHANGED <<stack, running, flagVars, recordVars, ended, budget>>

\* _drain_worker_queue: until nothing is queued or running, or the deadline.
DrainQueue(t) ==
    /\ On(t, "queue")
    /\ At({"queued", "running"}) = {} \/ Late(t)
    /\ Becomes(t, [Top(t) EXCEPT !.at = "take over", !.left = Cardinality(At({"queued", "running"}))])
    /\ UNCHANGED <<drainVars, flagVars, recordVars, ended, budget>>

\* build_all_overflow stops every other build from starting and takes its unstarted tasks,
\* and those of the buffer; it does not see those a flush has reclaimed to put back.
TakeOver(t) ==
    /\ On(t, "take over")
    /\ exiting' = TRUE
    /\ record' = Put(At({"overflow", "taken", "handed"}), "taken over")
    /\ batch' = [u \in Threads |-> batch[u] \ At({"taken", "handed"})]
    /\ drains' = [drains EXCEPT ![Top(t).drain].missed = At({"returning"})]
    /\ Goes(t, "overflow")
    /\ UNCHANGED <<running, flagVars, adrift, ended, budget>>

\* Mutant: the flag is set before the overflowed tasks are built.
FlagFirst(t) ==
    /\ On(t, "overflow")
    /\ Goes(t, "flag")
    /\ UNCHANGED <<drainVars, flagVars, recordVars, ended, budget>>

\* It waits for its own build and for those under way; what the deadline leaves unstarted
\* goes back to the buffer, and a build under way goes on.
BuildOverflow(t) ==
    /\ On(t, "overflow")
    /\ At({"taken over", "building"}) = {} \/ Late(t)
    /\ record' = Put(At({"taken over"}), "overflow")
    /\ Goes(t, "flag")
    /\ UNCHANGED <<drainVars, flagVars, taskVars, ended, budget>>

SetFlag(t) ==
    /\ On(t, "flag")
    /\ shutdown' = TRUE
    /\ Goes(t, "lock")
    /\ UNCHANGED <<drainVars, deferred, recordVars, ended, budget>>

\* The drain's own flush finds `exiting` set: it puts the tasks it meets back before it
\* counts, so they are left where they are here.
TakeLock(t) ==
    /\ On(t, "lock") /\ FlushLockFree
    /\ Goes(t, "flush")
    /\ UNCHANGED <<drainVars, flagVars, recordVars, ended, budget>>

\* Another flush has the lock until the deadline.
SkipFlush(t) ==
    /\ On(t, "lock") /\ Late(t)
    /\ Goes(t, "remaining")
    /\ UNCHANGED <<drainVars, flagVars, recordVars, ended, budget>>

Replay(t) ==
    /\ On(t, "flush") /\ ~Late(t)
    /\ \E sending \in SUBSET At({"held"}) \ {{}} : record' = Put(sending, "sending")
    /\ UNCHANGED <<stack, drainVars, flagVars, taskVars, ended, budget>>

\* What a flush could not send goes back to the buffer.
SentOf(delivered) ==
    [r \in Records |-> IF r \in delivered THEN "sent" ELSE IF record[r] = "sending" THEN "held" ELSE record[r]]

EndFlush(t) ==
    /\ On(t, "flush")
    /\ At({"held"}) = {} \/ Late(t)
    /\ \E delivered \in SUBSET At({"sending"}) : record' = SentOf(delivered)
    /\ Goes(t, "remaining")
    /\ UNCHANGED <<drainVars, flagVars, taskVars, ended, budget>>

\* Mutant: what the buffer still holds is not in the warning.
SkipsRemaining(t) ==
    /\ On(t, "remaining")
    /\ adrift' = adrift \cup At({"returning"})
    /\ Goes(t, "in build")
    /\ UNCHANGED <<drainVars, flagVars, record, batch, exiting, ended, budget>>

\* The first count, flush()["remaining"]: what the buffer holds and what is being sent.
CountRemaining(t) ==
    /\ On(t, "remaining")
    /\ adrift' = adrift \cup At({"returning"})
    /\ Becomes(t, [Top(t) EXCEPT !.at = "in build", !.left = @ + Cardinality(Undelivered)])
    /\ UNCHANGED <<drainVars, flagVars, record, batch, exiting, ended, budget>>

\* The second, overflow_in_build(); the finally of drain_or_await_exit comes next.
CountInBuild(t) ==
    /\ On(t, "in build")
    /\ drains' = [drains EXCEPT ![Top(t).drain].complete = TRUE]
    /\ Becomes(t, [Top(t) EXCEPT !.at = "over", !.left = @ + Cardinality(InBuild)])
    /\ UNCHANGED <<running, flagVars, recordVars, ended, budget>>

\* Mutant: the drain is over for the others only once it is deregistered.
OverNeedsLock(t) ==
    /\ Top(t).at = "over" /\ ended = "no"
    /\ Goes(t, "end")
    /\ UNCHANGED <<drainVars, flagVars, recordVars, ended, budget>>

\* The finally of drain_or_await_exit: over, then _end_exit_drain, then the deferred signal.
SetOver(t) ==
    /\ Top(t).at = "over" /\ ended = "no"
    /\ drains' = [drains EXCEPT ![Top(t).drain].over = TRUE]
    /\ Becomes(t, [Top(t) EXCEPT !.at = "end", !.drain = 0, !.left = 0])
    /\ UNCHANGED <<running, flagVars, recordVars, ended, budget>>

EndDrain(t) ==
    /\ Top(t).at = "end" /\ ended = "no" /\ Enterable(t)
    /\ running' = 0
    /\ Goes(t, "deferred")
    /\ UNCHANGED <<drains, flagVars, recordVars, ended, budget>>

\* Mutant: the deferred signal is forgotten.
NeverTerminates == FALSE

\* terminate_if_deferred
Terminates == deferred

TerminateIfDeferred(t) ==
    /\ Top(t).at = "deferred" /\ ended = "no"
    /\ IF Terminates THEN ended' = "terminated" /\ UNCHANGED <<stack, deferred>>
       ELSE IF Top(t).raised THEN Goes(t, "raising") /\ UNCHANGED <<deferred, ended>>
       ELSE Answer(t, TRUE)
    /\ UNCHANGED <<drainVars, shutdown, recordVars, budget>>

-----------------------------------------------------------------------------
(* An exception in the main thread, inside a drain, a flush or a wait.       *)

Interrupt ==
    /\ ended = "no" /\ budget.interrupts > 0
    /\ Top(Main).at \in Draining \cup Flushing \cup {"wait"}
    /\ ~Top(Main).raised
    /\ budget' = [budget EXCEPT !.interrupts = @ - 1]
    /\ Becomes(Main, [Top(Main) EXCEPT !.raised = TRUE])
    /\ UNCHANGED <<drainVars, flagVars, recordVars, ended>>

\* Whoever holds the flush lock gives it back, and the records with it.
GivenBack == IF Top(Main).at \in {"flush", "call flush"} THEN SentOf({}) ELSE record

\* Nobody puts the tasks of an abandoned flush back; those handed over go on being built.
Abandoned == IF Top(Main).at \in Flushing THEN [batch EXCEPT ![Main] = {}] ELSE batch

\* The exception runs the finally of a drain, ends any other call, and ends the main
\* thread, which leaves the drain to atexit; out of atexit it is only printed.
Unwind ==
    /\ ended = "no" /\ Top(Main).raised /\ Top(Main).at \notin Finishing
    /\ record' = GivenBack /\ batch' = Abandoned
    /\ IF Top(Main).at \in Draining THEN Goes(Main, "over") /\ UNCHANGED ended
       ELSE IF Top(Main).why = "atexit" THEN ended' = "exited" /\ UNCHANGED stack
       ELSE IF Top(Main).at = "app"
            THEN Becomes(Main, Frame("app", "app")) /\ UNCHANGED ended
       ELSE /\ stack' = [stack EXCEPT ![Main] = [Below(Main) EXCEPT ![Len(Below(Main))].raised = TRUE]]
            /\ UNCHANGED ended
    /\ UNCHANGED <<drainVars, flagVars, exiting, adrift, budget>>

-----------------------------------------------------------------------------
(* flush_metering, and the flushes of the buffer's own thread, which have no  *)
(* deadline and start or go on replaying only until shutdown_event is set.    *)

CallFlush(t) ==
    /\ On(t, "app") /\ budget.calls > 0 /\ ~shutdown
    /\ budget' = [budget EXCEPT !.calls = @ - 1]
    /\ \/ Called(t, Frame("call queue", "app"))
       \/ t # Main /\ Called(t, Frame("call tasks", "thread"))
    /\ UNCHANGED <<drainVars, flagVars, recordVars, ended>>

\* The deadline of a call, at the steps that look at it.
CallTimesOut(t) ==
    /\ Top(t).at \in {"call queue", "call build", "call lock", "call flush"}
    /\ Top(t).why # "thread" /\ ended = "no" /\ ~Top(t).late
    /\ Becomes(t, [Top(t) EXCEPT !.late = TRUE])
    /\ UNCHANGED <<drainVars, flagVars, recordVars, ended, budget>>

FlushQueue(t) ==
    /\ On(t, "call queue")
    /\ At({"queued", "running"}) = {} \/ Top(t).late
    /\ Goes(t, "call tasks")
    /\ UNCHANGED <<drainVars, flagVars, recordVars, ended, budget>>

\* materialize_overflow: the waiting tasks become a build that a drain can take over.
RegisterTasks(t) ==
    /\ On(t, "call tasks")
    /\ record' = Put(At({"overflow"}), "taken")
    /\ batch' = [batch EXCEPT ![t] = At({"overflow"})]
    /\ Goes(t, "call check")
    /\ UNCHANGED <<drainVars, flagVars, exiting, adrift, ended, budget>>

\* A build is stopped and its unstarted tasks are taken back, to be returned to the buffer.
Reclaim(t, place) ==
    LET rs == batch[t] \cap At({place})
    IN  /\ record' = Put(rs, "returning")
        /\ adrift' = IF Counting THEN adrift \cup rs ELSE adrift
        /\ Goes(t, "call back")

\* _build_unless_exiting
HandOver(t) ==
    /\ On(t, "call check")
    /\ IF exiting THEN Reclaim(t, "taken")
       ELSE record' = Put(batch[t] \cap At({"taken"}), "handed") /\ Goes(t, "call build") /\ UNCHANGED adrift
    /\ UNCHANGED <<drainVars, flagVars, batch, exiting, ended, budget>>

\* Until the build is finished or, past the deadline, the one under way goes on without it.
AwaitBuild(t) ==
    /\ On(t, "call build")
    /\ batch[t] \cap At({"handed", "building"}) = {} \/ Top(t).late
    /\ Reclaim(t, "handed")
    /\ UNCHANGED <<drainVars, flagVars, batch, exiting, ended, budget>>

\* _return_to_front; the flush goes on to replay, or is done if it has.
PutBack(t) ==
    /\ On(t, "call back")
    /\ record' = Put(batch[t] \cap At({"returning"}), "overflow")
    /\ batch' = [batch EXCEPT ![t] = {}]
    /\ IF Top(t).replayed THEN Returned(t) ELSE Goes(t, "call lock")
    /\ UNCHANGED <<drainVars, flagVars, exiting, adrift, ended, budget>>

FlushTakesLock(t) ==
    /\ On(t, "call lock")
    /\ \/ FlushLockFree /\ Goes(t, "call flush")
       \/ Top(t).late /\ Returned(t)
    /\ UNCHANGED <<drainVars, flagVars, recordVars, ended, budget>>

\* _may_replay_more
MayReplayMore(t) == IF Top(t).why = "thread" THEN ~shutdown ELSE ~Top(t).late

\* A batch: held records are sent, overflowed tasks met on the way are taken to be built.
FlushReplays(t) ==
    /\ On(t, "call flush") /\ MayReplayMore(t)
    /\ \E met \in SUBSET At({"held", "overflow"}) \ {{}} :
          /\ record' = [r \in Records |-> IF r \notin met THEN record[r]
                                          ELSE IF record[r] = "held" THEN "sending" ELSE "taken"]
          /\ batch' = [batch EXCEPT ![t] = @ \cup (met \cap At({"overflow"}))]
    /\ UNCHANGED <<stack, drainVars, flagVars, exiting, adrift, ended, budget>>

FlushEnds(t) ==
    /\ On(t, "call flush")
    /\ At({"held", "overflow"}) = {} \/ ~MayReplayMore(t)
    /\ \E delivered \in SUBSET At({"sending"}) : record' = SentOf(delivered)
    /\ Becomes(t, [Top(t) EXCEPT !.at = "call check", !.replayed = TRUE])
    /\ UNCHANGED <<drainVars, flagVars, taskVars, ended, budget>>

-----------------------------------------------------------------------------
(* Records.                                                                  *)

\* run_async_in_thread: refused once shutdown_event is set.
Submit(r) ==
    /\ ended = "no" /\ record[r] = "new"
    /\ \E to \in IF shutdown THEN {"refused"} ELSE {"queued", "overflow"} :
          record' = [record EXCEPT ![r] = to]
    /\ UNCHANGED <<stack, drainVars, flagVars, taskVars, ended, budget>>

Skips(r) == shutdown /\ r \notin Unchecking

\* A worker runs the record's coroutine, which returns early once the flag is set.
Run(r) ==
    /\ ended = "no" /\ record[r] = "queued"
    /\ record' = [record EXCEPT ![r] = IF Skips(r) THEN "skipped" ELSE "running"]
    /\ UNCHANGED <<stack, drainVars, flagVars, taskVars, ended, budget>>

EndRun(r) ==
    /\ ended = "no" /\ record[r] = "running"
    /\ \E to \in {"sent", "held"} : record' = [record EXCEPT ![r] = to]
    /\ UNCHANGED <<stack, drainVars, flagVars, taskVars, ended, budget>>

\* The build thread, or the one started for the drain's takeover, begins a task.
Begin(r) ==
    /\ ended = "no" /\ record[r] \in {"handed", "taken over"}
    /\ record' = [record EXCEPT ![r] = "building"]
    /\ UNCHANGED <<stack, drainVars, flagVars, taskVars, ended, budget>>

\* It pushes its event, or fails; a build which the flag overtakes may skip itself instead.
EndBuild(r) ==
    /\ ended = "no" /\ record[r] = "building"
    /\ \E to \in {"held", "sent"} \cup (IF Skips(r) THEN {"skipped"} ELSE {}) :
          /\ record' = [record EXCEPT ![r] = to]
          /\ adrift' = IF Counting \/ to = "skipped" THEN adrift \cup {r} ELSE adrift
    /\ UNCHANGED <<stack, drainVars, flagVars, batch, exiting, ended, budget>>

-----------------------------------------------------------------------------
Ask(t) ==
    /\ Top(t).at \in {"enter", "inside", "wait"}
    /\ Enter(t) \/ Join(t) \/ AlreadyDrained(t) \/ StartDrain(t) \/ Await(t)

Drain(t) ==
    /\ Top(t).at \in Draining
    /\ \/ DrainQueue(t) \/ TakeOver(t) \/ BuildOverflow(t) \/ SetFlag(t) \/ TakeLock(t) \/ SkipFlush(t)
       \/ Replay(t) \/ EndFlush(t) \/ CountRemaining(t) \/ CountInBuild(t)

Finish(t) ==
    /\ Top(t).at \in Finishing
    /\ SetOver(t) \/ EndDrain(t) \/ TerminateIfDeferred(t)

Flush(t) ==
    /\ Top(t).at \in Flushing
    /\ \/ CallTimesOut(t) \/ FlushQueue(t) \/ RegisterTasks(t) \/ HandOver(t) \/ AwaitBuild(t) \/ PutBack(t)
       \/ FlushTakesLock(t) \/ FlushReplays(t) \/ FlushEnds(t)

Step(t) == Ask(t) \/ Drain(t) \/ Finish(t) \/ Flush(t)

Next ==
    \/ \E t \in Threads : CallExit(t) \/ CallFlush(t) \/ Step(t)
    \/ \E d \in 1..Len(drains) : Deadline(d)
    \/ Signal \/ Interrupt \/ Unwind
    \/ \E r \in Records : Submit(r) \/ Run(r) \/ EndRun(r) \/ Begin(r) \/ EndBuild(r)

Spec == Init /\ [][Next]_vars

\* A thread that can go on does, and time passes; nothing makes a record be sent.
Fairness ==
    /\ \A t \in Threads : WF_vars(Step(t))
    /\ WF_vars(\E d \in 1..Len(drains) : Deadline(d))
    /\ WF_vars(Unwind)

FairSpec == Spec /\ Fairness

-----------------------------------------------------------------------------
Places == {"new", "queued", "running", "held", "sending", "sent", "skipped", "refused"} \cup Tasks

FrameType ==
    [at : {"app", "enter", "inside", "wait", "raising"} \cup Draining \cup Finishing \cup Flushing,
     why : {"app", "atexit", "handler", "thread"}, drain : Nat, late : BOOLEAN, raised : BOOLEAN, left : Nat,
     replayed : BOOLEAN]

DrainType == [thread : Threads, over : BOOLEAN, late : BOOLEAN, complete : BOOLEAN,
              owes : SUBSET Records, missed : SUBSET Records]

TypeOK ==
    /\ stack \in [Threads -> Seq(FrameType) \ {<<>>}]
    /\ running \in Nat
    /\ drains \in Seq(DrainType)
    /\ shutdown \in BOOLEAN /\ deferred \in BOOLEAN
    /\ record \in [Records -> Places]
    /\ batch \in [Threads -> SUBSET Records] /\ exiting \in BOOLEAN /\ adrift \subseteq Records
    /\ ended \in {"no", "terminated", "exited"}
    /\ budget \in [{"signals", "interrupts", "calls"} -> Nat]

\* One drain at a time, however its callers interrupt and overlap each other: two
\* would both wait for the pool and race for the flush lock with two budgets.
OneDrain ==
    \A t, u \in Threads : \A i \in 1..Len(stack[t]), j \in 1..Len(stack[u]) :
        stack[t][i].at \in Draining /\ stack[u][j].at \in Draining => t = u /\ i = j

\* The process ends, on a signal or after atexit, only when every drain has finished,
\* has been interrupted or has used up its budget; never under one that goes on,
\* unless an exception ends the wait of atexit.
NotCutShort ==
    [][ended = "no" /\ ended' # "no" =>
         Top(Main).raised \/
         /\ drains # <<>>
         /\ \A d \in 1..Len(drains) : drains[d].over \/ drains[d].late]_vars

\* No thread waits for a drain that cannot go on: its own, underneath it, or one that
\* is done and needs the exit lock this thread holds to say so.
NoMutualWait ==
    \A t \in Threads : Top(t).at = "wait" =>
        LET d == drains[Top(t).drain]
        IN  /\ d.thread # t
            /\ Top(d.thread).at = "end" /\ ~Enterable(d.thread) => d.over

\* What neither count of a drain sees: late, a build that skips itself after the flag, and
\* a task that another thread moves from one place counted to another between the counts,
\* or is putting back then; in time, only one that was being put back at the takeover.
Unseen(d) == adrift \cap (IF d.late THEN Records ELSE d.missed)

\* Every record accepted before a drain that ran to its end is sent or in the count of its
\* warning, also when it was running, being built, failing or with another flush
\* meanwhile; but for those which other threads moved past its two counts.
WarningCountsTheRest ==
    \A t \in Threads : \A f \in FramesOf(t) :
        f.at = "over" /\ drains[f.drain].complete =>
            LET d == drains[f.drain]
            IN  Cardinality({r \in d.owes \ Unseen(d) : record[r] # "sent"}) <= f.left

\* A drain that ran to its end in time has tried every record accepted before it but those
\* a flush was putting back at its takeover: none is skipped for the flag it sets, left on
\* the queue, left an overflowed task or still being built.
InTimeAllAreTried ==
    \A d \in 1..Len(drains) :
        drains[d].complete /\ ~drains[d].late =>
            \A r \in drains[d].owes \ drains[d].missed : record[r] \in {"sent", "held", "sending"}

\* SIGTERM, at once or put off, and the end of the main thread end the process, whatever
\* holds the locks, is waited for or is interrupted, unless an exception takes them off the
\* stack, and is still being raised there, before the signal is put off.
Asked == deferred \/ \E f \in FramesOf(Main) : f.why \in {"handler", "atexit"}

EndsWhenAsked == Asked ~> ended # "no" \/ (~Asked /\ Top(Main).raised)
===============================================================================
