-------------------------- MODULE MeteringPoolProofs --------------------------
(***************************************************************************)
(* What TLAPS proves about the delivery pool, for every number of tasks,      *)
(* workers, waiting threads and queue slots, and whatever disturbances occur. *)
(***************************************************************************)
EXTENDS MeteringPool, FiniteSetTheorems, TLAPS

-----------------------------------------------------------------------------
(* Counting tasks by place.                                                  *)

\* The tasks that the placing f puts in S.
Placed(f, S) == {t \in Tasks : f[t] \in S}

\* There are finitely many tasks in any group of places.
LEMMA PlacedFinite ==
  ASSUME NEW f, NEW S
  PROVE  IsFiniteSet(Placed(f, S)) /\ Cardinality(Placed(f, S)) \in Nat
  <1>1. Placed(f, S) \in SUBSET Tasks
    BY DEF Placed
  <1>2. IsFiniteSet(Placed(f, S))
    BY <1>1, PoolAssumption, FS_Subset
  <1> QED
    BY <1>2, FS_CardinalityType

Bit(b) == IF b THEN 1 ELSE 0

\* Moving one task takes it out of the group it was in and adds it to the one
\* it goes to.
LEMMA MoveCounts ==
  ASSUME NEW f \in [Tasks -> Places], NEW t \in Tasks, NEW q \in Places, NEW S
  PROVE  Cardinality(Placed([f EXCEPT ![t] = q], S))
           = Cardinality(Placed(f, S)) - Bit(f[t] \in S) + Bit(q \in S)
  <1> DEFINE g == [f EXCEPT ![t] = q]
  <1>1. IsFiniteSet(Placed(f, S)) /\ Cardinality(Placed(f, S)) \in Nat
    BY PlacedFinite
  <1>2. CASE f[t] \in S /\ q \in S
    <2>1. Placed(g, S) = Placed(f, S)
      BY <1>2 DEF Placed
    <2> QED
      BY <2>1, <1>1, <1>2 DEF Bit
  <1>3. CASE f[t] \notin S /\ q \notin S
    <2>1. Placed(g, S) = Placed(f, S)
      BY <1>3 DEF Placed
    <2> QED
      BY <2>1, <1>1, <1>3 DEF Bit
  <1>4. CASE f[t] \in S /\ q \notin S
    <2>1. Placed(g, S) = Placed(f, S) \ {t} /\ t \in Placed(f, S)
      BY <1>4 DEF Placed
    <2>2. Cardinality(Placed(g, S)) = Cardinality(Placed(f, S)) - 1
      BY <2>1, <1>1, FS_RemoveElement
    <2> QED
      BY <2>2, <1>1, <1>4 DEF Bit
  <1>5. CASE f[t] \notin S /\ q \in S
    <2>1. Placed(g, S) = Placed(f, S) \cup {t} /\ t \notin Placed(f, S)
      BY <1>5 DEF Placed
    <2>2. Cardinality(Placed(g, S)) = Cardinality(Placed(f, S)) + 1
      BY <2>1, <1>1, FS_AddElement
    <2> QED
      BY <2>2, <1>1, <1>5 DEF Bit
  <1> QED
    BY <1>2, <1>3, <1>4, <1>5

\* No task is in S exactly when their number is zero.
LEMMA NonePlaced ==
  ASSUME NEW f, NEW S, Cardinality(Placed(f, S)) = 0
  PROVE  \A t \in Tasks : f[t] \notin S
  <1>1. Placed(f, S) = {}
    BY PlacedFinite, FS_EmptySet
  <1> QED
    BY <1>1 DEF Placed

\* How the number of tasks in S changes when one task moves.
Shift(S, from, to) ==
    Cardinality(At(S))' = Cardinality(At(S)) - Bit(from \in S) + Bit(to \in S)

\* A task that moves from one place to another is counted out and in.
LEMMA MoveShifts ==
  ASSUME TypeOK, NEW t \in Tasks, NEW from, NEW to \in Places, Move(t, from, to)
  PROVE  /\ Shift(HoldsSlot, from, to)
         /\ Shift(Unfinished, from, to)
         /\ Shift(Unbuilt, from, to)
  <1>1. place \in [Tasks -> Places] /\ place[t] = from /\ place' = [place EXCEPT ![t] = to]
    BY DEF TypeOK, Move
  <1>2. ASSUME NEW S
        PROVE  Cardinality(Placed(place', S))
                 = Cardinality(Placed(place, S)) - Bit(from \in S) + Bit(to \in S)
    BY <1>1, MoveCounts
  <1> QED
    BY <1>2 DEF Shift, At, Placed

\* A step that moves no task leaves every group as it is.
LEMMA StillCounts ==
  ASSUME place' = place
  PROVE  /\ Cardinality(At(HoldsSlot))' = Cardinality(At(HoldsSlot))
         /\ Cardinality(At(Unfinished))' = Cardinality(At(Unfinished))
         /\ Cardinality(At(Unbuilt))' = Cardinality(At(Unbuilt))
  BY DEF At

-----------------------------------------------------------------------------
(* The slots and the two counters.                                           *)

Counting == TypeOK /\ SlotsConserved /\ CountsExact

\* The numbers counted are naturals.
LEMMA CountTypes ==
  /\ Cardinality(At(HoldsSlot)) \in Nat
  /\ Cardinality(At(Unfinished)) \in Nat
  /\ Cardinality(At(Unbuilt)) \in Nat
  BY PlacedFinite DEF At, Placed

\* The counters move the way a task moves.
Balanced(from, to) ==
    /\ free' = free + Bit(from \in HoldsSlot) - Bit(to \in HoldsSlot)
    /\ unfinished' = unfinished - Bit(from \in Unfinished) + Bit(to \in Unfinished)
    /\ unbuilt' = unbuilt - Bit(from \in Unbuilt) + Bit(to \in Unbuilt)

\* A balanced move keeps slots and counters exact.
LEMMA BalancedCounts ==
  ASSUME Counting, NEW t \in Tasks, NEW from, NEW to \in Places, Move(t, from, to),
         Balanced(from, to)
  PROVE  SlotsConserved' /\ CountsExact'
  <1>1. /\ Shift(HoldsSlot, from, to)
        /\ Shift(Unfinished, from, to)
        /\ Shift(Unbuilt, from, to)
    BY MoveShifts DEF Counting
  <1>2. /\ Bit(from \in HoldsSlot) \in Nat /\ Bit(to \in HoldsSlot) \in Nat
        /\ Bit(from \in Unfinished) \in Nat /\ Bit(to \in Unfinished) \in Nat
        /\ Bit(from \in Unbuilt) \in Nat /\ Bit(to \in Unbuilt) \in Nat
    BY DEF Bit
  <1>3. free \in Nat /\ QueueSize \in Nat /\ unfinished \in Nat /\ unbuilt \in Nat
    BY PoolAssumption DEF Counting, TypeOK
  <1> QED
    BY <1>1, <1>2, <1>3, CountTypes DEF Shift, Balanced, Counting, SlotsConserved, CountsExact

\* submit: one slot, one count, one place in the queue, or one overflow.
LEMMA SubmitCounts ==
  ASSUME Counting, NEW t \in Tasks, Submit(t)
  PROVE  SlotsConserved' /\ CountsExact'
  <1>0. free \in Nat /\ unfinished \in Nat /\ unbuilt \in Nat
    BY PoolAssumption DEF Counting, TypeOK
  <1> USE <1>0 DEF Balanced, Bit, HoldsSlot, Unfinished, Unbuilt, countVars
  <1>1. CASE StartWorker(t)
    BY <1>1, StillCounts DEF StartWorker, Counting, SlotsConserved, CountsExact
  <1>2. CASE EnterEnsure(t)
    <2>1. Move(t, "new", "starting") /\ "starting" \in Places
      BY <1>2 DEF EnterEnsure, Places
    <2>2. Balanced("new", "starting")
      BY <1>2 DEF EnterEnsure
    <2> QED
      BY <2>1, <2>2, BalancedCounts
  <1>3. CASE ReenterEnsure(t)
    <2>1. Move(t, "new", "ready") /\ "ready" \in Places
      BY <1>3 DEF ReenterEnsure, Places
    <2>2. Balanced("new", "ready")
      BY <1>3 DEF ReenterEnsure
    <2> QED
      BY <2>1, <2>2, BalancedCounts
  <1>4. CASE StartRefused(t)
    <2>1. Move(t, "starting", "done") /\ "done" \in Places
      BY <1>4 DEF StartRefused, Places
    <2>2. Balanced("starting", "done")
      BY <1>4 DEF StartRefused
    <2> QED
      BY <2>1, <2>2, BalancedCounts
  <1>5. CASE LeaveEnsure(t)
    <2>1. Move(t, "starting", "ready") /\ "ready" \in Places
      BY <1>5 DEF LeaveEnsure, Places
    <2>2. Balanced("starting", "ready")
      BY <1>5 DEF LeaveEnsure
    <2> QED
      BY <2>1, <2>2, BalancedCounts
  <1>6. CASE TakeSlot(t)
    <2>1. Move(t, "ready", "slotted") /\ "slotted" \in Places
      BY <1>6 DEF TakeSlot, Places
    <2>2. Balanced("ready", "slotted")
      BY <1>6 DEF TakeSlot
    <2> QED
      BY <2>1, <2>2, BalancedCounts
  <1>7. CASE Count(t)
    <2>1. Move(t, "slotted", "counted") /\ "counted" \in Places
      BY <1>7 DEF Count, Places
    <2>2. Balanced("slotted", "counted")
      BY <1>7 DEF Count
    <2> QED
      BY <2>1, <2>2, BalancedCounts
  <1>8. CASE Put(t)
    <2>1. Move(t, "counted", "queued") /\ "queued" \in Places
      BY <1>8 DEF Put, Places
    <2>2. Balanced("counted", "queued")
      BY <1>8 DEF Put
    <2> QED
      BY <2>1, <2>2, BalancedCounts
  <1>9. CASE NoSlot(t)
    <2>1. Move(t, "ready", "refused") /\ "refused" \in Places
      BY <1>9 DEF NoSlot, Places
    <2>2. Balanced("ready", "refused")
      BY <1>9 DEF NoSlot
    <2> QED
      BY <2>1, <2>2, BalancedCounts
  <1>10. CASE Charge(t)
    <2>1. Move(t, "refused", "charged") /\ "charged" \in Places
      BY <1>10 DEF Charge, Places
    <2>2. Balanced("refused", "charged")
      BY <1>10 DEF Charge
    <2> QED
      BY <2>1, <2>2, BalancedCounts
  <1>11. CASE Watch(t)
    <2>1. Move(t, "charged", "watched") /\ "watched" \in Places
      BY <1>11 DEF Watch, Places
    <2>2. Balanced("charged", "watched")
      BY <1>11 DEF Watch
    <2> QED
      BY <2>1, <2>2, BalancedCounts
  <1>12. CASE HandOver(t)
    <2>1. Move(t, "watched", "held") /\ "held" \in Places
      BY <1>12 DEF HandOver, Places
    <2>2. Balanced("watched", "held")
      BY <1>12 DEF HandOver
    <2> QED
      BY <2>1, <2>2, BalancedCounts
  <1> QED
    BY <1>1, <1>2, <1>3, <1>4, <1>5, <1>6, <1>7, <1>8, <1>9, <1>10, <1>11, <1>12 DEF Submit

\* A worker's loop: the slot goes back before the task runs, the count after.
LEMMA WorkCounts ==
  ASSUME Counting, NEW w \in WorkerIds, Work(w)
  PROVE  SlotsConserved' /\ CountsExact'
  <1>0. free \in Nat /\ unfinished \in Nat /\ unbuilt \in Nat
    BY PoolAssumption DEF Counting, TypeOK
  <1>t. /\ queue # <<>> => Head(queue) \in Tasks
        /\ job[w] # NoTask => job[w] \in Tasks
    BY DEF Counting, TypeOK
  <1> USE <1>0 DEF Balanced, Bit, HoldsSlot, Unfinished, Unbuilt, countVars
  <1>1. CASE Get(w)
    <2>1. Head(queue) \in Tasks /\ Move(Head(queue), "queued", "taken") /\ "taken" \in Places
      BY <1>1, <1>t DEF Get, Places
    <2>2. Balanced("queued", "taken")
      BY <1>1 DEF Get
    <2> QED
      BY <2>1, <2>2, BalancedCounts
  <1>2. CASE GiveBack(w)
    <2>1. job[w] \in Tasks /\ Move(job[w], "taken", "given") /\ "given" \in Places
      BY <1>2, <1>t DEF GiveBack, Places
    <2>2. Balanced("taken", "given")
      BY <1>2 DEF GiveBack
    <2> QED
      BY <2>1, <2>2, BalancedCounts
  <1>3. CASE CheckEpisode(w)
    <2>1. PICK to \in {"ending", "running"} : Move(job[w], "given", to)
      BY <1>3 DEF CheckEpisode
    <2>2. job[w] \in Tasks /\ to \in Places
      BY <1>3, <1>t DEF CheckEpisode, Places
    <2>3. Balanced("given", to)
      BY <1>3, <2>1 DEF CheckEpisode
    <2> QED
      BY <2>1, <2>2, <2>3, BalancedCounts
  <1>4. CASE EndEpisode(w)
    <2>1. job[w] \in Tasks /\ Move(job[w], "ending", "running") /\ "running" \in Places
      BY <1>4, <1>t DEF EndEpisode, Places
    <2>2. Balanced("ending", "running")
      BY <1>4 DEF EndEpisode
    <2> QED
      BY <2>1, <2>2, BalancedCounts
  <1>5. CASE Run(w)
    <2>1. job[w] \in Tasks /\ Move(job[w], "running", "settled") /\ "settled" \in Places
      BY <1>5, <1>t DEF Run, Places
    <2>2. Balanced("running", "settled")
      BY <1>5 DEF Run
    <2> QED
      BY <2>1, <2>2, BalancedCounts
  <1>6. CASE Finish(w)
    <2>1. job[w] \in Tasks /\ Move(job[w], "settled", "done") /\ "done" \in Places
      BY <1>6, <1>t DEF Finish, Places
    <2>2. Balanced("settled", "done")
      BY <1>6 DEF Finish, MarkFinished
    <2> QED
      BY <2>1, <2>2, BalancedCounts
  <1>7. CASE Exit(w)
    BY <1>7, StillCounts DEF Exit, Counting, SlotsConserved, CountsExact
  <1> QED
    BY <1>1, <1>2, <1>3, <1>4, <1>5, <1>6, <1>7 DEF Work

\* The buffer settles an overflowed task, and only then takes it off the count.
LEMMA BuildCounts ==
  ASSUME Counting, NEW t \in Tasks, Build(t)
  PROVE  SlotsConserved' /\ CountsExact'
  <1>0. free \in Nat /\ unfinished \in Nat /\ unbuilt \in Nat
    BY PoolAssumption DEF Counting, TypeOK
  <1> USE <1>0 DEF Balanced, Bit, HoldsSlot, Unfinished, Unbuilt, countVars
  <1>1. CASE SettleOverflow(t)
    <2>1. t \in Tasks /\ Move(t, "held", "built") /\ "built" \in Places
      BY <1>1 DEF SettleOverflow, Places
    <2>2. Balanced("held", "built")
      BY <1>1 DEF SettleOverflow
    <2> QED
      BY <2>1, <2>2, BalancedCounts
  <1>2. CASE CountBuilt(t)
    <2>1. t \in Tasks /\ Move(t, "built", "done") /\ "done" \in Places
      BY <1>2 DEF CountBuilt, Places
    <2>2. Balanced("built", "done")
      BY <1>2 DEF CountBuilt, MarkOverflowBuilt
    <2> QED
      BY <2>1, <2>2, BalancedCounts
  <1> QED
    BY <1>1, <1>2 DEF Build

\* stop() gives back the slot and the count of every task it discards.
LEMMA StopCounts ==
  ASSUME Counting, Stop
  PROVE  SlotsConserved' /\ CountsExact'
  <1>0. free \in Nat /\ unfinished \in Nat /\ unbuilt \in Nat
    BY PoolAssumption DEF Counting, TypeOK
  <1>t. /\ queue # <<>> => Head(queue) \in Tasks
        /\ discarding # NoTask => discarding \in Tasks
    BY DEF Counting, TypeOK
  <1> USE <1>0 DEF Balanced, Bit, HoldsSlot, Unfinished, Unbuilt, countVars
  <1>1. CASE TakeDiscarded
    <2>1. Head(queue) \in Tasks /\ Move(Head(queue), "queued", "taken") /\ "taken" \in Places
      BY <1>1, <1>t DEF TakeDiscarded, Places
    <2>2. Balanced("queued", "taken")
      BY <1>1 DEF TakeDiscarded
    <2> QED
      BY <2>1, <2>2, BalancedCounts
  <1>2. CASE GiveBackDiscarded
    <2>1. discarding \in Tasks /\ Move(discarding, "taken", "doomed") /\ "doomed" \in Places
      BY <1>2, <1>t DEF GiveBackDiscarded, Places
    <2>2. Balanced("taken", "doomed")
      BY <1>2 DEF GiveBackDiscarded
    <2> QED
      BY <2>1, <2>2, BalancedCounts
  <1>3. CASE Discard
    <2>1. discarding \in Tasks /\ Move(discarding, "doomed", "settled") /\ "settled" \in Places
      BY <1>3, <1>t DEF Discard, Places
    <2>2. Balanced("doomed", "settled")
      BY <1>3 DEF Discard
    <2> QED
      BY <2>1, <2>2, BalancedCounts
  <1>4. CASE FinishDiscarded
    <2>1. discarding \in Tasks /\ Move(discarding, "settled", "done") /\ "done" \in Places
      BY <1>4, <1>t DEF FinishDiscarded, Places
    <2>2. Balanced("settled", "done")
      BY <1>4 DEF FinishDiscarded, MarkFinished
    <2> QED
      BY <2>1, <2>2, BalancedCounts
  <1>5. CASE RequestStop \/ QueueEmptied \/ StopReturns
    BY <1>5, StillCounts DEF RequestStop, QueueEmptied, StopReturns, Counting, SlotsConserved, CountsExact
  <1> QED
    BY <1>1, <1>2, <1>3, <1>4, <1>5 DEF Stop

\* Waiting threads and stuttering count nothing.
LEMMA OtherCounts ==
  ASSUME Counting,
         \/ \E v \in Waiters : BeginWait(v) \/ WakeUp(v) \/ TimeOut(v) \/ EndWait(v)
         \/ UNCHANGED vars
  PROVE  SlotsConserved' /\ CountsExact'
  <1>1. UNCHANGED <<place, free, unfinished, unbuilt>>
    BY DEF BeginWait, WakeUp, TimeOut, EndWait, countVars, vars
  <1> QED
    BY <1>1, StillCounts DEF Counting, SlotsConserved, CountsExact

\* The next-state relation keeps slots and counters exact.
LEMMA NextCounts ==
  ASSUME Counting, [Next]_vars
  PROVE  SlotsConserved' /\ CountsExact'
  BY SubmitCounts, WorkCounts, BuildCounts, StopCounts, OtherCounts DEF Next

-----------------------------------------------------------------------------
(* Types.                                                                    *)

\* The variables that are not numbers constrained by the counting.
PlainTypes ==
    /\ place \in [Tasks -> Places]
    /\ queue \in Seq(Tasks)
    /\ free \in Nat
    /\ overflowing \in BOOLEAN /\ episode \in Nat
    /\ members \subseteq WorkerIds /\ alive \subseteq WorkerIds /\ flagged \subseteq WorkerIds
    /\ job \in [WorkerIds -> Tasks \cup {NoTask}]
    /\ stopper \in {"out", "discarding", "joining"}
    /\ discarding \in Tasks \cup {NoTask}
    /\ wait \in [Waiters -> {"out", "asleep", "woken", "yes", "no"}]
    /\ owed \in [Waiters -> SUBSET Tasks]

\* A submit keeps the types.
LEMMA SubmitTypes ==
  ASSUME TypeOK, NEW t \in Tasks, Submit(t)
  PROVE  PlainTypes'
  <1> USE PoolAssumption DEF TypeOK, PlainTypes, Move, countVars, episodeVars, threadVars, stopVars, waitVars
  <1>1. CASE EnterEnsure(t)
    BY <1>1 DEF EnterEnsure, Places
  <1>2. CASE ReenterEnsure(t)
    BY <1>2 DEF ReenterEnsure, Places
  <1>3. CASE StartWorker(t)
    BY <1>3 DEF StartWorker
  <1>4. CASE StartRefused(t)
    BY <1>4 DEF StartRefused, Places
  <1>5. CASE LeaveEnsure(t)
    BY <1>5 DEF LeaveEnsure, Places
  <1>6. CASE TakeSlot(t)
    BY <1>6 DEF TakeSlot, Places
  <1>7. CASE Count(t)
    BY <1>7 DEF Count, Places
  <1>8. CASE Put(t)
    BY <1>8 DEF Put, Places
  <1>9. CASE NoSlot(t)
    BY <1>9 DEF NoSlot, Places
  <1>10. CASE Charge(t)
    BY <1>10 DEF Charge, Places
  <1>11. CASE Watch(t)
    BY <1>11 DEF Watch, Places
  <1>12. CASE HandOver(t)
    BY <1>12 DEF HandOver, Places
  <1> QED
    BY <1>1, <1>2, <1>3, <1>4, <1>5, <1>6, <1>7, <1>8, <1>9, <1>10, <1>11, <1>12 DEF Submit

\* Notifying keeps the waiters' states.
LEMMA NotifyTypes ==
  ASSUME TypeOK, NotifyIfIdle
  PROVE  wait' \in [Waiters -> {"out", "asleep", "woken", "yes", "no"}]
  BY DEF TypeOK, NotifyIfIdle

\* Workers, the buffer and stop keep the types.
LEMMA WorkTypes ==
  ASSUME TypeOK, NEW w \in WorkerIds, Work(w)
  PROVE  PlainTypes'
  <1> USE PoolAssumption DEF TypeOK, PlainTypes, Move, countVars, episodeVars, threadVars, stopVars, waitVars
  <1>1. CASE Get(w)
    BY <1>1 DEF Get, Places
  <1>2. CASE GiveBack(w)
    BY <1>2 DEF GiveBack, Places
  <1>3. CASE CheckEpisode(w)
    BY <1>3 DEF CheckEpisode, Places
  <1>4. CASE EndEpisode(w)
    <2>1. overflowing' \in BOOLEAN
      BY <1>4, Zenon DEF EndEpisode
    <2>2. place' \in [Tasks -> Places] /\ episode' \in Nat
      BY <1>4 DEF EndEpisode, Places
    <2> QED
      BY <1>4, <2>1, <2>2 DEF EndEpisode
  <1>5. CASE Run(w)
    BY <1>5 DEF Run, Places
  <1>6. CASE Finish(w)
    BY <1>6, NotifyTypes DEF Finish, MarkFinished, Places
  <1>7. CASE Exit(w)
    BY <1>7 DEF Exit
  <1> QED
    BY <1>1, <1>2, <1>3, <1>4, <1>5, <1>6, <1>7 DEF Work

\* So do the buffer, stop, and the waiting threads.
LEMMA OtherTypes ==
  ASSUME TypeOK,
         \/ \E t \in Tasks : Build(t)
         \/ Stop
         \/ \E v \in Waiters : BeginWait(v) \/ WakeUp(v) \/ TimeOut(v) \/ EndWait(v)
         \/ UNCHANGED vars
  PROVE  PlainTypes'
  <1> USE PoolAssumption DEF TypeOK, PlainTypes, Move, countVars, episodeVars, threadVars, stopVars, waitVars
  <1>1. ASSUME NEW t \in Tasks, SettleOverflow(t) PROVE PlainTypes'
    BY <1>1 DEF SettleOverflow, Places
  <1>2. ASSUME NEW t \in Tasks, CountBuilt(t) PROVE PlainTypes'
    BY <1>2, NotifyTypes DEF CountBuilt, MarkOverflowBuilt, Places
  <1>3. CASE RequestStop
    BY <1>3 DEF RequestStop
  <1>4. CASE TakeDiscarded
    BY <1>4 DEF TakeDiscarded, Places
  <1>5. CASE GiveBackDiscarded
    BY <1>5 DEF GiveBackDiscarded, Places
  <1>6. CASE Discard
    BY <1>6 DEF Discard, Places
  <1>7. CASE FinishDiscarded
    BY <1>7, NotifyTypes DEF FinishDiscarded, MarkFinished, Places
  <1>8. CASE QueueEmptied
    BY <1>8 DEF QueueEmptied
  <1>9. CASE StopReturns
    BY <1>9 DEF StopReturns
  <1>10. ASSUME NEW v \in Waiters, BeginWait(v) PROVE PlainTypes'
    BY <1>10 DEF BeginWait, Owed, At
  <1>11. ASSUME NEW v \in Waiters, WakeUp(v) \/ TimeOut(v) PROVE PlainTypes'
    BY <1>11 DEF WakeUp, TimeOut
  <1>12. ASSUME NEW v \in Waiters, EndWait(v) PROVE PlainTypes'
    BY <1>12 DEF EndWait
  <1>13. CASE UNCHANGED vars
    BY <1>13 DEF vars
  <1> QED
    BY <1>1, <1>2, <1>3, <1>4, <1>5, <1>6, <1>7, <1>8, <1>9, <1>10, <1>11, <1>12, <1>13
       DEF Build, Stop

\* Every step keeps the types, the slots and the counters.
LEMMA NextCounting == Counting /\ [Next]_vars => Counting'
  <1> SUFFICES ASSUME Counting, [Next]_vars PROVE Counting'
    OBVIOUS
  <1>1. SlotsConserved' /\ CountsExact'
    BY NextCounts
  <1>2. PlainTypes'
    BY SubmitTypes, WorkTypes, OtherTypes DEF Next, Counting
  <1>3. /\ Cardinality(At(HoldsSlot))' \in Nat
        /\ Cardinality(At(Unfinished))' \in Nat
        /\ Cardinality(At(Unbuilt))' \in Nat
    BY PlacedFinite DEF At, Placed
  <1>4. free' \in 0..QueueSize /\ unfinished' \in Nat /\ unbuilt' \in Nat
    BY <1>1, <1>2, <1>3, PoolAssumption DEF SlotsConserved, CountsExact, PlainTypes
  <1> QED
    BY <1>1, <1>2, <1>4 DEF Counting, TypeOK, PlainTypes

-----------------------------------------------------------------------------
(* What a waiting thread is told.                                            *)

\* The places a task can be in once its submit has returned, for a waiter that
\* looks at the overflow and for one that does not.
Accepted(v) ==
    {"queued", "taken", "given", "ending", "running", "doomed", "settled", "done"}
    \cup (IF v \in IdleWaiters THEN {"held", "built"} ELSE {})

\* A waiter is owed only tasks that were accepted.
OwedAccepted == \A v \in Waiters : \A t \in owed[v] : place[t] \in Accepted(v)

\* An accepted task stays accepted and a settled one stays settled.
LEMMA AcceptedStays ==
  ASSUME TypeOK, [Next]_vars, NEW t \in Tasks, NEW v
  PROVE  /\ place[t] \in Accepted(v) => place'[t] \in Accepted(v)
         /\ place[t] \in Settled => place'[t] \in Settled
  <1> USE DEF TypeOK, Accepted, Settled, Move
  <1>1. ASSUME NEW u \in Tasks, Submit(u) PROVE place'[t] = place[t] \/ place[t] \notin Accepted(v) \cup Settled
    BY <1>1 DEF Submit, EnterEnsure, ReenterEnsure, StartWorker, StartRefused, LeaveEnsure,
                TakeSlot, Count, Put, NoSlot, Charge, Watch, HandOver
  <1>2. ASSUME NEW w \in WorkerIds, Work(w)
        PROVE  /\ place[t] \in Accepted(v) => place'[t] \in Accepted(v)
               /\ place[t] \in Settled => place'[t] \in Settled
    BY <1>2 DEF Work, Get, GiveBack, CheckEpisode, EndEpisode, Run, Finish, Exit
  <1>3. ASSUME NEW u \in Tasks, Build(u)
        PROVE  /\ place[t] \in Accepted(v) => place'[t] \in Accepted(v)
               /\ place[t] \in Settled => place'[t] \in Settled
    BY <1>3 DEF Build, SettleOverflow, CountBuilt
  <1>4. ASSUME Stop
        PROVE  /\ place[t] \in Accepted(v) => place'[t] \in Accepted(v)
               /\ place[t] \in Settled => place'[t] \in Settled
    BY <1>4 DEF Stop, RequestStop, TakeDiscarded, GiveBackDiscarded, Discard, FinishDiscarded,
                QueueEmptied, StopReturns
  <1>5. ASSUME \/ \E u \in Waiters : BeginWait(u) \/ WakeUp(u) \/ TimeOut(u) \/ EndWait(u)
               \/ UNCHANGED vars
        PROVE  place'[t] = place[t]
    BY <1>5 DEF BeginWait, WakeUp, TimeOut, EndWait, vars
  <1> QED
    BY <1>1, <1>2, <1>3, <1>4, <1>5 DEF Next

\* Only a waiter's own step changes what it is owed or answers it.
LEMMA WaitSteps ==
  ASSUME TypeOK, [Next]_vars, NEW v \in Waiters
  PROVE  \/ owed'[v] = owed[v] /\ (wait'[v] = "yes" => wait[v] = "yes")
         \/ BeginWait(v) \/ WakeUp(v) \/ TimeOut(v) \/ EndWait(v)
  <1> USE DEF TypeOK, waitVars
  <1>1. ASSUME NEW u \in Tasks, Submit(u) PROVE UNCHANGED waitVars
    BY <1>1 DEF Submit, EnterEnsure, ReenterEnsure, StartWorker, StartRefused, LeaveEnsure,
                TakeSlot, Count, Put, NoSlot, Charge, Watch, HandOver
  <1>2. ASSUME NotifyIfIdle PROVE wait'[v] = "yes" => wait[v] = "yes"
    BY <1>2 DEF NotifyIfIdle
  <1>3. ASSUME NEW w \in WorkerIds, Work(w)
        PROVE  UNCHANGED waitVars \/ (NotifyIfIdle /\ owed' = owed)
    BY <1>3 DEF Work, Get, GiveBack, CheckEpisode, EndEpisode, Run, Finish, Exit, MarkFinished
  <1>4. ASSUME NEW u \in Tasks, Build(u)
        PROVE  UNCHANGED waitVars \/ (NotifyIfIdle /\ owed' = owed)
    BY <1>4 DEF Build, SettleOverflow, CountBuilt, MarkOverflowBuilt
  <1>5. ASSUME Stop
        PROVE  UNCHANGED waitVars \/ (NotifyIfIdle /\ owed' = owed)
    BY <1>5 DEF Stop, RequestStop, TakeDiscarded, GiveBackDiscarded, Discard, FinishDiscarded,
                QueueEmptied, StopReturns, MarkFinished
  <1>6. ASSUME NEW u \in Waiters, BeginWait(u) \/ WakeUp(u) \/ TimeOut(u) \/ EndWait(u)
        PROVE  u # v => owed'[v] = owed[v] /\ wait'[v] = wait[v]
    BY <1>6 DEF BeginWait, WakeUp, TimeOut, EndWait
  <1>7. ASSUME UNCHANGED vars PROVE UNCHANGED waitVars
    BY <1>7 DEF vars
  <1> QED
    BY <1>1, <1>2, <1>3, <1>4, <1>5, <1>6, <1>7 DEF Next

\* With its counters at zero, nothing a waiter is owed is unsettled.
LEMMA DoneMeansSettled ==
  ASSUME Counting, NEW v \in Waiters, Done(v), NEW t \in Tasks, place[t] \in Accepted(v)
  PROVE  place[t] \in Settled
  <1>1. place[t] \notin Unfinished
    <2>1. Cardinality(Placed(place, Unfinished)) = 0
      BY DEF Counting, CountsExact, Done, At, Placed
    <2> QED
      BY <2>1, NonePlaced
  <1>2. v \in IdleWaiters => place[t] \notin Unbuilt
    <2> HAVE v \in IdleWaiters
    <2>1. Cardinality(Placed(place, Unbuilt)) = 0
      BY DEF Counting, CountsExact, Done, At, Placed
    <2> QED
      BY <2>1, NonePlaced
  <1> QED
    BY <1>1, <1>2 DEF Accepted, Unfinished, Unbuilt, Settled

\* Every step keeps the answers true.
LEMMA NextIdle ==
  ASSUME Counting, OwedAccepted, IdleMeansSettled, [Next]_vars
  PROVE  OwedAccepted' /\ IdleMeansSettled'
  <1> SUFFICES ASSUME NEW v \in Waiters
               PROVE  /\ \A t \in owed'[v] : place'[t] \in Accepted(v)
                      /\ wait'[v] = "yes" => \A t \in owed'[v] : place'[t] \in Settled
    BY DEF OwedAccepted, IdleMeansSettled, Accepted
  <1>0. TypeOK
    BY DEF Counting
  <1>1. owed[v] \subseteq Tasks /\ \A t \in owed[v] : place[t] \in Accepted(v)
    BY <1>0 DEF TypeOK, OwedAccepted
  <1>2. CASE owed'[v] = owed[v] /\ (wait'[v] = "yes" => wait[v] = "yes")
    BY <1>0, <1>1, <1>2, AcceptedStays DEF IdleMeansSettled
  <1>3. CASE BeginWait(v)
    <2>1. place' = place /\ owed'[v] = Owed(v) /\ (wait'[v] = "yes" => Done(v))
      BY <1>0, <1>3 DEF BeginWait, TypeOK
    <2>2. \A t \in Owed(v) : t \in Tasks /\ place[t] \in Accepted(v)
      BY DEF Owed, At, Accepted
    <2> QED
      BY <2>1, <2>2, DoneMeansSettled
  <1>4. CASE WakeUp(v) \/ TimeOut(v)
    <2>1. place' = place /\ owed' = owed /\ (wait'[v] = "yes" => Done(v))
      BY <1>0, <1>4 DEF WakeUp, TimeOut, TypeOK
    <2> QED
      BY <2>1, <1>1, DoneMeansSettled
  <1>5. CASE EndWait(v)
    BY <1>0, <1>5 DEF EndWait, TypeOK
  <1> QED
    BY <1>0, <1>2, <1>3, <1>4, <1>5, WaitSteps

-----------------------------------------------------------------------------
(* No wakeup is missed.                                                      *)

\* A decrement that lets a waiter go wakes it.
LEMMA NotifyWakes ==
  ASSUME TypeOK, NotifyIfIdle, NEW v \in Waiters, wait'[v] = "asleep"
  PROVE  unfinished' # 0 /\ unbuilt' # 0
  BY DEF TypeOK, NotifyIfIdle

\* Every step leaves asleep only those whose condition is still false.
LEMMA NextWakes ==
  ASSUME Counting, NoMissedWakeup, [Next]_vars
  PROVE  NoMissedWakeup'
  <1> SUFFICES ASSUME NEW v \in Waiters, wait'[v] = "asleep"
               PROVE  ~(unfinished' = 0 /\ (v \in IdleWaiters => unbuilt' = 0))
    BY DEF NoMissedWakeup, Done
  <1>0. TypeOK
    BY DEF Counting
  <1>1. wait[v] = "asleep" => ~(unfinished = 0 /\ (v \in IdleWaiters => unbuilt = 0))
    BY DEF NoMissedWakeup, Done
  <1> USE <1>0, <1>1 DEF TypeOK, countVars, waitVars
  <1>2. ASSUME NEW t \in Tasks, Submit(t)
        PROVE  wait[v] = "asleep" /\ unfinished' >= unfinished /\ unbuilt' >= unbuilt
    BY <1>2 DEF Submit, EnterEnsure, ReenterEnsure, StartWorker, StartRefused, LeaveEnsure,
                TakeSlot, Count, Put, NoSlot, Charge, Watch, HandOver
  <1>3. ASSUME NEW w \in WorkerIds, Work(w)
        PROVE  NotifyIfIdle \/ UNCHANGED <<wait, unfinished, unbuilt>>
    BY <1>3 DEF Work, Get, GiveBack, CheckEpisode, EndEpisode, Run, Finish, Exit, MarkFinished
  <1>4. ASSUME NEW t \in Tasks, Build(t)
        PROVE  NotifyIfIdle \/ UNCHANGED <<wait, unfinished, unbuilt>>
    BY <1>4 DEF Build, SettleOverflow, CountBuilt, MarkOverflowBuilt
  <1>5. ASSUME Stop
        PROVE  NotifyIfIdle \/ UNCHANGED <<wait, unfinished, unbuilt>>
    BY <1>5 DEF Stop, RequestStop, TakeDiscarded, GiveBackDiscarded, Discard, FinishDiscarded,
                QueueEmptied, StopReturns, MarkFinished
  <1>6. ASSUME NEW u \in Waiters, BeginWait(u) \/ WakeUp(u) \/ TimeOut(u) \/ EndWait(u)
        PROVE  UNCHANGED <<unfinished, unbuilt>> /\ (wait[v] = "asleep" \/ ~Done(v))
    BY <1>6 DEF BeginWait, WakeUp, TimeOut, EndWait
  <1>7. ASSUME UNCHANGED vars PROVE UNCHANGED <<wait, unfinished, unbuilt>>
    BY <1>7 DEF vars
  <1>8. CASE NotifyIfIdle
    BY <1>8, NotifyWakes
  <1>9. CASE UNCHANGED <<wait, unfinished, unbuilt>>
    BY <1>9
  <1>10. CASE \E t \in Tasks : Submit(t)
    BY <1>2, <1>10
  <1>11. CASE \E u \in Waiters : BeginWait(u) \/ WakeUp(u) \/ TimeOut(u) \/ EndWait(u)
    BY <1>6, <1>11 DEF Done
  <1> QED
    BY <1>3, <1>4, <1>5, <1>7, <1>8, <1>9, <1>10, <1>11 DEF Next

-----------------------------------------------------------------------------
(* The number of worker threads.                                             *)

\* Taking members away keeps the bound.
LEMMA FewerMembers ==
  ASSUME NEW S \in SUBSET WorkerIds, Cardinality(S) <= WorkerCount, NEW T \in SUBSET S
  PROVE  Cardinality(T) <= WorkerCount
  <1>1. IsFiniteSet(S) /\ IsFiniteSet(T) /\ Cardinality(T) <= Cardinality(S)
    BY PoolAssumption, FS_Subset
  <1>2. Cardinality(S) \in Nat /\ Cardinality(T) \in Nat
    BY <1>1, FS_CardinalityType
  <1> QED
    BY <1>1, <1>2, PoolAssumption

\* Every step keeps the live threads among the members, and the members within
\* the pool's size.
LEMMA NextBounded ==
  ASSUME TypeOK, WorkersBounded, [Next]_vars
  PROVE  WorkersBounded'
  <1> USE DEF WorkersBounded, TypeOK, threadVars
  <1>1. CASE members' = members /\ alive' \subseteq alive
    BY <1>1
  <1>2. CASE members' = members \cap alive /\ alive' = alive
    BY <1>2, FewerMembers
  <1>3. ASSUME NEW t \in Tasks, StartWorker(t) PROVE WorkersBounded'
    <2>1. PICK w \in WorkerIds \ (members \cup alive) :
             members' = members \cup {w} /\ alive' = alive \cup {w}
      BY <1>3 DEF StartWorker
    <2>2. IsFiniteSet(members)
      BY PoolAssumption, FS_Subset
    <2>3. Cardinality(members) \in Nat /\ Cardinality(members') = Cardinality(members) + 1
      BY <2>1, <2>2, FS_AddElement, FS_CardinalityType
    <2> QED
      BY <1>3, <2>1, <2>3, PoolAssumption DEF StartWorker
  <1>4. ASSUME NEW t \in Tasks, Submit(t)
        PROVE  \/ StartWorker(t)
               \/ members' = members /\ alive' \subseteq alive
               \/ members' = members \cap alive /\ alive' = alive
    BY <1>4 DEF Submit, EnterEnsure, ReenterEnsure, StartRefused, LeaveEnsure,
                TakeSlot, Count, Put, NoSlot, Charge, Watch, HandOver
  <1>5. ASSUME NEW w \in WorkerIds, Work(w)
        PROVE  members' = members /\ alive' \subseteq alive
    BY <1>5 DEF Work, Get, GiveBack, CheckEpisode, EndEpisode, Run, Finish, Exit
  <1>6. ASSUME NEW t \in Tasks, Build(t)
        PROVE  members' = members /\ alive' \subseteq alive
    BY <1>6 DEF Build, SettleOverflow, CountBuilt
  <1>7. ASSUME Stop
        PROVE  \/ members' = members /\ alive' \subseteq alive
               \/ members' = members \cap alive /\ alive' = alive
    BY <1>7 DEF Stop, RequestStop, TakeDiscarded, GiveBackDiscarded, Discard, FinishDiscarded,
                QueueEmptied, StopReturns
  <1>8. ASSUME \/ \E u \in Waiters : BeginWait(u) \/ WakeUp(u) \/ TimeOut(u) \/ EndWait(u)
               \/ UNCHANGED vars
        PROVE  members' = members /\ alive' \subseteq alive
    BY <1>8 DEF BeginWait, WakeUp, TimeOut, EndWait, vars
  <1> QED
    BY <1>1, <1>2, <1>3, <1>4, <1>5, <1>6, <1>7, <1>8 DEF Next

-----------------------------------------------------------------------------
(* The theorems.                                                             *)

IInv == Counting /\ OwedAccepted /\ IdleMeansSettled /\ NoMissedWakeup /\ WorkersBounded

\* An idle pool without workers or waiters satisfies the invariant.
LEMMA InitEstablishes == Init => IInv
  <1> SUFFICES ASSUME Init PROVE IInv
    OBVIOUS
  <1> USE PoolAssumption DEF Init
  <1>1. TypeOK
    <2>1. overflowing \in BOOLEAN
      BY Zenon
    <2>2. place \in [Tasks -> Places]
      BY DEF Places
    <2>3. job \in [WorkerIds -> Tasks \cup {NoTask}]
      OBVIOUS
    <2>4. /\ wait \in [Waiters -> {"out", "asleep", "woken", "yes", "no"}]
          /\ owed \in [Waiters -> SUBSET Tasks]
      OBVIOUS
    <2> QED
      BY <2>1, <2>2, <2>3, <2>4 DEF TypeOK
  <1>2. SlotsConserved /\ CountsExact
    <2>1. At(HoldsSlot) = {} /\ At(Unfinished) = {} /\ At(Unbuilt) = {}
      BY DEF At, HoldsSlot, Unfinished, Unbuilt
    <2> QED
      BY <2>1, FS_EmptySet DEF SlotsConserved, CountsExact
  <1>3. OwedAccepted /\ IdleMeansSettled /\ NoMissedWakeup
    BY DEF OwedAccepted, IdleMeansSettled, NoMissedWakeup
  <1>4. WorkersBounded
    BY FS_EmptySet DEF WorkersBounded
  <1> QED
    BY <1>1, <1>2, <1>3, <1>4 DEF IInv, Counting

\* The invariant is inductive: the counts carry the answers and the wakeups.
THEOREM Inductive == Spec => []IInv
  <1>1. Init => IInv
    BY InitEstablishes
  <1>2. IInv /\ [Next]_vars => IInv'
    <2> SUFFICES ASSUME IInv, [Next]_vars PROVE IInv'
      OBVIOUS
    <2>1. Counting /\ TypeOK
      BY DEF IInv, Counting
    <2>2. Counting'
      BY <2>1, NextCounting
    <2>3. OwedAccepted' /\ IdleMeansSettled'
      BY <2>1, NextIdle DEF IInv
    <2>4. NoMissedWakeup'
      BY <2>1, NextWakes DEF IInv
    <2>5. WorkersBounded'
      BY <2>1, NextBounded DEF IInv
    <2> QED
      BY <2>2, <2>3, <2>4, <2>5 DEF IInv
  <1> QED
    BY <1>1, <1>2, PTL DEF Spec

\* The variables of MeteringPool keep their types.
THEOREM TypeCorrect == Spec => []TypeOK
  <1>1. IInv => TypeOK
    BY DEF IInv, Counting
  <1> QED
    BY <1>1, Inductive, PTL

\* _QueueSlots neither loses nor invents room, whatever interleaving of submits,
\* workers, worker deaths and stops takes the slots and gives them back.
THEOREM SlotsAreConserved == Spec => []SlotsConserved
  <1>1. IInv => SlotsConserved
    BY DEF IInv, Counting
  <1> QED
    BY <1>1, Inductive, PTL

\* _unfinished and _overflow_unbuilt are exactly the tasks in delivery and the
\* overflowed tasks not yet built.
THEOREM CountsAreExact == Spec => []CountsExact
  <1>1. IInv => CountsExact
    BY DEF IInv, Counting
  <1> QED
    BY <1>1, Inductive, PTL

\* A thread told that the pool is idle can rely on every task accepted before it
\* asked being settled.
THEOREM IdleAnswersAreTrue == Spec => []IdleMeansSettled
  <1>1. IInv => IdleMeansSettled
    BY DEF IInv
  <1> QED
    BY <1>1, Inductive, PTL

\* No thread is left asleep on _idle once what it waits for is true.
THEOREM NoWakeupIsMissed == Spec => []NoMissedWakeup
  <1>1. IInv => NoMissedWakeup
    BY DEF IInv
  <1> QED
    BY <1>1, Inductive, PTL

\* The pool never runs more threads than its size.
THEOREM WorkersAreBounded == Spec => []WorkersBounded
  <1>1. IInv => WorkersBounded
    BY DEF IInv
  <1> QED
    BY <1>1, Inductive, PTL
==============================================================================
