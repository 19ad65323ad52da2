---------------------------- MODULE ExitDrainProofs ----------------------------
(***************************************************************************)
(* What TLAPS proves about the end of the process, for every number of        *)
(* threads, records, signals, exceptions and calls, while builds go on past   *)
(* the drain and other threads take tasks out of the buffer and put them back.*)
(***************************************************************************)
EXTENDS ExitDrain, FiniteSetTheorems, TLAPS

-----------------------------------------------------------------------------
(* The inductive invariant: the calls and the drains.                        *)

Positions(t) == 1..Len(stack[t])

\* A call that has registered a drain and not yet deregistered it.
Holding == Draining \cup {"over", "end"}
Holder(t, i) == i \in Positions(t) /\ stack[t][i].at \in Holding

\* The application is at the bottom of each stack, signals and exceptions are the main
\* thread's, and atexit runs when nothing else does.
CallFits(t, i, f) ==
    /\ f.at = "app" <=> i = 1
    /\ f.why \in {"app", "thread"} \/ t = Main
    /\ f.why = "atexit" => i = 2
    /\ f.raised => t = Main
    /\ i = 1 => f.why = "app"

StackFits == \A t \in Threads : \A i \in Positions(t) : CallFits(t, i, stack[t][i])

\* The drain that runs is the last, all others are over, and one of another thread
\* than the main one cannot be interrupted.
DrainsFit ==
    /\ running \in {0, Len(drains)}
    /\ shutdown => Len(drains) # 0
    /\ \A d \in 1..Len(drains) :
          /\ drains[d].over \/ d = running
          /\ drains[d].thread # Main => d = Len(drains) /\ (drains[d].over => shutdown)

\* The drain that runs is that of the one call that holds it.
OneHolder ==
    \A t, u \in Threads : \A i \in Positions(t), j \in Positions(u) :
        Holder(t, i) /\ Holder(u, j) => t = u /\ i = j

HolderFits ==
    \A t \in Threads : \A i \in Positions(t) : Holder(t, i) =>
        /\ running # 0 /\ drains[running].thread = t
        /\ stack[t][i].at = "end" <=> drains[running].over
        /\ stack[t][i].at # "end" => stack[t][i].drain = running

RunningIsHeld ==
    running # 0 => \E i \in Positions(drains[running].thread) : Holder(drains[running].thread, i)

\* How far the exit has come, as each call knows it.
StageFits(t, f) ==
    /\ f.at \in {"queue", "take over", "overflow", "flag"} => ~shutdown
    /\ f.at \in {"lock", "flush", "remaining", "in build"} => shutdown
    /\ f.at \in {"over", "end", "deferred"} /\ ~f.raised => shutdown
    /\ f.at = "deferred" /\ ~f.raised => running = 0
    /\ f.at \in Draining => ~drains[running].complete
    /\ f.at = "wait" => f.drain \in 1..Len(drains) /\ drains[f.drain].thread # t

StagesFit == \A t \in Threads : \A i \in Positions(t) : StageFits(t, stack[t][i])

Control == StackFits /\ DrainsFit /\ OneHolder /\ HolderFits /\ RunningIsHeld /\ StagesFit

-----------------------------------------------------------------------------
(* The inductive invariant: the records.                                     *)

Waiting == {"queued", "running", "skipped"}
Unstarted == {"overflow", "taken", "handed", "returning"}
BuildPlaces == {"taken", "handed", "taken over", "building"}
Tried == {"sent", "held", "sending"}

OwedAt(d, places) == {r \in drains[d].owes : record[r] \in places}

\* What a drain still owes: on the queue or skipped; in neither count after the first one.
Queued(d) == OwedAt(d, Waiting) \ adrift
Counted(d) == OwedAt(d, Places \ (BuildPlaces \cup {"sent"})) \ adrift
Unsent(d) == OwedAt(d, Places \ {"sent"}) \ Unseen(drains[d])

\* What is owed was accepted.  Nothing is skipped before the flag, no task is handed over
\* once the exit builds, and none of the takeover is left when the flag is set.
OwedFit ==
    /\ \A d \in 1..Len(drains) : OwedAt(d, {"new", "refused"}) = {}
    /\ ~shutdown => adrift = {} /\ \A r \in Records : record[r] # "skipped"
    /\ exiting => \A r \in Records : record[r] # "handed"
    /\ shutdown => exiting /\ \A r \in Records : record[r] # "taken over"

Locking == {"lock", "flush", "remaining", "in build"}
Built == {"flag"} \cup Locking
TakenOver == {"overflow"} \cup Built
Dequeued == {"take over"} \cup TakenOver

\* What the drain has counted so far, and what it has tried if it is in time.
CountFits(f) ==
    /\ f.at \in Dequeued \ {"in build"} => Cardinality(Queued(running)) <= f.left
    /\ f.at = "in build" => Cardinality(Counted(running)) <= f.left
    /\ f.at = "over" /\ drains[running].complete => Cardinality(Unsent(running)) <= f.left
    /\ f.at \in Dequeued /\ ~drains[running].late => Queued(running) = {}
    /\ f.at \in TakenOver =>
          /\ exiting
          /\ ~drains[running].late => OwedAt(running, Unstarted) \subseteq drains[running].missed
    /\ f.at \in Built =>
          /\ \A r \in Records : record[r] # "taken over"
          /\ ~drains[running].late => \A r \in Records : record[r] # "building"
    /\ f.at \in Locking /\ ~drains[running].late =>
          drains[running].owes \cap adrift \subseteq drains[running].missed

CountsFit == \A t \in Threads : \A i \in Positions(t) : CountFits(stack[t][i])

RecordsFit == OwedFit /\ CountsFit /\ InTimeAllAreTried

IInv == TypeOK /\ Control /\ RecordsFit

-----------------------------------------------------------------------------
(* What calling, moving on and returning do to the calls of the threads.     *)

TypedStack == stack \in [Threads -> Seq(FrameType) \ {<<>>}]

\* The calls of all threads, when the innermost of `t` is f and all others stay.
TopIs(t, f) ==
    \A u \in Threads :
        /\ Len(stack'[u]) = Len(stack[u])
        /\ \A i \in Positions(u) : stack'[u][i] = IF u = t /\ i = Len(stack[t]) THEN f ELSE stack[u][i]

OthersStay(t) == \A u \in Threads \ {t} : stack'[u] = stack[u]

LEMMA CalledFrames ==
  ASSUME TypeOK, NEW t \in Threads, NEW f \in FrameType, Called(t, f)
  PROVE  /\ TypedStack' /\ OthersStay(t)
         /\ Len(stack'[t]) = Len(stack[t]) + 1
         /\ \A i \in Positions(t) : stack'[t][i] = stack[t][i]
         /\ stack'[t][Len(stack[t]) + 1] = f
  <1>1. stack[t] \in Seq(FrameType)
    BY DEF TypeOK
  <1>2. /\ Append(stack[t], f) \in Seq(FrameType) /\ Len(Append(stack[t], f)) = Len(stack[t]) + 1
        /\ \A i \in Positions(t) : Append(stack[t], f)[i] = stack[t][i]
        /\ Append(stack[t], f)[Len(stack[t]) + 1] = f
    BY <1>1 DEF Positions
  <1>3. stack' = [stack EXCEPT ![t] = Append(stack[t], f)]
    BY DEF Called
  <1>4. Append(stack[t], f) # <<>>
    BY <1>1, <1>2
  <1> QED
    BY <1>2, <1>3, <1>4 DEF TypeOK, TypedStack, OthersStay

LEMMA TopFrame ==
  ASSUME TypeOK, NEW t \in Threads
  PROVE  /\ stack[t] \in Seq(FrameType) /\ Len(stack[t]) \in Nat \ {0} /\ Len(stack[t]) \in Positions(t)
         /\ Top(t) = stack[t][Len(stack[t])] /\ Top(t) \in FrameType
         /\ Below(t) \in Seq(FrameType) /\ Len(Below(t)) = Len(stack[t]) - 1
         /\ \A i \in 1..(Len(stack[t]) - 1) : Below(t)[i] = stack[t][i]
  <1>1. stack[t] \in Seq(FrameType) /\ stack[t] # <<>>
    BY DEF TypeOK
  <1>2. Len(stack[t]) \in Nat \ {0}
    BY <1>1
  <1>3. Len(stack[t]) \in Positions(t) /\ Top(t) \in FrameType
    BY <1>1, <1>2 DEF Positions, Top
  <1>4. /\ Below(t) \in Seq(FrameType) /\ Len(Below(t)) = Len(stack[t]) - 1
        /\ \A i \in 1..(Len(stack[t]) - 1) : Below(t)[i] = stack[t][i]
    BY <1>1, <1>2 DEF Below
  <1> QED
    BY <1>1, <1>2, <1>3, <1>4 DEF Top

LEMMA BecomesFrames ==
  ASSUME TypeOK, NEW t \in Threads, NEW f \in FrameType, Becomes(t, f)
  PROVE  TypedStack' /\ TopIs(t, f)
  <1>1. /\ stack[t] \in Seq(FrameType) /\ Len(stack[t]) \in Nat \ {0}
        /\ Below(t) \in Seq(FrameType) /\ Len(Below(t)) = Len(stack[t]) - 1
        /\ \A i \in 1..(Len(stack[t]) - 1) : Below(t)[i] = stack[t][i]
    BY TopFrame
  <1> DEFINE s == Append(Below(t), f)
  <1>2. /\ s \in Seq(FrameType) /\ Len(s) = Len(stack[t])
        /\ \A i \in Positions(t) : s[i] = IF i = Len(stack[t]) THEN f ELSE stack[t][i]
    BY <1>1 DEF Positions
  <1>3. s # <<>>
    BY <1>1, <1>2
  <1>4. stack' = [stack EXCEPT ![t] = s]
    BY DEF Becomes
  <1> HIDE DEF s
  <1> QED
    BY <1>2, <1>3, <1>4 DEF TypeOK, TypedStack, TopIs, Positions

LEMMA ReturnedFrames ==
  ASSUME TypeOK, NEW t \in Threads, Len(stack[t]) # 1, Returned(t)
  PROVE  /\ TypedStack' /\ OthersStay(t)
         /\ Len(stack'[t]) = Len(stack[t]) - 1
         /\ \A i \in 1..(Len(stack[t]) - 1) : stack'[t][i] = stack[t][i]
  <1>1. /\ stack[t] \in Seq(FrameType) /\ Len(stack[t]) \in Nat \ {0}
        /\ Below(t) \in Seq(FrameType) /\ Len(Below(t)) = Len(stack[t]) - 1
        /\ \A i \in 1..(Len(stack[t]) - 1) : Below(t)[i] = stack[t][i]
    BY TopFrame
  <1>2. Len(Below(t)) # 0
    BY <1>1
  <1>3. Below(t) # <<>>
    BY <1>2
  <1>4. stack' = [stack EXCEPT ![t] = Below(t)]
    BY DEF Returned
  <1> QED
    BY <1>1, <1>3, <1>4 DEF TypeOK, TypedStack, OthersStay

LEMMA CalledFits ==
  ASSUME TypeOK, StackFits, NEW t \in Threads, NEW f \in FrameType, Called(t, f),
         f.at # "app", ~f.raised, f.why \in {"app", "thread"} \/ t = Main, f.why = "atexit" => Len(stack[t]) = 1
  PROVE  StackFits'
  <1>1. /\ OthersStay(t) /\ Len(stack'[t]) = Len(stack[t]) + 1
        /\ \A i \in Positions(t) : stack'[t][i] = stack[t][i]
        /\ stack'[t][Len(stack[t]) + 1] = f
    BY CalledFrames
  <1>2. Len(stack[t]) \in Nat \ {0}
    BY TopFrame
  <1>3. Len(stack[t]) + 1 # 1
    BY <1>2
  <1>4. CallFits(t, Len(stack[t]) + 1, f)
    <2>1. Len(stack[t]) = 1 => Len(stack[t]) + 1 = 2
      OBVIOUS
    <2> QED
      BY <1>3, <2>1, Zenon DEF CallFits
  <1> SUFFICES ASSUME NEW u \in Threads, NEW i \in Positions(u)'
               PROVE  CallFits(u, i, stack'[u][i])
    BY DEF StackFits, CallFits
  <1>5. CASE u # t
    BY <1>1, <1>5 DEF StackFits, OthersStay, Positions
  <1>6. CASE u = t /\ i \in Positions(t)
    BY <1>1, <1>6 DEF StackFits
  <1>7. CASE u = t /\ i = Len(stack[t]) + 1
    BY <1>1, <1>4, <1>7
  <1> QED
    BY <1>1, <1>2, <1>5, <1>6, <1>7 DEF Positions

LEMMA BecomesFits ==
  ASSUME TypeOK, StackFits, NEW t \in Threads, NEW f \in FrameType, Becomes(t, f),
         f.at = "app" <=> Top(t).at = "app", f.why = Top(t).why, f.raised => t = Main
  PROVE  StackFits'
  <1>1. TopIs(t, f)
    BY BecomesFrames
  <1>2. Top(t) = stack[t][Len(stack[t])] /\ Len(stack[t]) \in Positions(t)
    BY TopFrame
  <1> QED
    BY <1>1, <1>2 DEF StackFits, CallFits, TopIs, Positions

LEMMA ReturnedFits ==
  ASSUME TypeOK, StackFits, NEW t \in Threads, Len(stack[t]) # 1, Returned(t)
  PROVE  StackFits'
  <1>1. /\ OthersStay(t) /\ Len(stack'[t]) = Len(stack[t]) - 1
        /\ \A i \in 1..(Len(stack[t]) - 1) : stack'[t][i] = stack[t][i]
    BY ReturnedFrames
  <1>2. Len(stack[t]) \in Nat \ {0}
    BY TopFrame
  <1> QED
    BY <1>1, <1>2, SMTT(30) DEF StackFits, CallFits, OthersStay, Positions

(* An exception leaves the innermost call of the main thread for the one below. *)
Passed ==
    stack' = [stack EXCEPT ![Main] = [Below(Main) EXCEPT ![Len(Below(Main))].raised = TRUE]]

LEMMA PassedFrames ==
  ASSUME TypeOK, StackFits, Len(stack[Main]) # 1, Passed
  PROVE  /\ TypedStack' /\ OthersStay(Main) /\ StackFits'
         /\ Len(stack'[Main]) = Len(stack[Main]) - 1
         /\ \A i \in 1..(Len(stack[Main]) - 1) :
               stack'[Main][i] = IF i = Len(stack[Main]) - 1 THEN [stack[Main][i] EXCEPT !.raised = TRUE]
                                                           ELSE stack[Main][i]
  <1> DEFINE b == Below(Main)
             g == [b[Len(b)] EXCEPT !.raised = TRUE]
  <1>1. /\ Main \in Threads
        /\ stack[Main] \in Seq(FrameType) /\ Len(stack[Main]) \in Nat \ {0}
        /\ b \in Seq(FrameType) /\ Len(b) = Len(stack[Main]) - 1
        /\ \A i \in 1..(Len(stack[Main]) - 1) : b[i] = stack[Main][i]
    BY TopFrame DEF Threads
  <1>2. Len(b) \in 1..Len(b) /\ g \in FrameType
    <2>1. Len(b) \in 1..Len(b)
      <3>1. Len(b) \in Nat /\ Len(b) # 0
        BY <1>1
      <3> QED
        BY <3>1
    <2>2. b[Len(b)] \in FrameType
      BY <1>1, <2>1
    <2> QED
      BY <2>1, <2>2 DEF FrameType
  <1>3. stack' = [stack EXCEPT ![Main] = [b EXCEPT ![Len(b)] = g]]
    BY <1>2 DEF Passed
  <1> DEFINE c == [b EXCEPT ![Len(b)] = g]
  <1>4. /\ c \in Seq(FrameType) /\ Len(c) = Len(b)
        /\ \A i \in 1..Len(b) : c[i] = IF i = Len(b) THEN g ELSE b[i]
    BY <1>1, <1>2
  <1>5. c # <<>>
    <2>1. Len(c) # 0
      BY <1>1, <1>4
    <2> QED
      BY <2>1
  <1>6. stack' = [stack EXCEPT ![Main] = c]
    BY <1>3
  <1> HIDE DEF c
  <1>7. TypedStack' /\ OthersStay(Main) /\ stack'[Main] = c
    BY <1>1, <1>4, <1>5, <1>6 DEF TypeOK, TypedStack, OthersStay
  <1>8. Len(stack'[Main]) = Len(stack[Main]) - 1
    BY <1>1, <1>4, <1>7
  <1>9. \A i \in 1..(Len(stack[Main]) - 1) :
          stack'[Main][i] = IF i = Len(stack[Main]) - 1 THEN [stack[Main][i] EXCEPT !.raised = TRUE]
                                                      ELSE stack[Main][i]
    BY <1>1, <1>2, <1>4, <1>7
  <1>10. ASSUME NEW u \in Threads, NEW i \in Positions(u)'
         PROVE  CallFits(u, i, stack'[u][i])
    <2>1. CASE u # Main
      BY <1>7, <1>10, <2>1 DEF StackFits, OthersStay, Positions
    <2>2. CASE u = Main
      <3>1. i \in 1..(Len(stack[Main]) - 1) /\ i \in Positions(Main)
        BY <1>1, <1>8, <1>10, <2>2 DEF Positions
      <3>2. CallFits(Main, i, stack[Main][i]) /\ stack[Main][i] \in FrameType
        BY <1>1, <3>1 DEF StackFits, Positions
      <3>3. CallFits(Main, i, [stack[Main][i] EXCEPT !.raised = TRUE])
        BY <3>2 DEF CallFits, FrameType
      <3> QED
        BY <1>9, <2>2, <3>1, <3>2, <3>3
    <2> QED
      BY <2>1, <2>2
  <1>11. StackFits'
    BY <1>10 DEF StackFits, CallFits
  <1> QED
    BY <1>7, <1>8, <1>9, <1>11

-----------------------------------------------------------------------------
(* Steps between the drains: no call takes hold of one, moves on in one or     *)
(* leaves one.                                                                *)

Quiet == {"app", "enter", "inside", "raising", "call queue", "call tasks", "call check", "call build",
          "call back", "call lock", "call flush"}

\* g is the call f, an exception in it or not.
Same(g, f) ==
    /\ g.at = f.at /\ g.why = f.why /\ g.drain = f.drain /\ g.left = f.left
    /\ f.raised => g.raised

\* A call that waits for no drain but that of another thread.
Away(t, f) ==
    \/ f.at \in Quiet
    \/ f.at = "wait" /\ f.drain \in 1..Len(drains) /\ drains[f.drain].thread # t

FramesKept ==
    \A u \in Threads :
        /\ \A i \in Positions(u)' :
              Away(u, stack'[u][i]) \/ (i \in Positions(u) /\ Same(stack'[u][i], stack[u][i]))
        /\ \A i \in Positions(u) :
              Holder(u, i) => i \in Positions(u)' /\ Same(stack'[u][i], stack[u][i])

LEMMA RunningDrain ==
  ASSUME TypeOK, DrainsFit, running # 0
  PROVE  /\ running = Len(drains) /\ running \in 1..Len(drains)
         /\ drains[running] \in DrainType /\ drains[running].thread \in Threads
  <1>1. drains \in Seq(DrainType) /\ running \in Nat /\ running = Len(drains)
    BY DEF TypeOK, DrainsFit
  <1>2. running \in 1..Len(drains)
    BY <1>1
  <1>3. drains[running] \in DrainType
    BY <1>1, <1>2
  <1> QED
    BY <1>1, <1>2, <1>3 DEF DrainType

LEMMA QuietSteps ==
  ASSUME TypeOK, Control, StackFits', FramesKept, UNCHANGED <<drains, running, shutdown>>
  PROVE  Control'
  <1>1. \A u \in Threads : \A i \in Positions(u)' :
          Holder(u, i)' => Holder(u, i) /\ Same(stack'[u][i], stack[u][i])
    BY ZenonT(60) DEF FramesKept, Holder, Holding, Draining, Away, Quiet, Same
  <1>2. DrainsFit'
    BY DEF Control, DrainsFit
  <1>3. OneHolder'
    BY <1>1 DEF Control, OneHolder, Holder
  <1>4. HolderFits'
    <2> SUFFICES ASSUME NEW t \in Threads, NEW i \in Positions(t)', Holder(t, i)'
                 PROVE  /\ running # 0 /\ drains[running].thread = t
                        /\ stack'[t][i].at = "end" <=> drains[running].over
                        /\ stack'[t][i].at # "end" => stack'[t][i].drain = running
      BY DEF HolderFits
    <2>1. Holder(t, i) /\ i \in Positions(t) /\ Same(stack'[t][i], stack[t][i])
      BY <1>1 DEF Holder
    <2> QED
      BY <2>1 DEF Control, HolderFits, Same
  <1>5. RunningIsHeld'
    <2> SUFFICES ASSUME running # 0
                 PROVE  \E i \in Positions(drains[running].thread)' : Holder(drains[running].thread, i)'
      BY DEF RunningIsHeld
    <2> DEFINE t == drains[running].thread
    <2>1. PICK i \in Positions(t) : Holder(t, i)
      BY DEF Control, RunningIsHeld
    <2>2. t \in Threads
      BY RunningDrain DEF Control
    <2>3. i \in Positions(t)' /\ Same(stack'[t][i], stack[t][i])
      BY <2>1, <2>2 DEF FramesKept
    <2> QED
      BY <2>1, <2>3 DEF Holder, Same
  <1>6. StagesFit'
    <2> SUFFICES ASSUME NEW t \in Threads, NEW i \in Positions(t)'
                 PROVE  StageFits(t, stack[t][i])'
      BY DEF StagesFit
    <2>1. CASE Away(t, stack'[t][i])
      BY <2>1 DEF StageFits, Away, Quiet, Draining
    <2>2. CASE i \in Positions(t) /\ Same(stack'[t][i], stack[t][i])
      BY <2>2 DEF Control, StagesFit, StageFits, Same, Draining
    <2> QED
      BY <2>1, <2>2 DEF FramesKept
  <1> QED
    BY <1>2, <1>3, <1>4, <1>5, <1>6 DEF Control

-----------------------------------------------------------------------------
(* What a drain owes only ever moves on, and tried stays tried.                *)

\* The types of what says where the records are.
RecordsTyped ==
    /\ record \in [Records -> Places]
    /\ batch \in [Threads -> SUBSET Records] /\ exiting \in BOOLEAN /\ adrift \subseteq Records

\* What is accepted is queued once, what is tried stays tried, nothing is skipped before the
\* flag, no build starts once the exit builds but its own, and what moves past the counts
\* is noted.
RecordMoves(r) ==
    /\ record'[r] \in Waiting => record[r] \in Waiting \cup {"new"} \/ (record[r] = "building" /\ r \in adrift')
    /\ record'[r] \in {"new", "refused"} => record[r] \in {"new", "refused"}
    /\ record[r] = "sent" => record'[r] = "sent"
    /\ record[r] \in Tried => record'[r] \in Tried
    /\ record'[r] = "skipped" => shutdown'
    /\ record'[r] = "taken over" => record[r] = "taken over" \/ ~shutdown'
    /\ record'[r] = "building" => record[r] \in {"building", "handed", "taken over"}
    /\ record'[r] = "handed" => ~exiting'
    /\ Counting /\ record[r] \in BuildPlaces => record'[r] \in BuildPlaces \cup {"sent"} \/ r \in adrift'
    /\ r \in adrift' => r \in adrift \/ record[r] \in Unstarted \cup {"building"}

RecordsPass ==
    /\ RecordsTyped'
    /\ exiting => exiting'
    /\ shutdown => shutdown'
    /\ shutdown' => shutdown \/ (exiting /\ \A r \in Records : record'[r] # "taken over")
    /\ adrift \subseteq adrift'
    /\ ~shutdown' => adrift' = {}
    /\ \A r \in Records : RecordMoves(r)

\* All but the two steps of the takeover leave its tasks to it, and the others unstarted.
TasksStay ==
    /\ exiting' = exiting
    /\ \A r \in Records :
          /\ record'[r] \in Unstarted => record[r] \in Unstarted \cup {"new"}
          /\ record'[r] = "taken over" => record[r] = "taken over"

RecordsMove == RecordsPass /\ TasksStay

\* The drains are the same, over or late or not, and none has run to its end.
DrainsAge ==
    /\ Len(drains') = Len(drains)
    /\ \A d \in 1..Len(drains) :
          /\ drains'[d].owes = drains[d].owes
          /\ drains'[d].complete = drains[d].complete
          /\ drains[d].complete => drains'[d].missed = drains[d].missed
          /\ drains[d].late => drains'[d].late

LEMMA OwedIsFinite ==
  ASSUME TypeOK, NEW d \in 1..Len(drains), NEW places
  PROVE  /\ drains[d].owes \subseteq Records
         /\ OwedAt(d, places) \subseteq Records /\ IsFiniteSet(OwedAt(d, places))
         /\ Cardinality(OwedAt(d, places)) \in Nat
  <1>1. drains[d].owes \subseteq Records
    <2>1. drains[d] \in DrainType
      BY DEF TypeOK
    <2> QED
      BY <2>1 DEF DrainType
  <1>2. OwedAt(d, places) \subseteq Records
    BY <1>1 DEF OwedAt
  <1>3. IsFiniteSet(OwedAt(d, places))
    BY <1>2, FS_Subset, ExitAssumption
  <1> QED
    BY <1>1, <1>2, <1>3, FS_CardinalityType

LEMMA OwedIsAccepted ==
  ASSUME TypeOK, OwedFit, NEW d \in 1..Len(drains), NEW r \in drains[d].owes
  PROVE  r \in Records /\ record[r] \in Places \ {"new", "refused"}
  BY OwedIsFinite DEF OwedFit, OwedAt, TypeOK

AtMost(S, T) == Cardinality(S) \in Nat /\ Cardinality(T) \in Nat /\ Cardinality(S) <= Cardinality(T)

LEMMA Shrinks ==
  ASSUME NEW S, NEW T, IsFiniteSet(T), S \subseteq T
  PROVE  IsFiniteSet(S) /\ AtMost(S, T)
  BY FS_Subset, FS_CardinalityType DEF AtMost

LEMMA AtMostBounds ==
  ASSUME NEW S, NEW T, AtMost(S, T), NEW n \in Nat, Cardinality(T) <= n
  PROVE  Cardinality(S) <= n
  BY DEF AtMost

LEMMA StillOwedIsFinite ==
  ASSUME TypeOK, NEW d \in 1..Len(drains)
  PROVE  /\ IsFiniteSet(Queued(d)) /\ IsFiniteSet(Counted(d)) /\ IsFiniteSet(Unsent(d))
         /\ Queued(d) \subseteq Records /\ Counted(d) \subseteq Records /\ Unsent(d) \subseteq Records
  <1>1. \A places : OwedAt(d, places) \subseteq Records
    BY OwedIsFinite
  <1>2. Queued(d) \subseteq Records /\ Counted(d) \subseteq Records /\ Unsent(d) \subseteq Records
    BY <1>1 DEF Queued, Counted, Unsent
  <1> QED
    BY <1>2, FS_Subset, ExitAssumption

LEMMA QueuedShrinks ==
  ASSUME TypeOK, OwedFit, RecordsPass, NEW d \in 1..Len(drains), drains'[d].owes = drains[d].owes
  PROVE  Queued(d)' \subseteq Queued(d)
  <1> SUFFICES ASSUME NEW r \in drains[d].owes, record'[r] \in Waiting, r \notin adrift'
               PROVE  record[r] \in Waiting /\ r \notin adrift
    BY DEF Queued, OwedAt
  <1>1. r \in Records /\ record[r] \notin {"new", "refused"}
    BY OwedIsAccepted
  <1> QED
    BY <1>1 DEF RecordsPass, RecordMoves

LEMMA CountedShrinks ==
  ASSUME TypeOK, OwedFit, RecordsPass, Counting, NEW d \in 1..Len(drains), drains'[d].owes = drains[d].owes
  PROVE  Counted(d)' \subseteq Counted(d)
  <1> SUFFICES ASSUME NEW r \in drains[d].owes, record'[r] \in Places \ (BuildPlaces \cup {"sent"}), r \notin adrift'
               PROVE  record[r] \in Places \ (BuildPlaces \cup {"sent"}) /\ r \notin adrift
    BY DEF Counted, OwedAt
  <1>1. r \in Records /\ record[r] \in Places
    BY OwedIsAccepted
  <1> QED
    BY <1>1 DEF RecordsPass, RecordMoves

LEMMA UnsentShrinks ==
  ASSUME TypeOK, OwedFit, RecordsPass, DrainsAge, NEW d \in 1..Len(drains), drains[d].complete
  PROVE  Unsent(d)' \subseteq Unsent(d)
  <1>1. /\ drains'[d].owes = drains[d].owes /\ drains'[d].missed = drains[d].missed
        /\ drains[d].late => drains'[d].late
    BY DEF DrainsAge
  <1>2. drains[d].missed \subseteq Records
    <2>1. drains[d] \in DrainType
      BY DEF TypeOK
    <2> QED
      BY <2>1 DEF DrainType
  <1>3. Unseen(drains[d]) \subseteq Unseen(drains[d])'
    BY <1>1, <1>2 DEF Unseen, RecordsPass
  <1> SUFFICES ASSUME NEW r \in drains[d].owes, record'[r] \in Places \ {"sent"}
               PROVE  record[r] \in Places \ {"sent"}
    BY <1>1, <1>3 DEF Unsent, OwedAt
  <1>4. r \in Records /\ record[r] \in Places
    BY OwedIsAccepted
  <1> QED
    BY <1>4 DEF RecordsPass, RecordMoves

LEMMA OwedKept ==
  ASSUME TypeOK, RecordsFit, RecordsPass, DrainsAge
  PROVE  OwedFit' /\ InTimeAllAreTried'
  <1> USE DEF RecordsFit
  <1>1. \A r \in Records : RecordMoves(r)
    BY DEF RecordsPass
  <1>2. \A d \in 1..Len(drains) : OwedAt(d, {"new", "refused"})' = {}
    <2> SUFFICES ASSUME NEW d \in 1..Len(drains), NEW r \in drains[d].owes
                 PROVE  record'[r] \notin {"new", "refused"}
      BY DEF OwedAt, DrainsAge
    <2>1. r \in Records /\ record[r] \notin {"new", "refused"}
      BY OwedIsAccepted
    <2> QED
      BY <1>1, <2>1 DEF RecordMoves
  <1>3. ~shutdown' => adrift' = {} /\ \A r \in Records : record'[r] # "skipped"
    BY <1>1 DEF RecordsPass, RecordMoves
  <1>4. exiting' => \A r \in Records : record'[r] # "handed"
    BY <1>1 DEF RecordMoves
  <1>5. shutdown' => exiting' /\ \A r \in Records : record'[r] # "taken over"
    BY <1>1 DEF OwedFit, RecordsPass, RecordMoves
  <1>6. OwedFit'
    BY <1>2, <1>3, <1>4, <1>5 DEF OwedFit, DrainsAge
  <1>7. InTimeAllAreTried'
    <2> SUFFICES ASSUME NEW d \in 1..Len(drains'), drains'[d].complete, ~drains'[d].late,
                        NEW r \in drains'[d].owes \ drains'[d].missed
                 PROVE  record'[r] \in {"sent", "held", "sending"}
      BY DEF InTimeAllAreTried
    <2>1. d \in 1..Len(drains) /\ drains[d].complete /\ ~drains[d].late /\ r \in drains[d].owes \ drains[d].missed
      BY DEF DrainsAge
    <2>2. record[r] \in Tried /\ r \in Records
      BY <2>1, OwedIsFinite DEF InTimeAllAreTried, Tried
    <2> QED
      BY <1>1, <2>2 DEF RecordMoves, Tried
  <1> QED
    BY <1>6, <1>7

LEMMA CountKept ==
  ASSUME TypeOK, DrainsFit, RecordsFit, RecordsPass, TasksStay, DrainsAge, running' = running, running # 0,
         drains'[running].missed = drains[running].missed,
         NEW f \in FrameType, CountFits(f), f.at = "in build" => Counting
  PROVE  CountFits(f)'
  <1> DEFINE d == drains[running]
             e == drains'[running]
  <1>1. running \in 1..Len(drains) /\ f.left \in Nat /\ OwedFit
    BY RunningDrain DEF FrameType, RecordsFit
  <1>2. e.owes = d.owes /\ e.missed = d.missed /\ e.complete = d.complete /\ (~e.late => ~d.late)
    BY <1>1 DEF DrainsAge
  <1>3. \A r \in Records : RecordMoves(r)
    BY DEF RecordsPass
  <1>4. Queued(running)' \subseteq Queued(running)
    BY <1>1, <1>2, QueuedShrinks
  <1>5. f.at \in Dequeued \ {"in build"} => Cardinality(Queued(running)') <= f.left
    <2>1. AtMost(Queued(running)', Queued(running))
      BY <1>1, <1>4, StillOwedIsFinite, Shrinks
    <2> QED
      BY <1>1, <2>1, AtMostBounds DEF CountFits
  <1>6. f.at = "in build" => Cardinality(Counted(running)') <= f.left
    <2> SUFFICES ASSUME f.at = "in build"
                 PROVE  Cardinality(Counted(running)') <= f.left
      OBVIOUS
    <2>1. AtMost(Counted(running)', Counted(running))
      BY <1>1, <1>2, CountedShrinks, StillOwedIsFinite, Shrinks
    <2> QED
      BY <1>1, <2>1, AtMostBounds DEF CountFits
  <1>7. f.at = "over" /\ e.complete => Cardinality(Unsent(running)') <= f.left
    <2> SUFFICES ASSUME f.at = "over", d.complete
                 PROVE  Cardinality(Unsent(running)') <= f.left
      BY <1>2
    <2>1. AtMost(Unsent(running)', Unsent(running))
      BY <1>1, UnsentShrinks, StillOwedIsFinite, Shrinks
    <2> QED
      BY <1>1, <2>1, AtMostBounds DEF CountFits
  <1>8. f.at \in Dequeued /\ ~e.late => Queued(running)' = {}
    BY <1>2, <1>4 DEF CountFits
  <1>9. f.at \in TakenOver => exiting' /\ (~e.late => OwedAt(running, Unstarted)' \subseteq e.missed)
    <2> SUFFICES ASSUME f.at \in TakenOver
                 PROVE  exiting' /\ (~e.late => OwedAt(running, Unstarted)' \subseteq e.missed)
      OBVIOUS
    <2>1. exiting'
      BY DEF CountFits, RecordsPass
    <2>2. ASSUME NEW r \in e.owes, record'[r] \in Unstarted
          PROVE  record[r] \in Unstarted /\ r \in d.owes
      BY <1>1, <1>2, <2>2, OwedIsAccepted DEF TasksStay
    <2> QED
      BY <1>2, <2>1, <2>2 DEF CountFits, OwedAt
  <1>10. f.at \in Built => /\ \A r \in Records : record'[r] # "taken over"
                           /\ ~e.late => \A r \in Records : record'[r] # "building"
    <2>1. f.at \in Built => f.at \in TakenOver
      BY DEF TakenOver
    <2>2. f.at \in TakenOver => \A r \in Records : record[r] # "handed"
      BY <1>1 DEF CountFits, OwedFit
    <2> QED
      BY <1>2, <1>3, <2>1, <2>2 DEF CountFits, TasksStay, RecordMoves
  <1>11. f.at \in Locking /\ ~e.late => e.owes \cap adrift' \subseteq e.missed
    <2> SUFFICES ASSUME f.at \in Locking, ~e.late, NEW r \in e.owes, r \in adrift'
                 PROVE  r \in e.missed
      OBVIOUS
    <2>1. f.at \in Built /\ f.at \in TakenOver /\ r \in d.owes /\ r \in Records
      BY <1>1, <1>2, OwedIsAccepted DEF Built, TakenOver
    <2>2. CASE r \in adrift
      BY <1>2, <2>1, <2>2 DEF CountFits
    <2>3. CASE record[r] \in Unstarted
      BY <1>2, <2>1, <2>3 DEF CountFits, OwedAt
    <2>4. CASE record[r] = "building"
      BY <1>2, <2>1, <2>4 DEF CountFits
    <2> QED
      BY <1>3, <2>1, <2>2, <2>3, <2>4 DEF RecordMoves
  <1> QED
    BY <1>5, <1>6, <1>7, <1>8, <1>9, <1>10, <1>11 DEF CountFits

-----------------------------------------------------------------------------
(* Which steps are quiet.                                                     *)

LEMMA QuietCall ==
  ASSUME TypeOK, NEW t \in Threads, NEW f \in FrameType, Called(t, f), f.at \in Quiet
  PROVE  FramesKept
  <1>1. /\ OthersStay(t) /\ Len(stack'[t]) = Len(stack[t]) + 1
        /\ \A i \in Positions(t) : stack'[t][i] = stack[t][i]
        /\ stack'[t][Len(stack[t]) + 1] = f
    BY CalledFrames
  <1>2. Len(stack[t]) \in Nat \ {0}
    BY TopFrame
  <1>3. ASSUME NEW u \in Threads, u # t
        PROVE  Positions(u)' = Positions(u) /\ stack'[u] = stack[u]
    BY <1>1, <1>3 DEF OthersStay, Positions
  <1>4. Positions(t)' = Positions(t) \cup {Len(stack[t]) + 1}
    BY <1>1, <1>2 DEF Positions
  <1> QED
    BY <1>1, <1>3, <1>4 DEF FramesKept, Same, Away

LEMMA QuietMove ==
  ASSUME TypeOK, NEW t \in Threads, NEW f \in FrameType, Becomes(t, f),
         Same(f, Top(t)) \/ (Away(t, f) /\ Top(t).at \notin Holding)
  PROVE  FramesKept
  <1>1. TopIs(t, f)
    BY BecomesFrames
  <1>2. Top(t) = stack[t][Len(stack[t])] /\ Len(stack[t]) \in Positions(t)
    BY TopFrame
  <1>3. \A u \in Threads : Positions(u)' = Positions(u)
    BY <1>1 DEF TopIs, Positions
  <1>4. ASSUME NEW u \in Threads, NEW i \in Positions(u), ~(u = t /\ i = Len(stack[t]))
        PROVE  Same(stack'[u][i], stack[u][i])
    BY <1>1, <1>4 DEF TopIs, Same
  <1>5. stack'[t][Len(stack[t])] = f
    BY <1>1, <1>2 DEF TopIs
  <1>6. ASSUME NEW u \in Threads, NEW i \in Positions(u)
        PROVE  /\ Away(u, stack'[u][i]) \/ Same(stack'[u][i], stack[u][i])
               /\ Holder(u, i) => Same(stack'[u][i], stack[u][i])
    BY <1>2, <1>4, <1>5, <1>6 DEF Holder
  <1> QED
    BY <1>3, <1>6 DEF FramesKept

LEMMA QuietReturn ==
  ASSUME TypeOK, NEW t \in Threads, Len(stack[t]) # 1, Returned(t), Top(t).at \notin Holding
  PROVE  FramesKept
  <1>1. /\ OthersStay(t) /\ Len(stack'[t]) = Len(stack[t]) - 1
        /\ \A i \in 1..(Len(stack[t]) - 1) : stack'[t][i] = stack[t][i]
    BY ReturnedFrames
  <1>2. Len(stack[t]) \in Nat \ {0} /\ Top(t) = stack[t][Len(stack[t])]
    BY TopFrame
  <1>3. ASSUME NEW u \in Threads, u # t
        PROVE  Positions(u)' = Positions(u) /\ stack'[u] = stack[u]
    BY <1>1, <1>3 DEF OthersStay, Positions
  <1>4. Positions(t) = Positions(t)' \cup {Len(stack[t])} /\ Positions(t)' = 1..(Len(stack[t]) - 1)
    BY <1>1, <1>2 DEF Positions
  <1> QED
    BY <1>1, <1>2, <1>3, <1>4 DEF FramesKept, Same, Holder

LEMMA QuietPass ==
  ASSUME TypeOK, StackFits, Len(stack[Main]) # 1, Passed, Top(Main).at \notin Holding
  PROVE  FramesKept
  <1>1. /\ OthersStay(Main) /\ Len(stack'[Main]) = Len(stack[Main]) - 1
        /\ \A i \in 1..(Len(stack[Main]) - 1) :
              stack'[Main][i] = IF i = Len(stack[Main]) - 1 THEN [stack[Main][i] EXCEPT !.raised = TRUE]
                                                          ELSE stack[Main][i]
    BY PassedFrames
  <1>2. /\ Main \in Threads /\ stack[Main] \in Seq(FrameType)
        /\ Len(stack[Main]) \in Nat \ {0} /\ Top(Main) = stack[Main][Len(stack[Main])]
    BY TopFrame DEF Threads
  <1>3. ASSUME NEW u \in Threads, u # Main
        PROVE  Positions(u)' = Positions(u) /\ stack'[u] = stack[u]
    BY <1>1, <1>3 DEF OthersStay, Positions
  <1>4. Positions(Main) = Positions(Main)' \cup {Len(stack[Main])} /\ Positions(Main)' = 1..(Len(stack[Main]) - 1)
    BY <1>1, <1>2 DEF Positions
  <1>5. ASSUME NEW i \in Positions(Main)'
        PROVE  i \in Positions(Main) /\ Same(stack'[Main][i], stack[Main][i])
    <2>1. i \in Positions(Main) /\ stack[Main][i] \in FrameType
      BY <1>2, <1>4 DEF Positions
    <2>2. Same([stack[Main][i] EXCEPT !.raised = TRUE], stack[Main][i])
      BY <2>1 DEF FrameType, Same
    <2> QED
      BY <1>1, <1>4, <2>1, <2>2, ZenonT(60) DEF Same
  <1> QED
    BY <1>2, <1>3, <1>4, <1>5, ZenonT(60) DEF FramesKept, Same, Holder

LEMMA InBuildCounts ==
  ASSUME NEW t \in Threads, NEW i \in Positions(t), stack[t][i].at = "in build"
  PROVE  Counting
  <1>1. stack[t][i] \in FramesOf(t)
    BY DEF FramesOf, Positions
  <1>2. stack[t][i] \in AllFrames
    BY <1>1 DEF AllFrames
  <1> QED
    BY <1>2 DEF Counting

LEMMA QuietKeeps ==
  ASSUME IInv, TypeOK', StackFits', FramesKept, RecordsMove, UNCHANGED <<drains, running, shutdown>>
  PROVE  IInv'
  <1>1. Control'
    BY QuietSteps DEF IInv
  <1>2. /\ OwedFit' /\ InTimeAllAreTried'
        /\ \A f \in FrameType : running # 0 /\ CountFits(f) /\ (f.at = "in build" => Counting) => CountFits(f)'
    <2>1. DrainsAge
      BY DEF DrainsAge
    <2> QED
      BY <2>1, OwedKept, CountKept DEF IInv, Control, RecordsMove
  <1>3. ASSUME NEW t \in Threads, NEW i \in Positions(t)'
        PROVE  CountFits(stack[t][i])'
    <2>1. CASE Away(t, stack'[t][i])
      BY <2>1 DEF CountFits, Away, Quiet, Dequeued, TakenOver, Built, Locking
    <2>2. CASE i \in Positions(t) /\ Same(stack'[t][i], stack[t][i]) /\ stack'[t][i].at \notin Draining \cup {"over"}
      BY <2>2 DEF CountFits, Draining, Dequeued, TakenOver, Built, Locking
    <2>3. CASE i \in Positions(t) /\ Same(stack'[t][i], stack[t][i]) /\ stack'[t][i].at \in Draining \cup {"over"}
      <3>1. Holder(t, i)
        BY <2>3 DEF Holder, Holding, Same
      <3>2. running # 0
        BY <2>3, <3>1 DEF IInv, Control, HolderFits
      <3>3. stack[t][i] \in FrameType
        BY <2>3 DEF IInv, TypeOK, Positions
      <3>4. CountFits(stack[t][i])
        BY <2>3 DEF IInv, RecordsFit, CountsFit
      <3>5. stack[t][i].at = "in build" => Counting
        BY <2>3, InBuildCounts
      <3>6. PICK f \in FrameType : f = stack[t][i]
        BY <3>3
      <3>7. CountFits(f)'
        BY <1>2, <3>2, <3>4, <3>5, <3>6
      <3> QED
        BY <2>3, <3>6, <3>7 DEF CountFits, Same
    <2> QED
      BY <2>1, <2>2, <2>3 DEF FramesKept
  <1> QED
    BY <1>1, <1>2, <1>3 DEF IInv, RecordsFit, CountsFit

\* The rest of the type invariant, for the variables a step may change as it likes.
RestTyped ==
    /\ deferred \in BOOLEAN
    /\ ended \in {"no", "terminated", "exited"}
    /\ budget \in [{"signals", "interrupts", "calls"} -> Nat]

DrainsStay == UNCHANGED <<drains, running, shutdown>>

LEMMA CallKeeps ==
  ASSUME IInv, NEW t \in Threads, NEW f \in FrameType, Called(t, f), f.at \in Quiet \ {"app"},
         ~f.raised, f.why \in {"app", "thread"} \/ t = Main, f.why = "atexit" => Len(stack[t]) = 1,
         DrainsStay, RecordsMove, RestTyped'
  PROVE  IInv'
  <1>1. TypeOK /\ StackFits
    BY DEF IInv, Control
  <1>2. StackFits'
    BY <1>1, CalledFits
  <1>3. FramesKept
    BY <1>1, QuietCall
  <1>4. TypedStack'
    BY <1>1, CalledFrames
  <1>5. TypeOK'
    BY <1>1, <1>4 DEF TypeOK, TypedStack, RestTyped, DrainsStay, RecordsMove, RecordsPass, RecordsTyped
  <1> QED
    BY <1>2, <1>3, <1>5, QuietKeeps DEF DrainsStay

LEMMA MoveKeeps ==
  ASSUME IInv, NEW t \in Threads, NEW f \in FrameType, Becomes(t, f),
         Same(f, Top(t)) \/ (Away(t, f) /\ Top(t).at \notin Holding),
         f.at = "app" <=> Top(t).at = "app", f.why = Top(t).why, f.raised => t = Main,
         DrainsStay, RecordsMove, RestTyped'
  PROVE  IInv'
  <1>1. TypeOK /\ StackFits
    BY DEF IInv, Control
  <1>2. StackFits'
    BY <1>1, BecomesFits
  <1>3. FramesKept
    BY <1>1, QuietMove
  <1>4. TypedStack'
    BY <1>1, BecomesFrames
  <1>5. TypeOK'
    BY <1>1, <1>4 DEF TypeOK, TypedStack, RestTyped, DrainsStay, RecordsMove, RecordsPass, RecordsTyped
  <1> QED
    BY <1>2, <1>3, <1>5, QuietKeeps DEF DrainsStay

LEMMA ReturnKeeps ==
  ASSUME IInv, NEW t \in Threads, Returned(t), Top(t).at \notin Holding \cup {"app"},
         DrainsStay, RecordsMove, RestTyped'
  PROVE  IInv'
  <1>1. TypeOK /\ StackFits
    BY DEF IInv, Control
  <1>2. Len(stack[t]) # 1
    BY <1>1, TopFrame DEF StackFits, CallFits
  <1>3. StackFits'
    BY <1>1, <1>2, ReturnedFits
  <1>4. FramesKept
    BY <1>1, <1>2, QuietReturn
  <1>5. TypedStack'
    BY <1>1, <1>2, ReturnedFrames
  <1>6. TypeOK'
    BY <1>1, <1>5 DEF TypeOK, TypedStack, RestTyped, DrainsStay, RecordsMove, RecordsPass, RecordsTyped
  <1> QED
    BY <1>3, <1>4, <1>6, QuietKeeps DEF DrainsStay

LEMMA PassKeeps ==
  ASSUME IInv, Passed, Top(Main).at \notin Holding \cup {"app"}, DrainsStay, RecordsMove, RestTyped'
  PROVE  IInv'
  <1>1. TypeOK /\ StackFits
    BY DEF IInv, Control
  <1>2. Len(stack[Main]) # 1
    BY <1>1, TopFrame DEF StackFits, CallFits, Threads
  <1>3. FramesKept
    BY <1>1, <1>2, QuietPass
  <1>4. TypedStack' /\ StackFits'
    BY <1>1, <1>2, PassedFrames
  <1>5. TypeOK'
    BY <1>1, <1>4 DEF TypeOK, TypedStack, RestTyped, DrainsStay, RecordsMove, RecordsPass, RecordsTyped
  <1> QED
    BY <1>3, <1>4, <1>5, QuietKeeps DEF DrainsStay

LEMMA StackStayKeeps ==
  ASSUME IInv, stack' = stack, DrainsStay, RecordsMove, RestTyped'
  PROVE  IInv'
  <1>1. TypeOK'
    BY DEF IInv, TypeOK, RestTyped, DrainsStay, RecordsMove, RecordsPass, RecordsTyped
  <1>2. StackFits'
    BY DEF IInv, Control, StackFits, CallFits, Positions
  <1>3. FramesKept
    BY DEF FramesKept, Same, Positions
  <1> QED
    BY <1>1, <1>2, <1>3, QuietKeeps DEF DrainsStay

\* Nothing is where it was not.
AllStay == UNCHANGED <<record, batch, exiting, adrift>>

\* The drain is between its counts only once the flag is set.
LEMMA CountingIsLate ==
  ASSUME TypeOK, Control, Counting
  PROVE  shutdown
  <1>1. PICK t \in Threads : \E i \in Positions(t) : stack[t][i].at = "in build"
    BY DEF Counting, AllFrames, FramesOf, Positions
  <1> QED
    BY <1>1 DEF Control, StagesFit, StageFits

LEMMA RecordsStay ==
  ASSUME IInv, AllStay, shutdown => shutdown',
         shutdown' => shutdown \/ (exiting /\ \A r \in Records : record[r] # "taken over")
  PROVE  RecordsMove
  <1>1. RecordsTyped' /\ TasksStay
    BY DEF AllStay, IInv, TypeOK, RecordsTyped, TasksStay
  <1>2. ASSUME NEW r \in Records
        PROVE  RecordMoves(r)
    BY DEF AllStay, IInv, RecordsFit, OwedFit, RecordMoves
  <1> QED
    BY <1>1, <1>2 DEF AllStay, IInv, RecordsFit, OwedFit, RecordsMove, RecordsPass

LEMMA FrameIsFrame ==
  ASSUME NEW why \in {"app", "atexit", "handler", "thread"}, NEW at \in {"app", "enter", "call queue", "call tasks"}
  PROVE  /\ Frame(at, why) \in FrameType /\ Frame(at, why).at = at /\ Frame(at, why).why = why
         /\ ~Frame(at, why).raised
  BY DEF Frame, FrameType, Flushing

-----------------------------------------------------------------------------
(* The quiet actions, one by one.                                             *)

LEMMA CallExitKeeps ==
  ASSUME IInv, NEW t \in Threads, CallExit(t)
  PROVE  IInv'
  <1>1. DrainsStay /\ AllStay /\ RestTyped'
    <2>1. DrainsStay /\ AllStay /\ UNCHANGED <<deferred, ended>>
      BY DEF CallExit, DrainsStay, AllStay, recordVars, taskVars, drainVars, flagVars
    <2>2. budget' \in [{"signals", "interrupts", "calls"} -> Nat]
      <3>1. budget \in [{"signals", "interrupts", "calls"} -> Nat]
        BY DEF IInv, TypeOK
      <3>2. budget.calls > 0 => budget.calls - 1 \in Nat
        BY <3>1
      <3> QED
        BY <3>1, <3>2 DEF CallExit
    <2> QED
      BY <2>1, <2>2 DEF RestTyped, IInv, TypeOK
  <1>2. RecordsMove
    BY <1>1, RecordsStay DEF DrainsStay
  <1>3. Len(stack[t]) = 1
    <2>1. TypeOK /\ StackFits /\ Top(t).at = "app"
      BY DEF CallExit, On, IInv, Control
    <2>2. CallFits(t, Len(stack[t]), Top(t))
      BY <2>1, TopFrame DEF StackFits
    <2> QED
      BY <2>1, <2>2 DEF CallFits
  <1>4. CASE t = Main /\ Called(t, Frame("enter", "atexit"))
    BY <1>1, <1>2, <1>3, <1>4, CallKeeps, FrameIsFrame DEF Quiet
  <1>5. CASE Called(t, Frame("enter", "app"))
    BY <1>1, <1>2, <1>3, <1>5, CallKeeps, FrameIsFrame DEF Quiet
  <1> QED
    BY <1>4, <1>5 DEF CallExit

LEMMA SignalKeeps ==
  ASSUME IInv, Signal
  PROVE  IInv'
  <1>1. DrainsStay /\ AllStay /\ RestTyped'
    <2>1. DrainsStay /\ AllStay /\ UNCHANGED <<deferred, ended>>
      BY DEF Signal, DrainsStay, AllStay, recordVars, taskVars, drainVars, flagVars
    <2>2. budget' \in [{"signals", "interrupts", "calls"} -> Nat]
      <3>1. budget \in [{"signals", "interrupts", "calls"} -> Nat]
        BY DEF IInv, TypeOK
      <3>2. budget.signals > 0 => budget.signals - 1 \in Nat
        BY <3>1
      <3> QED
        BY <3>1, <3>2 DEF Signal
    <2> QED
      BY <2>1, <2>2 DEF RestTyped, IInv, TypeOK
  <1>2. RecordsMove
    BY <1>1, RecordsStay DEF DrainsStay
  <1>3. Main \in Threads /\ Called(Main, Frame("enter", "handler"))
    BY DEF Signal, Threads
  <1> QED
    BY <1>1, <1>2, <1>3, CallKeeps, FrameIsFrame DEF Quiet

LEMMA CallFlushKeeps ==
  ASSUME IInv, NEW t \in Threads, CallFlush(t)
  PROVE  IInv'
  <1>1. DrainsStay /\ AllStay /\ RestTyped'
    <2>1. DrainsStay /\ AllStay /\ UNCHANGED <<deferred, ended>>
      BY DEF CallFlush, DrainsStay, AllStay, recordVars, taskVars, drainVars, flagVars
    <2>2. budget' \in [{"signals", "interrupts", "calls"} -> Nat]
      <3>1. budget \in [{"signals", "interrupts", "calls"} -> Nat] /\ budget.calls > 0
        BY DEF CallFlush, IInv, TypeOK
      <3>2. budget.calls - 1 \in Nat
        BY <3>1
      <3> QED
        BY <3>1, <3>2 DEF CallFlush
    <2> QED
      BY <2>1, <2>2 DEF RestTyped, IInv, TypeOK
  <1>2. RecordsMove
    BY <1>1, RecordsStay DEF DrainsStay
  <1>3. CASE Called(t, Frame("call queue", "app"))
    BY <1>1, <1>2, <1>3, CallKeeps, FrameIsFrame DEF Quiet
  <1>4. CASE Called(t, Frame("call tasks", "thread"))
    BY <1>1, <1>2, <1>4, CallKeeps, FrameIsFrame DEF Quiet
  <1> QED
    BY <1>3, <1>4 DEF CallFlush

\* The answer ends the process, or takes the call off the stack.
LEMMA AnswerCases ==
  ASSUME TypeOK, NEW t \in Threads, NEW over \in BOOLEAN, Answer(t, over)
  PROVE  \/ stack' = stack /\ deferred' = deferred /\ ended' \in {"terminated", "exited"}
            /\ Top(t).why \in {"handler", "atexit"} /\ (ended' = "terminated" => over)
         \/ Returned(t) /\ ended' = ended /\ deferred' \in BOOLEAN
  <1>1. Top(t).why \in {"app", "atexit", "handler", "thread"}
    BY TopFrame DEF FrameType
  <1>2. CASE Top(t).why = "handler" /\ over
    BY <1>2 DEF Answer
  <1>3. CASE Top(t).why = "handler" /\ ~over
    BY <1>3 DEF Answer
  <1>4. CASE Top(t).why = "atexit"
    BY <1>4 DEF Answer
  <1>5. CASE Top(t).why \in {"app", "thread"}
    BY <1>5 DEF Answer, TypeOK
  <1> QED
    BY <1>1, <1>2, <1>3, <1>4, <1>5

LEMMA AnswerKeeps ==
  ASSUME IInv, NEW t \in Threads, NEW over \in BOOLEAN, Answer(t, over),
         Top(t).at \notin Holding \cup {"app"}, DrainsStay, AllStay, budget' = budget
  PROVE  IInv'
  <1>1. RestTyped'
    BY AnswerCases DEF IInv, TypeOK, RestTyped
  <1>2. RecordsMove
    BY RecordsStay DEF DrainsStay
  <1>3. CASE stack' = stack
    BY <1>1, <1>2, <1>3, StackStayKeeps
  <1>4. CASE Returned(t)
    BY <1>1, <1>2, <1>4, ReturnKeeps
  <1> QED
    BY <1>3, <1>4, AnswerCases DEF IInv

Steps == {"inside", "overflow", "flag", "lock", "flush", "remaining", "over", "deferred", "raising",
          "call tasks", "call check", "call build", "call back", "call lock", "call flush"}

\* The innermost call of a thread, further on.
Moved(t, at) == [Top(t) EXCEPT !.at = at]

LEMMA GoesIsMove ==
  ASSUME TypeOK, NEW t \in Threads,
         NEW at \in Steps
  PROVE  /\ Moved(t, at) \in FrameType /\ Moved(t, at).at = at
         /\ Moved(t, at).why = Top(t).why /\ Moved(t, at).drain = Top(t).drain
         /\ Moved(t, at).raised = Top(t).raised /\ Moved(t, at).left = Top(t).left
         /\ Goes(t, at) => Becomes(t, Moved(t, at))
  <1>1. Top(t) \in FrameType
    BY TopFrame
  <1>2. /\ Moved(t, at) \in FrameType /\ Moved(t, at).at = at
        /\ Moved(t, at).why = Top(t).why /\ Moved(t, at).drain = Top(t).drain
        /\ Moved(t, at).raised = Top(t).raised /\ Moved(t, at).left = Top(t).left
    BY <1>1 DEF Moved, Steps, FrameType, Draining, Finishing, Flushing
  <1>3. Goes(t, at) => Becomes(t, Moved(t, at))
    BY DEF Goes, Moved
  <1> QED
    BY <1>2, <1>3

\* A thread that goes on to a quiet place, out of a call that holds no drain.
LEMMA QuietGoesKeeps ==
  ASSUME IInv, NEW t \in Threads, NEW at \in Quiet \cap Steps, Goes(t, at),
         Top(t).at \notin Holding \cup {"app"}, DrainsStay, RecordsMove, RestTyped'
  PROVE  IInv'
  <1>1. TypeOK /\ StackFits
    BY DEF IInv, Control
  <1>2. /\ Moved(t, at) \in FrameType /\ Moved(t, at).at = at /\ Becomes(t, Moved(t, at))
        /\ Moved(t, at).why = Top(t).why /\ Moved(t, at).raised = Top(t).raised
    <2>1. at \in Steps
      OBVIOUS
    <2> QED
      BY <1>1, <2>1, GoesIsMove
  <1>3. Top(t).raised => t = Main
    <2>1. CallFits(t, Len(stack[t]), Top(t))
      BY <1>1, TopFrame DEF StackFits
    <2> QED
      BY <2>1 DEF CallFits
  <1> QED
    BY <1>2, <1>3, MoveKeeps DEF Quiet, Steps, Away

LEMMA EnterKeeps ==
  ASSUME IInv, NEW t \in Threads, Enter(t)
  PROVE  IInv'
  <1>1. DrainsStay /\ AllStay /\ RestTyped'
    BY DEF Enter, DrainsStay, AllStay, recordVars, taskVars, drainVars, flagVars, RestTyped, IInv, TypeOK
  <1>2. RecordsMove
    BY <1>1, RecordsStay DEF DrainsStay
  <1>3. Goes(t, "inside") /\ Top(t).at = "enter"
    BY DEF Enter, On
  <1> QED
    BY <1>1, <1>2, <1>3, QuietGoesKeeps DEF Quiet, Steps, Holding, Draining

LEMMA AlreadyDrainedKeeps ==
  ASSUME IInv, NEW t \in Threads, AlreadyDrained(t)
  PROVE  IInv'
  <1>1. DrainsStay /\ AllStay /\ budget' = budget
    BY DEF AlreadyDrained, DrainsStay, AllStay, recordVars, taskVars, drainVars
  <1>2. Answer(t, TRUE) /\ Top(t).at = "inside"
    BY DEF AlreadyDrained, On
  <1> QED
    BY <1>1, <1>2, AnswerKeeps DEF Holding, Draining

LEMMA AwaitKeeps ==
  ASSUME IInv, NEW t \in Threads, Await(t)
  PROVE  IInv'
  <1>1. DrainsStay /\ AllStay /\ budget' = budget
    BY DEF Await, DrainsStay, AllStay, recordVars, taskVars, drainVars
  <1>2. Answer(t, TRUE) /\ Top(t).at = "wait"
    BY DEF Await, On
  <1> QED
    BY <1>1, <1>2, AnswerKeeps DEF Holding, Draining

LEMMA TerminateKeeps ==
  ASSUME IInv, NEW t \in Threads, TerminateIfDeferred(t)
  PROVE  IInv'
  <1>1. DrainsStay /\ AllStay /\ budget' = budget /\ Top(t).at = "deferred"
    BY DEF TerminateIfDeferred, DrainsStay, AllStay, recordVars, taskVars, drainVars
  <1>2. RecordsMove
    BY <1>1, RecordsStay DEF DrainsStay
  <1>3. CASE stack' = stack /\ ended' = "terminated" /\ deferred' = deferred
    <2>1. RestTyped'
      BY <1>1, <1>3 DEF IInv, TypeOK, RestTyped
    <2> QED
      BY <1>1, <1>2, <1>3, <2>1, StackStayKeeps
  <1>4. CASE Goes(t, "raising") /\ UNCHANGED <<deferred, ended>>
    <2>1. RestTyped'
      BY <1>1, <1>4 DEF IInv, TypeOK, RestTyped
    <2> QED
      BY <1>1, <1>2, <1>4, <2>1, QuietGoesKeeps DEF Quiet, Steps, Holding, Draining
  <1>5. CASE Answer(t, TRUE)
    BY <1>1, <1>5, AnswerKeeps DEF Holding, Draining
  <1> QED
    BY <1>3, <1>4, <1>5 DEF TerminateIfDeferred

LEMMA JoinUnderneathKeeps ==
  ASSUME IInv, NEW t \in Threads, Join(t), Underneath(t)
  PROVE  IInv'
  <1>1. DrainsStay /\ AllStay /\ budget' = budget
    BY DEF Join, DrainsStay, AllStay, recordVars, taskVars, drainVars
  <1>2. Answer(t, FALSE) /\ Top(t).at = "inside"
    BY DEF Join, On
  <1> QED
    BY <1>1, <1>2, AnswerKeeps DEF Holding, Draining

\* Tasks which a flush takes back to return them, between the counts or not.
LEMMA ReclaimedMove ==
  ASSUME IInv, DrainsStay, exiting' = exiting, batch' \in [Threads -> SUBSET Records],
         NEW rs \in SUBSET Records, adrift' = IF Counting THEN adrift \cup rs ELSE adrift,
         record' \in [Records -> Places], \A r \in Records \ rs : record'[r] = record[r],
         \A r \in rs : /\ record[r] \in {"taken", "handed"} /\ record'[r] = "returning"
  PROVE  RecordsMove
  <1>1. Counting => shutdown
    BY CountingIsLate DEF IInv
  <1>2. RecordsTyped' /\ TasksStay
    BY DEF IInv, TypeOK, RecordsTyped, TasksStay, Unstarted
  <1>3. ASSUME NEW r \in Records
        PROVE  RecordMoves(r)
    BY <1>3 DEF IInv, RecordsFit, OwedFit, RecordMoves, Waiting, Tried, Unstarted, BuildPlaces, DrainsStay
  <1> QED
    BY <1>1, <1>2, <1>3 DEF IInv, RecordsFit, OwedFit, RecordsMove, RecordsPass, DrainsStay

\* The steps of a record that need no history.
Hops == {<<"queued", "running">>, <<"running", "sent">>, <<"running", "held">>,
         <<"overflow", "taken">>, <<"returning", "overflow">>, <<"handed", "building">>, <<"taken over", "building">>,
         <<"held", "sending">>, <<"sending", "held">>, <<"sending", "sent">>}

LEMMA HopsMove ==
  ASSUME IInv, DrainsStay, exiting' = exiting, adrift' = adrift, batch' \in [Threads -> SUBSET Records],
         record' \in [Records -> Places],
         \A r \in Records : record'[r] = record[r] \/ <<record[r], record'[r]>> \in Hops
  PROVE  RecordsMove
  <1>1. RecordsTyped'
    BY DEF IInv, TypeOK, RecordsTyped
  <1>2. ASSUME NEW r \in Records
        PROVE  /\ RecordMoves(r)
               /\ record'[r] \in Unstarted => record[r] \in Unstarted \cup {"new"}
               /\ record'[r] = "taken over" => record[r] = "taken over"
    <2>1. CASE record'[r] = record[r]
      BY <2>1 DEF IInv, RecordsFit, OwedFit, RecordMoves, DrainsStay
    <2>2. CASE <<record[r], record'[r]>> \in Hops
      BY <2>2 DEF Hops, RecordMoves, Waiting, Tried, Unstarted, BuildPlaces
    <2> QED
      BY <2>1, <2>2
  <1> QED
    BY <1>1, <1>2 DEF IInv, RecordsFit, OwedFit, RecordsMove, RecordsPass, TasksStay, DrainsStay

LEMMA SentMoves ==
  ASSUME IInv, NEW delivered \in SUBSET At({"sending"}), record' = SentOf(delivered), DrainsStay,
         exiting' = exiting, adrift' = adrift, batch' \in [Threads -> SUBSET Records]
  PROVE  RecordsMove
  <1>1. record \in [Records -> Places]
    BY DEF IInv, TypeOK
  <1>2. \A r \in delivered : record[r] = "sending"
    BY DEF At
  <1>3. record' \in [Records -> Places]
    BY <1>1 DEF SentOf, Places
  <1>4. \A r \in Records : record'[r] = record[r] \/ <<record[r], record'[r]>> \in Hops
    BY <1>2 DEF SentOf, Hops
  <1> QED
    BY <1>3, <1>4, HopsMove

LEMMA PutMoves ==
  ASSUME IInv, NEW rs \in SUBSET Records, NEW from \in Places, NEW to \in Places, <<from, to>> \in Hops,
         \A r \in rs : record[r] = from, record' = Put(rs, to), DrainsStay,
         exiting' = exiting, adrift' = adrift, batch' \in [Threads -> SUBSET Records]
  PROVE  RecordsMove
  <1>1. record \in [Records -> Places]
    BY DEF IInv, TypeOK
  <1>2. record' \in [Records -> Places]
    BY <1>1 DEF Put
  <1>3. \A r \in Records : record'[r] = record[r] \/ <<record[r], record'[r]>> \in Hops
    BY DEF Put
  <1> QED
    BY <1>2, <1>3, HopsMove

\* The same call, with a wait of its own that is over or an exception in it.
LEMMA SameCallKeeps ==
  ASSUME IInv, NEW t \in Threads, NEW f \in FrameType, Becomes(t, f), Same(f, Top(t)),
         f.raised => t = Main, DrainsStay, AllStay, RestTyped'
  PROVE  IInv'
  <1>1. RecordsMove
    BY RecordsStay DEF DrainsStay
  <1>2. f.at = Top(t).at /\ f.why = Top(t).why
    BY DEF Same
  <1> QED
    BY <1>1, <1>2, MoveKeeps

LEMMA CallTimesOutKeeps ==
  ASSUME IInv, NEW t \in Threads, CallTimesOut(t)
  PROVE  IInv'
  <1>1. DrainsStay /\ AllStay /\ RestTyped'
    BY DEF CallTimesOut, DrainsStay, AllStay, recordVars, taskVars, drainVars, flagVars, IInv, TypeOK, RestTyped
  <1> DEFINE f == [Top(t) EXCEPT !.late = TRUE]
  <1>2. Top(t) \in FrameType /\ (Top(t).raised => t = Main)
    <2>1. CallFits(t, Len(stack[t]), Top(t))
      BY TopFrame DEF IInv, Control, StackFits
    <2> QED
      BY <2>1, TopFrame DEF IInv, CallFits
  <1>3. f \in FrameType /\ Same(f, Top(t)) /\ f.raised = Top(t).raised
    BY <1>2 DEF FrameType, Same
  <1>4. Becomes(t, f)
    BY DEF CallTimesOut
  <1> QED
    BY <1>1, <1>2, <1>3, <1>4, SameCallKeeps

LEMMA InterruptKeeps ==
  ASSUME IInv, Interrupt
  PROVE  IInv'
  <1>1. DrainsStay /\ AllStay /\ RestTyped'
    <2>1. DrainsStay /\ AllStay /\ UNCHANGED <<deferred, ended>>
      BY DEF Interrupt, DrainsStay, AllStay, recordVars, taskVars, drainVars, flagVars
    <2>2. budget' \in [{"signals", "interrupts", "calls"} -> Nat]
      <3>1. budget \in [{"signals", "interrupts", "calls"} -> Nat] /\ budget.interrupts > 0
        BY DEF Interrupt, IInv, TypeOK
      <3>2. budget.interrupts - 1 \in Nat
        BY <3>1
      <3> QED
        BY <3>1, <3>2 DEF Interrupt
    <2> QED
      BY <2>1, <2>2 DEF RestTyped, IInv, TypeOK
  <1> DEFINE f == [Top(Main) EXCEPT !.raised = TRUE]
  <1>2. Main \in Threads /\ Top(Main) \in FrameType
    BY TopFrame DEF IInv, Threads
  <1>3. f \in FrameType /\ Same(f, Top(Main))
    BY <1>2 DEF FrameType, Same
  <1>4. Becomes(Main, f)
    BY DEF Interrupt
  <1> QED
    BY <1>1, <1>2, <1>3, <1>4, SameCallKeeps

\* A step of a flush from one of its places to the next.
LEMMA FlushGoesKeeps ==
  ASSUME IInv, NEW t \in Threads, NEW at \in Flushing \cap Steps, Goes(t, at), Top(t).at \in Flushing,
         DrainsStay, RecordsMove, RestTyped'
  PROVE  IInv'
  <1>1. at \in Quiet \cap Steps /\ Top(t).at \notin Holding \cup {"app"}
    BY DEF Flushing, Quiet, Holding, Draining
  <1> QED
    BY <1>1, QuietGoesKeeps

LEMMA FlushReturnKeeps ==
  ASSUME IInv, NEW t \in Threads, Returned(t), Top(t).at \in Flushing, DrainsStay, RecordsMove, RestTyped'
  PROVE  IInv'
  <1>1. Top(t).at \notin Holding \cup {"app"}
    BY DEF Flushing, Holding, Draining
  <1> QED
    BY <1>1, ReturnKeeps

FlushStays == DrainsStay /\ RestTyped' /\ exiting' = exiting

LEMMA FlushQueueKeeps ==
  ASSUME IInv, NEW t \in Threads, FlushQueue(t)
  PROVE  IInv'
  <1>1. DrainsStay /\ AllStay /\ RestTyped' /\ Top(t).at = "call queue" /\ Goes(t, "call tasks")
    BY DEF FlushQueue, On, DrainsStay, AllStay, recordVars, taskVars, drainVars, flagVars, IInv, TypeOK, RestTyped
  <1>2. RecordsMove
    BY <1>1, RecordsStay DEF DrainsStay
  <1> QED
    BY <1>1, <1>2, FlushGoesKeeps DEF Flushing, Steps

LEMMA RegisterTasksKeeps ==
  ASSUME IInv, NEW t \in Threads, RegisterTasks(t)
  PROVE  IInv'
  <1> DEFINE rs == At({"overflow"})
  <1>1. FlushStays /\ adrift' = adrift /\ record' = Put(rs, "taken") /\ batch' = [batch EXCEPT ![t] = rs]
        /\ Top(t).at = "call tasks" /\ Goes(t, "call check")
    BY DEF RegisterTasks, On, FlushStays, DrainsStay, drainVars, flagVars, IInv, TypeOK, RestTyped
  <1>2. rs \in SUBSET Records /\ \A r \in rs : record[r] = "overflow"
    BY DEF At
  <1>3. batch' \in [Threads -> SUBSET Records]
    BY <1>1, <1>2 DEF IInv, TypeOK
  <1>4. RecordsMove
    BY <1>1, <1>2, <1>3, PutMoves DEF FlushStays, Hops, Places, Tasks
  <1> QED
    BY <1>1, <1>4, FlushGoesKeeps DEF FlushStays, Flushing, Steps

LEMMA ReclaimKeeps ==
  ASSUME IInv, NEW t \in Threads, NEW place \in {"taken", "handed"}, Reclaim(t, place),
         FlushStays, batch' = batch, Top(t).at \in Flushing
  PROVE  IInv'
  <1> DEFINE rs == batch[t] \cap At({place})
  <1>1. rs \in SUBSET Records /\ \A r \in rs : record[r] = place
    BY DEF At
  <1>2. /\ record' = Put(rs, "returning")
        /\ adrift' = IF Counting THEN adrift \cup rs ELSE adrift
        /\ Goes(t, "call back")
    BY DEF Reclaim
  <1>3. /\ record' \in [Records -> Places] /\ batch' \in [Threads -> SUBSET Records]
        /\ \A r \in Records : record'[r] = IF r \in rs THEN "returning" ELSE record[r]
    BY <1>2 DEF IInv, TypeOK, Put, Places, Tasks
  <1> HIDE DEF rs
  <1>4. RecordsMove
    <2>1. /\ \A r \in Records \ rs : record'[r] = record[r]
          /\ \A r \in rs : record[r] \in {"taken", "handed"} /\ record'[r] = "returning"
      BY <1>1, <1>3
    <2> QED
      BY <1>1, <1>2, <1>3, <2>1, ReclaimedMove DEF FlushStays
  <1> QED
    BY <1>2, <1>4, FlushGoesKeeps DEF FlushStays, Flushing, Steps

LEMMA HandOverKeeps ==
  ASSUME IInv, NEW t \in Threads, HandOver(t)
  PROVE  IInv'
  <1>1. FlushStays /\ batch' = batch /\ Top(t).at = "call check"
    BY DEF HandOver, On, FlushStays, DrainsStay, drainVars, flagVars, IInv, TypeOK, RestTyped
  <1>2. CASE exiting
    BY <1>1, <1>2, ReclaimKeeps DEF HandOver, Flushing
  <1>3. CASE ~exiting
    <2> DEFINE rs == batch[t] \cap At({"taken"})
    <2>1. record' = Put(rs, "handed") /\ adrift' = adrift /\ Goes(t, "call build")
      BY <1>3 DEF HandOver
    <2>2. /\ \A r \in Records : record'[r] = record[r] \/ (record[r] = "taken" /\ record'[r] = "handed")
          /\ record' \in [Records -> Places] /\ batch' \in [Threads -> SUBSET Records]
      BY <1>1, <2>1 DEF IInv, TypeOK, Put, Places, Tasks, At
    <2>3. ASSUME NEW r \in Records
          PROVE  /\ RecordMoves(r)
                 /\ record'[r] \in Unstarted => record[r] \in Unstarted \cup {"new"}
                 /\ record'[r] = "taken over" => record[r] = "taken over"
      BY <1>1, <1>3, <2>1, <2>2 DEF FlushStays, DrainsStay, IInv, RecordsFit, OwedFit, RecordMoves,
                               Waiting, Tried, Unstarted, BuildPlaces
    <2>4. RecordsMove
      BY <1>1, <2>1, <2>2, <2>3 DEF FlushStays, DrainsStay, IInv, TypeOK, RecordsFit, OwedFit, RecordsMove,
                               RecordsPass, RecordsTyped, TasksStay
    <2> QED
      BY <1>1, <2>1, <2>4, FlushGoesKeeps DEF FlushStays, Flushing, Steps
  <1> QED
    BY <1>2, <1>3

LEMMA AwaitBuildKeeps ==
  ASSUME IInv, NEW t \in Threads, AwaitBuild(t)
  PROVE  IInv'
  <1>1. FlushStays /\ batch' = batch /\ Top(t).at = "call build" /\ Reclaim(t, "handed")
    BY DEF AwaitBuild, On, FlushStays, DrainsStay, drainVars, flagVars, IInv, TypeOK, RestTyped
  <1> QED
    BY <1>1, ReclaimKeeps DEF Flushing

LEMMA PutBackKeeps ==
  ASSUME IInv, NEW t \in Threads, PutBack(t)
  PROVE  IInv'
  <1> DEFINE rs == batch[t] \cap At({"returning"})
  <1>1. FlushStays /\ adrift' = adrift /\ record' = Put(rs, "overflow") /\ batch' = [batch EXCEPT ![t] = {}]
        /\ Top(t).at = "call back" /\ (Returned(t) \/ Goes(t, "call lock"))
    BY DEF PutBack, On, FlushStays, DrainsStay, drainVars, flagVars, IInv, TypeOK, RestTyped
  <1>2. rs \in SUBSET Records /\ \A r \in rs : record[r] = "returning"
    BY DEF At
  <1>3. batch' \in [Threads -> SUBSET Records]
    BY <1>1 DEF IInv, TypeOK
  <1>4. RecordsMove
    BY <1>1, <1>2, <1>3, PutMoves DEF FlushStays, Hops, Places, Tasks
  <1> QED
    BY <1>1, <1>4, FlushGoesKeeps, FlushReturnKeeps DEF FlushStays, Flushing, Steps

LEMMA FlushTakesLockKeeps ==
  ASSUME IInv, NEW t \in Threads, FlushTakesLock(t)
  PROVE  IInv'
  <1>1. DrainsStay /\ AllStay /\ RestTyped' /\ Top(t).at = "call lock" /\ (Goes(t, "call flush") \/ Returned(t))
    BY DEF FlushTakesLock, On, DrainsStay, AllStay, recordVars, taskVars, drainVars, flagVars, IInv, TypeOK, RestTyped
  <1>2. RecordsMove
    BY <1>1, RecordsStay DEF DrainsStay
  <1> QED
    BY <1>1, <1>2, FlushGoesKeeps, FlushReturnKeeps DEF Flushing, Steps

LEMMA FlushReplaysKeeps ==
  ASSUME IInv, NEW t \in Threads, FlushReplays(t)
  PROVE  IInv'
  <1>1. FlushStays /\ adrift' = adrift /\ stack' = stack
    BY DEF FlushReplays, FlushStays, DrainsStay, drainVars, flagVars, IInv, TypeOK, RestTyped
  <1>2. PICK met \in SUBSET At({"held", "overflow"}) :
           /\ record' = [r \in Records |-> IF r \notin met THEN record[r]
                                           ELSE IF record[r] = "held" THEN "sending" ELSE "taken"]
           /\ batch' = [batch EXCEPT ![t] = @ \cup (met \cap At({"overflow"}))]
    BY DEF FlushReplays
  <1>3. \A r \in met : r \in Records /\ record[r] \in {"held", "overflow"}
    BY DEF At
  <1>4. record' \in [Records -> Places] /\ batch' \in [Threads -> SUBSET Records]
    BY <1>2, <1>3 DEF IInv, TypeOK, Places, Tasks, At
  <1>5. \A r \in Records : record'[r] = record[r] \/ <<record[r], record'[r]>> \in Hops
    BY <1>2, <1>3 DEF Hops
  <1>6. RecordsMove
    BY <1>1, <1>4, <1>5, HopsMove DEF FlushStays
  <1> QED
    BY <1>1, <1>6, StackStayKeeps DEF FlushStays

LEMMA FlushEndsKeeps ==
  ASSUME IInv, NEW t \in Threads, FlushEnds(t)
  PROVE  IInv'
  <1>1. FlushStays /\ adrift' = adrift /\ batch' = batch /\ Top(t).at = "call flush"
    BY DEF FlushEnds, On, FlushStays, DrainsStay, taskVars, drainVars, flagVars, IInv, TypeOK, RestTyped
  <1>2. RecordsMove
    BY <1>1, SentMoves DEF FlushEnds, FlushStays, IInv, TypeOK
  <1> DEFINE f == [Top(t) EXCEPT !.at = "call check", !.replayed = TRUE]
  <1>3. Top(t) \in FrameType /\ (Top(t).raised => t = Main)
    <2>1. CallFits(t, Len(stack[t]), Top(t))
      BY TopFrame DEF IInv, Control, StackFits
    <2> QED
      BY <2>1, TopFrame DEF IInv, CallFits
  <1>4. f \in FrameType /\ f.at = "call check" /\ f.why = Top(t).why /\ f.raised = Top(t).raised
    BY <1>3 DEF FrameType, Flushing
  <1>5. Becomes(t, f)
    BY DEF FlushEnds
  <1>6. Away(t, f) /\ Top(t).at \notin Holding \cup {"app"} /\ f.at # "app"
    BY <1>1, <1>4 DEF Away, Quiet, Holding, Draining
  <1> HIDE DEF f
  <1> QED
    BY <1>1, <1>2, <1>3, <1>4, <1>5, <1>6, MoveKeeps DEF FlushStays

\* A record on its own: accepted or refused, run by a worker, begun and built.
LEMMA SubmitKeeps ==
  ASSUME IInv, NEW r \in Records, Submit(r)
  PROVE  IInv'
  <1>1. FlushStays /\ stack' = stack /\ adrift' = adrift /\ batch' = batch
    BY DEF Submit, FlushStays, DrainsStay, taskVars, drainVars, flagVars, IInv, TypeOK, RestTyped
  <1>2. PICK to \in {"refused", "queued", "overflow"} : record' = [record EXCEPT ![r] = to]
    BY DEF Submit
  <1>3. /\ record' \in [Records -> Places] /\ record[r] = "new" /\ record'[r] = to
        /\ \A s \in Records \ {r} : record'[s] = record[s]
    BY <1>2 DEF Submit, IInv, TypeOK, Places, Tasks
  <1>4. ASSUME NEW s \in Records
        PROVE  /\ RecordMoves(s)
               /\ record'[s] \in Unstarted => record[s] \in Unstarted \cup {"new"}
               /\ record'[s] = "taken over" => record[s] = "taken over"
    <2>1. CASE s = r
      BY <1>1, <1>3, <2>1 DEF RecordMoves, Waiting, Tried, Unstarted, BuildPlaces
    <2>2. CASE s # r
      BY <1>1, <1>3, <2>2 DEF FlushStays, DrainsStay, IInv, RecordsFit, OwedFit, RecordMoves
    <2> QED
      BY <2>1, <2>2
  <1>5. RecordsMove
    BY <1>1, <1>3, <1>4 DEF FlushStays, DrainsStay, IInv, TypeOK, RecordsFit, OwedFit, RecordsMove,
                             RecordsPass, RecordsTyped, TasksStay
  <1> QED
    BY <1>1, <1>5, StackStayKeeps DEF FlushStays

LEMMA RunKeeps ==
  ASSUME IInv, NEW r \in Records, Run(r)
  PROVE  IInv'
  <1>1. FlushStays /\ stack' = stack /\ adrift' = adrift /\ batch' = batch
    BY DEF Run, FlushStays, DrainsStay, taskVars, drainVars, flagVars, IInv, TypeOK, RestTyped
  <1>2. PICK to \in {"skipped", "running"} : record' = [record EXCEPT ![r] = to] /\ (to = "skipped" => shutdown)
    BY DEF Run, Skips
  <1>3. /\ record' \in [Records -> Places] /\ record[r] = "queued" /\ record'[r] = to
        /\ \A s \in Records \ {r} : record'[s] = record[s]
    BY <1>2 DEF Run, IInv, TypeOK, Places, Tasks
  <1>4. ASSUME NEW s \in Records
        PROVE  /\ RecordMoves(s)
               /\ record'[s] \in Unstarted => record[s] \in Unstarted \cup {"new"}
               /\ record'[s] = "taken over" => record[s] = "taken over"
    <2>1. CASE s = r
      BY <1>1, <1>2, <1>3, <2>1 DEF FlushStays, DrainsStay, RecordMoves, Waiting, Tried, Unstarted, BuildPlaces
    <2>2. CASE s # r
      BY <1>1, <1>3, <2>2 DEF FlushStays, DrainsStay, IInv, RecordsFit, OwedFit, RecordMoves
    <2> QED
      BY <2>1, <2>2
  <1>5. RecordsMove
    BY <1>1, <1>3, <1>4 DEF FlushStays, DrainsStay, IInv, TypeOK, RecordsFit, OwedFit, RecordsMove,
                             RecordsPass, RecordsTyped, TasksStay
  <1> QED
    BY <1>1, <1>5, StackStayKeeps DEF FlushStays

\* A step of one record that needs no history.
LEMMA HopKeeps ==
  ASSUME IInv, NEW r \in Records, NEW to \in Places, record' = [record EXCEPT ![r] = to], <<record[r], to>> \in Hops,
         FlushStays, stack' = stack, adrift' = adrift, batch' = batch
  PROVE  IInv'
  <1>1. /\ record' \in [Records -> Places] /\ batch' \in [Threads -> SUBSET Records]
        /\ \A s \in Records : record'[s] = record[s] \/ <<record[s], record'[s]>> \in Hops
    BY DEF IInv, TypeOK
  <1>2. RecordsMove
    BY <1>1, HopsMove DEF FlushStays
  <1> QED
    BY <1>2, StackStayKeeps DEF FlushStays

LEMMA EndRunKeeps ==
  ASSUME IInv, NEW r \in Records, EndRun(r)
  PROVE  IInv'
  <1>1. FlushStays /\ stack' = stack /\ adrift' = adrift /\ batch' = batch
    BY DEF EndRun, FlushStays, DrainsStay, taskVars, drainVars, flagVars, IInv, TypeOK, RestTyped
  <1>2. PICK to \in {"sent", "held"} : record' = [record EXCEPT ![r] = to] /\ record[r] = "running"
    BY DEF EndRun
  <1>3. to \in Places /\ <<record[r], to>> \in Hops
    BY <1>2 DEF Places, Hops
  <1> QED
    BY <1>1, <1>2, <1>3, HopKeeps

LEMMA BeginKeeps ==
  ASSUME IInv, NEW r \in Records, Begin(r)
  PROVE  IInv'
  <1>1. FlushStays /\ stack' = stack /\ adrift' = adrift /\ batch' = batch
    BY DEF Begin, FlushStays, DrainsStay, taskVars, drainVars, flagVars, IInv, TypeOK, RestTyped
  <1>2. record' = [record EXCEPT ![r] = "building"] /\ record[r] \in {"handed", "taken over"}
    BY DEF Begin
  <1>3. "building" \in Places /\ <<record[r], "building">> \in Hops
    BY <1>2 DEF Places, Tasks, Hops
  <1> QED
    BY <1>1, <1>2, <1>3, HopKeeps

LEMMA EndBuildKeeps ==
  ASSUME IInv, NEW r \in Records, EndBuild(r)
  PROVE  IInv'
  <1>1. FlushStays /\ stack' = stack /\ batch' = batch /\ record[r] = "building"
    BY DEF EndBuild, FlushStays, DrainsStay, drainVars, flagVars, IInv, TypeOK, RestTyped
  <1>2. PICK to \in {"held", "sent", "skipped"} :
           /\ record' = [record EXCEPT ![r] = to] /\ (to = "skipped" => shutdown)
           /\ adrift' = IF Counting \/ to = "skipped" THEN adrift \cup {r} ELSE adrift
    BY DEF EndBuild, Skips
  <1>3. /\ record' \in [Records -> Places] /\ record'[r] = to
        /\ \A s \in Records \ {r} : record'[s] = record[s]
    BY <1>2 DEF IInv, TypeOK, Places, Tasks
  <1>4. Counting => shutdown
    BY CountingIsLate DEF IInv
  <1>5. ASSUME NEW s \in Records
        PROVE  /\ RecordMoves(s)
               /\ record'[s] \in Unstarted => record[s] \in Unstarted \cup {"new"}
               /\ record'[s] = "taken over" => record[s] = "taken over"
    <2>1. CASE s = r
      BY <1>1, <1>2, <1>3, <2>1 DEF FlushStays, DrainsStay, RecordMoves, Waiting, Tried, Unstarted, BuildPlaces
    <2>2. CASE s # r
      BY <1>1, <1>2, <1>3, <2>2 DEF FlushStays, DrainsStay, IInv, RecordsFit, OwedFit, RecordMoves
    <2> QED
      BY <2>1, <2>2
  <1>6. RecordsMove
    BY <1>1, <1>2, <1>3, <1>4, <1>5 DEF FlushStays, DrainsStay, IInv, TypeOK, RecordsFit, OwedFit, RecordsMove,
                             RecordsPass, RecordsTyped, TasksStay
  <1> QED
    BY <1>1, <1>6, StackStayKeeps DEF FlushStays

LEMMA JoinKeeps ==
  ASSUME IInv, NEW t \in Threads, Join(t)
  PROVE  IInv'
  <1>1. CASE Underneath(t)
    BY <1>1, JoinUnderneathKeeps
  <1>2. CASE ~Underneath(t)
    <2>1. /\ DrainsStay /\ AllStay /\ UNCHANGED <<deferred, ended, budget>>
          /\ running # 0 /\ Top(t).at = "inside"
      BY <1>2 DEF Join, On, DrainsStay, AllStay, recordVars, taskVars, drainVars
    <2> DEFINE f == [Top(t) EXCEPT !.at = "wait", !.drain = running]
    <2>2. Becomes(t, f)
      BY <1>2 DEF Join
    <2>3. Top(t) \in FrameType /\ running \in Nat /\ (Top(t).raised => t = Main)
      <3>1. CallFits(t, Len(stack[t]), Top(t))
        BY TopFrame DEF IInv, Control, StackFits
      <3> QED
        BY <3>1, TopFrame DEF IInv, TypeOK, CallFits
    <2>4. f \in FrameType /\ f.at = "wait" /\ f.drain = running /\ f.why = Top(t).why /\ f.raised = Top(t).raised
      BY <2>3 DEF FrameType
    <2>5. running \in 1..Len(drains) /\ drains[running].thread # t
      BY <1>2, <2>1, RunningDrain DEF IInv, Control, Underneath
    <2>6. Away(t, f) /\ Top(t).at \notin Holding \cup {"app"}
      BY <2>1, <2>4, <2>5 DEF Away, Holding, Draining
    <2>7. RestTyped'
      BY <2>1 DEF IInv, TypeOK, RestTyped
    <2>8. RecordsMove
      BY <2>1, RecordsStay DEF DrainsStay
    <2> HIDE DEF f
    <2> QED
      BY <2>1, <2>2, <2>3, <2>4, <2>6, <2>7, <2>8, MoveKeeps
  <1> QED
    BY <1>1, <1>2

\* What a flush of the main thread held goes back to the buffer, and its tasks are nobody's.
LEMMA GivenBackMoves ==
  ASSUME IInv, record' = GivenBack, batch' = Abandoned, DrainsStay, exiting' = exiting, adrift' = adrift
  PROVE  RecordsMove
  <1>1. batch' \in [Threads -> SUBSET Records]
    BY DEF Abandoned, IInv, TypeOK
  <1>2. CASE record' = record
    <2>1. record' \in [Records -> Places]
      BY <1>2 DEF IInv, TypeOK
    <2> QED
      BY <1>1, <1>2, <2>1, HopsMove
  <1>3. CASE record' = SentOf({})
    BY <1>1, <1>3, SentMoves
  <1> QED
    BY <1>2, <1>3 DEF GivenBack

LEMMA UnwindQuietKeeps ==
  ASSUME IInv, Unwind, Top(Main).at \notin Draining
  PROVE  IInv'
  <1>1. /\ DrainsStay /\ record' = GivenBack /\ batch' = Abandoned /\ UNCHANGED <<exiting, adrift, deferred, budget>>
        /\ Top(Main).raised /\ Top(Main).at \notin Finishing
    BY DEF Unwind, DrainsStay, drainVars, flagVars
  <1>2. RecordsMove
    BY <1>1, GivenBackMoves
  <1>3. Main \in Threads /\ Top(Main) \in FrameType /\ CallFits(Main, Len(stack[Main]), Top(Main))
    BY TopFrame DEF IInv, Control, StackFits, Threads
  <1>4. CASE stack' = stack /\ ended' = "exited"
    <2>1. RestTyped'
      BY <1>1, <1>4 DEF IInv, TypeOK, RestTyped
    <2> QED
      BY <1>1, <1>2, <1>4, <2>1, StackStayKeeps
  <1>5. CASE Top(Main).at = "app" /\ Becomes(Main, Frame("app", "app")) /\ ended' = ended
    <2>1. RestTyped'
      BY <1>1, <1>5 DEF IInv, TypeOK, RestTyped
    <2>2. Top(Main).why = "app" /\ Top(Main).at \notin Holding
      BY <1>3, <1>5 DEF CallFits, Holding, Draining
    <2>3. Frame("app", "app") \in FrameType /\ Frame("app", "app").at = "app"
          /\ Frame("app", "app").why = "app" /\ ~Frame("app", "app").raised
      BY FrameIsFrame
    <2>4. Away(Main, Frame("app", "app"))
      BY <2>3 DEF Away, Quiet
    <2> QED
      BY <1>1, <1>2, <1>3, <1>5, <2>1, <2>2, <2>3, <2>4, MoveKeeps
  <1>6. CASE Top(Main).at # "app" /\ Passed /\ ended' = ended
    <2>1. RestTyped'
      BY <1>1, <1>6 DEF IInv, TypeOK, RestTyped
    <2>2. Top(Main).at \notin Holding \cup {"app"}
      BY <1>1, <1>6 DEF Holding, Finishing
    <2> QED
      BY <1>1, <1>2, <1>6, <2>1, <2>2, PassKeeps
  <1> QED
    BY <1>4, <1>5, <1>6 DEF Unwind, Passed

-----------------------------------------------------------------------------
(* The call that holds the drain goes on with it.                             *)

\* The drains are the same ones, and none is over any longer that was.
DrainsFollow ==
    /\ running' = running
    /\ drains' \in Seq(DrainType) /\ Len(drains') = Len(drains)
    /\ \A d \in 1..Len(drains) :
          drains'[d].thread = drains[d].thread /\ (drains[d].over => drains'[d].over)

FlagStays == shutdown' \in BOOLEAN /\ (shutdown => shutdown')

LEMMA HolderIsAlone ==
  ASSUME TypeOK, Control, NEW t \in Threads, Top(t).at \in Holding
  PROVE  /\ running # 0 /\ running \in 1..Len(drains) /\ running = Len(drains) /\ drains[running].thread = t
         /\ Top(t).at = "end" <=> drains[running].over
         /\ Top(t).at # "end" => Top(t).drain = running
         /\ StageFits(t, Top(t)) /\ (Top(t).raised => t = Main)
         /\ \A u \in Threads : \A i \in Positions(u) :
               ~(u = t /\ i = Len(stack[t])) => stack[u][i].at \notin Holding
  <1>1. Top(t) = stack[t][Len(stack[t])] /\ Len(stack[t]) \in Positions(t)
    BY TopFrame
  <1>2. Holder(t, Len(stack[t]))
    BY <1>1 DEF Holder
  <1>3. /\ running # 0 /\ drains[running].thread = t
        /\ Top(t).at = "end" <=> drains[running].over
        /\ Top(t).at # "end" => Top(t).drain = running
    BY <1>1, <1>2 DEF Control, HolderFits
  <1>4. running \in 1..Len(drains) /\ running = Len(drains)
    BY <1>3, RunningDrain DEF Control
  <1>5. StageFits(t, Top(t)) /\ (Top(t).raised => t = Main)
    BY <1>1 DEF Control, StagesFit, StackFits, CallFits
  <1>6. \A u \in Threads : \A i \in Positions(u) :
           ~(u = t /\ i = Len(stack[t])) => stack[u][i].at \notin Holding
    BY <1>1, <1>2 DEF Control, OneHolder, Holder
  <1> QED
    BY <1>3, <1>4, <1>5, <1>6

LEMMA HolderKeeps ==
  ASSUME IInv, NEW t \in Threads, NEW f \in FrameType, Becomes(t, f),
         Top(t).at \in Holding, f.at \in Holding, f.why = Top(t).why, f.raised = Top(t).raised,
         DrainsFollow, FlagStays, RestTyped', RecordsPass, DrainsFit',
         f.at = "end" <=> drains'[running].over, f.at # "end" => f.drain = running,
         StageFits(t, f)', OwedFit', InTimeAllAreTried', CountFits(f)'
  PROVE  IInv'
  <1>1. TypeOK /\ Control /\ TopIs(t, f) /\ TypedStack'
    BY BecomesFrames DEF IInv
  <1>2. /\ running # 0 /\ running \in 1..Len(drains) /\ drains[running].thread = t
        /\ Top(t).raised => t = Main
        /\ \A u \in Threads : \A i \in Positions(u) :
              ~(u = t /\ i = Len(stack[t])) => stack[u][i].at \notin Holding
    BY <1>1, HolderIsAlone
  <1>3. /\ Len(stack[t]) \in Positions(t) /\ \A u \in Threads : Positions(u)' = Positions(u)
        /\ stack'[t][Len(stack[t])] = f
        /\ \A u \in Threads : \A i \in Positions(u) :
              ~(u = t /\ i = Len(stack[t])) => stack'[u][i] = stack[u][i]
    BY <1>1, TopFrame DEF TopIs, Positions
  <1>4. TypeOK'
    BY <1>1 DEF TypeOK, TypedStack, RestTyped, RecordsPass, RecordsTyped, DrainsFollow, FlagStays
  <1>5. StackFits'
    <2>1. f.at # "app" /\ Top(t).at # "app"
      BY DEF Holding, Draining
    <2> QED
      BY <1>1, <1>2, <2>1, BecomesFits DEF Control
  <1>6. \A u \in Threads : \A i \in Positions(u)' :
           Holder(u, i)' => u = t /\ i = Len(stack[t])
    BY <1>2, <1>3 DEF Holder
  <1>7. Len(stack[t]) \in Positions(t)' /\ stack'[t][Len(stack[t])].at \in Holding
    BY <1>3
  <1>8. OneHolder'
    BY <1>6 DEF OneHolder
  <1>9. HolderFits'
    <2>1. running' # 0 /\ drains'[running'].thread = t
      BY <1>2 DEF DrainsFollow
    <2>2. /\ f.at = "end" <=> drains'[running'].over
          /\ f.at # "end" => f.drain = running'
      BY DEF DrainsFollow
    <2> QED
      BY <1>3, <1>6, <2>1, <2>2 DEF HolderFits
  <1>10. RunningIsHeld'
    <2>1. drains'[running'].thread = t
      BY <1>2 DEF DrainsFollow
    <2> QED
      BY <1>7, <2>1 DEF RunningIsHeld, Holder
  <1>11. StagesFit'
    <2> SUFFICES ASSUME NEW u \in Threads, NEW i \in Positions(u)'
                 PROVE  StageFits(u, stack[u][i])'
      BY DEF StagesFit
    <2>1. CASE u = t /\ i = Len(stack[t])
      BY <1>3, <2>1 DEF StageFits
    <2>2. CASE ~(u = t /\ i = Len(stack[t]))
      <3>1. stack'[u][i] = stack[u][i] /\ stack[u][i].at \notin Holding /\ StageFits(u, stack[u][i])
        BY <1>1, <1>2, <1>3, <2>2 DEF Control, StagesFit
      <3> QED
        BY <1>2, <3>1 DEF StageFits, Holding, Draining, DrainsFollow, FlagStays
    <2> QED
      BY <2>1, <2>2
  <1>12. CountsFit'
    <2> SUFFICES ASSUME NEW u \in Threads, NEW i \in Positions(u)'
                 PROVE  CountFits(stack[u][i])'
      BY DEF CountsFit
    <2>1. CASE u = t /\ i = Len(stack[t])
      BY <1>3, <2>1 DEF CountFits
    <2>2. CASE ~(u = t /\ i = Len(stack[t]))
      <3>1. stack'[u][i].at \notin Holding
        BY <1>2, <1>3, <2>2
      <3> QED
        BY <3>1 DEF CountFits, Holding, Draining, Dequeued, TakenOver, Built, Locking
    <2> QED
      BY <2>1, <2>2
  <1> QED
    BY <1>4, <1>5, <1>8, <1>9, <1>10, <1>11, <1>12 DEF IInv, Control, RecordsFit

\* The drains are the same ones, and a drain over is one that was.
DrainsHold ==
    /\ running' = running
    /\ drains' \in Seq(DrainType) /\ DrainsAge
    /\ \A d \in 1..Len(drains) : drains'[d].thread = drains[d].thread /\ drains'[d].over = drains[d].over

LEMMA DrainsSame ==
  ASSUME TypeOK, UNCHANGED drainVars
  PROVE  DrainsHold
  BY DEF DrainsHold, DrainsAge, TypeOK, drainVars

LEMMA GoesOnKeeps ==
  ASSUME IInv, NEW t \in Threads, NEW f \in FrameType, Becomes(t, f),
         Top(t).at \in Draining, f.at \in Draining \cup {"over"}, f.why = Top(t).why, f.raised = Top(t).raised,
         f.drain = Top(t).drain, DrainsHold, FlagStays, RestTyped', RecordsPass,
         StageFits(t, f)', CountFits(f)'
  PROVE  IInv'
  <1>1. TypeOK /\ Control /\ DrainsFit /\ RecordsFit /\ Top(t).at \in Holding /\ f.at \in Holding
    BY DEF IInv, Control, Holding
  <1>2. /\ running # 0 /\ running \in 1..Len(drains) /\ ~drains[running].over
        /\ Top(t).drain = running /\ Top(t).at # "end" /\ f.at # "end"
    BY <1>1, HolderIsAlone DEF Draining
  <1>3. DrainsFollow
    BY DEF DrainsFollow, DrainsHold, DrainsAge
  <1>4. DrainsFit'
    BY <1>1, <1>2 DEF DrainsFit, DrainsHold, DrainsAge, FlagStays
  <1>5. OwedFit' /\ InTimeAllAreTried'
    BY <1>1, OwedKept DEF DrainsHold
  <1>6. f.at = "end" <=> drains'[running].over
    BY <1>2 DEF DrainsHold
  <1>7. f.at # "end" => f.drain = running
    BY <1>2
  <1> QED
    BY <1>1, <1>3, <1>4, <1>5, <1>6, <1>7, HolderKeeps

\* What is not counted any more by a step that only goes on stays counted.
LEMMA CountGoesOn ==
  ASSUME IInv, NEW t \in Threads, Top(t).at \in Draining, UNCHANGED drainVars, RecordsMove,
         NEW f \in FrameType, CountFits(f), f.at # "in build"
  PROVE  CountFits(f)'
  <1>1. DrainsAge /\ running' = running /\ drains' = drains
    BY DEF DrainsAge, drainVars
  <1>2. running # 0
    BY HolderIsAlone DEF IInv, Holding
  <1> QED
    BY <1>1, <1>2, CountKept DEF IInv, Control, RecordsMove

LEMMA TopCounts ==
  ASSUME IInv, NEW t \in Threads
  PROVE  Top(t) \in FrameType /\ CountFits(Top(t))
  BY TopFrame DEF IInv, RecordsFit, CountsFit

LEMMA OwedWaitingIsQueued ==
  ASSUME IInv, running # 0, ~shutdown
  PROVE  /\ Queued(running) \subseteq At({"queued", "running"})
         /\ Cardinality(Queued(running)) <= Cardinality(At({"queued", "running"}))
         /\ Cardinality(At({"queued", "running"})) \in Nat
  <1>1. running \in 1..Len(drains)
    BY RunningDrain DEF IInv, Control
  <1>2. OwedAt(running, Waiting) \subseteq Records
    BY <1>1, OwedIsFinite DEF IInv
  <1>3. \A r \in Records : record[r] # "skipped"
    BY DEF IInv, RecordsFit, OwedFit
  <1>4. Queued(running) \subseteq At({"queued", "running"})
    BY <1>2, <1>3 DEF Queued, OwedAt, Waiting, At
  <1>5. IsFiniteSet(At({"queued", "running"}))
    BY FS_Subset, ExitAssumption DEF At
  <1> QED
    BY <1>4, <1>5, Shrinks DEF AtMost

LEMMA DrainQueueKeeps ==
  ASSUME IInv, NEW t \in Threads, DrainQueue(t)
  PROVE  IInv'
  <1>1. /\ UNCHANGED drainVars /\ AllStay /\ shutdown' = shutdown /\ UNCHANGED <<deferred, ended, budget>>
        /\ Top(t).at = "queue" /\ (At({"queued", "running"}) = {} \/ Late(t))
    BY DEF DrainQueue, On, AllStay, recordVars, taskVars, flagVars
  <1>2. /\ running # 0 /\ drains[running].thread = t /\ Top(t).drain = running
        /\ StageFits(t, Top(t)) /\ (Top(t).raised => t = Main)
    BY <1>1, HolderIsAlone DEF IInv, Holding, Draining
  <1>3. ~shutdown /\ ~drains[running].complete
    BY <1>1, <1>2 DEF StageFits, Draining
  <1>4. /\ Queued(running) \subseteq At({"queued", "running"})
        /\ Cardinality(Queued(running)) <= Cardinality(At({"queued", "running"}))
        /\ Cardinality(At({"queued", "running"})) \in Nat
    BY <1>2, <1>3, OwedWaitingIsQueued
  <1>5. PICK f \in FrameType : f = [Top(t) EXCEPT !.at = "take over", !.left = Cardinality(At({"queued", "running"}))]
    BY <1>4, TopCounts DEF FrameType, Draining
  <1>6. /\ f.at = "take over" /\ f.why = Top(t).why /\ f.raised = Top(t).raised
        /\ f.drain = Top(t).drain /\ f.left = Cardinality(At({"queued", "running"}))
    BY <1>5, TopCounts DEF FrameType
  <1>7. Becomes(t, f)
    BY <1>5 DEF DrainQueue
  <1>8. RecordsMove /\ FlagStays /\ RestTyped'
    BY <1>1, RecordsStay DEF FlagStays, RestTyped, IInv, TypeOK
  <1>9. CountFits(f)
    <2>1. ~drains[running].late => Queued(running) = {}
      BY <1>1, <1>2, <1>4 DEF Late
    <2> QED
      BY <1>4, <1>6, <2>1 DEF CountFits, TakenOver, Built, Locking
  <1>10. CountFits(f)'
    BY <1>1, <1>6, <1>8, <1>9, CountGoesOn DEF Draining
  <1>11. StageFits(t, f)'
    BY <1>1, <1>3, <1>6 DEF StageFits, Draining, drainVars
  <1>12. DrainsHold
    BY <1>1, DrainsSame DEF IInv
  <1> QED
    BY <1>1, <1>6, <1>7, <1>8, <1>10, <1>11, <1>12, GoesOnKeeps DEF Draining, RecordsMove

\* One drain changes, the others stay.
LEMMA DrainBecomes ==
  ASSUME TypeOK, NEW n \in 1..Len(drains), NEW g \in DrainType, drains' = [drains EXCEPT ![n] = g]
  PROVE  /\ drains' \in Seq(DrainType) /\ Len(drains') = Len(drains)
         /\ \A d \in 1..Len(drains) : drains'[d] = IF d = n THEN g ELSE drains[d]
  <1>1. drains \in Seq(DrainType) /\ DOMAIN drains = 1..Len(drains)
    BY DEF TypeOK
  <1>2. \A d \in 1..Len(drains) : drains'[d] = IF d = n THEN g ELSE drains[d]
    BY <1>1
  <1>3. drains' \in Seq(DrainType) /\ Len(drains') = Len(drains)
    BY <1>1
  <1> QED
    BY <1>1, <1>2, <1>3

\* What is taken over was unstarted, and what was being put back is known as missed.
LEMMA TakeOverKeeps ==
  ASSUME IInv, NEW t \in Threads, TakeOver(t)
  PROVE  IInv'
  <1> DEFINE rs == At({"overflow", "taken", "handed"})
  <1>1. /\ running' = running /\ shutdown' = shutdown /\ UNCHANGED <<adrift, deferred, ended, budget>>
        /\ exiting' = TRUE /\ record' = Put(rs, "taken over")
        /\ batch' = [u \in Threads |-> batch[u] \ At({"taken", "handed"})]
        /\ Top(t).at = "take over" /\ Goes(t, "overflow")
    BY DEF TakeOver, On, flagVars
  <1>2. /\ running # 0 /\ running \in 1..Len(drains) /\ Top(t).drain = running /\ StageFits(t, Top(t))
        /\ drains[running] \in DrainType
    BY <1>1, HolderIsAlone, RunningDrain DEF IInv, Control, Holding, Draining
  <1>3. ~shutdown /\ ~drains[running].complete /\ adrift = {}
    BY <1>1, <1>2 DEF StageFits, Draining, IInv, RecordsFit, OwedFit
  <1> DEFINE g == [drains[running] EXCEPT !.missed = At({"returning"})]
  <1>4. /\ g \in DrainType /\ g.thread = drains[running].thread /\ g.over = drains[running].over
        /\ g.late = drains[running].late /\ g.owes = drains[running].owes /\ g.complete = drains[running].complete
        /\ g.missed = At({"returning"})
    BY <1>2 DEF DrainType, At
  <1>5. drains' = [drains EXCEPT ![running] = g]
    BY <1>2 DEF TakeOver
  <1> HIDE DEF g
  <1>6. /\ drains' \in Seq(DrainType) /\ Len(drains') = Len(drains)
        /\ \A d \in 1..Len(drains) : drains'[d] = IF d = running THEN g ELSE drains[d]
    BY <1>2, <1>4, <1>5, DrainBecomes DEF IInv
  <1>7. DrainsHold
    BY <1>1, <1>3, <1>4, <1>6 DEF DrainsHold, DrainsAge
  <1>8. /\ record' \in [Records -> Places] /\ batch' \in [Threads -> SUBSET Records]
        /\ \A r \in Records : record'[r] = IF record[r] \in {"overflow", "taken", "handed"} THEN "taken over"
                                           ELSE record[r]
    BY <1>1 DEF IInv, TypeOK, Put, Places, Tasks, At
  <1>9. ASSUME NEW r \in Records
        PROVE  RecordMoves(r)
    BY <1>1, <1>3, <1>8 DEF RecordMoves, Waiting, Tried, Unstarted, BuildPlaces, IInv, RecordsFit, OwedFit
  <1>10. RecordsPass
    BY <1>1, <1>3, <1>8, <1>9 DEF RecordsPass, RecordsTyped, IInv, TypeOK
  <1>11. FlagStays /\ RestTyped'
    BY <1>1 DEF FlagStays, RestTyped, IInv, TypeOK
  <1>12. PICK f \in FrameType : f = Moved(t, "overflow")
    BY GoesIsMove DEF IInv, Steps
  <1>13. /\ f.at = "overflow" /\ f.why = Top(t).why /\ f.raised = Top(t).raised
         /\ f.drain = Top(t).drain /\ f.left = Top(t).left /\ Becomes(t, f)
    BY <1>1, <1>12, GoesIsMove, ZenonT(60) DEF IInv, Steps
  <1>14. StageFits(t, f)'
    BY <1>1, <1>2, <1>3, <1>4, <1>6, <1>13 DEF StageFits, Draining
  <1>15. /\ Queued(running)' \subseteq Queued(running)
         /\ Cardinality(Queued(running)') <= f.left
    <2>1. drains'[running].owes = drains[running].owes
      BY <1>2, <1>4, <1>6
    <2>2. Queued(running)' \subseteq Queued(running)
      BY <1>1, <1>2, <1>10, <2>1, QueuedShrinks DEF IInv, RecordsFit
    <2>3. Cardinality(Queued(running)) <= f.left /\ f.left \in Nat
      BY <1>1, <1>13, TopCounts DEF CountFits, Dequeued, FrameType
    <2> QED
      BY <1>2, <2>2, <2>3, Shrinks, AtMostBounds, StillOwedIsFinite DEF IInv
  <1>16. ~drains[running].late => Queued(running) = {}
    BY <1>1, TopCounts DEF CountFits, Dequeued
  <1>17. OwedAt(running, Unstarted)' \subseteq drains'[running].missed
    <2>0. drains'[running].owes = drains[running].owes /\ drains'[running].missed = At({"returning"})
      BY <1>2, <1>4, <1>6
    <2> SUFFICES ASSUME NEW r \in drains[running].owes, record'[r] \in Unstarted
                 PROVE  r \in At({"returning"})
      BY <1>1, <2>0 DEF OwedAt
    <2>1. r \in Records
      BY <1>2, OwedIsFinite DEF IInv
    <2> QED
      BY <1>8, <2>1 DEF At, Unstarted
  <1>18. drains'[running].late = drains[running].late
    BY <1>2, <1>4, <1>6
  <1>19. CountFits(f)'
    BY <1>1, <1>13, <1>15, <1>16, <1>17, <1>18 DEF CountFits, Built, Locking
  <1> QED
    BY <1>1, <1>7, <1>10, <1>11, <1>13, <1>14, <1>19, GoesOnKeeps DEF Draining

LEMMA BuildOverflowKeeps ==
  ASSUME IInv, NEW t \in Threads, BuildOverflow(t)
  PROVE  IInv'
  <1>1. /\ UNCHANGED drainVars /\ shutdown' = shutdown /\ UNCHANGED <<deferred, ended, budget>>
        /\ UNCHANGED <<batch, exiting, adrift>> /\ record' = Put(At({"taken over"}), "overflow")
        /\ Top(t).at = "overflow" /\ (At({"taken over", "building"}) = {} \/ Late(t))
    BY DEF BuildOverflow, On, taskVars, flagVars
  <1>2. /\ running # 0 /\ running \in 1..Len(drains) /\ Top(t).drain = running /\ StageFits(t, Top(t))
    BY <1>1, HolderIsAlone DEF IInv, Holding, Draining
  <1>3. ~shutdown /\ ~drains[running].complete
    BY <1>1, <1>2 DEF StageFits, Draining
  <1>4. /\ record' \in [Records -> Places]
        /\ \A r \in Records : record'[r] = IF record[r] = "taken over" THEN "overflow" ELSE record[r]
    BY <1>1 DEF IInv, TypeOK, Put, Places, Tasks, At
  <1>5. ASSUME NEW r \in Records
        PROVE  RecordMoves(r)
    <2>1. CASE record[r] = "taken over"
      <3>1. ~Counting
        BY <1>3, CountingIsLate DEF IInv
      <3> QED
        BY <1>1, <1>3, <1>4, <2>1, <3>1 DEF RecordMoves, Waiting, Tried, Unstarted
    <2>2. CASE record[r] # "taken over"
      BY <1>1, <1>3, <1>4, <2>2 DEF RecordMoves, IInv, RecordsFit, OwedFit
    <2> QED
      BY <2>1, <2>2
  <1>6. RecordsPass
    BY <1>1, <1>3, <1>4, <1>5 DEF RecordsPass, RecordsTyped, IInv, TypeOK, RecordsFit, OwedFit
  <1>7. FlagStays /\ RestTyped' /\ DrainsHold
    BY <1>1, DrainsSame DEF FlagStays, RestTyped, IInv, TypeOK
  <1>8. PICK f \in FrameType : f = Moved(t, "flag")
    BY GoesIsMove DEF IInv, Steps
  <1>9. /\ f.at = "flag" /\ f.why = Top(t).why /\ f.raised = Top(t).raised
        /\ f.drain = Top(t).drain /\ f.left = Top(t).left /\ Becomes(t, f)
    BY <1>8, GoesIsMove, ZenonT(60) DEF IInv, Steps, BuildOverflow
  <1>10. StageFits(t, f)'
    BY <1>1, <1>3, <1>9 DEF StageFits, Draining, drainVars
  <1>11. /\ Cardinality(Queued(running)) <= f.left /\ f.left \in Nat
         /\ exiting /\ running' = running /\ drains' = drains
         /\ ~drains[running].late => /\ Queued(running) = {}
                                     /\ OwedAt(running, Unstarted) \subseteq drains[running].missed
    BY <1>1, <1>9, TopCounts DEF CountFits, Dequeued, TakenOver, FrameType, drainVars
  <1>12. Queued(running)' \subseteq Queued(running) /\ Cardinality(Queued(running)') <= f.left
    <2>1. Queued(running)' \subseteq Queued(running)
      BY <1>2, <1>6, <1>11, QueuedShrinks DEF IInv, RecordsFit
    <2> QED
      BY <1>2, <1>11, <2>1, Shrinks, AtMostBounds, StillOwedIsFinite DEF IInv
  <1>13. ASSUME ~drains[running].late
         PROVE  /\ OwedAt(running, Unstarted)' \subseteq drains[running].missed
                /\ \A r \in Records : record'[r] # "building"
    <2>1. \A r \in Records : record[r] \notin {"taken over", "building"}
      BY <1>1, <1>2, <1>13 DEF At, Late
    <2>2. \A r \in Records : record'[r] = record[r]
      BY <1>4, <2>1
    <2>3. drains[running].owes \subseteq Records
      BY <1>2, OwedIsFinite DEF IInv
    <2> QED
      BY <1>11, <1>13, <2>1, <2>2, <2>3 DEF OwedAt
  <1>14. CountFits(f)'
    BY <1>1, <1>4, <1>9, <1>11, <1>12, <1>13 DEF CountFits, Locking
  <1> QED
    BY <1>1, <1>6, <1>7, <1>9, <1>10, <1>14, GoesOnKeeps DEF Draining

LEMMA SetFlagKeeps ==
  ASSUME IInv, NEW t \in Threads, SetFlag(t)
  PROVE  IInv'
  <1>1. /\ UNCHANGED drainVars /\ AllStay /\ shutdown' = TRUE /\ UNCHANGED <<deferred, ended, budget>>
        /\ Top(t).at = "flag"
    BY DEF SetFlag, On, AllStay, recordVars, taskVars
  <1>2. StageFits(t, Top(t))
    BY <1>1, HolderIsAlone DEF IInv, Holding, Draining
  <1>3. PICK f \in FrameType : f = Moved(t, "lock")
    BY GoesIsMove DEF IInv, Steps
  <1>4. /\ f.at = "lock" /\ f.why = Top(t).why /\ f.raised = Top(t).raised
        /\ f.drain = Top(t).drain /\ f.left = Top(t).left /\ Becomes(t, f)
    BY <1>3, GoesIsMove, ZenonT(60) DEF IInv, Steps, SetFlag
  <1>5. exiting /\ \A r \in Records : record[r] # "taken over"
    BY <1>1, TopCounts DEF CountFits, TakenOver, Built
  <1>6. RecordsMove /\ FlagStays /\ RestTyped' /\ DrainsHold
    BY <1>1, <1>5, RecordsStay, DrainsSame DEF FlagStays, RestTyped, IInv, TypeOK
  <1>7. CountFits(f)
    <2>1. adrift = {}
      BY <1>1, <1>2 DEF StageFits, IInv, RecordsFit, OwedFit
    <2> QED
      BY <1>1, <1>4, <2>1, TopCounts DEF CountFits, Dequeued, TakenOver, Built, Locking
  <1>8. CountFits(f)'
    BY <1>1, <1>4, <1>6, <1>7, CountGoesOn DEF Draining
  <1>9. StageFits(t, f)'
    BY <1>1, <1>2, <1>4 DEF StageFits, Draining, drainVars
  <1> QED
    BY <1>1, <1>4, <1>6, <1>8, <1>9, GoesOnKeeps DEF Draining, RecordsMove

\* A step of the drain after the flag, up to its counts.
LEMMA LockingGoesKeeps ==
  ASSUME IInv, NEW t \in Threads, Top(t).at \in {"lock", "flush"}, NEW at \in {"flush", "remaining"}, Goes(t, at),
         UNCHANGED drainVars, shutdown' = shutdown, UNCHANGED <<deferred, ended, budget>>, RecordsMove
  PROVE  IInv'
  <1>1. StageFits(t, Top(t))
    BY HolderIsAlone DEF IInv, Holding, Draining
  <1>2. PICK f \in FrameType : f = Moved(t, at)
    <2>1. at \in Steps /\ TypeOK
      BY DEF IInv, Steps
    <2> QED
      BY <2>1, GoesIsMove
  <1>3. /\ f.at = at /\ f.why = Top(t).why /\ f.raised = Top(t).raised
        /\ f.drain = Top(t).drain /\ f.left = Top(t).left /\ Becomes(t, f)
    <2>1. at \in Steps /\ TypeOK
      BY DEF IInv, Steps
    <2> QED
      BY <1>2, <2>1, GoesIsMove
  <1>4. FlagStays /\ RestTyped' /\ DrainsHold
    BY DrainsSame DEF FlagStays, RestTyped, IInv, TypeOK
  <1>5. CountFits(f)
    BY <1>3, TopCounts DEF CountFits, Dequeued, TakenOver, Built, Locking
  <1>6. CountFits(f)'
    BY <1>3, <1>5, CountGoesOn DEF Draining
  <1>7. StageFits(t, f)'
    BY <1>1, <1>3 DEF StageFits, Draining, drainVars
  <1> QED
    BY <1>3, <1>4, <1>6, <1>7, GoesOnKeeps DEF Draining, RecordsMove

LEMMA TakeLockKeeps ==
  ASSUME IInv, NEW t \in Threads, TakeLock(t)
  PROVE  IInv'
  <1>1. /\ UNCHANGED drainVars /\ AllStay /\ shutdown' = shutdown /\ UNCHANGED <<deferred, ended, budget>>
        /\ Top(t).at = "lock" /\ Goes(t, "flush")
    BY DEF TakeLock, On, AllStay, recordVars, taskVars, flagVars
  <1>2. RecordsMove
    BY <1>1, RecordsStay
  <1> QED
    BY <1>1, <1>2, LockingGoesKeeps

LEMMA SkipFlushKeeps ==
  ASSUME IInv, NEW t \in Threads, SkipFlush(t)
  PROVE  IInv'
  <1>1. /\ UNCHANGED drainVars /\ AllStay /\ shutdown' = shutdown /\ UNCHANGED <<deferred, ended, budget>>
        /\ Top(t).at = "lock" /\ Goes(t, "remaining")
    BY DEF SkipFlush, On, AllStay, recordVars, taskVars, flagVars
  <1>2. RecordsMove
    BY <1>1, RecordsStay
  <1> QED
    BY <1>1, <1>2, LockingGoesKeeps

LEMMA ReplayKeeps ==
  ASSUME IInv, NEW t \in Threads, Replay(t)
  PROVE  IInv'
  <1>1. FlushStays /\ stack' = stack /\ adrift' = adrift /\ batch' = batch
    BY DEF Replay, FlushStays, DrainsStay, taskVars, drainVars, flagVars, IInv, TypeOK, RestTyped
  <1>2. PICK sending \in SUBSET At({"held"}) : record' = Put(sending, "sending")
    BY DEF Replay
  <1>3. sending \in SUBSET Records /\ \A r \in sending : record[r] = "held"
    BY DEF At
  <1>4. batch' \in [Threads -> SUBSET Records]
    BY <1>1 DEF IInv, TypeOK
  <1>5. RecordsMove
    BY <1>1, <1>2, <1>3, <1>4, PutMoves DEF FlushStays, Hops, Places
  <1> QED
    BY <1>1, <1>5, StackStayKeeps DEF FlushStays

LEMMA EndFlushKeeps ==
  ASSUME IInv, NEW t \in Threads, EndFlush(t)
  PROVE  IInv'
  <1>1. /\ UNCHANGED drainVars /\ UNCHANGED <<batch, exiting, adrift>> /\ shutdown' = shutdown
        /\ UNCHANGED <<deferred, ended, budget>> /\ Top(t).at = "flush" /\ Goes(t, "remaining")
    BY DEF EndFlush, On, taskVars, flagVars
  <1>2. PICK delivered \in SUBSET At({"sending"}) : record' = SentOf(delivered)
    BY DEF EndFlush
  <1>3. batch' \in [Threads -> SUBSET Records] /\ DrainsStay
    BY <1>1 DEF IInv, TypeOK, DrainsStay, drainVars
  <1>4. RecordsMove
    BY <1>1, <1>2, <1>3, SentMoves
  <1> QED
    BY <1>1, <1>4, LockingGoesKeeps

\* An exception in the drain runs its finally: there is no warning, and none is needed.
LEMMA UnwindDrainKeeps ==
  ASSUME IInv, Unwind, Top(Main).at \in Draining
  PROVE  IInv'
  <1>1. /\ UNCHANGED drainVars /\ record' = GivenBack /\ batch' = Abandoned /\ UNCHANGED <<exiting, adrift>>
        /\ shutdown' = shutdown /\ UNCHANGED <<deferred, ended, budget>>
        /\ Top(Main).raised /\ Goes(Main, "over") /\ Main \in Threads
    BY DEF Unwind, flagVars, Threads
  <1>2. StageFits(Main, Top(Main))
    BY <1>1, HolderIsAlone DEF IInv, Holding
  <1>3. ~drains[running].complete
    BY <1>2 DEF StageFits
  <1>4. PICK f \in FrameType : f = Moved(Main, "over")
    BY <1>1, GoesIsMove DEF IInv, Steps
  <1>5. /\ f.at = "over" /\ f.why = Top(Main).why /\ f.raised = Top(Main).raised
        /\ f.drain = Top(Main).drain /\ Becomes(Main, f)
    BY <1>1, <1>4, GoesIsMove DEF IInv, Steps
  <1>6. FlagStays /\ RestTyped'
    BY <1>1 DEF FlagStays, RestTyped, IInv, TypeOK
  <1>7. RecordsPass
    BY <1>1, GivenBackMoves DEF DrainsStay, RecordsMove, drainVars
  <1>8. CountFits(f)' /\ StageFits(Main, f)'
    BY <1>1, <1>3, <1>5 DEF CountFits, Dequeued, TakenOver, Built, Locking, StageFits, Draining, drainVars
  <1>9. DrainsHold
    BY <1>1, DrainsSame DEF IInv
  <1> QED
    BY <1>1, <1>5, <1>6, <1>7, <1>8, <1>9, GoesOnKeeps

LEMMA DrainCompletes ==
  ASSUME TypeOK, NEW n \in 1..Len(drains), drains' = [drains EXCEPT ![n].complete = TRUE]
  PROVE  /\ drains' \in Seq(DrainType) /\ Len(drains') = Len(drains)
         /\ \A d \in 1..Len(drains) :
               /\ drains'[d].thread = drains[d].thread /\ drains'[d].over = drains[d].over
               /\ drains'[d].late = drains[d].late /\ drains'[d].owes = drains[d].owes
               /\ drains'[d].missed = drains[d].missed
               /\ d # n => drains'[d].complete = drains[d].complete
  <1> DEFINE g == [drains[n] EXCEPT !.complete = TRUE]
  <1>1. drains[n] \in DrainType
    BY DEF TypeOK
  <1>2. /\ g \in DrainType /\ g.thread = drains[n].thread /\ g.over = drains[n].over
        /\ g.late = drains[n].late /\ g.owes = drains[n].owes /\ g.missed = drains[n].missed
    BY <1>1 DEF DrainType
  <1>3. drains' = [drains EXCEPT ![n] = g]
    OBVIOUS
  <1> HIDE DEF g
  <1>4. /\ drains' \in Seq(DrainType) /\ Len(drains') = Len(drains)
        /\ \A d \in 1..Len(drains) : drains'[d] = IF d = n THEN g ELSE drains[d]
    BY <1>2, <1>3, DrainBecomes
  <1>5. ASSUME NEW d \in 1..Len(drains)
        PROVE  /\ drains'[d].thread = drains[d].thread /\ drains'[d].over = drains[d].over
               /\ drains'[d].late = drains[d].late /\ drains'[d].owes = drains[d].owes
               /\ drains'[d].missed = drains[d].missed
               /\ d # n => drains'[d].complete = drains[d].complete
    <2>1. CASE d = n
      BY <1>2, <1>4, <2>1, Zenon
    <2>2. CASE d # n
      <3>1. drains'[d] = drains[d]
        BY <1>4, <2>2, Zenon
      <3> QED
        BY <3>1, Zenon
    <2> QED
      BY <2>1, <2>2, Zenon
  <1> QED
    BY <1>4, <1>5, Zenon

LEMMA SumBounds ==
  ASSUME NEW S, NEW T, NEW N, IsFiniteSet(S), IsFiniteSet(T), N \subseteq S \cup T,
         NEW n \in Nat, Cardinality(S) <= n
  PROVE  Cardinality(N) <= n + Cardinality(T)
  <1>1. /\ IsFiniteSet(S \cup T)
        /\ Cardinality(S \cup T) = Cardinality(S) + Cardinality(T) - Cardinality(S \cap T)
    BY FS_Union
  <1>2. Cardinality(S \cap T) \in Nat /\ Cardinality(S) \in Nat /\ Cardinality(T) \in Nat
    BY FS_Intersection, FS_CardinalityType
  <1>3. AtMost(N, S \cup T)
    BY <1>1, Shrinks
  <1> QED
    BY <1>1, <1>2, <1>3 DEF AtMost

\* The first count: what is owed and in no build was counted waiting, is held by the buffer
\* now, or is being put back.
LEMMA CountRemainingKeeps ==
  ASSUME IInv, NEW t \in Threads, CountRemaining(t)
  PROVE  IInv'
  <1>1. /\ UNCHANGED drainVars /\ running' = running /\ drains' = drains /\ UNCHANGED <<record, batch, exiting>>
        /\ adrift' = adrift \cup At({"returning"})
        /\ shutdown' = shutdown /\ UNCHANGED <<deferred, ended, budget>> /\ Top(t).at = "remaining"
    BY DEF CountRemaining, On, drainVars, flagVars
  <1>2. /\ running # 0 /\ running \in 1..Len(drains) /\ Top(t).drain = running /\ StageFits(t, Top(t))
        /\ TypeOK /\ OwedFit
    BY <1>1, HolderIsAlone DEF IInv, Holding, Draining, RecordsFit
  <1>3. shutdown /\ ~drains[running].complete
    BY <1>1, <1>2 DEF StageFits, Draining
  <1>4. Top(t) \in FrameType /\ CountFits(Top(t)) /\ Top(t).left \in Nat
    BY TopCounts DEF FrameType
  <1>5. Undelivered \subseteq Records /\ IsFiniteSet(Undelivered) /\ Cardinality(Undelivered) \in Nat
    <2>1. Undelivered \subseteq Records
      BY DEF Undelivered, At
    <2> QED
      BY <2>1, ExitAssumption, FS_Subset, FS_CardinalityType
  <1>6. PICK f \in FrameType : f = [Top(t) EXCEPT !.at = "in build", !.left = Top(t).left + Cardinality(Undelivered)]
    <2>1. Top(t).left + Cardinality(Undelivered) \in Nat
      BY <1>4, <1>5
    <2> QED
      BY <1>4, <2>1 DEF FrameType, Draining
  <1>7. /\ f.at = "in build" /\ f.why = Top(t).why /\ f.raised = Top(t).raised
        /\ f.drain = Top(t).drain /\ f.left = Top(t).left + Cardinality(Undelivered)
    BY <1>4, <1>6 DEF FrameType
  <1>8. Becomes(t, f)
    BY <1>6 DEF CountRemaining
  <1>9. FlagStays /\ RestTyped' /\ DrainsHold
    BY <1>1, <1>2, DrainsSame DEF FlagStays, RestTyped, TypeOK
  <1>10. ASSUME NEW r \in Records
         PROVE  RecordMoves(r)
    BY <1>1, <1>2, <1>3 DEF RecordMoves, OwedFit, At, Unstarted
  <1>11. RecordsPass
    <2>1. adrift' \subseteq Records
      BY <1>1, <1>2 DEF TypeOK, At
    <2> QED
      BY <1>1, <1>2, <1>3, <1>10, <2>1 DEF RecordsPass, RecordsTyped, TypeOK, OwedFit
  <1>12. Cardinality(Counted(running)') <= f.left
    <2>1. Counted(running)' \subseteq Queued(running) \cup Undelivered
      <3> SUFFICES ASSUME NEW r \in drains[running].owes, r \notin adrift', record[r] \notin BuildPlaces \cup {"sent"}
                   PROVE  r \in Queued(running) \cup Undelivered
        BY <1>1 DEF Counted, OwedAt
      <3>1. r \in Records /\ record[r] \in Places \ {"new", "refused"}
        BY <1>2, OwedIsAccepted
      <3>2. r \notin adrift /\ record[r] # "returning"
        BY <1>1, <3>1 DEF At
      <3>3. record[r] \in Waiting \cup {"overflow", "held", "sending"}
        BY <3>1, <3>2 DEF Places, Tasks, BuildPlaces, Waiting
      <3> QED
        BY <3>1, <3>2, <3>3 DEF Queued, OwedAt, Undelivered, At
    <2>2. IsFiniteSet(Queued(running))
      BY <1>2, StillOwedIsFinite
    <2>3. Cardinality(Queued(running)) <= Top(t).left
      BY <1>1, <1>4 DEF CountFits, Dequeued, TakenOver, Built, Locking
    <2>4. Cardinality(Counted(running)') <= Top(t).left + Cardinality(Undelivered)
      BY <1>4, <1>5, <2>1, <2>2, <2>3, SumBounds
    <2> QED
      BY <1>7, <2>4
  <1>13. /\ exiting /\ \A r \in Records : record[r] # "taken over"
         /\ ~drains[running].late => /\ Queued(running) = {}
                                     /\ OwedAt(running, Unstarted) \subseteq drains[running].missed
                                     /\ \A r \in Records : record[r] # "building"
                                     /\ drains[running].owes \cap adrift \subseteq drains[running].missed
    BY <1>1, <1>4 DEF CountFits, Dequeued, TakenOver, Built, Locking
  <1>14. ~drains[running].late => /\ Queued(running)' = {}
                                  /\ OwedAt(running, Unstarted)' \subseteq drains[running].missed
                                  /\ drains[running].owes \cap adrift' \subseteq drains[running].missed
    <2>1. Queued(running)' \subseteq Queued(running) /\ OwedAt(running, Unstarted)' = OwedAt(running, Unstarted)
      BY <1>1 DEF Queued, OwedAt
    <2>2. drains[running].owes \cap At({"returning"}) \subseteq OwedAt(running, Unstarted)
      BY DEF OwedAt, At, Unstarted
    <2> QED
      BY <1>1, <1>13, <2>1, <2>2
  <1>15. CountFits(f)'
    BY <1>1, <1>7, <1>12, <1>13, <1>14 DEF CountFits
  <1>16. StageFits(t, f)'
    BY <1>1, <1>3, <1>7 DEF StageFits, Draining
  <1> QED
    BY <1>1, <1>7, <1>8, <1>9, <1>11, <1>15, <1>16, GoesOnKeeps DEF Draining

\* The second count ends the drain: what is owed and not sent was in the first, is in a
\* build now, or moved past both, and a drain in time has tried what it did not miss.
LEMMA CountInBuildKeeps ==
  ASSUME IInv, NEW t \in Threads, CountInBuild(t)
  PROVE  IInv'
  <1>1. /\ running' = running /\ AllStay /\ UNCHANGED <<shutdown, deferred, ended, budget>> /\ Top(t).at = "in build"
        /\ TypeOK /\ Control /\ DrainsFit /\ RecordsFit
    BY DEF CountInBuild, On, AllStay, recordVars, taskVars, flagVars, IInv, Control
  <1>2. /\ running # 0 /\ running \in 1..Len(drains) /\ ~drains[running].over
        /\ Top(t).drain = running /\ StageFits(t, Top(t))
    BY <1>1, HolderIsAlone DEF Holding, Draining
  <1>3. Top(t) \in FrameType /\ CountFits(Top(t)) /\ Top(t).left \in Nat /\ shutdown
    BY <1>1, <1>2, TopCounts DEF FrameType, StageFits
  <1>4. InBuild \subseteq Records /\ IsFiniteSet(InBuild) /\ Cardinality(InBuild) \in Nat
    <2>1. InBuild \subseteq Records
      BY DEF InBuild, At
    <2> QED
      BY <2>1, ExitAssumption, FS_Subset, FS_CardinalityType
  <1>5. PICK f \in FrameType : f = [Top(t) EXCEPT !.at = "over", !.left = Top(t).left + Cardinality(InBuild)]
    <2>1. Top(t).left + Cardinality(InBuild) \in Nat
      BY <1>3, <1>4
    <2> QED
      BY <1>3, <2>1 DEF FrameType, Finishing
  <1>6. /\ f.at = "over" /\ f.why = Top(t).why /\ f.raised = Top(t).raised
        /\ f.drain = running /\ f.left = Top(t).left + Cardinality(InBuild)
    BY <1>2, <1>3, <1>5 DEF FrameType
  <1>7. Becomes(t, f)
    BY <1>5 DEF CountInBuild
  <1>8. /\ drains' \in Seq(DrainType) /\ Len(drains') = Len(drains)
        /\ \A d \in 1..Len(drains) :
              /\ drains'[d].thread = drains[d].thread /\ drains'[d].over = drains[d].over
              /\ drains'[d].late = drains[d].late /\ drains'[d].owes = drains[d].owes
              /\ drains'[d].missed = drains[d].missed
              /\ d # running => drains'[d].complete = drains[d].complete
    <2>1. drains' = [drains EXCEPT ![running].complete = TRUE]
      BY <1>2 DEF CountInBuild
    <2> QED
      BY <1>1, <1>2, <2>1, DrainCompletes
  <1>9. DrainsFollow /\ FlagStays /\ RestTyped'
    BY <1>1, <1>8 DEF DrainsFollow, FlagStays, RestTyped, TypeOK
  <1>10. DrainsFit'
    BY <1>1, <1>8 DEF DrainsFit
  <1>11. RecordsPass
    BY <1>1, RecordsStay DEF RecordsMove
  <1>12. OwedFit'
    BY <1>1, <1>8 DEF RecordsFit, OwedFit, OwedAt, AllStay
  <1>13. /\ Cardinality(Counted(running)) <= Top(t).left
         /\ ~drains[running].late => /\ Queued(running) = {}
                                     /\ OwedAt(running, Unstarted) \subseteq drains[running].missed
                                     /\ \A r \in Records : record[r] # "building"
                                     /\ drains[running].owes \cap adrift \subseteq drains[running].missed
         /\ \A r \in Records : record[r] # "taken over"
    BY <1>1, <1>3 DEF CountFits, Dequeued, TakenOver, Built, Locking
  <1>14. InTimeAllAreTried'
    <2> SUFFICES ASSUME NEW d \in 1..Len(drains), drains'[d].complete, ~drains[d].late,
                        NEW r \in drains[d].owes \ drains[d].missed
                 PROVE  record[r] \in {"sent", "held", "sending"}
      BY <1>1, <1>8 DEF InTimeAllAreTried, AllStay
    <2>1. CASE d # running
      BY <1>1, <1>8, <2>1 DEF RecordsFit, InTimeAllAreTried
    <2>2. CASE d = running
      <3>1. r \in Records /\ record[r] \in Places \ {"new", "refused"}
        BY <1>1, OwedIsAccepted DEF RecordsFit
      <3>2. r \notin adrift /\ record[r] \notin Unstarted \cup {"building", "taken over"}
        BY <1>13, <2>2, <3>1 DEF OwedAt
      <3>3. record[r] \notin Waiting
        BY <1>13, <2>2, <3>2 DEF Queued, OwedAt
      <3> QED
        BY <3>1, <3>2, <3>3 DEF Places, Tasks, Unstarted, Waiting
    <2> QED
      BY <2>1, <2>2
  <1>15. Cardinality(Unsent(running)') <= f.left
    <2>1. Unsent(running)' \subseteq Counted(running) \cup InBuild
      <3>0. Unseen(drains[running])' = Unseen(drains[running]) /\ drains'[running].owes = drains[running].owes
        BY <1>1, <1>2, <1>8 DEF Unseen, AllStay
      <3> SUFFICES ASSUME NEW r \in drains[running].owes, record[r] \in Places \ {"sent"}, r \notin Unseen(drains[running])
                   PROVE  r \in Counted(running) \cup InBuild
        BY <1>1, <3>0 DEF Unsent, OwedAt, AllStay
      <3>1. r \in Records
        BY <1>1, <1>2, OwedIsAccepted DEF RecordsFit
      <3>2. r \notin adrift
        BY <1>13, <3>1 DEF Unseen
      <3> QED
        BY <3>1, <3>2 DEF Counted, OwedAt, BuildPlaces, InBuild, At
    <2>2. IsFiniteSet(Counted(running))
      BY <1>1, <1>2, StillOwedIsFinite
    <2>3. Cardinality(Unsent(running)') <= Top(t).left + Cardinality(InBuild)
      BY <1>3, <1>4, <1>13, <2>1, <2>2, SumBounds
    <2> QED
      BY <1>6, <2>3
  <1>16. CountFits(f)'
    BY <1>1, <1>6, <1>15 DEF CountFits, Dequeued, TakenOver, Built, Locking
  <1>17. StageFits(t, f)'
    BY <1>1, <1>2, <1>3, <1>6 DEF StageFits, Draining
  <1>18. f.at \in Holding /\ Top(t).at \in Holding /\ f.at # "end" /\ ~drains'[running].over
    BY <1>1, <1>2, <1>6, <1>8 DEF Holding, Draining
  <1> QED
    BY <1>6, <1>7, <1>9, <1>10, <1>11, <1>12, <1>14, <1>16, <1>17, <1>18, HolderKeeps

LEMMA SetOverKeeps ==
  ASSUME IInv, NEW t \in Threads, SetOver(t)
  PROVE  IInv'
  <1>1. /\ running' = running /\ AllStay /\ UNCHANGED <<shutdown, deferred, ended, budget>>
        /\ Top(t).at = "over" /\ TypeOK /\ Control /\ DrainsFit /\ RecordsFit /\ Top(t) \in FrameType
    BY TopFrame DEF SetOver, AllStay, recordVars, taskVars, flagVars, IInv, Control
  <1>2. /\ running # 0 /\ running \in 1..Len(drains) /\ running = Len(drains) /\ drains[running].thread = t
        /\ Top(t).drain = running /\ StageFits(t, Top(t)) /\ drains[running] \in DrainType
        /\ Top(t).raised => t = Main
    BY <1>1, HolderIsAlone, RunningDrain DEF Holding
  <1> DEFINE g == [drains[running] EXCEPT !.over = TRUE]
  <1>3. /\ g \in DrainType /\ g.thread = drains[running].thread /\ g.over
        /\ g.late = drains[running].late /\ g.owes = drains[running].owes /\ g.complete = drains[running].complete
        /\ g.missed = drains[running].missed
    BY <1>2 DEF DrainType
  <1>4. drains' = [drains EXCEPT ![running] = g]
    BY <1>2 DEF SetOver
  <1> HIDE DEF g
  <1>5. /\ drains' \in Seq(DrainType) /\ Len(drains') = Len(drains)
        /\ \A d \in 1..Len(drains) : drains'[d] = IF d = running THEN g ELSE drains[d]
    BY <1>1, <1>2, <1>3, <1>4, DrainBecomes
  <1>6. DrainsAge
    BY <1>3, <1>5 DEF DrainsAge
  <1>7. DrainsFollow /\ FlagStays /\ RestTyped'
    BY <1>1, <1>3, <1>5 DEF DrainsFollow, FlagStays, RestTyped, TypeOK
  <1>8. drains[running].thread # Main => shutdown
    BY <1>1, <1>2 DEF StageFits
  <1>9. DrainsFit'
    BY <1>1, <1>2, <1>3, <1>5, <1>8 DEF DrainsFit
  <1>10. RecordsPass
    BY <1>1, RecordsStay DEF RecordsMove
  <1>11. OwedFit' /\ InTimeAllAreTried'
    BY <1>1, <1>6, <1>10, OwedKept
  <1>12. PICK f \in FrameType : f = [Top(t) EXCEPT !.at = "end", !.drain = 0, !.left = 0]
    BY <1>1 DEF FrameType, Finishing
  <1>13. f.at = "end" /\ f.why = Top(t).why /\ f.raised = Top(t).raised /\ Becomes(t, f)
    BY <1>1, <1>12 DEF FrameType, SetOver
  <1>14. CountFits(f)' /\ StageFits(t, f)'
    BY <1>1, <1>2, <1>13 DEF CountFits, Dequeued, TakenOver, Built, Locking, StageFits, Draining
  <1>15. drains'[running].over /\ Top(t).at \in Holding /\ f.at \in Holding
    BY <1>1, <1>2, <1>3, <1>5, <1>13 DEF Holding
  <1> QED
    BY <1>7, <1>9, <1>10, <1>11, <1>13, <1>14, <1>15, HolderKeeps

LEMMA EndDrainKeeps ==
  ASSUME IInv, NEW t \in Threads, EndDrain(t)
  PROVE  IInv'
  <1>1. /\ running' = 0 /\ drains' = drains /\ AllStay /\ UNCHANGED <<shutdown, deferred, ended, budget>>
        /\ Top(t).at = "end" /\ Goes(t, "deferred") /\ TypeOK /\ Control /\ StackFits
    BY DEF EndDrain, AllStay, recordVars, taskVars, flagVars, IInv, Control
  <1>2. /\ running \in 1..Len(drains) /\ drains[running].over
        /\ StageFits(t, Top(t)) /\ (Top(t).raised => t = Main)
        /\ \A u \in Threads : \A i \in Positions(u) :
              ~(u = t /\ i = Len(stack[t])) => stack[u][i].at \notin Holding
    BY <1>1, HolderIsAlone DEF Holding
  <1>3. PICK f \in FrameType : f = Moved(t, "deferred")
    BY <1>1, GoesIsMove DEF Steps
  <1>4. f.at = "deferred" /\ f.why = Top(t).why /\ f.raised = Top(t).raised /\ Becomes(t, f)
    BY <1>1, <1>3, GoesIsMove DEF Steps
  <1>5. TopIs(t, f) /\ TypedStack' /\ StackFits'
    BY <1>1, <1>2, <1>4, BecomesFrames, BecomesFits
  <1>6. /\ Len(stack[t]) \in Positions(t) /\ \A u \in Threads : Positions(u)' = Positions(u)
        /\ \A u \in Threads : \A i \in Positions(u) :
              stack'[u][i] = IF u = t /\ i = Len(stack[t]) THEN f ELSE stack[u][i]
    BY <1>1, <1>5, TopFrame DEF TopIs, Positions
  <1>7. TypeOK'
    BY <1>1, <1>5 DEF TypeOK, TypedStack, AllStay
  <1>8. \A u \in Threads : \A i \in Positions(u)' : stack'[u][i].at \notin Holding
    <2>1. f.at \notin Holding
      BY <1>4 DEF Holding, Draining
    <2> QED
      BY <1>2, <1>6, <2>1
  <1>9. OneHolder' /\ HolderFits' /\ RunningIsHeld'
    BY <1>1, <1>8 DEF OneHolder, HolderFits, RunningIsHeld, Holder
  <1>10. DrainsFit'
    BY <1>1, <1>2 DEF Control, DrainsFit
  <1>11. StagesFit'
    <2> SUFFICES ASSUME NEW u \in Threads, NEW i \in Positions(u)'
                 PROVE  StageFits(u, stack[u][i])'
      BY DEF StagesFit
    <2>1. stack'[u][i].at \notin Holding
      BY <1>8
    <2>2. CASE u = t /\ i = Len(stack[t])
      <3>1. stack'[u][i] = f
        BY <1>6, <2>2
      <3> QED
        BY <1>1, <1>2, <1>4, <3>1 DEF StageFits, Draining
    <2>3. CASE ~(u = t /\ i = Len(stack[t]))
      <3>1. stack'[u][i] = stack[u][i] /\ StageFits(u, stack[u][i])
        BY <1>1, <1>6, <2>3 DEF Control, StagesFit
      <3> QED
        BY <1>1, <2>1, <3>1 DEF StageFits, Holding, Draining
    <2> QED
      BY <2>2, <2>3
  <1>12. CountsFit'
    BY <1>8 DEF CountsFit, CountFits, Dequeued, TakenOver, Built, Locking, Holding, Draining
  <1>13. OwedFit' /\ InTimeAllAreTried'
    BY <1>1 DEF AllStay, IInv, RecordsFit, OwedFit, OwedAt, InTimeAllAreTried
  <1> QED
    BY <1>5, <1>7, <1>9, <1>10, <1>11, <1>12, <1>13 DEF IInv, Control, RecordsFit

LEMMA DeadlineKeeps ==
  ASSUME IInv, NEW n \in 1..Len(drains), Deadline(n)
  PROVE  IInv'
  <1>1. /\ UNCHANGED <<stack, running, shutdown, deferred, ended, budget>> /\ AllStay
        /\ drains' = [drains EXCEPT ![n].late = TRUE] /\ TypeOK /\ Control /\ DrainsFit /\ RecordsFit
    BY DEF Deadline, AllStay, recordVars, taskVars, flagVars, IInv, Control
  <1> DEFINE g == [drains[n] EXCEPT !.late = TRUE]
  <1>2. drains[n] \in DrainType
    BY <1>1 DEF TypeOK
  <1>3. /\ g \in DrainType /\ g.thread = drains[n].thread /\ g.over = drains[n].over
        /\ g.late /\ g.owes = drains[n].owes /\ g.complete = drains[n].complete /\ g.missed = drains[n].missed
    BY <1>2 DEF DrainType
  <1>4. drains' = [drains EXCEPT ![n] = g]
    BY <1>1
  <1> HIDE DEF g
  <1>5. /\ drains' \in Seq(DrainType) /\ Len(drains') = Len(drains)
        /\ \A d \in 1..Len(drains) : drains'[d] = IF d = n THEN g ELSE drains[d]
    BY <1>1, <1>3, <1>4, DrainBecomes
  <1>6. DrainsAge /\ \A d \in 1..Len(drains) :
           /\ drains'[d].thread = drains[d].thread /\ drains'[d].over = drains[d].over
           /\ drains'[d].missed = drains[d].missed
    BY <1>3, <1>5 DEF DrainsAge
  <1>7. RecordsPass /\ TasksStay
    BY <1>1, RecordsStay DEF RecordsMove
  <1>8. /\ OwedFit' /\ InTimeAllAreTried'
        /\ \A f \in FrameType : running # 0 /\ CountFits(f) /\ (f.at = "in build" => Counting) => CountFits(f)'
    <2>1. running # 0 => drains'[running].missed = drains[running].missed
      BY <1>1, <1>6, RunningDrain
    <2> QED
      BY <1>1, <1>6, <1>7, <2>1, OwedKept, CountKept
  <1>9. \A t \in Threads : \A i \in Positions(t) : Holder(t, i) => running \in 1..Len(drains)
    BY <1>1, RunningDrain DEF Control, HolderFits
  <1>10. TypeOK'
    BY <1>1, <1>5 DEF TypeOK, AllStay
  <1>11. StackFits' /\ OneHolder'
    BY <1>1 DEF Control, StackFits, CallFits, OneHolder, Holder, Positions
  <1>12. DrainsFit'
    BY <1>1, <1>6, <1>5 DEF DrainsFit
  <1>13. HolderFits'
    <2> SUFFICES ASSUME NEW t \in Threads, NEW i \in Positions(t), Holder(t, i)
                 PROVE  /\ running # 0 /\ drains'[running].thread = t
                        /\ stack[t][i].at = "end" <=> drains'[running].over
                        /\ stack[t][i].at # "end" => stack[t][i].drain = running
      BY <1>1 DEF HolderFits, Holder, Positions
    <2> QED
      BY <1>1, <1>6, <1>9 DEF Control, HolderFits
  <1>14. RunningIsHeld'
    <2> SUFFICES ASSUME running # 0
                 PROVE  \E i \in Positions(drains'[running].thread) : Holder(drains'[running].thread, i)
      BY <1>1 DEF RunningIsHeld, Holder, Positions
    <2>1. drains'[running].thread = drains[running].thread
      BY <1>1, <1>6, RunningDrain
    <2> QED
      BY <1>1, <2>1 DEF Control, RunningIsHeld
  <1>15. StagesFit'
    <2> SUFFICES ASSUME NEW t \in Threads, NEW i \in Positions(t)
                 PROVE  StageFits(t, stack[t][i])'
      BY <1>1 DEF StagesFit, Positions
    <2>1. stack' = stack /\ StageFits(t, stack[t][i])
      BY <1>1 DEF Control, StagesFit
    <2>2. stack[t][i].at \in Draining => drains'[running].complete = drains[running].complete
      BY <1>6, <1>9 DEF Holder, Holding, DrainsAge
    <2> QED
      BY <1>1, <1>5, <1>6, <2>1, <2>2 DEF StageFits
  <1>16. CountsFit'
    <2> SUFFICES ASSUME NEW t \in Threads, NEW i \in Positions(t)
                 PROVE  CountFits(stack[t][i])'
      BY <1>1 DEF CountsFit, Positions
    <2>1. CASE stack[t][i].at \notin Draining \cup {"over"}
      BY <1>1, <2>1 DEF CountFits, Dequeued, TakenOver, Built, Locking, Draining
    <2>2. CASE stack[t][i].at \in Draining \cup {"over"}
      <3>1. running # 0
        BY <1>1, <2>2 DEF Control, HolderFits, Holder, Holding
      <3>2. PICK f \in FrameType : f = stack[t][i]
        BY <1>1 DEF TypeOK, Positions
      <3>3. CountFits(f)
        BY <1>1, <3>2 DEF RecordsFit, CountsFit
      <3>4. f.at = "in build" => Counting
        BY <3>2, InBuildCounts
      <3>5. CountFits(f)'
        BY <1>8, <3>1, <3>3, <3>4
      <3> QED
        BY <1>1, <3>2, <3>5
    <2> QED
      BY <2>1, <2>2
  <1> QED
    BY <1>8, <1>10, <1>11, <1>12, <1>13, <1>14, <1>15, <1>16 DEF IInv, Control, RecordsFit

LEMMA NobodyHolds ==
  ASSUME Control, running = 0
  PROVE  \A u \in Threads : \A i \in Positions(u) : stack[u][i].at \notin Holding
  BY DEF Control, HolderFits, Holder

LEMMA StartDrainKeeps ==
  ASSUME IInv, NEW t \in Threads, StartDrain(t)
  PROVE  IInv'
  <1> DEFINE n == Len(drains) + 1
             g == [thread |-> t, over |-> FALSE, late |-> FALSE, complete |-> FALSE,
                   owes |-> At({"queued", "running", "held", "sending"} \cup Tasks), missed |-> {}]
  <1>1. /\ running = 0 /\ ~shutdown /\ running' = n /\ drains' = Append(drains, g)
        /\ UNCHANGED <<shutdown, deferred, ended, budget>> /\ AllStay /\ Top(t).at = "inside"
        /\ Becomes(t, [Top(t) EXCEPT !.at = "queue", !.drain = n])
    BY DEF StartDrain, On, AllStay, recordVars, taskVars, flagVars
  <1>2. TypeOK /\ Control /\ StackFits /\ DrainsFit /\ RecordsFit /\ Top(t) \in FrameType
    BY TopFrame DEF IInv, Control
  <1>3. /\ g \in DrainType /\ g.thread = t /\ ~g.over /\ ~g.complete
        /\ g.owes = At({"queued", "running", "held", "sending"} \cup Tasks)
    BY DEF DrainType, At
  <1> HIDE DEF g
  <1>4. /\ drains' \in Seq(DrainType) /\ Len(drains') = n /\ drains'[n] = g
        /\ \A d \in 1..Len(drains) : drains'[d] = drains[d]
    <2>1. drains \in Seq(DrainType)
      BY <1>2 DEF TypeOK
    <2> QED
      BY <1>1, <1>3, <2>1
  <1>5. n \in Nat \ {0} /\ 1..n = (1..Len(drains)) \cup {n} /\ Len(drains) \in Nat
    BY <1>2 DEF TypeOK
  <1> HIDE DEF n
  <1>6. PICK f \in FrameType : f = [Top(t) EXCEPT !.at = "queue", !.drain = n]
    BY <1>2, <1>5 DEF FrameType, Draining
  <1>7. f.at = "queue" /\ f.drain = n /\ f.why = Top(t).why /\ f.raised = Top(t).raised /\ Becomes(t, f)
    BY <1>1, <1>2, <1>6 DEF FrameType
  <1>8. TopIs(t, f) /\ TypedStack'
    BY <1>2, <1>7, BecomesFrames
  <1>9. StackFits'
    <2>1. CallFits(t, Len(stack[t]), Top(t))
      BY <1>2, TopFrame DEF StackFits
    <2>2. (f.raised => t = Main) /\ f.at # "app" /\ Top(t).at # "app"
      BY <1>1, <1>7, <2>1 DEF CallFits
    <2> QED
      BY <1>2, <1>7, <2>2, BecomesFits
  <1>10. /\ Len(stack[t]) \in Positions(t) /\ \A u \in Threads : Positions(u)' = Positions(u)
         /\ \A u \in Threads : \A i \in Positions(u) :
               stack'[u][i] = IF u = t /\ i = Len(stack[t]) THEN f ELSE stack[u][i]
    BY <1>2, <1>8, TopFrame DEF TopIs, Positions
  <1>11. TypeOK'
    BY <1>1, <1>2, <1>4, <1>5, <1>8 DEF TypeOK, TypedStack, AllStay
  <1>12. \A u \in Threads : \A i \in Positions(u)' :
            ~(u = t /\ i = Len(stack[t])) => stack'[u][i] = stack[u][i] /\ stack'[u][i].at \notin Holding
    BY <1>1, <1>2, <1>10, NobodyHolds
  <1>13. stack'[t][Len(stack[t])] = f /\ f.at \in Holding /\ Len(stack[t]) \in Positions(t)'
    BY <1>7, <1>10 DEF Holding, Draining
  <1>14. OneHolder'
    BY <1>12 DEF OneHolder, Holder
  <1>15. running' = n /\ n # 0 /\ drains'[n].thread = t /\ ~drains'[n].over /\ ~drains'[n].complete
    BY <1>1, <1>3, <1>4, <1>5
  <1>16. HolderFits'
    BY <1>7, <1>12, <1>13, <1>15 DEF HolderFits, Holder
  <1>17. RunningIsHeld'
    BY <1>13, <1>15 DEF RunningIsHeld, Holder
  <1>18. DrainsFit'
    <2>1. \A d \in 1..Len(drains) : drains[d].over /\ drains[d].thread = Main
      BY <1>1, <1>2, <1>5 DEF DrainsFit
    <2>2. \A d \in 1..Len(drains') :
             /\ drains'[d].over \/ d = n
             /\ drains'[d].thread # Main => d = n /\ (drains'[d].over => shutdown')
      BY <1>4, <1>5, <1>15, <2>1
    <2> QED
      BY <1>4, <1>5, <1>15, <2>2 DEF DrainsFit
  <1>19. StagesFit'
    <2> SUFFICES ASSUME NEW u \in Threads, NEW i \in Positions(u)'
                 PROVE  StageFits(u, stack[u][i])'
      BY DEF StagesFit
    <2>1. CASE u = t /\ i = Len(stack[t])
      BY <1>1, <1>7, <1>13, <1>15, <2>1 DEF StageFits
    <2>2. CASE ~(u = t /\ i = Len(stack[t]))
      <3>1. stack'[u][i] = stack[u][i] /\ StageFits(u, stack[u][i]) /\ stack[u][i].at \notin Holding
        BY <1>2, <1>10, <1>12, <2>2 DEF Control, StagesFit
      <3>2. stack[u][i].at = "deferred" => stack[u][i].raised
        BY <1>1, <3>1 DEF StageFits
      <3>3. stack[u][i].at = "wait" => /\ stack[u][i].drain \in 1..Len(drains')
                                       /\ drains'[stack[u][i].drain].thread # u
        BY <1>4, <1>5, <3>1 DEF StageFits
      <3> QED
        BY <3>1, <3>2, <3>3 DEF StageFits, Holding, Draining
    <2> QED
      BY <2>1, <2>2
  <1>20. OwedFit'
    <2>1. \A r \in drains'[n].owes : record'[r] \notin {"new", "refused"}
      BY <1>1, <1>3, <1>4 DEF At, AllStay, Tasks
    <2>2. \A d \in 1..Len(drains) : \A r \in drains'[d].owes : record'[r] \notin {"new", "refused"}
      BY <1>1, <1>2, <1>4 DEF RecordsFit, OwedFit, OwedAt, AllStay
    <2>3. \A d \in 1..Len(drains') : \A r \in drains'[d].owes : record'[r] \notin {"new", "refused"}
      BY <1>4, <1>5, <2>1, <2>2
    <2>4. /\ ~shutdown' => adrift' = {} /\ \A r \in Records : record'[r] # "skipped"
          /\ exiting' => \A r \in Records : record'[r] # "handed"
      BY <1>1, <1>2 DEF RecordsFit, OwedFit, AllStay
    <2> QED
      BY <1>1, <2>3, <2>4 DEF OwedFit, OwedAt
  <1>21. InTimeAllAreTried'
    BY <1>1, <1>2, <1>4, <1>5, <1>15 DEF RecordsFit, InTimeAllAreTried, AllStay
  <1>22. CountsFit'
    <2> SUFFICES ASSUME NEW u \in Threads, NEW i \in Positions(u)'
                 PROVE  CountFits(stack[u][i])'
      BY DEF CountsFit
    <2>1. stack'[u][i].at \notin Dequeued \cup {"over"}
      BY <1>7, <1>12, <1>13, ZenonT(60) DEF Holding, Draining, Dequeued, TakenOver, Built, Locking
    <2> QED
      BY <2>1 DEF CountFits, Dequeued, TakenOver, Built, Locking
  <1> QED
    BY <1>9, <1>11, <1>14, <1>16, <1>17, <1>18, <1>19, <1>20, <1>21, <1>22 DEF IInv, Control, RecordsFit

-----------------------------------------------------------------------------
(* The invariant is inductive.                                                *)

LEMMA InitHolds ==
  ASSUME Init
  PROVE  IInv
  <1> DEFINE f == Frame("app", "app")
  <1>1. /\ f \in FrameType /\ f.at = "app" /\ f.why = "app" /\ ~f.raised
    BY FrameIsFrame
  <1>2. \A t \in Threads : stack[t] = <<f>>
    BY DEF Init
  <1>3. running = 0 /\ drains = <<>> /\ ~shutdown /\ ~deferred /\ ended = "no"
        /\ stack = [t \in Threads |-> <<f>>] /\ record = [r \in Records |-> "new"]
        /\ batch = [t \in Threads |-> {}] /\ ~exiting /\ exiting \in BOOLEAN /\ adrift = {}
        /\ budget = [signals |-> MaxSignals, interrupts |-> MaxInterrupts, calls |-> MaxCalls]
        /\ shutdown \in BOOLEAN /\ deferred \in BOOLEAN
    BY DEF Init
  <1> HIDE DEF f
  <1>4. /\ <<f>> \in Seq(FrameType) \ {<<>>} /\ Len(<<f>>) = 1 /\ <<f>>[1] = f
    BY <1>1
  <1>5. /\ drains \in Seq(DrainType) /\ Len(drains) = 0
    BY <1>3
  <1>6. TypeOK
    <2>1. budget \in [{"signals", "interrupts", "calls"} -> Nat]
      BY <1>3, ExitAssumption
    <2>2. record \in [Records -> Places]
      BY <1>3 DEF Places
    <2> QED
      BY <1>3, <1>4, <1>5, <2>1, <2>2 DEF TypeOK
  <1>7. ASSUME NEW t \in Threads, NEW i \in Positions(t)
        PROVE  i = 1 /\ stack[t][i] = f
    <2>1. Len(stack[t]) = 1 /\ stack[t][1] = f
      BY <1>2, <1>4
    <2>2. i = 1
      BY <2>1 DEF Positions
    <2> QED
      BY <2>1, <2>2
  <1>8. StackFits
    BY <1>1, <1>7 DEF StackFits, CallFits
  <1>9. DrainsFit
    BY <1>3, <1>5 DEF DrainsFit
  <1>10. OneHolder /\ HolderFits /\ RunningIsHeld
    BY <1>1, <1>3, <1>7 DEF OneHolder, HolderFits, RunningIsHeld, Holder, Holding, Draining
  <1>11. StagesFit /\ CountsFit
    BY <1>1, <1>7 DEF StagesFit, StageFits, CountsFit, CountFits, Dequeued, TakenOver, Built, Locking, Draining
  <1>12. OwedFit /\ InTimeAllAreTried
    BY <1>3, <1>5 DEF OwedFit, InTimeAllAreTried
  <1> QED
    BY <1>6, <1>8, <1>9, <1>10, <1>11, <1>12 DEF IInv, Control, RecordsFit

LEMMA StutterHolds ==
  ASSUME IInv, UNCHANGED vars
  PROVE  IInv'
  <1>1. DrainsStay /\ AllStay /\ stack' = stack /\ RestTyped'
    BY DEF vars, recordVars, taskVars, drainVars, flagVars, DrainsStay, AllStay, RestTyped, IInv, TypeOK
  <1>2. RecordsMove
    BY <1>1, RecordsStay DEF DrainsStay
  <1> QED
    BY <1>1, <1>2, StackStayKeeps

LEMMA StepHolds ==
  ASSUME IInv, NEW t \in Threads, Step(t)
  PROVE  IInv'
  <1>1. CASE Ask(t)
    BY <1>1, EnterKeeps, JoinKeeps, AlreadyDrainedKeeps, StartDrainKeeps, AwaitKeeps DEF Ask
  <1>2. CASE Drain(t)
    BY <1>2, DrainQueueKeeps, TakeOverKeeps, BuildOverflowKeeps, SetFlagKeeps, TakeLockKeeps, SkipFlushKeeps,
       ReplayKeeps, EndFlushKeeps, CountRemainingKeeps, CountInBuildKeeps DEF Drain
  <1>3. CASE Finish(t)
    BY <1>3, SetOverKeeps, EndDrainKeeps, TerminateKeeps DEF Finish
  <1>4. CASE Flush(t)
    BY <1>4, CallTimesOutKeeps, FlushQueueKeeps, RegisterTasksKeeps, HandOverKeeps, AwaitBuildKeeps, PutBackKeeps,
       FlushTakesLockKeeps, FlushReplaysKeeps, FlushEndsKeeps DEF Flush
  <1> QED
    BY <1>1, <1>2, <1>3, <1>4 DEF Step

LEMMA NextHolds ==
  ASSUME IInv, [Next]_vars
  PROVE  IInv'
  <1>1. ASSUME NEW t \in Threads, CallExit(t) \/ CallFlush(t) \/ Step(t)
        PROVE  IInv'
    BY <1>1, CallExitKeeps, CallFlushKeeps, StepHolds
  <1>2. ASSUME NEW d \in 1..Len(drains), Deadline(d)
        PROVE  IInv'
    BY <1>2, DeadlineKeeps
  <1>3. CASE Signal \/ Interrupt
    BY <1>3, SignalKeeps, InterruptKeeps
  <1>4. CASE Unwind
    BY <1>4, UnwindDrainKeeps, UnwindQuietKeeps
  <1>5. ASSUME NEW r \in Records, Submit(r) \/ Run(r) \/ EndRun(r) \/ Begin(r) \/ EndBuild(r)
        PROVE  IInv'
    BY <1>5, SubmitKeeps, RunKeeps, EndRunKeeps, BeginKeeps, EndBuildKeeps
  <1>6. CASE UNCHANGED vars
    BY <1>6, StutterHolds
  <1> QED
    BY <1>1, <1>2, <1>3, <1>4, <1>5, <1>6 DEF Next

\* How the exit stands, with all its threads, holds in every state.
THEOREM ExitInvariant == Spec => []IInv
  <1>1. Init => IInv
    BY InitHolds
  <1>2. IInv /\ [Next]_vars => IInv'
    BY NextHolds
  <1> QED
    BY <1>1, <1>2, PTL DEF Spec

-----------------------------------------------------------------------------
(* What the invariant gives.                                                  *)

LEMMA TopStage ==
  ASSUME IInv, NEW t \in Threads
  PROVE  StageFits(t, Top(t))
  BY TopFrame DEF IInv, Control, StagesFit

LEMMA WaitsFit ==
  ASSUME IInv
  PROVE  NoMutualWait
  <1> SUFFICES ASSUME NEW t \in Threads, Top(t).at = "wait"
               PROVE  /\ drains[Top(t).drain].thread # t
                      /\ Top(drains[Top(t).drain].thread).at = "end" => drains[Top(t).drain].over
    BY DEF NoMutualWait
  <1>1. TypeOK /\ Control /\ DrainsFit
    BY DEF IInv, Control
  <1>2. Top(t).drain \in 1..Len(drains) /\ drains[Top(t).drain].thread # t
    BY TopStage DEF StageFits
  <1> DEFINE e == Top(t).drain
             u == drains[e].thread
  <1>3. ASSUME Top(u).at = "end", ~drains[e].over
        PROVE  FALSE
    <2>1. e = running
      BY <1>1, <1>2, <1>3 DEF DrainsFit
    <2>2. u \in Threads
      BY <1>1, <1>2, <2>1, RunningDrain DEF TypeOK
    <2>3. drains[running].over
      BY <1>1, <1>3, <2>2, HolderIsAlone DEF Holding
    <2> QED
      BY <1>3, <2>1, <2>3
  <1> QED
    BY <1>2, <1>3

LEMMA WarningFits ==
  ASSUME IInv
  PROVE  WarningCountsTheRest
  <1> SUFFICES ASSUME NEW t \in Threads, NEW i \in Positions(t),
                      stack[t][i].at = "over", drains[stack[t][i].drain].complete
               PROVE  LET d == drains[stack[t][i].drain]
                      IN  Cardinality({r \in d.owes \ Unseen(d) : record[r] # "sent"}) <= stack[t][i].left
    BY DEF WarningCountsTheRest, FramesOf, Positions
  <1>1. TypeOK /\ Control /\ CountsFit
    BY DEF IInv, RecordsFit
  <1>2. running # 0 /\ stack[t][i].drain = running
    BY <1>1 DEF Control, HolderFits, Holder, Holding
  <1>3. running \in 1..Len(drains)
    BY <1>1, <1>2, RunningDrain DEF Control
  <1>4. drains[running].owes \subseteq Records
    BY <1>1, <1>3, OwedIsFinite
  <1> DEFINE d == drains[running]
  <1>5. {r \in d.owes \ Unseen(d) : record[r] # "sent"} = Unsent(running)
    BY <1>1, <1>4 DEF Unsent, OwedAt, TypeOK
  <1>6. Cardinality(Unsent(running)) <= stack[t][i].left
    BY <1>1, <1>2 DEF CountsFit, CountFits
  <1> HIDE DEF d
  <1> QED
    BY <1>2, <1>5, <1>6 DEF d

\* Every drain is over or late, and there was one.
AllDrained == drains # <<>> /\ \A d \in 1..Len(drains) : drains[d].over \/ drains[d].late

LEMMA NoneRunsAllDrained ==
  ASSUME IInv, running = 0, shutdown
  PROVE  AllDrained
  <1>1. Len(drains) # 0 /\ \A d \in 1..Len(drains) : drains[d].over \/ d = 0
    BY DEF IInv, Control, DrainsFit
  <1>2. Len(drains) \in Nat
    BY DEF IInv, TypeOK
  <1>3. drains # <<>>
    BY <1>1
  <1> QED
    BY <1>1, <1>2, <1>3 DEF AllDrained

LEMMA JoinedGoesOn ==
  ASSUME IInv, ended = "no", NEW t \in Threads, Join(t)
  PROVE  ended' = "no"
  <1> SUFFICES ASSUME Underneath(t), Answer(t, FALSE), ended' # "no"
               PROVE  FALSE
    BY DEF Join
  <1>1. TypeOK /\ Control /\ Top(t).at = "inside" /\ running # 0 /\ drains[running].thread = t
    BY DEF IInv, Join, On, Underneath
  <1>2. Top(t).why = "atexit"
    <2>1. ended' # ended
      OBVIOUS
    <2>2. ended' \in {"terminated", "exited"} /\ Top(t).why \in {"handler", "atexit"} /\ ended' # "terminated"
      BY <1>1, <2>1, AnswerCases
    <2>3. CASE Top(t).why = "handler"
      BY <2>1, <2>3 DEF Answer
    <2> QED
      BY <2>2, <2>3
  <1>3. Len(stack[t]) = 2
    <2>1. CallFits(t, Len(stack[t]), Top(t))
      BY <1>1, TopFrame DEF Control, StackFits
    <2> QED
      BY <1>2, <2>1 DEF CallFits
  <1>4. PICK i \in Positions(t) : Holder(t, i)
    BY <1>1 DEF Control, RunningIsHeld
  <1>5. CASE i = 1
    BY <1>1, <1>4, <1>5 DEF Control, StackFits, CallFits, Holder, Holding, Draining
  <1>6. CASE i = 2
    BY <1>1, <1>3, <1>4, <1>6 DEF Top, Holder, Holding, Draining
  <1> QED
    BY <1>3, <1>4, <1>5, <1>6 DEF Positions

LEMMA AwaitedIsLast ==
  ASSUME IInv, ended = "no", ended' # "no", NEW t \in Threads, Await(t)
  PROVE  AllDrained
  <1>1. TypeOK /\ Control /\ DrainsFit /\ Top(t).at = "wait" /\ Answer(t, TRUE)
        /\ (drains[Top(t).drain].over \/ drains[Top(t).drain].late)
    BY DEF IInv, Control, Await, On
  <1>2. Top(t).why \in {"handler", "atexit"}
    BY <1>1, AnswerCases
  <1>3. t = Main
    BY <1>1, <1>2, TopFrame DEF Control, StackFits, CallFits
  <1>4. Top(t).drain \in 1..Len(drains) /\ drains[Top(t).drain].thread # Main
    BY <1>1, <1>3, TopStage DEF StageFits
  <1>5. Top(t).drain = Len(drains) /\ \A d \in 1..Len(drains) : drains[d].over \/ d = Len(drains)
    BY <1>1, <1>4 DEF DrainsFit
  <1>6. drains # <<>>
    BY <1>4
  <1> QED
    BY <1>1, <1>5, <1>6 DEF AllDrained

LEMMA TerminatedWhenDrained ==
  ASSUME IInv, ended = "no", ended' # "no", NEW t \in Threads, TerminateIfDeferred(t)
  PROVE  Top(Main).raised \/ AllDrained
  <1>1. Top(t).at = "deferred" /\ StageFits(t, Top(t)) /\ (Top(t).raised => t = Main)
    BY TopFrame DEF TerminateIfDeferred, IInv, Control, StagesFit, StackFits, CallFits
  <1>2. CASE Top(t).raised
    BY <1>1, <1>2
  <1>3. CASE ~Top(t).raised
    <2>1. running = 0 /\ shutdown
      BY <1>1, <1>3 DEF StageFits
    <2> QED
      BY <2>1, NoneRunsAllDrained
  <1> QED
    BY <1>2, <1>3

LEMMA EndsFit ==
  ASSUME IInv, [Next]_vars, ended = "no", ended' # "no"
  PROVE  Top(Main).raised \/ AllDrained
  <1>1. ended' # ended
    OBVIOUS
  <1>2. ASSUME NEW t \in Threads, Step(t)
        PROVE  Top(Main).raised \/ AllDrained
    <2>1. CASE Join(t)
      BY <2>1, JoinedGoesOn
    <2>2. CASE AlreadyDrained(t)
      BY <2>2, NoneRunsAllDrained DEF AlreadyDrained
    <2>3. CASE Await(t)
      BY <2>3, AwaitedIsLast
    <2>4. CASE TerminateIfDeferred(t)
      BY <2>4, TerminatedWhenDrained
    <2>5. CASE Enter(t) \/ StartDrain(t) \/ SetOver(t) \/ EndDrain(t)
      BY <1>1, <2>5 DEF Enter, StartDrain, SetOver, EndDrain
    <2>6. CASE Drain(t)
      BY <1>1, <2>6 DEF Drain, DrainQueue, TakeOver, BuildOverflow, SetFlag, TakeLock, SkipFlush, Replay, EndFlush,
                          CountRemaining, CountInBuild
    <2>7. CASE Flush(t)
      BY <1>1, <2>7 DEF Flush, CallTimesOut, FlushQueue, RegisterTasks, HandOver, AwaitBuild, PutBack,
                          FlushTakesLock, FlushReplays, FlushEnds
    <2> QED
      BY <1>2, <2>1, <2>2, <2>3, <2>4, <2>5, <2>6, <2>7 DEF Step, Ask, Finish
  <1>3. ASSUME NEW t \in Threads, CallExit(t) \/ CallFlush(t)
        PROVE  FALSE
    BY <1>1, <1>3 DEF CallExit, CallFlush
  <1>4. ASSUME NEW d \in 1..Len(drains), Deadline(d)
        PROVE  FALSE
    BY <1>1, <1>4 DEF Deadline
  <1>5. CASE Signal \/ Interrupt
    BY <1>1, <1>5 DEF Signal, Interrupt
  <1>6. CASE Unwind
    BY <1>6 DEF Unwind
  <1>7. ASSUME NEW r \in Records, Submit(r) \/ Run(r) \/ EndRun(r) \/ Begin(r) \/ EndBuild(r)
        PROVE  FALSE
    BY <1>1, <1>7 DEF Submit, Run, EndRun, Begin, EndBuild
  <1>8. CASE UNCHANGED vars
    BY <1>1, <1>8 DEF vars
  <1> QED
    BY <1>2, <1>3, <1>4, <1>5, <1>6, <1>7, <1>8 DEF Next

\* The types of the calls, the drains and the records hold in every state.
THEOREM ExitTypes == Spec => []TypeOK
  <1>1. IInv => TypeOK
    BY DEF IInv
  <1> QED
    BY <1>1, ExitInvariant, PTL

\* _start_or_join_exit_drain lets one drain run at a time, whatever signals interrupt it
\* and however many threads call handle_exit.
THEOREM OneDrainHolds == Spec => []OneDrain
  <1>1. IInv => OneDrain
    <2> SUFFICES ASSUME IInv, NEW t \in Threads, NEW u \in Threads, NEW i \in Positions(t), NEW j \in Positions(u),
                        stack[t][i].at \in Draining, stack[u][j].at \in Draining
                 PROVE  t = u /\ i = j
      BY DEF OneDrain, Positions
    <2> QED
      BY DEF IInv, Control, OneHolder, Holder, Holding
  <1> QED
    BY <1>1, ExitInvariant, PTL

\* drain_or_await_exit never waits for the drain underneath it, nor for one that needs
\* the exit lock to be over.
THEOREM NoMutualWaitHolds == Spec => []NoMutualWait
  <1>1. IInv => NoMutualWait
    BY WaitsFit
  <1> QED
    BY <1>1, ExitInvariant, PTL

\* The warning of _drain_within counts every record accepted before the drain that is
\* not sent when it ends, but for what its counts, taken one after the other while builds
\* and flushes go on, cannot see.
THEOREM WarningHolds == Spec => []WarningCountsTheRest
  <1>1. IInv => WarningCountsTheRest
    BY WarningFits
  <1> QED
    BY <1>1, ExitInvariant, PTL

\* A drain that ends before its deadline has tried every record accepted before it, but
\* for the tasks a flush was putting back when build_all_overflow took the others.
THEOREM InTimeHolds == Spec => []InTimeAllAreTried
  <1>1. IInv => InTimeAllAreTried
    BY DEF IInv, RecordsFit
  <1> QED
    BY <1>1, ExitInvariant, PTL

\* No answer of drain_or_await_exit, and no deferred signal, ends the process under a
\* drain that goes on and has time left.
THEOREM NotCutShortHolds == Spec => NotCutShort
  <1>1. IInv /\ [Next]_vars =>
          [ended = "no" /\ ended' # "no" =>
             Top(Main).raised \/
             /\ drains # <<>>
             /\ \A d \in 1..Len(drains) : drains[d].over \/ drains[d].late]_vars
    BY EndsFit DEF AllDrained
  <1> QED
    BY <1>1, ExitInvariant, PTL DEF Spec, NotCutShort

===============================================================================
