------------------------- MODULE RecordDeliveryProofs -------------------------
(***************************************************************************)
(* What TLAPS proves about the delivery of records, for every number of      *)
(* records, workers, tries and outages: the composition implements the       *)
(* circuit it uses, a record is stored once, and it is dropped only for what *)
(* it is.                                                                    *)
(***************************************************************************)
EXTENDS RecordDelivery, DeliveryCircuitProofs, FiniteSetTheorems

-----------------------------------------------------------------------------
(* The composition implements the circuit.                                   *)

\* A step of a worker is one step of the circuit, or none.
LEMMA WorkerRefines ==
  ASSUME NEW s \in Senders, Worker(s)
  PROVE  [Next]_vars
  <1>1. CASE \E r \in Records : TakeRecord(s, r)
    BY <1>1 DEF TakeRecord, Next
  <1>2. CASE Defer(s)
    BY <1>2 DEF Defer
  <1>3. CASE Send(s)
    BY <1>3 DEF Send
  <1>4. CASE Retry(s)
    BY <1>4 DEF Retry
  <1>5. CASE EndSend(s)
    <2>1. SendSucceeds(s) \/ SendFails(s) \/ SendRejected(s)
      BY <1>5 DEF EndSend
    <2> QED
      BY <2>1 DEF Next
  <1> QED
    BY <1>1, <1>2, <1>3, <1>4, <1>5 DEF Worker

\* So is a step of the flush thread.
LEMMA FlusherRefines == Flusher => [Next]_vars
  <1> SUFFICES ASSUME Flusher PROVE [Next]_vars
    OBVIOUS
  <1>1. CASE TakeBatch
    BY <1>1 DEF TakeBatch
  <1>2. CASE SettleBatch
    <2>1. ReplaySucceeds \/ ReplayFails \/ UNCHANGED vars
      BY <1>2 DEF SettleBatch
    <2> QED
      BY <2>1 DEF Next
  <1>3. CASE \E r \in Records : Build(r)
    BY <1>3 DEF Build
  <1> QED
    BY <1>1, <1>2, <1>3 DEF Flusher

\* Workers, flush thread, network and backend together do to the circuit only what its own
\* specification allows.
LEMMA StepRefines == [DeliveryNext]_deliveryVars => [Next]_vars
  <1> SUFFICES ASSUME [DeliveryNext]_deliveryVars PROVE [Next]_vars
    OBVIOUS
  <1>1. CASE \E r \in Records : Call(r)
    BY <1>1 DEF Call
  <1>2. CASE Workers
    BY <1>2, WorkerRefines DEF Workers
  <1>3. CASE Flusher
    BY <1>3, FlusherRefines
  <1>4. CASE TimesOut
    BY <1>4 DEF TimesOut, GiveUp
  <1>5. CASE Arrives
    BY <1>5 DEF Arrives, Arrive
  <1>6. CASE Works
    BY <1>6 DEF Works, Process
  <1>7. CASE \E m \in wire : Lose(m)
    BY <1>7 DEF Lose
  <1>8. CASE Outage \/ Recover
    BY <1>8 DEF Outage, Recover
  <1>9. CASE Time
    BY <1>9 DEF Time, Next
  <1>10. CASE UNCHANGED deliveryVars
    BY <1>10 DEF deliveryVars
  <1> QED
    BY <1>1, <1>2, <1>3, <1>4, <1>5, <1>6, <1>7, <1>8, <1>9, <1>10 DEF DeliveryNext

\* submit_ai_event, MeteringTask.run and the replays of the flush keep to the protocol of
\* DeliveryCircuit, so that whatever is proved of it holds of them.
THEOREM ImplementsCircuit == DeliverySpec => Spec
  <1>1. DeliveryInit => Init
    BY DEF DeliveryInit
  <1> QED
    BY <1>1, StepRefines, PTL DEF DeliverySpec, Spec

\* With real records, retries and replays around the circuit, probes are rationed and the
\* flag agrees with the counter.
THEOREM DeliveryRationsProbes == DeliverySpec => ProbesAreRationed /\ []OpenIffFailing
  BY ImplementsCircuit, ProbesRationed, FlagAgreesWithCounter, PTL

-----------------------------------------------------------------------------
(* Keys and answers.                                                         *)

Unbuilt == {"new", "queued", "overflowed", "deferred", "allowed"}
Built == {"sending", "held", "replaying", "delivered", "dropped"}
Message == [record : Records, key : Keys, live : BOOLEAN]

DeliveryType ==
    /\ place \in [Records -> Unbuilt \cup Built]
    /\ job \in [Senders -> Records \cup {None}]
    /\ issued \in Nat
    /\ key \in [Records -> Keys \cup {0}]
    /\ batch \subseteq At("replaying")
    /\ wire \subseteq Message
    /\ working \in [Keys -> Message \cup {None}]
    /\ stored \in [Keys -> Records \cup {None}]
    /\ answer \in [Records -> {"none", "ok", "error", "busy", "mismatch", "refused"}]
    /\ denied \subseteq Records

\* A record gets its key when it is built and there are as many keys as records.
Keyless == {r \in Records : key[r] = 0}
KeysAreCounted ==
    /\ issued + Cardinality(Keyless) = Cardinality(Records)
    /\ \A r \in Records : place[r] \in Unbuilt <=> key[r] = 0

\* No two records have one key, and the next one to be drawn is nobody's.
KeysAreOwn ==
    \A r \in Records : key[r] # 0 =>
        /\ key[r] <= issued
        /\ \A q \in Records : key[q] = key[r] => q = r

\* Whatever is on its way, in work or stored is so under its record's key.
UnderOwnKey ==
    /\ \A m \in wire : m.key = key[m.record]
    /\ \A k \in Keys : working[k] # None => working[k].key = k /\ key[working[k].record] = k
    /\ \A k \in Keys : stored[k] # None => key[stored[k]] = k

StoredOwn(r) == key[r] # 0 /\ stored[key[r]] = r

\* An answer says what the backend did with the record.
AnswersFit ==
    \A r \in Records :
        /\ answer[r] = "ok" => StoredOwn(r)
        /\ answer[r] # "mismatch"
        /\ answer[r] = "refused" => r \in denied

DeliveredIsStored == \A r \in Records : place[r] = "delivered" => StoredOwn(r)

DInv == /\ DeliveryType /\ KeysAreCounted /\ KeysAreOwn /\ UnderOwnKey
        /\ AnswersFit /\ DeliveredIsStored /\ DroppedIfDenied

LEMMA SizeOfRecords == Cardinality(Records) \in Nat /\ IsFiniteSet(Keyless) /\ Cardinality(Keyless) \in Nat
  BY RecordAssumption, FS_CardinalityType, FS_Subset DEF Keyless

\* Before the first call nothing has a key and nothing is on its way.
LEMMA DeliveryStarts == DeliveryInit => DInv
  <1> SUFFICES ASSUME DeliveryInit PROVE DInv
    OBVIOUS
  <1> USE DEF DeliveryInit
  <1>1. Keyless = Records
    BY DEF Keyless
  <1>2. DeliveryType
    BY DEF DeliveryType, Unbuilt, Built, At, Keys
  <1>3. KeysAreCounted
    BY <1>1, SizeOfRecords DEF KeysAreCounted, Unbuilt
  <1>4. KeysAreOwn /\ UnderOwnKey /\ AnswersFit /\ DeliveredIsStored /\ DroppedIfDenied
    BY DEF KeysAreOwn, UnderOwnKey, AnswersFit, DeliveredIsStored, DroppedIfDenied
  <1> QED
    BY <1>2, <1>3, <1>4 DEF DInv

\* next_idempotency_key gives a record a key that nobody has.
LEMMA DrawingKeepsOwn ==
  ASSUME DInv, NEW r \in Records, place[r] \in Unbuilt, DrawKey(r),
         place'[r] \in Built, \A q \in Records \ {r} : place'[q] \in Unbuilt <=> place[q] \in Unbuilt
  PROVE  /\ NextKey \in Keys /\ NextKey # 0
         /\ issued' \in Nat /\ key' \in [Records -> Keys \cup {0}]
         /\ key' = [key EXCEPT ![r] = NextKey]
         /\ KeysAreCounted' /\ KeysAreOwn'
  <1> USE DEF DInv, DeliveryType
  <1>1. key[r] = 0 /\ r \in Keyless
    BY DEF KeysAreCounted, Keyless
  <1>2. Keyless' = Keyless \ {r}
    BY <1>1 DEF Keyless, DrawKey, NextKey
  <1>3. Cardinality(Keyless') = Cardinality(Keyless) - 1
    BY <1>1, <1>2, SizeOfRecords, FS_RemoveElement
  <1>4. Cardinality(Keyless) # 0
    BY <1>1, SizeOfRecords, FS_EmptySet
  <1>5. NextKey \in Keys /\ NextKey # 0 /\ issued' = NextKey /\ issued' \in Nat
    BY <1>4, SizeOfRecords DEF NextKey, Keys, KeysAreCounted, DrawKey
  <1>6. key' = [key EXCEPT ![r] = NextKey] /\ key' \in [Records -> Keys \cup {0}]
    BY <1>5 DEF DrawKey
  <1>7. issued' + Cardinality(Keyless') = Cardinality(Records)
    BY <1>3, SizeOfRecords DEF KeysAreCounted, DrawKey
  <1>8. \A q \in Records : place'[q] \in Unbuilt <=> key'[q] = 0
    BY <1>5, <1>6 DEF KeysAreCounted, Unbuilt, Built
  <1>9. KeysAreOwn'
    BY <1>5, <1>6 DEF KeysAreOwn, NextKey, Keys
  <1> QED
    BY <1>5, <1>6, <1>7, <1>8, <1>9 DEF KeysAreCounted

\* Requests given up stay what they are, except that nobody waits for them.
LEMMA AbandonedStayOwn ==
  ASSUME DInv, NEW rs, Abandoned(rs), UNCHANGED <<key, stored>>
  PROVE  /\ wire' \subseteq Message /\ working' \in [Keys -> Message \cup {None}]
         /\ UnderOwnKey'
  <1> USE DEF DInv, DeliveryType, UnderOwnKey, Abandoned, Message
  <1>1. \A m \in wire : [m EXCEPT !.live = FALSE] \in Message /\ m \in Message
    OBVIOUS
  <1>2. wire' \subseteq Message /\ \A m \in wire' : m.key = key[m.record]
    BY <1>1
  <1>3. ASSUME NEW k \in Keys
        PROVE  /\ working'[k] \in Message \cup {None}
               /\ working'[k] # None => working'[k].key = k /\ key[working'[k].record] = k
    <2>1. CASE working[k] = None
      BY <2>1
    <2>2. CASE working[k] # None
      <3>1. working[k] \in Message
        BY <2>2
      <3>2. [working[k] EXCEPT !.live = FALSE] \in Message
        BY <3>1
      <3>3. working'[k] \in {working[k], [working[k] EXCEPT !.live = FALSE]}
        BY <2>2
      <3> QED
        BY <2>2, <3>1, <3>2, <3>3
    <2> QED
      BY <2>1, <2>2
  <1>4. working' \in [Keys -> Message \cup {None}]
    BY <1>3
  <1> QED
    BY <1>2, <1>3, <1>4

-----------------------------------------------------------------------------
(* What each step keeps.                                                     *)

\* Actions that move a record along, send nothing and draw no key.
LEMMA MovingKeeps ==
  ASSUME DInv, NEW r \in Records, NEW to \in Unbuilt \cup Built,
         to \in Unbuilt <=> place[r] \in Unbuilt,
         to = "delivered" => StoredOwn(r), to = "dropped" => r \in denied,
         place[r] # "replaying", Goes(r, to),
         job' \in [Senders -> Records \cup {None}],
         answer' \in {answer, [q \in Records |-> IF q = r THEN "none" ELSE answer[q]]},
         UNCHANGED <<issued, key, batch, wire, working, stored, denied>>
  PROVE  DInv'
  <1> USE DEF DInv, DeliveryType
  <1>1. DeliveryType'
    BY DEF Goes, At
  <1>2. KeysAreCounted'
    <2>1. Keyless' = Keyless
      BY DEF Keyless
    <2> QED
      BY <2>1 DEF KeysAreCounted, Goes
  <1>3. KeysAreOwn' /\ UnderOwnKey'
    BY DEF KeysAreOwn, UnderOwnKey
  <1>4. AnswersFit'
    BY DEF AnswersFit, StoredOwn
  <1>5. DeliveredIsStored' /\ DroppedIfDenied'
    BY DEF DeliveredIsStored, StoredOwn, DroppedIfDenied, Goes
  <1> QED
    BY <1>1, <1>2, <1>3, <1>4, <1>5

\* A record built into the buffer has its key and is nowhere else.
LEMMA BuildingKeeps ==
  ASSUME DInv, NEW r \in Records, place[r] \in Unbuilt, DrawKey(r), Goes(r, "held"),
         job' \in [Senders -> Records \cup {None}],
         UNCHANGED <<batch, backendVars>>
  PROVE  DInv'
  <1> USE DEF DInv, DeliveryType
  <1>1. place'[r] \in Built /\ \A q \in Records \ {r} : place'[q] \in Unbuilt <=> place[q] \in Unbuilt
    BY DEF Goes, Built
  <1>2. /\ issued' \in Nat /\ key' \in [Records -> Keys \cup {0}]
        /\ key' = [key EXCEPT ![r] = NextKey] /\ KeysAreCounted' /\ KeysAreOwn'
    BY <1>1, DrawingKeepsOwn
  <1>3. \A q \in Records : key[q] # 0 => key'[q] = key[q]
    BY <1>2 DEF KeysAreCounted
  <1>4. DeliveryType'
    BY <1>2 DEF Goes, At, Built, Unbuilt, backendVars
  <1>5. \A l \in Keys : l # 0
    BY DEF Keys
  <1>6. UnderOwnKey'
    BY <1>3, <1>5 DEF UnderOwnKey, Message, backendVars
  <1>7. AnswersFit'
    BY <1>3 DEF AnswersFit, StoredOwn, backendVars
  <1>8. DeliveredIsStored' /\ DroppedIfDenied'
    BY <1>3 DEF DeliveredIsStored, StoredOwn, DroppedIfDenied, Goes, backendVars
  <1> QED
    BY <1>2, <1>4, <1>6, <1>7, <1>8

\* A record that is posted goes out under its own key.
LEMMA PostingKeeps ==
  ASSUME DInv, NEW r \in Records, NEW k \in Keys, Post(r, k),
         KeysAreCounted', KeysAreOwn', key' \in [Records -> Keys \cup {0}],
         key'[r] = k, \A q \in Records \ {r} : key'[q] = key[q],
         key[r] = 0 \/ key[r] = k, issued' \in Nat,
         place' = [place EXCEPT ![r] = "sending"], place[r] # "replaying",
         UNCHANGED <<job, batch>>
  PROVE  DInv'
  <1> USE DEF DInv, DeliveryType, Post
  <1>1. Request(r, k) \in Message /\ Request(r, k).key = k /\ Request(r, k).record = r
    BY DEF Request, Message
  <1>2. wire' \subseteq Message
    BY <1>1
  <1>3. DeliveryType'
    BY <1>2 DEF At, Built
  <1>4. \A q \in Records : key[q] # 0 => key'[q] = key[q]
    OBVIOUS
  <1>5. \A m \in wire : m.record \in Records /\ m.key \in Keys /\ m.key # 0
    BY DEF Message, Keys
  <1>6. \A m \in wire' : m.key = key'[m.record]
    BY <1>1, <1>4, <1>5 DEF UnderOwnKey
  <1>7. \A l \in Keys : l # 0
    BY DEF Keys
  <1>8. \A l \in Keys : working[l] # None => working[l].key = l /\ key'[working[l].record] = l
    BY <1>4, <1>7 DEF UnderOwnKey, Message
  <1>9. \A l \in Keys : stored[l] # None => key'[stored[l]] = l
    BY <1>4, <1>7 DEF UnderOwnKey
  <1>10. UnderOwnKey'
    BY <1>6, <1>8, <1>9 DEF UnderOwnKey
  <1>11. AnswersFit'
    BY <1>4 DEF AnswersFit, StoredOwn
  <1>12. DeliveredIsStored' /\ DroppedIfDenied'
    BY <1>4 DEF DeliveredIsStored, StoredOwn, DroppedIfDenied
  <1> QED
    BY <1>3, <1>10, <1>11, <1>12

\* A worker's steps.
LEMMA WorkerKeeps ==
  ASSUME DInv, NEW s \in Senders, Worker(s)
  PROVE  DInv'
  <1>1. ASSUME NEW r \in Records, TakeRecord(s, r) PROVE DInv'
    <2>1. job' \in [Senders -> Records \cup {None}]
      BY <1>1 DEF TakeRecord, DInv, DeliveryType
    <2>2. PICK to \in {"allowed", "deferred"} : Goes(r, to)
      BY <1>1 DEF TakeRecord
    <2> QED
      BY <1>1, <2>1, <2>2, MovingKeeps DEF TakeRecord, Unbuilt, Built, backendVars
  <1>2. CASE Defer(s)
    <2> DEFINE r == job[s]
    <2>1. r \in Records /\ place[r] = "deferred" /\ DrawKey(r) /\ Goes(r, "held")
      BY <1>2 DEF Defer, DInv, DeliveryType
    <2>2. job' \in [Senders -> Records \cup {None}]
      BY <1>2 DEF Defer, DInv, DeliveryType
    <2> QED
      BY <1>2, <2>1, <2>2, BuildingKeeps DEF Defer, Unbuilt
  <1>3. CASE Send(s)
    <2> DEFINE r == job[s]
    <2>1. r \in Records /\ place[r] = "allowed" /\ DrawKey(r) /\ place' = [place EXCEPT ![r] = "sending"]
      BY <1>3 DEF Send, DInv, DeliveryType, Goes
    <2>2. place'[r] \in Built /\ \A q \in Records \ {r} : place'[q] \in Unbuilt <=> place[q] \in Unbuilt
      BY <2>1 DEF DInv, DeliveryType, Built
    <2>3. /\ NextKey \in Keys /\ issued' \in Nat /\ key' \in [Records -> Keys \cup {0}]
          /\ key' = [key EXCEPT ![r] = NextKey] /\ KeysAreCounted' /\ KeysAreOwn'
      BY <2>1, <2>2, DrawingKeepsOwn DEF Unbuilt
    <2>4. key[r] = 0
      BY <2>1 DEF DInv, KeysAreCounted, Unbuilt
    <2>5. key'[r] = NextKey /\ \A q \in Records \ {r} : key'[q] = key[q]
      BY <2>1, <2>3 DEF DInv, DeliveryType
    <2> QED
      BY <1>3, <2>1, <2>3, <2>4, <2>5, PostingKeeps DEF Send
  <1>4. CASE Retry(s)
    <2> DEFINE r == job[s]
    <2>1. r \in Records /\ place[r] = "sending" /\ Post(r, key[r]) /\ UNCHANGED <<place, issued, key, job, batch>>
      BY <1>4 DEF Retry, DInv, DeliveryType
    <2>2. key[r] \in Keys
      BY <2>1 DEF DInv, DeliveryType, KeysAreCounted, Unbuilt
    <2>3. KeysAreCounted' /\ KeysAreOwn' /\ key' \in [Records -> Keys \cup {0}] /\ issued' \in Nat
      BY <2>1 DEF DInv, DeliveryType, KeysAreCounted, KeysAreOwn, Keyless
    <2>4. place' = [place EXCEPT ![r] = "sending"]
      BY <2>1 DEF DInv, DeliveryType
    <2> QED
      BY <2>1, <2>2, <2>3, <2>4, PostingKeeps
  <1>5. CASE EndSend(s)
    <2> DEFINE r == job[s]
    <2>1. r \in Records /\ place[r] = "sending" /\ answer[r] # "none"
      BY <1>5 DEF EndSend, DInv, DeliveryType, Answered
    <2>2. job' \in [Senders -> Records \cup {None}]
      BY <1>5 DEF EndSend, DInv, DeliveryType
    <2>3. answer' = [q \in Records |-> IF q = r THEN "none" ELSE answer[q]]
      BY <1>5 DEF EndSend, Clear
    <2>4. PICK to \in {"delivered", "held", "dropped"} :
             /\ Goes(r, to)
             /\ to = "delivered" => answer[r] = "ok"
             /\ to = "dropped" => answer[r] \notin Retryable \cup {"ok"}
      BY <1>5 DEF EndSend
    <2>5. (to = "delivered" => StoredOwn(r)) /\ (to = "dropped" => r \in denied)
      BY <2>1, <2>4 DEF DInv, DeliveryType, AnswersFit, Retryable
    <2> QED
      BY <1>5, <2>1, <2>2, <2>3, <2>4, <2>5, MovingKeeps DEF EndSend, Unbuilt, Built
  <1> QED
    BY <1>1, <1>2, <1>3, <1>4, <1>5 DEF Worker

\* The flush thread's steps.
LEMMA FlusherKeeps == DInv /\ Flusher => DInv'
  <1> SUFFICES ASSUME DInv, Flusher PROVE DInv'
    OBVIOUS
  <1>1. ASSUME TakeBatch PROVE DInv'
    <2>1. PICK B \in SUBSET At("held") :
             /\ batch' = B
             /\ place' = [r \in Records |-> IF r \in B THEN "replaying" ELSE place[r]]
             /\ wire' = wire \cup {Request(r, ReplayKey(r)) : r \in B}
             /\ Clear(B)
      BY <1>1 DEF TakeBatch
    <2>2. UNCHANGED <<job, issued, key, working, stored, denied>> /\ batch = {}
      BY <1>1 DEF TakeBatch
    <2> USE <2>1, <2>2 DEF DInv, DeliveryType
    <2>3. \A r \in B : r \in Records /\ key[r] \in Keys /\ place[r] = "held"
      BY DEF At, KeysAreCounted, Unbuilt
    <2>4. wire' \subseteq Message /\ \A m \in wire' : m.key = key[m.record]
      <3>1. \A r \in B : /\ Request(r, ReplayKey(r)) \in Message
                         /\ Request(r, ReplayKey(r)).record = r
                         /\ Request(r, ReplayKey(r)).key = key[r]
        BY <2>3 DEF Message, Request, ReplayKey
      <3> QED
        BY <3>1 DEF UnderOwnKey
    <2>5. answer' \in [Records -> {"none", "ok", "error", "busy", "mismatch", "refused"}]
      BY DEF Clear
    <2>6. DeliveryType'
      BY <2>3, <2>4, <2>5 DEF At, Built
    <2>7. Keyless' = Keyless
      BY DEF Keyless
    <2>8. KeysAreCounted'
      BY <2>3, <2>7 DEF KeysAreCounted, Unbuilt
    <2>9. KeysAreOwn' /\ UnderOwnKey'
      BY <2>4 DEF KeysAreOwn, UnderOwnKey
    <2>10. AnswersFit' /\ DeliveredIsStored' /\ DroppedIfDenied'
      BY <2>3 DEF AnswersFit, DeliveredIsStored, StoredOwn, DroppedIfDenied, Clear
    <2> QED
      BY <2>6, <2>8, <2>9, <2>10
  <1>2. ASSUME SettleBatch PROVE DInv'
    <2>1. /\ place' = [r \in Records |-> IF r \in batch THEN Outcome(r) ELSE place[r]]
          /\ Abandoned({r \in batch : ~Answered(r)})
          /\ Clear(batch)
          /\ batch' = {}
          /\ UNCHANGED <<job, issued, key, stored, denied>>
      BY <1>2 DEF SettleBatch
    <2> USE <2>1 DEF DInv, DeliveryType
    <2>2. wire' \subseteq Message /\ working' \in [Keys -> Message \cup {None}] /\ UnderOwnKey'
      BY AbandonedStayOwn
    <2>3. \A r \in batch : r \in Records /\ place[r] = "replaying"
      BY DEF At
    <2>4. ASSUME NEW r \in batch
          PROVE  /\ Outcome(r) \in {"delivered", "held", "dropped"}
                 /\ Outcome(r) = "delivered" => StoredOwn(r)
                 /\ Outcome(r) = "dropped" => r \in denied
      BY <2>3 DEF Outcome, Retryable, AnswersFit
    <2>5. answer' \in [Records -> {"none", "ok", "error", "busy", "mismatch", "refused"}]
      BY DEF Clear
    <2>6. place' \in [Records -> Unbuilt \cup Built]
      BY <2>4 DEF Built
    <2>7. DeliveryType'
      BY <2>2, <2>5, <2>6
    <2>8. Keyless' = Keyless
      BY DEF Keyless
    <2>9. KeysAreCounted'
      BY <2>3, <2>4, <2>8 DEF KeysAreCounted, Unbuilt
    <2>10. KeysAreOwn'
      BY DEF KeysAreOwn
    <2>11. AnswersFit' /\ DeliveredIsStored' /\ DroppedIfDenied'
      BY <2>4 DEF AnswersFit, DeliveredIsStored, StoredOwn, DroppedIfDenied, Clear
    <2> QED
      BY <2>2, <2>7, <2>9, <2>10, <2>11
  <1>3. ASSUME NEW r \in Records, Build(r) PROVE DInv'
    <2>1. job' \in [Senders -> Records \cup {None}]
      BY <1>3 DEF Build, DInv, DeliveryType
    <2> QED
      BY <1>3, <2>1, BuildingKeeps DEF Build, Unbuilt
  <1> QED
    BY <1>1, <1>2, <1>3 DEF Flusher

\* Steps that leave records and keys alone keep the invariant when requests, answers and
\* what is stored stay under their own keys.
LEMMA OutsideKeeps ==
  ASSUME DInv, UNCHANGED clientVars,
         wire' \subseteq Message, working' \in [Keys -> Message \cup {None}],
         stored' \in [Keys -> Records \cup {None}],
         \A r \in Records : StoredOwn(r) => StoredOwn(r)',
         answer' \in [Records -> {"none", "ok", "error", "busy", "mismatch", "refused"}],
         denied \subseteq denied', denied' \subseteq Records,
         UnderOwnKey', AnswersFit'
  PROVE  DInv'
  <1> USE DEF DInv, DeliveryType, clientVars
  <1>1. DeliveryType'
    BY DEF At
  <1>2. Keyless' = Keyless
    BY DEF Keyless
  <1>3. KeysAreCounted' /\ KeysAreOwn'
    BY <1>2 DEF KeysAreCounted, KeysAreOwn
  <1>4. DeliveredIsStored' /\ DroppedIfDenied'
    BY DEF DeliveredIsStored, DroppedIfDenied
  <1> QED
    BY <1>1, <1>3, <1>4

\* A wait that ends, a request that is lost.
LEMMA NetworkKeeps ==
  ASSUME DInv, TimesOut \/ \E m \in wire : Lose(m)
  PROVE  DInv'
  <1> USE DEF DInv, DeliveryType
  <1>1. ASSUME NEW r \in Records, GiveUp(r) PROVE DInv'
    <2>1. UNCHANGED clientVars /\ UNCHANGED <<stored, denied>> /\ Abandoned({r})
          /\ answer' = [answer EXCEPT ![r] = "error"]
      BY <1>1 DEF GiveUp
    <2>2. wire' \subseteq Message /\ working' \in [Keys -> Message \cup {None}] /\ UnderOwnKey'
      BY <2>1, AbandonedStayOwn DEF clientVars
    <2>3. AnswersFit' /\ \A q \in Records : StoredOwn(q) => StoredOwn(q)'
      BY <2>1 DEF AnswersFit, StoredOwn, clientVars
    <2> QED
      BY <2>1, <2>2, <2>3, OutsideKeeps
  <1>2. ASSUME NEW m \in wire, Lose(m) PROVE DInv'
    <2>1. UNCHANGED clientVars /\ UNCHANGED <<working, stored, answer, denied>> /\ wire' = wire \ {m}
      BY <1>2 DEF Lose
    <2>2. UnderOwnKey'
      BY <2>1 DEF UnderOwnKey, clientVars
    <2>3. AnswersFit' /\ \A q \in Records : StoredOwn(q) => StoredOwn(q)'
      BY <2>1 DEF AnswersFit, StoredOwn, clientVars
    <2> QED
      BY <2>1, <2>2, <2>3, OutsideKeeps
  <1> QED
    BY <1>1, <1>2 DEF TimesOut

\* A request that reaches the backend.
LEMMA ArrivingKeeps ==
  ASSUME DInv, NEW m \in wire, Arrive(m)
  PROVE  DInv'
  <1> USE DEF DInv, DeliveryType
  <1>1. /\ m \in Message /\ m.record \in Records /\ m.key \in Keys
        /\ m.key = key[m.record] /\ m.key # 0
    BY DEF Message, UnderOwnKey, Keys
  <1>2. UNCHANGED clientVars /\ UNCHANGED <<stored, denied>> /\ wire' = wire \ {m}
    BY <1>1 DEF Arrive
  <1>3. stored[m.key] \notin {m.record, None} => FALSE
    <2>1. SUFFICES ASSUME stored[m.key] # None PROVE stored[m.key] = m.record
      OBVIOUS
    <2>2. stored[m.key] \in Records /\ key[stored[m.key]] = m.key
      BY <1>1, <2>1 DEF UnderOwnKey
    <2> QED
      BY <1>1, <2>2 DEF KeysAreOwn
  <1>4. working' \in [Keys -> Message \cup {None}]
    BY <1>1 DEF Arrive
  <1>5. UnderOwnKey'
    BY <1>1, <1>2 DEF UnderOwnKey, Arrive, clientVars
  <1>6. \/ answer' = answer
        \/ answer' = [answer EXCEPT ![m.record] = "busy"]
        \/ answer' = [answer EXCEPT ![m.record] = "ok"] /\ StoredOwn(m.record)
    BY <1>1, <1>3 DEF Arrive, Reply, StoredOwn
  <1>7. AnswersFit' /\ \A q \in Records : StoredOwn(q) => StoredOwn(q)'
    BY <1>1, <1>2, <1>6 DEF AnswersFit, StoredOwn, clientVars
  <1>8. answer' \in [Records -> {"none", "ok", "error", "busy", "mismatch", "refused"}]
    BY <1>1, <1>6
  <1> QED
    BY <1>2, <1>4, <1>5, <1>7, <1>8, OutsideKeeps

\* A request the backend is done with: what it stores is already the key's, or new.
LEMMA WorkingKeeps ==
  ASSUME DInv, NEW k \in Keys, Process(k)
  PROVE  DInv'
  <1> USE DEF DInv, DeliveryType
  <1>1. PICK q \in Records : working[k] # None /\ working[k].record = q /\ key[q] = k /\ k # 0
    BY DEF Process, Message, UnderOwnKey, Keys
  <1>2. UNCHANGED clientVars /\ wire' = wire /\ working' = [working EXCEPT ![k] = None]
    BY DEF Process
  <1>3. stored' \in {stored, [stored EXCEPT ![k] = q]}
    BY <1>1 DEF Process
  <1>4. denied' \in {denied, denied \cup {q}}
    BY <1>1 DEF Process
  <1>5. stored[k] \in {None, q}
    BY <1>1 DEF UnderOwnKey, KeysAreOwn
  <1>6. \A p \in Records : StoredOwn(p) => StoredOwn(p)'
    <2>1. SUFFICES ASSUME NEW p \in Records, StoredOwn(p) PROVE StoredOwn(p)'
      OBVIOUS
    <2>2. key' = key /\ key[p] \in Keys /\ stored[key[p]] = p /\ key[p] # 0
      BY <1>2, <2>1 DEF StoredOwn, clientVars
    <2>3. key[p] = k => p = q
      BY <1>5, <2>2, RecordAssumption
    <2> QED
      BY <1>3, <2>2, <2>3 DEF StoredOwn
  <1>7. UnderOwnKey'
    BY <1>1, <1>2, <1>3 DEF UnderOwnKey, clientVars
  <1>8. \/ answer' = answer
        \/ answer' = [answer EXCEPT ![q] = "error"]
        \/ answer' = [answer EXCEPT ![q] = "ok"] /\ stored' = [stored EXCEPT ![k] = q]
        \/ answer' = [answer EXCEPT ![q] = "refused"] /\ denied' = denied \cup {q}
    BY <1>1 DEF Process, Reply
  <1>9. stored' = [stored EXCEPT ![k] = q] => StoredOwn(q)'
    BY <1>1, <1>2 DEF StoredOwn, clientVars
  <1>10. AnswersFit'
    BY <1>4, <1>6, <1>8, <1>9 DEF AnswersFit
  <1>11. answer' \in [Records -> {"none", "ok", "error", "busy", "mismatch", "refused"}]
    BY <1>8
  <1>12. stored' \in [Keys -> Records \cup {None}] /\ denied \subseteq denied' /\ denied' \subseteq Records
    BY <1>3, <1>4
  <1>13. wire' \subseteq Message /\ working' \in [Keys -> Message \cup {None}]
    BY <1>2
  <1> QED
    BY <1>2, <1>6, <1>7, <1>10, <1>11, <1>12, <1>13, OutsideKeeps

\* Every step keeps the invariant.
LEMMA DeliveryKeeps == DInv /\ [DeliveryNext]_deliveryVars => DInv'
  <1> SUFFICES ASSUME DInv, [DeliveryNext]_deliveryVars PROVE DInv'
    OBVIOUS
  <1>1. ASSUME NEW r \in Records, Call(r) PROVE DInv'
    <2>1. job' \in [Senders -> Records \cup {None}]
      BY <1>1 DEF Call, DInv, DeliveryType
    <2>2. PICK to \in {"queued", "overflowed"} : Goes(r, to)
      BY <1>1 DEF Call
    <2> QED
      BY <1>1, <2>1, <2>2, MovingKeeps DEF Call, Unbuilt, Built, backendVars
  <1>2. CASE UNCHANGED <<clientVars, backendVars>>
    <2>1. UnderOwnKey' /\ AnswersFit' /\ \A r \in Records : StoredOwn(r) => StoredOwn(r)'
      BY <1>2 DEF DInv, UnderOwnKey, AnswersFit, StoredOwn, clientVars, backendVars
    <2> QED
      BY <1>2, <2>1, OutsideKeeps DEF DInv, DeliveryType, clientVars, backendVars
  <1>3. CASE Outage \/ Recover \/ Time \/ UNCHANGED deliveryVars
    BY <1>2, <1>3 DEF Outage, Recover, Time, deliveryVars
  <1> QED
    BY <1>1, <1>3, WorkerKeeps, FlusherKeeps, NetworkKeeps, ArrivingKeeps, WorkingKeeps
       DEF DeliveryNext, Workers, Arrives, Works

\* The invariant holds in every reachable state of the composition.
THEOREM DeliveryInvariant == DeliverySpec => []DInv
  BY DeliveryStarts, DeliveryKeeps, PTL DEF DeliverySpec

\* Retried by the client, replayed by a flush that is given up, processed late or twice: a
\* record is stored under the one key it was built with, and a delivered one is stored.
THEOREM EachStoredOnce == DeliverySpec => []StoredOnce
  <1>1. DInv => StoredOnce
    <2> SUFFICES ASSUME DInv, NEW r \in Records
                 PROVE  Cardinality(KeysOf(r)) <= 1 /\ (place[r] = "delivered" => KeysOf(r) # {})
      BY DEF StoredOnce
    <2>1. KeysOf(r) \subseteq {key[r]}
      BY RecordAssumption DEF KeysOf, DInv, UnderOwnKey
    <2>2. KeysOf(r) = {} \/ KeysOf(r) = {key[r]}
      BY <2>1
    <2>3. Cardinality({}) = 0 /\ Cardinality({key[r]}) = 1
      BY FS_EmptySet, FS_Singleton
    <2>4. Cardinality(KeysOf(r)) <= 1
      BY <2>2, <2>3
    <2>5. place[r] = "delivered" => key[r] \in KeysOf(r)
      BY DEF KeysOf, DInv, DeliveryType, DeliveredIsStored, StoredOwn
    <2> QED
      BY <2>4, <2>5
  <1> QED
    BY <1>1, DeliveryInvariant, PTL

\* Usage is given up only for what the backend says of the record itself, never for a
\* conflict with its own retry or with another call of its block.
THEOREM OnlyDeniedAreDropped == DeliverySpec => []DroppedIfDenied
  <1>1. DInv => DroppedIfDenied
    BY DEF DInv
  <1> QED
    BY <1>1, DeliveryInvariant, PTL
=============================================================================
