---------------------------- MODULE RecordDelivery ----------------------------
(***************************************************************************)
(* One usage record from the call to the backend: the idempotency block of   *)
(* _core/context.py, MeteringTask.run, submit_ai_event, the retries of the   *)
(* metering client (_metering/_base_client.py) and the replay of the buffer, *)
(* around the circuit of the module DeliveryCircuit.                         *)
(*                                                                          *)
(* A request may be lost, answered too late, processed although nobody waits *)
(* for it any more, or be on its way twice: the client sends it again, and a *)
(* replay that outlives its flush goes on while the record is back in the    *)
(* buffer.  The backend is external: it stores one record under one key,     *)
(* answers a repeat as it answered the first, and refuses a key it is still  *)
(* working on or that belongs to another record.                             *)
(*                                                                          *)
(* The buffer's order, room and expiry are the module MeteringBuffer's.      *)
(***************************************************************************)
EXTENDS DeliveryCircuit, FiniteSets

CONSTANTS
    Records,      \* the calls made in one idempotency block
    MaxTries,     \* max_retries + 1
    Width,        \* replay_concurrency
    MaxOutages,   \* bound: how often the endpoint goes down
    None

ASSUME RecordAssumption ==
    /\ IsFiniteSet(Records) /\ None \notin Records
    /\ MaxTries \in Nat \ {0} /\ Width \in Nat \ {0}
    /\ MaxOutages \in Nat

VARIABLES
    place,     \* per record, where it is
    job,       \* per worker, the record it has in hand
    issued,    \* _issued of the block: how many keys it has given out
    key,       \* per record, the key it was built with; 0 before
    tries,     \* per record, the attempts of its send
    batch,     \* the records a flush is replaying
    wire,      \* the requests on their way; live: somebody waits for the answer
    working,   \* per key, the request the backend is working on
    stored,    \* per key, the record the backend has stored
    answer,    \* per record, the answer to its live request
    denied,    \* history: the records the backend refused for what they are
    up,        \* whether the endpoint answers in time
    outages

clientVars == <<place, job, issued, key, tries, batch>>
backendVars == <<wire, working, stored, answer, denied>>
upVars == <<up, outages>>
deliveryVars == <<vars, clientVars, backendVars, upVars>>

Keys == 1..(2 * Cardinality(Records))

DeliveryInit ==
    /\ Init
    /\ place = [r \in Records |-> "new"]
    /\ job = [s \in Senders |-> None]
    /\ issued = 0
    /\ key = [r \in Records |-> 0]
    /\ tries = [r \in Records |-> 0]
    /\ batch = {}
    /\ wire = {}
    /\ working = [k \in Keys |-> None]
    /\ stored = [k \in Keys |-> None]
    /\ answer = [r \in Records |-> "none"]
    /\ denied = {}
    /\ up = TRUE /\ outages = 0

Goes(r, to) == place' = [place EXCEPT ![r] = to]
At(p) == {r \in Records : place[r] = p}

-----------------------------------------------------------------------------
(* The call, the queue and the worker.                                       *)

\* A call is metered: queued, or handed to the buffer as a task.
Call(r) ==
    /\ place[r] = "new"
    /\ \E to \in {"queued", "overflowed"} : Goes(r, to)
    /\ UNCHANGED <<vars, job, issued, key, tries, batch, backendVars, upVars>>

\* Mutant: every copy of the caller's context counts for itself.
KeyOfOwnCopy == 1

\* next_idempotency_key, under _scope_lock.
NextKey == issued + 1

DrawKey(r) ==
    /\ issued' = issued + 1
    /\ key' = [key EXCEPT ![r] = NextKey]

\* The flush thread builds an overflowed task: its event is buffered unsent.
Build(r) ==
    /\ place[r] = "overflowed"
    /\ DrawKey(r)
    /\ Goes(r, "held")
    /\ UNCHANGED <<vars, job, tries, batch, backendVars, upVars>>

\* A worker takes the record and asks the circuit.
TakeRecord(s, r) ==
    /\ place[r] = "queued" /\ job[s] = None
    /\ job' = [job EXCEPT ![s] = r]
    /\ \/ StartSend(s) /\ Goes(r, "allowed")
       \/ HoldRecord(s) /\ Goes(r, "deferred")
    /\ UNCHANGED <<issued, key, tries, batch, backendVars, upVars>>

\* submit_ai_event while the circuit is open: the event is buffered unsent.
Defer(s) ==
    LET r == job[s]
    IN  /\ r # None /\ place[r] = "deferred"
        /\ DrawKey(r)
        /\ Goes(r, "held")
        /\ job' = [job EXCEPT ![s] = None]
        /\ UNCHANGED <<vars, tries, batch, backendVars, upVars>>

Request(r, k) == [record |-> r, key |-> k, live |-> TRUE]

Post(r, k) ==
    /\ wire' = wire \cup {Request(r, k)}
    /\ answer' = [answer EXCEPT ![r] = "none"]
    /\ UNCHANGED <<working, stored, denied>>

\* submit_ai_event: the key is chosen and goes into the record's headers.
Send(s) ==
    LET r == job[s]
    IN  /\ r # None /\ place[r] = "allowed"
        /\ DrawKey(r)
        /\ Post(r, NextKey)
        /\ tries' = [tries EXCEPT ![r] = 1]
        /\ Goes(r, "sending")
        /\ UNCHANGED <<vars, job, batch, upVars>>

-----------------------------------------------------------------------------
(* The answers.                                                              *)

\* _should_retry of the client, for an answer or the lack of one.
Retried == {"error", "busy", "mismatch"}

\* Mutant: every 409 is permanent, whatever it says of a retry.
RetryableUnlessConflict == {"error"}

\* is_retryable_failure: a 409 is, when it carries Retry-After.
Retryable == {"error", "busy"}

Answered(r) == answer[r] # "none"
GoesOn(r) == answer[r] \in Retried /\ tries[r] < MaxTries

\* The client's own retry, under the same key.
Retry(s) ==
    LET r == job[s]
    IN  /\ r # None /\ place[r] = "sending" /\ GoesOn(r)
        /\ Post(r, key[r])
        /\ tries' = [tries EXCEPT ![r] = @ + 1]
        /\ UNCHANGED <<vars, place, job, issued, key, batch, upVars>>

Clear(rs) == answer' = [r \in Records |-> IF r \in rs THEN "none" ELSE answer[r]]

\* submit_ai_event: delivered, pushed into the buffer, or dropped.
EndSend(s) ==
    LET r == job[s]
    IN  /\ r # None /\ place[r] = "sending" /\ Answered(r) /\ ~GoesOn(r)
        /\ \/ answer[r] = "ok" /\ SendSucceeds(s) /\ Goes(r, "delivered")
           \/ answer[r] \in Retryable /\ SendFails(s) /\ Goes(r, "held")
           \/ answer[r] \notin Retryable \cup {"ok"} /\ SendRejected(s) /\ Goes(r, "dropped")
        /\ job' = [job EXCEPT ![s] = None]
        /\ tries' = [tries EXCEPT ![r] = 0]
        /\ Clear({r})
        /\ UNCHANGED <<issued, key, batch, wire, working, stored, denied, upVars>>

-----------------------------------------------------------------------------
(* A flush replays what the buffer holds, each record with one request.      *)

\* Mutant: an open circuit stops the replays as it stops the workers.
RoomWhenClosed == IF isOpen THEN 0 ELSE Width

\* _batch_limits
Room == IF isOpen THEN 1 ELSE Width

\* Mutant: a replay is sent under a key of its own.
ReplayKeyAnew(r) == key[r] + Cardinality(Records)

\* The key frozen in the buffered event.
ReplayKey(r) == key[r]

TakeBatch ==
    /\ batch = {}
    /\ \E B \in SUBSET At("held") \ {{}} :
          /\ Cardinality(B) <= Room
          /\ batch' = B
          /\ place' = [r \in Records |-> IF r \in B THEN "replaying" ELSE place[r]]
          /\ wire' = wire \cup {Request(r, ReplayKey(r)) : r \in B}
          /\ Clear(B)
    /\ UNCHANGED <<vars, job, issued, key, tries, working, stored, denied, upVars>>

\* What becomes of a replayed record; one still unanswered was not attempted.
Outcome(r) ==
    IF answer[r] = "ok" THEN "delivered"
    ELSE IF answer[r] \in Retryable \cup {"none"} THEN "held"
    ELSE "dropped"

\* Nobody waits for the requests of rs any more.
Abandoned(rs) ==
    /\ wire' = {IF m.record \in rs THEN [m EXCEPT !.live = FALSE] ELSE m : m \in wire}
    /\ working' = [k \in Keys |-> IF working[k] # None /\ working[k].record \in rs
                                  THEN [working[k] EXCEPT !.live = FALSE] ELSE working[k]]

\* _settle_replays, when all have answered or the flush's deadline passes.
SettleBatch ==
    /\ batch # {}
    /\ up => \A r \in batch : Answered(r)
    /\ LET answers == {answer[r] : r \in batch}
       IN  \/ "ok" \in answers /\ ReplaySucceeds
           \/ "ok" \notin answers /\ answers \cap Retryable # {} /\ ReplayFails
           \/ answers \cap ({"ok"} \cup Retryable) = {} /\ UNCHANGED vars
    /\ place' = [r \in Records |-> IF r \in batch THEN Outcome(r) ELSE place[r]]
    /\ Abandoned({r \in batch : ~Answered(r)})
    /\ Clear(batch)
    /\ batch' = {}
    /\ UNCHANGED <<job, issued, key, tries, stored, denied, upVars>>

-----------------------------------------------------------------------------
(* The network and the backend (external).                                   *)

Live(r) ==
    \/ \E m \in wire : m.record = r /\ m.live
    \/ \E k \in Keys : working[k] # None /\ working[k].record = r /\ working[k].live

\* The client stops waiting: a timeout or a connection error.
GiveUp(r) ==
    /\ place[r] \in {"sending", "replaying"} /\ ~Answered(r)
    /\ up => ~Live(r)
    /\ answer' = [answer EXCEPT ![r] = "error"]
    /\ Abandoned({r})
    /\ UNCHANGED <<vars, clientVars, stored, denied, upVars>>

Lose(m) ==
    /\ ~up
    /\ wire' = wire \ {m}
    /\ UNCHANGED <<vars, clientVars, working, stored, answer, denied, upVars>>

Reply(m, status) == answer' = IF m.live THEN [answer EXCEPT ![m.record] = status] ELSE answer

\* A request arrives: a repeat is answered as the first, and a key in use is refused.
Arrive(m) ==
    /\ wire' = wire \ {m}
    /\ \/ stored[m.key] = m.record /\ Reply(m, "ok") /\ UNCHANGED working
       \/ stored[m.key] \notin {m.record, None} /\ Reply(m, "mismatch") /\ UNCHANGED working
       \/ stored[m.key] = None /\ working[m.key] # None /\ Reply(m, "busy") /\ UNCHANGED working
       \/ /\ stored[m.key] = None /\ working[m.key] = None
          /\ working' = [working EXCEPT ![m.key] = m]
          /\ UNCHANGED answer
    /\ UNCHANGED <<vars, clientVars, stored, denied, upVars>>

\* The backend stores the record and answers, or fails before or after storing it.
Process(k) ==
    LET m == working[k]
    IN  /\ m # None
        /\ working' = [working EXCEPT ![k] = None]
        /\ \/ stored' = [stored EXCEPT ![k] = m.record] /\ Reply(m, "ok") /\ UNCHANGED denied
           \/ ~up /\ stored' \in {stored, [stored EXCEPT ![k] = m.record]} /\ Reply(m, "error")
              /\ UNCHANGED denied
           \/ denied' = denied \cup {m.record} /\ Reply(m, "refused") /\ UNCHANGED stored
        /\ UNCHANGED <<vars, clientVars, wire, upVars>>

Outage ==
    /\ up /\ outages < MaxOutages
    /\ up' = FALSE /\ outages' = outages + 1
    /\ UNCHANGED <<vars, clientVars, backendVars>>

Recover ==
    /\ ~up
    /\ up' = TRUE
    /\ UNCHANGED <<vars, clientVars, backendVars, outages>>

Time == Tick /\ UNCHANGED <<clientVars, backendVars, upVars>>

-----------------------------------------------------------------------------
Worker(s) == (\E r \in Records : TakeRecord(s, r)) \/ Defer(s) \/ Send(s) \/ Retry(s) \/ EndSend(s)
Workers == \E s \in Senders : Worker(s)
Flusher == TakeBatch \/ SettleBatch \/ \E r \in Records : Build(r)
TimesOut == \E r \in Records : GiveUp(r)
Arrives == \E m \in wire : Arrive(m)
Works == \E k \in Keys : Process(k)

DeliveryNext ==
    \/ \E r \in Records : Call(r)
    \/ Workers \/ Flusher
    \/ TimesOut \/ Arrives \/ Works
    \/ \E m \in wire : Lose(m)
    \/ Outage \/ Recover \/ Time

DeliverySpec == DeliveryInit /\ [][DeliveryNext]_deliveryVars

\* Some worker and the flush thread go on, a wait ends, the backend takes what
\* reaches it and finishes what it took.
DeliveryFairness ==
    /\ WF_deliveryVars(Workers) /\ WF_deliveryVars(Flusher) /\ WF_deliveryVars(TimesOut)
    /\ WF_deliveryVars(Arrives) /\ WF_deliveryVars(Works)

FairDeliverySpec == DeliverySpec /\ DeliveryFairness

-----------------------------------------------------------------------------
KeysOf(r) == {k \in Keys : stored[k] = r}

\* A call is billed once: whatever is retried, replayed, processed late or processed
\* twice, the backend stores a record under one key, and has stored the delivered ones.
StoredOnce ==
    \A r \in Records :
        /\ Cardinality(KeysOf(r)) <= 1
        /\ place[r] = "delivered" => KeysOf(r) # {}

\* Usage is dropped only when the backend refuses the record itself: never for the key of
\* another call of its block, nor for its own first request that is still being worked on.
DroppedIfDenied == \A r \in Records : place[r] = "dropped" => r \in denied

\* Once the endpoint answers for good, every metered call is stored or refused, with the
\* circuit open or closed, without a further call to probe it.
RecoveryDelivers == <>[]up => <>[](\A r \in Records : place[r] \in {"new", "delivered", "dropped"})
===============================================================================
