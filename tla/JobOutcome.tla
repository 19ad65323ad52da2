------------------------------ MODULE JobOutcome ------------------------------
(***************************************************************************)
(* The outcome of one agentic job: job_context.py (JobContext) and the       *)
(* transport of _core/outcomes.py.                                           *)
(*                                                                          *)
(* Several handles on the job, each in a process of its own, report, amend   *)
(* and append metric facts through a gateway that can turn a request away,   *)
(* hide the answer of one the backend has processed, or lose either.  One    *)
(* handle is a with block: it reports FAILED when an exception leaves it,    *)
(* on its own thread or, async, on a worker thread that a cancellation       *)
(* leaves running while the same instance is entered again.                  *)
(*                                                                          *)
(* A call is a slot that moves sent -> answered -> done, with a read of the  *)
(* job in between when a refusal may be the answer to its own retry.  The    *)
(* backend is external: it is modelled by the answers the transport handles. *)
(***************************************************************************)
EXTENDS Naturals, FiniteSets

CONSTANTS
    Handles,        \* JobContext instances and attach() handles on the job
    Block,          \* the instance used as a context manager
    Worker,         \* the thread an async exit reports FAILED on
    Contents,       \* outcomes the callers report or amend to
    Failed,         \* the outcome an exception reports
    Clients,        \* names for httpx clients the SDK creates
    UserClient,     \* the client a caller may inject
    RetryAttempts,  \* retry_attempts
    MaxVersion,     \* bound: no call starts once the job has this version
    MaxCalls,       \* bound: calls in progress at the same time
    None

ASSUME JobAssumption ==
    /\ Block \in Handles /\ Worker \notin Handles
    /\ Failed \notin Contents
    /\ None \notin Contents \cup {Failed} \cup Clients \cup Nat
    /\ UserClient \notin Clients \cup {None}
    /\ \E c, d \in Clients : c # d
    /\ RetryAttempts \in Nat \ {0}
    /\ MaxVersion \in Nat /\ MaxCalls \in Nat

VARIABLES
    job,        \* the backend's job: whether it exists, its outcome, version, amendments
    backend,    \* "modern", or "legacy": no versions and no guidance in a refusal
    call,       \* per slot, the outcome call in progress
    known,      \* _entity_version
    basis,      \* history: the outcome a handle left when it recorded its version
    reported,   \* the block's _outcome_reported
    foundNoJob, \* whether the block's _last_report_error is a 404
    block,      \* where the with block is
    client,     \* the block's _http_client
    owns,       \* the block's _owns_http_client
    open        \* the SDK's clients that are open

handleVars == <<known, basis>>
blockVars == <<reported, foundNoJob>>
clientVars == <<client, owns, open>>
vars == <<job, backend, call, handleVars, blockVars, block, clientVars>>

Slots == Handles \cup {Worker}
Outcomes == Contents \cup {Failed}
NoCall == [verb |-> "none"]

Init ==
    /\ job \in [exists : BOOLEAN, outcome : {None}, version : {0}, updates : {0}]
    /\ backend \in {"modern", "legacy"}
    /\ call = [s \in Slots |-> NoCall]
    /\ known = [h \in Handles |-> None]
    /\ basis = [h \in Handles |-> None]
    /\ reported = FALSE /\ foundNoJob = FALSE
    /\ block = "out"
    /\ client \in {None, UserClient}
    /\ owns = (client = None)
    /\ open = {}

-----------------------------------------------------------------------------
(* Clients, of the instance that is a with block.                            *)

Fresh == CHOOSE c \in Clients : c \notin open

\* _http(): the instance's client, or a new one.
TheClient == IF client # None THEN client ELSE Fresh

Acquire ==
    /\ client' = TheClient
    /\ open' = open \cup ({TheClient} \ {UserClient})

Close ==
    IF owns /\ client # None
    THEN open' = open \ {client} /\ client' = None
    ELSE UNCHANGED <<client, open>>

-----------------------------------------------------------------------------
(* Starting a call.                                                          *)

NewCall(verb, content, expect, c) ==
    [verb |-> verb, content |-> content, expect |-> expect, client |-> c, tries |-> 1,
     doubt |-> FALSE, at |-> "sent", status |-> "none", version |-> None, applied |-> 0]

Quiet(s) == call[s] = NoCall /\ Cardinality({t \in Slots : call[t] # NoCall}) < MaxCalls

Start(h, verb, content) ==
    /\ Quiet(h)
    /\ IF h = Block THEN Acquire ELSE UNCHANGED <<client, open>>
    /\ call' = [call EXCEPT ![h] =
          NewCall(verb, content, IF verb = "amend" THEN known[h] ELSE None, IF h = Block THEN TheClient ELSE UserClient)]
    /\ UNCHANGED <<job, backend, handleVars, blockVars, owns>>

\* report_outcome, amend_outcome and append_outcome_metrics, in the block or on a handle.
Call(h) ==
    /\ h = Block => block \in {"out", "in"}
    /\ job.version < MaxVersion
    /\ \/ \E c \in Contents : Start(h, "report", c) \/ Start(h, "amend", c)
       \/ Start(h, "append", None)
    /\ UNCHANGED block

\* An argument or a key the SDK refuses in the block, before any request.
Reject ==
    /\ call[Block] = NoCall /\ block = "in"
    /\ foundNoJob' = FALSE
    /\ UNCHANGED <<job, backend, call, handleVars, reported, block, clientVars>>

-----------------------------------------------------------------------------
(* The backend and the gateway in front of it.                               *)

\* Metering creates the job when it ingests the first AI call.
CreateJob ==
    /\ ~job.exists
    /\ job' = [job EXCEPT !.exists = TRUE]
    /\ UNCHANGED <<backend, call, handleVars, blockVars, block, clientVars>>

Verdict(c) ==
    CASE ~job.exists -> "404"
      [] job.exists /\ c.verb = "append" -> "ok"
      [] job.exists /\ c.verb = "report" -> IF job.outcome = None THEN "ok" ELSE "409"
      [] job.exists /\ c.verb = "amend" ->
            IF job.outcome = None THEN "422"
            ELSE IF c.expect \in {None, job.version} THEN "ok" ELSE "409"

Stored(c) ==
    IF Verdict(c) # "ok" \/ c.verb = "append" THEN job
    ELSE [job EXCEPT !.outcome = c.content, !.version = @ + 1,
                     !.updates = IF c.verb = "amend" THEN @ + 1 ELSE @]

\* The version an answer's body carries; a facts append is answered without one.
Carried(c) ==
    IF backend = "modern" /\ c.verb # "append" THEN Stored(c).version ELSE None

\* Answers that hide what the backend did: for a call without retries on a gateway
\* error, a timeout and a 502 are one.
Hidden(verb) == IF verb = "report" THEN {"502", "lost"} ELSE {"502"}

Process(s) ==
    LET c == call[s]
    IN  /\ c # NoCall /\ c.at = "sent"
        /\ job' = Stored(c)
        /\ \E status \in {Verdict(c)} \cup Hidden(c.verb) :
              call' = [call EXCEPT ![s] = [c EXCEPT
                  !.at = "answered", !.status = status,
                  !.version = IF status = Verdict(c) THEN Carried(c) ELSE None,
                  !.applied = IF Verdict(c) = "ok" THEN @ + 1 ELSE @]]
        /\ UNCHANGED <<backend, handleVars, blockVars, block, clientVars>>

TurnAway(s) ==
    /\ call[s] # NoCall /\ call[s].at = "sent"
    /\ \E status \in {"429"} \cup Hidden(call[s].verb) :
          call' = [call EXCEPT ![s].at = "answered", ![s].status = status]
    /\ UNCHANGED <<job, backend, handleVars, blockVars, block, clientVars>>

-----------------------------------------------------------------------------
(* _request_with_retry and amend_outcome_request.                            *)

\* Mutant: every write is retried after a gateway error.
RetriedEverywhere(verb) == {"404", "429", "502"}

\* A write that is not a repeat of itself is retried only when it was turned away.
Retried(verb) == IF verb = "report" THEN {"404", "429", "502"} ELSE {"429"}

Answered(s) == call[s] # NoCall /\ call[s].at = "answered"

GoesOn(s) == call[s].status \in Retried(call[s].verb) /\ call[s].tries < RetryAttempts

Retry(s) ==
    /\ Answered(s) /\ GoesOn(s)
    /\ call' = [call EXCEPT ![s].at = "sent", ![s].status = "none", ![s].tries = @ + 1,
                            ![s].doubt = @ \/ call[s].status = "502"]
    /\ UNCHANGED <<job, backend, handleVars, blockVars, block, clientVars>>

\* Mutant: any outcome counts as the one sent.
StoresAnyOutcome(c) == job.outcome # None

\* _job_stores_this_report_unamended
StoresThisReport(c) == job.outcome = c.content /\ job.updates = 0

\* A 409 after a gateway error in the same call: one read of the job, which may fail.
Confirm(s) ==
    /\ Answered(s)
    /\ call[s].verb = "report" /\ call[s].status = "409" /\ call[s].doubt
    /\ \/ /\ StoresThisReport(call[s])
          /\ call' = [call EXCEPT ![s].status = "ok",
                                  ![s].version = IF backend = "modern" THEN job.version ELSE None]
       \/ call' = [call EXCEPT ![s].doubt = FALSE]
    /\ UNCHANGED <<job, backend, handleVars, blockVars, block, clientVars>>

-----------------------------------------------------------------------------
(* What a handle makes of the answer.                                        *)

Settled(s) ==
    /\ Answered(s) /\ ~GoesOn(s)
    /\ ~(call[s].verb = "report" /\ call[s].status = "409" /\ call[s].doubt)

\* "returned", or the exception raised.  A refusal without guidance is taken for a success.
Result(s) ==
    LET c == call[s]
    IN  CASE c.status = "ok" -> "returned"
          [] c.status = "409" /\ c.verb = "report" ->
                IF backend = "modern" THEN "already" ELSE "returned"
          [] c.status = "409" /\ c.verb = "amend" -> "conflict"
          [] OTHER -> IF c.status = "404" THEN "no job" ELSE "error"

\* Mutant: facts appended replace the version as an outcome call does.
RecordedAlways(h) == call[h].version

\* _record_entity_version; the version of an append is only adopted.
Recorded(h) ==
    IF call[h].verb = "append" /\ call[h].version = None THEN known[h] ELSE call[h].version

\* The block remembers the exception its report or amendment raised.
RememberError(h) ==
    IF h = Block /\ call[h].verb # "append"
    THEN foundNoJob' = (Result(h) = "no job")
    ELSE UNCHANGED foundNoJob

\* Mutant: every call that was answered counts as a report.
ProvesIfAnswered(h) == Result(h) # "error"

\* The answers that show that the job has an outcome.
Proves(h) == call[h].verb # "append" /\ Result(h) \in {"returned", "conflict", "already"}

Remember(h) ==
    LET outcomeCall == call[h].verb # "append"
    IN  /\ known' = [known EXCEPT ![h] =
              IF Result(h) \in {"returned", "conflict"} THEN Recorded(h) ELSE @]
        /\ basis' = [basis EXCEPT ![h] =
              IF Result(h) = "conflict" THEN None
              ELSE IF Result(h) = "returned" /\ outcomeCall THEN call[h].content ELSE @]
        /\ reported' = (reported \/ (h = Block /\ Proves(h)))
        /\ IF Result(h) = "returned" THEN UNCHANGED foundNoJob ELSE RememberError(h)

Finish(h) ==
    /\ h \in Handles /\ Settled(h)
    /\ Remember(h)
    /\ call' = [call EXCEPT ![h] = NoCall]
    /\ UNCHANGED <<job, backend, block, clientVars>>

\* Mutant: the worker leaves its client open.
WorkerLeavesClient ==
    /\ Settled(Worker)
    /\ call' = [call EXCEPT ![Worker] = NoCall]
    /\ UNCHANGED <<job, backend, handleVars, blockVars, block, clientVars>>

\* The worker writes no instance state and closes the client handed to it.
FinishWorker ==
    /\ Settled(Worker)
    /\ call' = [call EXCEPT ![Worker] = NoCall]
    /\ open' = open \ {call[Worker].client}
    /\ UNCHANGED <<job, backend, handleVars, blockVars, block, client, owns>>

-----------------------------------------------------------------------------
(* The with block.                                                           *)

Enter ==
    /\ block = "out" /\ call[Block] = NoCall
    /\ block' = "in"
    /\ reported' = FALSE /\ foundNoJob' = FALSE
    /\ known' = [known EXCEPT ![Block] = None]
    /\ basis' = [basis EXCEPT ![Block] = None]
    /\ owns' = (client # UserClient)
    /\ UNCHANGED <<job, backend, call, client, open>>

\* _should_auto_report, of an exception that no outcome call of the block raised.
ReportsCrash == ~reported /\ ~foundNoJob

\* Left without a report: no exception, the one an outcome call of the block raised,
\* a KeyboardInterrupt, or one that needs no report.
Leave ==
    /\ block = "in" /\ call[Block] = NoCall
    /\ block' = "out"
    /\ Close
    /\ UNCHANGED <<job, backend, call, handleVars, blockVars, owns>>

\* __exit__: the report blocks it.
LeaveReporting ==
    /\ block = "in" /\ ReportsCrash
    /\ Start(Block, "report", Failed)
    /\ block' = "exiting"

EndExit ==
    /\ block = "exiting" /\ call[Block] = NoCall
    /\ Close
    /\ block' = "out"
    /\ UNCHANGED <<job, backend, call, handleVars, blockVars, owns>>

\* Mutant: the instance keeps the client it lends to the worker.
LendClient == client' = TheClient /\ UNCHANGED owns

\* An SDK-created client changes hands; a caller's own stays attached.
HandOver ==
    IF owns
    THEN client' = None /\ owns' = FALSE
    ELSE client' = TheClient /\ UNCHANGED owns

\* __aexit__: a worker reports, with copies.  Bound: one detached worker at a time.
LeaveOnWorker ==
    /\ block = "in" /\ ReportsCrash
    /\ call[Block] = NoCall /\ Quiet(Worker)
    /\ open' = open \cup ({TheClient} \ {UserClient})
    /\ call' = [call EXCEPT ![Worker] = NewCall("report", Failed, None, TheClient)]
    /\ HandOver
    /\ block' = "awaiting"
    /\ UNCHANGED <<job, backend, handleVars, blockVars>>

\* The worker is done, or the await is cancelled and the thread goes on.
EndAwait ==
    /\ block = "awaiting" /\ call[Worker] = NoCall
    /\ block' = "out"
    /\ UNCHANGED <<job, backend, call, handleVars, blockVars, clientVars>>

CancelAwait ==
    /\ block = "awaiting" /\ call[Worker] # NoCall
    /\ block' = "out"
    /\ UNCHANGED <<job, backend, call, handleVars, blockVars, clientVars>>

\* close(), called by the user of an instance that is not entered.
CloseHandle ==
    /\ block = "out" /\ call[Block] = NoCall
    /\ owns /\ client # None
    /\ Close
    /\ UNCHANGED <<job, backend, call, handleVars, blockVars, block, owns>>

-----------------------------------------------------------------------------
Network(s) == Process(s) \/ TurnAway(s)
Transport(s) == Retry(s) \/ Confirm(s) \/ Finish(s)
Exit == EndExit \/ EndAwait

Next ==
    \/ CreateJob
    \/ \E h \in Handles : Call(h)
    \/ \E s \in Slots : Network(s) \/ Transport(s)
    \/ FinishWorker
    \/ Reject \/ Enter \/ Leave \/ LeaveReporting \/ LeaveOnWorker \/ Exit \/ CancelAwait \/ CloseHandle

Spec == Init /\ [][Next]_vars

-----------------------------------------------------------------------------
CallType ==
    [verb : {"report", "amend", "append"}, content : Outcomes \cup {None},
     expect : Nat \cup {None}, client : Clients \cup {UserClient}, tries : 1..RetryAttempts,
     doubt : BOOLEAN, at : {"sent", "answered"},
     status : {"none", "ok", "404", "409", "422", "429", "502", "lost"},
     version : Nat \cup {None}, applied : Nat]

TypeOK ==
    /\ job \in [exists : BOOLEAN, outcome : Outcomes \cup {None}, version : Nat, updates : Nat]
    /\ backend \in {"modern", "legacy"}
    /\ call \in [Slots -> CallType \cup {NoCall}]
    /\ known \in [Handles -> Nat \cup {None}]
    /\ basis \in [Handles -> Outcomes \cup {None}]
    /\ reported \in BOOLEAN
    /\ foundNoJob \in BOOLEAN
    /\ block \in {"out", "in", "exiting", "awaiting"}
    /\ client \in Clients \cup {UserClient, None}
    /\ owns \in BOOLEAN
    /\ open \subseteq Clients

\* An amendment or an append is applied at most once for each call, and one that is
\* answered as done was applied: the retries never append a second history row or a
\* correction of the call's own facts, whatever the gateway hides.
AppliedAtMostOnce ==
    \A s \in Slots : call[s] # NoCall =>
        /\ call[s].applied <= 1
        /\ call[s].verb # "report" /\ call[s].status = "ok" => call[s].applied = 1

\* _outcome_reported, which keeps an exception from reporting FAILED, is set only
\* when the backend does hold an outcome.
FlagIsTrue == reported => job.outcome # None

\* With a backend that sends versions, a handle that has written the outcome in
\* this run holds a version, so its amendments are never unlocked again: appended
\* facts and refused calls in between do not lose it.
LockIsKept ==
    backend = "modern" => \A h \in Handles : basis[h] # None => known[h] # None

\* No lost update: a locked amendment replaces the outcome its handle left there,
\* or one a conflict has told the handle to check again.
NoLostUpdate ==
    [][\A h \in Handles :
         /\ call[h] # NoCall /\ call[h].verb = "amend" /\ call[h].expect # None
         /\ call'[h] # NoCall /\ call'[h].applied # call[h].applied
         => basis[h] \in {job.outcome, None}]_vars

\* A report to a modern backend returns only when its own content was stored, by
\* it or by another writer in the gap, or has since been amended; an amendment that
\* conflicted was not applied; a refusal means there is an outcome.
AnswersAreTrue ==
    [][\A s \in Slots : call[s] # NoCall /\ call'[s] = NoCall =>
         /\ Result(s) = "returned" /\ call[s].verb = "report" /\ backend = "modern"
            => call[s].applied = 1 \/ job.updates > 0 \/ job.outcome = call[s].content
         /\ Result(s) = "conflict" => call[s].applied = 0
         /\ Result(s) = "already" => job.outcome # None]_vars

\* No request runs on a client that has been closed, and every open client the SDK has
\* created is attached to the instance or to its worker, while a detached worker goes on
\* with a client of an instance that leaves, enters or closes again.
ClientsAreHeld ==
    /\ \A s \in {Block, Worker} : call[s] # NoCall => call[s].client \in open \cup {UserClient}
    /\ \A c \in open : client = c \/ (call[Worker] # NoCall /\ call[Worker].client = c)
===============================================================================
