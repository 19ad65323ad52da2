----------------------------- MODULE CallOwnership -----------------------------
(***************************************************************************)
(* Who records a LangChain model call: _core/call_ownership.py, the callback *)
(* of openai/langchain/unified_handler.py and _abandoned_runs.py.            *)
(*                                                                          *)
(* A model call (a run) can be metered twice: by the wrap on the provider's  *)
(* client and by the callback.  The callback publishes a run's attribution,  *)
(* the wrap takes it and claims the call, and the callback asks at the end.  *)
(* All of that lives in context variables, of which a child task has a copy, *)
(* and in publications, which the copies share.                              *)
(*                                                                          *)
(* One caller's context is modelled, with the child task in which agenerate  *)
(* makes each of its calls.  In one context, code of the application runs    *)
(* only between calls and between the chunks of a stream.  A publication     *)
(* here stands for those of all handlers of its run: they are published,     *)
(* taken, marked and withdrawn together.                                     *)
(***************************************************************************)
EXTENDS Naturals, FiniteSets, Functions

CONSTANTS
    Runs,        \* model calls
    Handlers,    \* the callback handlers attached to each of them
    Caller,      \* the context of the caller
    Providers,   \* transports
    Serving,     \* the transport that serves the runs
    MaxDirect,   \* bound: calls the application makes without LangChain
    None

ASSUME OwnershipAssumption ==
    /\ Caller \notin Runs /\ None \notin Runs
    /\ IsFiniteSet(Runs) /\ IsFiniteSet(Handlers)
    /\ Serving \in Providers
    /\ MaxDirect \in Nat

VARIABLES
    kind,       \* per run: "generate", "agenerate" or "stream"; "metered" by its transport or not; its scope
    pc,         \* per run, how far its call is
    batch,      \* per run, the runs of the same generate
    claims,     \* _claims_in_context, per context
    published,  \* _published_in_context, per context
    before,     \* per run, the runs published before it: the order of every context's publications
    taken,      \* _taken_in_context, per context and provider
    closed,     \* the publications that are closed
    claimed,    \* the publications that are claimed
    ids,        \* the runs whose response id is in _claimed_response_ids
    info,       \* per run and handler, its run info and what the handler made of the end
    mark,       \* transport_claim_mark, per run
    noted,      \* transport_claimed, per run
    sent,       \* the run group's sent
    metered,    \* history: the runs the transport has recorded
    got,        \* history: per run, the run whose attribution its transport took
    misled,     \* history: the runs whose attribution a direct call took
    crowded,    \* history: the runs during which another call was claimed in their context
    direct      \* direct calls so far

ctxVars == <<claims, published, before, taken>>
pubVars == <<closed, claimed, ids>>
runVars == <<info, mark, noted, sent>>
histVars == <<metered, got, misled, crowded>>
vars == <<kind, pc, batch, ctxVars, pubVars, runVars, histVars, direct>>

Contexts == {Caller} \cup Runs
NoClaims == [p \in Providers |-> 0]
Kinds == [mode : {"generate", "agenerate", "stream"}, wrapped : BOOLEAN, scope : {{Serving}, Providers}]

Init ==
    /\ kind \in [Runs -> Kinds]
    /\ pc = [r \in Runs |-> "new"]
    /\ batch = [r \in Runs |-> {}]
    /\ claims = [c \in Contexts |-> NoClaims]
    /\ published = [c \in Contexts |-> {}] /\ before = [r \in Runs |-> {}]
    /\ taken = [c \in Contexts |-> [p \in Providers |-> {}]]
    /\ closed = {} /\ claimed = {} /\ ids = {}
    /\ info = [r \in Runs |-> [h \in Handlers |-> "none"]]
    /\ mark = [r \in Runs |-> NoClaims]
    /\ noted = [r \in Runs |-> FALSE] /\ sent = [r \in Runs |-> FALSE]
    /\ metered = {} /\ got = [r \in Runs |-> None] /\ misled = {} /\ crowded = {}
    /\ direct = 0

-----------------------------------------------------------------------------
(* call_ownership.py, in one context.                                        *)

\* _open_publications
Open(c) == published[c] \ closed

\* CallbackMetadata.serves
Serves(r, p) == r \notin closed /\ p \in kind[r].scope

\* _latest_model_call: the run being generated, which is what a child's context is for
\* and what the caller's is while it generates, when it is open; else the latest.
Served(c, p, generating) ==
    LET serving == {r \in Open(c) : Serves(r, p)}
    IN  IF serving = {} THEN None
        ELSE IF generating \in serving THEN generating
        ELSE CHOOSE r \in serving : serving \ {r} \subseteq before[r]

Close(runs) == closed' = closed \cup runs

\* take_callback_metadata, for a call that `run` is served by.
Take(c, p, run) ==
    IF run = None THEN UNCHANGED <<published, taken, closed>>
    ELSE /\ Close({run})
         /\ published' = [published EXCEPT ![c] = Open(c) \ {run}]
         /\ taken' = [taken EXCEPT ![c][p] = {run}]

\* Mutant: the claim does not mark what its transport took.
ClaimUnmarked(publications) == claimed

\* Mutant: the claim marks what is published in its context.
MarksPublished(publications) == claimed \cup publications \cup published[Caller]

Marked(publications) == claimed \cup publications

\* The runs of the callback that another call's claim in context c looks like.
Crowd(c, p) == {r \in Runs : c = Caller /\ pc[r] \notin {"new", "over"} /\ p \in kind[r].scope}

-----------------------------------------------------------------------------
(* The start of a run.                                                       *)

Busy(r) == pc[r] \in {"started", "taken", "answered"}

\* Application code runs in the caller's context.
Free == \A r \in Runs : ~Busy(r)

Batches ==
    {B \in SUBSET Runs \ {{}} :
        /\ \A r \in B : pc[r] = "new"
        /\ \A r, s \in B : kind[r] = kind[s] /\ (kind[r].mode = "stream" => r = s)}

\* on_chat_model_start for each message list, then the child tasks of agenerate.
Start(B) ==
    /\ Free
    /\ pc' = [r \in Runs |-> IF r \in B THEN "started" ELSE pc[r]]
    /\ batch' = [r \in Runs |-> IF r \in B THEN B ELSE batch[r]]
    /\ published' = [c \in Contexts |-> IF c \in {Caller} \cup B THEN Open(Caller) \cup B ELSE published[c]]
    /\ \E nth \in Injection(B, 1..Cardinality(B)) :
         before' = [r \in Runs |-> IF r \in B
                       THEN {s \in Runs : pc[s] # "new"} \cup {s \in B : nth[s] < nth[r]} ELSE before[r]]
    /\ claims' = [c \in Contexts |-> IF c \in B THEN claims[Caller] ELSE claims[c]]
    /\ taken' = [c \in Contexts |-> IF c \in B THEN taken[Caller] ELSE taken[c]]
    /\ info' = [r \in Runs |-> IF r \in B THEN [h \in Handlers |-> "active"] ELSE info[r]]
    /\ mark' = [r \in Runs |-> IF r \in B THEN claims[Caller] ELSE mark[r]]
    /\ UNCHANGED <<kind, pubVars, noted, sent, histVars, direct>>

-----------------------------------------------------------------------------
(* The transport.                                                            *)

ContextOf(r) == IF kind[r].mode = "agenerate" THEN r ELSE Caller
Generating(r) == IF kind[r].mode = "stream" THEN None ELSE r

\* generate makes its calls one after the other, in the order of their start.
Turn(r) ==
    kind[r].mode # "generate" \/ \A s \in batch[r] \cap before[r] : pc[s] = "answered"

\* with_callback_metadata in a wrap, before the request.
TakeMetadata(r) ==
    /\ pc[r] = "started" /\ kind[r].wrapped /\ Turn(r)
    /\ LET run == Served(ContextOf(r), Serving, Generating(r))
       IN  /\ Take(ContextOf(r), Serving, run)
           /\ got' = [got EXCEPT ![r] = run]
    /\ pc' = [pc EXCEPT ![r] = "taken"]
    /\ UNCHANGED <<kind, batch, claims, before, claimed, ids, runVars, metered, misled, crowded, direct>>

Answered(r) == pc' = [pc EXCEPT ![r] = IF kind[r].mode = "stream" THEN "opened" ELSE "answered"]

\* claim_call_for_transport: the record is dispatched, or the stream taken over.
ClaimCall(r) ==
    LET c == ContextOf(r)
    IN  /\ pc[r] = "taken"
        /\ Answered(r)
        /\ claims' = [claims EXCEPT ![c][Serving] = @ + 1]
        /\ claimed' = Marked(taken[c][Serving])
        /\ taken' = [taken EXCEPT ![c][Serving] = {}]
        /\ ids' \in {ids} \cup {ids \cup {s \in {r} : kind[s].mode # "stream"}}
        /\ metered' = metered \cup {r}
        /\ crowded' = crowded \cup (Crowd(c, Serving) \ {r})
        /\ UNCHANGED <<kind, batch, published, before, closed, runVars, got, misled, direct>>

\* A client the SDK does not wrap answers, or a wrap lets the call through.
AnswerUnmetered(r) ==
    /\ pc[r] = "started" /\ ~kind[r].wrapped /\ Turn(r)
    /\ Answered(r)
    /\ UNCHANGED <<kind, batch, ctxVars, pubVars, runVars, histVars, direct>>

\* Handlers of `runs` end with `now` what they had active; their publications close.
Finished(runs, now) ==
    info' = [r \in Runs |-> [h \in Handlers |->
                IF r \in runs /\ info[r][h] \in {"active", "aside"} THEN now ELSE info[r][h]]]

\* The request raises: on_llm_error, and in a sync batch the other runs are set aside
\* without an end hook.
Fail(r) ==
    /\ pc[r] \in {"started", "taken", "opened", "streaming"} /\ (pc[r] = "started" => Turn(r))
    /\ LET gone == IF kind[r].mode = "generate" THEN batch[r] ELSE {r}
       IN  /\ Finished(gone, "error")
           /\ Close(gone)
           /\ published' = [published EXCEPT ![Caller] = Open(Caller) \ gone]
           /\ pc' = [s \in Runs |-> IF s \in gone THEN "over" ELSE pc[s]]
    /\ UNCHANGED <<kind, batch, claims, before, taken, claimed, ids, mark, noted, sent, histVars, direct>>

-----------------------------------------------------------------------------
(* A direct call of the application to a wrapped client, in the caller's     *)
(* context: before, after and between the chunks of its streams.             *)

DirectCall(p) ==
    /\ Free /\ direct < MaxDirect
    /\ \A r \in Runs : pc[r] # "opened"
    /\ LET run == Served(Caller, p, None)
           marks == IF run = None THEN taken[Caller][p] ELSE {run}
       IN  /\ Close({run} \ {None})
           /\ published' = [published EXCEPT ![Caller] = Open(Caller) \ {run}]
           /\ claimed' = Marked(marks)
           /\ misled' = misled \cup ({run} \ {None})
    /\ taken' = [taken EXCEPT ![Caller][p] = {}]
    /\ claims' = [claims EXCEPT ![Caller][p] = @ + 1]
    /\ crowded' = crowded \cup Crowd(Caller, p)
    /\ direct' = direct + 1
    /\ UNCHANGED <<kind, pc, batch, before, ids, runVars, metered, got>>

-----------------------------------------------------------------------------
(* What the callback makes of it.                                            *)

\* claimed_by_transport, without a response id, asked in the caller's context.
CountersMoved(r) == \E p \in kind[r].scope : claims[Caller][p] # mark[r][p]

\* Mutant: the first token leaves the attribution on offer.
StaysOpen(r) == UNCHANGED <<published, closed>>

Withdraw(r) ==
    /\ Close({r})
    /\ published' = [published EXCEPT ![Caller] = Open(Caller) \ {r}]

\* on_llm_new_token, before the chunk reaches the caller.
FirstToken(r) ==
    /\ pc[r] = "opened"
    /\ pc' = [pc EXCEPT ![r] = "streaming"]
    /\ Withdraw(r)
    /\ noted' = [noted EXCEPT ![r] = r \in claimed \/ CountersMoved(r)]
    /\ UNCHANGED <<kind, batch, claims, before, taken, claimed, ids, info, mark, sent, histVars, direct>>

\* _transport_metered
TransportMetered(r) == noted[r] \/ r \in claimed \/ CountersMoved(r) \/ r \in ids

EndsNow(r) ==
    \/ pc[r] = "streaming" \/ (pc[r] = "ended" /\ kind[r].mode = "stream")
    \/ kind[r].mode # "stream" /\ pc[r] \in {"answered", "ended"}
       /\ \A s \in batch[r] : pc[s] \in {"answered", "ended", "over"}

\* Mutant: the run group counts as sent whatever its handler made of it.
SentAnyway(handed) == TRUE

ReleasedAsSent(handed) == handed

\* on_llm_end for one handler; handed is FALSE when it cannot build the record.
\* on_llm_end of a cancelled agenerate is delivered all the same, to a run set aside.
End(r, h) ==
    /\ EndsNow(r)
    /\ info[r][h] \in {"active", "aside"}
    /\ Withdraw(r)
    /\ \E handed \in BOOLEAN :
         LET now == IF TransportMetered(r) THEN "deferred"
                    ELSE IF sent[r] THEN "passed"
                    ELSE IF handed THEN "recorded" ELSE "failed"
         IN  /\ info' = [info EXCEPT ![r][h] = now]
             /\ sent' = [sent EXCEPT ![r] = @ \/ (now \in {"recorded", "failed"} /\ ReleasedAsSent(handed))]
             /\ pc' = [pc EXCEPT ![r] =
                   IF \A g \in Handlers \ {h} : info[r][g] \notin {"active", "aside"} THEN "over" ELSE "ended"]
    /\ UNCHANGED <<kind, batch, claims, before, taken, claimed, ids, mark, noted, histVars, direct>>

SetAside(r) == "aside"

\* agenerate is cancelled: while it waits for its calls, or while the end hooks are
\* delivered, which go on.
Cancel(r) ==
    /\ kind[r].mode = "agenerate" /\ \E s \in batch[r] : Busy(s) \/ pc[s] = "ended"
    /\ \E s \in batch[r] : \E h \in Handlers : info[s][h] = "active"
    /\ Close(batch[r])
    /\ published' = [published EXCEPT ![Caller] = Open(Caller) \ batch[r]]
    /\ IF \A s \in batch[r] : EndsNow(s) \/ pc[s] = "over"
       THEN /\ info' = [s \in Runs |-> [h \in Handlers |->
                  IF s \in batch[r] /\ info[s][h] = "active" THEN SetAside(s) ELSE info[s][h]]]
            /\ UNCHANGED pc
       ELSE /\ Finished(batch[r], "error")
            /\ pc' = [s \in Runs |-> IF s \in batch[r] THEN "over" ELSE pc[s]]
    /\ UNCHANGED <<kind, batch, claims, before, taken, claimed, ids, mark, noted, sent, histVars, direct>>

-----------------------------------------------------------------------------
Next ==
    \/ \E B \in Batches : Start(B)
    \/ \E r \in Runs :
          \/ TakeMetadata(r) \/ ClaimCall(r) \/ AnswerUnmetered(r) \/ Fail(r)
          \/ FirstToken(r) \/ Cancel(r)
          \/ \E h \in Handlers : End(r, h)
    \/ \E p \in Providers : DirectCall(p)

Spec == Init /\ [][Next]_vars

-----------------------------------------------------------------------------
Places == {"new", "started", "taken", "opened", "streaming", "answered", "ended", "over"}
InfoStates == {"none", "active", "aside", "recorded", "deferred", "passed", "failed", "error"}

TypeOK ==
    /\ kind \in [Runs -> Kinds]
    /\ pc \in [Runs -> Places]
    /\ batch \in [Runs -> SUBSET Runs]
    /\ claims \in [Contexts -> [Providers -> Nat]]
    /\ published \in [Contexts -> SUBSET Runs] /\ before \in [Runs -> SUBSET Runs]
    /\ taken \in [Contexts -> [Providers -> SUBSET Runs]]
    /\ closed \subseteq Runs /\ claimed \subseteq Runs /\ ids \subseteq Runs
    /\ info \in [Runs -> [Handlers -> InfoStates]]
    /\ mark \in [Runs -> [Providers -> Nat]]
    /\ noted \in [Runs -> BOOLEAN] /\ sent \in [Runs -> BOOLEAN]
    /\ metered \subseteq Runs /\ misled \subseteq Runs /\ crowded \subseteq Runs
    /\ got \in [Runs -> Runs \cup {None}]
    /\ direct \in 0..MaxDirect

RecordedBy(r) == {h \in Handlers : info[r][h] = "recorded"}

\* One model call, one record: of the transport or of one handler, in a batch, in a
\* child task, after a cancellation, with failed siblings and calls in between.
RecordedOnce ==
    \A r \in Runs : Cardinality(RecordedBy(r)) + (IF r \in metered THEN 1 ELSE 0) <= 1

\* A call that no other call in its context and scope overlaps is recorded once its
\* end hooks have run, unless no handler could build the record.
NoRecordIsLost ==
    \A r \in Runs :
        /\ pc[r] = "over" /\ r \notin crowded \cup metered
        /\ \A h \in Handlers : info[r][h] # "error"
        => RecordedBy(r) # {} \/ \A h \in Handlers : info[r][h] = "failed"

\* The transport's record has the attribution of its own run, never a sibling's of its
\* batch; a call the application makes in between has none.
OwnAttribution ==
    /\ \A r \in Runs : pc[r] \notin {"new", "started"} /\ kind[r].wrapped => got[r] \in {r, None}
    /\ misled = {}

\* A run whose end is still to come is marked claimed only when its transport has
\* recorded it: what a failed call left taken never makes a later claim hide it.
ClaimsAreTrue ==
    \A r \in claimed : (\E h \in Handlers : info[r][h] \in {"active", "aside"}) => r \in metered
===============================================================================
