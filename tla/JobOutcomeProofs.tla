--------------------------- MODULE JobOutcomeProofs ---------------------------
(***************************************************************************)
(* Theorems about JobOutcome, for any number of handles, outcomes, clients   *)
(* and retries: what a call in progress knows of the job (CallFits), what a  *)
(* handle remembers of it (HandleFits) and who holds which client            *)
(* (ClientsFit) together are inductive.                                      *)
(***************************************************************************)
EXTENDS JobOutcome, TLAPS

\* What an answer says of the job, and how often the call was applied.
CallFits(s) ==
    call[s] # NoCall =>
        /\ call[s].applied \in {0, 1}
        /\ call[s].at = "sent" => call[s].status = "none"
        /\ call[s].verb # "report" =>
              /\ call[s].status \notin {"ok", "502"} => call[s].applied = 0
              /\ call[s].status = "ok" => call[s].applied = 1
        /\ call[s].verb = "report" /\ call[s].applied = 1 => job.outcome # None
        /\ call[s].verb # "append" =>
              /\ call[s].content \in Outcomes
              /\ call[s].status \in {"ok", "409"} => job.outcome # None
        /\ call[s].verb = "report" /\ call[s].status = "ok" =>
              call[s].applied = 1 \/ job.updates > 0 \/ job.outcome = call[s].content

\* The version an answer carries is that of the outcome the call has left.
VersionFits(s) ==
    call[s] # NoCall =>
        /\ backend = "legacy" \/ call[s].verb = "append" => call[s].version = None
        /\ call[s].verb # "append" /\ call[s].status = "ok" =>
              /\ backend = "modern" => call[s].version # None
              /\ call[s].version # None =>
                    /\ call[s].version <= job.version
                    /\ call[s].version = job.version => job.outcome = call[s].content

\* So is the version a handle holds, which its amendment goes out with.
HandleFits(h) ==
    /\ basis[h] # None /\ known[h] # None =>
          /\ known[h] <= job.version
          /\ known[h] = job.version => job.outcome = basis[h]
    /\ backend = "modern" /\ basis[h] # None => known[h] # None
    /\ call[h] # NoCall /\ call[h].verb = "amend" => call[h].expect = known[h]

\* An instance and a detached worker never hold the same client of the SDK.
ClientsFit ==
    /\ client = UserClient => ~owns
    /\ block = "in" => owns = (client # UserClient)
    /\ client \in open \cup {UserClient, None}
    /\ call[Block] # NoCall => client # None /\ call[Block].client = client
    /\ call[Worker] # NoCall => /\ call[Worker].client \in open \cup {UserClient}
                                /\ call[Worker].client = client => client = UserClient
    /\ \A c \in open : client = c \/ (call[Worker] # NoCall /\ call[Worker].client = c)

JInv == /\ TypeOK /\ FlagIsTrue /\ ClientsFit
        /\ \A s \in Slots : CallFits(s) /\ VersionFits(s)
        /\ \A h \in Handles : HandleFits(h)

-----------------------------------------------------------------------------
(* How a step can change the job.                                            *)

\* An outcome is never taken away, and whatever replaces one is counted and versioned.
Grows ==
    /\ job'.version \in Nat /\ job'.updates \in Nat
    /\ job.version <= job'.version /\ job.updates <= job'.updates
    /\ job'.version = job.version => job'.outcome = job.outcome
    /\ job.outcome # None =>
          job'.outcome # None /\ (job'.outcome = job.outcome \/ job'.updates > 0)

LEMMA UnchangedGrows == ASSUME TypeOK, UNCHANGED job PROVE Grows
  BY DEF TypeOK, Grows

\* The backend stores what it accepts.
LEMMA StoringGrows ==
  ASSUME TypeOK, NEW s \in Slots, CallFits(s), call[s] # NoCall, job' = Stored(call[s])
  PROVE  /\ Grows
         /\ job' \in [exists : BOOLEAN, outcome : Outcomes \cup {None}, version : Nat, updates : Nat]
  <1>1. CASE Verdict(call[s]) # "ok" \/ call[s].verb = "append"
    BY <1>1 DEF Stored, Grows, TypeOK
  <1>2. CASE Verdict(call[s]) = "ok" /\ call[s].verb # "append"
    <2>1. call[s].verb \in {"report", "amend"} /\ call[s].content \in Outcomes
      BY <1>2 DEF TypeOK, CallType, CallFits
    <2>2. /\ job' = [job EXCEPT !.outcome = call[s].content, !.version = @ + 1,
                                !.updates = IF call[s].verb = "amend" THEN @ + 1 ELSE @]
      BY <1>2 DEF Stored
    <2>3. call[s].verb = "report" => job.outcome = None
      BY <1>2 DEF Verdict, TypeOK
    <2>4. call[s].content # None
      BY <2>1, JobAssumption DEF Outcomes
    <2> DEFINE counted == IF call[s].verb = "amend" THEN job.updates + 1 ELSE job.updates
    <2>5. /\ job' = [job EXCEPT !.outcome = call[s].content, !.version = job.version + 1,
                                !.updates = counted]
          /\ job.version \in Nat /\ job.updates \in Nat /\ counted \in Nat
          /\ job.updates <= counted
      BY <2>2 DEF TypeOK
    <2> HIDE DEF counted
    <2> DEFINE content == call[s].content
    <2> HIDE DEF content
    <2>6. /\ job'.outcome = content /\ job'.version = job.version + 1
          /\ job'.updates = counted
          /\ job' \in [exists : BOOLEAN, outcome : Outcomes \cup {None}, version : Nat, updates : Nat]
      <3>1. content \in Outcomes /\ job.version + 1 \in Nat /\ counted \in Nat
        BY <2>1, <2>5 DEF content
      <3>2. job' = [job EXCEPT !.outcome = content, !.version = job.version + 1, !.updates = counted]
        BY <2>5 DEF content
      <3>3. job \in [exists : BOOLEAN, outcome : Outcomes \cup {None}, version : Nat, updates : Nat]
        BY DEF TypeOK
      <3> QED
        BY <3>1, <3>2, <3>3
    <2>7. job.outcome # None => counted > 0
      BY <2>1, <2>3, <2>5 DEF counted
    <2> QED
      BY <2>4, <2>5, <2>6, <2>7 DEF Grows, content
  <1> QED
    BY <1>1, <1>2

\* A call that a step leaves alone stays true while the job grows.
LEMMA CallsStay ==
  ASSUME TypeOK, Grows, UNCHANGED backend, NEW s \in Slots, CallFits(s), VersionFits(s),
         call'[s] = call[s]
  PROVE  CallFits(s)' /\ VersionFits(s)'
  <1>1. CASE call[s] = NoCall
    BY <1>1 DEF CallFits, VersionFits, NoCall
  <1>2. CASE call[s] # NoCall
    <2>1. call[s] \in CallType
      BY <1>2 DEF TypeOK
    <2>2. CallFits(s)'
      BY <1>2, <2>1 DEF CallFits, Grows, TypeOK, CallType, NoCall
    <2>3. VersionFits(s)'
      BY <1>2, <2>1 DEF VersionFits, Grows, TypeOK, CallType, NoCall
    <2> QED
      BY <2>2, <2>3
  <1> QED
    BY <1>1, <1>2

LEMMA HandlesStay ==
  ASSUME TypeOK, Grows, UNCHANGED <<backend, handleVars>>, NEW h \in Handles, HandleFits(h),
         call'[h] # NoCall =>
            (call'[h].verb = "amend" =>
               \/ call[h] # NoCall /\ call[h].verb = "amend" /\ call'[h].expect = call[h].expect
               \/ call'[h].expect = known[h])
  PROVE  HandleFits(h)'
  BY DEF HandleFits, Grows, TypeOK, handleVars
-----------------------------------------------------------------------------
(* Calls in progress.                                                        *)

\* A request, an answer or a retry: one call moves on and everything else stays.
LEMMA OneCallMoves ==
  ASSUME JInv, NEW s \in Slots, call[s] # NoCall,
         NEW c \in CallType, call' = [call EXCEPT ![s] = c],
         c.client = call[s].client, c.verb = call[s].verb, c.expect = call[s].expect,
         Grows, job' \in [exists : BOOLEAN, outcome : Outcomes \cup {None}, version : Nat, updates : Nat],
         UNCHANGED <<backend, handleVars, blockVars, block, clientVars>>,
         CallFits(s)', VersionFits(s)'
  PROVE  JInv'
  <1> USE DEF JInv, handleVars, blockVars, clientVars
  <1>1. c # NoCall
    BY DEF CallType, NoCall
  <1>2. TypeOK'
    BY DEF TypeOK
  <1>3. \A t \in Slots : CallFits(t)' /\ VersionFits(t)'
    BY CallsStay DEF TypeOK
  <1>4. \A h \in Handles : HandleFits(h)'
    <2>1. SUFFICES ASSUME NEW h \in Handles PROVE HandleFits(h)'
      OBVIOUS
    <2>2. h \in Slots /\ HandleFits(h)
      BY DEF Slots
    <2> QED
      BY <1>1, <2>2, HandlesStay DEF TypeOK
  <1>5. FlagIsTrue'
    BY DEF FlagIsTrue, Grows
  <1>6. ClientsFit'
    BY <1>1 DEF ClientsFit, TypeOK
  <1> QED
    BY <1>2, <1>3, <1>4, <1>5, <1>6

\* The backend's verdict on a request, which the caller may not get to see.
LEMMA ProcessKeeps == ASSUME JInv, NEW s \in Slots, Process(s) PROVE JInv'
  <1> DEFINE c == call[s]
             done == Verdict(c) = "ok"
  <1>1. c \in CallType /\ c # NoCall /\ c.at = "sent" /\ CallFits(s) /\ VersionFits(s) /\ TypeOK
    BY DEF Process, JInv, TypeOK
  <1>2. PICK status \in {Verdict(c)} \cup Hidden(c.verb) :
           call' = [call EXCEPT ![s] = [c EXCEPT
              !.at = "answered", !.status = status,
              !.version = IF status = Verdict(c) THEN Carried(c) ELSE None,
              !.applied = IF done THEN @ + 1 ELSE @]]
    BY DEF Process
  <1>3. job' = Stored(c) /\ UNCHANGED <<backend, handleVars, blockVars, block, clientVars>>
    BY DEF Process
  <1>4. Grows /\ job' \in [exists : BOOLEAN, outcome : Outcomes \cup {None}, version : Nat, updates : Nat]
    BY <1>1, <1>3, StoringGrows
  <1>5. /\ Verdict(c) \in {"ok", "404", "409", "422"}
        /\ Verdict(c) = "409" => job.outcome # None /\ c.verb # "append"
        /\ c.verb = "report" /\ done => job.outcome = None
        /\ status \in {Verdict(c), "502", "lost"}
        /\ status = "lost" => c.verb = "report"
    <2>1. c.verb \in {"report", "amend", "append"} /\ job.exists \in BOOLEAN
      BY <1>1 DEF CallType, TypeOK
    <2>2. CASE ~job.exists
      BY <1>2, <2>1, <2>2 DEF Verdict, Hidden
    <2>3. CASE job.exists /\ c.verb = "report"
      BY <1>2, <2>3 DEF Verdict, Hidden
    <2>4. CASE job.exists /\ c.verb = "append"
      BY <1>2, <2>4 DEF Verdict, Hidden
    <2>5. CASE job.exists /\ c.verb = "amend"
      BY <1>2, <2>5 DEF Verdict, Hidden
    <2> QED
      BY <2>1, <2>2, <2>3, <2>4, <2>5
  <1>6. /\ c.verb # "append" /\ done => job'.outcome = c.content /\ c.content # None
        /\ ~done \/ c.verb = "append" => job' = job
    <2>1. c.verb # "append" => c.content \in Outcomes /\ c.content # None
      BY <1>1, JobAssumption DEF CallFits, Outcomes
    <2> QED
      BY <1>1, <1>3, <2>1 DEF Stored, TypeOK
  <1>7. c.status = "none" /\ c.verb \in {"report", "amend", "append"} /\ c.applied \in {0, 1}
        /\ (c.verb # "report" => c.applied = 0) /\ (c.applied = 1 => job.outcome # None)
        /\ (c.verb # "append" => c.content \in Outcomes)
    BY <1>1 DEF CallFits, CallType
  <1>8. Carried(c) \in {None, job'.version} /\ (backend = "legacy" \/ c.verb = "append" => Carried(c) = None)
        /\ (backend = "modern" /\ c.verb # "append" => Carried(c) = job'.version /\ Carried(c) # None)
    BY <1>3, <1>4, <1>1, JobAssumption DEF Carried, Grows, TypeOK
  <1>9. PICK version \in Nat \cup {None}, applied \in {0, 1} :
           /\ version = IF status = Verdict(c) THEN Carried(c) ELSE None
           /\ applied = IF done THEN c.applied + 1 ELSE c.applied
    <2> DEFINE version == IF status = Verdict(c) THEN Carried(c) ELSE None
               applied == IF done THEN c.applied + 1 ELSE c.applied
    <2>1. version \in Nat \cup {None} /\ applied \in {0, 1}
      BY <1>4, <1>5, <1>7, <1>8 DEF Grows
    <2> QED
      BY <2>1
  <1> DEFINE d == [c EXCEPT !.at = "answered", !.status = status, !.version = version, !.applied = applied]
  <1>10. call' = [call EXCEPT ![s] = d]
    BY <1>2, <1>9
  <1>11. d \in CallType /\ d.client = c.client /\ d.verb = c.verb /\ d.expect = c.expect /\ d.content = c.content
         /\ d.at = "answered" /\ d.status = status /\ d.version = version /\ d.applied = applied
    <2>1. status \in {"ok", "404", "409", "422", "502", "lost"}
      BY <1>5
    <2>2. c \in CallType /\ version \in Nat \cup {None} /\ applied \in Nat
      BY <1>1, <1>9
    <2> QED
      BY <2>1, <2>2, ZenonT(60) DEF CallType
  <1> HIDE DEF d
  <1>12. call'[s] = d
    BY <1>10, <1>1 DEF TypeOK
  <1>13. CallFits(s)'
    BY <1>4, <1>5, <1>6, <1>7, <1>9, <1>11, <1>12 DEF CallFits, Grows
  <1>14. VersionFits(s)'
    BY <1>3, <1>4, <1>5, <1>6, <1>7, <1>8, <1>9, <1>11, <1>12 DEF VersionFits, Grows
  <1> QED
    BY <1>1, <1>3, <1>4, <1>10, <1>11, <1>13, <1>14, OneCallMoves

\* A gateway that turns a request away says nothing of the job.
LEMMA TurnAwayKeeps == ASSUME JInv, NEW s \in Slots, TurnAway(s) PROVE JInv'
  <1> DEFINE c == call[s]
  <1>1. c \in CallType /\ c # NoCall /\ c.at = "sent" /\ CallFits(s) /\ VersionFits(s) /\ TypeOK
    BY DEF TurnAway, JInv, TypeOK
  <1>2. PICK status \in {"429", "502", "lost"} :
           /\ status = "lost" => c.verb = "report"
           /\ call' = [call EXCEPT ![s] = [c EXCEPT !.at = "answered", !.status = status]]
    BY <1>1 DEF TurnAway, Hidden, TypeOK
  <1>3. UNCHANGED <<job, backend, handleVars, blockVars, block, clientVars>>
    BY DEF TurnAway
  <1> DEFINE d == [c EXCEPT !.at = "answered", !.status = status]
  <1>4. d \in CallType /\ d.client = c.client /\ d.verb = c.verb /\ d.expect = c.expect /\ d.content = c.content
        /\ d.at = "answered" /\ d.status = status /\ d.version = c.version /\ d.applied = c.applied
    BY <1>1 DEF CallType
  <1> HIDE DEF d
  <1>5. call' = [call EXCEPT ![s] = d] /\ call'[s] = d
    BY <1>1, <1>2 DEF TypeOK, d
  <1>6. Grows /\ job' = job /\ backend' = backend
    BY <1>1, <1>3, UnchangedGrows
  <1>7. CallFits(s)' /\ VersionFits(s)'
    BY <1>1, <1>2, <1>4, <1>5, <1>6 DEF CallFits, VersionFits, CallType
  <1> QED
    BY <1>1, <1>3, <1>4, <1>5, <1>6, <1>7, OneCallMoves DEF TypeOK

\* Only what was turned away, or cannot be applied twice, is sent again.
LEMMA RetryKeeps == ASSUME JInv, NEW s \in Slots, Retry(s) PROVE JInv'
  <1> DEFINE c == call[s]
  <1>1. c \in CallType /\ c # NoCall /\ c.at = "answered" /\ CallFits(s) /\ VersionFits(s) /\ TypeOK
    BY DEF Retry, Answered, JInv, TypeOK
  <1>2. c.tries < RetryAttempts /\ (c.verb # "report" => c.status = "429")
    BY DEF Retry, GoesOn, Retried
  <1> DEFINE tries == c.tries + 1
             doubt == c.doubt \/ c.status = "502"
             d == [c EXCEPT !.at = "sent", !.status = "none", !.tries = tries, !.doubt = doubt]
  <1>3. call' = [call EXCEPT ![s] = d] /\ UNCHANGED <<job, backend, handleVars, blockVars, block, clientVars>>
    BY <1>1 DEF Retry, TypeOK
  <1>4. tries \in 1..RetryAttempts /\ doubt \in BOOLEAN
    BY <1>1, <1>2, JobAssumption DEF CallType
  <1> HIDE DEF tries, doubt
  <1>5. d \in CallType /\ d.client = c.client /\ d.verb = c.verb /\ d.expect = c.expect /\ d.content = c.content
        /\ d.at = "sent" /\ d.status = "none" /\ d.version = c.version /\ d.applied = c.applied
    BY <1>1, <1>4 DEF CallType
  <1> HIDE DEF d
  <1>6. call'[s] = d
    BY <1>1, <1>3 DEF TypeOK
  <1>7. Grows /\ job' = job /\ backend' = backend
    BY <1>1, <1>3, UnchangedGrows
  <1>8. CallFits(s)' /\ VersionFits(s)'
    BY <1>1, <1>2, <1>5, <1>6, <1>7 DEF CallFits, VersionFits, CallType
  <1> QED
    BY <1>1, <1>3, <1>5, <1>6, <1>7, <1>8, OneCallMoves DEF TypeOK

\* The read after a refusal answers for a report the job does store.
LEMMA ConfirmKeeps == ASSUME JInv, NEW s \in Slots, Confirm(s) PROVE JInv'
  <1> DEFINE c == call[s]
  <1>1. c \in CallType /\ c # NoCall /\ c.at = "answered" /\ CallFits(s) /\ VersionFits(s) /\ TypeOK
        /\ c.verb = "report" /\ c.status = "409"
    BY DEF Confirm, Answered, JInv, TypeOK
  <1>2. UNCHANGED <<job, backend, handleVars, blockVars, block, clientVars>>
    BY DEF Confirm
  <1>3. Grows /\ job' = job /\ backend' = backend /\ job.version \in Nat /\ job.version # None
    BY <1>1, <1>2, UnchangedGrows, JobAssumption DEF TypeOK
  <1>4. CASE /\ StoresThisReport(c)
             /\ call' = [call EXCEPT ![s].status = "ok",
                                     ![s].version = IF backend = "modern" THEN job.version ELSE None]
    <2> DEFINE version == IF backend = "modern" THEN job.version ELSE None
               d == [c EXCEPT !.status = "ok", !.version = version]
    <2>1. call' = [call EXCEPT ![s] = d]
      BY <1>1, <1>4 DEF TypeOK
    <2>2. version \in Nat \cup {None}
      BY <1>3
    <2> HIDE DEF version
    <2>3. d \in CallType /\ d.client = c.client /\ d.verb = c.verb /\ d.expect = c.expect /\ d.content = c.content
          /\ d.at = "answered" /\ d.status = "ok" /\ d.version = version /\ d.applied = c.applied
      BY <1>1, <2>2 DEF CallType
    <2> HIDE DEF d
    <2>4. call'[s] = d
      BY <1>1, <2>1 DEF TypeOK
    <2>5. CallFits(s)' /\ VersionFits(s)'
      BY <1>1, <1>3, <1>4, <2>3, <2>4 DEF CallFits, VersionFits, StoresThisReport, version, TypeOK
    <2> QED
      BY <1>1, <1>2, <1>3, <2>1, <2>3, <2>5, OneCallMoves DEF TypeOK
  <1>5. CASE call' = [call EXCEPT ![s].doubt = FALSE]
    <2> DEFINE d == [c EXCEPT !.doubt = FALSE]
    <2>1. d \in CallType /\ d.client = c.client /\ d.verb = c.verb /\ d.expect = c.expect /\ d.content = c.content
          /\ d.at = "answered" /\ d.status = c.status /\ d.version = c.version /\ d.applied = c.applied
      BY <1>1 DEF CallType
    <2>2. call' = [call EXCEPT ![s] = d] /\ call'[s] = d
      BY <1>1, <1>5 DEF TypeOK
    <2> HIDE DEF d
    <2>3. CallFits(s)' /\ VersionFits(s)'
      BY <1>1, <1>3, <2>1, <2>2 DEF CallFits, VersionFits
    <2> QED
      BY <1>1, <1>2, <1>3, <2>1, <2>2, <2>3, OneCallMoves DEF TypeOK
  <1> QED
    BY <1>4, <1>5 DEF Confirm
-----------------------------------------------------------------------------
(* Starting and ending a call.                                               *)

\* A call that starts has done nothing yet.
LEMMA NewCallFits ==
  ASSUME NEW verb \in {"report", "amend", "append"}, NEW content \in Outcomes \cup {None},
         NEW expect \in Nat \cup {None}, NEW c \in Clients \cup {UserClient}
  PROVE  /\ NewCall(verb, content, expect, c) \in CallType
         /\ NewCall(verb, content, expect, c).verb = verb
         /\ NewCall(verb, content, expect, c).content = content
         /\ NewCall(verb, content, expect, c).expect = expect
         /\ NewCall(verb, content, expect, c).client = c
         /\ NewCall(verb, content, expect, c).status = "none"
         /\ NewCall(verb, content, expect, c).applied = 0
         /\ NewCall(verb, content, expect, c).version = None
  BY JobAssumption DEF NewCall, CallType

\* A new client is nobody's: the instance has none, so at most the worker has one.
LEMMA FreshIsNew ==
  ASSUME TypeOK, ClientsFit
  PROVE  /\ TheClient \in Clients \cup {UserClient} /\ TheClient # None
         /\ client # None => TheClient = client
         /\ client = None => TheClient \in Clients \ open
         /\ TheClient \in open \cup {UserClient} \/ TheClient \notin open
  <1>1. CASE client = None
    <2>1. \E c \in Clients : c \notin open
      BY <1>1, JobAssumption DEF ClientsFit, TypeOK
    <2>2. Fresh \in Clients /\ Fresh \notin open
      BY <2>1 DEF Fresh
    <2> QED
      BY <1>1, <2>2, JobAssumption DEF TheClient
  <1>2. CASE client # None
    BY <1>2 DEF TheClient, TypeOK
  <1> QED
    BY <1>1, <1>2

\* Everything that does not look at the block after a call has started.
LEMMA StartKeeps ==
  ASSUME JInv, NEW h \in Handles, NEW verb \in {"report", "amend", "append"},
         NEW content \in Outcomes \cup {None}, verb # "append" => content \in Outcomes,
         Start(h, verb, content),
         block' \in {"out", "in", "exiting", "awaiting"}, block' = "in" => block = "in"
  PROVE  JInv'
  <1> DEFINE c == IF h = Block THEN TheClient ELSE UserClient
             expect == IF verb = "amend" THEN known[h] ELSE None
  <1>1. /\ Quiet(h) /\ call' = [call EXCEPT ![h] = NewCall(verb, content, expect, c)]
        /\ UNCHANGED <<job, backend, handleVars, blockVars, owns>>
        /\ IF h = Block THEN Acquire ELSE UNCHANGED <<client, open>>
    BY DEF Start
  <1>2. TypeOK /\ ClientsFit /\ h \in Slots /\ Block \in Slots /\ Worker \in Slots /\ Worker # h
    BY JobAssumption DEF JInv, Slots
  <1>3. c \in Clients \cup {UserClient} /\ expect \in Nat \cup {None}
    BY <1>2, FreshIsNew DEF TypeOK
  <1> HIDE DEF c, expect
  <1>4. /\ call' \in [Slots -> CallType \cup {NoCall}] /\ call'[h] # NoCall
        /\ call'[h].verb = verb /\ call'[h].client = c /\ call'[h].expect = expect
        /\ CallFits(h)' /\ VersionFits(h)'
    <2> DEFINE new == NewCall(verb, content, expect, c)
    <2>1. /\ new \in CallType /\ new.verb = verb /\ new.content = content /\ new.expect = expect
          /\ new.client = c /\ new.status = "none" /\ new.applied = 0 /\ new.version = None
      BY <1>3, NewCallFits
    <2> HIDE DEF new
    <2>2. call' = [call EXCEPT ![h] = new] /\ call'[h] = new
      BY <1>1, <1>2 DEF new, TypeOK
    <2>3. new # NoCall
      BY <2>1 DEF NoCall
    <2> QED
      BY <1>2, <2>1, <2>2, <2>3 DEF CallFits, VersionFits, TypeOK
  <1>5. \A t \in Slots \ {h} : call'[t] = call[t]
    BY <1>1, <1>2 DEF TypeOK
  <1>6. Grows
    BY <1>1, <1>2, UnchangedGrows
  <1>7. \A t \in Slots : CallFits(t)' /\ VersionFits(t)'
    BY <1>1, <1>2, <1>4, <1>5, <1>6, CallsStay DEF JInv
  <1>8. \A g \in Handles : HandleFits(g)'
    <2>1. SUFFICES ASSUME NEW g \in Handles PROVE HandleFits(g)'
      OBVIOUS
    <2>2. g \in Slots /\ HandleFits(g)
      BY DEF JInv, Slots
    <2>3. g # h => call'[g] = call[g] /\ (call[g] # NoCall /\ call[g].verb = "amend" => call[g].expect = known[g])
      BY <1>5, <2>2 DEF HandleFits
    <2>4. call'[h].verb = "amend" => call'[h].expect = known[h]
      BY <1>4 DEF expect
    <2> QED
      BY <1>1, <1>2, <1>6, <2>2, <2>3, <2>4, HandlesStay
  <1>9. ClientsFit'
    <2>1. CASE h = Block
      <3>1. /\ client' = TheClient /\ open' = open \cup ({TheClient} \ {UserClient})
            /\ call'[Block] # NoCall /\ call'[Block].client = TheClient
            /\ call'[Worker] = call[Worker] /\ owns' = owns
        BY <1>1, <1>2, <1>4, <1>5, <2>1 DEF c, Acquire
      <3>2. client = UserClient <=> TheClient = UserClient
        BY <1>2, FreshIsNew, JobAssumption
      <3>3. /\ client' = UserClient => ~owns'
            /\ block' = "in" => owns' = (client' # UserClient)
            /\ client' \in open' \cup {UserClient} /\ client' # None
        BY <1>2, <3>1, <3>2, FreshIsNew DEF ClientsFit
      <3>4. call'[Worker] # NoCall => /\ call'[Worker].client \in open' \cup {UserClient}
                                      /\ call'[Worker].client = client' => client' = UserClient
        BY <1>2, <3>1, FreshIsNew, JobAssumption DEF ClientsFit
      <3>5. \A k \in open' : client' = k \/ (call'[Worker] # NoCall /\ call'[Worker].client = k)
        BY <1>2, <3>1, FreshIsNew, JobAssumption DEF ClientsFit, TypeOK
      <3> QED
        BY <3>1, <3>3, <3>4, <3>5 DEF ClientsFit
    <2>2. CASE h # Block
      BY <1>1, <1>2, <1>5, <2>2 DEF ClientsFit
    <2> QED
      BY <2>1, <2>2
  <1>10. TypeOK'
    <2>1. client' \in Clients \cup {UserClient, None} /\ open' \subseteq Clients
      BY <1>1, <1>2, FreshIsNew DEF Acquire, TypeOK
    <2> QED
      BY <1>1, <1>2, <1>4, <2>1 DEF TypeOK, handleVars, blockVars
  <1>11. FlagIsTrue'
    BY <1>1 DEF JInv, FlagIsTrue, blockVars
  <1> QED
    BY <1>7, <1>8, <1>9, <1>10, <1>11 DEF JInv

\* A call that returns leaves its handle with what the answer says.
LEMMA FinishKeeps == ASSUME JInv, NEW h \in Handles, Finish(h) PROVE JInv'
  <1> DEFINE c == call[h]
  <1>1. /\ h \in Slots /\ c \in CallType /\ c # NoCall /\ CallFits(h) /\ VersionFits(h)
        /\ HandleFits(h) /\ TypeOK /\ ClientsFit /\ Worker # h /\ Worker \in Slots
    BY JobAssumption DEF Finish, Settled, Answered, JInv, TypeOK, Slots
  <1>2. call' = [call EXCEPT ![h] = NoCall] /\ UNCHANGED <<job, backend, block, clientVars>>
    BY DEF Finish
  <1>3. \A t \in Slots \ {h} : call'[t] = call[t]
    BY <1>1, <1>2 DEF TypeOK
  <1>4. call'[h] = NoCall /\ Grows
    BY <1>1, <1>2, UnchangedGrows DEF TypeOK
  <1>5. \A t \in Slots : CallFits(t)' /\ VersionFits(t)'
    <2>1. CallFits(h)' /\ VersionFits(h)'
      BY <1>4 DEF CallFits, VersionFits
    <2> QED
      BY <1>1, <1>2, <1>3, <1>4, <2>1, CallsStay DEF JInv
  <1>6. /\ Result(h) \in {"returned", "already", "conflict", "no job", "error"}
        /\ Result(h) = "returned" =>
              c.status = "ok" \/ (c.status = "409" /\ c.verb = "report" /\ backend = "legacy")
        /\ Result(h) = "conflict" => c.status = "409" /\ c.verb = "amend"
        /\ Result(h) = "already" => c.status = "409" /\ c.verb = "report"
    BY <1>1 DEF Result, CallType, TypeOK
  <1>7. Proves(h) => job.outcome # None
    BY <1>1, <1>6 DEF Proves, CallFits
  <1>8. /\ known' = [known EXCEPT ![h] = IF Result(h) \in {"returned", "conflict"} THEN Recorded(h) ELSE @]
        /\ basis' = [basis EXCEPT ![h] =
              IF Result(h) = "conflict" THEN None
              ELSE IF Result(h) = "returned" /\ c.verb # "append" THEN c.content ELSE @]
        /\ reported' = (reported \/ (h = Block /\ Proves(h)))
    BY DEF Finish, Remember
  <1>9. FlagIsTrue'
    BY <1>2, <1>7, <1>8 DEF JInv, FlagIsTrue
  <1>10. foundNoJob' \in BOOLEAN
    BY <1>1 DEF Finish, Remember, RememberError, TypeOK
  <1>11. /\ Recorded(h) \in Nat \cup {None}
         /\ c.verb = "append" => Recorded(h) = known[h]
         /\ c.verb # "append" => Recorded(h) = c.version /\ c.content \in Outcomes
    BY <1>1 DEF Recorded, VersionFits, CallFits, CallType, TypeOK
  <1>12. TypeOK'
    <2>1. known' \in [Handles -> Nat \cup {None}]
      BY <1>1, <1>8, <1>11 DEF TypeOK
    <2>2. basis' \in [Handles -> Outcomes \cup {None}]
      BY <1>1, <1>8, <1>11 DEF TypeOK
    <2>3. reported' \in BOOLEAN
      BY <1>8
    <2>4. call' \in [Slots -> CallType \cup {NoCall}]
      BY <1>1, <1>2 DEF TypeOK
    <2> QED
      BY <1>1, <1>2, <1>10, <2>1, <2>2, <2>3, <2>4 DEF TypeOK, clientVars
  <1>13. \A g \in Handles : HandleFits(g)'
    <2>1. ASSUME NEW g \in Handles \ {h} PROVE HandleFits(g)'
      <3>1. g \in Slots /\ HandleFits(g) /\ call'[g] = call[g]
        BY <1>3 DEF JInv, Slots
      <3>2. known'[g] = known[g] /\ basis'[g] = basis[g] /\ job' = job /\ backend' = backend
        BY <1>1, <1>2, <1>8 DEF TypeOK
      <3> QED
        BY <3>1, <3>2 DEF HandleFits
    <2>2. HandleFits(h)'
      <3>1. /\ known'[h] = IF Result(h) \in {"returned", "conflict"} THEN Recorded(h) ELSE known[h]
            /\ basis'[h] = IF Result(h) = "conflict" THEN None
                           ELSE IF Result(h) = "returned" /\ c.verb # "append" THEN c.content ELSE basis[h]
            /\ job' = job /\ backend' = backend /\ call'[h] = NoCall
        BY <1>1, <1>2, <1>4, <1>8 DEF TypeOK
      <3>2. CASE Result(h) = "conflict"
        BY <3>1, <3>2 DEF HandleFits
      <3>3. CASE Result(h) = "returned" /\ c.verb # "append"
        <4>1. known'[h] = c.version /\ basis'[h] = c.content
          BY <1>11, <3>1, <3>3
        <4>2. backend = "legacy" => c.version = None
          BY <1>1 DEF VersionFits
        <4>3. c.status = "ok" \/ c.version = None
          BY <1>6, <3>3, <4>2
        <4>4. c.status = "ok" => /\ backend = "modern" => c.version # None
                                 /\ c.version # None => /\ c.version <= job.version
                                                        /\ c.version = job.version => job.outcome = c.content
          BY <1>1, <3>3 DEF VersionFits
        <4>5. backend = "modern" => c.status = "ok"
          BY <1>6, <3>3
        <4> QED
          BY <3>1, <4>1, <4>3, <4>4, <4>5 DEF HandleFits
      <3>4. CASE Result(h) = "returned" /\ c.verb = "append"
        BY <1>1, <1>11, <3>1, <3>4 DEF HandleFits
      <3>5. CASE Result(h) \notin {"returned", "conflict"}
        BY <1>1, <3>1, <3>5 DEF HandleFits
      <3> QED
        BY <3>2, <3>3, <3>4, <3>5
    <2> QED
      BY <2>1, <2>2
  <1>14. ClientsFit'
    BY <1>1, <1>2, <1>3, <1>4 DEF ClientsFit, clientVars
  <1> QED
    BY <1>5, <1>9, <1>12, <1>13, <1>14 DEF JInv
-----------------------------------------------------------------------------
(* The block, its clients and the worker.                                    *)

\* Steps that change neither calls nor handles keep the invariant when they keep types,
\* clients and the flag.
LEMMA RestKeeps ==
  ASSUME JInv, TypeOK', ClientsFit', FlagIsTrue', Grows,
         UNCHANGED <<backend, call, handleVars>>
  PROVE  JInv'
  <1>1. \A s \in Slots : CallFits(s)' /\ VersionFits(s)'
    BY CallsStay DEF JInv
  <1>2. \A h \in Handles : HandleFits(h)'
    <2>1. SUFFICES ASSUME NEW h \in Handles PROVE HandleFits(h)'
      OBVIOUS
    <2>2. HandleFits(h) /\ call'[h] = call[h]
      BY DEF JInv
    <2> QED
      BY <2>2 DEF HandleFits, Grows, JInv, TypeOK, handleVars
  <1> QED
    BY <1>1, <1>2 DEF JInv

\* Closing gives up only a client that nobody else works with.
LEMMA ClosingFits ==
  ASSUME TypeOK, ClientsFit, Close, UNCHANGED <<call, owns>>, call[Block] = NoCall, block' # "in"
  PROVE  ClientsFit' /\ client' \in Clients \cup {UserClient, None} /\ open' \subseteq Clients
  <1>1. CASE owns /\ client # None
    <2>1. client' = None /\ open' = open \ {client} /\ client # UserClient /\ open' \subseteq Clients
      BY <1>1 DEF Close, ClientsFit, TypeOK
    <2>2. call[Worker] # NoCall => call[Worker].client \in open' \cup {UserClient}
      BY <2>1 DEF ClientsFit
    <2>3. \A c \in open' : call[Worker] # NoCall /\ call[Worker].client = c
      BY <2>1 DEF ClientsFit
    <2>4. call[Worker] # NoCall => call[Worker].client # None
      BY <2>1, <2>2, JobAssumption
    <2> QED
      BY <2>1, <2>2, <2>3, <2>4, JobAssumption DEF ClientsFit
  <1>2. CASE ~(owns /\ client # None)
    BY <1>2 DEF Close, ClientsFit, TypeOK
  <1> QED
    BY <1>1, <1>2

LEMMA BlockKeeps ==
  ASSUME JInv, CreateJob \/ Reject \/ Enter \/ Leave \/ EndExit \/ EndAwait \/ CancelAwait \/ CloseHandle
  PROVE  JInv'
  <1> USE DEF JInv, handleVars, blockVars, clientVars
  <1>1. CASE CreateJob
    <2>1. job' = [job EXCEPT !.exists = TRUE] /\ UNCHANGED <<backend, call, handleVars, blockVars, block, clientVars>>
      BY <1>1 DEF CreateJob
    <2>2. /\ job' \in [exists : BOOLEAN, outcome : Outcomes \cup {None}, version : Nat, updates : Nat]
          /\ job'.outcome = job.outcome /\ job'.version = job.version /\ job'.updates = job.updates
      BY <2>1 DEF TypeOK
    <2>3. Grows
      BY <2>2 DEF Grows, TypeOK
    <2>4. TypeOK' /\ ClientsFit' /\ FlagIsTrue'
      BY <2>1, <2>2 DEF TypeOK, ClientsFit, FlagIsTrue
    <2> QED
      BY <2>1, <2>3, <2>4, RestKeeps
  <1>2. CASE Reject \/ EndAwait \/ CancelAwait
    <2>1. /\ UNCHANGED <<job, backend, call, handleVars, reported, clientVars>>
          /\ foundNoJob' \in BOOLEAN /\ block' \in {block, "out"}
      BY <1>2 DEF Reject, EndAwait, CancelAwait, TypeOK
    <2>2. TypeOK' /\ ClientsFit' /\ FlagIsTrue'
      BY <2>1 DEF TypeOK, ClientsFit, FlagIsTrue
    <2> QED
      BY <2>1, <2>2, UnchangedGrows, RestKeeps
  <1>3. CASE Enter
    <2>1. /\ block' = "in" /\ reported' = FALSE /\ foundNoJob' = FALSE /\ call[Block] = NoCall
          /\ known' = [known EXCEPT ![Block] = None] /\ basis' = [basis EXCEPT ![Block] = None]
          /\ owns' = (client # UserClient)
          /\ UNCHANGED <<job, backend, call, client, open>>
      BY <1>3 DEF Enter
    <2>2. TypeOK' /\ ClientsFit' /\ FlagIsTrue' /\ Grows
      BY <2>1, UnchangedGrows DEF TypeOK, ClientsFit, FlagIsTrue
    <2>3. \A s \in Slots : CallFits(s)' /\ VersionFits(s)'
      BY <2>1, <2>2, CallsStay
    <2>4. \A h \in Handles : HandleFits(h)'
      BY <2>1 DEF HandleFits, TypeOK
    <2> QED
      BY <2>2, <2>3, <2>4
  <1>4. CASE Leave \/ EndExit \/ CloseHandle
    <2>1. /\ UNCHANGED <<job, backend, call, handleVars, blockVars, owns>> /\ Close
          /\ block' = "out" /\ call[Block] = NoCall
      BY <1>4 DEF Leave, EndExit, CloseHandle
    <2>2. ClientsFit' /\ client' \in Clients \cup {UserClient, None} /\ open' \subseteq Clients
      BY <2>1, ClosingFits
    <2>3. TypeOK' /\ FlagIsTrue'
      BY <2>1, <2>2 DEF TypeOK, FlagIsTrue
    <2> QED
      BY <2>1, <2>2, <2>3, UnchangedGrows, RestKeeps
  <1> QED
    BY <1>1, <1>2, <1>3, <1>4

\* The worker starts with a client that the instance gives up, or with the caller's own.
LEMMA LeaveOnWorkerKeeps == ASSUME JInv, LeaveOnWorker PROVE JInv'
  <1> DEFINE new == NewCall("report", Failed, None, TheClient)
  <1>1. /\ TypeOK /\ ClientsFit /\ Worker \in Slots /\ Block \in Slots /\ Worker # Block
        /\ Failed \in Outcomes
    BY JobAssumption DEF JInv, Slots, Outcomes
  <1>2. /\ block = "in" /\ call[Block] = NoCall /\ call[Worker] = NoCall
        /\ open' = open \cup ({TheClient} \ {UserClient})
        /\ call' = [call EXCEPT ![Worker] = new] /\ HandOver /\ block' = "awaiting"
        /\ UNCHANGED <<job, backend, handleVars, blockVars>>
    BY DEF LeaveOnWorker, Quiet
  <1>3. TheClient \in Clients \cup {UserClient} /\ TheClient # None
        /\ (client # None => TheClient = client) /\ (client = None => TheClient \in Clients \ open)
    BY <1>1, FreshIsNew
  <1>4. new \in CallType /\ new.verb = "report" /\ new.content = Failed /\ new.client = TheClient
        /\ new.status = "none" /\ new.applied = 0 /\ new.version = None
    BY <1>1, <1>3, JobAssumption DEF NewCall, CallType
  <1> HIDE DEF new
  <1>5. new # NoCall /\ call'[Worker] = new /\ \A s \in Slots \ {Worker} : call'[s] = call[s]
    BY <1>1, <1>2, <1>4 DEF TypeOK, NoCall
  <1>6. CallFits(Worker)' /\ VersionFits(Worker)'
    BY <1>1, <1>4, <1>5 DEF CallFits, VersionFits
  <1>7. Grows /\ UNCHANGED backend
    BY <1>1, <1>2, UnchangedGrows
  <1>8. \A s \in Slots : CallFits(s)' /\ VersionFits(s)'
    BY <1>1, <1>5, <1>6, <1>7, CallsStay DEF JInv
  <1>9. \A h \in Handles : HandleFits(h)'
    <2>1. SUFFICES ASSUME NEW h \in Handles PROVE HandleFits(h)'
      OBVIOUS
    <2>2. HandleFits(h) /\ call'[h] = call[h]
      BY <1>5, JobAssumption DEF JInv, Slots
    <2> QED
      BY <1>2, <2>2 DEF HandleFits, handleVars
  <1>10. owns = (client # UserClient)
    BY <1>1, <1>2 DEF ClientsFit
  <1>11. \/ owns /\ client' = None /\ owns' = FALSE /\ TheClient \in Clients
         \/ ~owns /\ client' = UserClient /\ owns' = FALSE /\ TheClient = UserClient
    BY <1>1, <1>2, <1>3, <1>10, JobAssumption DEF HandOver, TypeOK
  <1>12. ClientsFit'
    BY <1>1, <1>2, <1>3, <1>4, <1>5, <1>11, JobAssumption DEF ClientsFit, TypeOK
  <1>13. TypeOK'
    BY <1>1, <1>2, <1>3, <1>4, <1>11 DEF TypeOK, handleVars, blockVars
  <1>14. FlagIsTrue'
    BY <1>2 DEF JInv, FlagIsTrue, blockVars
  <1> QED
    BY <1>8, <1>9, <1>12, <1>13, <1>14 DEF JInv

LEMMA FinishWorkerKeeps == ASSUME JInv, FinishWorker PROVE JInv'
  <1>1. /\ TypeOK /\ ClientsFit /\ Worker \in Slots /\ Block \in Slots /\ Worker # Block
        /\ call[Worker] # NoCall
    BY JobAssumption DEF JInv, Slots, FinishWorker, Settled, Answered
  <1>2. /\ call' = [call EXCEPT ![Worker] = NoCall] /\ open' = open \ {call[Worker].client}
        /\ UNCHANGED <<job, backend, handleVars, blockVars, block, client, owns>>
    BY DEF FinishWorker
  <1>3. call'[Worker] = NoCall /\ \A s \in Slots \ {Worker} : call'[s] = call[s]
    BY <1>1, <1>2 DEF TypeOK
  <1>4. Grows /\ UNCHANGED backend
    BY <1>1, <1>2, UnchangedGrows
  <1>5. CallFits(Worker)' /\ VersionFits(Worker)'
    BY <1>3 DEF CallFits, VersionFits
  <1>6. \A s \in Slots : CallFits(s)' /\ VersionFits(s)'
    BY <1>1, <1>3, <1>4, <1>5, CallsStay DEF JInv
  <1>7. \A h \in Handles : HandleFits(h)'
    <2>1. SUFFICES ASSUME NEW h \in Handles PROVE HandleFits(h)'
      OBVIOUS
    <2>2. HandleFits(h) /\ call'[h] = call[h]
      BY <1>3, JobAssumption DEF JInv, Slots
    <2> QED
      BY <1>2, <2>2 DEF HandleFits, handleVars
  <1>8. ClientsFit'
    BY <1>1, <1>2, <1>3, JobAssumption DEF ClientsFit, TypeOK
  <1>9. TypeOK' /\ FlagIsTrue'
    BY <1>1, <1>2, <1>3 DEF JInv, TypeOK, FlagIsTrue, handleVars, blockVars
  <1> QED
    BY <1>6, <1>7, <1>8, <1>9 DEF JInv

-----------------------------------------------------------------------------
(* The theorems.                                                             *)

LEMMA JobStarts == Init => JInv
  <1> SUFFICES ASSUME Init PROVE JInv
    OBVIOUS
  <1> USE DEF Init
  <1>1. TypeOK
    <2>1. job \in [exists : BOOLEAN, outcome : Outcomes \cup {None}, version : Nat, updates : Nat]
      OBVIOUS
    <2>2. owns \in BOOLEAN /\ client \in Clients \cup {UserClient, None} /\ open \subseteq Clients
      OBVIOUS
    <2>3. call \in [Slots -> CallType \cup {NoCall}]
      OBVIOUS
    <2> QED
      BY <2>1, <2>2, <2>3 DEF TypeOK
  <1>2. FlagIsTrue /\ ClientsFit
    BY JobAssumption DEF FlagIsTrue, ClientsFit, Slots
  <1>3. \A s \in Slots : CallFits(s) /\ VersionFits(s)
    BY DEF CallFits, VersionFits
  <1>4. \A h \in Handles : HandleFits(h)
    BY DEF HandleFits, Slots
  <1> QED
    BY <1>1, <1>2, <1>3, <1>4 DEF JInv

\* A call of a handle starts with an outcome, or with facts.
LEMMA CallKeeps == ASSUME JInv, NEW h \in Handles, Call(h) \/ (h = Block /\ LeaveReporting) PROVE JInv'
  <1>1. CASE Call(h)
    <2>1. block' \in {"out", "in", "exiting", "awaiting"} /\ (block' = "in" => block = "in")
      BY <1>1 DEF Call, JInv, TypeOK
    <2>2. ASSUME NEW c \in Contents, Start(h, "report", c) \/ Start(h, "amend", c) PROVE JInv'
      BY <2>1, <2>2, StartKeeps DEF Outcomes
    <2>3. CASE Start(h, "append", None)
      BY <2>1, <2>3, StartKeeps
    <2> QED
      BY <1>1, <2>2, <2>3 DEF Call
  <1>2. CASE h = Block /\ LeaveReporting
    BY <1>2, StartKeeps DEF LeaveReporting, Outcomes
  <1> QED
    BY <1>1, <1>2

LEMMA JobKeeps == JInv /\ [Next]_vars => JInv'
  <1> SUFFICES ASSUME JInv, [Next]_vars PROVE JInv'
    OBVIOUS
  <1>1. CASE \E h \in Handles : Call(h)
    BY <1>1, CallKeeps
  <1>2. CASE LeaveReporting
    BY <1>2, CallKeeps, JobAssumption
  <1>3. CASE \E s \in Slots : Network(s) \/ Transport(s)
    BY <1>3, ProcessKeeps, TurnAwayKeeps, RetryKeeps, ConfirmKeeps, FinishKeeps DEF Network, Transport, Finish
  <1>4. CASE FinishWorker \/ LeaveOnWorker
    BY <1>4, FinishWorkerKeeps, LeaveOnWorkerKeeps
  <1>5. CASE CreateJob \/ Reject \/ Enter \/ Leave \/ Exit \/ CancelAwait \/ CloseHandle
    BY <1>5, BlockKeeps DEF Exit
  <1>6. CASE UNCHANGED vars
    <2>1. TypeOK' /\ ClientsFit' /\ FlagIsTrue'
      BY <1>6 DEF JInv, TypeOK, ClientsFit, FlagIsTrue, vars, handleVars, blockVars, clientVars
    <2> QED
      BY <1>6, <2>1, UnchangedGrows, RestKeeps DEF JInv, vars
  <1> QED
    BY <1>1, <1>2, <1>3, <1>4, <1>5, <1>6 DEF Next

\* What calls, handles and clients are in every reachable state.
THEOREM JobInvariant == Spec => []JInv
  BY JobStarts, JobKeeps, PTL DEF Spec

\* The variables keep their types.
THEOREM JobTypes == Spec => []TypeOK
  <1>1. JInv => TypeOK
    BY DEF JInv
  <1> QED
    BY <1>1, JobInvariant, PTL

\* amend_outcome and append_outcome_metrics are applied at most once a call, whatever the
\* gateway hides, and were applied when they return.
THEOREM WritesAppliedOnce == Spec => []AppliedAtMostOnce
  <1>1. JInv => AppliedAtMostOnce
    BY DEF JInv, CallFits, AppliedAtMostOnce
  <1> QED
    BY <1>1, JobInvariant, PTL

\* A block that takes its outcome for reported, and so reports no crash, has one.
THEOREM ReportedMeansStored == Spec => []FlagIsTrue
  <1>1. JInv => FlagIsTrue
    BY DEF JInv
  <1> QED
    BY <1>1, JobInvariant, PTL

\* Against a backend with versions, a handle that wrote the outcome amends it under a lock.
THEOREM AmendmentsStayLocked == Spec => []LockIsKept
  <1>1. JInv => LockIsKept
    BY DEF JInv, HandleFits, LockIsKept
  <1> QED
    BY <1>1, JobInvariant, PTL

\* A detached worker and the instance it came from neither close each other's client nor
\* leave one open to nobody.
THEOREM ClientsAlwaysHeld == Spec => []ClientsAreHeld
  <1>1. JInv => ClientsAreHeld
    BY DEF JInv, ClientsFit, ClientsAreHeld
  <1> QED
    BY <1>1, JobInvariant, PTL
\* A call that goes on was applied in a step only if the backend accepted it in that step.
LEMMA AppliedByProcess ==
  ASSUME JInv, [Next]_vars, NEW h \in Handles, call[h] # NoCall, call'[h] # NoCall,
         call'[h].applied # call[h].applied
  PROVE  Process(h) /\ Verdict(call[h]) = "ok"
  <1> USE DEF JInv
  <1>1. h \in Slots /\ h # Worker /\ call[h] \in CallType /\ Worker \in Slots
    BY JobAssumption DEF Slots, TypeOK
  <1>2. ASSUME NEW s \in Slots, Process(s) PROVE Process(h) /\ Verdict(call[h]) = "ok"
    <2>1. PICK status \in {Verdict(call[s])} \cup Hidden(call[s].verb) :
             call' = [call EXCEPT ![s] = [call[s] EXCEPT
                !.at = "answered", !.status = status,
                !.version = IF status = Verdict(call[s]) THEN Carried(call[s]) ELSE None,
                !.applied = IF Verdict(call[s]) = "ok" THEN @ + 1 ELSE @]]
      BY <1>2 DEF Process
    <2>2. s = h
      BY <1>1, <2>1 DEF TypeOK
    <2>3. Verdict(call[h]) # "ok" => call'[h].applied = call[h].applied
      BY <1>1, <2>1, <2>2 DEF TypeOK, CallType
    <2> QED
      BY <1>2, <2>2, <2>3
  <1>3. ASSUME NEW s \in Slots, TurnAway(s) \/ Retry(s) \/ Confirm(s) \/ Finish(s) PROVE FALSE
    <2>1. s # h => call'[h] = call[h]
      BY <1>1, <1>3 DEF TurnAway, Retry, Confirm, Finish, TypeOK
    <2>2. CASE TurnAway(h) \/ Confirm(h)
      BY <1>1, <2>2 DEF TurnAway, Confirm, TypeOK, CallType
    <2>3. CASE Retry(h)
      BY <1>1, <2>3 DEF Retry, TypeOK, CallType
    <2>4. CASE Finish(h)
      BY <1>1, <2>4 DEF Finish, TypeOK
    <2> QED
      BY <1>3, <2>1, <2>2, <2>3, <2>4
  <1>4. ASSUME NEW g \in Handles, NEW verb, NEW content, Start(g, verb, content) PROVE FALSE
    <2>1. g # h
      BY <1>4 DEF Start, Quiet
    <2> QED
      BY <1>1, <1>4, <2>1 DEF Start, TypeOK
  <1>5. ~(\E g \in Handles : Call(g)) /\ ~LeaveReporting
    BY <1>4, JobAssumption DEF Call, LeaveReporting
  <1>6. ~FinishWorker /\ ~LeaveOnWorker
    BY <1>1 DEF FinishWorker, LeaveOnWorker, TypeOK
  <1>7. ~(CreateJob \/ Reject \/ Enter \/ Leave \/ EndExit \/ EndAwait \/ CancelAwait \/ CloseHandle)
    BY DEF CreateJob, Reject, Enter, Leave, EndExit, EndAwait, CancelAwait, CloseHandle
  <1>8. ~UNCHANGED vars
    BY DEF vars
  <1> QED
    BY <1>2, <1>3, <1>5, <1>6, <1>7, <1>8 DEF Next, Network, Transport, Exit

\* The optimistic lock works: an amendment that carries a version replaces what its handle
\* left there, or an outcome its handle was told of by a conflict.
THEOREM AmendmentsLoseNothing == Spec => NoLostUpdate
  <1>1. JInv /\ [Next]_vars =>
          [\A h \in Handles :
             /\ call[h] # NoCall /\ call[h].verb = "amend" /\ call[h].expect # None
             /\ call'[h] # NoCall /\ call'[h].applied # call[h].applied
             => basis[h] \in {job.outcome, None}]_vars
    <2>1. SUFFICES ASSUME JInv, [Next]_vars, NEW h \in Handles,
                          call[h] # NoCall, call[h].verb = "amend", call[h].expect # None,
                          call'[h] # NoCall, call'[h].applied # call[h].applied
                   PROVE  basis[h] \in {job.outcome, None}
      OBVIOUS
    <2>2. Verdict(call[h]) = "ok"
      BY <2>1, AppliedByProcess
    <2>3. call[h].expect = job.version
      BY <2>1, <2>2 DEF Verdict, JInv, TypeOK
    <2>4. call[h].expect = known[h]
      BY <2>1 DEF JInv, HandleFits
    <2> QED
      BY <2>1, <2>3, <2>4 DEF JInv, HandleFits
  <1> QED
    BY <1>1, JobInvariant, PTL DEF Spec, NoLostUpdate

\* What an outcome call answers is so, also when the answer to an earlier try was lost.
THEOREM AnswersHold == Spec => AnswersAreTrue
  <1>1. JInv /\ [Next]_vars =>
          [\A s \in Slots : call[s] # NoCall /\ call'[s] = NoCall =>
             /\ Result(s) = "returned" /\ call[s].verb = "report" /\ backend = "modern"
                => call[s].applied = 1 \/ job.updates > 0 \/ job.outcome = call[s].content
             /\ Result(s) = "conflict" => call[s].applied = 0
             /\ Result(s) = "already" => job.outcome # None]_vars
    <2>1. SUFFICES ASSUME JInv, NEW s \in Slots, call[s] # NoCall
                   PROVE  /\ Result(s) = "returned" /\ call[s].verb = "report" /\ backend = "modern"
                             => call[s].applied = 1 \/ job.updates > 0 \/ job.outcome = call[s].content
                          /\ Result(s) = "conflict" => call[s].applied = 0
                          /\ Result(s) = "already" => job.outcome # None
      OBVIOUS
    <2>2. CallFits(s)
      BY <2>1 DEF JInv
    <2>3. /\ Result(s) = "returned" =>
                call[s].status = "ok" \/ (call[s].status = "409" /\ call[s].verb = "report" /\ backend # "modern")
          /\ Result(s) = "conflict" => call[s].status = "409" /\ call[s].verb = "amend"
          /\ Result(s) = "already" => call[s].status = "409" /\ call[s].verb = "report"
      BY <2>1 DEF Result
    <2> QED
      BY <2>1, <2>2, <2>3 DEF CallFits
  <1> QED
    BY <1>1, JobInvariant, PTL DEF Spec, AnswersAreTrue
=============================================================================
