------------------------ MODULE EnforcementCacheProofs ------------------------
(* Theorems about EnforcementCache, for every set of teams and callers, with or *)
(* without a cache directory, and however often the rare events happen.  Those  *)
(* that a switch of team can break name the window it would have to fall in:    *)
(* OwnerReadOnce, AdoptedAtOnce.                                                *)
EXTENDS EnforcementCache, TLAPS

-----------------------------------------------------------------------------
(* The values a step writes have their types.                                *)

(* Not initialised and torn are told apart from every payload. *)
LEMMA NoRulesType == NoRules \in MaybeRules /\ NoRules \notin Payload /\ Torn \notin Payload
  BY CacheAssumption DEF CacheAssumption, MaybeRules, NoRules, Torn, Payload

(* A poller between two refreshes is a state of the poller, wherever it is ... *)
LEMMA NoPollerType ==
    ASSUME NEW pc \in {"none", "loop", "clear", "stopcheck", "wait"}
    PROVE  [NoPoller EXCEPT !.pc = pc] \in PollerState
  BY NoRulesType DEF NoPoller, PollerState, Someone

(* ... and so is the absence of one. *)
LEMMA NoPollerItself == NoPoller \in PollerState
  BY NoRulesType DEF NoPoller, PollerState, Someone

(* A poller that only moves on keeps its type. *)
LEMMA PollGotoType ==
    ASSUME poller \in PollerState,
           NEW pc \in {"loop", "fetch", "failed", "install", "save", "release", "wait"}
    PROVE  [poller EXCEPT !.pc = pc] \in PollerState
  BY DEF PollerState

(* A check that moves on with nothing in hand keeps the type of checks. *)
LEMMA GotoType ==
    ASSUME checks \in [Callers -> CheckState], NEW c \in Callers,
           NEW pc \in {"idle", "wake", "load", "read", "ensure", "rules", "nudge"}, Goto(c, pc)
    PROVE  checks' \in [Callers -> CheckState]
<1>1. [IdleCheck EXCEPT !.pc = pc] \in CheckState
  BY NoRulesType DEF IdleCheck, CheckState, Someone
<1> QED  BY <1>1 DEF Goto

(* So do the checks of a new process. *)
LEMMA IdleType == [c \in Callers |-> IdleCheck] \in [Callers -> CheckState]
  BY NoRulesType DEF IdleCheck, CheckState, Someone

-----------------------------------------------------------------------------
(* Type correctness.                                                         *)

(* The initial state has the types. *)
LEMMA InitType == Init => TypeOK
<1> SUFFICES ASSUME Init PROVE TypeOK  OBVIOUS
<1> USE DEF Init
<1>1. poller \in PollerState /\ checks \in [Callers -> CheckState]
  BY NoPollerItself, IdleType
<1>2. saved \in [Teams -> Files]
  <2>1. ASSUME NEW t \in Teams PROVE Saved(t) \in Files
    <3>1. [team |-> t, version |-> 0] \in Payload
      BY CacheAssumption DEF CacheAssumption, Payload, Version
    <3> QED  BY <3>1, NoRulesType DEF Saved, Files, MaybeRules
  <2> QED  BY <2>1
<1>3. served \in [Teams -> Version] /\ left \in [Rare -> Nat] /\ team \in Teams
  BY CacheAssumption DEF CacheAssumption, Version
<1>4. during \in [Callers -> SUBSET Teams]
  OBVIOUS
<1>5. /\ cacheOwner \in Someone /\ cooldownOwner \in Someone /\ heldOff \in Someone
      /\ inspection \in Someone
  BY DEF Someone
<1> QED  BY <1>1, <1>2, <1>3, <1>4, <1>5, NoRulesType DEF TypeOK

(* A step of a check keeps them. *)
LEMMA CheckType ==
    ASSUME TypeOK, NEW c \in Callers, Check(c)
    PROVE  TypeOK'
<1> USE DEF TypeOK, At, envVars, cacheVars, cooldownVars, signalVars, threadVars
<1>0. checks[c] \in CheckState
  OBVIOUS
<1>1. CASE BeginCheck(c)
  <2>1. [IdleCheck EXCEPT !.pc = "forget", !.owner = team] \in CheckState
    BY NoRulesType DEF IdleCheck, CheckState, Someone
  <2>2. checks' \in [Callers -> CheckState]
    BY <1>1, <2>1, GotoType DEF BeginCheck
  <2>3. during' \in [Callers -> SUBSET Teams]
    BY <1>1 DEF BeginCheck
  <2> QED  BY <1>1, <2>2, <2>3 DEF BeginCheck
<1>2. CASE Forget(c)
  <2>1. checks' \in [Callers -> CheckState]
    BY <1>2, GotoType DEF Forget
  <2>2. checks[c].owner \in Someone
    BY <1>0 DEF CheckState
  <2> QED  BY <1>2, <2>1, <2>2, NoRulesType DEF Forget, DropRules, Someone
<1>3. CASE WakePoller(c)  BY <1>3, GotoType DEF WakePoller
<1>4. CASE BeginLoad(c)   BY <1>4, GotoType DEF BeginLoad
<1>5. CASE ReadRules(c)
  <2>1. CASE CacheDir /\ saved[team].rules \in Payload
    <3>1. [IdleCheck EXCEPT !.pc = "departments", !.owner = team, !.rules = saved[team].rules]
            \in CheckState
      BY <2>1, NoRulesType DEF IdleCheck, CheckState, Someone, MaybeRules
    <3> QED  BY <1>5, <2>1, <3>1 DEF ReadRules
  <2>2. CASE ~(CacheDir /\ saved[team].rules \in Payload)
    BY <1>5, <2>2, GotoType DEF ReadRules
  <2> QED  BY <2>1, <2>2
<1>6. CASE ReadDepartments(c)
  <2> DEFINE d == PairedDepartments(checks[c].rules, saved[checks[c].owner].departments)
  <2>1. d \in MaybeRules
    BY <1>0, NoRulesType DEF PairedDepartments, CheckState
  <2>2. [checks EXCEPT ![c].pc = "install", ![c].departments = d] \in [Callers -> CheckState]
    BY <1>0, <2>1 DEF CheckState
  <2> QED  BY <1>6, <2>2 DEF ReadDepartments
<1>7. CASE InstallSaved(c)
  <2>1. checks' \in [Callers -> CheckState]
    BY <1>7, GotoType DEF InstallSaved
  <2>2. checks[c].owner \in Someone /\ checks[c].rules \in MaybeRules
          /\ checks[c].departments \in MaybeRules
    BY <1>0 DEF CheckState
  <2> QED  BY <1>7, <2>1, <2>2 DEF InstallSaved
<1>8. CASE EnsurePoller(c)
  BY <1>8, GotoType, NoPollerType DEF EnsurePoller
<1>9. CASE GetRules(c)
  <2>1. checks' \in [Callers -> CheckState]
    BY <1>9, GotoType DEF GetRules
  <2> QED  BY <1>9, <2>1 DEF GetRules
<1>10. CASE Nudge(c)  BY <1>10, GotoType DEF Nudge
<1> QED  BY <1>1, <1>2, <1>3, <1>4, <1>5, <1>6, <1>7, <1>8, <1>9, <1>10 DEF Check

(* So does a step of the poller, if its requests go to a team. *)
LEMMA PollType ==
    ASSUME TypeOK, Polling("fetch") => poller.target \in Teams, Poll
    PROVE  TypeOK'
<1> USE DEF TypeOK, Polling, pollOnly, envVars, cacheVars, cooldownVars, signalVars, threadVars
<1>0. poller.owner \in Someone /\ poller.target \in Someone /\ poller.got \in MaybeRules
  BY DEF PollerState
<1>1. CASE PollStops      BY <1>1, NoPollerItself DEF PollStops
<1>2. CASE PollSkips      BY <1>2, NoPollerType DEF PollSkips
<1>3. CASE BeginRefresh
  <2>1. poller' \in PollerState
    <3>1. [pc |-> "target", owner |-> team, target |-> Nobody, got |-> NoRules, step |-> 0]
            \in PollerState
      BY NoRulesType DEF PollerState, Someone
    <3> QED  BY <1>3, <3>1 DEF BeginRefresh, NoPoller
  <2> QED  BY <1>3, <2>1 DEF BeginRefresh
<1>4. CASE BeginFetch
  <2>1. poller' \in PollerState
    BY <1>4 DEF BeginFetch, PollerState, Someone
  <2> QED  BY <1>4, <2>1 DEF BeginFetch
<1>5. CASE FetchFails
  <2>1. poller' \in PollerState
    BY <1>5 DEF FetchFails, PollerState, Someone
  <2> QED  BY <1>5, <2>1 DEF FetchFails
<1>6. CASE FetchDeclined
  <2>1. poller' \in PollerState
    BY <1>6 DEF FetchDeclined, PollerState, Someone
  <2> QED  BY <1>0, <1>6, <2>1 DEF FetchDeclined, ExtendCooldown, HoldOff, MayInstall
<1>7. CASE BackOff
  BY <1>0, <1>7, PollGotoType DEF BackOff, PollGoto, ExtendCooldown, HoldOff, MayInstall
<1>8. CASE RecheckOwner   BY <1>8, PollGotoType DEF RecheckOwner, PollGoto
<1>9. CASE InstallFetched
  <2>1. poller' \in PollerState
    BY <1>9, PollGotoType DEF InstallFetched, PollGoto
  <2> QED  BY <1>0, <1>9, <2>1 DEF InstallFetched
<1>10. CASE Save
  <2>1. poller' \in PollerState
    <3>1. poller.step \in 0 .. 3
      BY DEF PollerState
    <3>2. CASE poller.step < 3
      <4>1. poller.step + 1 \in 0 .. 3
        BY <3>1, <3>2
      <4> QED  BY <1>10, <3>2, <4>1 DEF Save, PollerState
    <3>3. CASE ~(poller.step < 3)
      <4>1. 0 \in 0 .. 3
        OBVIOUS
      <4> QED  BY <1>10, <3>3, <4>1 DEF Save, PollerState
    <3> QED  BY <3>2, <3>3
  <2>2. ASSUME NEW f \in Files PROVE Written(f, poller.step, poller.got) \in Files
    <3>1. poller.step \in 0 .. 3
      BY DEF PollerState
    <3> QED  BY <1>0, <3>1 DEF Written, Files
  <2>3. saved' \in [Teams -> Files]
    BY <1>10, <2>2 DEF Save
  <2> QED  BY <1>10, <2>1, <2>3 DEF Save
<1>11. CASE SaveFails
  <2>1. poller' \in PollerState
    <3>1. 0 \in 0 .. 3
      OBVIOUS
    <3> QED  BY <1>11, <3>1 DEF SaveFails, PollerState
  <2> QED  BY <1>11, <2>1 DEF SaveFails
<1>12. CASE EndRefresh
  <2>1. poller' \in PollerState
    BY <1>12, NoRulesType DEF EndRefresh, PollerState
  <2> QED  BY <1>12, <2>1 DEF EndRefresh
<1>13. CASE ClearWakeup   BY <1>13, NoPollerType DEF ClearWakeup
<1>14. CASE CheckStop     BY <1>14, NoPollerType, NoPollerItself DEF CheckStop
<1>15. CASE Woken         BY <1>15, PollGotoType DEF Woken, PollGoto
<1>16. CASE WaitEnds      BY <1>16, PollGotoType DEF WaitEnds, PollGoto
<1>17. CASE FetchAnswered
  <2>1. [team |-> poller.target, version |-> served[poller.target]] \in MaybeRules
    BY <1>17 DEF FetchAnswered, MaybeRules, Payload
  <2>2. poller' \in PollerState
    BY <1>17, <2>1 DEF FetchAnswered, PollerState, Someone
  <2> QED  BY <1>17, <2>2 DEF FetchAnswered
<1> QED  BY <1>1, <1>2, <1>3, <1>4, <1>5, <1>6, <1>7, <1>8, <1>9, <1>10, <1>11, <1>12, <1>13,
            <1>14, <1>15, <1>16, <1>17 DEF Poll

(* And whatever else happens around the cache. *)
LEMMA EnvironmentType ==
    ASSUME TypeOK, Environment
    PROVE  TypeOK'
<1> USE DEF TypeOK, envVars, cacheVars, cooldownVars, signalVars, threadVars
<1>0. ASSUME NEW what \in Rare, Spend(what) PROVE left' \in [Rare -> Nat]
  BY <1>0 DEF Spend, Rare
<1>1. CASE StopPolling
  BY <1>0, <1>1 DEF StopPolling, Rare
<1>2. CASE StopWakes        BY <1>2 DEF StopWakes
<1>3. CASE BeginInspection
  BY <1>0, <1>3 DEF BeginInspection, Rare, Someone
<1>4. ASSUME NEW declined \in BOOLEAN, EndInspection(declined) PROVE TypeOK'
  BY <1>4 DEF EndInspection, ExtendCooldown, HoldOff, MayInstall, Someone
<1>5. ASSUME NEW t \in Teams, SwitchTeam(t) PROVE TypeOK'
  BY <1>0, <1>5 DEF SwitchTeam, Rare
<1>6. ASSUME NEW t \in Teams, ServerChanges(t) PROVE TypeOK'
  BY <1>6, CacheAssumption DEF CacheAssumption, ServerChanges, Version
<1>7. CASE CacheExpires     BY <1>7 DEF CacheExpires
<1>8. CASE BackoffPasses    BY <1>8 DEF BackoffPasses, Someone
<1>9. ASSUME NoThreads
      PROVE  /\ poller' \in PollerState /\ checks' \in [Callers -> CheckState]
             /\ stopper' = "idle" /\ inspection' = Nobody /\ during' \in [Callers -> SUBSET Teams]
  BY <1>9, NoPollerItself, IdleType DEF NoThreads
<1>10. CASE Restart  BY <1>0, <1>9, <1>10, NoRulesType DEF Restart, Rare, Someone
<1>11. CASE Fork     BY <1>0, <1>9, <1>11 DEF Fork, FreeRefreshLock, Rare, Someone
<1> QED  BY <1>1, <1>2, <1>3, <1>4, <1>5, <1>6, <1>7, <1>8, <1>10, <1>11 DEF Environment

(* Whoever reads the team of the process remembers a team. *)
OwnersKnown ==
    /\ Polling("fetch") => poller.target \in Teams
    /\ poller.pc \in {"target", "fetch", "fetched", "failed", "install", "save"}
           => poller.owner \in Teams
    /\ \A c \in Callers : checks[c].pc \in {"forget", "departments", "install"}
           => checks[c].owner \in Teams

Typed == TypeOK /\ OwnersKnown

(* It holds of the initial state ... *)
LEMMA InitTyped == Init => Typed
  BY InitType DEF Init, Typed, OwnersKnown, Polling, NoPoller, IdleCheck

(* ... and every step keeps it ... *)
LEMMA NextTyped ==
    ASSUME Typed, [Next]_vars
    PROVE  Typed'
<1> USE DEF Typed
<1>1. CASE UNCHANGED vars
  BY <1>1 DEF TypeOK, OwnersKnown, Polling, At, vars, envVars, cacheVars, cooldownVars,
              signalVars, threadVars
<1>2. ASSUME NEW c \in Callers, Check(c) PROVE Typed'
  <2>1. TypeOK'
    BY <1>2, CheckType
  <2>2. poller' = poller \/ poller'.pc = "loop"
    BY <1>2 DEF Check, BeginCheck, Forget, WakePoller, BeginLoad, ReadRules, ReadDepartments,
       InstallSaved, EnsurePoller, GetRules, Nudge, NoPoller
  <2>3. /\ \A d \in Callers \ {c} : checks'[d] = checks[d]
        /\ checks'[c].pc \in {"forget", "departments", "install"} => checks'[c].owner \in Teams
    <3> USE DEF TypeOK, OwnersKnown, At, Goto, IdleCheck
    <3>1. checks[c] \in CheckState
      OBVIOUS
    <3>2. CASE ReadRules(c)
      <4>1. CASE CacheDir /\ saved[team].rules \in Payload
        BY <3>2, <4>1, ZenonT(60) DEF ReadRules
      <4>2. CASE ~(CacheDir /\ saved[team].rules \in Payload)
        BY <3>2, <4>2 DEF ReadRules
      <4> QED  BY <4>1, <4>2
    <3>3. CASE ReadDepartments(c)
      <4>1. checks[c].owner \in Teams
        BY <3>3 DEF ReadDepartments
      <4> QED  BY <3>1, <3>3, <4>1 DEF ReadDepartments, CheckState
    <3>4. CASE BeginCheck(c)
      <4>1. CASE cacheOwner = team
        BY <3>4, <4>1 DEF BeginCheck
      <4>2. CASE cacheOwner # team
        BY <3>4, <4>2, ZenonT(60) DEF BeginCheck
      <4> QED  BY <4>1, <4>2
    <3>5. CASE Forget(c)
      <4>1. CASE MayInstall(checks[c].owner)
        BY <3>5, <4>1 DEF Forget
      <4>2. CASE ~MayInstall(checks[c].owner)
        BY <3>5, <4>2 DEF Forget
      <4> QED  BY <4>1, <4>2
    <3>6. CASE WakePoller(c) \/ InstallSaved(c)
      BY <3>6 DEF WakePoller, InstallSaved
    <3>8. CASE BeginLoad(c)
      BY <3>8 DEF BeginLoad
    <3>7. CASE EnsurePoller(c) \/ GetRules(c) \/ Nudge(c)
      BY <3>7 DEF EnsurePoller, GetRules, Nudge
    <3> QED  BY <1>2, <3>2, <3>3, <3>4, <3>5, <3>6, <3>7, <3>8 DEF Check
  <2>4. OwnersKnown'
    BY <2>2, <2>3 DEF OwnersKnown, Polling
  <2> QED  BY <2>1, <2>4
<1>3. CASE Poll
  <2>1. TypeOK'
    BY <1>3, PollType DEF OwnersKnown
  <2>2. checks' = checks
    BY <1>3 DEF Poll, PollStops, PollSkips, BeginRefresh, BeginFetch, FetchAnswered,
       FetchFails, FetchDeclined, BackOff, RecheckOwner, InstallFetched, Save, SaveFails,
       EndRefresh, ClearWakeup, CheckStop, Woken, WaitEnds, pollOnly
  <2>3. \/ poller'.pc \in {"none", "loop", "release", "clear", "stopcheck", "wait"}
        \/ poller'.pc = "target" /\ poller'.owner \in Teams
        \/ /\ poller'.pc = "fetch" /\ poller'.target \in Teams
           /\ poller.pc = "target" /\ poller'.owner = poller.owner
        \/ /\ poller'.pc \in {"fetched", "failed", "install", "save"}
           /\ poller.pc \in {"fetch", "fetched", "install", "save"} /\ poller'.owner = poller.owner
    <3> USE DEF TypeOK, Polling, PollGoto, NoPoller, PollerState
    <3>1. CASE PollStops \/ PollSkips
      BY <3>1 DEF PollStops, PollSkips
    <3>11. CASE BeginRefresh
      BY <3>11 DEF BeginRefresh
    <3>2. CASE BeginFetch
      BY <3>2 DEF BeginFetch
    <3>3. CASE FetchAnswered
      BY <3>3 DEF FetchAnswered
    <3>4. CASE FetchFails \/ FetchDeclined
      BY <3>4 DEF FetchFails, FetchDeclined
    <3>5. CASE BackOff \/ RecheckOwner
      BY <3>5 DEF BackOff, RecheckOwner
    <3>6. CASE InstallFetched
      BY <3>6 DEF InstallFetched
    <3>7. CASE Save
      BY <3>7 DEF Save
    <3>8. CASE SaveFails \/ EndRefresh
      BY <3>8 DEF SaveFails, EndRefresh
    <3>9. CASE ClearWakeup \/ CheckStop
      BY <3>9 DEF ClearWakeup, CheckStop
    <3>10. CASE Woken \/ WaitEnds
      BY <3>10 DEF Woken, WaitEnds
    <3> QED  BY <1>3, <3>1, <3>2, <3>3, <3>4, <3>5, <3>6, <3>7, <3>8, <3>9, <3>10, <3>11 DEF Poll
  <2>4. OwnersKnown'
    BY <2>2, <2>3 DEF OwnersKnown, Polling
  <2> QED  BY <2>1, <2>4
<1>4. CASE Environment
  <2>1. TypeOK'
    BY <1>4, EnvironmentType
  <2>2. \/ poller' = poller /\ checks' = checks
        \/ poller' = NoPoller /\ checks' = [c \in Callers |-> IdleCheck]
    BY <1>4 DEF Environment, StopPolling, StopWakes, BeginInspection, EndInspection, SwitchTeam,
       ServerChanges, CacheExpires, BackoffPasses, Restart, Fork, NoThreads, threadVars
  <2>3. OwnersKnown'
    BY <2>2 DEF OwnersKnown, Polling, NoPoller, IdleCheck
  <2> QED  BY <2>1, <2>3
<1> QED  BY <1>1, <1>2, <1>3, <1>4 DEF Next

(* ... so it always holds. *)
LEMMA AlwaysTyped == Spec => []Typed
  BY InitTyped, NextTyped, PTL DEF Spec

(* Type correctness: TypeOK holds for every value of the constants. *)
THEOREM TypeCorrect == Spec => []TypeOK
<1>1. Typed => TypeOK
  BY DEF Typed
<1> QED  BY <1>1, AlwaysTyped, PTL

-----------------------------------------------------------------------------
(* StopNeverMissed.                                                          *)

(* It is inductive as it stands: the wait is only entered with the stop event *)
(* clear, and the wake-up is only cleared on the way to look at that event.   *)
LEMMA StopInitially == Init => StopNeverMissed
  BY DEF Init, StopNeverMissed, Polling, NoPoller

(* A check starts a poller only where none is, and not in its wait. *)
LEMMA StopSurvivesCheck ==
    ASSUME StopNeverMissed, poller \in PollerState, NEW c \in Callers, Check(c)
    PROVE  StopNeverMissed'
<1> USE DEF StopNeverMissed, Polling, signalVars
<1>1. CASE EnsurePoller(c)
  <2>1. CASE poller.pc = "none"
    BY <1>1, <2>1 DEF EnsurePoller, NoPoller
  <2>2. CASE poller.pc # "none"
    <3>1. UNCHANGED <<stopEvent, poller, wakeup, stopper>>
      BY <1>1, <2>2 DEF EnsurePoller
    <3> QED  BY <3>1
  <2> QED  BY <2>1, <2>2
<1>2. CASE Forget(c)
  BY <1>2 DEF Forget, DropRules
<1>3. CASE BeginCheck(c) \/ WakePoller(c) \/ BeginLoad(c) \/ ReadRules(c) \/ ReadDepartments(c)
  BY <1>3 DEF BeginCheck, WakePoller, BeginLoad, ReadRules, ReadDepartments
<1>4. CASE InstallSaved(c) \/ GetRules(c) \/ Nudge(c)
  BY <1>4 DEF InstallSaved, GetRules, Nudge
<1> QED  BY <1>1, <1>2, <1>3, <1>4 DEF Check

(* The poller enters its wait by CheckStop alone, which looks at the stop event. *)
LEMMA StopSurvivesPoll ==
    ASSUME StopNeverMissed, poller \in PollerState, Poll
    PROVE  StopNeverMissed'
<1> USE DEF StopNeverMissed, Polling, PollGoto, signalVars, pollOnly, PollerState
<1>1. CASE CheckStop
  BY <1>1 DEF CheckStop, StopSeen, NoPoller
<1>2. ASSUME ~CheckStop PROVE poller'.pc # "wait"
  <2>1. CASE PollStops \/ PollSkips
    BY <2>1 DEF PollStops, PollSkips, NoPoller
  <2>2. CASE BeginRefresh \/ ClearWakeup
    BY <2>2 DEF BeginRefresh, ClearWakeup, NoPoller
  <2>3. CASE BeginFetch \/ FetchAnswered
    BY <2>3 DEF BeginFetch, FetchAnswered
  <2>4. CASE FetchFails \/ FetchDeclined \/ BackOff
    BY <2>4 DEF FetchFails, FetchDeclined, BackOff
  <2>5. CASE RecheckOwner \/ InstallFetched
    BY <2>5 DEF RecheckOwner, InstallFetched
  <2>6. CASE Save
    BY <2>6 DEF Save
  <2>7. CASE SaveFails \/ EndRefresh \/ Woken \/ WaitEnds
    BY <2>7 DEF SaveFails, EndRefresh, Woken, WaitEnds
  <2> QED  BY <1>2, <2>1, <2>2, <2>3, <2>4, <2>5, <2>6, <2>7 DEF Poll
<1> QED  BY <1>1, <1>2

(* stop_polling sets the event before it wakes, and is in between meanwhile. *)
LEMMA StopSurvivesEnvironment ==
    ASSUME StopNeverMissed, Environment
    PROVE  StopNeverMissed'
<1> USE DEF StopNeverMissed, Polling, signalVars, threadVars
<1>1. CASE StopPolling \/ StopWakes \/ BeginInspection
  BY <1>1 DEF StopPolling, StopWakes, BeginInspection
<1>2. ASSUME NEW declined \in BOOLEAN, EndInspection(declined) PROVE StopNeverMissed'
  BY <1>2 DEF EndInspection
<1>3. ASSUME NEW t \in Teams, SwitchTeam(t) \/ ServerChanges(t) PROVE StopNeverMissed'
  BY <1>3 DEF SwitchTeam, ServerChanges
<1>4. CASE CacheExpires \/ BackoffPasses
  BY <1>4 DEF CacheExpires, BackoffPasses
<1>5. CASE Restart \/ Fork
  BY <1>5 DEF Restart, Fork, NoThreads, NoPoller
<1> QED  BY <1>1, <1>2, <1>3, <1>4, <1>5 DEF Environment

(* A stop_polling is never missed by a poller that goes to wait: for any number of *)
(* callers, stops, switches, forks and restarts, it is woken or about to be.       *)
THEOREM StopIsNeverMissed == Spec => []StopNeverMissed
<1>1. Typed /\ StopNeverMissed /\ [Next]_vars => StopNeverMissed'
  <2> SUFFICES ASSUME Typed, StopNeverMissed, [Next]_vars PROVE StopNeverMissed'
    OBVIOUS
  <2>1. poller \in PollerState
    BY DEF Typed, TypeOK
  <2>2. CASE UNCHANGED vars
    BY <2>2 DEF StopNeverMissed, Polling, vars, signalVars, threadVars
  <2>3. CASE Next
    BY <2>1, <2>3, StopSurvivesCheck, StopSurvivesPoll, StopSurvivesEnvironment DEF Next
  <2> QED  BY <2>2, <2>3
<1> QED  BY <1>1, StopInitially, AlwaysTyped, PTL DEF Spec

-----------------------------------------------------------------------------
(* MapsMatchRules.                                                           *)

(* What a check carries from the files to the cache is a matching pair as well. *)
PairsMatch ==
    /\ MapsMatchRules
    /\ \A c \in Callers : checks[c].departments \in {NoRules, checks[c].rules}

(* There are no maps at first. *)
LEMMA PairsInitially == Init => PairsMatch
  BY DEF Init, PairsMatch, MapsMatchRules, IdleCheck

(* A check pairs the maps with the rules it has read, and installs both at once. *)
LEMMA PairsSurviveCheck ==
    ASSUME PairsMatch, checks \in [Callers -> CheckState], NEW c \in Callers, Check(c)
    PROVE  PairsMatch'
<1> USE DEF PairsMatch, MapsMatchRules, Goto, IdleCheck, cacheVars
<1>0. checks[c] \in CheckState
  OBVIOUS
<1>1. CASE BeginCheck(c)
  <2>1. CASE cacheOwner = team
    BY <1>1, <2>1 DEF BeginCheck
  <2>2. CASE cacheOwner # team
    BY <1>1, <2>2 DEF BeginCheck
  <2> QED  BY <2>1, <2>2
<1>2. CASE Forget(c)
  <2>1. CASE MayInstall(checks[c].owner)
    BY <1>2, <2>1 DEF Forget
  <2>2. CASE ~MayInstall(checks[c].owner)
    BY <1>2, <2>2 DEF Forget, DropRules
  <2> QED  BY <2>1, <2>2
<1>3. CASE WakePoller(c)  BY <1>3 DEF WakePoller
<1>4. CASE BeginLoad(c)   BY <1>4 DEF BeginLoad
<1>5. CASE ReadRules(c)   BY <1>5 DEF ReadRules
<1>6. CASE ReadDepartments(c)
  <2> DEFINE d == PairedDepartments(checks[c].rules, saved[checks[c].owner].departments)
  <2>1. d \in {NoRules, checks[c].rules}
    BY DEF PairedDepartments
  <2>2. checks' = [checks EXCEPT ![c].pc = "install", ![c].departments = d]
    BY <1>6 DEF ReadDepartments
  <2>3. checks'[c].departments = d /\ checks'[c].rules = checks[c].rules
    BY <1>0, <2>2 DEF CheckState
  <2>4. \A b \in Callers \ {c} : checks'[b] = checks[b]
    BY <2>2
  <2>5. UNCHANGED <<rules, departments>>
    BY <1>6 DEF ReadDepartments
  <2> QED  BY <2>1, <2>3, <2>4, <2>5
<1>7. CASE InstallSaved(c)  BY <1>7 DEF InstallSaved
<1>8. CASE EnsurePoller(c) \/ GetRules(c) \/ Nudge(c)
  BY <1>8 DEF EnsurePoller, GetRules, Nudge
<1> QED  BY <1>1, <1>2, <1>3, <1>4, <1>5, <1>6, <1>7, <1>8 DEF Check

(* A refresh installs the rules and their maps at once. *)
LEMMA PairsSurvivePoll ==
    ASSUME PairsMatch, Poll
    PROVE  PairsMatch'
<1>1. /\ checks' = checks
      /\ UNCHANGED <<rules, departments>> \/ departments' = rules'
  BY DEF Poll, PollStops, PollSkips, BeginRefresh, BeginFetch, FetchAnswered, FetchFails,
     FetchDeclined, BackOff, RecheckOwner, InstallFetched, Save, SaveFails, EndRefresh,
     ClearWakeup, CheckStop, Woken, WaitEnds, pollOnly, cacheVars
<1> QED  BY <1>1 DEF PairsMatch, MapsMatchRules

(* Nothing else gives the cache maps. *)
LEMMA PairsSurviveEnvironment ==
    ASSUME PairsMatch, Environment
    PROVE  PairsMatch'
<1>1. /\ checks' = checks \/ checks' = [c \in Callers |-> IdleCheck]
      /\ UNCHANGED <<rules, departments>> \/ departments' = NoRules
  BY DEF Environment, StopPolling, StopWakes, BeginInspection, EndInspection, SwitchTeam,
     ServerChanges, CacheExpires, BackoffPasses, Restart, Fork, NoThreads, threadVars, cacheVars
<1> QED  BY <1>1 DEF PairsMatch, MapsMatchRules, IdleCheck

(* The department maps in the cache are none, or those of the rules in the cache,  *)
(* whatever failed writes, deaths and switches leave in the two snapshot files.    *)
THEOREM MapsAlwaysMatchRules == Spec => []MapsMatchRules
<1>1. Typed /\ PairsMatch /\ [Next]_vars => PairsMatch'
  <2> SUFFICES ASSUME Typed, PairsMatch, [Next]_vars PROVE PairsMatch'
    OBVIOUS
  <2>1. checks \in [Callers -> CheckState]
    BY DEF Typed, TypeOK
  <2>2. CASE UNCHANGED vars
    BY <2>2 DEF PairsMatch, MapsMatchRules, vars, cacheVars, threadVars
  <2>3. CASE Next
    BY <2>1, <2>3, PairsSurviveCheck, PairsSurvivePoll, PairsSurviveEnvironment DEF Next
  <2> QED  BY <2>2, <2>3
<1>2. PairsMatch => MapsMatchRules
  BY DEF PairsMatch
<1> QED  BY <1>1, <1>2, PairsInitially, AlwaysTyped, PTL DEF Spec

-----------------------------------------------------------------------------
(* LateRulesAreDropped.                                                      *)

(* Late rules are dropped: over any number of switches of team, rules read from the *)
(* disk or fetched never hand the cache from one owner to another.                  *)
THEOREM LateRulesNeverAdopt == Spec => LateRulesAreDropped
<1>1. [Next]_vars => [rules' \notin {rules, NoRules} => cacheOwner \in {Nobody, cacheOwner'}]_vars
  <2> SUFFICES ASSUME Next, rules' \notin {rules, NoRules}
               PROVE  cacheOwner \in {Nobody, cacheOwner'}
    OBVIOUS
  <2>1. ASSUME NEW c \in Callers, Check(c) PROVE cacheOwner \in {Nobody, cacheOwner'}
    <3>1. InstallSaved(c)
      BY <2>1 DEF Check, BeginCheck, Forget, DropRules, WakePoller, BeginLoad, ReadRules,
         ReadDepartments, EnsurePoller, GetRules, Nudge, cacheVars
    <3> QED  BY <3>1 DEF InstallSaved, MayInstall
  <2>2. CASE Poll
    <3>1. InstallFetched
      BY <2>2 DEF Poll, PollStops, PollSkips, BeginRefresh, BeginFetch, FetchAnswered, FetchFails,
         FetchDeclined, BackOff, RecheckOwner, Save, SaveFails, EndRefresh, ClearWakeup,
         CheckStop, Woken, WaitEnds, pollOnly, cacheVars
    <3> QED  BY <3>1 DEF InstallFetched, StillOwns, MayInstall
  <2>3. CASE Environment
    BY <2>3 DEF Environment, StopPolling, StopWakes, BeginInspection, EndInspection, SwitchTeam,
       ServerChanges, CacheExpires, BackoffPasses, Restart, Fork, cacheVars
  <2> QED  BY <2>1, <2>2, <2>3 DEF Next
<1> QED  BY <1>1, PTL DEF Spec, LateRulesAreDropped

-----------------------------------------------------------------------------
(* CooldownIsOwners and AskedOncePerBackoff.                                 *)

(* The backoff and its history: a cooldown has a team, which is the cache's once it *)
(* has one, and a failure that is waited out has a cooldown.                        *)
CooldownHeld ==
    /\ cooldown => cooldownOwner \in Teams /\ cacheOwner \in {Nobody, cooldownOwner}
    /\ heldOff # Nobody => cooldown

(* Before the first adoption no check is past it and no poller has been started. *)
Unadopted ==
    cacheOwner = Nobody =>
        /\ poller.pc = "none"
        /\ \A c \in Callers : checks[c].pc \in {"idle", "forget"}

(* Both hold at first. *)
LEMMA HeldInitially == Init => CooldownHeld /\ Unadopted
  BY DEF Init, CooldownHeld, Unadopted, NoPoller, IdleCheck

(* A failed fetch of one team leaves the backoff of another alone. *)
LEMMA ExtendKeepsHeld ==
    ASSUME CooldownHeld, NEW owner \in Teams, ExtendCooldown(owner), HoldOff(owner),
           cacheOwner' = cacheOwner
    PROVE  CooldownHeld'
  BY DEF CooldownHeld, ExtendCooldown, HoldOff, MayInstall

(* A check that adopts the cache keeps no backoff but its own team's. *)
LEMMA HeldSurvivesCheck ==
    ASSUME CooldownHeld, Unadopted, Typed, NEW c \in Callers, Check(c)
    PROVE  CooldownHeld' /\ Unadopted'
<1> USE DEF At
<1>1. CASE BeginCheck(c)
  <2>1. CooldownHeld'
    BY <1>1 DEF BeginCheck, CooldownHeld, cacheVars, cooldownVars
  <2>2. cacheOwner' = cacheOwner /\ poller' = poller
    BY <1>1 DEF BeginCheck, cacheVars
  <2>3. ASSUME cacheOwner = Nobody PROVE \A d \in Callers : checks'[d].pc \in {"idle", "forget"}
    <3>1. cacheOwner # team
      BY <2>3, CacheAssumption DEF CacheAssumption, Typed, TypeOK
    <3> QED  BY <1>1, <2>3, <3>1 DEF BeginCheck, Unadopted, IdleCheck, Typed, TypeOK
  <2> QED  BY <2>1, <2>2, <2>3 DEF Unadopted
<1>2. CASE Forget(c)
  <2>1. checks[c].owner \in Teams
    BY <1>2 DEF Forget, Typed, OwnersKnown
  <2>2. cacheOwner' = checks[c].owner /\ cacheOwner' # Nobody
    BY <1>2, <2>1, CacheAssumption DEF Forget, CacheAssumption
  <2>3. CooldownHeld'
    <3>1. /\ cooldown' = (cooldown /\ OwnBackoff(checks[c].owner)) /\ cooldownOwner' = cooldownOwner
          /\ heldOff' = IF OwnBackoff(checks[c].owner) THEN heldOff ELSE Nobody
      BY <1>2 DEF Forget, OwnBackoff
    <3>2. cooldownOwner # Nobody \/ ~cooldown
      BY CacheAssumption DEF CooldownHeld, CacheAssumption
    <3> QED  BY <2>2, <3>1, <3>2 DEF CooldownHeld, OwnBackoff
  <2> QED  BY <2>2, <2>3 DEF Unadopted
<1>3. CASE InstallSaved(c)
  <2>1. cacheOwner # Nobody
    BY <1>3 DEF InstallSaved, Unadopted
  <2>2. cacheOwner' = cacheOwner
    BY <1>3, <2>1 DEF InstallSaved, MayInstall
  <2> QED  BY <1>3, <2>1, <2>2 DEF InstallSaved, CooldownHeld, Unadopted, cooldownVars
<1>4. ASSUME ~BeginCheck(c), ~Forget(c), ~InstallSaved(c) PROVE CooldownHeld' /\ Unadopted'
  <2>1. checks[c].pc \notin {"idle", "forget"} /\ cacheOwner' = cacheOwner /\ UNCHANGED cooldownVars
    BY <1>4 DEF Check, WakePoller, BeginLoad, ReadRules, ReadDepartments, EnsurePoller, GetRules,
       Nudge, cacheVars
  <2> QED  BY <2>1 DEF CooldownHeld, Unadopted, cooldownVars
<1> QED  BY <1>1, <1>2, <1>3, <1>4

(* A failed fetch begins a backoff only for the team the cache is for. *)
LEMMA HeldSurvivesPoll ==
    ASSUME CooldownHeld, Unadopted, Typed, Poll
    PROVE  CooldownHeld' /\ Unadopted'
<1>1. cacheOwner # Nobody
  BY DEF Unadopted, Poll, PollStops, PollSkips, BeginRefresh, BeginFetch, FetchAnswered, FetchFails,
     FetchDeclined, BackOff, RecheckOwner, InstallFetched, Save, SaveFails, EndRefresh,
     ClearWakeup, CheckStop, Woken, WaitEnds, Polling
<1>2. cacheOwner' = cacheOwner
  BY <1>1 DEF Poll, PollStops, PollSkips, BeginRefresh, BeginFetch, FetchAnswered, FetchFails,
     FetchDeclined, BackOff, RecheckOwner, InstallFetched, StillOwns, MayInstall, Save, SaveFails,
     EndRefresh, ClearWakeup, CheckStop, Woken, WaitEnds, pollOnly, cacheVars
<1>3. CooldownHeld'
  <2>1. CASE FetchDeclined
    BY <1>2, <2>1, ExtendKeepsHeld DEF FetchDeclined, Typed, OwnersKnown
  <2>2. CASE BackOff
    BY <1>2, <2>2, ExtendKeepsHeld DEF BackOff, Polling, Typed, OwnersKnown
  <2>3. ASSUME ~FetchDeclined, ~BackOff PROVE UNCHANGED cooldownVars
    BY <2>3 DEF Poll, PollStops, PollSkips, BeginRefresh, BeginFetch, FetchAnswered, FetchFails,
       RecheckOwner, InstallFetched, Save, SaveFails, EndRefresh, ClearWakeup, CheckStop, Woken,
       WaitEnds, pollOnly
  <2> QED  BY <1>2, <2>1, <2>2, <2>3 DEF CooldownHeld, cooldownVars
<1> QED  BY <1>1, <1>2, <1>3 DEF Unadopted

(* So does an inspection read. *)
LEMMA HeldSurvivesEnvironment ==
    ASSUME CooldownHeld, Unadopted, Typed, Environment
    PROVE  CooldownHeld' /\ Unadopted'
<1> USE DEF CooldownHeld, Unadopted, cacheVars, cooldownVars, threadVars
<1>1. CASE StopPolling \/ StopWakes \/ BeginInspection
  BY <1>1 DEF StopPolling, StopWakes, BeginInspection
<1>2. ASSUME NEW declined \in BOOLEAN, EndInspection(declined)
      PROVE  CooldownHeld' /\ Unadopted'
  <2>1. inspection \in Teams
    BY <1>2 DEF EndInspection, Typed, TypeOK, Someone
  <2>2. CooldownHeld'
    BY <1>2, <2>1, ExtendKeepsHeld DEF EndInspection
  <2> QED  BY <1>2, <2>2 DEF EndInspection
<1>3. ASSUME NEW t \in Teams, SwitchTeam(t) \/ ServerChanges(t)
      PROVE  CooldownHeld' /\ Unadopted'
  BY <1>3 DEF SwitchTeam, ServerChanges
<1>4. CASE CacheExpires \/ BackoffPasses
  BY <1>4 DEF CacheExpires, BackoffPasses
<1>5. CASE Restart \/ Fork
  BY <1>5 DEF Restart, Fork, NoThreads, NoPoller, IdleCheck
<1> QED  BY <1>1, <1>2, <1>3, <1>4, <1>5 DEF Environment

(* Both always hold. *)
LEMMA AlwaysHeld == Spec => [](CooldownHeld /\ Unadopted)
<1>1. Typed /\ CooldownHeld /\ Unadopted /\ [Next]_vars => CooldownHeld' /\ Unadopted'
  <2> SUFFICES ASSUME Typed, CooldownHeld, Unadopted, [Next]_vars
               PROVE  CooldownHeld' /\ Unadopted'
    OBVIOUS
  <2>1. CASE UNCHANGED vars
    BY <2>1 DEF CooldownHeld, Unadopted, vars, cacheVars, cooldownVars, threadVars
  <2>2. CASE Next
    BY <2>2, HeldSurvivesCheck, HeldSurvivesPoll, HeldSurvivesEnvironment DEF Next
  <2> QED  BY <2>1, <2>2
<1> QED  BY <1>1, HeldInitially, AlwaysTyped, PTL DEF Spec

(* No team's refresh is ever held off by another team's failure: a cooldown in force *)
(* is that of the team the cache is for, over any number of switches and inspections. *)
THEOREM CooldownIsAlwaysOwners == Spec => []CooldownIsOwners
<1>1. CooldownHeld => CooldownIsOwners
  BY DEF CooldownHeld, CooldownIsOwners
<1> QED  BY <1>1, AlwaysHeld, PTL

(* A failed fetch is not repeated before its backoff has passed, however many checks *)
(* and stops wake the poller: at the step that begins a refresh none is being waited *)
(* out for its team.                                                                 *)
THEOREM AskedOnce == Spec => AskedOncePerBackoff
<1>1. Typed /\ CooldownHeld /\ [Next]_vars
        => [Polling("loop") /\ poller'.pc = "target" => heldOff # poller'.owner]_vars
  <2> SUFFICES ASSUME Typed, CooldownHeld, Next, Polling("loop"), poller'.pc = "target"
               PROVE  heldOff # poller'.owner
    OBVIOUS
  <2>1. BeginRefresh
    <3>1. ASSUME NEW c \in Callers, Check(c) PROVE FALSE
      BY <3>1 DEF Polling, Check, BeginCheck, Forget, WakePoller, BeginLoad, ReadRules,
         ReadDepartments, InstallSaved, EnsurePoller, GetRules, Nudge
    <3>2. CASE Environment
      BY <3>2 DEF Polling, Environment, StopPolling, StopWakes, BeginInspection, EndInspection,
         SwitchTeam, ServerChanges, CacheExpires, BackoffPasses, Restart, Fork, NoThreads,
         NoPoller, threadVars
    <3>3. CASE Poll
      BY <3>3 DEF Polling, Poll, PollStops, PollSkips, BeginFetch, FetchAnswered, FetchFails,
         FetchDeclined, BackOff, RecheckOwner, InstallFetched, Save, SaveFails, EndRefresh,
         ClearWakeup, CheckStop, Woken, WaitEnds, NoPoller
    <3> QED  BY <3>1, <3>2, <3>3 DEF Next
  <2>2. poller'.owner = team /\ ~cooldown
    BY <2>1 DEF BeginRefresh, NoPoller
  <2>3. team # Nobody /\ heldOff = Nobody
    BY <2>2, CacheAssumption DEF CacheAssumption, CooldownHeld, Typed, TypeOK
  <2> QED  BY <2>2, <2>3
<1> QED  BY <1>1, AlwaysTyped, AlwaysHeld, PTL DEF Spec, AskedOncePerBackoff

-----------------------------------------------------------------------------
(* CacheIsOwners and SnapshotIsOwners.  A refresh reads the team of the process  *)
(* twice, for its owner and for its target.  The rules stay with their owner as  *)
(* long as the two agree on those that are installed.                            *)

(* The rules a refresh goes on to install are those of the team it is for. *)
TargetStands ==
    [][Polling("fetched") /\ poller'.pc = "install" => poller.got.team = poller.owner]_vars

(* The process does not change its team between the two reads. *)
OwnerReadOnce == [][Polling("target") => team' = team]_vars

Refreshing == {"target", "fetch", "fetched", "install", "save"}

(* How a step takes a refresh further, and what it hands on. *)
Refreshed ==
    /\ team' = team
    /\ \/ poller'.pc = "target" /\ poller'.owner = team
       \/ /\ poller'.owner = poller.owner
          /\ \/ Polling("target") /\ poller'.pc = "fetch" /\ poller'.target = team
             \/ Polling("fetch") /\ poller'.pc = "fetched" /\ poller'.got.team = poller.target
             \/ /\ poller'.got = poller.got
                /\ \/ Polling("fetched") /\ poller'.pc = "install" /\ team = poller.owner
                   \/ poller.pc \in {"install", "save"} /\ poller'.pc = "save"

(* Every step of the poller takes the refresh further or ends it. *)
LEMMA PollRefreshes ==
    ASSUME Typed, Poll
    PROVE  poller'.pc \notin Refreshing \/ Refreshed
<1> USE DEF Typed, TypeOK, Refreshing, Polling, PollGoto, PollerState
<1>0. team' = team
  BY DEF Poll, PollStops, PollSkips, BeginRefresh, BeginFetch, FetchAnswered, FetchFails,
     FetchDeclined, BackOff, RecheckOwner, InstallFetched, Save, SaveFails, EndRefresh,
     ClearWakeup, CheckStop, Woken, WaitEnds, pollOnly, envVars
<1>1. CASE PollStops \/ PollSkips
  BY <1>1 DEF PollStops, PollSkips, NoPoller
<1>2. CASE BeginRefresh
  BY <1>0, <1>2 DEF BeginRefresh, NoPoller, Refreshed
<1>3. CASE BeginFetch
  BY <1>0, <1>3 DEF BeginFetch, Refreshed
<1>4. CASE FetchAnswered
  BY <1>0, <1>4 DEF FetchAnswered, Refreshed
<1>5. CASE FetchFails \/ FetchDeclined \/ BackOff
  BY <1>5 DEF FetchFails, FetchDeclined, BackOff
<1>6. CASE RecheckOwner
  BY <1>0, <1>6 DEF RecheckOwner, Refreshed
<1>7. CASE InstallFetched
  BY <1>0, <1>7 DEF InstallFetched, Refreshed
<1>8. CASE Save
  BY <1>0, <1>8 DEF Save, Refreshed
<1>9. CASE SaveFails \/ EndRefresh
  BY <1>9 DEF SaveFails, EndRefresh
<1>10. CASE ClearWakeup \/ CheckStop \/ Woken \/ WaitEnds
  BY <1>10 DEF ClearWakeup, CheckStop, Woken, WaitEnds, NoPoller
<1> QED  BY <1>1, <1>2, <1>3, <1>4, <1>5, <1>6, <1>7, <1>8, <1>9, <1>10 DEF Poll

(* No other thread touches a refresh. *)
LEMMA RefreshMoves ==
    ASSUME Typed, [Next]_vars
    PROVE  poller' = poller \/ poller'.pc \notin Refreshing \/ Refreshed
<1>1. ASSUME NEW c \in Callers, Check(c) PROVE poller' = poller \/ poller'.pc \notin Refreshing
  BY <1>1 DEF Check, BeginCheck, Forget, WakePoller, BeginLoad, ReadRules, ReadDepartments,
     InstallSaved, EnsurePoller, GetRules, Nudge, NoPoller, Refreshing
<1>2. CASE Environment
  BY <1>2 DEF Environment, StopPolling, StopWakes, BeginInspection, EndInspection, SwitchTeam,
     ServerChanges, CacheExpires, BackoffPasses, Restart, Fork, NoThreads, NoPoller, threadVars,
     Refreshing
<1>3. CASE UNCHANGED vars
  BY <1>3 DEF vars, threadVars
<1> QED  BY <1>1, <1>2, <1>3, PollRefreshes DEF Next

(* What is in the cache, in the files, and on its way from one to the other, is of *)
(* the team it is filed under.                                                    *)
KeptApart ==
    /\ CacheIsOwners /\ SnapshotIsOwners
    /\ \A c \in Callers : checks[c].pc \in {"departments", "install"}
           => checks[c].rules.team = checks[c].owner
    /\ poller.pc \in {"install", "save"} => poller.got.team = poller.owner

(* Rules of a team are what its files may hold. *)
LEMMA OwnPayload ==
    ASSUME NEW r \in MaybeRules, NEW t \in Teams, r.team = t
    PROVE  r \in [team : {t}, version : Version]
  BY CacheAssumption DEF CacheAssumption, MaybeRules, Payload, NoRules

(* At first the cache is empty and each file is its team's own. *)
LEMMA ApartInitially == Init => KeptApart
<1> SUFFICES ASSUME Init PROVE KeptApart  OBVIOUS
<1>1. SnapshotIsOwners
  <2>1. ASSUME NEW t \in Teams
        PROVE  {Saved(t).rules, Saved(t).departments} \subseteq
                   [team : {t}, version : Version] \cup {NoRules, Torn}
    BY CacheAssumption DEF CacheAssumption, Saved, Version
  <2> QED  BY <2>1 DEF Init, SnapshotIsOwners
<1>2. CacheIsOwners
  BY DEF Init, CacheIsOwners
<1> QED  BY <1>1, <1>2 DEF Init, KeptApart, NoPoller, IdleCheck

(* A check reads the files of a team under that team's name, and installs them so. *)
LEMMA ApartSurvivesCheck ==
    ASSUME KeptApart, Typed, NEW c \in Callers, Check(c)
    PROVE  CacheIsOwners' /\ (\A d \in Callers : checks'[d].pc \in {"departments", "install"}
                                 => checks'[d].rules.team = checks'[d].owner)
<1> DEFINE Carried(d) == checks[d].pc \in {"departments", "install"}
                             => checks[d].rules.team = checks[d].owner
<1> USE DEF KeptApart, CacheIsOwners, Typed, TypeOK, At, Goto, IdleCheck, cacheVars
<1>0. checks[c] \in CheckState
  OBVIOUS
<1>1. CASE BeginCheck(c)
  <2>1. CASE cacheOwner = team
    BY <1>1, <2>1 DEF BeginCheck
  <2>2. CASE cacheOwner # team
    BY <1>1, <2>2 DEF BeginCheck
  <2> QED  BY <2>1, <2>2
<1>2. CASE Forget(c)
  <2>1. CASE MayInstall(checks[c].owner)
    <3>1. rules # NoRules => rules.team # Nobody
      BY CacheAssumption DEF CacheAssumption, MaybeRules, Payload
    <3> QED  BY <1>2, <2>1, <3>1 DEF Forget, MayInstall
  <2>2. CASE ~MayInstall(checks[c].owner)
    BY <1>2, <2>2 DEF Forget, DropRules
  <2> QED  BY <2>1, <2>2
<1>3. CASE WakePoller(c) \/ BeginLoad(c)
  BY <1>3 DEF WakePoller, BeginLoad
<1>5. CASE ReadRules(c)
  <2>1. CASE CacheDir /\ saved[team].rules \in Payload
    <3>1. saved[team].rules.team = team
      BY <2>1, NoRulesType DEF SnapshotIsOwners
    <3> QED  BY <1>5, <2>1, <3>1 DEF ReadRules
  <2>2. CASE ~(CacheDir /\ saved[team].rules \in Payload)
    BY <1>5, <2>2 DEF ReadRules
  <2> QED  BY <2>1, <2>2
<1>6. CASE ReadDepartments(c)
  <2> DEFINE d == PairedDepartments(checks[c].rules, saved[checks[c].owner].departments)
  <2>1. checks' = [checks EXCEPT ![c].pc = "install", ![c].departments = d]
    BY <1>6 DEF ReadDepartments
  <2>2. checks'[c].owner = checks[c].owner /\ checks'[c].rules = checks[c].rules
    BY <1>0, <2>1 DEF CheckState
  <2>3. Carried(c)' /\ \A b \in Callers \ {c} : checks'[b] = checks[b]
    BY <1>6, <2>1, <2>2 DEF ReadDepartments
  <2> QED  BY <1>6, <2>3 DEF ReadDepartments
<1>7. CASE InstallSaved(c)
  <2>1. checks[c].rules.team = checks[c].owner
    BY <1>7 DEF InstallSaved
  <2> QED  BY <1>7, <2>1 DEF InstallSaved
<1>8. CASE EnsurePoller(c) \/ GetRules(c) \/ Nudge(c)
  BY <1>8 DEF EnsurePoller, GetRules, Nudge
<1> QED  BY <1>1, <1>2, <1>3, <1>5, <1>6, <1>7, <1>8 DEF Check

(* A refresh installs and saves what is its owner's under its owner's name. *)
LEMMA ApartSurvivesPoll ==
    ASSUME KeptApart, Typed, Poll
    PROVE  CacheIsOwners' /\ SnapshotIsOwners'
<1> USE DEF KeptApart, Typed, TypeOK, Polling, cacheVars, pollOnly
<1>0. poller.got \in MaybeRules /\ poller.step \in 0 .. 3
  BY DEF PollerState
<1>1. CASE InstallFetched
  BY <1>1 DEF InstallFetched, CacheIsOwners, SnapshotIsOwners
<1>2. CASE Save
  <2>1. poller.owner \in Teams /\ poller.got \in [team : {poller.owner}, version : Version]
    BY <1>0, <1>2, OwnPayload DEF Save, OwnersKnown
  <2>2. /\ Written(saved[poller.owner], poller.step, poller.got).rules
             \in {saved[poller.owner].rules, Torn, poller.got}
        /\ Written(saved[poller.owner], poller.step, poller.got).departments
             \in {saved[poller.owner].departments, Torn, poller.got}
    <3>1. saved[poller.owner] \in Files
      BY <2>1
    <3> QED  BY <1>0, <3>1 DEF Written, Files
  <2>3. saved' = [saved EXCEPT ![poller.owner] =
                      Written(saved[poller.owner], poller.step, poller.got)]
    BY <1>2 DEF Save, FilesOf
  <2>4. SnapshotIsOwners'
    BY <2>1, <2>2, <2>3 DEF SnapshotIsOwners
  <2> QED  BY <1>2, <2>4 DEF Save, CacheIsOwners
<1>3. ASSUME ~InstallFetched, ~Save PROVE UNCHANGED <<cacheVars, saved>>
  BY <1>3 DEF Poll, PollStops, PollSkips, BeginRefresh, BeginFetch, FetchAnswered, FetchFails,
     FetchDeclined, BackOff, RecheckOwner, SaveFails, EndRefresh, ClearWakeup, CheckStop, Woken,
     WaitEnds
<1> QED  BY <1>1, <1>2, <1>3 DEF CacheIsOwners, SnapshotIsOwners

(* Nothing else files rules. *)
LEMMA ApartSurvivesEnvironment ==
    ASSUME KeptApart, Environment
    PROVE  /\ CacheIsOwners' /\ SnapshotIsOwners'
           /\ checks' = checks \/ checks' = [c \in Callers |-> IdleCheck]
<1>1. /\ UNCHANGED <<rules, cacheOwner>> \/ rules' = NoRules
      /\ saved' = saved
      /\ checks' = checks \/ checks' = [c \in Callers |-> IdleCheck]
  BY DEF Environment, StopPolling, StopWakes, BeginInspection, EndInspection, SwitchTeam,
     ServerChanges, CacheExpires, BackoffPasses, Restart, Fork, NoThreads, threadVars, cacheVars
<1> QED  BY <1>1 DEF KeptApart, CacheIsOwners, SnapshotIsOwners

(* Every step keeps them apart, if the one that lets a refresh install lets it *)
(* install its owner's rules.                                                  *)
LEMMA NextApart ==
    ASSUME KeptApart, Typed, [Next]_vars,
           Polling("fetched") /\ poller'.pc = "install" => poller.got.team = poller.owner
    PROVE  KeptApart'
<1>1. poller'.pc \in {"install", "save"} => poller'.got.team = poller'.owner
  BY RefreshMoves DEF KeptApart, Refreshing, Refreshed, Polling
<1>2. ASSUME NEW c \in Callers, Check(c) PROVE KeptApart'
  <2>1. saved' = saved
    BY <1>2 DEF Check, BeginCheck, Forget, WakePoller, BeginLoad, ReadRules, ReadDepartments,
       InstallSaved, EnsurePoller, GetRules, Nudge
  <2>2. SnapshotIsOwners'
    BY <2>1 DEF KeptApart, SnapshotIsOwners
  <2> QED  BY <1>1, <1>2, <2>2, ApartSurvivesCheck DEF KeptApart
<1>3. CASE Poll
  <2>1. checks' = checks
    BY <1>3 DEF Poll, PollStops, PollSkips, BeginRefresh, BeginFetch, FetchAnswered,
       FetchFails, FetchDeclined, BackOff, RecheckOwner, InstallFetched, Save, SaveFails,
       EndRefresh, ClearWakeup, CheckStop, Woken, WaitEnds, pollOnly
  <2> QED  BY <1>1, <1>3, <2>1, ApartSurvivesPoll DEF KeptApart
<1>4. CASE Environment
  <2>1. /\ CacheIsOwners' /\ SnapshotIsOwners'
        /\ checks' = checks \/ checks' = [c \in Callers |-> IdleCheck]
    BY <1>4, ApartSurvivesEnvironment
  <2>2. \A c \in Callers : checks'[c].pc \in {"departments", "install"}
            => checks'[c].rules.team = checks'[c].owner
    BY <2>1 DEF KeptApart, IdleCheck
  <2> QED  BY <1>1, <2>1, <2>2 DEF KeptApart
<1>5. CASE UNCHANGED vars
  BY <1>5 DEF KeptApart, CacheIsOwners, SnapshotIsOwners, vars, cacheVars, threadVars
<1> QED  BY <1>2, <1>3, <1>4, <1>5 DEF Next

(* The owner of a refresh and its target can only disagree when the process changes *)
(* its team between the reads: one team of rules never goes under another's name.   *)
LEMMA AlwaysApart == Spec /\ TargetStands => []KeptApart
<1>1. Typed /\ KeptApart /\ [Next]_vars
      /\ [Polling("fetched") /\ poller'.pc = "install" => poller.got.team = poller.owner]_vars
        => KeptApart'
  <2> SUFFICES ASSUME Typed, KeptApart, [Next]_vars,
                      [Polling("fetched") /\ poller'.pc = "install" => poller.got.team = poller.owner]_vars
               PROVE  KeptApart'
    OBVIOUS
  <2>1. CASE UNCHANGED vars
    BY <2>1 DEF KeptApart, CacheIsOwners, SnapshotIsOwners, vars, cacheVars, threadVars
  <2>2. CASE Polling("fetched") /\ poller'.pc = "install" => poller.got.team = poller.owner
    BY <2>2, NextApart
  <2> QED  BY <2>1, <2>2
<1> QED  BY <1>1, ApartInitially, AlwaysTyped, PTL DEF Spec, TargetStands

-----------------------------------------------------------------------------
(* When the two reads agree: always, if the team stays the same between them.    *)

(* A change of team is paid for, is nobody's step, and starts nothing. *)
LEMMA TeamMoves ==
    ASSUME Typed, [Next]_vars
    PROVE  \/ team' = team /\ left'["switch"] = left["switch"]
           \/ /\ left["switch"] > 0 /\ left'["switch"] = left["switch"] - 1
              /\ team' \in Teams /\ UNCHANGED <<cacheOwner, poller, checks>>
              /\ \A c \in Callers : At(c, "idle") \/ during'[c] = during[c] \cup {team'}
<1> USE DEF Typed, TypeOK, Rare, Spend
<1>1. ASSUME NEW c \in Callers, Check(c) PROVE team' = team /\ left' = left
  BY <1>1 DEF Check, BeginCheck, Forget, WakePoller, BeginLoad, ReadRules, ReadDepartments,
     InstallSaved, EnsurePoller, GetRules, Nudge, envVars
<1>2. CASE Poll
  BY <1>2 DEF Poll, PollStops, PollSkips, BeginRefresh, BeginFetch, FetchAnswered, FetchFails,
     FetchDeclined, BackOff, RecheckOwner, InstallFetched, Save, SaveFails, EndRefresh,
     ClearWakeup, CheckStop, Woken, WaitEnds, pollOnly, envVars
<1>3. CASE StopPolling \/ StopWakes \/ BeginInspection
  BY <1>3 DEF StopPolling, StopWakes, BeginInspection, envVars
<1>4. CASE (\E declined \in BOOLEAN : EndInspection(declined)) \/ CacheExpires \/ BackoffPasses
  BY <1>4 DEF EndInspection, CacheExpires, BackoffPasses, envVars
<1>5. CASE Restart \/ Fork
  BY <1>5 DEF Restart, Fork
<1>6. ASSUME NEW t \in Teams, SwitchTeam(t)
      PROVE  /\ left["switch"] > 0 /\ left'["switch"] = left["switch"] - 1
             /\ team' \in Teams /\ UNCHANGED <<cacheOwner, poller, checks>>
             /\ \A c \in Callers : At(c, "idle") \/ during'[c] = during[c] \cup {team'}
  BY <1>6 DEF SwitchTeam, cacheVars
<1>7. ASSUME NEW t \in Teams, ServerChanges(t) PROVE team' = team /\ left' = left
  BY <1>7 DEF ServerChanges
<1>8. CASE UNCHANGED vars
  BY <1>8 DEF vars, envVars
<1> QED  BY <1>1, <1>2, <1>3, <1>4, <1>5, <1>6, <1>7, <1>8 DEF Next, Environment

(* The two reads of a refresh agreed, or will. *)
ReadsAgree ==
    /\ Polling("target") => poller.owner = team
    /\ Polling("fetch") => poller.target = poller.owner
    /\ Polling("fetched") => poller.got.team = poller.owner

(* A process that keeps its team between the two reads asks for the rules it will file. *)
LEMMA ReadOnceStands == Spec /\ OwnerReadOnce => TargetStands
<1>1. Init => ReadsAgree
  BY DEF Init, ReadsAgree, Polling, NoPoller
<1>2. Typed /\ ReadsAgree /\ [Next]_vars /\ [Polling("target") => team' = team]_vars
        => ReadsAgree'
  <2> SUFFICES ASSUME Typed, ReadsAgree, [Next]_vars, [Polling("target") => team' = team]_vars
               PROVE  ReadsAgree'
    OBVIOUS
  <2>1. Polling("target") => team' = team
    BY DEF vars, envVars
  <2> QED  BY <2>1, RefreshMoves DEF ReadsAgree, Refreshing, Refreshed, Polling
<1>3. ReadsAgree => (Polling("fetched") /\ poller'.pc = "install" => poller.got.team = poller.owner)
  BY DEF ReadsAgree
<1> QED  BY <1>1, <1>2, <1>3, AlwaysTyped, PTL DEF Spec, OwnerReadOnce, TargetStands

(* However often a process changes its team, cache and files are kept apart if it   *)
(* does not do so between the two reads one refresh makes of it: that is the only   *)
(* window there is.                                                                 *)
THEOREM ReadOnceKeepsApart == Spec /\ OwnerReadOnce => [](CacheIsOwners /\ SnapshotIsOwners)
<1>1. KeptApart => CacheIsOwners /\ SnapshotIsOwners
  BY DEF KeptApart
<1> QED  BY <1>1, ReadOnceStands, AlwaysApart, PTL

-----------------------------------------------------------------------------
(* JudgedByOwnTeam.  A check compares the owner of the cache without the lock    *)
(* and adopts the cache under it: the other window.                              *)

(* The process does not change its team between a check's comparison and its adoption. *)
AdoptedAtOnce == [][(\E c \in Callers : At(c, "forget")) => team' = team]_vars

(* A team that the cache is for while a check is past its adoption is one the process *)
(* had during that check.                                                             *)
AdoptedDuring(c) ==
    /\ checks[c].pc \notin {"idle", "nudge"} => team \in during[c]
    /\ checks[c].pc \notin {"idle", "nudge", "forget"} => cacheOwner \in during[c]
    /\ At(c, "forget") => checks[c].owner = team

(* Before any check it holds. *)
LEMMA AdoptedInitially == Init => \A c \in Callers : AdoptedDuring(c)
  BY DEF Init, AdoptedDuring, IdleCheck, At

(* A check adopts the cache for the team the process has. *)
LEMMA AdoptedSurvivesCheck ==
    ASSUME \A c \in Callers : AdoptedDuring(c), Unadopted, Typed, NEW c \in Callers, Check(c)
    PROVE  \A d \in Callers : AdoptedDuring(d)'
<1> USE DEF AdoptedDuring, At, Typed, TypeOK, envVars, cacheVars
<1>1. CASE BeginCheck(c)
  <2>1. team' = team /\ cacheOwner' = cacheOwner /\ during' = [during EXCEPT ![c] = {team}]
    BY <1>1 DEF BeginCheck
  <2>2. CASE cacheOwner = team
    BY <1>1, <2>1, <2>2 DEF BeginCheck, Goto, IdleCheck
  <2>3. CASE cacheOwner # team
    <3>1. checks' = [checks EXCEPT ![c] = [IdleCheck EXCEPT !.pc = "forget", !.owner = team]]
      BY <1>1, <2>3 DEF BeginCheck
    <3>2. /\ checks'[c].pc = "forget" /\ checks'[c].owner = team
          /\ \A d \in Callers \ {c} : checks'[d] = checks[d]
      BY <3>1 DEF IdleCheck
    <3>3. AdoptedDuring(c)' /\ \A d \in Callers \ {c} : AdoptedDuring(d)'
      BY <2>1, <3>2
    <3> QED  BY <3>3
  <2> QED  BY <2>2, <2>3
<1>2. CASE Forget(c)
  <2>1. team' = team /\ cacheOwner' = team /\ during' = during
    BY <1>2 DEF Forget
  <2>2. PICK pc \in {"load", "wake"} : Goto(c, pc)
    BY <1>2 DEF Forget
  <2> QED  BY <1>2, <2>1, <2>2 DEF Forget, Goto, IdleCheck
<1>3. CASE InstallSaved(c)
  <2>1. cacheOwner' = cacheOwner
    BY <1>3 DEF InstallSaved, MayInstall, Unadopted
  <2> QED  BY <1>3, <2>1 DEF InstallSaved, Goto, IdleCheck
<1>4. CASE GetRules(c)
  <2>1. PICK pc \in {"nudge", "idle"} : Goto(c, pc)
    BY <1>4 DEF GetRules
  <2> QED  BY <1>4, <2>1 DEF GetRules, Goto, IdleCheck
<1>5. ASSUME ~BeginCheck(c), ~Forget(c), ~InstallSaved(c), ~GetRules(c)
      PROVE  \A d \in Callers : AdoptedDuring(d)'
  <2>1. UNCHANGED <<team, cacheOwner, during>>
    BY <1>5 DEF Check, WakePoller, BeginLoad, ReadRules, ReadDepartments, EnsurePoller, Nudge
  <2>2. \A d \in Callers \ {c} : checks'[d] = checks[d]
    BY <1>5 DEF Check, WakePoller, BeginLoad, ReadRules, ReadDepartments, EnsurePoller, Nudge, Goto
  <2>3. /\ checks[c].pc \notin {"idle", "forget"} /\ checks'[c].pc # "forget"
        /\ checks[c].pc = "nudge" => checks'[c].pc = "idle"
    <3>1. CASE WakePoller(c) \/ BeginLoad(c) \/ EnsurePoller(c) \/ Nudge(c)
      BY <3>1 DEF WakePoller, BeginLoad, EnsurePoller, Nudge, Goto, IdleCheck
    <3>2. CASE ReadRules(c)
      BY <3>2 DEF ReadRules, Goto, IdleCheck
    <3>3. CASE ReadDepartments(c)
      BY <3>3 DEF ReadDepartments, CheckState
    <3> QED  BY <1>5, <3>1, <3>2, <3>3 DEF Check
  <2> QED  BY <2>1, <2>2, <2>3
<1> QED  BY <1>1, <1>2, <1>3, <1>4, <1>5

(* So does every step, if the team stays while a check is about to adopt. *)
LEMMA NextAdopted ==
    ASSUME \A c \in Callers : AdoptedDuring(c), Unadopted, Typed, [Next]_vars,
           (\E c \in Callers : At(c, "forget")) => team' = team
    PROVE  \A c \in Callers : AdoptedDuring(c)'
<1>1. ASSUME NEW c \in Callers, Check(c) PROVE \A d \in Callers : AdoptedDuring(d)'
  BY <1>1, AdoptedSurvivesCheck
<1>2. CASE Poll
  <2>1. UNCHANGED <<team, cacheOwner, checks, during>>
    BY <1>2 DEF Unadopted, Poll, PollStops, PollSkips, BeginRefresh, BeginFetch, FetchAnswered,
       FetchFails, FetchDeclined, BackOff, RecheckOwner, InstallFetched, StillOwns, MayInstall,
       Save, SaveFails, EndRefresh, ClearWakeup, CheckStop, Woken, WaitEnds, Polling, pollOnly,
       envVars, cacheVars
  <2> QED  BY <2>1 DEF AdoptedDuring, At
<1>3. CASE Environment
  <2>1. CASE team' # team
    <3>1. /\ team' \in Teams /\ UNCHANGED <<cacheOwner, checks>>
          /\ \A c \in Callers : At(c, "idle") \/ during'[c] = during[c] \cup {team'}
      BY <2>1, TeamMoves
    <3> QED  BY <2>1, <3>1 DEF AdoptedDuring, At
  <2>2. CASE team' = team
    <3>1. UNCHANGED <<cacheOwner, checks, during>> \/ checks' = [c \in Callers |-> IdleCheck]
      BY <1>3, <2>2 DEF Environment, StopPolling, StopWakes, BeginInspection, EndInspection,
         SwitchTeam, ServerChanges, CacheExpires, BackoffPasses, Restart, Fork, NoThreads,
         threadVars, cacheVars
    <3> QED  BY <2>2, <3>1 DEF AdoptedDuring, At, IdleCheck
  <2> QED  BY <2>1, <2>2
<1>4. CASE UNCHANGED vars
  BY <1>4 DEF AdoptedDuring, At, vars, envVars, cacheVars, threadVars
<1> QED  BY <1>1, <1>2, <1>3, <1>4 DEF Next

(* No call is judged by the rules of a team the process did not have during its      *)
(* check, however often it changes its team, unless it does so in one of the two     *)
(* windows: between the two reads of a refresh, or between a check's comparison of   *)
(* the owner and its adoption of the cache.                                          *)
THEOREM JudgedOutsideTheWindows == Spec /\ OwnerReadOnce /\ AdoptedAtOnce => []JudgedByOwnTeam
<1> DEFINE Adopted == \A c \in Callers : AdoptedDuring(c)
<1>1. Typed /\ Unadopted /\ Adopted /\ [Next]_vars
      /\ [(\E c \in Callers : At(c, "forget")) => team' = team]_vars => Adopted'
  <2> SUFFICES ASSUME Typed, Unadopted, Adopted, [Next]_vars,
                      [(\E c \in Callers : At(c, "forget")) => team' = team]_vars
               PROVE  Adopted'
    OBVIOUS
  <2>1. (\E c \in Callers : At(c, "forget")) => team' = team
    BY DEF vars, envVars
  <2> QED  BY <2>1, NextAdopted
<1>2. KeptApart /\ Adopted => JudgedByOwnTeam
  BY DEF KeptApart, CacheIsOwners, JudgedByOwnTeam, AdoptedDuring, At
<1>3. Init => Adopted
  BY AdoptedInitially
<1> HIDE DEF Adopted
<1> QED  BY <1>1, <1>2, <1>3, AlwaysTyped, AlwaysHeld, ReadOnceStands, AlwaysApart, PTL
         DEF Spec, AdoptedAtOnce

=============================================================================
