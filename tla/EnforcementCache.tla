--------------------------- MODULE EnforcementCache ---------------------------
(***************************************************************************)
(* The spending-cap rules of _core/enforcement.py: the in-memory cache, the *)
(* snapshot of it on disk, the poller thread that refreshes it, the checks  *)
(* that read it before every provider call, and stop_polling.               *)
(*                                                                          *)
(* A team here is an owner of the cache: an enforcement address and a team  *)
(* id.  Rules are abstracted to the team they are for and the version the   *)
(* server had; what they say about a call is not modelled.  A check never   *)
(* waits for the poller: each step below is what one thread does under one  *)
(* lock, or between two reads of shared state, so every interleaving of     *)
(* checks, poller, team switches and disk writes is a behaviour.            *)
(*                                                                          *)
(* Time is not a number: the cache may grow stale, a wait may end and a     *)
(* backoff may pass at any moment.  The retries inside one fetch are not    *)
(* modelled: it is answered, fails, or gives up on a long Retry-After.      *)
(***************************************************************************)
EXTENDS Naturals

CONSTANTS
    Teams,          \* the owners the cache can have
    FirstTeam,      \* the one the process starts with
    SavedBefore,    \* the teams with a snapshot left by an earlier process
    CacheDir,       \* REVENIUM_CACHE_DIR is set
    Callers,        \* threads that check before their provider calls
    Nobody,
    MaxVersion,     \* how often the server's rules change
    Budget          \* how often each rare event may happen, and "all" of them together

Rare == {"switch", "stop", "restart", "fork", "inspect", "all"}

ASSUME CacheAssumption ==
    /\ FirstTeam \in Teams /\ SavedBefore \subseteq Teams
    /\ CacheDir \in BOOLEAN
    /\ Nobody \notin Teams
    /\ MaxVersion \in Nat
    /\ Budget \in [Rare -> Nat]

VARIABLES
    team,           \* _current_owner(), from the environment
    served,         \* per team, the version of the rules on the server
    left,           \* what is left of Budget
    cacheOwner,     \* _cache_owner
    rules,          \* _cached_rules; NoRules while _cache_initialized is False
    departments,    \* the department maps cached with them
    fresh,          \* _cache_timestamp is less than _CACHE_TTL ago
    diskLoadAttempted,
    cooldown,       \* _refresh_cooldown_until is in the future
    cooldownOwner,  \* _refresh_cooldown_owner
    refreshLock,    \* _refresh_lock is held
    wakeup,         \* _poll_wakeup
    stopEvent,      \* _stop_event
    poller,         \* the poller thread and the locals of its refresh
    checks,         \* per caller, the locals of its check_enforcement
    stopper,        \* where a stop_polling is
    inspection,     \* the team of an inspection read in flight
    saved,          \* per team, the two snapshot files
    heldOff,        \* history: the team whose failed fetch is being waited out
    during          \* history, per caller: the teams the process had during its check

envVars      == <<team, served, left>>
cacheVars    == <<cacheOwner, rules, departments, fresh, diskLoadAttempted>>
cooldownVars == <<cooldown, cooldownOwner, heldOff>>
signalVars   == <<refreshLock, wakeup, stopEvent>>
threadVars   == <<poller, checks, stopper, inspection, during>>
vars == <<envVars, cacheVars, cooldownVars, signalVars, threadVars, saved>>

Version == 0 .. MaxVersion
Payload == [team : Teams, version : Version]
NoRules == [team |-> Nobody, version |-> 0]
Torn    == [team |-> Nobody, version |-> 1]   \* a file truncated and not yet written
MaybeRules == Payload \cup {NoRules}
Someone == Teams \cup {Nobody}

NoPoller  == [pc |-> "none", owner |-> Nobody, target |-> Nobody, got |-> NoRules, step |-> 0]
IdleCheck == [pc |-> "idle", owner |-> Nobody, rules |-> NoRules, departments |-> NoRules]
Saved(t)  == LET p == IF t \in SavedBefore THEN [team |-> t, version |-> 0] ELSE NoRules
             IN  [rules |-> p, departments |-> p]

Init ==
    /\ team = FirstTeam /\ served = [t \in Teams |-> 0] /\ left = Budget
    /\ cacheOwner = Nobody /\ rules = NoRules /\ departments = NoRules
    /\ fresh = FALSE /\ diskLoadAttempted = FALSE
    /\ cooldown = FALSE /\ cooldownOwner = Nobody /\ heldOff = Nobody
    /\ refreshLock = FALSE /\ wakeup = FALSE /\ stopEvent = FALSE
    /\ poller = NoPoller /\ checks = [c \in Callers |-> IdleCheck]
    /\ stopper = "idle" /\ inspection = Nobody
    /\ during = [c \in Callers |-> {}]
    /\ saved = [t \in Teams |-> Saved(t)]

Spend(what) ==
    /\ left[what] > 0 /\ left["all"] > 0
    /\ left' = [left EXCEPT ![what] = @ - 1, !["all"] = @ - 1]

-----------------------------------------------------------------------------
(* The backoff: one deadline, and the team whose fetch set it.               *)

MayInstall(owner) == cacheOwner \in {Nobody, owner}

\* _extend_refresh_cooldown
ExtendCooldown(owner) ==
    /\ cooldown' = (cooldown \/ MayInstall(owner))
    /\ cooldownOwner' = IF MayInstall(owner) THEN owner ELSE cooldownOwner

HoldOff(owner) == heldOff' = IF MayInstall(owner) THEN owner ELSE heldOff

\* The deadline is reached.
BackoffPasses ==
    /\ cooldown \/ heldOff # Nobody
    /\ cooldown' = FALSE /\ heldOff' = Nobody
    /\ UNCHANGED <<envVars, cacheVars, cooldownOwner, signalVars, threadVars, saved>>

-----------------------------------------------------------------------------
(* check_enforcement, step by step, for one caller.                          *)

At(c, pc) == checks[c].pc = pc
Goto(c, pc) == checks' = [checks EXCEPT ![c] = [IdleCheck EXCEPT !.pc = pc]]

\* _forget_another_owners_rules up to the lock: the owner is compared without it.
BeginCheck(c) ==
    /\ At(c, "idle")
    /\ during' = [during EXCEPT ![c] = {team}]
    /\ IF cacheOwner = team
         THEN Goto(c, "load")
         ELSE checks' = [checks EXCEPT ![c] = [IdleCheck EXCEPT !.pc = "forget", !.owner = team]]
    /\ UNCHANGED <<envVars, cacheVars, cooldownVars, signalVars, poller, stopper, inspection, saved>>

\* Mutants: a change of team keeps the rules; a caller that finds the team
\* already adopted clears its backoff.
DropNothing(owner) == UNCHANGED <<rules, departments, fresh, diskLoadAttempted, wakeup>>
ClearsBackoff(owner) == FALSE

DropRules(owner) ==
    /\ rules' = NoRules /\ departments' = NoRules
    /\ fresh' = FALSE /\ diskLoadAttempted' = FALSE
    /\ UNCHANGED wakeup

\* The cooldown outlives an adoption that changes nobody's rules, if it is the adopter's.
OwnBackoff(owner) == MayInstall(owner) /\ cooldownOwner \in {Nobody, owner}

\* _forget_another_owners_rules under the lock; the wake-up comes after it.
Forget(c) ==
    LET owner == checks[c].owner IN
    /\ At(c, "forget")
    /\ cacheOwner' = owner
    /\ IF MayInstall(owner)
         THEN Goto(c, "load") /\ UNCHANGED <<rules, departments, fresh, diskLoadAttempted, wakeup>>
         ELSE Goto(c, "wake") /\ DropRules(owner)
    /\ cooldown' = (cooldown /\ OwnBackoff(owner))
    /\ heldOff' = IF MayInstall(owner) /\ cooldownOwner \in {Nobody, owner} THEN heldOff ELSE Nobody
    /\ UNCHANGED <<envVars, cooldownOwner, refreshLock, stopEvent, poller, stopper,
                   inspection, during, saved>>

WakePoller(c) ==
    /\ At(c, "wake") /\ Goto(c, "load")
    /\ wakeup' = TRUE
    /\ UNCHANGED <<envVars, cacheVars, cooldownVars, refreshLock, stopEvent, poller, stopper,
                   inspection, during, saved>>

\* _load_cache_from_disk: one check takes the attempt, the others go on without it.
BeginLoad(c) ==
    /\ At(c, "load")
    /\ Goto(c, IF diskLoadAttempted THEN "ensure" ELSE "read")
    /\ diskLoadAttempted' = TRUE
    /\ UNCHANGED <<envVars, cacheOwner, rules, departments, fresh, cooldownVars, signalVars,
                   poller, stopper, inspection, during, saved>>

\* The rules file of the team the process has now: absent, unreadable, or read.
ReadRules(c) ==
    /\ At(c, "read")
    /\ IF CacheDir /\ saved[team].rules \in Payload
         THEN checks' = [checks EXCEPT ![c] = [IdleCheck EXCEPT !.pc = "departments",
                                               !.owner = team, !.rules = saved[team].rules]]
         ELSE Goto(c, "ensure")
    /\ UNCHANGED <<envVars, cacheVars, cooldownVars, signalVars, poller, stopper, inspection,
                   during, saved>>

\* Mutant: the envelope's rules_fingerprint is not compared.
PairAnyway(r, d) == IF d \in Payload THEN d ELSE NoRules

\* _load_department_budgets_from_disk: maps cut from other rules are dropped.
PairedDepartments(r, d) == IF d = r THEN d ELSE NoRules

ReadDepartments(c) ==
    /\ At(c, "departments")
    /\ checks' = [checks EXCEPT ![c].pc = "install", ![c].departments =
                      PairedDepartments(checks[c].rules, saved[checks[c].owner].departments)]
    /\ UNCHANGED <<envVars, cacheVars, cooldownVars, signalVars, poller, stopper, inspection,
                   during, saved>>

\* The snapshot is installed as stale, unless the cache has changed hands.
InstallSaved(c) ==
    /\ At(c, "install") /\ Goto(c, "ensure")
    /\ IF MayInstall(checks[c].owner)
         THEN /\ cacheOwner' = checks[c].owner
              /\ rules' = checks[c].rules /\ departments' = checks[c].departments
              /\ fresh' = FALSE
         ELSE UNCHANGED <<cacheOwner, rules, departments, fresh>>
    /\ UNCHANGED <<envVars, diskLoadAttempted, cooldownVars, signalVars, poller, stopper,
                   inspection, during, saved>>

\* _ensure_poller_running
EnsurePoller(c) ==
    /\ At(c, "ensure") /\ Goto(c, "rules")
    /\ IF poller.pc = "none"
         THEN stopEvent' = FALSE /\ poller' = [NoPoller EXCEPT !.pc = "loop"]
         ELSE UNCHANGED <<stopEvent, poller>>
    /\ UNCHANGED <<envVars, cacheVars, cooldownVars, refreshLock, wakeup, stopper, inspection,
                   during, saved>>

Stale == rules = NoRules \/ ~fresh

\* _get_rules under the lock, and the verdict; a check that found the cache
\* stale and no backoff goes on to wake the poller.
GetRules(c) ==
    /\ At(c, "rules")
    /\ LET wakes == Stale /\ ~cooldown
       IN  /\ Goto(c, IF wakes THEN "nudge" ELSE "idle")
           /\ during' = [during EXCEPT ![c] = {}]
    /\ UNCHANGED <<envVars, cacheVars, cooldownVars, signalVars, poller, stopper, inspection, saved>>

\* The refresh lock is looked at after the cache lock was given up.
Nudge(c) ==
    /\ At(c, "nudge") /\ Goto(c, "idle")
    /\ wakeup' = (wakeup \/ ~refreshLock)
    /\ UNCHANGED <<envVars, cacheVars, cooldownVars, refreshLock, stopEvent, poller, stopper,
                   inspection, during, saved>>

Check(c) ==
    \/ BeginCheck(c) \/ Forget(c) \/ WakePoller(c) \/ BeginLoad(c) \/ ReadRules(c)
    \/ ReadDepartments(c) \/ InstallSaved(c) \/ EnsurePoller(c) \/ GetRules(c) \/ Nudge(c)

-----------------------------------------------------------------------------
(* The poller thread: _poll_loop around _refresh_cache.                      *)

Polling(pc) == poller.pc = pc
PollGoto(pc) == poller' = [poller EXCEPT !.pc = pc]
pollOnly == <<envVars, cacheVars, cooldownVars, checks, stopper, inspection, during, saved>>

PollStops ==
    /\ Polling("loop") /\ stopEvent
    /\ poller' = NoPoller
    /\ UNCHANGED <<pollOnly, signalVars>>

\* A cooldown is in force, or the refresh lock is held.
PollSkips ==
    /\ Polling("loop") /\ ~stopEvent
    /\ cooldown \/ refreshLock
    /\ poller' = [NoPoller EXCEPT !.pc = "clear"]
    /\ UNCHANGED <<pollOnly, signalVars>>

\* The owner the refresh is for is read here ...
BeginRefresh ==
    /\ Polling("loop") /\ ~stopEvent
    /\ ~cooldown /\ ~refreshLock
    /\ refreshLock' = TRUE
    /\ poller' = [NoPoller EXCEPT !.pc = "target", !.owner = team]
    /\ UNCHANGED <<pollOnly, wakeup, stopEvent>>

\* ... and the one the request goes to is read again, by _fetch_target.
BeginFetch ==
    /\ Polling("target")
    /\ poller' = [poller EXCEPT !.pc = "fetch", !.target = team]
    /\ UNCHANGED <<pollOnly, signalVars>>

FetchAnswered ==
    /\ Polling("fetch")
    /\ poller' = [poller EXCEPT !.pc = "fetched", !.target = Nobody,
                                !.got = [team |-> poller.target, version |-> served[poller.target]]]
    /\ UNCHANGED <<pollOnly, signalVars>>

\* The attempts are used up, the answer is refused or unusable, or a stop ends the retries.
FetchFails ==
    /\ Polling("fetch")
    /\ poller' = [poller EXCEPT !.pc = "failed", !.target = Nobody]
    /\ UNCHANGED <<pollOnly, signalVars>>

\* _plan_retry: a Retry-After too long to wait out becomes the target's cooldown.
FetchDeclined ==
    /\ Polling("fetch")
    /\ poller' = [poller EXCEPT !.pc = "failed", !.target = Nobody]
    /\ ExtendCooldown(poller.target) /\ HoldOff(poller.target)
    /\ UNCHANGED <<envVars, cacheVars, signalVars, checks, stopper, inspection, during, saved>>

\* _begin_failure_backoff, before the refresh lock is released.
BackOff ==
    /\ Polling("failed") /\ PollGoto("release")
    /\ ExtendCooldown(poller.owner) /\ HoldOff(poller.owner)
    /\ UNCHANGED <<envVars, cacheVars, signalVars, checks, stopper, inspection, during, saved>>

\* The rules of a team the process has left meanwhile are dropped ...
RecheckOwner ==
    /\ Polling("fetched")
    /\ PollGoto(IF team = poller.owner THEN "install" ELSE "release")
    /\ UNCHANGED <<pollOnly, signalVars>>

\* Where the fetched rules go: into the cache, unless it has changed hands.
StillOwns(owner) == MayInstall(owner)

\* ... and once more under the lock.
InstallFetched ==
    /\ Polling("install")
    /\ IF StillOwns(poller.owner)
         THEN /\ cacheOwner' = poller.owner
              /\ rules' = poller.got /\ departments' = poller.got
              /\ fresh' = TRUE
              /\ PollGoto(IF CacheDir THEN "save" ELSE "release")
         ELSE PollGoto("release") /\ UNCHANGED <<cacheOwner, rules, departments, fresh>>
    /\ UNCHANGED <<envVars, diskLoadAttempted, cooldownVars, signalVars, checks, stopper,
                   inspection, during, saved>>

\* Mutant: the snapshot goes under the team the process has by now.
CurrentTeamsFiles(owner) == team
FilesOf(owner) == owner

\* _persist_cache_to_disk: each file is truncated, then written; the maps first.
Written(files, step, got) ==
    CASE step = 0 -> [files EXCEPT !.departments = Torn]
      [] step = 1 -> [files EXCEPT !.departments = got]
      [] step = 2 -> [files EXCEPT !.rules = Torn]
      [] step = 3 -> [files EXCEPT !.rules = got]

Save ==
    /\ Polling("save")
    /\ saved' = [saved EXCEPT ![FilesOf(poller.owner)] = Written(@, poller.step, poller.got)]
    /\ poller' = IF poller.step < 3 THEN [poller EXCEPT !.step = @ + 1]
                                    ELSE [poller EXCEPT !.step = 0, !.pc = "release"]
    /\ UNCHANGED <<envVars, cacheVars, cooldownVars, signalVars, checks, stopper, inspection, during>>

\* A write fails: what follows it is not written.
SaveFails ==
    /\ Polling("save")
    /\ poller' = [poller EXCEPT !.step = 0, !.pc = "release"]
    /\ UNCHANGED <<pollOnly, signalVars>>

EndRefresh ==
    /\ Polling("release")
    /\ refreshLock' = FALSE
    /\ poller' = [poller EXCEPT !.pc = "clear", !.got = NoRules]
    /\ UNCHANGED <<pollOnly, wakeup, stopEvent>>

ClearWakeup ==
    /\ Polling("clear")
    /\ wakeup' = FALSE
    /\ poller' = [NoPoller EXCEPT !.pc = "stopcheck"]
    /\ UNCHANGED <<pollOnly, refreshLock, stopEvent>>

\* Mutant: the stop event is not looked at once more before the wait.
WaitAnyway == FALSE
StopSeen == stopEvent

CheckStop ==
    /\ Polling("stopcheck")
    /\ poller' = IF StopSeen THEN NoPoller ELSE [NoPoller EXCEPT !.pc = "wait"]
    /\ UNCHANGED <<pollOnly, signalVars>>

Woken    == Polling("wait") /\ wakeup /\ PollGoto("loop") /\ UNCHANGED <<pollOnly, signalVars>>
WaitEnds == Polling("wait") /\ PollGoto("loop") /\ UNCHANGED <<pollOnly, signalVars>>

Poll ==
    \/ PollStops \/ PollSkips \/ BeginRefresh \/ BeginFetch \/ FetchAnswered \/ FetchFails
    \/ FetchDeclined \/ BackOff \/ RecheckOwner \/ InstallFetched \/ Save \/ SaveFails
    \/ EndRefresh \/ ClearWakeup \/ CheckStop \/ Woken \/ WaitEnds

-----------------------------------------------------------------------------
(* stop_polling, the inspection reads, and the environment.                  *)

\* stop_polling: the stop event first, the wake-up after it.  The join changes nothing.
StopPolling ==
    /\ stopper = "idle" /\ Spend("stop")
    /\ stopper' = "wake" /\ stopEvent' = TRUE
    /\ UNCHANGED <<team, served, cacheVars, cooldownVars, refreshLock, wakeup, poller, checks,
                   inspection, during, saved>>

StopWakes ==
    /\ stopper = "wake"
    /\ stopper' = "idle" /\ wakeup' = TRUE
    /\ UNCHANGED <<envVars, cacheVars, cooldownVars, refreshLock, stopEvent, poller, checks,
                   inspection, during, saved>>

\* fetch_enforcement_rule, fetch_enforcement_rule_roster, fetch_advisory_budgets: reads
\* on their caller's thread that no cooldown holds back but that can start one.
BeginInspection ==
    /\ inspection = Nobody /\ Spend("inspect")
    /\ inspection' = team
    /\ UNCHANGED <<team, served, cacheVars, cooldownVars, signalVars, poller, checks, stopper,
                   during, saved>>

EndInspection(declined) ==
    /\ inspection # Nobody
    /\ inspection' = Nobody
    /\ IF declined THEN ExtendCooldown(inspection) /\ HoldOff(inspection)
                   ELSE UNCHANGED cooldownVars
    /\ UNCHANGED <<envVars, cacheVars, signalVars, poller, checks, stopper, during, saved>>

SwitchTeam(t) ==
    /\ t # team /\ Spend("switch")
    /\ team' = t
    /\ during' = [c \in Callers |-> IF At(c, "idle") THEN {} ELSE during[c] \cup {t}]
    /\ UNCHANGED <<served, cacheVars, cooldownVars, signalVars, poller, checks, stopper,
                   inspection, saved>>

ServerChanges(t) ==
    /\ served[t] < MaxVersion
    /\ served' = [served EXCEPT ![t] = @ + 1]
    /\ UNCHANGED <<team, left, cacheVars, cooldownVars, signalVars, threadVars, saved>>

\* _CACHE_TTL passes without a refresh.
CacheExpires ==
    /\ fresh /\ fresh' = FALSE
    /\ UNCHANGED <<envVars, cacheOwner, rules, departments, diskLoadAttempted, cooldownVars,
                   signalVars, threadVars, saved>>

NoThreads ==
    /\ poller' = NoPoller /\ checks' = [c \in Callers |-> IdleCheck]
    /\ stopper' = "idle" /\ inspection' = Nobody
    /\ during' = [c \in Callers |-> {}]

\* The process dies and another starts; the files stay as they are.
Restart ==
    /\ Spend("restart") /\ NoThreads
    /\ cacheOwner' = Nobody /\ rules' = NoRules /\ departments' = NoRules
    /\ fresh' = FALSE /\ diskLoadAttempted' = FALSE
    /\ cooldown' = FALSE /\ cooldownOwner' = Nobody /\ heldOff' = Nobody
    /\ refreshLock' = FALSE /\ wakeup' = FALSE /\ stopEvent' = FALSE
    /\ UNCHANGED <<team, served, saved>>

\* Mutant: the child keeps the parent's refresh lock.
ChildKeepsLock == UNCHANGED refreshLock
FreeRefreshLock == refreshLock' = FALSE

\* A fork, followed in the child: memory as it was, no thread but the forking one.
Fork ==
    /\ Spend("fork") /\ NoThreads
    /\ FreeRefreshLock
    /\ UNCHANGED <<team, served, cacheVars, cooldownVars, wakeup, stopEvent, saved>>

Environment ==
    \/ StopPolling \/ StopWakes \/ BeginInspection
    \/ \E declined \in BOOLEAN : EndInspection(declined)
    \/ \E t \in Teams : SwitchTeam(t) \/ ServerChanges(t)
    \/ CacheExpires \/ BackoffPasses \/ Restart \/ Fork

Next == (\E c \in Callers : Check(c)) \/ Poll \/ Environment

Spec == Init /\ [][Next]_vars

-----------------------------------------------------------------------------
(* What the cache promises.                                                  *)

PollerState ==
    [pc : {"none", "loop", "target", "fetch", "fetched", "failed", "install", "save",
           "release", "clear", "stopcheck", "wait"},
     owner : Someone, target : Someone, got : MaybeRules, step : 0 .. 3]

CheckState ==
    [pc : {"idle", "forget", "wake", "load", "read", "departments", "install", "ensure",
           "rules", "nudge"},
     owner : Someone, rules : MaybeRules, departments : MaybeRules]

Files == [rules : MaybeRules \cup {Torn}, departments : MaybeRules \cup {Torn}]

TypeOK ==
    /\ team \in Teams /\ served \in [Teams -> Version] /\ left \in [Rare -> Nat]
    /\ cacheOwner \in Someone /\ rules \in MaybeRules /\ departments \in MaybeRules
    /\ fresh \in BOOLEAN /\ diskLoadAttempted \in BOOLEAN
    /\ cooldown \in BOOLEAN /\ cooldownOwner \in Someone /\ heldOff \in Someone
    /\ refreshLock \in BOOLEAN /\ wakeup \in BOOLEAN /\ stopEvent \in BOOLEAN
    /\ poller \in PollerState /\ checks \in [Callers -> CheckState]
    /\ stopper \in {"idle", "wake"} /\ inspection \in Someone
    /\ saved \in [Teams -> Files] /\ during \in [Callers -> SUBSET Teams]

\* The rules in the cache are those of the team the cache is for: a switch of team
\* leaves nothing behind to judge the new team's calls by, and nothing that comes
\* late, from the disk or from a fetch, is filed under the wrong team.
CacheIsOwners == rules # NoRules => rules.team = cacheOwner

\* Department maps are only ever used with the rules they were cut from, whatever
\* a crash or a failed write left of the two snapshot files (the comment of
\* _load_department_budgets_from_disk: a torn pair could block the wrong caller).
MapsMatchRules == departments \in {NoRules, rules}

\* A team's snapshot files never hold another team's rules, however late the
\* poller writes them.
SnapshotIsOwners ==
    \A t \in Teams : {saved[t].rules, saved[t].departments} \subseteq
                         [team : {t}, version : Version] \cup {NoRules, Torn}

\* The backoff in force is that of the team the cache is for: no failure of another
\* team's fetch, and no inspection begun before the switch, holds off its refresh.
CooldownIsOwners == cooldown /\ cacheOwner # Nobody => cooldownOwner = cacheOwner

\* Once a cache has an owner, rules that arrive late cannot hand it to another
\* one; only a check that finds the process under another team does.
LateRulesAreDropped ==
    [][rules' \notin {rules, NoRules} => cacheOwner \in {Nobody, cacheOwner'}]_vars

\* While the backoff of a failed fetch runs, no refresh of that team's rules is
\* begun, whoever wakes the poller, unless the cache changed hands in between.
AskedOncePerBackoff ==
    [][Polling("loop") /\ poller'.pc = "target" => heldOff # poller'.owner]_vars

\* A stop is never missed: when the poller waits and a stop is asked for, it is
\* woken or about to be (the comment in _poll_loop: it can never be cleared away).
StopNeverMissed == Polling("wait") /\ stopEvent => wakeup \/ stopper = "wake"

-----------------------------------------------------------------------------
(* What the documentation says and the code does not always do.              *)

\* CHANGELOG and the comment in _refresh_cache_holding_lock: the rules of another
\* team are never installed, so no call is judged by those of a team the process
\* did not have at any moment of its check.
JudgedByOwnTeam ==
    \A c \in Callers : At(c, "rules") /\ rules # NoRules => rules.team \in during[c]

-----------------------------------------------------------------------------
(* Progress: calls keep coming, threads are scheduled, waits and backoffs end, *)
(* and the server answers again and again.                                    *)

FairSpec ==
    /\ Spec
    /\ \A c \in Callers : WF_vars(Check(c))
    /\ WF_vars(PollStops \/ PollSkips \/ BeginRefresh \/ BeginFetch \/ BackOff \/ RecheckOwner)
    /\ WF_vars(InstallFetched \/ Save \/ EndRefresh \/ ClearWakeup \/ CheckStop \/ WaitEnds)
    /\ WF_vars(FetchAnswered \/ FetchFails \/ FetchDeclined) /\ SF_vars(FetchAnswered)
    /\ WF_vars(BackoffPasses)
    /\ WF_vars(StopWakes)

\* Whatever switches, stops, forks and restarts came before, the checks end up
\* judging by the rules the server has for the team the process has.
CapsTakeHold == <>[](rules = [team |-> team, version |-> served[team]])
=============================================================================
