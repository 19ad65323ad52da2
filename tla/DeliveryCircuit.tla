--------------------------- MODULE DeliveryCircuit ---------------------------
(***************************************************************************)
(* The delivery circuit of _core/delivery_circuit.py: the shared state that *)
(* tells the delivery workers whether to send the next usage record or to   *)
(* hold it in the store-and-forward buffer.                                 *)
(*                                                                          *)
(* Each Sender is a delivery worker.  It asks allows_send, is then on the    *)
(* wire for as long as the endpoint takes, and records the outcome: outcomes *)
(* of sends granted before the circuit opened arrive while it is open, in    *)
(* any order.  A replay batch of the buffer does not ask; it reports one     *)
(* outcome of its own at any moment.                                         *)
(*                                                                          *)
(* The code compares time.monotonic() with _next_probe_at only, so time is   *)
(* kept as probeIn, the time left until _next_probe_at (0 once it passed).   *)
(***************************************************************************)
EXTENDS Naturals

CONSTANTS
    Senders,          \* threads that send usage records
    FailuresToOpen,   \* FAILURES_TO_OPEN
    ProbeInterval,    \* PROBE_INTERVAL_SECONDS, in ticks
    FailureCap        \* _consecutive_failures is only compared with FailuresToOpen: it saturates here

ASSUME CircuitAssumption ==
    /\ FailuresToOpen \in Nat \ {0}
    /\ ProbeInterval \in Nat \ {0}
    /\ FailureCap \in Nat /\ FailuresToOpen <= FailureCap

VARIABLES
    failures,     \* _consecutive_failures, saturating at FailureCap
    isOpen,       \* _open
    probeIn,      \* _next_probe_at - now, never below 0
    sending,      \* what each sender has on the wire
    quiet         \* history: ticks since the last probe or failure, saturating at ProbeInterval

circuitVars == <<failures, isOpen, probeIn>>
vars == <<circuitVars, sending, quiet>>

Wire == {"nothing", "record", "probe"}

CircuitInit ==
    /\ failures = 0
    /\ isOpen = FALSE
    /\ probeIn = 0

Init ==
    /\ CircuitInit
    /\ sending = [s \in Senders |-> "nothing"]
    /\ quiet = ProbeInterval

-----------------------------------------------------------------------------
(* The circuit's own operations, each under its lock.                       *)

\* Mutant: an open circuit grants the next probe without waiting for it to be due.
GrantBeforeDue ==
    /\ probeIn' = IF isOpen THEN ProbeInterval ELSE probeIn
    /\ UNCHANGED <<failures, isOpen>>

\* allows_send is true: closed, or open with the probe due, which spends it.
Grant ==
    /\ isOpen => probeIn = 0
    /\ probeIn' = IF isOpen THEN ProbeInterval ELSE probeIn
    /\ UNCHANGED <<failures, isOpen>>

\* allows_send is false: open and the probe is not due.
Refuse ==
    /\ isOpen
    /\ probeIn > 0
    /\ UNCHANGED circuitVars

\* record_success; it reports isOpen, whether it closed the circuit.
RecordSuccess ==
    /\ failures' = 0
    /\ isOpen' = FALSE
    /\ UNCHANGED probeIn

\* record_failure: counts, moves the next probe away, opens at the threshold.
RecordFailure ==
    /\ failures' = IF failures < FailureCap THEN failures + 1 ELSE failures
    /\ probeIn' = ProbeInterval
    /\ isOpen' = (isOpen \/ failures' >= FailuresToOpen)

\* The clock moves towards _next_probe_at.
ProbeClock ==
    /\ probeIn > 0
    /\ probeIn' = probeIn - 1
    /\ UNCHANGED <<failures, isOpen>>

-----------------------------------------------------------------------------
(* The senders around it.                                                   *)

StartSend(s) ==
    /\ sending[s] = "nothing"
    /\ Grant
    /\ sending' = [sending EXCEPT ![s] = IF isOpen THEN "probe" ELSE "record"]
    /\ quiet' = IF isOpen THEN 0 ELSE quiet

\* The record is built into the buffer instead: nothing goes on the wire.
HoldRecord(s) ==
    /\ sending[s] = "nothing"
    /\ Refuse
    /\ UNCHANGED <<sending, quiet>>

SendSucceeds(s) ==
    /\ sending[s] # "nothing"
    /\ RecordSuccess
    /\ sending' = [sending EXCEPT ![s] = "nothing"]
    /\ UNCHANGED quiet

\* A retryable failure, after the client's own retries.
SendFails(s) ==
    /\ sending[s] # "nothing"
    /\ RecordFailure
    /\ sending' = [sending EXCEPT ![s] = "nothing"]
    /\ quiet' = 0

\* A permanent failure says nothing about whether the endpoint answers.
SendRejected(s) ==
    /\ sending[s] # "nothing"
    /\ sending' = [sending EXCEPT ![s] = "nothing"]
    /\ UNCHANGED <<circuitVars, quiet>>

\* _settle_replays: a batch that delivered an AI record, or in which only failures answered.
ReplaySucceeds == RecordSuccess /\ UNCHANGED <<sending, quiet>>

ReplayFails ==
    /\ RecordFailure
    /\ quiet' = 0
    /\ UNCHANGED sending

Tick ==
    /\ ProbeClock
    /\ quiet' = IF quiet < ProbeInterval THEN quiet + 1 ELSE quiet
    /\ UNCHANGED sending

Next ==
    \/ \E s \in Senders :
          StartSend(s) \/ HoldRecord(s) \/ SendSucceeds(s) \/ SendFails(s) \/ SendRejected(s)
    \/ ReplaySucceeds
    \/ ReplayFails
    \/ Tick

Spec == Init /\ [][Next]_vars

-----------------------------------------------------------------------------
TypeOK ==
    /\ failures \in 0..FailureCap
    /\ isOpen \in BOOLEAN
    /\ probeIn \in 0..ProbeInterval
    /\ sending \in [Senders -> Wire]
    /\ quiet \in 0..ProbeInterval

\* The flag and the counter, written in two methods and read by a third, never
\* disagree, whatever the order in which outcomes of overlapping sends arrive:
\* the circuit is open exactly when the last FailuresToOpen outcomes failed.
OpenIffFailing == isOpen <=> failures >= FailuresToOpen

\* While the endpoint is down the workers try at most one record per probe interval:
\* a probe starts only once a whole interval has passed without a failure being
\* recorded and without another probe, however many sends were in flight when
\* the circuit opened and whatever the buffer replays meanwhile.
ProbesAreRationed ==
    [][\A s \in Senders :
          sending[s] # "probe" /\ sending'[s] = "probe" => quiet >= ProbeInterval]_vars
=============================================================================
