------------------------ MODULE DeliveryCircuitProofs ------------------------
(***************************************************************************)
(* What TLAPS proves about the delivery circuit, for every number of         *)
(* senders, threshold and probe interval.                                    *)
(***************************************************************************)
EXTENDS DeliveryCircuit, TLAPS

\* Type correctness and the agreement of flag and counter are inductive
\* together with how the probe timer relates to the time already waited: what
\* is left until the next probe is what is missing to a whole interval.
TimerCovers == probeIn + quiet = ProbeInterval

IInv == TypeOK /\ OpenIffFailing /\ TimerCovers

\* A fresh circuit is closed, has counted nothing and may send at once.
LEMMA InitEstablishes == Init => IInv
  <1> SUFFICES ASSUME Init PROVE IInv
    OBVIOUS
  <1> USE CircuitAssumption DEF Init, CircuitInit
  <1>1. TypeOK
    <2>1. sending \in [Senders -> Wire]
      BY DEF Wire
    <2>2. failures \in 0..FailureCap
      OBVIOUS
    <2>3. isOpen \in BOOLEAN
      BY Zenon
    <2>4. probeIn \in 0..ProbeInterval /\ quiet \in 0..ProbeInterval
      OBVIOUS
    <2> QED
      BY <2>1, <2>2, <2>3, <2>4 DEF TypeOK
  <1>2. OpenIffFailing
    BY DEF OpenIffFailing
  <1>3. TimerCovers
    BY DEF TimerCovers
  <1> QED
    BY <1>1, <1>2, <1>3 DEF IInv

\* record_success keeps them, whoever calls it: the flag and the counter fall together.
LEMMA RecordSuccessKeeps ==
  ASSUME IInv, RecordSuccess, quiet' = quiet, sending' \in [Senders -> Wire]
  PROVE  IInv'
  <1> USE CircuitAssumption DEF IInv, TypeOK, OpenIffFailing, TimerCovers, RecordSuccess
  <1>1. ~isOpen' /\ isOpen' \in BOOLEAN
    BY Zenon
  <1>2. failures' \in 0..FailureCap /\ ~(failures' >= FailuresToOpen)
    OBVIOUS
  <1>3. /\ probeIn' \in 0..ProbeInterval
        /\ quiet' \in 0..ProbeInterval
        /\ TimerCovers'
    OBVIOUS
  <1> QED
    BY <1>1, <1>2, <1>3

\* record_failure keeps them: the flag rises when the counter reaches the threshold, and
\* the whole interval is ahead again.
LEMMA RecordFailureKeeps ==
  ASSUME IInv, RecordFailure, quiet' = 0, sending' \in [Senders -> Wire]
  PROVE  IInv'
  <1> USE CircuitAssumption DEF IInv, TypeOK, OpenIffFailing, TimerCovers, RecordFailure
  <1>1. isOpen' \in BOOLEAN
    BY Zenon
  <1>2. failures' \in 0..FailureCap
    OBVIOUS
  <1>3. isOpen => failures' >= FailuresToOpen
    OBVIOUS
  <1>4. isOpen' <=> failures' >= FailuresToOpen
    BY <1>3, Zenon
  <1>5. /\ probeIn' \in 0..ProbeInterval
        /\ quiet' \in 0..ProbeInterval
        /\ TimerCovers'
    OBVIOUS
  <1> QED
    BY <1>1, <1>2, <1>4, <1>5

\* Every step of a sender, of a replay or of the clock keeps the three conjuncts.
LEMMA NextPreserves == IInv /\ [Next]_vars => IInv'
  <1> SUFFICES ASSUME IInv, [Next]_vars PROVE IInv'
    OBVIOUS
  <1> USE CircuitAssumption DEF IInv, TypeOK, Wire, OpenIffFailing, TimerCovers
  <1>1. ASSUME NEW s \in Senders, StartSend(s) PROVE IInv'
    BY <1>1 DEF StartSend, Grant
  <1>2. ASSUME NEW s \in Senders, HoldRecord(s) PROVE IInv'
    BY <1>2 DEF HoldRecord, Refuse, circuitVars
  <1>3. ASSUME NEW s \in Senders, SendSucceeds(s) PROVE IInv'
    BY <1>3, RecordSuccessKeeps DEF SendSucceeds
  <1>4. ASSUME NEW s \in Senders, SendFails(s) PROVE IInv'
    BY <1>4, RecordFailureKeeps DEF SendFails
  <1>5. ASSUME NEW s \in Senders, SendRejected(s) PROVE IInv'
    BY <1>5 DEF SendRejected, circuitVars
  <1>6. CASE Tick
    BY <1>6 DEF Tick, ProbeClock
  <1>7. CASE ReplaySucceeds
    BY <1>7, RecordSuccessKeeps DEF ReplaySucceeds
  <1>8. CASE ReplayFails
    BY <1>8, RecordFailureKeeps DEF ReplayFails
  <1>9. CASE UNCHANGED vars
    BY <1>9 DEF vars, circuitVars
  <1> QED
    BY <1>1, <1>2, <1>3, <1>4, <1>5, <1>6, <1>7, <1>8, <1>9 DEF Next

\* The inductive invariant holds in every reachable state.
THEOREM Inductive == Spec => []IInv
  <1>1. Init => IInv
    BY InitEstablishes
  <1>2. IInv /\ [Next]_vars => IInv'
    BY NextPreserves
  <1> QED
    BY <1>1, <1>2, PTL DEF Spec

\* The variables of DeliveryCircuit keep their types.
THEOREM TypeCorrect == Spec => []TypeOK
  <1>1. IInv => TypeOK
    BY DEF IInv
  <1> QED
    BY <1>1, Inductive, PTL

\* _open and _consecutive_failures never disagree: record_success and
\* record_failure, in any order, leave the circuit open exactly when the last
\* FailuresToOpen recorded outcomes were failures.
THEOREM FlagAgreesWithCounter == Spec => []OpenIffFailing
  <1>1. IInv => OpenIffFailing
    BY DEF IInv
  <1> QED
    BY <1>1, Inductive, PTL

\* allows_send rations probes: each one starts a whole probe interval after the
\* previous one and after the last failure that any sender recorded.
THEOREM ProbesRationed == Spec => ProbesAreRationed
  <1>1. ASSUME IInv, [Next]_vars
        PROVE  [\A s \in Senders :
                  sending[s] # "probe" /\ sending'[s] = "probe" => quiet >= ProbeInterval]_vars
    <2> SUFFICES ASSUME NEW t \in Senders, sending[t] # "probe", sending'[t] = "probe", Next
                 PROVE  quiet >= ProbeInterval
      BY <1>1 DEF vars, circuitVars
    <2> USE <1>1, CircuitAssumption DEF IInv, TypeOK, TimerCovers
    <2>1. ASSUME NEW s \in Senders, StartSend(s) PROVE quiet >= ProbeInterval
      BY <2>1 DEF StartSend, Grant
    <2>2. ASSUME NEW s \in Senders,
                 HoldRecord(s) \/ SendSucceeds(s) \/ SendFails(s) \/ SendRejected(s)
          PROVE  FALSE
      BY <2>2 DEF HoldRecord, SendSucceeds, SendFails, SendRejected
    <2>3. CASE Tick \/ ReplaySucceeds \/ ReplayFails
      BY <2>3 DEF Tick, ReplaySucceeds, ReplayFails
    <2> QED
      BY <2>1, <2>2, <2>3 DEF Next
  <1> QED
    BY <1>1, Inductive, PTL DEF Spec, ProbesAreRationed
=============================================================================
