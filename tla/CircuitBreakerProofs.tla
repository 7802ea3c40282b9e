------------------------ MODULE CircuitBreakerProofs ------------------------
(***************************************************************************)
(* The safety properties of CircuitBreaker, for any number of calls in     *)
(* flight and any configuration.                                           *)
(***************************************************************************)
EXTENDS CircuitBreaker, TLAPS

(***************************************************************************)
(* What the fields of the breaker say of each other and of the history.    *)
(* The last failure of an open circuit is not older than its opening, so   *)
(* that the reset timeout is over when the last failure is that old; and   *)
(* the count never exceeds the run of failures without a success.          *)
(***************************************************************************)
OpenIsOlder  == isCircuitOpen => failureAge <= openAge
ClosedBelow  == ~isCircuitOpen => failureCount < FailureCountThreshold
ClosedRested == ~isCircuitOpen => openAge = ResetTimeout
CountIsRun   == failureCount <= streak \/ streak = FailureCountThreshold
OffIsClosed  == ~enabled => ~isCircuitOpen /\ failureCount = 0

IInv ==
    /\ TypeOK
    /\ OpenIsOlder
    /\ ClosedBelow
    /\ ClosedRested
    /\ CountIsRun
    /\ OffIsClosed

\* An age stays below its limit, and only grows.
LEMMA OlderFacts ==
    ASSUME NEW limit \in Nat, NEW age \in 0..limit
    PROVE  /\ Older(age, limit) \in 0..limit
           /\ age <= Older(age, limit)
           /\ Older(age, limit) <= age + 1
           /\ age = limit => Older(age, limit) = limit
           /\ age < limit => Older(age, limit) = age + 1
BY DEF Older

\* The initial state satisfies the inductive invariant.
LEMMA InitIInv == Init => IInv
<1> SUFFICES ASSUME Init PROVE IInv
  OBVIOUS
<1>1. TypeOK
  <2>1. isCircuitOpen \in BOOLEAN
    BY DEF Init
  <2> QED
    BY <2>1, ConfigAssumption DEF Init, TypeOK, OpState, Answer
<1>2. ~isCircuitOpen
  BY DEF Init
<1>3. OpenIsOlder /\ OffIsClosed
  BY <1>2 DEF Init, OpenIsOlder, OffIsClosed
<1>4. ClosedBelow /\ ClosedRested /\ CountIsRun
  BY ConfigAssumption DEF Init, ClosedBelow, ClosedRested, CountIsRun
<1> QED
  BY <1>1, <1>3, <1>4 DEF IInv

\* The catch block and its history keep the parts about the breaker.
LEMMA FailureKeeps ==
    ASSUME IInv, enabled, OnFailure, RecordFailure, UNCHANGED enabled
    PROVE  /\ failureCount' \in Nat
           /\ isCircuitOpen' \in BOOLEAN
           /\ failureAge' \in 0..ResetTimeout
           /\ streak' \in 0..FailureCountThreshold
           /\ openAge' \in 0..ResetTimeout
           /\ OpenIsOlder' /\ ClosedBelow' /\ ClosedRested' /\ CountIsRun' /\ OffIsClosed'
<1> USE ConfigAssumption DEF IInv, TypeOK, OnFailure, RecordFailure
<1>1. /\ failureCount' \in Nat
      /\ isCircuitOpen' \in BOOLEAN
      /\ failureAge' \in 0..ResetTimeout
      /\ openAge' \in 0..ResetTimeout
  OBVIOUS
<1>2. streak' \in 0..FailureCountThreshold
  BY OlderFacts
<1>3. OpenIsOlder'
  BY <1>1 DEF OpenIsOlder
<1>4. ClosedBelow'
  <2>1. ~isCircuitOpen' => ~(failureCount' >= FailureCountThreshold)
    BY Zenon
  <2>2. ~(failureCount' >= FailureCountThreshold) => failureCount' < FailureCountThreshold
    BY <1>1
  <2> QED
    BY <2>1, <2>2 DEF ClosedBelow
<1>5. ClosedRested'
  BY DEF ClosedRested
<1>6. CountIsRun'
  BY OlderFacts DEF CountIsRun
<1>7. OffIsClosed'
  BY DEF OffIsClosed
<1> QED
  BY <1>1, <1>2, <1>3, <1>4, <1>5, <1>6, <1>7

\* Every step of every action keeps the inductive invariant.
LEMMA StepIInv == IInv /\ [Next]_vars => IInv'
<1> SUFFICES ASSUME IInv, [Next]_vars PROVE IInv'
  OBVIOUS
<1> USE ConfigAssumption
<1> USE DEF IInv, TypeOK, OpState, Answer
<1>1. ASSUME NEW c \in Calls, CallDisabled(c) PROVE IInv'
  BY <1>1 DEF CallDisabled, Start, breaker, OpenIsOlder, ClosedBelow,
              ClosedRested, CountIsRun, OffIsClosed
<1>2. ASSUME NEW c \in Calls, CallClosed(c) PROVE IInv'
  BY <1>2 DEF CallClosed, Start, breaker, OpenIsOlder, ClosedBelow,
              ClosedRested, CountIsRun, OffIsClosed
<1>3. ASSUME NEW c \in Calls, CallReset(c) PROVE IInv'
  <2>1. TypeOK'
    <3>1. isCircuitOpen' \in BOOLEAN
      BY <1>3 DEF CallReset
    <3> QED
      BY <1>3, <3>1 DEF CallReset, ResetDue, Start
  <2>2. ~isCircuitOpen'
    BY <1>3 DEF CallReset
  <2>3. OpenIsOlder' /\ OffIsClosed'
    BY <1>3, <2>2 DEF CallReset, ResetDue, OpenIsOlder, OffIsClosed
  <2>4. ClosedBelow' /\ CountIsRun'
    BY <1>3 DEF CallReset, ResetDue, ClosedBelow, CountIsRun
  <2>5. ClosedRested'
    BY <1>3 DEF CallReset, ResetDue, OpenIsOlder, ClosedRested
  <2> QED
    BY <2>1, <2>3, <2>4, <2>5
<1>4. ASSUME NEW c \in Calls, CallRejected(c) PROVE IInv'
  BY <1>4 DEF CallRejected, breaker, OpenIsOlder, ClosedBelow,
              ClosedRested, CountIsRun, OffIsClosed
<1>5. ASSUME NEW c \in Calls, OperationSucceeds(c) PROVE IInv'
  <2>1. TypeOK'
    BY <1>5 DEF OperationSucceeds, CountAfterSuccess, Settle
  <2>2. failureCount' <= failureCount
    BY <1>5 DEF OperationSucceeds, CountAfterSuccess, Settle
  <2>3. ClosedBelow'
    BY <1>5, <2>1, <2>2 DEF OperationSucceeds, CountAfterSuccess, Settle, ClosedBelow
  <2>4. OpenIsOlder' /\ ClosedRested' /\ OffIsClosed'
    BY <1>5 DEF OperationSucceeds, CountAfterSuccess, Settle, OpenIsOlder, ClosedRested, OffIsClosed
  <2>5. CountIsRun'
    BY <1>5 DEF OperationSucceeds, CountAfterSuccess, Settle, CountIsRun, OffIsClosed
  <2> QED
    BY <2>1, <2>3, <2>4, <2>5
<1>6. ASSUME NEW c \in Calls, OperationFails(c) PROVE IInv'
  BY <1>6, FailureKeeps DEF OperationFails, Settle
<1>7. ASSUME NEW c \in Calls, OperationFailsDisabled(c) PROVE IInv'
  BY <1>7 DEF OperationFailsDisabled, Settle, breaker, OpenIsOlder, ClosedBelow,
              ClosedRested, CountIsRun, OffIsClosed
<1>8. ASSUME NEW c \in Calls, TimerFires(c) PROVE IInv'
  BY <1>8, FailureKeeps DEF TimerFires
<1>9. ASSUME NEW c \in Calls, LateSettles(c) PROVE IInv'
  BY <1>9 DEF LateSettles, breaker, OpenIsOlder, ClosedBelow,
              ClosedRested, CountIsRun, OffIsClosed
<1>10. CASE Tick
  <2>1. TypeOK'
    BY <1>10, OlderFacts DEF Tick
  <2>2. OpenIsOlder'
    BY <1>10 DEF Tick, Older, OpenIsOlder
  <2>3. ClosedRested'
    BY <1>10, OlderFacts DEF Tick, ClosedRested
  <2>4. ClosedBelow' /\ CountIsRun' /\ OffIsClosed'
    BY <1>10 DEF Tick, ClosedBelow, CountIsRun, OffIsClosed
  <2> QED
    BY <2>1, <2>2, <2>3, <2>4
<1>11. CASE UNCHANGED vars
  BY <1>11 DEF vars, breaker, OpenIsOlder, ClosedBelow, ClosedRested,
               CountIsRun, OffIsClosed
<1> QED
  BY <1>1, <1>2, <1>3, <1>4, <1>5, <1>6, <1>7, <1>8, <1>9, <1>10, <1>11
     DEF Next, CallStep, Call

\* The invariant holds in every reachable state.
LEMMA Inductive == Spec => []IInv
BY InitIInv, StepIInv, PTL DEF Spec

\* The breaker's fields keep their types.
THEOREM TypeCorrect == Spec => []TypeOK
<1>1. IInv => TypeOK
  BY DEF IInv
<1> QED
  BY <1>1, Inductive, PTL

(***************************************************************************)
(* Whatever calls are in flight, failureCount is at the threshold only     *)
(* while the circuit is open.                                              *)
(***************************************************************************)
THEOREM ThresholdOpensAlways == Spec => []ThresholdOpens
<1>1. IInv => ThresholdOpens
  BY ConfigAssumption DEF IInv, TypeOK, ClosedBelow, ThresholdOpens
<1> QED
  BY <1>1, Inductive, PTL

(***************************************************************************)
(* The circuit opens only on FailureCountThreshold failures in a row.      *)
(***************************************************************************)
THEOREM OpensOnlyAfterStreakAlways == Spec => OpensOnlyAfterStreak
<1>1. IInv /\ IInv' /\ [Next]_vars
        => [~isCircuitOpen /\ isCircuitOpen' => streak' >= FailureCountThreshold]_vars
  <2> SUFFICES ASSUME IInv, IInv', [Next]_vars, ~isCircuitOpen, isCircuitOpen'
               PROVE  streak' >= FailureCountThreshold
    OBVIOUS
  <2>1. OnFailure
    BY DEF Next, CallStep, Call, CallDisabled, CallClosed, CallReset,
           CallRejected, OperationSucceeds, OperationFails, Settle,
           OperationFailsDisabled, TimerFires, LateSettles, Tick, vars, breaker
  <2>2. failureCount' >= FailureCountThreshold
    BY <2>1 DEF OnFailure
  <2> QED
    BY <2>2, ConfigAssumption DEF IInv, TypeOK, CountIsRun
<1> QED
  BY <1>1, Inductive, PTL DEF Spec, OpensOnlyAfterStreak

(***************************************************************************)
(* No operation is sent to Elasticsearch within the reset timeout of the   *)
(* circuit's opening.                                                      *)
(***************************************************************************)
THEOREM ShedsWhileOpenAlways == Spec => ShedsWhileOpen
<1>1. IInv /\ [Next]_vars
        => [\A c \in Calls : op[c] # "running" /\ op'[c] = "running"
                               => openAge >= ResetTimeout]_vars
  <2> SUFFICES ASSUME IInv, [Next]_vars, NEW c \in Calls,
                      op[c] # "running", op'[c] = "running"
               PROVE  openAge >= ResetTimeout
    BY DEF vars
  <2>1. \E d \in Calls : CallDisabled(d) \/ CallClosed(d) \/ CallReset(d)
    BY DEF IInv, TypeOK, Next, CallStep, Call, CallRejected,
           OperationSucceeds, OperationFails, Settle, OperationFailsDisabled,
           TimerFires, LateSettles, Tick, vars, breaker
  <2>2. ~isCircuitOpen \/ failureAge >= ResetTimeout
    BY <2>1 DEF IInv, OffIsClosed, CallDisabled, CallClosed, CallReset, ResetDue
  <2> QED
    BY <2>2, ConfigAssumption DEF IInv, TypeOK, OpenIsOlder, ClosedRested
<1> QED
  BY <1>1, Inductive, PTL DEF Spec, ShedsWhileOpen
=============================================================================
