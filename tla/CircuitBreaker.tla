--------------------------- MODULE CircuitBreaker ---------------------------
(***************************************************************************)
(* EsCircuitBreakerProxy: every Elasticsearch operation of the API goes    *)
(* through withCircuitBreaker, which races the operation against a timer,  *)
(* counts consecutive failures and, past a threshold, answers 503 without  *)
(* calling Elasticsearch until a reset timeout has gone by.                *)
(*                                                                         *)
(* Many operations are in flight at once: the proxy is a singleton and     *)
(* every await of an operation is a place where others run.  A step below  *)
(* is the code between two awaits.                                         *)
(*                                                                         *)
(* Clock readings only occur as differences that are compared with a       *)
(* limit, so the model keeps ages (milliseconds since the event) and lets  *)
(* an age stop growing once it has reached its limit; no clock bound is    *)
(* needed.                                                                 *)
(***************************************************************************)
EXTENDS Naturals

CONSTANTS
    Calls,                  \* slots for operations in flight
    DurationThreshold,      \* config.durationThresholdMs
    FailureCountThreshold,  \* config.failureCountThreshold
    ResetTimeout            \* config.resetTimeoutMs

ASSUME ConfigAssumption ==
    /\ DurationThreshold \in Nat
    /\ FailureCountThreshold \in Nat \ {0}
    /\ ResetTimeout \in Nat

VARIABLES
    enabled,        \* this.enabled, read once by the constructor
    failureCount,   \* this.failureCount
    isCircuitOpen,  \* this.isCircuitOpen
    failureAge,     \* now - this.lastFailureTime, up to ResetTimeout
    op,             \* op[c]: where the operation in slot c is
    opAge,          \* age of the operation in slot c, up to DurationThreshold
    answer,         \* what the caller of slot c was last answered
    streak,         \* history: failures since the last success or reset of any
                    \* call, up to FailureCountThreshold
    openAge         \* history: time since the circuit last opened

breaker == <<failureCount, isCircuitOpen, failureAge>>
vars == <<enabled, breaker, op, opAge, answer, streak, openAge>>

\* "late": the timer has answered the caller, the operation still runs.
OpState == {"idle", "running", "late"}
Answer  == {"none", "result", "unavailable", "error"}

(***************************************************************************)
(* Types of the fields of EsCircuitBreakerProxy and of the calls; in       *)
(* particular failureCount is never negative, whatever success and failure *)
(* settle in turn.                                                         *)
(***************************************************************************)
TypeOK ==
    /\ enabled \in BOOLEAN
    /\ failureCount \in Nat
    /\ isCircuitOpen \in BOOLEAN
    /\ failureAge \in 0..ResetTimeout
    /\ op \in [Calls -> OpState]
    /\ opAge \in [Calls -> 0..DurationThreshold]
    /\ answer \in [Calls -> Answer]
    /\ streak \in 0..FailureCountThreshold
    /\ openAge \in 0..ResetTimeout

Init ==
    /\ enabled \in BOOLEAN
    /\ failureCount = 0
    /\ isCircuitOpen = FALSE
    /\ failureAge = ResetTimeout   \* lastFailureTime = 0, the epoch
    /\ op = [c \in Calls |-> "idle"]
    /\ opAge = [c \in Calls |-> 0]
    /\ answer = [c \in Calls |-> "none"]
    /\ streak = 0
    /\ openAge = ResetTimeout

----------------------------------------------------------------------------
\* An age, or a count, that stops growing at its limit.
Older(age, limit) == IF age < limit THEN age + 1 ELSE age

\* The operation is called and, with the breaker on, its timer is started.
Start(c) ==
    /\ op' = [op EXCEPT ![c] = "running"]
    /\ opAge' = [opAge EXCEPT ![c] = 0]
    /\ answer' = [answer EXCEPT ![c] = "none"]

\* if (!this.enabled) return operation();
CallDisabled(c) ==
    /\ ~enabled
    /\ op[c] = "idle"
    /\ Start(c)
    /\ UNCHANGED <<enabled, breaker, streak, openAge>>

\* Circuit closed: straight to the try block.
CallClosed(c) ==
    /\ enabled
    /\ op[c] = "idle"
    /\ ~isCircuitOpen
    /\ Start(c)
    /\ UNCHANGED <<enabled, breaker, streak, openAge>>

\* Mutant: the reset is due one tick early.
ResetDue_Early == failureAge + 1 >= ResetTimeout

\* timeSinceLastFailure >= resetTimeoutMs
ResetDue == failureAge >= ResetTimeout

\* Mutant: the reset closes the circuit and keeps the count.
CallReset_KeepsCount(c) ==
    /\ enabled
    /\ op[c] = "idle"
    /\ isCircuitOpen
    /\ ResetDue
    /\ isCircuitOpen' = FALSE
    /\ streak' = 0
    /\ Start(c)
    /\ UNCHANGED <<enabled, failureCount, failureAge, openAge>>

\* Circuit open, reset timeout elapsed: close it, forget the failures, call.
CallReset(c) ==
    /\ enabled
    /\ op[c] = "idle"
    /\ isCircuitOpen
    /\ ResetDue
    /\ isCircuitOpen' = FALSE
    /\ failureCount' = 0
    /\ streak' = 0
    /\ Start(c)
    /\ UNCHANGED <<enabled, failureAge, openAge>>

\* Mutant: a rejected request counts as a failure of Elasticsearch.
CallRejected_Refreshing(c) ==
    /\ enabled
    /\ op[c] = "idle"
    /\ isCircuitOpen
    /\ ~ResetDue
    /\ failureAge' = 0
    /\ answer' = [answer EXCEPT ![c] = "unavailable"]
    /\ UNCHANGED <<enabled, failureCount, isCircuitOpen, op, opAge, streak, openAge>>

\* Circuit open, reset timeout not elapsed: 503 without an operation.
CallRejected(c) ==
    /\ enabled
    /\ op[c] = "idle"
    /\ isCircuitOpen
    /\ ~ResetDue
    /\ answer' = [answer EXCEPT ![c] = "unavailable"]
    /\ UNCHANGED <<enabled, breaker, op, opAge, streak, openAge>>

Call(c) == CallDisabled(c) \/ CallClosed(c) \/ CallReset(c) \/ CallRejected(c)

\* The running operation of slot c settles first and its caller is answered.
Settle(c, ans) ==
    /\ op[c] = "running"
    /\ op' = [op EXCEPT ![c] = "idle"]
    /\ opAge' = [opAge EXCEPT ![c] = 0]
    /\ answer' = [answer EXCEPT ![c] = ans]

\* Mutant: a success takes one failure back.
CountAfterSuccess_Decremented == failureCount - 1

\* this.failureCount = 0, after the operation resolved; not with the breaker off.
CountAfterSuccess == IF enabled THEN 0 ELSE failureCount

\* The operation wins the race with a result.
OperationSucceeds(c) ==
    /\ Settle(c, "result")
    /\ failureCount' = CountAfterSuccess
    /\ streak' = 0
    /\ UNCHANGED <<enabled, isCircuitOpen, failureAge, openAge>>

\* Mutant: the threshold is compared before the count is incremented.
OnFailure_OffByOne ==
    /\ failureCount' = failureCount + 1
    /\ failureAge' = 0
    /\ isCircuitOpen' = (isCircuitOpen \/ failureCount >= FailureCountThreshold)

\* The catch block of withCircuitBreaker.
OnFailure ==
    /\ failureCount' = failureCount + 1
    /\ failureAge' = 0
    /\ isCircuitOpen' = (isCircuitOpen \/ failureCount' >= FailureCountThreshold)

\* History variables of a failure: consecutive failures, time of opening.
RecordFailure ==
    /\ streak' = Older(streak, FailureCountThreshold)
    /\ openAge' = IF ~isCircuitOpen /\ isCircuitOpen' THEN 0 ELSE openAge

\* The operation wins the race with an error.
OperationFails(c) ==
    /\ enabled
    /\ Settle(c, "unavailable")
    /\ OnFailure
    /\ RecordFailure
    /\ UNCHANGED enabled

\* With the breaker off the operation's own error reaches the caller.
OperationFailsDisabled(c) ==
    /\ ~enabled
    /\ Settle(c, "error")
    /\ UNCHANGED <<enabled, breaker, streak, openAge>>

\* Mutant: no timer while the circuit is open.
TimerDue_ClosedOnly(c) == opAge[c] >= DurationThreshold /\ ~isCircuitOpen

\* setTimeout(..., durationThresholdMs) is due.
TimerDue(c) == opAge[c] >= DurationThreshold

\* The timer wins the race: a failure, while the operation goes on.
TimerFires(c) ==
    /\ enabled
    /\ op[c] = "running"
    /\ TimerDue(c)
    /\ op' = [op EXCEPT ![c] = "late"]
    /\ answer' = [answer EXCEPT ![c] = "unavailable"]
    /\ OnFailure
    /\ RecordFailure
    /\ UNCHANGED <<enabled, opAge>>

\* The race is over: how a late operation settles is of no consequence.
LateSettles(c) ==
    /\ op[c] = "late"
    /\ op' = [op EXCEPT ![c] = "idle"]
    /\ opAge' = [opAge EXCEPT ![c] = 0]
    /\ UNCHANGED <<enabled, breaker, answer, streak, openAge>>

\* Time passes.
Tick ==
    /\ failureAge' = Older(failureAge, ResetTimeout)
    /\ openAge' = Older(openAge, ResetTimeout)
    /\ opAge' = [c \in Calls |-> IF op[c] = "running"
                                 THEN Older(opAge[c], DurationThreshold)
                                 ELSE opAge[c]]
    /\ UNCHANGED <<enabled, failureCount, isCircuitOpen, op, answer, streak>>

CallStep(c) ==
    \/ Call(c)
    \/ OperationSucceeds(c)
    \/ OperationFails(c)
    \/ OperationFailsDisabled(c)
    \/ TimerFires(c)
    \/ LateSettles(c)

Next == Tick \/ \E c \in Calls : CallStep(c)

Spec == Init /\ [][Next]_vars

(***************************************************************************)
(* Fairness: time passes; an expired timer fires and the HTTP client of    *)
(* the Elastic service settles every request (its own timeout); requests   *)
(* keep arriving.                                                          *)
(***************************************************************************)
Fairness ==
    /\ WF_vars(Tick)
    /\ \A c \in Calls : WF_vars(TimerFires(c))
                     /\ WF_vars(LateSettles(c))
                     /\ WF_vars(Call(c))

FairSpec == Spec /\ Fairness

----------------------------------------------------------------------------
(***************************************************************************)
(* Once the configured number of consecutive failures is reached the       *)
(* circuit is open, whatever calls were in flight when it happened: late   *)
(* successes, resets and failures interleave in any order.                 *)
(***************************************************************************)
ThresholdOpens == failureCount >= FailureCountThreshold => isCircuitOpen

(***************************************************************************)
(* The circuit opens only on a run of FailureCountThreshold failures with  *)
(* no success of any call and no reset in between: failures on either side *)
(* of a success or of a reset are never added up.                          *)
(***************************************************************************)
OpensOnlyAfterStreak ==
    [][~isCircuitOpen /\ isCircuitOpen' => streak' >= FailureCountThreshold]_vars

(***************************************************************************)
(* Load shedding: for the whole reset timeout after the circuit opened, no *)
(* operation is sent to Elasticsearch, also when calls that were already   *)
(* in flight succeed or fail meanwhile.                                    *)
(***************************************************************************)
ShedsWhileOpen ==
    [][\A c \in Calls : op[c] # "running" /\ op'[c] = "running"
                            => openAge >= ResetTimeout]_vars

(***************************************************************************)
(* An open circuit closes again while requests keep coming: rejected       *)
(* requests and the failures of calls still in flight put the reset off    *)
(* only finitely often.                                                    *)
(***************************************************************************)
Recovers == isCircuitOpen ~> ~isCircuitOpen

(***************************************************************************)
(* With the breaker on, every caller is answered, even if Elasticsearch    *)
(* never answers the operation itself.                                     *)
(***************************************************************************)
CallersAnswered ==
    \A c \in Calls : (enabled /\ op[c] = "running") ~> op[c] # "running"
=============================================================================
