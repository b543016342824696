---------------------------- MODULE CircuitBreaker ----------------------------
(***************************************************************************)
(* The circuit breaker of src/kater/proxy/manager.py as operators on a     *)
(* record.  Every method of the class runs under the breaker's own lock,   *)
(* so each operator below is one indivisible step of the machines that use *)
(* it (BackendCalls for direct calls, LogicalRouting for routed ones).     *)
(*                                                                         *)
(* Two abstractions of data:                                               *)
(*   - the monotonic clock: instead of opened_at a breaker carries `wait`, *)
(*     the ticks left until recovery_timeout has passed since it opened;   *)
(*     Tick lowers it, and wait = 0 is the code's                          *)
(*     monotonic() - opened_at >= recovery_timeout;                        *)
(*   - `failures` stops counting at FailureThreshold: the code only ever   *)
(*     asks whether it has reached it.                                     *)
(***************************************************************************)
EXTENDS Integers

CONSTANTS FailureThreshold,   \* settings.proxy_failure_threshold
          RecoveryTimeout     \* settings.proxy_recovery_timeout, in ticks

ASSUME BreakerAssumption == /\ FailureThreshold \in Nat \ {0}
                            /\ RecoveryTimeout \in Nat

BreakerState == {"closed", "open", "half_open"}

Breaker == [state    : BreakerState,
            failures : 0 .. FailureThreshold,
            wait     : 0 .. RecoveryTimeout,
            probe    : BOOLEAN]

NewBreaker == [state |-> "closed", failures |-> 0, wait |-> 0, probe |-> FALSE]

(* Time passes. *)
Elapse(b) == IF b.wait > 0 THEN [b EXCEPT !.wait = @ - 1] ELSE b

(* _maybe_half_open: an open breaker whose recovery time has passed lets a *)
(* single probe through.                                                   *)
MaybeHalfOpen(b) ==
  IF b.state = "open" /\ b.wait = 0
  THEN [b EXCEPT !.state = "half_open", !.probe = FALSE]
  ELSE b

(* can_call admits every call to a closed breaker and one to a half-open   *)
(* breaker.  Both operators are applied to MaybeHalfOpen of the breaker.   *)
Admits(b) == b.state = "closed" \/ (b.state = "half_open" /\ ~b.probe)

AfterAdmission(b) == [b EXCEPT !.probe = @ \/ b.state = "half_open"]

RecordSuccess(b) ==
  [state |-> "closed", failures |-> 0, wait |-> b.wait, probe |-> FALSE]

ResetBreaker == NewBreaker

Opened(b) ==
  [state |-> "open", failures |-> b.failures, wait |-> RecoveryTimeout, probe |-> FALSE]

OneMoreFailure(b) ==
  [b EXCEPT !.failures = IF @ < FailureThreshold THEN @ + 1 ELSE @]

RecordFailureOffByOne(b) ==
  LET c == OneMoreFailure(b)
  IN  IF b.state = "half_open" \/ b.failures >= FailureThreshold
      THEN Opened(c) ELSE c

RecordFailureOfProbeIgnored(b) ==
  LET c == OneMoreFailure(b)
  IN  IF b.state = "closed" /\ c.failures >= FailureThreshold
      THEN Opened(c) ELSE c

(* A failed probe reopens the breaker; otherwise reaching the threshold    *)
(* opens it, or restarts the wait of one that is open already.             *)
RecordFailure(b) ==
  LET c == OneMoreFailure(b)
  IN  IF b.state = "half_open" \/ c.failures >= FailureThreshold
      THEN Opened(c) ELSE c
===============================================================================
