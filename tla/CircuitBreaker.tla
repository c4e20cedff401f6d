--------------------------- MODULE CircuitBreaker ---------------------------
(***************************************************************************)
(* The in-memory circuit breaker every order-modifying broker call goes     *)
(* through (infrastructure/resilience.py, class CircuitBreaker; the         *)
(* instance is BROKER_CB).  This module holds its state and its locked      *)
(* steps; BreakerClients and OrderSubmission compose it with the threads    *)
(* that call it.                                                            *)
(*                                                                          *)
(* Abstractions.  The wall clock is one bit, cbRecovered: at least          *)
(* recovery_timeout seconds have passed since the last failure.  The        *)
(* failure count saturates at FailureThreshold, because the code only ever  *)
(* compares it with >= failure_threshold.                                   *)
(***************************************************************************)
EXTENDS Naturals

CONSTANTS
  FailureThreshold,   \* failure_threshold: failures that open the circuit
  SuccessesToClose    \* the literal 2 of _on_success: trial successes that close it

ASSUME BreakerAssumption ==
  /\ FailureThreshold \in Nat \ {0}
  /\ SuccessesToClose \in Nat \ {0}

VARIABLES
  cbState,      \* _state
  cbFailures,   \* _failures, saturating
  cbSuccesses,  \* _successes
  cbRecovered   \* time.time() - _last_failure >= recovery_timeout

cbVars == <<cbState, cbFailures, cbSuccesses, cbRecovered>>

BreakerStates == {"closed", "open", "half-open"}

(* The fields of the breaker have their types; the success count never      *)
(* survives at the closing threshold (resilience.py, _on_success).          *)
BreakerTypeOK ==
  /\ cbState \in BreakerStates
  /\ cbFailures \in 0..FailureThreshold
  /\ cbSuccesses \in 0..(SuccessesToClose - 1)
  /\ cbRecovered \in BOOLEAN

-----------------------------------------------------------------------------
(* CircuitBreaker.__init__: _last_failure = 0.0, so recovery has elapsed.   *)
BreakerInit ==
  /\ cbState = "closed"
  /\ cbFailures = 0
  /\ cbSuccesses = 0
  /\ cbRecovered = TRUE

(* Mutant: an expired open circuit is not tried again.                      *)
NeverHalfOpen == cbState

(* The value the state property returns ...                                 *)
EffectiveState ==
  IF cbState = "open" /\ cbRecovered THEN "half-open" ELSE cbState

(* ... and its side effect: an expired open circuit becomes half-open.      *)
ReadState ==
  /\ cbState' = EffectiveState
  /\ UNCHANGED <<cbFailures, cbSuccesses, cbRecovered>>

(* A success in the half-open state counts towards closing; anywhere else   *)
(* (an answer that arrives late while the circuit is open included) it      *)
(* clears the failure count.                                                *)
OnSuccess ==
  \/ /\ cbState = "half-open"
     /\ cbSuccesses + 1 >= SuccessesToClose
     /\ cbState' = "closed"
     /\ cbFailures' = 0
     /\ cbSuccesses' = 0
     /\ UNCHANGED cbRecovered
  \/ /\ cbState = "half-open"
     /\ cbSuccesses + 1 < SuccessesToClose
     /\ cbSuccesses' = cbSuccesses + 1
     /\ UNCHANGED <<cbState, cbFailures, cbRecovered>>
  \/ /\ cbState # "half-open"
     /\ cbFailures' = 0
     /\ UNCHANGED <<cbState, cbSuccesses, cbRecovered>>

FailuresAfter ==
  IF cbFailures < FailureThreshold THEN cbFailures + 1 ELSE FailureThreshold

(* A failure restarts the recovery clock, and opens the circuit when it is  *)
(* being tried or when the threshold is reached.                            *)
OnFailure ==
  /\ cbFailures' = FailuresAfter
  /\ cbSuccesses' = 0
  /\ cbRecovered' = FALSE
  /\ cbState' = IF cbState = "half-open" \/ FailuresAfter >= FailureThreshold
                THEN "open" ELSE cbState

(* reset(): the manual reset of tests and operations, and what a restarted  *)
(* process begins with.                                                     *)
ResetBreaker ==
  /\ cbState' = "closed"
  /\ cbFailures' = 0
  /\ cbSuccesses' = 0
  /\ cbRecovered' = TRUE

(* recovery_timeout seconds pass without a further failure.                 *)
RecoveryElapses ==
  /\ ~cbRecovered
  /\ cbRecovered' = TRUE
  /\ UNCHANGED <<cbState, cbFailures, cbSuccesses>>

=============================================================================
