--------------------------- MODULE BreakerClients ---------------------------
(***************************************************************************)
(* Threads of one process (the trading cycle, the API's threadpool, the     *)
(* flatten of the fatal handler) calling the broker through one circuit     *)
(* breaker.  CircuitBreaker.call reads the state under the lock, runs the   *)
(* call WITHOUT the lock, and records the outcome under the lock again: the *)
(* interleavings of these three steps are what this module explores.        *)
(***************************************************************************)
EXTENDS CircuitBreaker, FiniteSets

CONSTANT Callers   \* the threads that call the broker

VARIABLES
  phase,     \* what each caller is doing in call()
  healthy,   \* does the broker answer at present (environment)
  streak     \* history: successes recorded since the last failure, saturating

vars == <<cbState, cbFailures, cbSuccesses, cbRecovered, phase, healthy, streak>>

(* A running call remembers the state it was admitted in.                   *)
Phases == {"idle", "closed", "half-open"}

(* Types of the callers' and the breaker's variables.                       *)
TypeOK ==
  /\ BreakerTypeOK
  /\ phase \in [Callers -> Phases]
  /\ healthy \in BOOLEAN
  /\ streak \in 0..SuccessesToClose

Init ==
  /\ BreakerInit
  /\ phase = [c \in Callers |-> "idle"]
  /\ healthy = TRUE
  /\ streak = 0

-----------------------------------------------------------------------------
(* call(): an open circuit raises CircuitOpenError.  Reading the state is   *)
(* all that happens.                                                        *)
FailFast(c) ==
  /\ phase[c] = "idle"
  /\ EffectiveState = "open"
  /\ ReadState
  /\ UNCHANGED <<phase, healthy, streak>>

(* call(): closed and half-open both go on to fn(); the half-open branch is *)
(* a bare pass, so nothing counts the trials in progress.                   *)
AdmitCall(c) ==
  /\ phase[c] = "idle"
  /\ EffectiveState # "open"
  /\ ReadState
  /\ phase' = [phase EXCEPT ![c] = EffectiveState]
  /\ UNCHANGED <<healthy, streak>>

(* fn() returned: _on_success.                                              *)
Succeed(c) ==
  /\ phase[c] # "idle"
  /\ healthy
  /\ OnSuccess
  /\ streak' = IF streak < SuccessesToClose THEN streak + 1 ELSE streak
  /\ phase' = [phase EXCEPT ![c] = "idle"]
  /\ UNCHANGED healthy

(* fn() raised an expected_exception, or _run_bounded timed out             *)
(* (TimeoutError): _on_failure.                                             *)
Fail(c) ==
  /\ phase[c] # "idle"
  /\ ~healthy
  /\ OnFailure
  /\ streak' = 0
  /\ phase' = [phase EXCEPT ![c] = "idle"]
  /\ UNCHANGED healthy

(* fn() raised a non_failure_exception (RateLimitExceededError): passed     *)
(* through, the breaker is not touched.                                     *)
Shed(c) ==
  /\ phase[c] # "idle"
  /\ phase' = [phase EXCEPT ![c] = "idle"]
  /\ UNCHANGED <<cbVars, healthy, streak>>

(* The environment: the broker goes down or comes back; time passes.        *)
ChangeHealth ==
  /\ healthy' = ~healthy
  /\ UNCHANGED <<cbVars, phase, streak>>

Elapse == RecoveryElapses /\ UNCHANGED <<phase, healthy, streak>>

(* The cases of CircuitBreaker.call, as the thread c takes them.            *)
Call(c) == AdmitCall(c) \/ FailFast(c)
Return(c) == Succeed(c) \/ Fail(c)

Next ==
  \/ \E c \in Callers : Call(c) \/ Return(c) \/ Shed(c)
  \/ ChangeHealth
  \/ Elapse

Spec == Init /\ [][Next]_vars

(* Every call ends: fn() is bounded by the 5 s of _run_bounded.  The daemon *)
(* loop and the API keep calling.  Load shedding does not happen forever.   *)
FairSpec ==
  /\ Spec
  /\ WF_vars(Elapse)
  /\ \A c \in Callers : WF_vars(Return(c)) /\ SF_vars(AdmitCall(c))
                        /\ SF_vars(Succeed(c))

-----------------------------------------------------------------------------
(* A closed circuit has seen fewer failures than the threshold: whatever    *)
(* the order in which concurrent calls report, reaching failure_threshold   *)
(* opens it (resilience.py, _on_failure).                                   *)
ClosedBelowThreshold == cbState = "closed" => cbFailures < FailureThreshold

(* An open or half-open circuit closes only after SuccessesToClose          *)
(* successes with no failure between them ("two consecutive successes to    *)
(* close", _on_success), however the calls of several threads overlap.      *)
ClosesOnConsecutiveSuccesses ==
  [][cbState # "closed" /\ cbState' = "closed" => streak' >= SuccessesToClose]_vars

(* Once the broker is healthy for good, the circuit does not stay open: the *)
(* calls that go on arriving close it again.                                *)
HealthyBrokerRecloses == <>[]healthy => <>[](cbState = "closed")

=============================================================================
