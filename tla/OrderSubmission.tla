--------------------------- MODULE OrderSubmission ---------------------------
(***************************************************************************)
(* How one order gets from a caller to the broker, in LIVE mode:            *)
(*                                                                          *)
(*   JournaledBroker -> CircuitBreakeredBroker -> (5 s worker thread)       *)
(*     -> GuardrailedBroker -> RateLimitedBroker -> AlpacaBrokerAdapter     *)
(*                                                                          *)
(* (the nesting is built in application/factory.py).  The callers are       *)
(* threads of one process: the trading cycle, the API's retail orders, the  *)
(* kill-switch flatten.  Two of them may present the same idempotency key;  *)
(* the process may crash at any point; a request may be lost, answered      *)
(* late, or accepted after everybody stopped waiting for it.                *)
(*                                                                          *)
(* A key is the client_order_id of a market or flatten order, or the unique *)
(* nonce _client_key makes for one limit, stop or trailing order (which is  *)
(* then presented once).                                                    *)
(***************************************************************************)
EXTENDS CircuitBreaker, FiniteSets

CONSTANTS
  Callers,       \* threads that place orders
  Keys,          \* idempotency keys
  FlattenKeys,   \* the keys that go through place_flatten_order
  MaxAttempts,   \* max_retries + 1 of retry_with_backoff in the adapter
  MaxCrashes,    \* bound: process crashes explored
  NoKey          \* "no order in hand"

ASSUME SubmissionAssumption ==
  /\ FlattenKeys \subseteq Keys
  /\ MaxAttempts \in Nat \ {0}
  /\ MaxCrashes \in Nat
  /\ NoKey \notin Keys

(* FillResult.status as far as callers tell the values apart: the broker    *)
(* filled it, holds it working, or the stack says it was not placed.        *)
Results == {"filled", "pending", "rejected"}
NoResult == "none"

Attempts == 1..MaxAttempts
Cids == Keys \X Attempts

(* Mutant: an id per attempt.                                               *)
FreshIdPerAttempt(k, n) == <<k, n>>

(* The client_order_id of the n-th attempt for key k.  The adapter fixes it *)
(* (cid) before its retry loop, so it is that of the first attempt.         *)
ClientOrderId(k, n) == <<k, 1>>

VARIABLES
  journal,    \* order_events: the durable rows
  pc,         \* where each caller is in JournaledBroker._submit
  holding,    \* the key it is submitting
  worker,     \* the worker thread of the key's one broker call
  inflight,   \* requests sent and not yet processed by the broker
  accepted,   \* external: client order ids the broker has opened an order for
  told,       \* history: the outcomes callers were given for each key
  crashes     \* number of crashes so far

ovars == <<journal, pc, holding, worker, inflight, accepted, told, crashes>>
vars == <<cbVars, ovars>>

Row == [status : {"none", "intent", "confirmed"},
        result : Results \cup {NoResult}, published : BOOLEAN]
NoRow == [status |-> "none", result |-> NoResult, published |-> FALSE]

CallerSteps == {"idle", "record", "enter", "wait", "confirm", "publish"}
WorkerSteps == {"none", "checks", "send", "await", "done", "throttled"}
Worker == [at : WorkerSteps, attempt : Attempts, result : Results \cup {NoResult}]
NoWorker == [at |-> "none", attempt |-> 1, result |-> NoResult]

(* Types of the journal, the callers, the workers and the broker.           *)
TypeOK ==
  /\ BreakerTypeOK
  /\ journal \in [Keys -> Row]
  /\ pc \in [Callers -> CallerSteps]
  /\ holding \in [Callers -> Keys \cup {NoKey}]
  /\ \A c \in Callers : pc[c] # "idle" => holding[c] \in Keys
  /\ worker \in [Keys -> Worker]
  /\ inflight \subseteq Cids
  /\ accepted \subseteq Cids
  /\ told \in [Keys -> SUBSET Results]
  /\ crashes \in 0..MaxCrashes

Init ==
  /\ BreakerInit
  /\ journal = [k \in Keys |-> NoRow]
  /\ pc = [c \in Callers |-> "idle"]
  /\ holding = [c \in Callers |-> NoKey]
  /\ worker = [k \in Keys |-> NoWorker]
  /\ inflight = {}
  /\ accepted = {}
  /\ told = [k \in Keys |-> {}]
  /\ crashes = 0

-----------------------------------------------------------------------------
(* JournaledBroker._submit, the caller's side.                              *)

GoTo(c, step) == pc' = [pc EXCEPT ![c] = step]

(* The caller leaves _submit, by return or by an exception.                 *)
Leave(c) ==
  /\ pc' = [pc EXCEPT ![c] = "idle"]
  /\ holding' = [holding EXCEPT ![c] = NoKey]

(* journal.get(key) finds nothing: this call will submit.                   *)
Present(c, k) ==
  /\ pc[c] = "idle"
  /\ journal[k].status = "none"
  /\ GoTo(c, "record")
  /\ holding' = [holding EXCEPT ![c] = k]
  /\ UNCHANGED <<cbVars, journal, worker, inflight, accepted, told, crashes>>

(* journal.get(key) finds a confirmed row: the stored result is replayed.   *)
Replay(c, k) ==
  /\ pc[c] = "idle"
  /\ journal[k].status = "confirmed"
  /\ told' = [told EXCEPT ![k] = @ \cup {journal[k].result}]
  /\ UNCHANGED <<cbVars, journal, pc, holding, worker, inflight, accepted, crashes>>

(* journal.get(key) finds an intent-only row: needs_reconcile is returned   *)
(* and nothing changes.                                                     *)
NeedsReconcile(c, k) ==
  /\ pc[c] = "idle"
  /\ journal[k].status = "intent"
  /\ UNCHANGED vars

(* Mutant: no row before the broker call.                                  *)
RecordSkipped(c) ==
  /\ pc[c] = "record"
  /\ GoTo(c, "enter")
  /\ UNCHANGED <<cbVars, journal, holding, worker, inflight, accepted, told, crashes>>

(* journal.record: INSERT and COMMIT.  The id is the primary key, so of two *)
(* callers that both read nothing the second gets an IntegrityError.        *)
Record(c) ==
  /\ pc[c] = "record"
  /\ journal[holding[c]].status = "none"
  /\ journal' = [journal EXCEPT ![holding[c]].status = "intent"]
  /\ GoTo(c, "enter")
  /\ UNCHANGED <<cbVars, holding, worker, inflight, accepted, told, crashes>>

RecordConflict(c) ==
  /\ pc[c] = "record"
  /\ journal[holding[c]].status # "none"
  /\ Leave(c)
  /\ UNCHANGED <<cbVars, journal, worker, inflight, accepted, told, crashes>>

(* The breaker lets the call start and a worker thread runs it ...          *)
EnterBreaker(c) ==
  /\ pc[c] = "enter"
  /\ EffectiveState # "open"
  /\ ReadState
  /\ worker' = [worker EXCEPT ![holding[c]] = [NoWorker EXCEPT !.at = "checks"]]
  /\ GoTo(c, "wait")
  /\ UNCHANGED <<journal, holding, inflight, accepted, told, crashes>>

(* ... or raises CircuitOpenError: the intent stays in the journal.         *)
RefusedByBreaker(c) ==
  /\ pc[c] = "enter"
  /\ EffectiveState = "open"
  /\ ReadState
  /\ Leave(c)
  /\ UNCHANGED <<journal, worker, inflight, accepted, told, crashes>>

(* The worker ended with a FillResult, whatever it says: a success for the  *)
(* breaker.                                                                 *)
Finish(c) ==
  /\ pc[c] = "wait"
  /\ worker[holding[c]].at = "done"
  /\ OnSuccess
  /\ GoTo(c, "confirm")
  /\ UNCHANGED <<journal, holding, worker, inflight, accepted, told, crashes>>

(* The worker ended with RateLimitExceededError, a non_failure_exception:   *)
(* re-raised, the breaker untouched, the intent left behind.                *)
RaiseThrottled(c) ==
  /\ pc[c] = "wait"
  /\ worker[holding[c]].at = "throttled"
  /\ Leave(c)
  /\ UNCHANGED <<cbVars, journal, worker, inflight, accepted, told, crashes>>

(* Mutant: join() without a timeout.                                        *)
JoinForever(c) == FALSE

(* worker.join(5.0) ran out: TimeoutError, a failure for the breaker.  The  *)
(* worker thread goes on.                                                   *)
TimeOut(c) ==
  /\ pc[c] = "wait"
  /\ worker[holding[c]].at \notin {"done", "throttled"}
  /\ OnFailure
  /\ Leave(c)
  /\ UNCHANGED <<journal, worker, inflight, accepted, told, crashes>>

(* journal.update to confirmed with the result.                             *)
Confirm(c) ==
  /\ pc[c] = "confirm"
  /\ journal' = [journal EXCEPT ![holding[c]].status = "confirmed",
                                ![holding[c]].result = worker[holding[c]].result]
  /\ GoTo(c, "publish")
  /\ UNCHANGED <<cbVars, holding, worker, inflight, accepted, told, crashes>>

(* journal.mark_published, and the result is returned.                      *)
Publish(c) ==
  /\ pc[c] = "publish"
  /\ journal' = [journal EXCEPT ![holding[c]].published = TRUE]
  /\ told' = [told EXCEPT ![holding[c]] = @ \cup {worker[holding[c]].result}]
  /\ Leave(c)
  /\ UNCHANGED <<cbVars, worker, inflight, accepted, crashes>>

-----------------------------------------------------------------------------
(* The worker thread of key k: guardrail, rate limiter, adapter.            *)

Ends(k, r) == worker' = [worker EXCEPT ![k].at = "done", ![k].result = r]

WorkerOnly == UNCHANGED <<cbVars, journal, pc, holding, accepted, told, crashes>>

(* Mutant: the guardrail also refuses a flatten.                            *)
GuardrailRejectsAll(k) ==
  worker[k].at = "checks" /\ Ends(k, "rejected") /\ UNCHANGED inflight /\ WorkerOnly

(* GuardrailedBroker._guard refuses the size; place_flatten_order does not  *)
(* ask it.                                                                  *)
GuardrailRejects(k) ==
  /\ worker[k].at = "checks"
  /\ k \notin FlattenKeys
  /\ Ends(k, "rejected")
  /\ UNCHANGED inflight
  /\ WorkerOnly

(* RateLimitedBroker._check raises; place_flatten_order does not ask it.    *)
Throttle(k) ==
  /\ worker[k].at = "checks"
  /\ k \notin FlattenKeys
  /\ worker' = [worker EXCEPT ![k].at = "throttled"]
  /\ UNCHANGED inflight
  /\ WorkerOnly

PassChecks(k) ==
  /\ worker[k].at = "checks"
  /\ worker' = [worker EXCEPT ![k].at = "send"]
  /\ UNCHANGED inflight
  /\ WorkerOnly

(* client.submit_order: the request leaves.                                 *)
Send(k) ==
  /\ worker[k].at = "send"
  /\ worker' = [worker EXCEPT ![k].at = "await"]
  /\ inflight' = inflight \cup {<<k, worker[k].attempt>>}
  /\ WorkerOnly

(* The broker's answer arrives: the order it holds under this id, filled in *)
(* part or whole, or working.                                               *)
Answered(k) ==
  /\ worker[k].at = "await"
  /\ <<k, worker[k].attempt>> \notin inflight
  /\ ClientOrderId(k, worker[k].attempt) \in accepted
  /\ \E r \in {"filled", "pending"} : Ends(k, r)
  /\ UNCHANGED inflight
  /\ WorkerOnly

(* A permanent 4xx: the broker refused the request (the second request of a *)
(* client order id it knows, for one); the except clause of                 *)
(* place_market_order makes it a rejected FillResult.                       *)
Refused(k) ==
  /\ worker[k].at = "await"
  /\ <<k, worker[k].attempt>> \in inflight
  /\ inflight' = inflight \ {<<k, worker[k].attempt>>}
  /\ Ends(k, "rejected")
  /\ WorkerOnly

(* A connection error, a timeout, a 429 or a 5xx: the answer is lost, and   *)
(* the broker may or may not have the order.  retry_with_backoff tries      *)
(* again ...                                                                *)
Retry(k) ==
  /\ worker[k].at = "await"
  /\ worker[k].attempt < MaxAttempts
  /\ worker' = [worker EXCEPT ![k].at = "send", ![k].attempt = @ + 1]
  /\ UNCHANGED inflight
  /\ WorkerOnly

(* ... until the attempts are used up: ServiceError, rejected FillResult.   *)
GiveUp(k) ==
  /\ worker[k].at = "await"
  /\ worker[k].attempt = MaxAttempts
  /\ Ends(k, "rejected")
  /\ UNCHANGED inflight
  /\ WorkerOnly

-----------------------------------------------------------------------------
(* External: the broker processes a request, at any time after it was sent, *)
(* and opens an order unless it has one under the same client order id.     *)
BrokerAccepts(k, n) ==
  /\ <<k, n>> \in inflight
  /\ inflight' = inflight \ {<<k, n>>}
  /\ accepted' = accepted \cup {ClientOrderId(k, n)}
  /\ UNCHANGED <<cbVars, journal, pc, holding, worker, told, crashes>>

(* The process dies and restarts.  The journal is durable and requests on   *)
(* the wire are not recalled; threads, workers and the breaker are lost.    *)
Crash ==
  /\ crashes < MaxCrashes
  /\ crashes' = crashes + 1
  /\ pc' = [c \in Callers |-> "idle"]
  /\ holding' = [c \in Callers |-> NoKey]
  /\ worker' = [k \in Keys |-> NoWorker]
  /\ ResetBreaker
  /\ UNCHANGED <<journal, inflight, accepted, told>>

Elapse == RecoveryElapses /\ UNCHANGED ovars

(* What a caller does once it is inside _submit.                            *)
CallerStep(c) ==
  \/ Record(c) \/ RecordConflict(c) \/ EnterBreaker(c) \/ RefusedByBreaker(c)
  \/ Finish(c) \/ RaiseThrottled(c) \/ TimeOut(c) \/ Confirm(c) \/ Publish(c)

WorkerStep(k) ==
  \/ GuardrailRejects(k) \/ Throttle(k) \/ PassChecks(k) \/ Send(k)
  \/ Answered(k) \/ Refused(k) \/ Retry(k) \/ GiveUp(k)

Next ==
  \/ \E c \in Callers, k \in Keys :
       Present(c, k) \/ Replay(c, k) \/ NeedsReconcile(c, k)
  \/ \E c \in Callers : CallerStep(c)
  \/ \E k \in Keys : WorkerStep(k)
  \/ \E k \in Keys, n \in Attempts : BrokerAccepts(k, n)
  \/ Crash
  \/ Elapse

Spec == Init /\ [][Next]_vars

(* A caller's thread runs: SQLite answers, and join(5.0) returns.  A worker *)
(* runs until it waits for the broker; of the broker nothing is assumed.    *)
FairSpec ==
  /\ Spec
  /\ \A c \in Callers : WF_vars(CallerStep(c))
  /\ \A k \in Keys : WF_vars(PassChecks(k) \/ Send(k))

-----------------------------------------------------------------------------
(* The abstract specification's state, in terms of this one's.              *)
RegisteredKeys == {k \in Keys : journal[k].status # "none"}
BrokerCopies == [k \in Keys |-> {x \in accepted : x[1] = k}]
SettledOutcome == [k \in Keys |-> {r \in Results : journal[k].result = r}]

Abstract == INSTANCE OnceOnlyOrders WITH
  Orders <- Keys,
  Copies <- Cids,
  Outcomes <- Results,
  Placed <- {"filled", "pending"},
  registered <- RegisteredKeys,
  copies <- BrokerCopies,
  outcome <- SettledOutcome,
  answers <- told

(* The order path implements the abstract specification: every step of a    *)
(* caller, a worker, the broker or a crash is one of its steps or changes   *)
(* none of its variables.                                                   *)
ImplementsOnceOnly == Abstract!Spec

-----------------------------------------------------------------------------
(* Retries, late requests, crashes and concurrent callers never leave the   *)
(* broker with two orders for one key (the claim of alpaca_broker.py,       *)
(* _new_client_order_id).                                                   *)
AtMostOneBrokerOrder ==
  \A x, y \in accepted : x[1] = y[1] => x = y

(* "Persists every order intent before the underlying broker is touched":   *)
(* whatever is on the wire, held by the broker or still running in a worker *)
(* has a durable row, also after a crash (journaled_broker.py, docstring).  *)
IntentBeforeBroker ==
  \A k \in Keys :
    \/ journal[k].status # "none"
    \/ /\ worker[k].at = "none"
       /\ \A n \in Attempts : <<k, n>> \notin inflight \cup accepted

(* The steps of _submit between the INSERT and the return.                  *)
Submitting == {"enter", "wait", "confirm", "publish"}

(* Of the callers that present a key at once, one gets to submit it: the    *)
(* unlocked read-then-insert is decided by the primary key.                 *)
OneSubmitterPerKey ==
  \A c, d \in Callers :
    (pc[c] \in Submitting /\ pc[d] \in Submitting /\ holding[c] = holding[d]) => c = d

(* All callers that are ever given an outcome for a key, by its submission  *)
(* or by replay, before or after a crash, are given the same one, and it is *)
(* the one in the journal.                                                  *)
SameOutcomeForAll ==
  \A k \in Keys : \A r \in told[k] :
    journal[k].status = "confirmed" /\ journal[k].result = r

(* An outcome that says the broker has the order is true of the broker.     *)
ReportedOrderExists ==
  \A k \in Keys :
    journal[k].result \in {"filled", "pending"} => ClientOrderId(k, 1) \in accepted

(* A confirmed row is final: no step, of a racing caller, of a late worker  *)
(* or of a restart, takes it back or changes its outcome.                   *)
ConfirmedIsFinal ==
  [][\A k \in Keys : journal[k].status = "confirmed" =>
       journal'[k].status = "confirmed" /\ journal'[k].result = journal[k].result]_vars

(* An emergency close that the breaker lets through always gets to the      *)
(* wire: neither the guardrail nor the rate limiter ends it before          *)
(* (broker_rate_limiter.py and order_guardrail.py, place_flatten_order).    *)
FlattenReachesBroker ==
  \A k \in FlattenKeys : worker[k].at = "checks" ~> worker[k].at \in {"await", "none"}

(* A broker that never answers does not hold a caller: every _submit ends.  *)
CallerReturns == \A c \in Callers : pc[c] # "idle" ~> pc[c] = "idle"

=============================================================================
