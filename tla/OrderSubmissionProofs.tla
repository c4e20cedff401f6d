------------------------ MODULE OrderSubmissionProofs ------------------------
(***************************************************************************)
(* Proofs about OrderSubmission for every set of callers and keys, every    *)
(* number of attempts and of crashes.                                       *)
(*                                                                          *)
(* The safety properties are not inductive one by one.  What carries them   *)
(* together is Inv: the row of a key moves with the one caller that         *)
(* inserted it, the worker's result is what that caller will write, and     *)
(* every order at the broker goes back to the first client order id of a    *)
(* key with a row.                                                          *)
(*                                                                          *)
(* And about BreakerClients, threads that share the breaker of the stack,   *)
(* PaperTrading, the broker at its bottom in paper mode, and Backtest.      *)
(***************************************************************************)
EXTENDS OrderSubmission, MCMarketParts, Integers, Sequences, TLAPS

(* The row of a key follows the caller that is submitting it.               *)
RowFollowsSubmitter ==
  \A c \in Callers :
    /\ pc[c] \in {"enter", "wait", "confirm"} => journal[holding[c]].status = "intent"
    /\ pc[c] = "publish" =>
         /\ journal[holding[c]].status = "confirmed"
         /\ journal[holding[c]].result = worker[holding[c]].result
    /\ pc[c] \in {"confirm", "publish"} => worker[holding[c]].at = "done"

(* A row has an outcome exactly when it is confirmed.                       *)
OutcomeWhenConfirmed ==
  \A k \in Keys :
    /\ journal[k].status = "confirmed" => journal[k].result \in Results
    /\ journal[k].status # "confirmed" => journal[k].result = NoResult

(* A worker has a result exactly when it is done, and it reports a placed   *)
(* order only if the broker has it.                                         *)
WorkerResultTrue ==
  \A k \in Keys :
    /\ worker[k].at = "done" => worker[k].result \in Results
    /\ worker[k].at # "done" => worker[k].result = NoResult
    /\ worker[k].result \in {"filled", "pending"} => <<k, 1>> \in accepted

(* Every order the broker has was opened under a first client order id.     *)
OnlyFirstIds == \A x \in accepted : x[2] = 1

Inv ==
  /\ TypeOK
  /\ IntentBeforeBroker
  /\ OneSubmitterPerKey
  /\ RowFollowsSubmitter
  /\ OutcomeWhenConfirmed
  /\ WorkerResultTrue
  /\ OnlyFirstIds
  /\ SameOutcomeForAll
  /\ ReportedOrderExists

-----------------------------------------------------------------------------
(* The breaker's steps keep its variables in their types, whatever the      *)
(* threshold: the saturating count stays within it (resilience.py).         *)
LEMMA BreakerTypeStep ==
  ASSUME BreakerTypeOK,
         ReadState \/ OnSuccess \/ OnFailure \/ ResetBreaker \/ RecoveryElapses
           \/ UNCHANGED cbVars
  PROVE  BreakerTypeOK'
<1> USE BreakerAssumption DEF BreakerTypeOK, BreakerStates
<1>1. CASE ReadState
  BY <1>1 DEF ReadState, EffectiveState
<1>2. CASE OnSuccess
  BY <1>2 DEF OnSuccess
<1>3. CASE OnFailure
  <2>1. FailuresAfter \in 0..FailureThreshold
    BY DEF FailuresAfter
  <2>2. 0 \in 0..(SuccessesToClose - 1)
    OBVIOUS
  <2> QED BY <1>3, <2>1, <2>2 DEF OnFailure
<1>4. CASE ResetBreaker
  BY <1>4 DEF ResetBreaker
<1>5. CASE RecoveryElapses
  BY <1>5 DEF RecoveryElapses
<1>6. CASE UNCHANGED cbVars
  BY <1>6 DEF cbVars
<1> QED BY <1>1, <1>2, <1>3, <1>4, <1>5, <1>6

(* The initial state satisfies the invariant (empty journal, idle threads). *)
LEMMA InitInv == Init => Inv
<1> SUFFICES ASSUME Init PROVE Inv
  OBVIOUS
<1> USE SubmissionAssumption, BreakerAssumption DEF Init
<1>1. BreakerTypeOK
  BY DEF BreakerInit, BreakerTypeOK, BreakerStates
<1>2. TypeOK
  BY <1>1 DEF TypeOK, Row, NoRow, Worker, NoWorker, CallerSteps, WorkerSteps,
     Attempts, Cids, Results, NoResult
<1>3. IntentBeforeBroker /\ OneSubmitterPerKey /\ RowFollowsSubmitter /\ OnlyFirstIds
  BY DEF IntentBeforeBroker, OneSubmitterPerKey, RowFollowsSubmitter, OnlyFirstIds,
     Submitting, NoWorker
<1>4. OutcomeWhenConfirmed /\ WorkerResultTrue /\ SameOutcomeForAll /\ ReportedOrderExists
  BY DEF OutcomeWhenConfirmed, WorkerResultTrue, SameOutcomeForAll,
     ReportedOrderExists, NoRow, NoWorker, NoResult, Results
<1> QED BY <1>2, <1>3, <1>4 DEF Inv

-----------------------------------------------------------------------------
(* Presenting, being told a stored outcome, or leaving before the INSERT    *)
(* does not touch a row, a worker or the broker (JournaledBroker._submit).  *)
LEMMA PresentInv ==
  ASSUME Inv, NEW c \in Callers, NEW k \in Keys,
         Present(c, k) \/ Replay(c, k) \/ NeedsReconcile(c, k)
  PROVE  Inv'
<1> USE DEF Inv
<1>1. CASE Present(c, k)
  <2>1. TypeOK'
    BY <1>1 DEF Present, GoTo, TypeOK, CallerSteps, BreakerTypeOK, cbVars
  <2>2. OneSubmitterPerKey' /\ RowFollowsSubmitter'
    BY <1>1 DEF Present, GoTo, TypeOK, OneSubmitterPerKey, RowFollowsSubmitter, Submitting
  <2> QED BY <1>1, <2>1, <2>2 DEF Present, IntentBeforeBroker, OutcomeWhenConfirmed,
       WorkerResultTrue, OnlyFirstIds, SameOutcomeForAll, ReportedOrderExists, ClientOrderId
<1>2. CASE Replay(c, k)
  <2>1. TypeOK'
    BY <1>2 DEF Replay, TypeOK, OutcomeWhenConfirmed, BreakerTypeOK, cbVars
  <2>2. SameOutcomeForAll'
    BY <1>2 DEF Replay, TypeOK, SameOutcomeForAll
  <2> QED BY <1>2, <2>1, <2>2 DEF Replay, IntentBeforeBroker, OneSubmitterPerKey,
       RowFollowsSubmitter, OutcomeWhenConfirmed, WorkerResultTrue, OnlyFirstIds,
       ReportedOrderExists, ClientOrderId
<1>3. CASE NeedsReconcile(c, k)
  BY <1>3 DEF NeedsReconcile, vars, ovars, cbVars, TypeOK, BreakerTypeOK,
     IntentBeforeBroker, OneSubmitterPerKey, RowFollowsSubmitter, OutcomeWhenConfirmed,
     WorkerResultTrue, OnlyFirstIds, SameOutcomeForAll, ReportedOrderExists, ClientOrderId
<1> QED BY <1>1, <1>2, <1>3

(* The INSERT gives the row to this caller: no other caller is submitting   *)
(* the key, for then the row would exist (OrderEventJournal.record).        *)
LEMMA RecordInv ==
  ASSUME Inv, NEW c \in Callers, Record(c)
  PROVE  Inv'
<1> DEFINE k == holding[c]
<1> USE DEF Inv
<1>1. k \in Keys /\ journal[k].status = "none" /\ pc[c] = "record"
  BY DEF Record, TypeOK
<1>2. TypeOK'
  BY <1>1 DEF Record, GoTo, TypeOK, Row, CallerSteps, BreakerTypeOK, cbVars
<1>3. \A d \in Callers : pc[d] \in Submitting => holding[d] # k
  BY <1>1 DEF RowFollowsSubmitter, Submitting
<1>4. /\ journal' = [journal EXCEPT ![k].status = "intent"]
      /\ pc' = [pc EXCEPT ![c] = "enter"]
      /\ UNCHANGED <<holding, worker, inflight, accepted, told>>
  BY DEF Record, GoTo
<1> HIDE DEF k
<1>5. \A j \in Keys : /\ journal'[j].result = journal[j].result
                      /\ j # k => journal'[j].status = journal[j].status
                      /\ j = k => journal'[j].status = "intent"
  BY <1>1, <1>4 DEF TypeOK, Row
<1>6. \A d \in Callers : /\ d # c => pc'[d] = pc[d]
                         /\ d = c => pc'[d] = "enter"
  BY <1>4 DEF TypeOK
<1>7. IntentBeforeBroker'
  BY <1>4, <1>5 DEF IntentBeforeBroker
<1>8. OneSubmitterPerKey'
  BY <1>3, <1>4, <1>6 DEF OneSubmitterPerKey, Submitting, k
<1>9. RowFollowsSubmitter'
  BY <1>1, <1>3, <1>4, <1>5, <1>6 DEF RowFollowsSubmitter, Submitting, TypeOK, k
<1>10. OutcomeWhenConfirmed' /\ SameOutcomeForAll' /\ ReportedOrderExists'
  BY <1>1, <1>4, <1>5 DEF OutcomeWhenConfirmed, SameOutcomeForAll, ReportedOrderExists,
     ClientOrderId
<1> QED BY <1>2, <1>4, <1>7, <1>8, <1>9, <1>10 DEF WorkerResultTrue, OnlyFirstIds


(* Leaving _submit by an exception keeps every row as it is: an intent      *)
(* stays an intent (CircuitOpenError, RateLimitExceededError, TimeoutError, *)
(* IntegrityError).                                                         *)
LEMMA LeaveInv ==
  ASSUME Inv, NEW c \in Callers,
         \/ RecordConflict(c) \/ RefusedByBreaker(c) \/ RaiseThrottled(c) \/ TimeOut(c)
  PROVE  Inv'
<1> USE DEF Inv
<1>1. /\ Leave(c)
      /\ UNCHANGED <<journal, worker, inflight, accepted, told, crashes>>
      /\ ReadState \/ OnFailure \/ UNCHANGED cbVars
  BY DEF RecordConflict, RefusedByBreaker, RaiseThrottled, TimeOut
<1>2. BreakerTypeOK'
  BY <1>1, BreakerTypeStep DEF TypeOK
<1>3. TypeOK'
  BY <1>1, <1>2 DEF Leave, TypeOK, CallerSteps
<1>4. OneSubmitterPerKey' /\ RowFollowsSubmitter'
  BY <1>1 DEF Leave, TypeOK, OneSubmitterPerKey, RowFollowsSubmitter, Submitting
<1> QED BY <1>1, <1>3, <1>4 DEF IntentBeforeBroker, OutcomeWhenConfirmed,
     WorkerResultTrue, OnlyFirstIds, SameOutcomeForAll, ReportedOrderExists, ClientOrderId

(* Starting the worker: the caller is the key's only submitter, so no       *)
(* result another caller relies on is overwritten (with_circuit_breaker).   *)
LEMMA EnterInv ==
  ASSUME Inv, NEW c \in Callers, EnterBreaker(c)
  PROVE  Inv'
<1> USE DEF Inv
<1>0. PICK k \in Keys : k = holding[c]
  BY DEF EnterBreaker, TypeOK
<1>1. pc[c] = "enter" /\ journal[k].status = "intent"
  BY <1>0 DEF EnterBreaker, RowFollowsSubmitter
<1>2. BreakerTypeOK'
  BY BreakerTypeStep DEF TypeOK, EnterBreaker
<1>3. /\ worker' = [worker EXCEPT ![k] = [at |-> "checks", attempt |-> 1, result |-> NoResult]]
      /\ pc' = [pc EXCEPT ![c] = "wait"]
      /\ UNCHANGED <<journal, holding, inflight, accepted, told, crashes>>
  <2>1. [NoWorker EXCEPT !.at = "checks"] = [at |-> "checks", attempt |-> 1, result |-> NoResult]
    BY DEF NoWorker
  <2> QED BY <1>0, <2>1 DEF EnterBreaker, GoTo
<1>4. TypeOK'
  <2>1. 1 \in Attempts
    BY SubmissionAssumption DEF Attempts
  <2>2. [at |-> "checks", attempt |-> 1, result |-> NoResult] \in Worker
    BY <2>1 DEF Worker, WorkerSteps
  <2> QED BY <1>1, <1>2, <1>3, <2>2 DEF TypeOK, CallerSteps
<1>5. \A j \in Keys : /\ j # k => worker'[j] = worker[j]
                      /\ j = k => worker'[j].at = "checks" /\ worker'[j].result = NoResult
  BY <1>1, <1>3 DEF TypeOK
<1>6. \A d \in Callers : /\ d # c => pc'[d] = pc[d]
                         /\ d = c => pc'[d] = "wait"
  BY <1>3 DEF TypeOK
<1>7. IntentBeforeBroker'
  BY <1>1, <1>3, <1>5 DEF IntentBeforeBroker
<1>8. OneSubmitterPerKey'
  BY <1>1, <1>3, <1>6 DEF OneSubmitterPerKey, Submitting
<1>9. RowFollowsSubmitter'
  <2> SUFFICES ASSUME NEW d \in Callers
               PROVE  RowFollowsSubmitter!(d)'
    BY DEF RowFollowsSubmitter
  <2>1. CASE d = c
    BY <1>0, <1>1, <1>3, <1>5, <1>6, <2>1
  <2>2. CASE d # c
    <3>1. pc[d] \in Submitting => holding[d] \in Keys /\ holding[d] # k
      BY <1>0, <1>1, <2>2 DEF OneSubmitterPerKey, Submitting, TypeOK
    <3> QED BY <1>3, <1>5, <1>6, <2>2, <3>1 DEF RowFollowsSubmitter, Submitting
  <2> QED BY <2>1, <2>2
<1>10. WorkerResultTrue'
  <2> SUFFICES ASSUME NEW j \in Keys PROVE WorkerResultTrue!(j)'
    BY DEF WorkerResultTrue
  <2>1. CASE j = k
    BY <1>4, <1>5, <2>1 DEF NoResult, TypeOK, Worker
  <2>2. CASE j # k
    BY <1>3, <1>4, <1>5, <2>2 DEF WorkerResultTrue, TypeOK, Worker
  <2> QED BY <2>1, <2>2
<1> QED BY <1>3, <1>4, <1>7, <1>8, <1>9, <1>10 DEF OutcomeWhenConfirmed, OnlyFirstIds,
     SameOutcomeForAll, ReportedOrderExists, ClientOrderId

(* The caller takes over the worker's FillResult.                           *)
LEMMA FinishInv ==
  ASSUME Inv, NEW c \in Callers, Finish(c)
  PROVE  Inv'
<1> USE DEF Inv
<1>1. BreakerTypeOK'
  BY BreakerTypeStep DEF TypeOK, Finish
<1>2. TypeOK'
  BY <1>1 DEF Finish, GoTo, TypeOK, CallerSteps
<1>3. OneSubmitterPerKey' /\ RowFollowsSubmitter'
  BY DEF Finish, GoTo, TypeOK, OneSubmitterPerKey, RowFollowsSubmitter, Submitting
<1> QED BY <1>2, <1>3 DEF Finish, IntentBeforeBroker, OutcomeWhenConfirmed,
     WorkerResultTrue, OnlyFirstIds, SameOutcomeForAll, ReportedOrderExists, ClientOrderId

(* Writing the outcome: the row was an intent nobody had been told about,   *)
(* and what is written is the worker's result (OrderEventJournal.update).   *)
LEMMA ConfirmInv ==
  ASSUME Inv, NEW c \in Callers, Confirm(c)
  PROVE  Inv'
<1> USE DEF Inv
<1>0. PICK k \in Keys : k = holding[c]
  BY DEF Confirm, TypeOK
<1>a. PICK r \in Results : r = worker[k].result
  BY <1>0 DEF Confirm, RowFollowsSubmitter, WorkerResultTrue
<1>1. pc[c] = "confirm" /\ journal[k].status = "intent" /\ worker[k].at = "done"
  BY <1>0 DEF Confirm, RowFollowsSubmitter
<1>2. journal' = [journal EXCEPT ![k] = [@ EXCEPT !.status = "confirmed", !.result = r]]
  BY <1>0, <1>a DEF Confirm, GoTo, TypeOK, Row
<1>b. /\ pc' = [pc EXCEPT ![c] = "publish"]
      /\ UNCHANGED cbVars
      /\ UNCHANGED <<holding, worker, inflight, accepted, told, crashes>>
  BY DEF Confirm, GoTo
<1>3. TypeOK'
  <2>1. [journal[k] EXCEPT !.status = "confirmed", !.result = r] \in Row
    BY <1>1 DEF TypeOK, Row
  <2>2. journal' \in [Keys -> Row]
    BY <1>1, <1>2, <2>1 DEF TypeOK
  <2> QED BY <1>0, <1>1, <1>b, <2>2 DEF TypeOK, CallerSteps, BreakerTypeOK, cbVars
<1>4. \A j \in Keys : /\ j # k => journal'[j] = journal[j]
                      /\ j = k => journal'[j].status = "confirmed" /\ journal'[j].result = r
  BY <1>1, <1>2 DEF TypeOK, Row
<1>5. \A d \in Callers : /\ d # c => pc'[d] = pc[d]
                         /\ d = c => pc'[d] = "publish"
  BY <1>b DEF TypeOK
<1>6. OneSubmitterPerKey'
  BY <1>1, <1>b, <1>5 DEF OneSubmitterPerKey, Submitting
<1>7. RowFollowsSubmitter'
  <2> SUFFICES ASSUME NEW d \in Callers
               PROVE  RowFollowsSubmitter!(d)'
    BY DEF RowFollowsSubmitter
  <2>1. CASE d = c
    <3>1. holding'[d] = k /\ worker' = worker /\ pc'[d] = "publish"
      BY <1>0, <1>b, <1>5, <2>1
    <3>2. /\ journal'[k].status = "confirmed" /\ journal'[k].result = worker[k].result
          /\ worker[k].at = "done"
      BY <1>a, <1>1, <1>3, <1>4 DEF TypeOK, Row, Worker
    <3> QED BY <3>1, <3>2
  <2>2. CASE d # c
    <3>1. pc[d] \in Submitting => holding[d] \in Keys /\ holding[d] # k
      BY <1>0, <1>1, <2>2 DEF OneSubmitterPerKey, Submitting, TypeOK
    <3> QED BY <1>b, <1>4, <1>5, <2>2, <3>1 DEF RowFollowsSubmitter, Submitting
  <2> QED BY <2>1, <2>2
<1>8. IntentBeforeBroker'
  BY <1>b, <1>4 DEF IntentBeforeBroker
<1>9. OutcomeWhenConfirmed'
  <2> SUFFICES ASSUME NEW j \in Keys PROVE OutcomeWhenConfirmed!(j)'
    BY DEF OutcomeWhenConfirmed
  <2>1. CASE j = k
    BY <1>1, <1>3, <1>4, <2>1 DEF TypeOK, Row
  <2>2. CASE j # k
    BY <1>3, <1>4, <2>2 DEF OutcomeWhenConfirmed, TypeOK, Row
  <2> QED BY <2>1, <2>2
<1>10. told[k] = {}
  BY <1>1 DEF SameOutcomeForAll, TypeOK
<1>11. SameOutcomeForAll'
  BY <1>b, <1>4, <1>10 DEF SameOutcomeForAll
<1>12. ReportedOrderExists'
  BY <1>a, <1>1, <1>b, <1>4 DEF ReportedOrderExists, WorkerResultTrue, ClientOrderId
<1> QED BY <1>b, <1>3, <1>6, <1>7, <1>8, <1>9, <1>11, <1>12 DEF WorkerResultTrue, OnlyFirstIds

(* Marking the row published and returning its outcome.                     *)
LEMMA PublishInv ==
  ASSUME Inv, NEW c \in Callers, Publish(c)
  PROVE  Inv'
<1> DEFINE k == holding[c]
           r == worker[k].result
<1> USE DEF Inv
<1>1. /\ k \in Keys /\ pc[c] = "publish" /\ journal[k].status = "confirmed"
      /\ journal[k].result = r /\ r \in Results
  BY DEF Publish, TypeOK, RowFollowsSubmitter, WorkerResultTrue
<1>2. /\ journal' = [journal EXCEPT ![k] = [@ EXCEPT !.published = TRUE]]
      /\ told' = [told EXCEPT ![k] = @ \cup {r}]
      /\ Leave(c)
      /\ UNCHANGED <<cbVars, worker, inflight, accepted, crashes>>
  BY DEF Publish
<1>3. \A j \in Keys : /\ journal'[j].status = journal[j].status
                      /\ journal'[j].result = journal[j].result
                      /\ journal'[j] \in Row
  BY <1>1, <1>2 DEF TypeOK, Row
<1>4. TypeOK'
  <2>1. journal' \in [Keys -> Row] /\ told' \in [Keys -> SUBSET Results]
    BY <1>1, <1>2, <1>3 DEF TypeOK
  <2> QED BY <1>2, <2>1 DEF Leave, TypeOK, CallerSteps, BreakerTypeOK, cbVars
<1>5. SameOutcomeForAll'
  BY <1>1, <1>2, <1>3 DEF SameOutcomeForAll, TypeOK
<1> HIDE DEF k, r
<1>6. OneSubmitterPerKey' /\ RowFollowsSubmitter'
  BY <1>2, <1>3 DEF Leave, TypeOK, OneSubmitterPerKey, RowFollowsSubmitter, Submitting
<1>7. IntentBeforeBroker' /\ OutcomeWhenConfirmed' /\ ReportedOrderExists'
  BY <1>2, <1>3 DEF IntentBeforeBroker, OutcomeWhenConfirmed, ReportedOrderExists, ClientOrderId
<1> QED BY <1>2, <1>4, <1>5, <1>6, <1>7 DEF WorkerResultTrue, OnlyFirstIds

-----------------------------------------------------------------------------
(* What every step of a worker thread does: it changes its own entry only,  *)
(* it was running and is not restarted, it ends with a result, a placed one *)
(* only if the broker has the order, and it sends requests of its key only. *)
WorkerEffect(k) ==
  /\ worker' \in [Keys -> Worker]
  /\ \A j \in Keys : j # k => worker'[j] = worker[j]
  /\ worker[k].at \notin {"none", "done"}
  /\ worker'[k].at = "done" => worker'[k].result \in Results
  /\ worker'[k].at # "done" => worker'[k].result = NoResult
  /\ worker'[k].result \in {"filled", "pending"} => <<k, 1>> \in accepted
  /\ inflight' \subseteq Cids
  /\ \A x \in inflight' : x \in inflight \/ x[1] = k

(* An entry is replaced by one that keeps to its key, and nothing is sent.  *)
LEMMA OneEntry ==
  ASSUME Inv, NEW k \in Keys, NEW e \in Worker,
         worker' = [worker EXCEPT ![k] = e], inflight' \subseteq inflight,
         worker[k].at \notin {"none", "done"},
         e.at = "done" => e.result \in Results,
         e.at # "done" => e.result = NoResult,
         e.result \in {"filled", "pending"} => <<k, 1>> \in accepted
  PROVE  WorkerEffect(k)
BY DEF Inv, TypeOK, WorkerEffect

LEMMA WorkerStepEffect ==
  ASSUME Inv, NEW k \in Keys, WorkerStep(k)
  PROVE  WorkerEffect(k)
<1> DEFINE w == worker[k]
<1>1. /\ w \in Worker
      /\ w.at \in WorkerSteps /\ w.attempt \in Attempts /\ w.result \in Results \cup {NoResult}
  BY DEF Inv, TypeOK, Worker
<1>2. w.at # "done" => w.result = NoResult
  BY DEF Inv, WorkerResultTrue
<1>3. ASSUME NEW step \in WorkerSteps \ {"done"}, w.at \in {"checks", "send", "await"}
      PROVE  LET e == [w EXCEPT !.at = step]
             IN  e \in Worker /\ e.at = step /\ e.result = NoResult /\ w.at \notin {"none", "done"}
  BY <1>1, <1>2, <1>3 DEF Worker, WorkerSteps
<1>4. ASSUME NEW r \in Results, Ends(k, r), inflight' \subseteq inflight,
             w.at \in {"checks", "await"}, r \in {"filled", "pending"} => <<k, 1>> \in accepted
      PROVE  WorkerEffect(k)
  <2> DEFINE e == [w EXCEPT !.at = "done", !.result = r]
  <2>1. e \in Worker /\ e.at = "done" /\ e.result = r
    BY <1>1 DEF Worker, WorkerSteps
  <2>2. worker' = [worker EXCEPT ![k] = e]
    BY <1>4 DEF Ends, Inv, TypeOK
  <2>3. w.at \notin {"none", "done"}
    BY <1>4
  <2> HIDE DEF e
  <2> QED BY <1>4, <2>1, <2>2, <2>3, OneEntry
<1>5. CASE GuardrailRejects(k) \/ Refused(k) \/ GiveUp(k)
  BY <1>4, <1>5 DEF GuardrailRejects, Refused, GiveUp, Results
<1>6. CASE Answered(k)
  BY <1>4, <1>6 DEF Answered, ClientOrderId, Results
<1>7. CASE Throttle(k)
  <2>1. worker' = [worker EXCEPT ![k] = [w EXCEPT !.at = "throttled"]] /\ inflight' = inflight
    BY <1>7 DEF Throttle
  <2> QED BY <1>3, <1>7, <2>1, OneEntry DEF Throttle, WorkerSteps, Results, NoResult
<1>8. CASE PassChecks(k)
  <2>1. worker' = [worker EXCEPT ![k] = [w EXCEPT !.at = "send"]] /\ inflight' = inflight
    BY <1>8 DEF PassChecks
  <2> QED BY <1>3, <1>8, <2>1, OneEntry DEF PassChecks, WorkerSteps, Results, NoResult
<1>9. CASE Retry(k)
  <2> DEFINE e == [w EXCEPT !.at = "send", !.attempt = @ + 1]
  <2>1. e \in Worker /\ e.at = "send" /\ e.result = NoResult
    <3>1. w.attempt + 1 \in Attempts
      BY <1>1, <1>9, SubmissionAssumption DEF Retry, Attempts
    <3>2. w.result = NoResult
      BY <1>2, <1>9 DEF Retry
    <3> HIDE DEF w
    <3> QED BY <1>1, <3>1, <3>2 DEF Worker, WorkerSteps
  <2>2. worker' = [worker EXCEPT ![k] = e] /\ inflight' = inflight /\ w.at = "await"
    BY <1>9 DEF Retry, Inv, TypeOK
  <2> HIDE DEF e
  <2> QED BY <2>1, <2>2, OneEntry DEF Results, NoResult
<1>10. CASE Send(k)
  <2> DEFINE e == [w EXCEPT !.at = "await"]
  <2>1. /\ worker' = [worker EXCEPT ![k] = e] /\ w.at = "send"
        /\ inflight' = inflight \cup {<<k, w.attempt>>}
    BY <1>10 DEF Send
  <2>2. e \in Worker /\ e.at = "await" /\ e.result = NoResult
    BY <1>3, <2>1 DEF WorkerSteps
  <2>3. inflight' \subseteq Cids
    BY <1>1, <2>1 DEF Inv, TypeOK, Cids
  <2>4. \A x \in inflight' : x \in inflight \/ x[1] = k
    <3> SUFFICES ASSUME NEW x \in inflight', x \notin inflight
                 PROVE  x[1] = k
      OBVIOUS
    <3>1. x = <<k, w.attempt>>
      BY <2>1
    <3> QED BY <3>1
  <2>5. /\ worker' \in [Keys -> Worker] /\ worker'[k] = e
        /\ \A j \in Keys : j # k => worker'[j] = worker[j]
    BY <2>1, <2>2 DEF Inv, TypeOK
  <2> HIDE DEF e
  <2> QED BY <2>1, <2>2, <2>3, <2>4, <2>5 DEF WorkerEffect, Results, NoResult
<1> QED BY <1>5, <1>6, <1>7, <1>8, <1>9, <1>10 DEF WorkerStep

(* A running worker disturbs neither its caller's row nor another key.      *)
LEMMA WorkerInv ==
  ASSUME Inv, NEW k \in Keys, WorkerStep(k)
  PROVE  Inv'
<1> USE DEF Inv
<1>1. WorkerEffect(k)
  BY WorkerStepEffect
<1>2. /\ UNCHANGED cbVars
      /\ UNCHANGED <<journal, pc, holding, accepted, told, crashes>>
  BY DEF WorkerStep, GuardrailRejects, Throttle, PassChecks, Send, Answered, Refused,
     Retry, GiveUp, WorkerOnly
<1>3. TypeOK'
  BY <1>1, <1>2 DEF TypeOK, WorkerEffect, BreakerTypeOK, cbVars
<1>4. IntentBeforeBroker'
  BY <1>1, <1>2 DEF IntentBeforeBroker, WorkerEffect
<1>5. RowFollowsSubmitter'
  BY <1>1, <1>2 DEF RowFollowsSubmitter, WorkerEffect, TypeOK
<1>6. WorkerResultTrue'
  BY <1>1, <1>2 DEF WorkerResultTrue, WorkerEffect
<1> QED BY <1>2, <1>3, <1>4, <1>5, <1>6 DEF OneSubmitterPerKey, OutcomeWhenConfirmed,
     OnlyFirstIds, SameOutcomeForAll, ReportedOrderExists, ClientOrderId

(* The broker opens an order only for a request that was sent, under the    *)
(* first client order id of its key (alpaca_broker.py, _new_client_order_id *)
(* before the retry loop).                                                  *)
LEMMA BrokerInv ==
  ASSUME Inv, NEW k \in Keys, NEW n \in Attempts, BrokerAccepts(k, n)
  PROVE  Inv'
<1> USE DEF Inv
<1>1. /\ <<k, n>> \in inflight
      /\ inflight' = inflight \ {<<k, n>>}
      /\ accepted' = accepted \cup {<<k, 1>>}
      /\ UNCHANGED cbVars
      /\ UNCHANGED <<journal, pc, holding, worker, told, crashes>>
  BY DEF BrokerAccepts, ClientOrderId
<1>2. <<k, 1>> \in Cids
  BY SubmissionAssumption DEF Cids, Attempts
<1>3. TypeOK'
  BY <1>1, <1>2 DEF TypeOK, BreakerTypeOK, cbVars
<1>4. journal[k].status # "none"
  BY <1>1 DEF IntentBeforeBroker
<1>5. IntentBeforeBroker'
  BY <1>1, <1>4 DEF IntentBeforeBroker
<1>6. WorkerResultTrue' /\ OnlyFirstIds' /\ ReportedOrderExists'
  BY <1>1 DEF WorkerResultTrue, OnlyFirstIds, ReportedOrderExists, ClientOrderId
<1> QED BY <1>1, <1>3, <1>5, <1>6 DEF OneSubmitterPerKey, RowFollowsSubmitter,
     OutcomeWhenConfirmed, SameOutcomeForAll

(* A crash loses the threads and keeps the rows.                            *)
LEMMA CrashInv ==
  ASSUME Inv, Crash
  PROVE  Inv'
<1> USE DEF Inv, Crash
<1>1. BreakerTypeOK'
  BY BreakerTypeStep DEF TypeOK
<1>2. TypeOK'
  BY <1>1, SubmissionAssumption DEF TypeOK, CallerSteps, NoWorker, Worker, WorkerSteps,
     Attempts
<1>3. OneSubmitterPerKey' /\ RowFollowsSubmitter'
  BY DEF OneSubmitterPerKey, RowFollowsSubmitter, Submitting
<1>4. IntentBeforeBroker' /\ WorkerResultTrue'
  BY DEF IntentBeforeBroker, WorkerResultTrue, NoWorker, NoResult
<1> QED BY <1>2, <1>3, <1>4 DEF OutcomeWhenConfirmed, OnlyFirstIds, SameOutcomeForAll,
     ReportedOrderExists, ClientOrderId

(* Time passing, and steps that change nothing.                             *)
LEMMA IdleInv ==
  ASSUME Inv, Elapse \/ UNCHANGED vars
  PROVE  Inv'
<1> USE DEF Inv
<1>1. /\ RecoveryElapses \/ UNCHANGED cbVars
      /\ UNCHANGED <<journal, pc, holding, worker, inflight, accepted, told, crashes>>
  BY DEF Elapse, vars, ovars
<1>2. BreakerTypeOK'
  BY <1>1, BreakerTypeStep DEF TypeOK
<1> QED BY <1>1, <1>2 DEF TypeOK, IntentBeforeBroker, OneSubmitterPerKey,
     RowFollowsSubmitter, OutcomeWhenConfirmed, WorkerResultTrue, OnlyFirstIds,
     SameOutcomeForAll, ReportedOrderExists, ClientOrderId

LEMMA CallerInv ==
  ASSUME Inv, NEW c \in Callers, CallerStep(c)
  PROVE  Inv'
BY RecordInv, LeaveInv, EnterInv, FinishInv, ConfirmInv, PublishInv DEF CallerStep

(* The invariant is inductive.                                              *)
LEMMA NextInv ==
  ASSUME Inv, [Next]_vars
  PROVE  Inv'
<1>1. CASE \E c \in Callers, k \in Keys : Present(c, k) \/ Replay(c, k) \/ NeedsReconcile(c, k)
  BY <1>1, PresentInv
<1>2. CASE \E c \in Callers : CallerStep(c)
  BY <1>2, CallerInv
<1>3. CASE \E k \in Keys : WorkerStep(k)
  BY <1>3, WorkerInv
<1>4. CASE \E k \in Keys, n \in Attempts : BrokerAccepts(k, n)
  BY <1>4, BrokerInv
<1>5. CASE Crash
  BY <1>5, CrashInv
<1>6. CASE Elapse \/ UNCHANGED vars
  BY <1>6, IdleInv
<1> QED BY <1>1, <1>2, <1>3, <1>4, <1>5, <1>6 DEF Next

(* Along every behaviour the invariant holds.                               *)
THEOREM Invariance == Spec => []Inv
<1>1. Init => Inv
  BY InitInv
<1>2. Inv /\ [Next]_vars => Inv'
  BY NextInv
<1> QED BY <1>1, <1>2, PTL DEF Spec

-----------------------------------------------------------------------------
(* Type correctness of the whole order path (TypeOK), its breaker included. *)
THEOREM TypeCorrect == Spec => []TypeOK
<1>1. Inv => TypeOK
  BY DEF Inv
<1> QED BY <1>1, Invariance, PTL

(* No interleaving of callers, retries, late requests and crashes makes the *)
(* broker open two orders for one idempotency key (_new_client_order_id).   *)
THEOREM OneOrderPerKey == Spec => []AtMostOneBrokerOrder
<1>1. Inv => AtMostOneBrokerOrder
  <2> SUFFICES ASSUME Inv, NEW x \in accepted, NEW y \in accepted, x[1] = y[1]
               PROVE  x = y
    BY DEF AtMostOneBrokerOrder
  <2>1. x \in Keys \X Attempts /\ y \in Keys \X Attempts
    BY DEF Inv, TypeOK, Cids
  <2>2. x[2] = 1 /\ y[2] = 1
    BY DEF Inv, OnlyFirstIds
  <2> QED BY <2>1, <2>2
<1> QED BY <1>1, Invariance, PTL

(* The write-ahead order of JournaledBroker._submit, crashes included, and  *)
(* the decision of the primary key between racing callers.                  *)
THEOREM WriteAhead == Spec => [](IntentBeforeBroker /\ OneSubmitterPerKey)
<1>1. Inv => IntentBeforeBroker /\ OneSubmitterPerKey
  BY DEF Inv
<1> QED BY <1>1, Invariance, PTL

(* What callers are told about a key is one outcome, the recorded one, and  *)
(* if it says the broker has the order then the broker has it.              *)
THEOREM OutcomeAgreement == Spec => [](SameOutcomeForAll /\ ReportedOrderExists)
<1>1. Inv => SameOutcomeForAll /\ ReportedOrderExists
  BY DEF Inv
<1> QED BY <1>1, Invariance, PTL

-----------------------------------------------------------------------------
(* The steps that write the rows, seen from the row: everything else leaves *)
(* status and outcome alone.                                                *)
LEMMA RowSteps ==
  ASSUME Inv, Next
  PROVE  \/ \E c \in Callers : Record(c) \/ Confirm(c)
         \/ /\ \A k \in Keys : /\ journal'[k].status = journal[k].status
                               /\ journal'[k].result = journal[k].result
<1> USE DEF Inv
<1>1. CASE UNCHANGED journal
  BY <1>1
<1>2. ASSUME NEW c \in Callers, Publish(c)
      PROVE  \A k \in Keys : /\ journal'[k].status = journal[k].status
                             /\ journal'[k].result = journal[k].result
  <2>1. journal' = [journal EXCEPT ![holding[c]].published = TRUE]
    BY <1>2 DEF Publish
  <2> QED BY <1>2, <2>1 DEF TypeOK, Row
<1>3. \/ \E c \in Callers : Record(c) \/ Confirm(c) \/ Publish(c)
      \/ UNCHANGED journal
  BY DEF Next, CallerStep, WorkerStep, Present, Replay, NeedsReconcile, RecordConflict,
     EnterBreaker, RefusedByBreaker, Finish, RaiseThrottled, TimeOut, GuardrailRejects,
     Throttle, PassChecks, Send, Answered, Refused, Retry, GiveUp, WorkerOnly,
     BrokerAccepts, Crash, Elapse, vars, ovars
<1> QED BY <1>1, <1>2, <1>3

(* What Record and Confirm do to the rows.                                  *)
LEMMA RecordRow ==
  ASSUME Inv, NEW c \in Callers, Record(c)
  PROVE  \E k \in Keys :
           /\ journal[k].status = "none"
           /\ journal'[k].status = "intent"
           /\ \A j \in Keys : journal'[j].result = journal[j].result
           /\ \A j \in Keys \ {k} : journal'[j].status = journal[j].status
<1>1. holding[c] \in Keys /\ journal[holding[c]].status = "none"
  BY DEF Inv, TypeOK, Record
<1> QED BY <1>1 DEF Inv, TypeOK, Row, Record

LEMMA ConfirmRow ==
  ASSUME Inv, NEW c \in Callers, Confirm(c)
  PROVE  \E k \in Keys, r \in Results :
           /\ r \in {"filled", "pending"} => <<k, 1>> \in accepted
           /\ journal[k].status = "intent"
           /\ journal'[k].status = "confirmed"
           /\ journal'[k].result = r
           /\ \A j \in Keys \ {k} : /\ journal'[j].status = journal[j].status
                                    /\ journal'[j].result = journal[j].result
<1>1. PICK k \in Keys : k = holding[c]
  BY DEF Inv, TypeOK, Confirm
<1>2. /\ journal[k].status = "intent"
      /\ worker[k].result \in Results
      /\ worker[k].result \in {"filled", "pending"} => <<k, 1>> \in accepted
  BY <1>1 DEF Inv, Confirm, RowFollowsSubmitter, WorkerResultTrue
<1>3. PICK r \in Results : r = worker[k].result
  BY <1>2
<1>4. /\ journal'[k].status = "confirmed"
      /\ journal'[k].result = r
      /\ \A j \in Keys \ {k} : /\ journal'[j].status = journal[j].status
                               /\ journal'[j].result = journal[j].result
  BY <1>1, <1>3 DEF Inv, TypeOK, Row, Confirm
<1> QED BY <1>2, <1>3, <1>4

(* Nothing takes a confirmed row back or changes its outcome: not a second  *)
(* caller, a worker that outlived its caller, or a restart (journal.update  *)
(* is reached by the submitter alone).                                      *)
THEOREM OutcomeIsFinal == Spec => ConfirmedIsFinal
<1> DEFINE Final == \A k \in Keys : journal[k].status = "confirmed" =>
                      journal'[k].status = "confirmed" /\ journal'[k].result = journal[k].result
<1>1. ASSUME Inv, [Next]_vars PROVE [Final]_vars
  <2>1. CASE UNCHANGED vars
    BY <2>1
  <2>2. ASSUME NEW c \in Callers, Record(c) PROVE Final
    BY <1>1, <2>2, RecordRow
  <2>3. ASSUME NEW c \in Callers, Confirm(c) PROVE Final
    BY <1>1, <2>3, ConfirmRow
  <2>4. CASE Next
    BY <1>1, <2>2, <2>3, <2>4, RowSteps
  <2> QED BY <1>1, <2>1, <2>4
<1> QED BY <1>1, Invariance, PTL DEF Spec, ConfirmedIsFinal

-----------------------------------------------------------------------------
(* Refinement: OrderSubmission implements OnceOnlyOrders.                   *)

(* Rows that keep status and outcome keep the abstract state.               *)
LEMMA SameRows ==
  ASSUME \A k \in Keys : /\ journal'[k].status = journal[k].status
                         /\ journal'[k].result = journal[k].result
  PROVE  RegisteredKeys' = RegisteredKeys /\ SettledOutcome' = SettledOutcome
BY DEF RegisteredKeys, SettledOutcome

LEMMA RecordRegisters ==
  ASSUME Inv, NEW c \in Callers, Record(c)
  PROVE  \E k \in Keys : Abstract!Register(k)
<1>1. PICK k \in Keys :
        /\ journal[k].status = "none"
        /\ journal'[k].status = "intent"
        /\ \A j \in Keys : journal'[j].result = journal[j].result
        /\ \A j \in Keys \ {k} : journal'[j].status = journal[j].status
  BY RecordRow
<1>2. accepted' = accepted /\ told' = told
  BY DEF Record
<1>3. SettledOutcome' = SettledOutcome /\ BrokerCopies' = BrokerCopies
  BY <1>1, <1>2 DEF SettledOutcome, BrokerCopies
<1>4. RegisteredKeys' = RegisteredKeys \cup {k} /\ k \notin RegisteredKeys
  BY <1>1 DEF RegisteredKeys
<1> QED BY <1>2, <1>3, <1>4 DEF Abstract!Register

LEMMA ConfirmSettles ==
  ASSUME Inv, NEW c \in Callers, Confirm(c)
  PROVE  \E k \in Keys, r \in Results : Abstract!Settle(k, r)
<1>1. PICK k \in Keys, r \in Results :
        /\ r \in {"filled", "pending"} => <<k, 1>> \in accepted
        /\ journal[k].status = "intent"
        /\ journal'[k].status = "confirmed"
        /\ journal'[k].result = r
        /\ \A j \in Keys \ {k} : /\ journal'[j].status = journal[j].status
                                 /\ journal'[j].result = journal[j].result
  BY ConfirmRow
<1>2. accepted' = accepted /\ told' = told
  BY DEF Confirm
<1>3. RegisteredKeys' = RegisteredKeys /\ BrokerCopies' = BrokerCopies
  BY <1>1, <1>2 DEF RegisteredKeys, BrokerCopies
<1>4. k \in RegisteredKeys
  BY <1>1 DEF RegisteredKeys
<1>5. SettledOutcome[k] = {}
  BY <1>1 DEF SettledOutcome, Inv, OutcomeWhenConfirmed, Results, NoResult
<1>6. r \in {"filled", "pending"} => BrokerCopies[k] # {}
  <2>1. ASSUME r \in {"filled", "pending"} PROVE <<k, 1>> \in BrokerCopies[k]
    BY <1>1, <2>1 DEF BrokerCopies
  <2> QED BY <2>1
<1>7. SettledOutcome' = [SettledOutcome EXCEPT ![k] = {r}]
  <2>1. \A j \in Keys : {s \in Results : journal'[j].result = s} =
          IF j = k THEN {r} ELSE {s \in Results : journal[j].result = s}
    BY <1>1
  <2> QED BY <2>1 DEF SettledOutcome
<1> QED BY <1>2, <1>3, <1>4, <1>5, <1>6, <1>7 DEF Abstract!Settle

(* Telling an outcome, by submission or by replay.                          *)
LEMMA Tells ==
  ASSUME Inv, NEW k \in Keys, journal[k].result \in Results,
         told' = [told EXCEPT ![k] = @ \cup {journal[k].result}],
         accepted' = accepted,
         \A j \in Keys : /\ journal'[j].status = journal[j].status
                         /\ journal'[j].result = journal[j].result
  PROVE  Abstract!Tell(k)
<1>1. SettledOutcome[k] = {journal[k].result}
  BY DEF SettledOutcome
<1>2. told' = [told EXCEPT ![k] = told[k] \cup SettledOutcome[k]]
  BY <1>1
<1>3. RegisteredKeys' = RegisteredKeys /\ SettledOutcome' = SettledOutcome
  BY SameRows
<1>4. BrokerCopies' = BrokerCopies
  BY DEF BrokerCopies
<1> QED BY <1>1, <1>2, <1>3, <1>4 DEF Abstract!Tell

LEMMA PublishTells ==
  ASSUME Inv, NEW c \in Callers, Publish(c)
  PROVE  \E k \in Keys : Abstract!Tell(k)
<1>1. PICK k \in Keys : k = holding[c]
  BY DEF Inv, TypeOK, Publish
<1>2. journal[k].result = worker[k].result /\ journal[k].result \in Results
  BY <1>1 DEF Inv, Publish, RowFollowsSubmitter, WorkerResultTrue
<1>3. \A j \in Keys : /\ journal'[j].status = journal[j].status
                      /\ journal'[j].result = journal[j].result
  <2>1. journal' = [journal EXCEPT ![k].published = TRUE]
    BY <1>1 DEF Publish
  <2> QED BY <2>1 DEF Inv, TypeOK, Row
<1>4. told' = [told EXCEPT ![k] = @ \cup {journal[k].result}] /\ accepted' = accepted
  BY <1>1, <1>2 DEF Publish
<1> QED BY <1>2, <1>3, <1>4, Tells

LEMMA ReplayTells ==
  ASSUME Inv, NEW c \in Callers, NEW k \in Keys, Replay(c, k)
  PROVE  Abstract!Tell(k)
<1>1. journal[k].result \in Results
  BY DEF Replay, Inv, OutcomeWhenConfirmed
<1> QED BY <1>1, Tells DEF Replay

(* The broker opens its one order for a key, or already has it.             *)
LEMMA AcceptOpens ==
  ASSUME Inv, NEW k \in Keys, NEW n \in Attempts, BrokerAccepts(k, n)
  PROVE  (\E x \in Cids : Abstract!Open(k, x)) \/ UNCHANGED Abstract!vars
<1>1. /\ <<k, n>> \in inflight
      /\ accepted' = accepted \cup {<<k, 1>>}
      /\ journal' = journal /\ told' = told
  BY DEF BrokerAccepts, ClientOrderId
<1>2. RegisteredKeys' = RegisteredKeys /\ SettledOutcome' = SettledOutcome
  BY <1>1, SameRows
<1>3. k \in RegisteredKeys
  BY <1>1 DEF Inv, IntentBeforeBroker, RegisteredKeys
<1>4. CASE <<k, 1>> \in accepted
  <2>1. accepted' = accepted
    BY <1>1, <1>4
  <2>2. BrokerCopies' = BrokerCopies
    BY <2>1 DEF BrokerCopies
  <2> QED BY <1>1, <1>2, <2>2 DEF Abstract!vars
<1>5. CASE <<k, 1>> \notin accepted
  <2>1. \A x \in accepted : x[1] # k
    <3> SUFFICES ASSUME NEW x \in accepted, x[1] = k PROVE FALSE
      OBVIOUS
    <3>1. x \in Keys \X Attempts /\ x[2] = 1
      BY DEF Inv, TypeOK, OnlyFirstIds, Cids
    <3>2. x = <<k, 1>>
      BY <3>1
    <3> QED BY <1>5, <3>2
  <2>2. BrokerCopies[k] = {}
    BY <2>1 DEF BrokerCopies
  <2>3. \A j \in Keys : {x \in accepted' : x[1] = j} =
          IF j = k THEN {<<k, 1>>} ELSE {x \in accepted : x[1] = j}
    <3> TAKE j \in Keys
    <3>1. CASE j = k
      BY <1>1, <2>1, <3>1
    <3>2. CASE j # k
      BY <1>1, <3>2
    <3> QED BY <3>1, <3>2
  <2>4. BrokerCopies' = [BrokerCopies EXCEPT ![k] = {<<k, 1>>}]
    BY <2>3 DEF BrokerCopies
  <2>5. <<k, 1>> \in Cids
    BY SubmissionAssumption DEF Cids, Attempts
  <2> QED BY <1>1, <1>2, <1>3, <2>2, <2>4, <2>5 DEF Abstract!Open
<1> QED BY <1>4, <1>5

(* Every other step is invisible to the abstract specification.             *)
LEMMA OtherStepsStutter ==
  ASSUME UNCHANGED <<journal, accepted, told>>
  PROVE  UNCHANGED Abstract!vars
BY DEF Abstract!vars, RegisteredKeys, SettledOutcome, BrokerCopies

LEMMA StepSimulation ==
  ASSUME Inv, [Next]_vars
  PROVE  [Abstract!Next]_(Abstract!vars)
<1>1. ASSUME NEW c \in Callers, NEW k \in Keys, Replay(c, k) PROVE Abstract!Next
  BY <1>1, ReplayTells DEF Abstract!Next
<1>2. ASSUME NEW c \in Callers, Record(c) PROVE Abstract!Next
  BY <1>2, RecordRegisters DEF Abstract!Next
<1>3. ASSUME NEW c \in Callers, Confirm(c) PROVE Abstract!Next
  BY <1>3, ConfirmSettles DEF Abstract!Next
<1>4. ASSUME NEW c \in Callers, Publish(c) PROVE Abstract!Next
  BY <1>4, PublishTells DEF Abstract!Next
<1>5. ASSUME NEW k \in Keys, NEW n \in Attempts, BrokerAccepts(k, n)
      PROVE  [Abstract!Next]_(Abstract!vars)
  BY <1>5, AcceptOpens DEF Abstract!Next
<1>6. \/ \E c \in Callers, k \in Keys : Replay(c, k)
      \/ \E c \in Callers : Record(c) \/ Confirm(c) \/ Publish(c)
      \/ \E k \in Keys, n \in Attempts : BrokerAccepts(k, n)
      \/ UNCHANGED <<journal, accepted, told>>
  BY DEF Next, CallerStep, WorkerStep, Present, NeedsReconcile, RecordConflict,
     EnterBreaker, RefusedByBreaker, Finish, RaiseThrottled, TimeOut, GuardrailRejects,
     Throttle, PassChecks, Send, Answered, Refused, Retry, GiveUp, WorkerOnly,
     Crash, Elapse, vars, ovars
<1> QED BY <1>1, <1>2, <1>3, <1>4, <1>5, <1>6, OtherStepsStutter

LEMMA InitSimulation ==
  ASSUME Init
  PROVE  Abstract!Init
BY DEF Init, Abstract!Init, RegisteredKeys, SettledOutcome, BrokerCopies, NoRow, NoResult,
   Results

(* The whole order path - journal, breaker, worker, retries, crashes -      *)
(* implements the four promises of OnceOnlyOrders.                          *)
THEOREM Refinement == Spec => ImplementsOnceOnly
<1>1. Init => Abstract!Init
  BY InitSimulation
<1>2. Inv /\ [Next]_vars => [Abstract!Next]_(Abstract!vars)
  BY StepSimulation
<1> QED BY <1>1, <1>2, Invariance, PTL DEF Spec, ImplementsOnceOnly, Abstract!Spec


-----------------------------------------------------------------------------
(* The circuit breaker itself, for every number of callers and every pair   *)
(* of thresholds (BreakerClients; it shares the breaker's variables).  A    *)
(* caller that reports late, in a state it was not admitted in, is what the *)
(* invariant has to survive.                                                *)
VARIABLES phase, healthy, streak

Clients == INSTANCE BreakerClients


(* The success count never runs ahead of the successes since the last       *)
(* failure: that is what makes closing depend on consecutive successes.     *)
CountBacked == cbSuccesses <= streak

ClientsInv == Clients!TypeOK /\ Clients!ClosedBelowThreshold /\ CountBacked

LEMMA ClientsInit == Clients!Init => ClientsInv
BY BreakerAssumption
   DEF Clients!Init, Clients!BreakerInit, ClientsInv, Clients!TypeOK, Clients!BreakerTypeOK,
         Clients!BreakerStates, Clients!Phases,
       Clients!ClosedBelowThreshold, CountBacked

(* Reading the state and being admitted or refused (state, call).           *)
LEMMA ClientCalls ==
  ASSUME ClientsInv, NEW c \in Callers, Clients!Call(c)
  PROVE  ClientsInv'
<1> USE DEF ClientsInv, Clients!TypeOK, Clients!BreakerTypeOK, Clients!BreakerStates,
      Clients!ClosedBelowThreshold, CountBacked,
      Clients!ReadState, Clients!EffectiveState
<1>1. CASE Clients!FailFast(c)
  BY <1>1 DEF Clients!FailFast
<1>2. CASE Clients!AdmitCall(c)
  <2>1. Clients!EffectiveState \in Clients!Phases
    BY <1>2 DEF Clients!AdmitCall, Clients!Phases
  <2> QED BY <1>2, <2>1 DEF Clients!AdmitCall
<1> QED BY <1>1, <1>2 DEF Clients!Call

(* A success counts towards the trial or clears the failures (_on_success). *)
LEMMA ClientSucceeds ==
  ASSUME ClientsInv, NEW c \in Callers, Clients!Succeed(c)
  PROVE  ClientsInv'
<1> USE BreakerAssumption DEF ClientsInv, Clients!TypeOK, Clients!BreakerTypeOK,
      Clients!BreakerStates, Clients!Succeed, Clients!OnSuccess
<1>1. Clients!TypeOK'
  BY DEF Clients!Phases
<1>2. Clients!ClosedBelowThreshold'
  BY DEF Clients!ClosedBelowThreshold
<1>3. CountBacked'
  BY DEF CountBacked
<1> QED BY <1>1, <1>2, <1>3

(* A failure that leaves the circuit closed is below the threshold          *)
(* (_on_failure).                                                           *)
LEMMA ClientFails ==
  ASSUME ClientsInv, NEW c \in Callers, Clients!Fail(c)
  PROVE  ClientsInv'
<1> USE BreakerAssumption DEF ClientsInv, Clients!TypeOK, Clients!BreakerTypeOK,
      Clients!BreakerStates, Clients!Fail, Clients!OnFailure
<1>1. Clients!FailuresAfter \in 0..FailureThreshold
  BY DEF Clients!FailuresAfter
<1>2. Clients!TypeOK'
  <2>1. 0 \in 0..(SuccessesToClose - 1) /\ 0 \in 0..SuccessesToClose
    OBVIOUS
  <2>2. phase' \in [Callers -> Clients!Phases]
    BY DEF Clients!Phases
  <2> QED BY <1>1, <2>1, <2>2
<1>3. Clients!ClosedBelowThreshold'
  BY <1>1 DEF Clients!ClosedBelowThreshold
<1>4. CountBacked'
  BY DEF CountBacked
<1> QED BY <1>2, <1>3, <1>4

LEMMA ClientsNext ==
  ASSUME ClientsInv, [Clients!Next]_Clients!vars
  PROVE  ClientsInv'
<1> USE DEF ClientsInv, Clients!TypeOK, Clients!BreakerTypeOK, Clients!ClosedBelowThreshold, CountBacked
<1>1. ASSUME NEW c \in Callers, Clients!Call(c) PROVE ClientsInv'
  BY <1>1, ClientCalls
<1>2. ASSUME NEW c \in Callers, Clients!Return(c) PROVE ClientsInv'
  BY <1>2, ClientSucceeds, ClientFails DEF Clients!Return
<1>3. ASSUME NEW c \in Callers, Clients!Shed(c) PROVE ClientsInv'
  BY <1>3 DEF Clients!Shed, Clients!cbVars, Clients!Phases
<1>4. CASE Clients!ChangeHealth
  BY <1>4 DEF Clients!ChangeHealth, Clients!cbVars
<1>5. CASE Clients!Elapse
  BY <1>5 DEF Clients!Elapse, Clients!RecoveryElapses
<1>6. CASE UNCHANGED Clients!vars
  BY <1>6 DEF Clients!vars
<1> QED BY <1>1, <1>2, <1>3, <1>4, <1>5, <1>6 DEF Clients!Next

THEOREM ClientsInvariance == Clients!Spec => []ClientsInv
<1>1. Clients!Init => ClientsInv
  BY ClientsInit
<1>2. ClientsInv /\ [Clients!Next]_Clients!vars => ClientsInv'
  BY ClientsNext
<1> QED BY <1>1, <1>2, PTL DEF Clients!Spec

(* However many threads overlap, a closed circuit has seen fewer failures   *)
(* than failure_threshold (resilience.py, _on_failure).                     *)
THEOREM OpensAtThreshold == Clients!Spec => [](Clients!TypeOK /\ Clients!ClosedBelowThreshold)
<1>1. ClientsInv => Clients!TypeOK /\ Clients!ClosedBelowThreshold
  BY DEF ClientsInv
<1> QED BY <1>1, ClientsInvariance, PTL

(* However many threads overlap, a circuit closes only on SuccessesToClose  *)
(* consecutive successes (resilience.py, _on_success).                      *)
THEOREM ClosingIsEarned == Clients!Spec => Clients!ClosesOnConsecutiveSuccesses
<1> DEFINE Earned == cbState # "closed" /\ cbState' = "closed" => streak' >= SuccessesToClose
<1>1. ASSUME ClientsInv, [Clients!Next]_Clients!vars PROVE [Earned]_Clients!vars
  <2>1. ASSUME NEW c \in Callers, Clients!Succeed(c) PROVE Earned
    BY <1>1, <2>1, BreakerAssumption
       DEF ClientsInv, Clients!TypeOK, Clients!BreakerTypeOK, CountBacked, Clients!Succeed, Clients!OnSuccess
  <2>2. ASSUME NEW c \in Callers, Clients!Fail(c) PROVE Earned
    BY <2>2 DEF Clients!Fail, Clients!OnFailure
  <2>3. ASSUME NEW c \in Callers, Clients!Call(c) PROVE Earned
    BY <2>3 DEF Clients!Call, Clients!FailFast, Clients!AdmitCall, Clients!ReadState, Clients!EffectiveState
  <2>4. ASSUME NEW c \in Callers, Clients!Shed(c) PROVE Earned
    BY <2>4 DEF Clients!Shed, Clients!cbVars
  <2>5. CASE Clients!ChangeHealth \/ Clients!Elapse
    BY <2>5 DEF Clients!ChangeHealth, Clients!Elapse, Clients!RecoveryElapses, Clients!cbVars
  <2> QED BY <1>1, <2>1, <2>2, <2>3, <2>4, <2>5 DEF Clients!Next, Clients!Return
<1> QED BY <1>1, ClientsInvariance, PTL DEF Clients!Spec, Clients!ClosesOnConsecutiveSuccesses

-----------------------------------------------------------------------------
(* Paper mode puts PaperBrokerAdapter at the bottom of the stack.  The      *)
(* proofs below are about PaperTrading, its books and the local ones, for   *)
(* every capital, every set of quantities and prices and any number of      *)
(* orders.                                                                  *)

(* The local books may end with an entry price over nothing, once more was  *)
(* sold than held; the broker's never do.                                   *)
Fractions == [n : Int, d : Nat \ {0}]
Ratios == [n : Int, d : Int]

(* While nothing was oversold the local books can average what the broker   *)
(* averages: a closed position keeps an entry price, over more than nothing. *)
PaperInv ==
  /\ balance \in Int /\ oversold \in Nat /\ earned \in Fractions
  /\ position \in [qty : Nat, entry : Fractions]
  /\ book \in [qty : Int, entry : Ratios]
  /\ Paper!MoneyIsConserved
  /\ oversold = 0 =>
       /\ book.qty = position.qty /\ book.entry.d > 0
       /\ position.qty > 0 => Paper!Same(book.entry, position.entry)

(* What the proofs need of products.                                        *)
LEMMA NoZero == ASSUME NEW a \in Int, NEW d \in Nat \ {0}, a * d = 0 PROVE a = 0
OBVIOUS

LEMMA Products ==
  ASSUME NEW a \in Int, NEW b \in Int, NEW c \in Int
  PROVE  /\ a * b \in Int /\ a * b = b * a
         /\ (a * b) * c = a * (b * c)
         /\ (a + b) * c = a * c + b * c /\ a * (b + c) = a * b + a * c
         /\ (a - b) * c = a * c - b * c /\ a * (b - c) = a * b - a * c
OBVIOUS

(* B: money, q: quantity, n/d: entry, e/f: earned.                          *)
Conserved(B, q, n, d, e, f) == (B * d + q * n) * f = e * d

(* A first purchase: with nothing held the account is what was earned.      *)
LEMMA BoughtFirst ==
  ASSUME NEW B \in Int, NEW n \in Int, NEW d \in Nat \ {0}, NEW e \in Int, NEW f \in Nat \ {0},
         NEW m \in Int, NEW p \in Int, Conserved(B, 0, n, d, e, f)
  PROVE  Conserved(B - m * p, m, p, 1, e, f) /\ Conserved(B, 0, 0, 1, e, f)
<1>1. (B * d) * f = e * d
  BY DEF Conserved
<1>2. (B * f) * d = e * d
  BY <1>1, Products
<1>3. B * f = e
  <2>1. B * f \in Int /\ (B * f - e) * d = (B * f) * d - e * d
    OBVIOUS
  <2>2. (B * f - e) * d = 0
    BY <1>2, <2>1
  <2>3. B * f - e = 0
    BY <2>1, <2>2, NoZero
  <2> QED BY <2>1, <2>3
<1>4. m * p \in Int /\ (B - m * p) * 1 + m * p = B /\ B * 1 + 0 * 0 = B /\ e * 1 = e
  BY Products
<1> QED BY <1>3, <1>4 DEF Conserved

(* A further one: the average of both entries stands for what was paid.     *)
LEMMA BoughtMore ==
  ASSUME NEW B \in Int, NEW n \in Int, NEW d \in Nat \ {0}, NEW e \in Int, NEW f \in Nat \ {0},
         NEW h \in Int, NEW m \in Int, NEW p \in Int, Conserved(B, h, n, d, e, f)
  PROVE  Conserved(B - m * p, h + m, h * n + m * p * d, (h + m) * d, e, f)
<1> DEFINE X == B * d + h * n
           s == h + m
           y == m * p
<1>1. X \in Int /\ s \in Int /\ y \in Int /\ X * f = e * d /\ y * d = m * p * d
  BY DEF Conserved
<1>2. (B - y) * (s * d) + s * (h * n + y * d) = s * X
  <2>1. (B - y) * (s * d) = s * ((B - y) * d)
    BY <1>1
  <2>2. (B - y) * d = B * d - y * d
    BY <1>1
  <2>3. s * ((B - y) * d) + s * (h * n + y * d) = s * ((B - y) * d + (h * n + y * d))
    BY <1>1
  <2> QED BY <1>1, <2>1, <2>2, <2>3
<1>3. (s * X) * f = s * (e * d)
  BY <1>1
<1>4. s * (e * d) = e * (s * d)
  BY <1>1
<1> QED BY <1>1, <1>2, <1>3, <1>4 DEF Conserved

(* A sale of s of the h that are held, which adds its gain to what was      *)
(* earned.                                                                  *)
Gain(s, p, n, d) == s * (p * d - n)

LEMMA Sold ==
  ASSUME NEW B \in Int, NEW n \in Int, NEW d \in Nat \ {0}, NEW e \in Int, NEW f \in Nat \ {0},
         NEW h \in Int, NEW s \in Int, NEW p \in Int, Conserved(B, h, n, d, e, f)
  PROVE  /\ e = 0 => Conserved(B + s * p, h - s, n, d, Gain(s, p, n, d), d)
         /\ Conserved(B + s * p, h - s, n, d, e * d + Gain(s, p, n, d) * f, f * d)
<1> DEFINE X == B * d + h * n
           G == Gain(s, p, n, d)
           z == s * p
<1>1. X \in Int /\ G \in Int /\ z \in Int /\ X * f = e * d
  BY DEF Conserved, Gain
<1>2. (B + z) * d + (h - s) * n = X + G
  <2>1. (B + z) * d = B * d + z * d
    BY <1>1
  <2>2. (h - s) * n = h * n - s * n
    BY <1>1
  <2>3. G = s * (p * d) - s * n
    BY <1>1 DEF Gain
  <2>4. z * d = s * (p * d)
    BY <1>1
  <2> QED BY <1>1, <2>1, <2>2, <2>3, <2>4
<1>3. e = 0 => X = 0
  <2> SUFFICES ASSUME e = 0 PROVE X = 0
    OBVIOUS
  <2>1. X * f = 0
    BY <1>1
  <2> HIDE DEF X
  <2> QED BY <1>1, <2>1, NoZero
<1>4. e = 0 => Conserved(B + s * p, h - s, n, d, G, d)
  BY <1>1, <1>2, <1>3 DEF Conserved
<1>5. (X + G) * (f * d) = (e * d + G * f) * d
  <2>1. (X + G) * (f * d) = ((X + G) * f) * d
    BY <1>1
  <2>2. (X + G) * f = X * f + G * f
    BY <1>1
  <2> QED BY <1>1, <2>1, <2>2
<1> QED BY <1>1, <1>2, <1>4, <1>5 DEF Conserved

(* Two entry prices that are the same are averaged to the same.             *)
LEMMA AveragedAlike ==
  ASSUME NEW x \in [n : Int, d : Int], NEW y \in [n : Int, d : Int], Paper!Same(x, y),
         NEW h \in Int, NEW m \in Int, NEW p \in Int
  PROVE  Paper!Same(Paper!Averaged(x, h, m, p), Paper!Averaged(y, h, m, p))
<1> DEFINE s == h + m
           q == m * p
           N(z) == h * z.n + q * z.d
<1>1. /\ x.n \in Int /\ x.d \in Int /\ y.n \in Int /\ y.d \in Int /\ s \in Int /\ q \in Int
      /\ x.n * y.d = y.n * x.d
  BY DEF Paper!Same
<1>2. N(x) * y.d = N(y) * x.d
  <2>1. N(x) * y.d = h * (x.n * y.d) + q * (x.d * y.d)
    BY <1>1
  <2>2. N(y) * x.d = h * (y.n * x.d) + q * (x.d * y.d)
    BY <1>1
  <2> QED BY <1>1, <2>1, <2>2
<1>3. N(x) * (s * y.d) = s * (N(x) * y.d) /\ N(y) * (s * x.d) = s * (N(y) * x.d)
  BY <1>1
<1>4. N(x) * (s * y.d) = N(y) * (s * x.d)
  BY <1>2, <1>3
<1> QED BY <1>4 DEF Paper!Same, Paper!Averaged, Paper!Fraction

(* An average with nothing is the price itself.                             *)
LEMMA AveragedAlone ==
  ASSUME NEW x \in [n : Int, d : Int], NEW m \in Int, NEW p \in Int
  PROVE  Paper!Same(Paper!Averaged(x, 0, m, p), Paper!Fraction(p, 1))
<1>1. x.n \in Int /\ x.d \in Int
  OBVIOUS
<1>2. (0 * x.n + m * p * x.d) * 1 = p * ((0 + m) * x.d)
  BY <1>1
<1> QED BY <1>2 DEF Paper!Same, Paper!Averaged, Paper!Fraction

LEMMA AveragedType ==
  ASSUME NEW x \in Fractions, NEW h \in Nat, NEW m \in Nat \ {0}, NEW p \in Int
  PROVE  /\ Paper!Averaged(x, h, m, p) \in Fractions
         /\ Paper!Averaged(x, h, m, p) = Paper!Fraction(h * x.n + m * p * x.d, (h + m) * x.d)
<1>1. x.n \in Int /\ x.d \in Int /\ x.d > 0
  BY DEF Fractions
<1>2. (h + m) * x.d \in Int /\ (h + m) * x.d > 0
  BY <1>1
<1>3. h * x.n + m * p * x.d \in Int
  BY <1>1
<1> QED BY <1>2, <1>3 DEF Paper!Averaged, Paper!Fraction, Fractions

LEMMA LeastOf ==
  ASSUME NEW a \in Int, NEW b \in Int PROVE Paper!Min({a, b}) = IF a <= b THEN a ELSE b
BY DEF Paper!Min

(* The books of the broker, whatever is bought or sold.                     *)
LEMMA FillConserves ==
  ASSUME PaperInv, NEW side \in Paper!Sides, NEW m \in Nat \ {0},
         NEW p \in Nat \ {0}, Paper!ApplyFill(side, m, p)
  PROVE  /\ balance' \in Int /\ oversold' \in Nat /\ earned' \in Fractions
         /\ position' \in [qty : Nat, entry : Fractions]
         /\ Paper!MoneyIsConserved'
<1> DEFINE B == balance - 100 * Capital - oversold
           h == position.qty
           n == position.entry.n
           d == position.entry.d
           e == earned.n
           f == earned.d
<1>1. /\ h \in Nat /\ n \in Int /\ d \in Nat \ {0} /\ e \in Int /\ f \in Nat \ {0} /\ B \in Int
      /\ balance \in Int /\ oversold \in Nat /\ 100 * Capital \in Int
      /\ position = [qty |-> h, entry |-> [n |-> n, d |-> d]] /\ earned = [n |-> e, d |-> f]
      /\ B = balance - 100 * Capital - oversold /\ h = position.qty
  BY PaperAssumption DEF PaperInv, Fractions
<1>2. Conserved(B, h, n, d, e, f)
  BY <1>1 DEF PaperInv, Paper!MoneyIsConserved, Paper!Same, Paper!Fraction, Conserved
<1>typed. /\ B \in Int /\ h \in Int /\ n \in Int /\ d \in Nat \ {0} /\ e \in Int /\ f \in Nat \ {0}
      /\ m \in Int /\ p \in Int /\ m \in Nat \ {0} /\ h \in Nat
  BY <1>1
<1> HIDE DEF B, h, n, d, e, f
<1>3. /\ balance' = balance - Paper!Signed(side, m) * p /\ Paper!Min({h, m}) = IF h <= m THEN h ELSE m
      /\ m * p \in Nat /\ h * p \in Nat /\ (m - h) * p = m * p - h * p
  BY <1>1, LeastOf DEF Paper!ApplyFill
<1>4. CASE side = "buy"
  <2>1. balance' = balance - m * p /\ earned' = earned /\ oversold' = oversold
    BY <1>1, <1>3, <1>4 DEF Paper!ApplyFill, Paper!Signed
  <2>2. balance' - 100 * Capital - oversold' = B - m * p
    <3> m * p \in Int /\ balance \in Int /\ oversold \in Int /\ 100 * Capital \in Int
      BY <1>1, <1>3
    <3> HIDE DEF PaperInv
    <3>1. balance' - 100 * Capital - oversold' = (balance - m * p) - 100 * Capital - oversold
      BY <2>1
    <3>2. \A x, y, z, w \in Int : (x - y) - z - w = (x - z - w) - y
      OBVIOUS
    <3>3. (balance - m * p) - 100 * Capital - oversold = (balance - 100 * Capital - oversold) - m * p
      BY <3>2
    <3> QED BY <1>1, <3>1, <3>3
  <2>3. CASE h = 0
    <3>1. position' = [qty |-> m, entry |-> [n |-> p, d |-> 1]]
      BY <1>1, <1>4, <2>3 DEF Paper!ApplyFill, Paper!Position, Paper!Fraction
    <3> Conserved(B, 0, n, d, e, f)
      BY <1>2, <2>3
    <3>2. Conserved(B - m * p, m, p, 1, e, f)
      BY <1>typed, BoughtFirst, Zenon
    <3>3. Paper!MoneyIsConserved'
      BY <1>1, <2>1, <2>2, <3>1, <3>2 DEF Paper!MoneyIsConserved, Paper!Same, Paper!Fraction, Conserved
    <3> QED BY <1>1, <1>3, <2>1, <3>1, <3>3 DEF Fractions
  <2>4. CASE h # 0
    <3>1. position' = [qty |-> h + m, entry |-> Paper!Averaged(position.entry, h, m, p)]
      BY <1>1, <1>4, <2>4 DEF Paper!ApplyFill, Paper!Position
    <3>2. /\ Paper!Averaged(position.entry, h, m, p) \in Fractions
          /\ Paper!Averaged(position.entry, h, m, p) = [n |-> h * n + m * p * d, d |-> (h + m) * d]
      <4>1. position.entry \in Fractions /\ position.entry.n = n /\ position.entry.d = d
        BY <1>1 DEF PaperInv
      <4>2. /\ Paper!Averaged(position.entry, h, m, p) \in Fractions
            /\ Paper!Averaged(position.entry, h, m, p)
                 = Paper!Fraction(h * position.entry.n + m * p * position.entry.d,
                                  (h + m) * position.entry.d)
        BY <1>typed, <4>1, AveragedType, Zenon
      <4> QED BY <4>1, <4>2 DEF Paper!Fraction
    <3>3. Conserved(B - m * p, h + m, h * n + m * p * d, (h + m) * d, e, f)
      BY <1>2, <1>typed, BoughtMore, Zenon
    <3>4. Paper!MoneyIsConserved'
      BY <1>1, <2>1, <2>2, <3>1, <3>2, <3>3
         DEF Paper!MoneyIsConserved, Paper!Same, Paper!Fraction, Conserved
    <3> QED BY <1>1, <1>3, <2>1, <3>1, <3>2, <3>4 DEF Fractions
  <2> QED BY <2>3, <2>4
<1>5. CASE side = "sell"
  <2> DEFINE s == IF h <= m THEN h ELSE m
  <2>1. balance' = balance + m * p /\ oversold' = oversold + (m - s) * p
    BY <1>1, <1>3, <1>5 DEF Paper!ApplyFill, Paper!Signed, Paper!Sides
  <2>2. s \in Nat /\ s * p \in Nat /\ (m - s) * p \in Nat /\ (m - s) * p = m * p - s * p
    BY <1>1, <1>3
  <2>3. balance' - 100 * Capital - oversold' = B + s * p
    BY <1>1, <1>3, <2>1, <2>2
  <2>4. /\ h <= m => position' = [qty |-> 0, entry |-> [n |-> 0, d |-> 1]]
        /\ h > m => position' = [qty |-> h - m, entry |-> [n |-> n, d |-> d]]
    BY <1>1, <1>5 DEF Paper!ApplyFill, Paper!Position, Paper!Fraction, Paper!Nothing
  <2> DEFINE g == Gain(s, p, n, d)
             e1 == IF s = 0 THEN e ELSE IF e = 0 THEN g ELSE e * d + g * f
             f1 == IF s = 0 THEN f ELSE IF e = 0 THEN d ELSE f * d
  <2>5. earned' = [n |-> e1, d |-> f1]
    BY <1>1, <1>3, <1>5 DEF Paper!ApplyFill, Paper!Plus, Paper!Fraction, Gain
  <2>6. g \in Int /\ e1 \in Int /\ f1 \in Nat \ {0}
    BY <1>1, <2>2 DEF Gain
  <2>7. Conserved(B + s * p, h - s, n, d, e1, f1)
    <3>1. CASE s = 0
      BY <1>1, <1>2, <3>1
    <3>2. CASE s # 0
      <4> DEFINE k == s
      <4>1. k \in Int /\ k # 0 /\ k = s
        BY <2>2, <3>2
      <4> HIDE DEF k
      <4>2. /\ e = 0 => Conserved(B + k * p, h - k, n, d, Gain(k, p, n, d), d)
            /\ Conserved(B + k * p, h - k, n, d, e * d + Gain(k, p, n, d) * f, f * d)
        BY <1>2, <1>typed, <4>1, Sold, Zenon
      <4> QED BY <4>1, <4>2
    <3> QED BY <3>1, <3>2
  <2> HIDE DEF e1, f1, g
  <2>8. CASE h <= m
    <3>1. Conserved(B + s * p, 0, n, d, e1, f1)
      BY <1>1, <2>7, <2>8
    <3> B + s * p \in Int
      BY <1>1, <2>2
    <3>2. Conserved(B + s * p, 0, 0, 1, e1, f1)
      BY <1>1, <2>6, <3>1, BoughtFirst
    <3>3. Paper!MoneyIsConserved'
      BY <2>3, <2>4, <2>5, <2>8, <3>2 DEF Paper!MoneyIsConserved, Paper!Same, Paper!Fraction, Conserved
    <3> QED BY <1>1, <1>3, <2>1, <2>2, <2>4, <2>5, <2>6, <2>8, <3>3 DEF Fractions
  <2>9. CASE h > m
    <3>held. h - m \in Nat
      BY <1>1, <2>9
    <3>1. Conserved(B + s * p, h - m, n, d, e1, f1)
      BY <1>1, <2>7, <2>9
    <3>2. Paper!MoneyIsConserved'
      BY <2>3, <2>4, <2>5, <2>9, <3>1 DEF Paper!MoneyIsConserved, Paper!Same, Paper!Fraction, Conserved
    <3> QED BY <1>1, <1>3, <2>1, <2>2, <2>4, <2>5, <2>6, <2>9, <3>held, <3>2 DEF Fractions
  <2> QED BY <1>1, <2>8, <2>9
<1> QED BY <1>4, <1>5 DEF Paper!Sides

(* What both books say of the position, while nothing was oversold.         *)
Agreed ==
  /\ book.qty = position.qty /\ book.entry.d > 0
  /\ position.qty > 0 => Paper!Same(book.entry, position.entry)

LEMMA BookedType ==
  ASSUME NEW b \in [qty : Int, entry : Ratios], book = b,
         NEW side \in Paper!Sides, NEW m \in Nat \ {0}, NEW p \in Nat \ {0}
  PROVE  Paper!Booked(side, m, p) \in [qty : Int, entry : Ratios]
<1>1. b.qty \in Int /\ b.entry \in Ratios /\ b.entry.n \in Int /\ b.entry.d \in Int
  BY DEF Ratios
<1>2. Paper!Signed(side, m) \in Int /\ book.qty + Paper!Signed(side, m) \in Int
  BY <1>1 DEF Paper!Signed
<1>3. b.qty * b.entry.n + m * p * b.entry.d \in Int /\ (b.qty + m) * b.entry.d \in Int
  BY <1>1
<1>4. Paper!Averaged(b.entry, b.qty, m, p) \in Ratios
  BY <1>3 DEF Paper!Averaged, Paper!Fraction, Ratios
<1>5. Paper!Fraction(p, 1) \in Ratios
  BY DEF Paper!Fraction, Ratios
<1> QED BY <1>1, <1>2, <1>4, <1>5 DEF Paper!Booked, Paper!Position

LEMMA FillAgrees ==
  ASSUME PaperInv, NEW side \in Paper!Sides, NEW m \in Nat \ {0}, NEW p \in Nat \ {0},
         Paper!Fill(side, m, p), oversold' = 0
  PROVE  Agreed'
<1> DEFINE h == position.qty
<1>1. /\ h \in Nat /\ h \in Int /\ m \in Int /\ p \in Int
      /\ oversold \in Nat /\ book.entry \in Ratios /\ position.entry \in Ratios
      /\ book.entry \in [n : Int, d : Int] /\ position.entry \in [n : Int, d : Int]
      /\ book.entry.d \in Int /\ book.entry.n \in Int
  BY DEF PaperInv, Fractions, Ratios
<1>2. /\ oversold = 0 /\ (side = "sell" => m <= h)
  <2>1. CASE side = "buy"
    BY <2>1, <1>1 DEF Paper!Fill, Paper!ApplyFill
  <2>2. CASE side = "sell"
    <3> DEFINE k == IF h <= m THEN h ELSE m
    <3>1. oversold' = oversold + (m - k) * p
      BY <1>1, <2>2, LeastOf DEF Paper!Fill, Paper!ApplyFill
    <3>2. m - k \in Nat
      BY <1>1
    <3>3. (m - k) * p \in Nat
      BY <3>2
    <3>4. oversold = 0 /\ (m - k) * p = 0
      BY <1>1, <3>1, <3>3
    <3>5. m - k = 0
      BY <3>2, <3>4, NoZero
    <3> QED BY <1>1, <2>2, <3>4, <3>5
  <2> QED BY <2>1, <2>2 DEF Paper!Sides
<1>3. book.qty = h /\ book.entry.d > 0 /\ (h > 0 => Paper!Same(book.entry, position.entry))
  BY <1>2 DEF PaperInv
<1>4. h > 0 => book # Paper!Nothing
  BY <1>1, <1>3 DEF Paper!Nothing, Paper!Position
<1>5. CASE side = "buy"
  <2>1. ~Paper!Raises(side, m) /\ book.qty + Paper!Signed(side, m) = h + m /\ h + m # 0 /\ h + m > 0
    BY <1>1, <1>3, <1>5 DEF Paper!Raises, Paper!Signed
  <2>2. book' = IF book = Paper!Nothing THEN Paper!Position(h + m, Paper!Fraction(p, 1))
                ELSE Paper!Position(h + m, Paper!Averaged(book.entry, h, m, p))
    BY <1>3, <1>5, <2>1 DEF Paper!Fill, Paper!Booked
  <2>3. position' = Paper!Position(h + m, IF h = 0 THEN Paper!Fraction(p, 1)
                                    ELSE Paper!Averaged(position.entry, h, m, p))
    BY <1>5 DEF Paper!Fill, Paper!ApplyFill
  <2>4. Paper!Same(Paper!Fraction(p, 1), Paper!Fraction(p, 1))
    BY DEF Paper!Same, Paper!Fraction
  <2>5. Paper!Same(Paper!Averaged(book.entry, 0, m, p), Paper!Fraction(p, 1))
    BY <1>1, AveragedAlone, Zenon
  <2>6. h > 0 => Paper!Same(Paper!Averaged(book.entry, h, m, p), Paper!Averaged(position.entry, h, m, p))
    BY <1>1, <1>3, AveragedAlike, Zenon
  <2>7. Paper!Same(book'.entry, position'.entry)
    <3>1. CASE h = 0
      BY <2>2, <2>3, <2>4, <2>5, <3>1 DEF Paper!Position
    <3>2. CASE h > 0
      BY <1>4, <2>2, <2>3, <2>6, <3>2 DEF Paper!Position
    <3> QED BY <1>1, <3>1, <3>2
  <2>8. (h + m) * book.entry.d > 0
    BY <1>1, <1>3, <2>1
  <2>9. book'.entry.d > 0
    BY <2>2, <2>8 DEF Paper!Position, Paper!Averaged, Paper!Fraction
  <2> QED BY <2>2, <2>3, <2>7, <2>9 DEF Agreed, Paper!Position, Paper!Same
<1>6. CASE side = "sell"
  <2>1. h > 0 /\ m <= h /\ book # Paper!Nothing
    BY <1>1, <1>2, <1>4, <1>6
  <2>2. book' = Paper!Position(h - m, book.entry)
    BY <1>1, <1>3, <1>6, <2>1 DEF Paper!Fill, Paper!Raises, Paper!Booked, Paper!Signed
  <2>3. position' = IF h <= m THEN Paper!Nothing ELSE Paper!Position(h - m, position.entry)
    BY <1>6 DEF Paper!Fill, Paper!ApplyFill
  <2>4. CASE h <= m
    BY <1>1, <1>3, <2>1, <2>2, <2>3, <2>4 DEF Agreed, Paper!Position, Paper!Nothing
  <2>5. CASE ~(h <= m)
    BY <1>1, <1>3, <2>1, <2>2, <2>3, <2>5 DEF Agreed, Paper!Position, Paper!Same
  <2> QED BY <2>4, <2>5
<1> QED BY <1>5, <1>6 DEF Paper!Sides

(* A fill, of any quantity and at any price, keeps the books.               *)
LEMMA FillKeeps ==
  ASSUME PaperInv, NEW side \in Paper!Sides, NEW m \in Nat \ {0}, NEW p \in Nat \ {0},
         Paper!Fill(side, m, p)
  PROVE  PaperInv'
<1>1. /\ balance' \in Int /\ oversold' \in Nat /\ earned' \in Fractions
      /\ position' \in [qty : Nat, entry : Fractions] /\ Paper!MoneyIsConserved'
  BY FillConserves DEF Paper!Fill
<1>2. book' \in [qty : Int, entry : [n : Int, d : Int]]
  BY BookedType DEF PaperInv, Paper!Fill, Ratios
<1>3. oversold' = 0 => Agreed'
  BY FillAgrees
<1> QED BY <1>1, <1>2, <1>3 DEF PaperInv, Agreed, Ratios

LEMMA NoFillKeeps == ASSUME PaperInv, Paper!NoFill PROVE PaperInv'
BY DEF PaperInv, Paper!NoFill, Paper!MoneyIsConserved, Paper!Same

LEMMA FillPriceType ==
  ASSUME NEW side \in Paper!Sides, NEW price \in Prices
  PROVE  Paper!FillPrice(side, price) \in Nat \ {0}
<1>1. price \in Nat \ {0} /\ 100 + Slippage \in Nat \ {0} /\ 100 - Slippage \in Nat \ {0}
  BY PaperAssumption
<1> DEFINE by == IF side = "buy" THEN 100 + Slippage ELSE 100 - Slippage
<1>2. by \in Nat \ {0}
  BY <1>1
<1> HIDE DEF by
<1>3. price * by \in Nat \ {0}
  BY <1>1, <1>2
<1> QED BY <1>3 DEF Paper!FillPrice, by

LEMMA MarketKeeps ==
  ASSUME PaperInv,
         NEW side \in Paper!Sides, NEW qty \in Quantities, NEW price \in Prices,
         NEW at, Paper!Market(side, qty, price, at)
  PROVE  PaperInv'
<1>1. Paper!FillPrice(side, price) \in Nat \ {0} /\ qty \in Nat \ {0}
  BY FillPriceType, PaperAssumption
<1>2. CASE Paper!Fill(side, qty, Paper!FillPrice(side, price))
  BY <1>1, <1>2, FillKeeps
<1>3. ASSUME NEW part \in 1 .. qty - 1, Paper!Fill(side, part, Paper!FillPrice(side, price))
      PROVE  PaperInv'
  <2>1. part \in Nat \ {0}
    BY <1>1
  <2> QED BY <1>1, <1>3, <2>1, FillKeeps
<1> QED BY <1>2, <1>3 DEF Paper!Market

LEMMA PlaceKeeps ==
  ASSUME PaperInv,
         NEW side \in Paper!Sides, NEW qty \in Quantities, NEW price \in Prices,
         Paper!Place(side, qty, price)
  PROVE  PaperInv'
<1>1. CASE Paper!PlaceMarket(side, qty, price)
  BY <1>1, MarketKeeps DEF Paper!PlaceMarket
<1>2. CASE Paper!PlaceTrailing(side, qty, price)
  BY <1>2, NoFillKeeps DEF Paper!PlaceTrailing
<1>3. ASSUME NEW other \in Prices, Paper!PlaceLimit(side, qty, other, price) PROVE PaperInv'
  <2>1. Paper!FillPrice(side, price) \in Nat \ {0} /\ qty \in Nat \ {0}
    BY FillPriceType, PaperAssumption
  <2>2. Paper!Fill(side, qty, Paper!FillPrice(side, price)) \/ Paper!NoFill
    BY <1>3 DEF Paper!PlaceLimit
  <2> QED BY <2>1, <2>2, FillKeeps, NoFillKeeps
<1>4. ASSUME NEW other \in Prices, Paper!PlaceStop(side, qty, other, price) PROVE PaperInv'
  BY <1>4, MarketKeeps, NoFillKeeps DEF Paper!PlaceStop
<1> QED BY <1>1, <1>2, <1>3, <1>4 DEF Paper!Place

(* Whatever is bought and sold in paper mode, in full or in part, money     *)
(* comes from trading only, and until more is sold than held the broker and *)
(* the local books agree on the quantity and on the average entry           *)
(* (paper_trading_service.py, _apply_fill; portfolio_service.py, fill_trade).*)
THEOREM PaperBooksStayInAgreement == PaperSpec => []PaperBooksAgree
<1>1. Paper!Init => PaperInv
  BY PaperAssumption DEF Paper!Init, PaperInv, Fractions, Ratios, Paper!Fraction, Paper!Position,
         Paper!Nothing, Paper!MoneyIsConserved, Paper!Same
<1>2. PaperInv /\ [Paper!Next]_Paper!vars => PaperInv'
  <2> SUFFICES ASSUME PaperInv, [Paper!Next]_Paper!vars PROVE PaperInv'
    OBVIOUS
  <2>1. CASE UNCHANGED Paper!vars
    BY <2>1, NoFillKeeps DEF Paper!vars, Paper!NoFill
  <2>2. ASSUME NEW side \in Paper!Sides, NEW qty \in Quantities, NEW price \in Prices,
               Paper!Place(side, qty, price)
        PROVE  PaperInv'
    BY <2>2, PlaceKeeps
  <2>3. ASSUME NEW order, Paper!Cancel(order) \/ \E qty \in Quantities : Paper!Modify(order, qty)
        PROVE  PaperInv'
    BY <2>3, NoFillKeeps DEF Paper!Cancel, Paper!Modify
  <2> QED BY <2>1, <2>2, <2>3 DEF Paper!Next
<1>3. PaperInv => PaperBooksAgree
  BY DEF PaperInv, PaperBooksAgree, Paper!PaperBooksAgree
<1> QED BY <1>1, <1>2, <1>3, PTL DEF PaperSpec, Paper!Spec

-----------------------------------------------------------------------------
(* A backtest fills its orders with the same costs.  The proof is for every *)
(* set of bars and every tape, and for whatever the strategies answer.      *)
(* Each signal is filled, but for the one that is pending.                  *)
TestedInv ==
  /\ books = [cash |-> books.cash, held |-> books.held, pending |-> books.pending,
              signals |-> books.signals, fills |-> books.fills,
              filledHere |-> books.filledHere, equity |-> books.equity]
  /\ tape \in Seq(Bars)
  /\ books.signals \in Nat /\ books.fills \in Nat
  /\ books.signals = books.fills + (IF books.pending = Tested!NoOrder THEN 0 ELSE 1)

(* What a bar does after its open is not in what the account trades by then. *)
LEMMA OneBar ==
  ASSUME TestedInv, Tested!NextBar
  PROVE  /\ TestedInv'
         /\ \A bar \in Bars : bar.open = tape'[Len(tape')].open =>
              LET other == Tested!Step(strategy, Append(tape, bar), books)
              IN other.cash = books'.cash /\ other.held = books'.held
<1> DEFINE arrived == tape'[Len(tape')]
           after == Tested!Filled(books, arrived)
           order == Tested!Evaluate(strategy, tape', Len(tape'))
<1>1. books' = [after EXCEPT !.pending = order,
                             !.signals = @ + IF order = Tested!NoOrder THEN 0 ELSE 1,
                             !.equity = Tested!Equity(after.cash, after.held, arrived)]
  BY DEF Tested!NextBar, Tested!Step
<1>2. /\ after = [cash |-> after.cash, held |-> after.held, pending |-> after.pending,
                  signals |-> after.signals, fills |-> after.fills,
                  filledHere |-> after.filledHere, equity |-> after.equity]
      /\ after.signals = books.signals /\ after.fills = books.signals /\ books.signals \in Nat
  <2> DEFINE n == books.signals
             m == books.fills
  <2>1. n \in Nat /\ m \in Nat /\ n = m + (IF books.pending = Tested!NoOrder THEN 0 ELSE 1)
    BY DEF TestedInv
  <2>2. CASE books.pending = Tested!NoOrder
    <3>1. after = [books EXCEPT !.filledHere = FALSE]
      BY <2>2 DEF Tested!Filled
    <3>2. after.fills = m /\ after.signals = n
      BY <3>1 DEF TestedInv
    <3>3. after = [cash |-> after.cash, held |-> after.held, pending |-> after.pending,
                   signals |-> after.signals, fills |-> after.fills,
                   filledHere |-> after.filledHere, equity |-> after.equity]
      BY <3>1 DEF TestedInv
    <3> QED BY <2>1, <2>2, <3>2, <3>3
  <2>3. CASE books.pending # Tested!NoOrder
    <3>1. after.fills = m + 1 /\ after.signals = n
      BY <2>3 DEF TestedInv, Tested!Filled
    <3>2. after = [cash |-> after.cash, held |-> after.held, pending |-> after.pending,
                   signals |-> after.signals, fills |-> after.fills,
                   filledHere |-> after.filledHere, equity |-> after.equity]
      BY <2>3 DEF TestedInv, Tested!Filled
    <3> QED BY <2>1, <2>3, <3>1, <3>2
  <2> QED BY <2>2, <2>3
<1> HIDE DEF after, order, arrived
<1>3. /\ books'.pending = order /\ books'.cash = after.cash /\ books'.held = after.held
      /\ books'.signals = after.signals + IF order = Tested!NoOrder THEN 0 ELSE 1
      /\ books'.fills = after.fills
  BY <1>1, <1>2
<1>4. TestedInv'
  <2>1. books' = [cash |-> books'.cash, held |-> books'.held, pending |-> books'.pending,
                  signals |-> books'.signals, fills |-> books'.fills,
                  filledHere |-> books'.filledHere, equity |-> books'.equity]
    BY <1>1, <1>2
  <2>2. tape' \in Seq(Bars)
    BY DEF TestedInv, Tested!NextBar
  <2> QED BY <1>2, <1>3, <2>1, <2>2 DEF TestedInv
<1>5. ASSUME NEW bar \in Bars, bar.open = arrived.open
      PROVE  LET other == Tested!Step(strategy, Append(tape, bar), books)
             IN other.cash = books'.cash /\ other.held = books'.held
  <2> DEFINE t == Append(tape, bar)
             then == Tested!Filled(books, t[Len(t)])
             o == Tested!Evaluate(strategy, t, Len(t))
             other == Tested!Step(strategy, t, books)
  <2> SUFFICES other.cash = books'.cash /\ other.held = books'.held
    OBVIOUS
  <2>1. t[Len(t)].open = arrived.open
    BY <1>5 DEF TestedInv
  <2>2. then.cash = after.cash /\ then.held = after.held
    BY <2>1 DEF Tested!Filled, after, TestedInv
  <2>3. then = [cash |-> then.cash, held |-> then.held, pending |-> then.pending,
                signals |-> then.signals, fills |-> then.fills,
                filledHere |-> then.filledHere, equity |-> then.equity]
    BY DEF TestedInv, Tested!Filled
  <2>4. other = [then EXCEPT !.pending = o,
                             !.signals = @ + IF o = Tested!NoOrder THEN 0 ELSE 1,
                             !.equity = Tested!Equity(then.cash, then.held, t[Len(t)])]
    BY DEF Tested!Step
  <2> HIDE DEF then, o, other
  <2>5. other.cash = then.cash /\ other.held = then.held
    BY <2>3, <2>4
  <2> QED BY <1>3, <2>2, <2>5
<1> QED BY <1>4, <1>5 DEF arrived

(* No look-ahead: whatever the bar that comes does after its open, the      *)
(* account has traded the same by then, and every signal is filled once, at *)
(* the bar behind it (backtesting_service.py, _run_backtest_cycle).         *)
THEOREM TradesAreOfTheBarBefore == TestedSpec => NoLookAhead
<1> DEFINE Fair == tape' # tape =>
     /\ \A bar \in Bars : bar.open = tape'[Len(tape')].open =>
          LET other == Tested!Step(strategy, Append(tape, bar), books)
          IN other.cash = books'.cash /\ other.held = books'.held
     /\ Tested!Report'.signals =
          Tested!Report'.trades + (IF books'.pending = Tested!NoOrder THEN 0 ELSE 1)
<1>1. Tested!Init => TestedInv
  BY DEF Tested!Init, Tested!Opened, TestedInv
<1>2. TestedInv /\ [Tested!NextBar]_Tested!vars => TestedInv'
  <2> SUFFICES ASSUME TestedInv, [Tested!NextBar]_Tested!vars PROVE TestedInv'
    OBVIOUS
  <2>1. CASE Tested!NextBar
    BY <2>1, OneBar
  <2>2. CASE UNCHANGED Tested!vars
    BY <2>2 DEF Tested!vars, TestedInv
  <2> QED BY <2>1, <2>2
<1>3. TestedInv /\ [Tested!NextBar]_Tested!vars => [Fair]_Tested!vars
  <2> SUFFICES ASSUME TestedInv, Tested!NextBar PROVE Fair
    OBVIOUS
  <2>1. TestedInv'
    BY OneBar
  <2>2. Tested!Report'.signals =
          Tested!Report'.trades + (IF books'.pending = Tested!NoOrder THEN 0 ELSE 1)
    BY <2>1 DEF TestedInv, Tested!Report
  <2> QED BY <2>2, OneBar
<1> QED BY <1>1, <1>2, <1>3, PTL DEF TestedSpec, NoLookAhead, Tested!Spec, Tested!NoLookAhead


-----------------------------------------------------------------------------
(* The causal trail.  What the rows and the trades say of a signal.         *)
Signal(r) == audit[r].signal
FilledRow(s) == \E r \in DOMAIN audit : Signal(r) = s /\ audit[r].what = "filled"
BlockedRow(s) == \E r \in DOMAIN audit : Signal(r) = s /\ audit[r].what = "blocked"
RecordedRow(s) == \E r \in DOMAIN audit : Signal(r) = s /\ audit[r].action = "trade.fill"
Booked(s) == \E t \in DOMAIN trades : trades[t].signal = s
BookedFilled(s) == \E t \in DOMAIN trades : trades[t].signal = s /\ trades[t].status = "filled"

Rows == [action : {"signal.generated", "decision.made", "order.placed", "trade.fill", "trade.open"},
         signal : Nat, trade : Nat, what : {"none", "allowed", "blocked", "filled", "not_filled", "text"}]
TradeRows == [signal : Nat, side : {"buy", "sell"}, qty : {f.qty : f \in Fills},
              price : {f.price : f \in Fills}, created : Nat, status : {"pending", "filled"}]
Duties == [at : {"idle", "decide", "place", "open", "fill", "record"}, signal : Nat, trade : Nat]

TrailType ==
  /\ audit \in Seq(Rows) /\ trades \in Seq(TradeRows)
  /\ job \in [Submitters -> Duties] /\ signals \in Nat

(* Only an order's row says "filled", and only a decision's "blocked".      *)
RowsSay ==
  \A r \in DOMAIN audit :
    /\ Signal(r) <= signals
    /\ audit[r].what = "filled" => audit[r].action = "order.placed"
    /\ audit[r].what = "blocked" => audit[r].action = "decision.made"

(* Each caller is at a signal of its own, and as far as its rows say.       *)
Busy(c) == job[c] # Replayed!Idle
AtSignal(c) ==
  LET s == job[c].signal
      at == job[c].at
  IN /\ at # "idle" /\ s \in 1 .. signals /\ ~BlockedRow(s)
     /\ at \in {"decide", "place"} => ~FilledRow(s)
     /\ at \in {"decide", "place", "open"} => ~Booked(s)
     /\ at \in {"open", "fill", "record"} => FilledRow(s)
     /\ at \in {"fill", "record"} =>
          job[c].trade \in DOMAIN trades /\ trades[job[c].trade].signal = s
     /\ at = "record" => trades[job[c].trade].status = "filled"
Jobs ==
  /\ \A c \in Submitters : Busy(c) => AtSignal(c)
  /\ \A c, d \in Submitters : Busy(c) /\ Busy(d) /\ job[c].signal = job[d].signal => c = d

(* Of an order that nobody is at and that was not cut short the rows and    *)
(* the trades say the same.                                                 *)
Ended(s) ==
  /\ FilledRow(s) <=> Booked(s)
  /\ FilledRow(s) => RecordedRow(s)
  /\ BlockedRow(s) => ~Booked(s)
EndedAlike ==
  \A s \in 1 .. signals :
    s \notin cut /\ (\A c \in Submitters : Busy(c) => job[c].signal # s) => Ended(s)

(* A recorded fill is of a trade that is filled, whoever was cut short.     *)
FillsAreTrades == \A s \in Nat \ {0} : RecordedRow(s) => BookedFilled(s)

TrailInv ==
  /\ TrailType /\ RowsSay /\ Jobs /\ EndedAlike /\ FillsAreTrades
  /\ \A t \in DOMAIN trades : trades[t].signal \in 1 .. signals

(* One more row says what it says of its signal.                            *)
LEMMA RowWritten ==
  ASSUME TrailType, NEW row \in Rows, Replayed!Write(row)
  PROVE  /\ audit' \in Seq(Rows)
         /\ \A s : FilledRow(s)' <=> FilledRow(s) \/ (row.signal = s /\ row.what = "filled")
         /\ \A s : BlockedRow(s)' <=> BlockedRow(s) \/ (row.signal = s /\ row.what = "blocked")
         /\ \A s : RecordedRow(s)' <=> RecordedRow(s) \/ (row.signal = s /\ row.action = "trade.fill")
<1> DEFINE n == Len(audit)
<1>1. /\ audit' \in Seq(Rows) /\ n \in Nat /\ DOMAIN audit = 1 .. n /\ DOMAIN audit' = 1 .. (n + 1)
      /\ audit'[n + 1] = row /\ \A r \in 1 .. n : audit'[r] = audit[r]
  BY DEF TrailType, Replayed!Write
<1>2. \A r \in 1 .. (n + 1) : r \in 1 .. n \/ r = n + 1
  BY <1>1
<1>3. \A r \in 1 .. n : r \in 1 .. (n + 1)
  BY <1>1
<1>4. n + 1 \in 1 .. (n + 1)
  BY <1>1
<1> HIDE DEF n
<1> QED BY <1>1, <1>2, <1>3, <1>4 DEF FilledRow, BlockedRow, RecordedRow, Signal

LEMMA RowSays ==
  ASSUME TrailType, RowsSay, NEW row \in Rows, Replayed!Write(row),
         signals' \in Nat, signals <= signals', row.signal <= signals',
         row.what = "filled" => row.action = "order.placed",
         row.what = "blocked" => row.action = "decision.made"
  PROVE  RowsSay'
<1> DEFINE n == Len(audit)
<1>1. /\ n \in Nat /\ DOMAIN audit = 1 .. n /\ DOMAIN audit' = 1 .. (n + 1)
      /\ audit'[n + 1] = row /\ \A r \in 1 .. n : audit'[r] = audit[r]
      /\ \A r \in 1 .. n : audit[r].signal \in Nat
  <2>1. /\ n \in Nat /\ DOMAIN audit = 1 .. n /\ DOMAIN audit' = 1 .. (n + 1)
        /\ audit'[n + 1] = row /\ \A r \in 1 .. n : audit'[r] = audit[r] /\ audit[r] \in Rows
    BY DEF TrailType, Replayed!Write
  <2>2. \A x \in Rows : x.signal \in Nat
    BY DEF Rows
  <2> HIDE DEF n
  <2> QED BY <2>1, <2>2
<1>2. \A r \in 1 .. (n + 1) : r \in 1 .. n \/ r = n + 1
  BY <1>1
<1>3. signals \in Nat /\ row.signal \in Nat
  BY DEF TrailType, Rows
<1> HIDE DEF n
<1>4. ASSUME NEW r \in 1 .. n
      PROVE  /\ audit'[r].signal <= signals'
             /\ audit'[r].what = "filled" => audit'[r].action = "order.placed"
             /\ audit'[r].what = "blocked" => audit'[r].action = "decision.made"
  <2>1. audit'[r] = audit[r] /\ audit[r].signal \in Nat
    BY <1>1
  <2>2. /\ audit[r].signal <= signals
        /\ audit[r].what = "filled" => audit[r].action = "order.placed"
        /\ audit[r].what = "blocked" => audit[r].action = "decision.made"
    BY <1>1 DEF RowsSay, Signal
  <2> QED BY <1>3, <2>1, <2>2
<1>5. \A r \in 1 .. (n + 1) : audit'[r].signal <= signals'
  BY <1>1, <1>2, <1>4
<1>6. \A r \in 1 .. (n + 1) :
        /\ audit'[r].what = "filled" => audit'[r].action = "order.placed"
        /\ audit'[r].what = "blocked" => audit'[r].action = "decision.made"
  BY <1>1, <1>2, <1>4
<1> QED BY <1>1, <1>5, <1>6 DEF RowsSay, Signal

LEMMA JobKinds ==
  ASSUME TrailInv, NEW c \in Submitters, job[c].at # "idle"
  PROVE  /\ Busy(c) /\ AtSignal(c) /\ job[c].signal \in 1 .. signals
         /\ \A d \in Submitters : Busy(d) /\ job[d].signal = job[c].signal => d = c
<1>1. Busy(c)
  BY DEF Busy, Replayed!Idle
<1> QED BY <1>1 DEF TrailInv, Jobs, AtSignal

(* What a step of one caller leaves alone: the other callers, and the       *)
(* orders that nobody is at.  s is the signal of the step.                  *)
Others(s) ==
  /\ \A u : u \notin {s, 0} => (FilledRow(u)' <=> FilledRow(u))
  /\ \A u : u \notin {s, 0} => (BlockedRow(u)' <=> BlockedRow(u))
  /\ \A u : u \notin {s, 0} => (RecordedRow(u)' <=> RecordedRow(u))
  /\ \A u : u \notin {s, 0} => (Booked(u)' <=> Booked(u))
  /\ \A u : u \notin {s, 0} => (BookedFilled(u) => BookedFilled(u)')
  /\ \A t \in DOMAIN trades : t \in DOMAIN trades' /\ trades'[t].signal = trades[t].signal
  /\ \A t \in DOMAIN trades : trades[t].signal # s => trades'[t].status = trades[t].status

LEMMA OthersKeep ==
  ASSUME TrailInv, NEW c \in Submitters, Busy(c), NEW s, s = job[c].signal, Others(s),
         job' \in [Submitters -> Duties], \A d \in Submitters \ {c} : job'[d] = job[d],
         Busy(c)' => job'[c].signal = s /\ AtSignal(c)',
         ~Busy(c)' => s \in cut' \/ Ended(s)',
         cut \subseteq cut', signals' = signals,
         RecordedRow(s)' => BookedFilled(s)'
  PROVE  Jobs' /\ EndedAlike' /\ FillsAreTrades'
<1>1. \A d \in Submitters \ {c} : Busy(d)' <=> Busy(d)
  BY DEF Busy
<1>2. ASSUME NEW d \in Submitters \ {c}, Busy(d)' PROVE AtSignal(d)'
  <2>1. Busy(d) /\ AtSignal(d) /\ job'[d] = job[d] /\ job[d].signal # s
    BY <1>1, <1>2 DEF TrailInv, Jobs
  <2>2. job[d].signal # 0
    BY <2>1 DEF AtSignal, TrailInv, TrailType
  <2> QED BY <2>1, <2>2 DEF AtSignal, Others
<1>3. Jobs'
  <2>1. \A d \in Submitters : Busy(d)' => AtSignal(d)'
    BY <1>2
  <2>2. ASSUME NEW d \in Submitters, NEW e \in Submitters,
               Busy(d)', Busy(e)', job'[d].signal = job'[e].signal
        PROVE  d = e
    <3>1. \A x \in Submitters : Busy(x)' => Busy(x) /\ job'[x].signal = job[x].signal
      BY <1>1
    <3> QED BY <2>2, <3>1 DEF TrailInv, Jobs
  <2> QED BY <2>1, <2>2 DEF Jobs
<1>4. ASSUME NEW u \in 1 .. signals, u \notin cut',
             \A d \in Submitters : Busy(d)' => job'[d].signal # u
      PROVE  Ended(u)'
  <2>1. CASE u = s
    <3>1. ~Busy(c)'
      BY <1>4, <2>1
    <3> QED BY <1>4, <2>1, <3>1
  <2>2. CASE u # s
    <3>1. u \notin cut /\ \A d \in Submitters : Busy(d) => job[d].signal # u
      BY <1>1, <1>4, <2>2
    <3>2. Ended(u) /\ u # 0
      BY <3>1 DEF TrailInv, TrailType, EndedAlike
    <3> QED BY <2>2, <3>2 DEF Ended, Others
  <2> QED BY <2>1, <2>2
<1>5. EndedAlike'
  BY <1>4 DEF EndedAlike
<1>6. FillsAreTrades'
  BY DEF FillsAreTrades, Others, TrailInv
<1> QED BY <1>3, <1>5, <1>6

(* A step that leaves the trades alone.                                     *)
LEMMA SameTrades ==
  ASSUME UNCHANGED trades
  PROVE  /\ \A u : Booked(u)' <=> Booked(u)
         /\ \A u : BookedFilled(u)' <=> BookedFilled(u)
BY DEF Booked, BookedFilled

LEMMA SameTrail ==
  ASSUME UNCHANGED audit
  PROVE  /\ \A u : FilledRow(u)' <=> FilledRow(u)
         /\ \A u : BlockedRow(u)' <=> BlockedRow(u)
         /\ \A u : RecordedRow(u)' <=> RecordedRow(u)
BY DEF FilledRow, BlockedRow, RecordedRow, Signal

LEMMA BeginKeeps == ASSUME TrailInv, NEW c \in Submitters, Replayed!Begin(c) PROVE TrailInv'
<1>0. PICK s : s = signals + 1
  OBVIOUS
<1>1. /\ job[c] = Replayed!Idle /\ signals \in Nat /\ signals' = s /\ s = signals + 1
      /\ job' = [job EXCEPT ![c] = [at |-> "decide", signal |-> s, trade |-> 0]]
      /\ UNCHANGED <<trades, restarts, cut>>
  BY <1>0 DEF Replayed!Begin, TrailInv, TrailType
<1>2. /\ job' \in [Submitters -> Duties] /\ job'[c] = [at |-> "decide", signal |-> s, trade |-> 0]
      /\ \A d \in Submitters \ {c} : job'[d] = job[d]
  <2>1. [at |-> "decide", signal |-> s, trade |-> 0] \in Duties
    BY <1>1 DEF Duties
  <2> QED BY <1>1, <2>1 DEF TrailInv, TrailType
<1>3. ~FilledRow(s) /\ ~BlockedRow(s) /\ ~Booked(s) /\ s \in 1 .. signals'
  <2>1. \A r \in DOMAIN audit : Signal(r) <= signals
    BY DEF TrailInv, RowsSay
  <2>2. \A t \in DOMAIN trades : trades[t].signal \in 1 .. signals
    BY DEF TrailInv
  <2>3. s \in 1 .. signals' /\ ~(s <= signals) /\ s \notin 1 .. signals
    BY <1>1
  <2> QED BY <2>1, <2>2, <2>3 DEF FilledRow, BlockedRow, Booked
<1>4. /\ audit' \in Seq(Rows) /\ RowsSay'
      /\ \A u : FilledRow(u)' <=> FilledRow(u)
      /\ \A u : BlockedRow(u)' <=> BlockedRow(u)
      /\ \A u : RecordedRow(u)' <=> RecordedRow(u)
  <2>1. CASE UNCHANGED audit
    <3>1. RowsSay'
      <4>1. ASSUME NEW r \in DOMAIN audit PROVE audit[r].signal <= signals'
        <5>1. audit[r].signal <= signals /\ audit[r] \in Rows
          BY DEF TrailInv, TrailType, RowsSay, Signal
        <5>2. audit[r].signal \in Nat
          BY <5>1 DEF Rows
        <5> QED BY <1>0, <1>1, <5>1, <5>2
      <4> QED BY <2>1, <4>1 DEF TrailInv, RowsSay, Signal
    <3> QED BY <2>1, <3>1, SameTrail DEF TrailInv, TrailType
  <2>2. CASE Replayed!Write(Replayed!Row("signal.generated", s, 0, "none"))
    <3>0. PICK row : row = Replayed!Row("signal.generated", s, 0, "none")
      OBVIOUS
    <3>1. row \in Rows /\ row.signal = s /\ row.what = "none" /\ row.action = "signal.generated"
      BY <1>0, <1>1, <3>0 DEF Replayed!Row, Rows
    <3>2. signals <= signals' /\ signals' \in Nat /\ row.signal <= signals'
      BY <1>0, <1>1, <3>1
    <3>3. TrailType /\ RowsSay
      BY DEF TrailInv
    <3>4. Replayed!Write(row)
      BY <2>2, <3>0
    <3>5. RowsSay'
      BY <3>1, <3>2, <3>3, <3>4, RowSays
    <3> QED BY <3>1, <3>3, <3>4, <3>5, RowWritten
  <2> QED BY <1>0, <2>1, <2>2 DEF Replayed!Begin
<1>5. TrailType' /\ \A t \in DOMAIN trades' : trades'[t].signal \in 1 .. signals'
  <2>1. signals' \in Nat /\ 1 .. signals \subseteq 1 .. signals'
    BY <1>1
  <2> QED BY <1>1, <1>2, <1>4, <2>1 DEF TrailInv, TrailType
<1>6. \A u : Booked(u)' <=> Booked(u)
  BY <1>1, SameTrades
<1>7. \A d \in Submitters \ {c} : Busy(d)' <=> Busy(d)
  BY <1>2 DEF Busy
<1>8. ASSUME NEW d \in Submitters \ {c}, Busy(d)' PROVE AtSignal(d)' /\ job'[d].signal # s
  <2>1. AtSignal(d) /\ job'[d] = job[d]
    BY <1>2, <1>7, <1>8 DEF TrailInv, Jobs
  <2>2. job[d].signal \in 1 .. signals' /\ job[d].signal # s
    BY <1>1, <2>1 DEF AtSignal
  <2> QED BY <1>1, <1>4, <1>6, <2>1, <2>2 DEF AtSignal
<1>9. AtSignal(c)' /\ Busy(c)' /\ job'[c].signal = s
  BY <1>1, <1>2, <1>3, <1>4, <1>6 DEF AtSignal, Busy, Replayed!Idle
<1>10. Jobs'
  <2>1. \A d \in Submitters : Busy(d)' => AtSignal(d)'
    BY <1>8, <1>9
  <2>2. ASSUME NEW d \in Submitters, NEW e \in Submitters,
               Busy(d)', Busy(e)', job'[d].signal = job'[e].signal
        PROVE  d = e
    <3>1. CASE d = c \/ e = c
      BY <1>8, <1>9, <2>2, <3>1
    <3>2. CASE d # c /\ e # c
      BY <1>2, <1>7, <2>2, <3>2 DEF TrailInv, Jobs
    <3> QED BY <3>1, <3>2
  <2> QED BY <2>1, <2>2 DEF Jobs
<1>11. EndedAlike'
  <2>1. ASSUME NEW u \in 1 .. signals', u \notin cut',
               \A d \in Submitters : Busy(d)' => job'[d].signal # u
        PROVE  Ended(u)'
    <3>1. u # s /\ u \in 1 .. signals
      <4>1. u # s
        BY <1>9, <2>1
      <4> QED BY <1>1, <4>1
    <3>2. u \notin cut /\ \A d \in Submitters : Busy(d) => job[d].signal # u
      BY <1>1, <1>2, <1>7, <2>1 DEF Busy
    <3>3. Ended(u)
      BY <3>1, <3>2 DEF TrailInv, EndedAlike
    <3> QED BY <1>4, <1>6, <3>3 DEF Ended
  <2> QED BY <2>1 DEF EndedAlike
<1>12. FillsAreTrades'
  BY <1>1, <1>4, SameTrades DEF TrailInv, FillsAreTrades
<1> QED BY <1>4, <1>5, <1>10, <1>11, <1>12 DEF TrailInv

(* The caller lets go of the order without a word.                          *)
LEMMA LetGo ==
  ASSUME TrailInv, NEW c \in Submitters, job[c].at # "idle", Replayed!Done(c),
         UNCHANGED <<audit, trades, signals>>, cut \subseteq cut',
         job[c].signal \in cut' \/ Ended(job[c].signal)
  PROVE  TrailInv'
<1>0. PICK s : s = job[c].signal
  OBVIOUS
<1>1. Busy(c) /\ s \in 1 .. signals
  BY <1>0, JobKinds
<1>2. /\ job' \in [Submitters -> Duties] /\ job'[c] = Replayed!Idle
      /\ \A d \in Submitters \ {c} : job'[d] = job[d]
  BY DEF Replayed!Done, TrailInv, TrailType, Duties, Replayed!Idle
<1>3. Others(s)
  BY SameTrades, SameTrail DEF Others
<1>4. Jobs' /\ EndedAlike' /\ FillsAreTrades'
  <2>1. ~Busy(c)'
    BY <1>2 DEF Busy
  <2>2. s \in cut' \/ Ended(s)'
    BY <1>0, SameTrades, SameTrail DEF Ended
  <2>3. RecordedRow(s)' => BookedFilled(s)'
    <3>1. s \in Nat \ {0}
      BY <1>1 DEF TrailInv, TrailType
    <3> QED BY <3>1, SameTrades, SameTrail DEF TrailInv, FillsAreTrades
  <2> QED BY <1>0, <1>1, <1>2, <1>3, <2>1, <2>2, <2>3, OthersKeep
<1> QED BY <1>2, <1>4 DEF TrailInv, TrailType, RowsSay, Signal

LEMMA DropKeeps == ASSUME TrailInv, NEW c \in Submitters, Replayed!Drop(c) PROVE TrailInv'
<1>1. AtSignal(c) /\ job[c].signal \in 1 .. signals /\ job[c].at = "decide"
  BY JobKinds DEF Replayed!Drop
<1>2. Ended(job[c].signal)
  BY <1>1 DEF AtSignal, Ended
<1> QED BY <1>1, <1>2, LetGo DEF Replayed!Drop

LEMMA RaiseKeeps == ASSUME TrailInv, NEW c \in Submitters, Replayed!Raise(c) PROVE TrailInv'
BY LetGo DEF Replayed!Raise

(* A row of the signal: what it leaves alone.                               *)
LEMMA RowOf ==
  ASSUME TrailInv, NEW s \in 1 .. signals, NEW row \in Rows, row.signal = s,
         Replayed!Write(row), UNCHANGED <<trades, signals>>,
         row.what = "filled" => row.action = "order.placed",
         row.what = "blocked" => row.action = "decision.made",
         row.action = "trade.fill" => BookedFilled(s)
  PROVE  /\ Others(s) /\ audit' \in Seq(Rows) /\ RowsSay'
         /\ FilledRow(s)' <=> FilledRow(s) \/ row.what = "filled"
         /\ BlockedRow(s)' <=> BlockedRow(s) \/ row.what = "blocked"
         /\ RecordedRow(s)' <=> RecordedRow(s) \/ row.action = "trade.fill"
         /\ Booked(s)' <=> Booked(s)
         /\ RecordedRow(s)' => BookedFilled(s)'
<1>1. TrailType /\ RowsSay /\ signals \in Nat /\ signals' = signals
  BY DEF TrailInv, TrailType
<1>2. RowsSay'
  <2>1. row.signal <= signals' /\ signals <= signals' /\ signals' \in Nat
    BY <1>1
  <2> QED BY <1>1, <2>1, RowSays
<1>3. /\ audit' \in Seq(Rows)
      /\ \A u : FilledRow(u)' <=> FilledRow(u) \/ (row.signal = u /\ row.what = "filled")
      /\ \A u : BlockedRow(u)' <=> BlockedRow(u) \/ (row.signal = u /\ row.what = "blocked")
      /\ \A u : RecordedRow(u)' <=> RecordedRow(u) \/ (row.signal = u /\ row.action = "trade.fill")
  BY <1>1, RowWritten
<1>4. /\ \A u : Booked(u)' <=> Booked(u)
      /\ \A u : BookedFilled(u)' <=> BookedFilled(u)
  BY SameTrades
<1>5. Others(s)
  BY <1>3, <1>4 DEF Others
<1>6. RecordedRow(s)' => BookedFilled(s)'
  <2>1. s \in Nat \ {0}
    BY <1>1
  <2>2. RecordedRow(s) => BookedFilled(s)
    BY <2>1 DEF TrailInv, FillsAreTrades
  <2> QED BY <1>3, <1>4, <2>2
<1> QED BY <1>2, <1>3, <1>4, <1>5, <1>6

(* The caller goes on with its order, or is done with it.                   *)
LEMMA Goes ==
  ASSUME TrailInv, NEW c \in Submitters, NEW at,
         at \in {"place", "open", "fill", "record"}, Replayed!Go(c, at)
  PROVE  /\ job' \in [Submitters -> Duties] /\ \A d \in Submitters \ {c} : job'[d] = job[d]
         /\ Busy(c)' /\ job'[c].at = at
         /\ job'[c].signal = job[c].signal /\ job'[c].trade = job[c].trade
<1>1. job \in [Submitters -> Duties]
  BY DEF TrailInv, TrailType
<1>2. /\ job' = [job EXCEPT ![c] = [job[c] EXCEPT !.at = at]]
  BY <1>1 DEF Replayed!Go
<1>3. job[c] \in Duties
  BY <1>1
<1>4. /\ [job[c] EXCEPT !.at = at] \in Duties
      /\ [job[c] EXCEPT !.at = at].at = at
      /\ [job[c] EXCEPT !.at = at].signal = job[c].signal
      /\ [job[c] EXCEPT !.at = at].trade = job[c].trade
  BY <1>3 DEF Duties
<1>5. /\ job'[c] = [job[c] EXCEPT !.at = at]
      /\ job' \in [Submitters -> Duties] /\ \A d \in Submitters \ {c} : job'[d] = job[d]
  BY <1>1, <1>2, <1>4
<1>6. job'[c] # Replayed!Idle
  BY <1>4, <1>5 DEF Replayed!Idle
<1> QED BY <1>4, <1>5, <1>6 DEF Busy

LEMMA Stops ==
  ASSUME TrailInv, NEW c \in Submitters, Replayed!Done(c)
  PROVE  /\ job' \in [Submitters -> Duties] /\ \A d \in Submitters \ {c} : job'[d] = job[d]
         /\ ~Busy(c)'
BY DEF Replayed!Done, TrailInv, TrailType, Duties, Replayed!Idle, Busy

LEMMA DecideKeeps ==
  ASSUME TrailInv, NEW c \in Submitters, NEW outcome \in {"allowed", "blocked"},
         Replayed!Decide(c, outcome)
  PROVE  TrailInv'
<1>0. PICK s, row : s = job[c].signal /\ row = Replayed!Row("decision.made", job[c].signal, 0, outcome)
  OBVIOUS
<1>1. /\ job[c].at = "decide" /\ Replayed!Write(row)
      /\ UNCHANGED <<trades, signals, restarts, cut>>
      /\ IF outcome = "blocked" THEN Replayed!Done(c) ELSE Replayed!Go(c, "place")
  BY <1>0 DEF Replayed!Decide
<1>2. Busy(c) /\ AtSignal(c) /\ s \in 1 .. signals
  BY <1>0, <1>1, JobKinds
<1>3. s \in Nat /\ row \in Rows /\ row.signal = s /\ row.what = outcome /\ row.action = "decision.made"
  <2>1. s \in Nat
    BY <1>2 DEF TrailInv, TrailType
  <2> QED BY <1>0, <2>1 DEF Replayed!Row, Rows
<1>4. /\ Others(s) /\ audit' \in Seq(Rows) /\ RowsSay' /\ ~FilledRow(s)' /\ ~Booked(s)'
      /\ BlockedRow(s)' <=> outcome = "blocked"
      /\ RecordedRow(s)' => BookedFilled(s)'
  <2>1. ~FilledRow(s) /\ ~Booked(s) /\ ~BlockedRow(s)
    BY <1>0, <1>1, <1>2 DEF AtSignal
  <2> QED BY <1>1, <1>2, <1>3, <2>1, RowOf
<1>5. CASE outcome = "blocked"
  <2>1. /\ job' \in [Submitters -> Duties] /\ (\A d \in Submitters \ {c} : job'[d] = job[d])
        /\ ~Busy(c)'
    BY <1>1, <1>5, Stops
  <2>2. Ended(s)'
    BY <1>4 DEF Ended
  <2>3. Jobs' /\ EndedAlike' /\ FillsAreTrades'
    BY <1>0, <1>1, <1>2, <1>4, <2>1, <2>2, OthersKeep
  <2> QED BY <1>1, <1>4, <2>1, <2>3 DEF TrailInv, TrailType
<1>6. CASE outcome # "blocked"
  <2>1. /\ job' \in [Submitters -> Duties] /\ (\A d \in Submitters \ {c} : job'[d] = job[d])
        /\ Busy(c)' /\ job'[c].at = "place" /\ job'[c].signal = s
    BY <1>0, <1>1, <1>6, Goes
  <2>2. AtSignal(c)'
    BY <1>1, <1>2, <1>4, <1>6, <2>1 DEF AtSignal
  <2>3. Jobs' /\ EndedAlike' /\ FillsAreTrades'
    BY <1>0, <1>1, <1>2, <1>4, <2>1, <2>2, OthersKeep
  <2> QED BY <1>1, <1>4, <2>1, <2>3 DEF TrailInv, TrailType
<1> QED BY <1>5, <1>6

LEMMA OrderPlacedKeeps ==
  ASSUME TrailInv, NEW c \in Submitters, NEW status \in {"filled", "not_filled"},
         Replayed!Place(c, status)
  PROVE  TrailInv'
<1>0. PICK s, row : s = job[c].signal /\ row = Replayed!Row("order.placed", job[c].signal, 0, status)
  OBVIOUS
<1>1. /\ job[c].at = "place" /\ Replayed!Write(row)
      /\ UNCHANGED <<trades, signals, restarts, cut>>
      /\ IF status = "filled" THEN Replayed!Go(c, "open") ELSE Replayed!Done(c)
  BY <1>0 DEF Replayed!Place
<1>2. Busy(c) /\ AtSignal(c) /\ s \in 1 .. signals
  BY <1>0, <1>1, JobKinds
<1>3. s \in Nat /\ row \in Rows /\ row.signal = s /\ row.what = status /\ row.action = "order.placed"
  <2>1. s \in Nat
    BY <1>2 DEF TrailInv, TrailType
  <2> QED BY <1>0, <2>1 DEF Replayed!Row, Rows
<1>4. /\ Others(s) /\ audit' \in Seq(Rows) /\ RowsSay' /\ ~Booked(s)' /\ ~BlockedRow(s)'
      /\ FilledRow(s)' <=> status = "filled"
      /\ RecordedRow(s)' => BookedFilled(s)'
  <2>1. ~FilledRow(s) /\ ~Booked(s) /\ ~BlockedRow(s)
    BY <1>0, <1>1, <1>2 DEF AtSignal
  <2> QED BY <1>1, <1>2, <1>3, <2>1, RowOf
<1>5. CASE status # "filled"
  <2>1. /\ job' \in [Submitters -> Duties] /\ (\A d \in Submitters \ {c} : job'[d] = job[d])
        /\ ~Busy(c)'
    BY <1>1, <1>5, Stops
  <2>2. Ended(s)'
    BY <1>4, <1>5 DEF Ended
  <2>3. Jobs' /\ EndedAlike' /\ FillsAreTrades'
    BY <1>0, <1>1, <1>2, <1>4, <2>1, <2>2, OthersKeep
  <2> QED BY <1>1, <1>4, <2>1, <2>3 DEF TrailInv, TrailType
<1>6. CASE status = "filled"
  <2>1. /\ job' \in [Submitters -> Duties] /\ (\A d \in Submitters \ {c} : job'[d] = job[d])
        /\ Busy(c)' /\ job'[c].at = "open" /\ job'[c].signal = s
    BY <1>0, <1>1, <1>6, Goes
  <2>2. AtSignal(c)'
    BY <1>1, <1>2, <1>4, <1>6, <2>1 DEF AtSignal
  <2>3. Jobs' /\ EndedAlike' /\ FillsAreTrades'
    BY <1>0, <1>1, <1>2, <1>4, <2>1, <2>2, OthersKeep
  <2> QED BY <1>1, <1>4, <2>1, <2>3 DEF TrailInv, TrailType
<1> QED BY <1>5, <1>6

LEMMA RecordFillKeeps ==
  ASSUME TrailInv, NEW c \in Submitters, Replayed!RecordFill(c)
  PROVE  TrailInv'
<1>0. PICK s, row : s = job[c].signal
                    /\ row = Replayed!Row("trade.fill", job[c].signal, job[c].trade, "none")
  OBVIOUS
<1>1. /\ job[c].at = "record" /\ Replayed!Write(row) /\ Replayed!Done(c)
      /\ UNCHANGED <<trades, signals, restarts, cut>>
  BY <1>0 DEF Replayed!RecordFill
<1>2. Busy(c) /\ AtSignal(c) /\ s \in 1 .. signals
  BY <1>0, <1>1, JobKinds
<1>3. s \in Nat /\ row \in Rows /\ row.signal = s /\ row.what = "none" /\ row.action = "trade.fill"
  <2>1. s \in Nat /\ job[c].trade \in Nat
    <3>1. job[c] \in Duties
      BY DEF TrailInv, TrailType
    <3> QED BY <1>2, <3>1 DEF TrailInv, TrailType, Duties
  <2> QED BY <1>0, <2>1 DEF Replayed!Row, Rows
<1>4. FilledRow(s) /\ Booked(s) /\ BookedFilled(s) /\ ~BlockedRow(s)
  BY <1>0, <1>1, <1>2 DEF AtSignal, Booked, BookedFilled
<1>5. /\ Others(s) /\ audit' \in Seq(Rows) /\ RowsSay' /\ Ended(s)'
      /\ RecordedRow(s)' => BookedFilled(s)'
  BY <1>1, <1>2, <1>3, <1>4, RowOf DEF Ended
<1>6. /\ job' \in [Submitters -> Duties] /\ (\A d \in Submitters \ {c} : job'[d] = job[d])
      /\ ~Busy(c)'
  BY <1>1, Stops
<1>7. Jobs' /\ EndedAlike' /\ FillsAreTrades'
  BY <1>0, <1>1, <1>2, <1>5, <1>6, OthersKeep
<1> QED BY <1>1, <1>5, <1>6, <1>7 DEF TrailInv, TrailType

(* An audit row of PortfolioService is of no signal.                        *)
LEMMA NoiseWritten ==
  ASSUME TrailInv, NEW action \in {"trade.open", "trade.fill"},
         Replayed!Write(Replayed!Noise(action)), signals' = signals
  PROVE  /\ audit' \in Seq(Rows) /\ RowsSay'
         /\ \A u : u # 0 => (FilledRow(u)' <=> FilledRow(u))
         /\ \A u : u # 0 => (BlockedRow(u)' <=> BlockedRow(u))
         /\ \A u : u # 0 => (RecordedRow(u)' <=> RecordedRow(u))
<1>1. PICK row : row = Replayed!Noise(action)
  OBVIOUS
<1>2. /\ row \in Rows /\ row.signal = 0 /\ row.what = "text"
      /\ Replayed!Write(row)
  BY <1>1 DEF Replayed!Noise, Replayed!Row, Rows
<1>3. /\ TrailType /\ RowsSay /\ signals \in Nat /\ signals' \in Nat /\ signals <= signals'
      /\ row.signal <= signals'
  BY <1>2 DEF TrailInv, TrailType
<1>4. RowsSay'
  BY <1>2, <1>3, RowSays
<1>5. /\ audit' \in Seq(Rows)
      /\ \A u : FilledRow(u)' <=> FilledRow(u) \/ (row.signal = u /\ row.what = "filled")
      /\ \A u : BlockedRow(u)' <=> BlockedRow(u) \/ (row.signal = u /\ row.what = "blocked")
      /\ \A u : RecordedRow(u)' <=> RecordedRow(u) \/ (row.signal = u /\ row.action = "trade.fill")
  BY <1>2, <1>3, RowWritten
<1> QED BY <1>2, <1>4, <1>5

LEMMA OpenKeeps ==
  ASSUME TrailInv, NEW c \in Submitters, NEW side \in {"buy", "sell"}, NEW f \in Fills,
         Replayed!Open(c, side, f.qty, f.price)
  PROVE  TrailInv'
<1>0. PICK s, n, t :
        /\ s = job[c].signal /\ n = Len(trades)
        /\ t = [signal |-> job[c].signal, side |-> side, qty |-> f.qty, price |-> f.price,
                created |-> Len(audit) + 1, status |-> "pending"]
  OBVIOUS
<1>1. /\ job[c].at = "open" /\ trades' = Append(trades, t)
      /\ Replayed!Write(Replayed!Noise("trade.open"))
      /\ job' = [job EXCEPT ![c].at = "fill", ![c].trade = n + 1]
      /\ UNCHANGED <<signals, restarts, cut>>
  BY <1>0 DEF Replayed!Open
<1>2. Busy(c) /\ AtSignal(c) /\ s \in 1 .. signals /\ signals \in Nat /\ s # 0
  BY <1>0, <1>1, JobKinds DEF TrailInv, TrailType
<1>3. /\ audit' \in Seq(Rows) /\ RowsSay'
      /\ \A u : u # 0 => (FilledRow(u)' <=> FilledRow(u))
      /\ \A u : u # 0 => (BlockedRow(u)' <=> BlockedRow(u))
      /\ \A u : u # 0 => (RecordedRow(u)' <=> RecordedRow(u))
  BY <1>1, NoiseWritten
<1>4. t \in TradeRows /\ t.signal = s /\ t.status = "pending"
  <2>1. Len(audit) + 1 \in Nat
    BY DEF TrailInv, TrailType
  <2> QED BY <1>0, <1>2, <2>1 DEF TradeRows
<1>5. /\ trades' \in Seq(TradeRows) /\ n \in Nat
      /\ DOMAIN trades = 1 .. n /\ DOMAIN trades' = 1 .. (n + 1)
      /\ trades'[n + 1] = t /\ \A k \in 1 .. n : trades'[k] = trades[k] /\ k \in 1 .. (n + 1)
      /\ \A k \in 1 .. (n + 1) : k \in 1 .. n \/ k = n + 1
      /\ n + 1 \in 1 .. (n + 1)
  <2>1. trades \in Seq(TradeRows)
    BY DEF TrailInv, TrailType
  <2> QED BY <1>0, <1>1, <1>4, <2>1
<1>6. Others(s)
  <2>1. \A u : u # s => (Booked(u)' <=> Booked(u))
    BY <1>4, <1>5 DEF Booked
  <2>2. \A u : BookedFilled(u) => BookedFilled(u)'
    BY <1>5 DEF BookedFilled
  <2> QED BY <1>3, <1>5, <2>1, <2>2 DEF Others
<1>7. /\ job' \in [Submitters -> Duties] /\ \A d \in Submitters \ {c} : job'[d] = job[d]
      /\ job'[c].at = "fill" /\ job'[c].signal = s /\ job'[c].trade = n + 1
      /\ Busy(c)'
  <2>1. job \in [Submitters -> Duties]
    BY DEF TrailInv, TrailType
  <2>2. job[c] \in Duties
    BY <2>1
  <2>3. PICK x : x = [job[c] EXCEPT !.at = "fill"]
    OBVIOUS
  <2>4. x \in Duties /\ x.at = "fill" /\ x.signal = s
    BY <1>0, <2>2, <2>3 DEF Duties
  <2>5. PICK y : y = [x EXCEPT !.trade = n + 1]
    OBVIOUS
  <2>6. y \in Duties /\ y.at = "fill" /\ y.signal = s /\ y.trade = n + 1
    <3>1. n + 1 \in Nat
      BY <1>5
    <3> QED BY <2>4, <2>5, <3>1 DEF Duties
  <2>7. job' = [job EXCEPT ![c] = y]
    BY <1>1, <2>1, <2>3, <2>5
  <2>8. /\ job'[c] = y /\ job' \in [Submitters -> Duties]
        /\ \A d \in Submitters \ {c} : job'[d] = job[d]
    BY <2>1, <2>6, <2>7
  <2> QED BY <2>6, <2>8 DEF Busy, Replayed!Idle
<1>8. AtSignal(c)'
  <2>1. FilledRow(s)' /\ ~BlockedRow(s)'
    BY <1>0, <1>1, <1>2, <1>3 DEF AtSignal
  <2> QED BY <1>1, <1>2, <1>4, <1>5, <1>7, <2>1 DEF AtSignal
<1>9. RecordedRow(s)' => BookedFilled(s)'
  <2>1. RecordedRow(s) => BookedFilled(s)
    BY <1>2 DEF TrailInv, FillsAreTrades
  <2>2. BookedFilled(s) => BookedFilled(s)'
    BY <1>5 DEF BookedFilled
  <2> QED BY <1>2, <1>3, <2>1, <2>2
<1>10. Jobs' /\ EndedAlike' /\ FillsAreTrades'
  BY <1>0, <1>1, <1>2, <1>6, <1>7, <1>8, <1>9, OthersKeep
<1>11. \A k \in DOMAIN trades' : trades'[k].signal \in 1 .. signals'
  BY <1>1, <1>2, <1>4, <1>5 DEF TrailInv
<1> QED BY <1>1, <1>3, <1>5, <1>7, <1>10, <1>11 DEF TrailInv, TrailType

LEMMA FillTradeKeeps ==
  ASSUME TrailInv, NEW c \in Submitters, Replayed!FillTrade(c)
  PROVE  TrailInv'
<1>0. PICK s, k : s = job[c].signal /\ k = job[c].trade
  OBVIOUS
<1>1. /\ job[c].at = "fill" /\ trades' = [trades EXCEPT ![k].status = "filled"]
      /\ Replayed!Write(Replayed!Noise("trade.fill")) /\ Replayed!Go(c, "record")
      /\ UNCHANGED <<signals, restarts, cut>>
  BY <1>0 DEF Replayed!FillTrade
<1>2. Busy(c) /\ AtSignal(c) /\ s \in 1 .. signals /\ signals \in Nat /\ s # 0
  BY <1>0, <1>1, JobKinds DEF TrailInv, TrailType
<1>3. /\ audit' \in Seq(Rows) /\ RowsSay'
      /\ \A u : u # 0 => (FilledRow(u)' <=> FilledRow(u))
      /\ \A u : u # 0 => (BlockedRow(u)' <=> BlockedRow(u))
      /\ \A u : u # 0 => (RecordedRow(u)' <=> RecordedRow(u))
  BY <1>1, NoiseWritten
<1>4. k \in DOMAIN trades /\ trades[k].signal = s
  BY <1>0, <1>1, <1>2 DEF AtSignal
<1>5. /\ trades' \in Seq(TradeRows) /\ DOMAIN trades' = DOMAIN trades
      /\ trades'[k].signal = s /\ trades'[k].status = "filled"
      /\ \A j \in DOMAIN trades : trades'[j].signal = trades[j].signal
      /\ \A j \in DOMAIN trades : j # k => trades'[j] = trades[j]
  <2>1. trades \in Seq(TradeRows)
    BY DEF TrailInv, TrailType
  <2>2. trades[k] \in TradeRows
    BY <1>4, <2>1
  <2> DEFINE filled == [trades[k] EXCEPT !.status = "filled"]
  <2>3. filled \in TradeRows /\ filled.signal = s /\ filled.status = "filled"
    BY <1>4, <2>2 DEF TradeRows
  <2>4. trades' = [trades EXCEPT ![k] = filled]
    BY <1>1, <1>4, <2>1
  <2> HIDE DEF filled
  <2> QED BY <1>4, <2>1, <2>3, <2>4
<1>6. Others(s) /\ BookedFilled(s)' /\ Booked(s)'
  <2>1. \A u : Booked(u)' <=> Booked(u)
    BY <1>5 DEF Booked
  <2>2. \A u : u # s => (BookedFilled(u) => BookedFilled(u)')
    BY <1>4, <1>5 DEF BookedFilled
  <2>3. \A j \in DOMAIN trades : trades[j].signal # s => trades'[j].status = trades[j].status
    BY <1>4, <1>5
  <2>4. BookedFilled(s)' /\ Booked(s)'
    BY <1>4, <1>5 DEF BookedFilled, Booked
  <2> QED BY <1>3, <1>5, <2>1, <2>2, <2>3, <2>4 DEF Others
<1>7. /\ job' \in [Submitters -> Duties] /\ (\A d \in Submitters \ {c} : job'[d] = job[d])
      /\ Busy(c)' /\ job'[c].at = "record" /\ job'[c].signal = s /\ job'[c].trade = k
  BY <1>0, <1>1, Goes
<1>8. AtSignal(c)'
  <2>1. FilledRow(s)' /\ ~BlockedRow(s)'
    BY <1>0, <1>1, <1>2, <1>3 DEF AtSignal
  <2> QED BY <1>1, <1>2, <1>4, <1>5, <1>7, <2>1 DEF AtSignal
<1>9. Jobs' /\ EndedAlike' /\ FillsAreTrades'
  BY <1>0, <1>1, <1>2, <1>6, <1>7, <1>8, OthersKeep
<1>10. \A j \in DOMAIN trades' : trades'[j].signal \in 1 .. signals'
  BY <1>1, <1>5 DEF TrailInv
<1> QED BY <1>1, <1>3, <1>5, <1>7, <1>9, <1>10 DEF TrailInv, TrailType

LEMMA TrailCrashKeeps == ASSUME TrailInv, Replayed!Crash PROVE TrailInv'
<1>1. /\ cut' = cut \cup {job[c].signal : c \in {d \in Submitters : Busy(d)}}
      /\ job' = [c \in Submitters |-> Replayed!Idle]
      /\ UNCHANGED <<audit, trades, signals>>
  BY DEF Replayed!Crash, Busy
<1>2. job' \in [Submitters -> Duties] /\ \A c \in Submitters : ~Busy(c)'
  BY <1>1 DEF Replayed!Idle, Duties, Busy
<1>3. Jobs'
  BY <1>2 DEF Jobs
<1>4. ASSUME NEW u \in 1 .. signals, u \notin cut' PROVE Ended(u)'
  <2>1. u \notin cut /\ \A c \in Submitters : Busy(c) => job[c].signal # u
    BY <1>1, <1>4
  <2>2. Ended(u)
    BY <2>1 DEF TrailInv, EndedAlike
  <2> QED BY <1>1, <2>2, SameTrades, SameTrail DEF Ended
<1>5. EndedAlike'
  BY <1>1, <1>4 DEF EndedAlike
<1>6. FillsAreTrades'
  BY <1>1, SameTrades, SameTrail DEF TrailInv, FillsAreTrades
<1> QED BY <1>1, <1>2, <1>3, <1>5, <1>6 DEF TrailInv, TrailType, RowsSay, Signal

LEMMA TrailInit == ASSUME Replayed!Init PROVE TrailInv
<1>1. /\ audit = <<>> /\ trades = <<>> /\ signals = 0
      /\ job = [c \in Submitters |-> Replayed!Idle]
  BY DEF Replayed!Init
<1>2. audit \in Seq(Rows) /\ trades \in Seq(TradeRows) /\ DOMAIN audit = {} /\ DOMAIN trades = {}
  BY <1>1
<1>3. job \in [Submitters -> Duties] /\ \A c \in Submitters : ~Busy(c)
  BY <1>1 DEF Duties, Replayed!Idle, Busy
<1>4. \A s : ~RecordedRow(s)
  BY <1>2 DEF RecordedRow
<1>5. 1 .. signals = {} /\ signals \in Nat
  BY <1>1
<1> QED BY <1>2, <1>3, <1>4, <1>5
      DEF TrailInv, TrailType, RowsSay, Jobs, EndedAlike, FillsAreTrades

LEMMA TrailStep == ASSUME TrailInv, [Replayed!Next]_Replayed!vars PROVE TrailInv'
<1>1. ASSUME NEW c \in Submitters, Replayed!Submit(c) PROVE TrailInv'
  BY <1>1, BeginKeeps, DropKeeps, RaiseKeeps, DecideKeeps, OrderPlacedKeeps, OpenKeeps,
     FillTradeKeeps, RecordFillKeeps DEF Replayed!Submit
<1>2. CASE UNCHANGED Replayed!vars
  <2>1. UNCHANGED <<audit, trades, job, signals, cut>>
    BY <1>2 DEF Replayed!vars
  <2>2. /\ \A u : Booked(u)' <=> Booked(u)
        /\ \A u : BookedFilled(u)' <=> BookedFilled(u)
        /\ \A u : FilledRow(u)' <=> FilledRow(u)
        /\ \A u : BlockedRow(u)' <=> BlockedRow(u)
        /\ \A u : RecordedRow(u)' <=> RecordedRow(u)
    BY <2>1, SameTrades, SameTrail
  <2>3. Jobs' /\ EndedAlike' /\ FillsAreTrades'
    BY <2>1, <2>2 DEF TrailInv, Jobs, EndedAlike, FillsAreTrades, Busy, AtSignal, Ended
  <2> QED BY <2>1, <2>3 DEF TrailInv, TrailType, RowsSay, Signal
<1> QED BY <1>1, <1>2, TrailCrashKeeps DEF Replayed!Next

(* Of an order that nobody is at, the rows that a replay reads say what the *)
(* trades say.                                                              *)
LEMMA TrailSafe == ASSUME TrailInv PROVE Replayed!ChainsAreTrue
<1> SUFFICES ASSUME Replayed!Quiet, NEW w \in Replayed!Windows,
                    NEW s \in Replayed!Replayed(w[1], w[2])
             PROVE  Replayed!ChainIsTrue(s, w[1], w[2])
  BY DEF Replayed!ChainsAreTrue
<1>0. PICK a, b : a = w[1] /\ b = w[2]
  OBVIOUS
<1>1. /\ Replayed!Entries(a, b) \subseteq Replayed!Read(a, b)
      /\ Replayed!Read(a, b) \subseteq DOMAIN audit
      /\ \A r \in Replayed!Read(a, b) : audit[r].signal # 0 => r \in Replayed!Entries(a, b)
  BY DEF Replayed!Entries, Replayed!Read
<1>2. s \in 1 .. signals /\ s # 0 /\ s \in Nat \ {0}
  <2>1. PICK r \in Replayed!Entries(a, b) : s = audit[r].signal
    BY <1>0 DEF Replayed!Replayed
  <2>2. r \in DOMAIN audit /\ s # 0
    BY <1>1, <2>1 DEF Replayed!Entries
  <2>3. audit[r] \in Rows /\ s <= signals /\ signals \in Nat
    BY <2>1, <2>2 DEF TrailInv, TrailType, RowsSay, Signal
  <2>4. s \in Nat
    BY <2>1, <2>3 DEF Rows
  <2> QED BY <2>2, <2>3, <2>4
<1>3. s \notin cut => Ended(s)
  BY <1>2 DEF TrailInv, EndedAlike, Replayed!Quiet, Busy
<1>4. RecordedRow(s) => BookedFilled(s)
  BY <1>2 DEF TrailInv, FillsAreTrades
<1>5. Replayed!Complete(s, a, b) => RecordedRow(s)
  BY <1>1 DEF Replayed!Complete, Replayed!Steps, RecordedRow, Signal
<1>6. Replayed!Blocked(s, a, b) => BlockedRow(s)
  BY <1>1 DEF Replayed!Blocked, Replayed!Steps, BlockedRow, Signal
<1>7. BookedFilled(s) => Booked(s)
  BY DEF BookedFilled, Booked
<1>8. ASSUME Replayed!RowsOf(s) \subseteq Replayed!Read(a, b), FilledRow(s), RecordedRow(s)
      PROVE  Replayed!Complete(s, a, b)
  <2>1. PICK r \in DOMAIN audit : audit[r].signal = s /\ audit[r].action = "trade.fill"
    BY <1>8 DEF RecordedRow, Signal
  <2>2. PICK q \in DOMAIN audit : audit[q].signal = s /\ audit[q].what = "filled"
    BY <1>8 DEF FilledRow, Signal
  <2>3. audit[q].action = "order.placed"
    BY <2>2 DEF TrailInv, RowsSay
  <2>4. r \in Replayed!Entries(a, b) /\ q \in Replayed!Entries(a, b)
    BY <1>1, <1>2, <1>8, <2>1, <2>2 DEF Replayed!RowsOf
  <2> QED BY <2>1, <2>2, <2>3, <2>4 DEF Replayed!Complete, Replayed!Steps
<1>9. Booked(s) <=> Replayed!TradesOf(s) # {}
  BY DEF Booked, Replayed!TradesOf
<1>10. Replayed!Complete(s, a, b) => \E t \in Replayed!TradesOf(s) : trades[t].status = "filled"
  BY <1>4, <1>5 DEF BookedFilled, Replayed!TradesOf
<1>11. ASSUME Replayed!RowsOf(s) \subseteq Replayed!Read(a, b), s \notin cut
       PROVE  /\ Replayed!Complete(s, a, b) <=> Replayed!TradesOf(s) # {}
              /\ Replayed!Blocked(s, a, b) => Replayed!TradesOf(s) = {}
              /\ Replayed!Complete(s, a, b) \/ ~FilledRow(s)
  BY <1>3, <1>4, <1>5, <1>6, <1>7, <1>8, <1>9, <1>11 DEF Ended
<1>12. ~FilledRow(s) => \A r \in Replayed!RowsOf(s) : audit[r].what # "filled"
  BY DEF FilledRow, Signal, Replayed!RowsOf
<1>13. Replayed!ChainIsTrue(s, a, b)
  BY <1>10, <1>11, <1>12 DEF Replayed!ChainIsTrue
<1> QED BY <1>0, <1>13

(* The first half of ReplayTellsTheTruth, for any callers, fills, signals,  *)
(* restarts and limit of rows: of every order a replay shows, a complete    *)
(* chain has its trade filled, and if no row of it is missing and it was    *)
(* not cut short the chain is complete exactly when there is a trade and    *)
(* blocked only when there is none (replay_service.py, _build_chain).       *)
THEOREM ChainsTellTheTruth == ReplaySpec => []Replayed!ChainsAreTrue
<1>1. Replayed!Init => TrailInv
  BY TrailInit
<1>2. TrailInv /\ [Replayed!Next]_Replayed!vars => TrailInv'
  BY TrailStep
<1>3. TrailInv => Replayed!ChainsAreTrue
  BY TrailSafe
<1> QED BY <1>1, <1>2, <1>3, PTL DEF ReplaySpec, Replayed!Spec

=============================================================================
