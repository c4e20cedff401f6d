-------------------------------- MODULE Paging --------------------------------
(***************************************************************************)
(* The two timer threads of a process that page the on-call engineer: the   *)
(* probe scheduler (infrastructure/probe_scheduler.py), which pages when a  *)
(* dependency fails or recovers, and the backup scheduler                   *)
(* (infrastructure/backup_scheduler.py), whose failures are paged through   *)
(* the notification service; both through the router of infrastructure/     *)
(* notifiers/oncall_router.py, which tries every transport.                 *)
(*                                                                          *)
(* Abstractions.  What a probe finds, and whether a transport delivers      *)
(* after its retries, is a choice.  Probes and transports are sets: the     *)
(* order of the lists they are in is left out.  An on-call router is        *)
(* configured, and a page below its severity does not occur (both threads   *)
(* page CRITICAL).                                                          *)
(***************************************************************************)
EXTENDS Naturals

CONSTANTS
  Probes,       \* the dependencies probed
  Transports,   \* the on-call transports of the router
  NoProbe       \* "no page in hand"

VARIABLES
  at,         \* where each scheduler's thread is; off: no thread is alive
  stopEvent,  \* _stop_event of each scheduler
  left,       \* the transports route() has not tried, per thread
  got,        \* delivered, the local of route(), per thread
  todo,       \* the probes this tick has not run
  hand,       \* the probe whose page is under way
  last,       \* _last: the latest result of each probe
  wanted,     \* history: start() was called after the last stop()
  told,       \* history: what the pager last heard of each probe
  unheard,    \* history: probes of which it missed something since
  attempts    \* history: pages of a failure since its last good result, up to 2

sched == <<at, stopEvent, wanted>>
routing == <<left, got>>
probing == <<todo, hand, last>>
pager == <<told, unheard, attempts>>
vars == <<sched, routing, probing, pager>>

Threads == {"probes", "backups"}

(* Types of the threads, the router and the pager; a page is in hand just   *)
(* while it is paged.                                                       *)
TypeOK ==
  /\ at \in [Threads -> {"off", "wait", "work", "audit", "route"}]
  /\ stopEvent \in [Threads -> BOOLEAN]
  /\ left \in [Threads -> SUBSET Transports] /\ got \in [Threads -> BOOLEAN]
  /\ todo \subseteq Probes /\ hand \in Probes \cup {NoProbe}
  /\ (hand # NoProbe) <=> (at["probes"] \in {"audit", "route"})
  /\ last \in [Probes -> {"none", "ok", "bad"}]
  /\ wanted \in BOOLEAN
  /\ told \in [Probes -> {"none", "ok", "bad"}]
  /\ unheard \subseteq Probes
  /\ attempts \in [Probes -> 0..2]

Init ==
  /\ at = [x \in Threads |-> "off"]
  /\ stopEvent = [x \in Threads |-> FALSE]
  /\ left = [x \in Threads |-> {}] /\ got = [x \in Threads |-> FALSE]
  /\ todo = {} /\ hand = NoProbe
  /\ last = [p \in Probes |-> "none"]
  /\ wanted = FALSE
  /\ told = last /\ unheard = {}
  /\ attempts = [p \in Probes |-> 0]

-----------------------------------------------------------------------------
GoTo(x, step) == at' = [at EXCEPT ![x] = step]

(* The orchestrator's start() and run_forever() call start() of both: it    *)
(* does nothing if the thread is alive, also one that is stopping.          *)
Start ==
  /\ wanted' = TRUE
  /\ at' = [x \in Threads |-> IF at[x] = "off" THEN "wait" ELSE at[x]]
  /\ stopEvent' = [x \in Threads |-> at[x] # "off" /\ stopEvent[x]]
  /\ UNCHANGED <<routing, probing, pager>>

(* stop() of both: the join gives up after 5 s, so it may return before the *)
(* thread has ended.                                                        *)
Stop ==
  /\ wanted' = FALSE
  /\ stopEvent' = [x \in Threads |-> TRUE]
  /\ UNCHANGED <<at, routing, probing, pager>>

(* _loop: the event is set while it waits, or when it comes back.           *)
EndLoop(x) ==
  /\ at[x] = "wait"
  /\ stopEvent[x]
  /\ GoTo(x, "off")
  /\ UNCHANGED <<stopEvent, wanted, routing, probing, pager>>

(* The interval has passed.                                                 *)
Tick(x) ==
  /\ at[x] = "wait"
  /\ ~stopEvent[x]
  /\ GoTo(x, "work")
  /\ todo' = IF x = "probes" THEN Probes ELSE todo
  /\ UNCHANGED <<stopEvent, wanted, routing, hand, last, pager>>

-----------------------------------------------------------------------------
(* run_once.                                                                *)

Results == {"ok", "bad"}

(* Mutant: a failure pages every time.                                     *)
EdgeAlways(p, result) == result = "bad" \/ last[p] = "bad"

(* The results that page: a failure after a good result or none, a good     *)
(* result after a failure.                                                  *)
Edge(p, result) ==
  \/ result = "bad" /\ last[p] # "bad"
  \/ result = "ok" /\ last[p] = "bad"

(* A probe runs; the result is stored before it is paged.                   *)
RunProbe(p, result) ==
  /\ at["probes"] = "work"
  /\ p \in todo
  /\ todo' = todo \ {p}
  /\ last' = [last EXCEPT ![p] = result]
  /\ IF Edge(p, result) THEN GoTo("probes", "audit") /\ hand' = p
                ELSE UNCHANGED <<at, hand>>
  /\ attempts' = [attempts EXCEPT ![p] =
       IF result = "ok" THEN 0 ELSE IF Edge(p, result) /\ @ < 2 THEN @ + 1 ELSE @]
  /\ UNCHANGED <<stopEvent, wanted, routing, told, unheard>>

EndTick ==
  /\ at["probes"] = "work"
  /\ todo = {}
  /\ GoTo("probes", "wait")
  /\ UNCHANGED <<stopEvent, wanted, routing, probing, pager>>

-----------------------------------------------------------------------------
(* _run_once of the backup scheduler: create_backup returns ...             *)
BackUp ==
  /\ at["backups"] = "work"
  /\ GoTo("backups", "wait")
  /\ UNCHANGED <<stopEvent, wanted, routing, probing, pager>>

(* ... or raises: _record_failure, and on_failure, which is                 *)
(* NotificationService.critical: the console, then the router.              *)
BackupFails ==
  /\ at["backups"] = "work"
  /\ left' = [left EXCEPT !["backups"] = Transports]
  /\ got' = [got EXCEPT !["backups"] = FALSE]
  /\ GoTo("backups", "route")
  /\ UNCHANGED <<stopEvent, wanted, probing, pager>>

-----------------------------------------------------------------------------
(* _page: the audit record, then OnCallRouter.route.                        *)
BeginPage ==
  /\ at["probes"] = "audit"
  /\ left' = [left EXCEPT !["probes"] = Transports]
  /\ got' = [got EXCEPT !["probes"] = FALSE]
  /\ GoTo("probes", "route")
  /\ UNCHANGED <<stopEvent, wanted, probing, pager>>

(* The pager hears of p, or it does not.                                    *)
Heard(p) == told' = [told EXCEPT ![p] = last[p]] /\ unheard' = unheard \ {p}
NotHeard(p) == unheard' = unheard \cup {p} /\ UNCHANGED told

(* transport.deliver is acknowledged; the others are tried all the same ... *)
Acknowledged(x, t) ==
  /\ at[x] = "route"
  /\ t \in left[x]
  /\ left' = [left EXCEPT ![x] = @ \ {t}]
  /\ got' = [got EXCEPT ![x] = TRUE]
  /\ IF x = "probes" THEN Heard(hand) ELSE UNCHANGED <<told, unheard>>
  /\ UNCHANGED <<sched, probing, attempts>>

(* ... or raises OnCallDeliveryError after its retries, which is logged.    *)
NotAcknowledged(x, t) ==
  /\ at[x] = "route"
  /\ t \in left[x]
  /\ left' = [left EXCEPT ![x] = @ \ {t}]
  /\ UNCHANGED <<sched, got, probing, pager>>

(* The thread leaves the router.                                            *)
LeaveRoute(x, step) ==
  /\ GoTo(x, step)
  /\ left' = [left EXCEPT ![x] = {}] /\ got' = [got EXCEPT ![x] = FALSE]

(* The page was taken, or route() raised OnCallDeliveryError, which _page   *)
(* logs: on to the next probe.                                              *)
Paged ==
  /\ at["probes"] = "route"
  /\ left["probes"] = {}
  /\ IF got["probes"] THEN UNCHANGED <<told, unheard>> ELSE NotHeard(hand)
  /\ hand' = NoProbe
  /\ LeaveRoute("probes", "work")
  /\ UNCHANGED <<stopEvent, wanted, todo, last, attempts>>

(* The audit or a transport raises something else ...                       *)
PageRaises(step) ==
  /\ at["probes"] \in {"audit", "route"}
  /\ IF got["probes"] THEN UNCHANGED <<told, unheard>> ELSE NotHeard(hand)
  /\ hand' = NoProbe
  /\ todo' = {}
  /\ LeaveRoute("probes", step)
  /\ UNCHANGED <<stopEvent, wanted, last, attempts>>

(* Mutants: ... and ends the loop; ... and the page stays in hand.          *)
TickLost == PageRaises("off")
TickFailsHolding ==
  /\ at["probes"] \in {"audit", "route"}
  /\ LeaveRoute("probes", "wait")
  /\ UNCHANGED <<stopEvent, wanted, probing, pager>>

(* ... and run_once ends, with the rest of its probes; _loop logs it.       *)
TickFails == PageRaises("wait")

(* The page of a failed backup was taken.                                   *)
BackupAlerted ==
  /\ at["backups"] = "route"
  /\ left["backups"] = {} /\ got["backups"]
  /\ LeaveRoute("backups", "wait")
  /\ UNCHANGED <<stopEvent, wanted, probing, pager>>

(* It was not, or a transport or the audit raised: the exception goes       *)
(* through on_failure, _run_once and _loop, and the thread ends.            *)
BackupThreadDies ==
  /\ at["backups"] = "route"
  /\ LeaveRoute("backups", "off")
  /\ UNCHANGED <<stopEvent, wanted, probing, pager>>

-----------------------------------------------------------------------------
(* The process dies and comes back: _last is empty, so that what has        *)
(* recovered meanwhile is never paged as recovered.                         *)
Restart ==
  /\ at' = [x \in Threads |-> "off"]
  /\ stopEvent' = [x \in Threads |-> FALSE]
  /\ wanted' = FALSE
  /\ todo' = {} /\ hand' = NoProbe
  /\ last' = [p \in Probes |-> "none"]
  /\ attempts' = [p \in Probes |-> 0]
  /\ unheard' = unheard \cup {p \in Probes : told[p] = "bad"}
  /\ left' = [x \in Threads |-> {}] /\ got' = [x \in Threads |-> FALSE]
  /\ UNCHANGED told

-----------------------------------------------------------------------------
ProbeThread ==
  \/ EndLoop("probes") \/ Tick("probes")
  \/ \E p \in Probes, result \in Results : RunProbe(p, result)
  \/ EndTick \/ BeginPage
  \/ \E t \in Transports : Acknowledged("probes", t) \/ NotAcknowledged("probes", t)
  \/ Paged \/ TickFails

BackupThread ==
  \/ EndLoop("backups") \/ Tick("backups")
  \/ BackUp \/ BackupFails
  \/ \E t \in Transports : Acknowledged("backups", t) \/ NotAcknowledged("backups", t)
  \/ BackupAlerted \/ BackupThreadDies

Next ==
  \/ Start \/ Stop
  \/ ProbeThread
  \/ BackupThread
  \/ Restart

Spec == Init /\ [][Next]_vars

(* Timers fire and threads run.                                             *)
FairSpec == Spec /\ WF_vars(ProbeThread) /\ WF_vars(BackupThread)

-----------------------------------------------------------------------------
(* "a down dependency pages once instead of alerting every 30 seconds"      *)
(* (probe_scheduler.py, docstring), however its pages fail and the tick is  *)
(* broken off.                                                              *)
PagesOncePerOutage == \A p \in Probes : attempts[p] <= 1

(* The pager's picture of a probe is the scheduler's: they differ only when *)
(* nobody took the last page, the paging raised, or the process was         *)
(* restarted after a failure was paged.                                     *)
PagerKnows ==
  \A p \in Probes \ {hand} :
    last[p] # "none" /\ p \notin unheard => (told[p] = "bad" <=> last[p] = "bad")

(* "one bad tick must not kill the loop" (probe_scheduler.py, _loop): as    *)
(* long as they are to run, and start() did not meet the stopping thread,   *)
(* the probes are run again and again, and so are the backups unless the    *)
(* page of a failed one has ended their thread.                             *)
TimersGoOn ==
  /\ <>[](wanted /\ ~stopEvent["probes"]) => []<>(at["probes"] = "work")
  /\ <>[](wanted /\ ~stopEvent["backups"] /\ at["backups"] # "off")
       => []<>(at["backups"] = "work")

=============================================================================
